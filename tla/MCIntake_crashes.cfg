SPECIFICATION Spec
CONSTANTS
  p1 = p1
  p2 = p2
  i1 = i1
  c1 = c1
  c2 = c2
  b1 = b1
  e1 = e1
  e2 = e2
  None = None
  Torn = Torn
  Processes <- MCProcesses
  Readers <- MCReaders
  Identities <- MCIdentities
  Proposals <- MCProposals
  IdentityOf <- MCIdentityOf
  BlobOf <- MCBlobOf
  Executions <- MCExecutions
  Completed <- MCCompleted
  EvidenceOf <- MCEvidenceOf
  Phases = 3
  Workloads <- MCWorkloads
SYMMETRY Symmetry
CHECK_DEADLOCK FALSE
INVARIANTS
  TypeOK
  VisibleIsWhole
  OnlyClaimantsWrite
  KnownIsDurable
  RunIsOneChain
PROPERTY
  ImplementsTimeline
