SPECIFICATION FairRunsSpec
CONSTANTS
  c1 = c1
  c2 = c2
  p1 = p1
  b1 = b1
  b2 = b2
  k1 = k1
  k2 = k2
  i1 = i1
  i2 = i2
  r1 = r1
  None = None
  Compilations <- MCCompilations
  Publications <- MCPublications
  Builds <- OneBuild
  Clients <- MCClients
  Calls <- MCCalls
  Runs <- MCRuns
  FileCount = 2
  Faults <- Delivery
  MaxFaults = 2
CHECK_DEADLOCK FALSE
INVARIANTS
  RegisteredIsOnDisk
  SequencesDense
PROPERTY
  JobIsDecided
  RunIsConcluded
