SPECIFICATION RunsSpec
CONSTANTS
  c1 = c1
  c2 = c2
  p1 = p1
  b1 = b1
  b2 = b2
  k1 = k1
  k2 = k2
  i1 = i1
  i2 = i2
  r1 = r1
  None = None
  Compilations <- MCCompilations
  Publications <- MCPublications
  Builds <- TwoBuilds
  Clients <- OneClient
  Calls <- MCCalls
  Runs <- MCRuns
  FileCount = 2
  Faults <- EveryFault
  MaxFaults = 3
SYMMETRY Symmetry
CHECK_DEADLOCK FALSE
INVARIANTS
  TypeOK
  AnnouncedFilesExist
  EnvironmentRunsTheRecord
  CleanupIsTrue
PROPERTY
  ImplementsOutcome
