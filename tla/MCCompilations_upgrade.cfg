SPECIFICATION Spec
CONSTANTS
  c1 = c1
  c2 = c2
  p1 = p1
  b1 = b1
  b2 = b2
  k1 = k1
  k2 = k2
  i1 = i1
  i2 = i2
  None = None
  Compilations <- MCCompilations
  Publications <- MCPublications
  Builds <- TwoBuilds
  Clients <- OneClient
  Calls <- MCCalls
  FileCount = 2
  Faults = {"upgrade"}
  MaxFaults = 1
CHECK_DEADLOCK FALSE
INVARIANT
  HistoricalContentKept
