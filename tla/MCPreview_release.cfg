SPECIFICATION FairSpec
CONSTANTS
  r1 = r1
  r2 = r2
  k1 = k1
  k2 = k2
  c1 = c1
  c2 = c2
  s1 = s1
  s2 = s2
  None = None
  Runs <- MCRuns
  Clients <- OneClient
  Compilations <- MCCompilations
  Slots <- MCSlots
  Faults = {}
  MaxFaults = 0
CHECK_DEADLOCK FALSE
PROPERTY
  StopReleases
