SPECIFICATION Spec
CONSTANTS
  r1 = r1
  r2 = r2
  k1 = k1
  k2 = k2
  c1 = c1
  c2 = c2
  s1 = s1
  s2 = s2
  None = None
  Runs <- MCRuns
  Clients <- MCClients
  Compilations <- MCCompilations
  Slots <- MCSlots
  Faults = {"ack"}
  MaxFaults = 1
SYMMETRY Symmetry
CHECK_DEADLOCK FALSE
INVARIANT
  RuntimeHoldsKey
