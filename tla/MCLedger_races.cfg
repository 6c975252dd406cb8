SPECIFICATION Spec
CONSTANTS
  a1 = a1
  n1 = n1
  n2 = n2
  k1 = k1
  k2 = k2
  r1 = r1
  r2 = r2
  x1 = x1
  x2 = x2
  None = None
  Applications <- MCApplications
  Names <- MCNames
  Clients <- MCClients
  Reviews <- MCReviews
  Alternatives <- MCAlternatives
  MaxDrafts = 3
SYMMETRY Symmetry
CHECK_DEADLOCK FALSE
INVARIANTS
  TypeOK
  AppliedProductIsItsDraft
  NothingAppliedUndecided
  TemplateDraftOpens
PROPERTIES
  ImplementsHistory
  ChoiceStands
