SPECIFICATION Spec
CONSTANTS
  d1 = d1
  d2 = d2
  NoDomain = NoDomain
  Domain <- MCDomain
  Call = {c1, c2, c3}
  ResultCap = 2
  InitialTable <- MCOneRow
  InitialId <- MCInitialId
  Faults = {"db", "crash"}
SYMMETRY Symmetry
INVARIANTS ListedAreWaiting WaitersAreListed
PROPERTIES ImplementsService
CHECK_DEADLOCK FALSE
