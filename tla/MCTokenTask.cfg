SPECIFICATION FairSpec
CONSTANTS
  d1 = d1
  d2 = d2
  NoDomain = NoDomain
  Domain <- MCDomain
  Call = {c1, c2, c3}
  ResultCap = 1
  InitialTable <- MCTable
  InitialId <- MCInitialId
  Faults = {}
INVARIANTS FlightInv OnlySuccessStrands RowKept
PROPERTIES FailureReachesAll FetchesEnd
CHECK_DEADLOCK FALSE
