SPECIFICATION FairSpec
CONSTANTS
  d1 = d1
  d2 = d2
  NoDomain = NoDomain
  Domain <- MCDomain
  Call = {c1, c2}
  ResultCap = 1
  InitialTable <- MCTable
  InitialId <- MCInitialId
  Faults = {}
PROPERTY GetOfficeTokenReturns
CHECK_DEADLOCK FALSE
