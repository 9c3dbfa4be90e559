SPECIFICATION SubFairSpec
CONSTANTS
  d1 = d1
  guid = guid
  s1 = s1
  s2 = s2
  NoDomain = NoDomain
  Domain <- MCDomain
  Call = {c1, c2}
  ResultCap = 1
  InitialTable <- MCTable
  InitialId = 1
  Faults = {"net", "crash"}
  Sub = {s1, s2}
  OfficeId <- MCOfficeId
  ResourceId <- MCResourceId
INVARIANT DanglesOnlyByFailure
PROPERTIES DanglingStays StartsOrEnds
CHECK_DEADLOCK FALSE
