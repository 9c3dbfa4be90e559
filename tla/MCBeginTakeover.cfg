SPECIFICATION FairSpec
CONSTANTS
  T = T
  Client = {r1, r2, T}
  Reader = {r1, r2}
  Writer = {}
  Worker = {}
  Session = {s1, s2}
  None = None
  MaxOpened = 2
  MinOpened = 1
  MaxBurst = 1
  WriteSessions = 0
  Faults = {"create"}
PROPERTY TakesOver
CHECK_DEADLOCK FALSE
