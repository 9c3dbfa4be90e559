SPECIFICATION Spec
CONSTANTS
  T = T
  Client = {c1, r1, r2, T}
  Reader = {r1, r2}
  Writer = {c1}
  Worker = {w1}
  Session = {s1, s2, s3}
  None = None
  MaxOpened = 2
  MinOpened = 1
  MaxBurst = 1
  WriteSessions = 50
  Faults = {"create", "begin", "gone", "age"}
SYMMETRY Symmetry
INVARIANTS Accounted OnePlace WaitsForReason WaitsForBegin
PROPERTY NothingLost
CHECK_DEADLOCK FALSE
