SPECIFICATION FairSpec
CONSTANTS
  e1 = e1
  e2 = e2
  u1 = u1
  u2 = u2
  t1 = t1
  t2 = t2
  t3 = t3
  Request = {r1}
  Plugin <- MCPlugin
  Token = {t1, t2, t3}
  Email = {e1, e2}
  Type = {"line", "slack"}
  Registered = {"line"}
  EpId = {u1, u2}
  Messages <- MCMessages
  NoToken = NoToken
  NoHeader = NoHeader
  None = None
  InitialToken <- MCInitialToken
  InitialSubscribed <- MCSubscribed
  InitialBound <- MCBound
  Faults = {"db", "net"}
INVARIANTS TypeOK DeliveredAsAddressed CallbackReturnsToClaimed
PROPERTY MessagesEnd
CONSTRAINT Bounds
CHECK_DEADLOCK FALSE
