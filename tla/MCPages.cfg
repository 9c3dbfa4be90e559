SPECIFICATION MCSpec
CONSTANTS
  Request = {u1, u2}
  Sep = Sep
  None = None
  a = a
  blank = blank
  x = x
  y = y
  z = z
  Char = {a, Sep, blank}
  Byte = {x, y, z}
  Routed = {a, Sep}
  Form <- MCForm
  Faults = {"open", "copy"}
  Default = Default
  RunMode = RunMode
  NoName = NoName
  NoHeader = NoHeader
  test = test
  k = k
  Section = {Default, test}
  Key = {RunMode, k}
  Word = {Default, test, x}
  Files <- MCConfFiles
  Visit = {r1, r2, r3}
  s1 = s1
  Sid = {s1, s2}
  Account = {a1, a2}
  Nobody = Nobody
INVARIANTS ListedOnce DownloadsAsUploaded MapAsMeant ReadAsMeant
INVARIANTS EntryLoggedIn RefusedOnlyIfReplaced NoneAnsweredLate
CHECK_DEADLOCK FALSE
