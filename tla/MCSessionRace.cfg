SPECIFICATION PagesSpec
CONSTANTS
  Visit = {r1, r2, r3}
  Sid = {s1, s2}
  Account = {a1}
  Nobody = Nobody
PROPERTY LoginStays
CHECK_DEADLOCK FALSE
