SPECIFICATION Spec
CONSTANTS
  Id = {e1, e2}
  Subject = {s1}
  Attendee = {g1, g2}
  MaxList = 3
  Room <- MCRoom
  e1 = e1
  e2 = e2
  s1 = s1
  g1 = g1
  g2 = g2
  Absent = Absent
  Calendars <- MCCalendars
  Failures = {"body", "garbled", "none"}
  MaxBad = 2
  None = None
  Panic = Panic
  u = u
  w = w
  s = s
  e = e
  one = one
  other = other
  Char = {u, w, s, e}
  Subscription = {one, other}
  Width <- MCWidth
  Events <- MCEvents
  Request <- MCRequests
INVARIANT CollectedAsSent
CHECK_DEADLOCK FALSE
