SPECIFICATION ApiSpec
CONSTANTS
  Nil = Nil
  Empty = Empty
  Malformed = Malformed
  u1 = u1
  u2 = u2
  u3 = u3
  u4 = u4
  t1 = t1
  t1b = t1b
  t2 = t2
  blank = blank
  p1 = p1
  p2 = p2
  User = {u1}
  Team = {t1, t1b, t2, blank}
  PR = {p1, p2}
  Client = {c1}
  Request = {}
  Seeds <- Solo
  Calls <- SoloCalls
  Trim <- TrimSpace
  Timeouts = TRUE
  MaxRequests = 3
  MaxTries = 2
INVARIANTS
  ReviewersIsArray
