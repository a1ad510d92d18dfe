SPECIFICATION FairSpec
CONSTANTS
  Nil = Nil
  u1 = u1
  u2 = u2
  u3 = u3
  u4 = u4
  u5 = u5
  t1 = t1
  t2 = t2
  t3 = t3
  p1 = p1
  p2 = p2
  User = {u1, u2, u3, u4}
  Team = {t1, t2, t3}
  PR = {p1, p2}
  Client = {c1, c2}
  Request <- BulkRequests
  Seeds <- BulkSeeds
  Timeouts = FALSE
  MaxRequests = 3
PROPERTIES
  Answered
