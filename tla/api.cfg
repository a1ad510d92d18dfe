SPECIFICATION ApiSpec
CONSTANTS
  Nil = Nil
  Empty = Empty
  Malformed = Malformed
  u1 = u1
  u2 = u2
  u3 = u3
  u4 = u4
  t1 = t1
  t1b = t1b
  t2 = t2
  blank = blank
  p1 = p1
  p2 = p2
  User = {u1, u2, u3, u4}
  Team = {t1, t1b, t2, blank}
  PR = {p1, p2}
  Client = {c1, c2}
  Request = {}
  Seeds <- OneTeam
  Calls <- AllCalls
  Trim <- TrimSpace
  Timeouts = TRUE
  MaxRequests = 3
  MaxTries = 3
INVARIANTS
  ApiTypeOK
  MergeAnswerIsFinal
  RefusalChangesNothing
  RetriesApplyOnce
  TeamAnswerExplained
