SPECIFICATION StatsSpec
CONSTANTS
  Nil = Nil
  u1 = u1
  u2 = u2
  u3 = u3
  u4 = u4
  t1 = t1
  t2 = t2
  t3 = t3
  p1 = p1
  p2 = p2
  p3 = p3
  User = {u1, u2, u3, u4}
  Team = {t1, t2, t3}
  PR = {p1, p2, p3}
  CreatedAt <- Times
  Seeds <- SomePRs
  Requests <- Reports
  MaxWrites <- Writes
  MaxMembers = 1
CHECK_DEADLOCK FALSE
INVARIANTS
  TypeOK
  MergedReportIsFinal
  HistoryExplainsReviewers
  QuietTotalsAgree
  CountedPRsExist
  MergedTotalsGrow
  CountedMergedAreListed
  FilterIsExact
