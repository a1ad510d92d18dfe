SPECIFICATION Spec
CONSTANTS
  Client = {c1, c2}
  Nil = Nil
  Timeout = 2
  Lag = 1
  MaxClock = 4
SYMMETRY ClientSymmetry
CONSTRAINT ShortHistory
INVARIANTS
  TypeOK
  StampsFollowCommits
  MergesAgree
