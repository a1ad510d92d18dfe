SPECIFICATION Spec
CONSTANTS
  Handler = {h1, h2, h3}
  Kinds = {"CreateTeam", "MergePR", "PRStats"}
  MaxConns = 2
INVARIANTS
  TypeOK
  NoTransactionKilled
  TimelyStopCutsNobody
  NoServiceWithoutSchema
PROPERTIES
  Stops
  Served
CHECK_DEADLOCK FALSE
