SPECIFICATION FairSpec
CONSTANTS
  Tasks = {t1, t2}
  Kinds = {"warm", "load", "prompt", "retry", "eager"}
  Places = {"here", "queued"}
  Faults = {"session", "load"}
  MaxCalls = 2
  MaxConns = 2
  MaxDeaths = 1
  MaxCancels = 1
  MaxMoves = 1
  MaxReopens = 1
  MaxEvents = 1
INVARIANTS TypeOK  WorkingHasTurn
PROPERTY OnlyOwnRequestsHang
CHECK_DEADLOCK FALSE
