SPECIFICATION Spec
CONSTANTS
  Tasks = {t1}
  Kinds = {"prompt"}
  Places = {"here"}
  Faults = {}
  MaxCalls = 2
  MaxConns = 2
  MaxDeaths = 1
  MaxCancels = 0
  MaxMoves = 0
  MaxReopens = 0
  MaxEvents = 2
INVARIANT RoleComesFirst
CHECK_DEADLOCK FALSE
