SPECIFICATION Spec
CONSTANTS
  Tasks = {t1, t2}
  Kinds = {"prompt"}
  Places = {"here"}
  Faults = {}
  MaxCalls = 2
  MaxConns = 2
  MaxDeaths = 0
  MaxCancels = 1
  MaxMoves = 0
  MaxReopens = 0
  MaxEvents = 2
INVARIANT WorkingWhileTurnRuns
CHECK_DEADLOCK FALSE
