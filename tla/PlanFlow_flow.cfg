SPECIFICATION Spec
CONSTANTS
  Plans <- OnePlan
  Workers = {w1, w2}
  StartPhases = {"scoping", "executing", "evergreening", "landing"}
  Faults = {"move", "create", "merge", "spawn", "turn"}
  Diligent = {}
  MaxTarget = 1
  MaxCommits = 1
  MaxCommands = 2
  MaxEdits = 1
  MaxTurns = 1
  MaxDue = 1
  MaxCrashes = 1
  MaxEvents = 2
SYMMETRY WorkerSymmetry
INVARIANTS TypeOK NoWorkLost CompletedIsRetired
PROPERTIES LifecycleSpec 
CHECK_DEADLOCK FALSE
