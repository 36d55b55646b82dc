SPECIFICATION Spec
CONSTANTS
  Plans <- TwoPlans
  Workers = {w1, w2}
  StartPhases = {"landing", "executing"}
  Faults = {}
  Diligent = {1, 2}
  MaxTarget = 1
  MaxCommits = 1
  MaxCommands = 0
  MaxEdits = 0
  MaxTurns = 1
  MaxDue = 2
  MaxCrashes = 0
  MaxEvents = 1
INVARIANT OneLandingAgent
CHECK_DEADLOCK FALSE
