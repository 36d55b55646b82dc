SPECIFICATION ContendingSpec
CONSTANTS
  Plans <- TwoPlans
  Workers = {w1, w2}
  StartPhases = {"executing", "landing"}
  Faults = {}
  MaxTarget = 1
  MaxCommits = 1
  Diligent = {1}
  MaxCommands = 0
  MaxEdits = 0
  MaxTurns = 1
  MaxDue = 1
  MaxCrashes = 0
  MaxEvents = 1
PROPERTIES AutomationDrains PumpsSettle 
CHECK_DEADLOCK FALSE
