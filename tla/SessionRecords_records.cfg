SPECIFICATION Spec
CONSTANTS
  Tasks = {t1, t2}
  Roles = {"scoping", "executing"}
  Reached = {"scoping", "executing", "cancelled"}
  Foreign <- OthersSessions
  MaxOps = 4
  MaxCost = 1
  MaxSessions = 5
  MaxCrashes = 1
SYMMETRY TaskSymmetry
INVARIANTS TypeOK OnePlace OnlyRacesLose IdsBelong
CHECK_DEADLOCK FALSE
