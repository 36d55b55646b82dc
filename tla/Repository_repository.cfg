SPECIFICATION OpenSpec
CONSTANTS
  Tasks = {t1, t2}
  Repos = {ra, rb}
  NoRepo = NoRepo
  Branches = {main, HEAD}
  Detached = HEAD
  Sessions = {s1, s2}
  Values = {1, 2}
  Offered <- OfferedEfforts
  First = 1
  Faults = {"git", "watch", "send", "apply"}
  MaxRecent = 2
  MaxOps = 3
  MaxMoves = 2
  MaxEvents = 4
INVARIANTS TypeOK TargetIsOfRepo TargetFollowsHead SessionsAgree
PROPERTY TargetCatchesUp
CHECK_DEADLOCK FALSE
