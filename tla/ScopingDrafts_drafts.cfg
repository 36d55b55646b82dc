SPECIFICATION Spec
CONSTANTS
  Calls = {c1, c2}
  Titles = {t1}
  NoTitle = NoTitle
  NoDraft = NoDraft
  Free = Free
  NoPlan = NoPlan
  Other = Other
  MaxClock = 2
  MaxCopies = 1
  MaxCommands = 3
  MaxOpens = 1
SYMMETRY CallSymmetry
INVARIANTS TypeOK TitlesSurvive
 
CHECK_DEADLOCK FALSE
