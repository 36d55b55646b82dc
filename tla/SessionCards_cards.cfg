SPECIFICATION FairSpec
CONSTANTS
  Sessions = {k1}
  Calls = {c1}
  Lists = {l1}
  Cleared = Cleared
  Serial = TRUE
  MaxConns = 2
  MaxAsks = 2
  MaxNotes = 2
  MaxTurns = 2
  MaxEvents = 5
INVARIANTS TypeOK CardsAnswerable   TodosShown
PROPERTY DropsFinish
CHECK_DEADLOCK FALSE
