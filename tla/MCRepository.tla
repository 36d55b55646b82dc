---------------------------- MODULE MCRepository ----------------------------
\* Repository for TLC: two models, the first of which offers one effort only,
\* and a start with a repository that is open and has its choices saved.
EXTENDS Repository, TLC

OfferedEfforts == [v \in Values |-> IF v = 1 THEN {1} ELSE {1, 2}]

Main == CHOOSE name \in Branches : name # Detached
OpenInit == LET r == CHOOSE x \in Repos : TRUE IN
  /\ head = [x \in Repos |-> Main]
  /\ saved = [x \in Repos |-> IF x = r THEN [q \in ConfigRoles |-> 2] ELSE Unset]
  /\ recent = <<r>>
  /\ open = r /\ branch = [of |-> r, name |-> Main]
  /\ watch = 1 /\ watcher = <<[root |-> r, due |-> FALSE, pc |-> "rest",
                               name |-> Detached]>>
  /\ sess = [s \in Sessions |-> Off]
  /\ task = [k \in Tasks |-> Idle]
  /\ crossed = FALSE /\ excused = FALSE /\ tidy = TRUE
  /\ runs = 0 /\ ops = 0 /\ moves = 0

OpenSpec == OpenInit /\ [][Next]_vars /\ Fairness
=============================================================================
