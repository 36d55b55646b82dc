----------------------------- MODULE MCPlanFlow -----------------------------
\* PlanFlow for TLC: the constants that a .cfg cannot write.
EXTENDS PlanFlow, TLC

OnePlan  == {1}
TwoPlans == {1, 2}

\* The queue under contention: both plans have commits and one wants a
\* cleanup first, so they reach landing/ one behind the other; or the second
\* heads the queue with a rebase to do while the first needs none.
ContendingInit ==
  /\ Init /\ target = MaxTarget /\ tip = [p \in Plans |-> 1] /\ base[1] = target
  /\ phase[1] = "executing"
  /\ \/ /\ phase[2] = "executing" /\ base[2] = target
        /\ evergreen = [p \in Plans |-> p = 1]
     \/ /\ phase[2] = "landing" /\ base[2] < target
        /\ evergreen = [p \in Plans |-> FALSE]

ContendingSpec == ContendingInit /\ [][Next]_vars /\ Fairness

WorkerSymmetry == Permutations(Workers)
=============================================================================
