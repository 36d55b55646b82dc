-------------------------- MODULE MCSessionRecords --------------------------
\* SessionRecords for TLC: the sessions on the machine beforehand.
EXTENDS SessionRecords, TLC

\* Another plan's scoping session, one the user started at the root, and one
\* of another role in a worktree that had this plan's name before.
OthersSessions == <<[agent |-> "scoping", dir |-> "root"],
                    [agent |-> "build", dir |-> "root"],
                    [agent |-> "landing", dir |-> "tree"]>>

TaskSymmetry == Permutations(Tasks)
=============================================================================
