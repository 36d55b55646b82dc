---------------------------- MODULE PlanLifecycle ---------------------------
(***************************************************************************)
(* What the plan automation promises, free of pumps, commands and git      *)
(* plumbing.  A plan moves forward through its phases; its branch exists   *)
(* from approval until it is retired, and a plan approved without one can  *)
(* only be cancelled; a branch is retired only after it was fast-forwarded *)
(* into the target, or discarded by an explicit cancel; only a plan that   *)
(* landed and whose branch is gone completes.                              *)
(***************************************************************************)
CONSTANT Plans

VARIABLES
  phase,      \* the directory a plan is in
  branch,     \* "none", "open" or "gone": the plan's branch
  landed,     \* plans whose branch was fast-forwarded into the target
  discarded   \* plans whose branch was thrown away by a cancel

vars == <<phase, branch, landed, discarded>>

WorkPhases == {"executing", "evergreening", "landing"}

Init ==
  /\ phase \in [Plans -> {"scoping"} \cup WorkPhases]
  /\ branch = [p \in Plans |-> IF phase[p] = "scoping" THEN "none" ELSE "open"]
  /\ landed = {} /\ discarded = {}

Move(p, from, to) ==
  /\ phase[p] \in from
  /\ phase' = [phase EXCEPT ![p] = to]
  /\ UNCHANGED <<branch, landed, discarded>>

Approve(p) == Move(p, {"scoping"}, "executing")
Cancel(p)  == Move(p, {"scoping"} \cup WorkPhases, "cancelled")

\* Work goes on only where a branch was cut for it.
Clean(p) ==
  /\ branch[p] # "none"
  /\ Move(p, {"executing"}, "evergreening")

Queue(p) ==
  /\ branch[p] # "none"
  /\ Move(p, {"executing", "evergreening"}, "landing")

Complete(p) ==
  /\ p \in landed /\ branch[p] = "gone"
  /\ Move(p, WorkPhases, "completed")

\* A branch is cut once, for an approved plan.
Open(p) ==
  /\ branch[p] = "none" /\ phase[p] # "scoping"
  /\ branch' = [branch EXCEPT ![p] = "open"]
  /\ UNCHANGED <<phase, landed, discarded>>

Land(p) ==
  /\ branch[p] = "open"
  /\ landed' = landed \cup {p}
  /\ UNCHANGED <<phase, branch, discarded>>

Retire(p) ==
  /\ branch[p] = "open" /\ p \in landed
  /\ branch' = [branch EXCEPT ![p] = "gone"]
  /\ UNCHANGED <<phase, landed, discarded>>

Discard(p) ==
  /\ branch[p] = "open"
  /\ branch' = [branch EXCEPT ![p] = "gone"]
  /\ discarded' = discarded \cup {p}
  /\ UNCHANGED <<phase, landed>>

Next == \E p \in Plans :
  \/ Approve(p) \/ Clean(p) \/ Queue(p) \/ Cancel(p) \/ Complete(p)
  \/ Open(p) \/ Land(p) \/ Retire(p) \/ Discard(p)

Spec == Init /\ [][Next]_vars
=============================================================================
