--------------------------- MODULE PlanFlow_proofs ---------------------------
(***************************************************************************)
(* What PlanFlow keeps true for any plans, any number of tasks and any     *)
(* bounds.  Route is the inductive invariant: it says what a task that     *)
(* stands at a step of a transition has already secured.                   *)
(***************************************************************************)
EXTENDS PlanFlow, FiniteSetTheorems, SequenceTheorems, TLAPS

\* The phases each move may leave from.
Moves(act, from) ==
  \/ act = "Execute" /\ from = "scoping"
  \/ act = "BeginEvergreening" /\ from = "executing"
  \/ act = "BeginLanding" /\ from \in {"executing", "evergreening"}
  \/ act \in FinishActs /\ from \in WorkPhases
  \/ act = "Cancel" /\ from \in ActivePhases

\* What a task knows of its own transition at each step.
RouteAct(t) ==
  /\ t.pc = "redirect" => t.act \in StartActs /\ t.from = "landing"
  /\ t.pc = "guard" => t.act \in StartActs \cup {"Prompt", "BeginLanding"} \/ Moves(t.act, t.from)
  /\ t.pc = "status" => t.act \in StartActs \/ Moves(t.act, t.from)
  /\ t.pc \in {"merge", "remove", "delete", "rename"} => Moves(t.act, t.from)
  /\ t.pc = "merge" => t.act \in FinishActs
  /\ t.pc \in {"remove", "delete"} => t.act \in FinishActs \cup {"Cancel"}

\* What it has secured for its plan: an executed plan never returns to
\* scoping, a finish that merged holds a landed branch with nothing new on it,
\* a finish about to move the directory has retired the branch, and a plan on
\* its way to the queue has one.
Secured(t) ==
  /\ t.pc \in {"stamp", "create"} /\ t.act = "Execute" => phase[t.plan] # "scoping"
  /\ t.pc = "create" => t.act = "Execute"
  /\ t.pc \in {"remove", "delete"} /\ t.act \in FinishActs =>
       /\ t.plan \in landed /\ branch[t.plan] # "none"
       /\ t.plan \notin raced => merged[t.plan] = tip[t.plan]
  /\ t.pc = "rename" /\ t.act \in FinishActs =>
       t.plan \in landed /\ branch[t.plan] = "gone"
  /\ t.pc = "rename" /\ t.act \in {"BeginEvergreening", "BeginLanding"} =>
       branch[t.plan] # "none"

CheckoutHasBranch == \A p \in Plans : worktree[p] => branch[p] = "open"

CompletedIsGone == \A p \in Plans :
  phase[p] = "completed" => p \in landed /\ branch[p] = "gone"

Route ==
  /\ TypeOK
  /\ \A k \in Workers : RouteAct(task[k]) /\ Secured(task[k])
  /\ CheckoutHasBranch
  /\ CompletedIsGone
  /\ NoWorkLost

-----------------------------------------------------------------------------
(* Types *)

\* The idle worker and a fresh pump are tasks.
LEMMA NoTaskType == NoTask \in Task /\ NewPump \in Task
  <1>1. NoTask \in Task
    BY PlanFlowAssumption DEF NoTask, Task, Steps, Acts, PumpActs, FinishActs,
       StartActs, Phases, ActivePhases, WorkPhases
  <1> QED BY <1>1 DEF NewPump, Task, Steps

\* Becoming a task keeps the others.
LEMMA Becomes ==
  ASSUME task \in [Workers -> Task], NEW k \in Workers, NEW t \in Task, Become(k, t)
  PROVE  /\ task' \in [Workers -> Task]
         /\ task'[k] = t
         /\ \A j \in Workers \ {k} : task'[j] = task[j]
  BY DEF Become

\* A task that only moves to another step stays a task.
LEMMA GotoType ==
  ASSUME task \in [Workers -> Task], NEW k \in Workers, NEW step \in Steps
  PROVE  Goto(k, step) => task' \in [Workers -> Task]
  <1>1. [task[k] EXCEPT !.pc = step] \in Task
    BY DEF Task
  <1> QED BY <1>1, Becomes DEF Goto

\* A failed transition leaves a well-formed task: a pump goes back to its pass,
\* a command ends.
LEMMA FailType ==
  ASSUME task \in [Workers -> Task], NEW k \in Workers
  PROVE  Fail(k) => task' \in [Workers -> Task]
  BY NoTaskType, GotoType, Becomes DEF Fail, Steps

\* A pump that fired and rescans stays a task.
LEMMA RescanType ==
  ASSUME NEW t \in Task, NEW done \in SUBSET (Acts \X Plans)
  PROVE  [t EXCEPT !.pc = "scan", !.fired = done] \in Task
  BY DEF Task, Steps

\* So does a transition that returned, whichever way its worker goes on.
LEMMA SucceedType ==
  ASSUME task \in [Workers -> Task], NEW k \in Workers
  PROVE  Succeed(k) => task' \in [Workers -> Task]
  <1> DEFINE done == task[k].fired \cup {<<task[k].picked, task[k].plan>>}
             again == [task[k] EXCEPT !.pc = "scan", !.fired = done]
  <1>1. task[k] \in Task
    OBVIOUS
  <1>2. done \in SUBSET (Acts \X Plans)
    BY <1>1 DEF Task
  <1> HIDE DEF done
  <1>3. again \in Task
    BY <1>1, <1>2, RescanType
  <1>4. Succeed(k) => Become(k, again) \/ Become(k, NoTask)
    BY DEF Succeed, done
  <1> QED BY <1>3, <1>4, NoTaskType, Becomes

\* The state in which the repository is opened is well typed.
LEMMA TypeInit == Init => TypeOK
  <1> SUFFICES ASSUME Init PROVE TypeOK
    OBVIOUS
  <1>1. task \in [Workers -> Task]
    BY NoTaskType DEF Init
  <1>2. StartPhases \subseteq Phases /\ MaxTarget \in Nat /\ MaxCommits \in Nat
    BY PlanFlowAssumption DEF Phases, ActivePhases, WorkPhases
  <1>3. target \in Nat /\ base \in [Plans -> Nat] /\ tip \in [Plans -> Nat]
    BY <1>2 DEF Init
  <1> QED BY <1>1, <1>2, <1>3 DEF Init, TypeOK

\* Goto moves one task to one step and changes nothing else about it.
LEMMA GotoEffect ==
  ASSUME task \in [Workers -> Task], NEW k \in Workers, NEW step \in Steps, Goto(k, step)
  PROVE  /\ task'[k].pc = step
         /\ task'[k].act = task[k].act /\ task'[k].plan = task[k].plan
         /\ task'[k].from = task[k].from
         /\ \A j \in Workers \ {k} : task'[j] = task[j]
  <1> DEFINE u == [task[k] EXCEPT !.pc = step]
  <1>1. u \in Task /\ u.pc = step /\ u.act = task[k].act /\ u.plan = task[k].plan
        /\ u.from = task[k].from
    BY DEF Task
  <1>2. Become(k, u)
    BY DEF Goto
  <1> HIDE DEF u
  <1>3. task'[k] = u /\ \A j \in Workers \ {k} : task'[j] = task[j]
    BY <1>1, <1>2, Becomes
  <1> QED BY <1>1, <1>3

\* After a failure the worker is idle or back in its pass.
LEMMA FailEffect ==
  ASSUME task \in [Workers -> Task], NEW k \in Workers, Fail(k)
  PROVE  /\ task'[k].pc \in {"view", "idle"}
         /\ \A j \in Workers \ {k} : task'[j] = task[j]
  <1>1. NoTask.pc = "idle"
    BY DEF NoTask
  <1> QED BY <1>1, NoTaskType, Becomes, GotoEffect DEF Fail, Steps

\* A rescanning pump stands at the scan.
LEMMA RescanEffect ==
  ASSUME NEW t \in Task, NEW done
  PROVE  [t EXCEPT !.pc = "scan", !.fired = done].pc = "scan"
  BY DEF Task

\* After a success the worker is idle or at a new scan.
LEMMA SucceedEffect ==
  ASSUME task \in [Workers -> Task], NEW k \in Workers, Succeed(k)
  PROVE  /\ task'[k].pc \in {"scan", "idle"}
         /\ \A j \in Workers \ {k} : task'[j] = task[j]
  <1> DEFINE done == task[k].fired \cup {<<task[k].picked, task[k].plan>>}
             again == [task[k] EXCEPT !.pc = "scan", !.fired = done]
  <1>1. task[k] \in Task
    OBVIOUS
  <1>2. done \in SUBSET (Acts \X Plans)
    BY <1>1 DEF Task
  <1> HIDE DEF done
  <1>3. again \in Task /\ again.pc = "scan"
    BY <1>1, <1>2, RescanType, RescanEffect
  <1>4. Become(k, again) \/ Become(k, NoTask)
    BY DEF Succeed, done
  <1>5. NoTask.pc = "idle"
    BY DEF NoTask
  <1> QED BY <1>3, <1>4, <1>5, NoTaskType, Becomes

\* The steps at which Route says nothing about a task.
Free == {"idle", "scan", "view", "drop", "spawn", "turn"}

\* A task that is between transitions, or past the move, owes nothing.
LEMMA FreeTask == \A t : t.pc \in Free => RouteAct(t) /\ Secured(t)
  BY DEF Free, RouteAct, Secured

\* An array over 1..n is a sequence.
LEMMA ArrayIsSeq ==
  ASSUME NEW S, NEW n \in Nat, NEW f \in [1..n -> S]
  PROVE  f \in Seq(S)
  OBVIOUS

\* A pass over the active plans leaves a well-formed task.
LEMMA ScanType ==
  ASSUME TypeOK, NEW k \in Workers, Scan(k)
  PROVE  /\ task' \in [Workers -> Task]
         /\ task'[k].pc = "view"
         /\ \A j \in Workers \ {k} : task'[j] = task[j]
  <1> DEFINE active == {p \in Plans : phase[p] \in ActivePhases}
             n      == Cardinality(active)
             todo(order) == [i \in DOMAIN order |->
                               [plan |-> order[i], phase |-> phase[order[i]]]]
             head   == {p \in active : IsHead(phase, entered, p)}
  <1>1. n \in Nat
    <2>1. IsFiniteSet(active)
      BY PlanFlowAssumption, FS_Subset
    <2> QED BY <2>1, FS_CardinalityType
  <1>2. PICK order \in VisitOrders(phase, entered, active, n) :
           Become(k, [task[k] EXCEPT !.pc = "view", !.todo = todo(order), !.head = head])
    BY DEF Scan
  <1>3. order \in [1..n -> active]
    BY <1>2 DEF VisitOrders
  <1>4. todo(order) \in [1..n -> [plan : Plans, phase : Phases]]
    BY <1>3 DEF TypeOK
  <1>5. todo(order) \in Seq([plan : Plans, phase : Phases])
    BY <1>1, <1>4, ArrayIsSeq
  <1>6. head \in SUBSET Plans
    OBVIOUS
  <1>7. task[k] \in Task /\ task \in [Workers -> Task]
    BY DEF TypeOK
  <1> HIDE DEF todo, head
  <1>8. /\ [task[k] EXCEPT !.pc = "view", !.todo = todo(order), !.head = head] \in Task
        /\ [task[k] EXCEPT !.pc = "view", !.todo = todo(order), !.head = head].pc = "view"
    BY <1>5, <1>6, <1>7 DEF Task, Steps
  <1> QED BY <1>2, <1>7, <1>8, Becomes

\* Deciding on one plan leaves a task that heads for a move its phase allows.
LEMMA ViewType ==
  ASSUME TypeOK, NEW k \in Workers, NEW p \in Plans, View(k, p)
  PROVE  /\ task' \in [Workers -> Task]
         /\ RouteAct(task'[k]) /\ task'[k].pc \in {"view", "redirect", "guard"}
         /\ \A j \in Workers \ {k} : task'[j] = task[j]
  <1> DEFINE act  == NextAction(p, Head(task[k].todo).phase, task[k].head)
             step == IF act = "None" THEN "view" ELSE FirstStep(act)
             rest == Tail(task[k].todo)
             u    == [task[k] EXCEPT !.todo = rest, !.plan = p, !.act = act,
                        !.picked = act, !.from = FromOf(act), !.pc = step]
  <1>1. task[k] \in Task /\ task \in [Workers -> Task]
    BY DEF TypeOK
  <1>2. act \in PumpActs \cup {"None"}
    BY DEF NextAction, PumpActs, FinishActs, StartActs
  <1>3. step \in Steps /\ act \in Acts /\ FromOf(act) \in Phases
    BY <1>2 DEF FirstStep, Steps, Acts, FromOf, Phases, ActivePhases, WorkPhases
  <1>4. rest \in Seq([plan : Plans, phase : Phases])
    <2>1. task[k].todo \in Seq([plan : Plans, phase : Phases])
      BY <1>1 DEF Task
    <2>2. task[k].todo # <<>>
      BY DEF View
    <2> QED BY <2>1, <2>2, HeadTailProperties
  <1>5. Become(k, u)
    BY DEF View
  <1>6. step \in {"view", "redirect", "guard"}
    BY DEF FirstStep
  <1>7. /\ step = "redirect" => act \in StartActs /\ FromOf(act) = "landing"
        /\ step = "guard" => act \in StartActs \cup {"Prompt", "BeginLanding"}
                            \/ Moves(act, FromOf(act))
    BY <1>2 DEF FirstStep, FromOf, Moves, PumpActs, FinishActs, StartActs, WorkPhases
  <1> DEFINE from == FromOf(act)
  <1> HIDE DEF act, step, rest, from
  <1>8. u \in Task /\ u.pc = step /\ u.act = act /\ u.from = from
    BY <1>1, <1>3, <1>4 DEF Task, from
  <1> HIDE DEF u
  <1>9. RouteAct(u)
    BY <1>6, <1>7, <1>8 DEF RouteAct, from
  <1> QED BY <1>1, <1>5, <1>6, <1>8, <1>9, Becomes

\* So does a command the user issues on the phase he sees.
LEMMA CommandType ==
  ASSUME TypeOK, NEW k \in Workers, NEW p \in Plans, NEW act \in CommandsFor(phase[p]),
         Command(k, p, act)
  PROVE  /\ task' \in [Workers -> Task]
         /\ RouteAct(task'[k]) /\ task'[k].pc = "guard"
         /\ \A j \in Workers \ {k} : task'[j] = task[j]
  <1> DEFINE u == [NoTask EXCEPT !.pc = "guard", !.act = act, !.picked = act,
                     !.plan = p, !.from = phase[p]]
  <1>1. task \in [Workers -> Task] /\ phase[p] \in Phases
    BY DEF TypeOK
  <1>2. act \in Acts /\ FirstStep(act) = "guard"
    BY DEF CommandsFor, FirstStep, Acts, PumpActs, FinishActs, StartActs
  <1>3. act = "Prompt" \/ act = "BeginLanding" \/ Moves(act, phase[p])
    BY DEF CommandsFor, Moves, FinishActs, WorkPhases, ActivePhases
  <1>4. Become(k, u)
    BY <1>2 DEF Command
  <1>5. u \in Task /\ u.pc = "guard" /\ u.act = act /\ u.from = phase[p]
    BY <1>1, <1>2, NoTaskType DEF Task, Steps
  <1> HIDE DEF u
  <1>6. RouteAct(u)
    BY <1>3, <1>5 DEF RouteAct
  <1> QED BY <1>1, <1>4, <1>5, <1>6, Becomes

\* Turning a start or a rebase into a finish keeps the task's route.
LEMMA RedirectType ==
  ASSUME TypeOK, NEW k \in Workers, NEW p \in Plans, Redirect(k, p)
  PROVE  /\ task' \in [Workers -> Task]
         /\ RouteAct(task[k]) => RouteAct(task'[k])
         /\ task'[k].pc = "guard"
         /\ \A j \in Workers \ {k} : task'[j] = task[j]
  <1> DEFINE act == IF phase[p] = "landing" /\ IsClean(p) /\ Ffable(p)
                    THEN "FinishLanding" ELSE task[k].act
             u   == [task[k] EXCEPT !.pc = "guard", !.act = act]
  <1>1. task \in [Workers -> Task] /\ task[k] \in Task
    BY DEF TypeOK
  <1>2. act \in Acts /\ act \in {"FinishLanding", task[k].act}
    BY <1>1 DEF Task, Acts, PumpActs, FinishActs
  <1>3. Become(k, u)
    BY DEF Redirect
  <1> HIDE DEF act
  <1>4. u \in Task /\ u.pc = "guard" /\ u.act = act /\ u.from = task[k].from
    BY <1>1, <1>2 DEF Task, Steps
  <1> HIDE DEF u
  <1>5. RouteAct(task[k]) => RouteAct(u)
    BY <1>2, <1>4 DEF RouteAct, Moves, FinishActs, WorkPhases, Redirect, At
  <1> QED BY <1>1, <1>3, <1>4, <1>5, Becomes

\* A task that passes the guard holds the phase it will move from.
LEMMA GuardType ==
  ASSUME TypeOK, NEW k \in Workers, NEW p \in Plans, Guard(k, p)
  PROVE  /\ task' \in [Workers -> Task]
         /\ RouteAct(task[k]) => RouteAct(task'[k])
         /\ \/ task'[k].pc \in Free
            \/ task'[k].pc = "status"
            \/ task'[k].pc \in {"rename", "remove"} /\ task'[k].act \in {"Execute", "Cancel"}
         /\ \A j \in Workers \ {k} : task'[j] = task[j]
  <1> DEFINE t    == task[k]
             from == IF t.act = "Prompt" THEN t.from ELSE phase[p]
             step == AfterGuard(t.act, from)
             n    == IF t.act = "Execute" THEN target ELSE 0
             u    == [t EXCEPT !.pc = step, !.from = from, !.cut = n]
  <1>1. task \in [Workers -> Task] /\ t \in Task
    BY DEF TypeOK
  <1>2. from \in Phases
    BY <1>1 DEF TypeOK, Task
  <1>3. n \in Nat
    BY DEF TypeOK
  <1>4. step \in Steps
    BY DEF AfterGuard, Steps
  <1>5. CASE Become(k, u) /\ GuardHolds(p, t.act, t.from)
    <2>1. \/ t.act = "Prompt" /\ step = "spawn"
          \/ t.act = "Execute" /\ step = "rename"
          \/ t.act = "Cancel" /\ step \in {"remove", "rename"}
          \/ t.act \notin {"Prompt", "Execute", "Cancel"} /\ step = "status"
      BY DEF AfterGuard
    <2>2. t.act # "Prompt" => from \in GuardPhases(t.act, t.from)
      BY <1>5 DEF GuardHolds
    <2> HIDE DEF from, step, n
    <2>3. u \in Task /\ u.pc = step /\ u.act = t.act /\ u.from = from
      BY <1>1, <1>2, <1>3, <1>4 DEF Task
    <2> HIDE DEF u
    <2>4. RouteAct(t) => RouteAct(u)
      BY <2>1, <2>2, <2>3 DEF RouteAct, Moves, GuardPhases, Guard, At, FinishActs, StartActs
    <2>5. task' \in [Workers -> Task] /\ task'[k] = u
          /\ \A j \in Workers \ {k} : task'[j] = task[j]
      BY <1>1, <1>5, <2>3, Becomes
    <2> QED BY <2>1, <2>3, <2>4, <2>5 DEF Free, FinishActs
  <1>6. CASE Fail(k)
    BY <1>1, <1>6, FailType, FailEffect, FreeTask DEF Free
  <1> QED BY <1>5, <1>6 DEF Guard

\* A task that removed the checkout goes on to delete the branch.
LEMMA RemoveType ==
  ASSUME TypeOK, NEW k \in Workers, NEW p \in Plans,
         RemoveWorktree(k, p) \/ DeleteBranch(k, p)
  PROVE  /\ task' \in [Workers -> Task]
         /\ \/ task'[k].pc \in Free
            \/ /\ task'[k].pc = IF task[k].pc = "remove" THEN "delete" ELSE "rename"
               /\ task'[k].act = task[k].act /\ task'[k].from = task[k].from
               /\ task'[k].plan = task[k].plan
         /\ \A j \in Workers \ {k} : task'[j] = task[j]
  <1> DEFINE t    == task[k]
             step == IF t.pc = "remove" THEN "delete" ELSE "rename"
             own  == IF t.pc = "remove" THEN worktree[p] ELSE FALSE
             u    == [t EXCEPT !.pc = step, !.own = own]
  <1>1. task \in [Workers -> Task] /\ t \in Task
    BY DEF TypeOK
  <1>2. own \in BOOLEAN /\ step \in Steps
    BY DEF TypeOK, Steps
  <1>3. Become(k, u) \/ Fail(k)
    BY DEF RemoveWorktree, DeleteBranch, At
  <1> HIDE DEF step, own
  <1>4. u \in Task /\ u.pc = step /\ u.act = t.act /\ u.from = t.from /\ u.plan = t.plan
    BY <1>1, <1>2 DEF Task
  <1> HIDE DEF u
  <1>5. CASE Become(k, u)
    BY <1>1, <1>4, <1>5, Becomes DEF step
  <1>6. CASE Fail(k)
    BY <1>1, <1>6, FailType, FailEffect DEF Free
  <1> QED BY <1>3, <1>5, <1>6

\* Marking a session keeps the map of live sessions typed.
LEMMA MarkType ==
  ASSUME TypeOK, NEW p \in Plans, NEW r, NEW mark \in {"none", "idle", "working"}
  PROVE  [live EXCEPT ![p][r] = mark] \in [Plans -> [Roles -> {"none", "idle", "working"}]]
  <1>1. CASE r \in Roles BY <1>1 DEF TypeOK
  <1>2. CASE r \notin Roles BY <1>2 DEF TypeOK
  <1> QED BY <1>1, <1>2

\* Taking an answer off a running session keeps the count of prompts typed.
LEMMA AnswerType ==
  ASSUME TypeOK, NEW p \in Plans, NEW r
  PROVE  [turns EXCEPT ![p][r] = @ + 1] \in [Plans -> [Roles -> Nat]]
  <1>1. CASE r \in Roles BY <1>1 DEF TypeOK
  <1>2. CASE r \notin Roles BY <1>2 DEF TypeOK
  <1> QED BY <1>1, <1>2

\* Every step keeps the types; one case per action.
LEMMA TypeStep == TypeOK /\ [Next]_vars => TypeOK'
  <1> SUFFICES ASSUME TypeOK, [Next]_vars PROVE TypeOK'
    OBVIOUS
  <1> USE DEF disk, git, agents, time, counts, ghosts
  <1>t. task \in [Workers -> Task] /\ \A k \in Workers : task[k] \in Task
    BY DEF TypeOK
  <1>1. ASSUME NEW k \in Workers, StartPump(k) PROVE TypeOK'
    <2>1. task' \in [Workers -> Task]
      BY <1>1, <1>t, NoTaskType, Becomes DEF StartPump
    <2> QED BY <1>1, <2>1 DEF StartPump, TypeOK
  <1>2. ASSUME NEW k \in Workers, Scan(k) PROVE TypeOK'
    <2>1. task' \in [Workers -> Task]
      BY <1>2, <1>t, ScanType
    <2> QED BY <1>2, <2>1 DEF Scan, TypeOK
  <1>3. ASSUME NEW k \in Workers, EndPump(k) PROVE TypeOK'
    <2>1. task' \in [Workers -> Task]
      BY <1>3, <1>t, NoTaskType, Becomes DEF EndPump
    <2> QED BY <1>3, <2>1 DEF EndPump, TypeOK
  <1>4. ASSUME NEW k \in Workers, NEW p \in Plans, View(k, p) PROVE TypeOK'
    <2>1. task' \in [Workers -> Task]
      BY <1>4, <1>t, ViewType
    <2> QED BY <1>4, <2>1 DEF View, TypeOK
  <1>5. ASSUME NEW k \in Workers, NEW p \in Plans, NEW act \in CommandsFor(phase[p]), Command(k, p, act) PROVE TypeOK'
    <2>1. task' \in [Workers -> Task]
      BY <1>5, <1>t, CommandType
    <2> QED BY <1>5, <2>1 DEF Command, TypeOK
  <1>6. ASSUME NEW k \in Workers, NEW p \in Plans, SetMode(k, p) PROVE TypeOK'
    <2>1. task' \in [Workers -> Task]
      BY <1>6, <1>t, NoTaskType, Becomes DEF SetMode, PumpIfAuto
    <2> QED BY <1>6, <2>1 DEF SetMode, TypeOK
  <1>7. ASSUME NEW k \in Workers, NEW p \in Plans, SetEvergreen(k, p) PROVE TypeOK'
    <2>1. task' \in [Workers -> Task]
      BY <1>7, <1>t, NoTaskType, Becomes DEF SetEvergreen, PumpIfAuto
    <2> QED BY <1>7, <2>1 DEF SetEvergreen, TypeOK
  <1>8. ASSUME NEW k \in Workers, NEW p \in Plans, Redirect(k, p) PROVE TypeOK'
    <2>1. task' \in [Workers -> Task]
      BY <1>8, <1>t, RedirectType
    <2> QED BY <1>8, <2>1 DEF Redirect, TypeOK
  <1>9. ASSUME NEW k \in Workers, NEW p \in Plans, Guard(k, p) PROVE TypeOK'
    <2>1. task' \in [Workers -> Task]
      BY <1>9, <1>t, GuardType
    <2> QED BY <1>9, <2>1 DEF Guard, TypeOK
  <1>10. ASSUME NEW k \in Workers, NEW p \in Plans, Status(k, p) PROVE TypeOK'
    <2>1. task' \in [Workers -> Task]
      BY <1>10, <1>t, GotoType, FailType DEF Status, AfterStatus, Steps
    <2> QED BY <1>10, <2>1 DEF Status, TypeOK
  <1>11. ASSUME NEW k \in Workers, NEW p \in Plans, FastForward(k, p) PROVE TypeOK'
    <2>1. task' \in [Workers -> Task]
      BY <1>11, <1>t, GotoType, FailType DEF FastForward, Steps
    <2>2. target' \in Nat /\ landed' \subseteq Plans
      BY <1>11, <1>t DEF FastForward, TypeOK
    <2>3. base' \in [Plans -> Nat]
      BY <1>11, <1>t, <2>2 DEF FastForward, TypeOK
    <2>5. merged' \in [Plans -> Nat]
      BY <1>11, <1>t DEF FastForward, TypeOK
    <2>4. UNCHANGED <<worktree, branch, dirty, tip>>
      BY <1>11, <1>t DEF FastForward, TypeOK
    <2> QED BY <1>11, <2>1, <2>2, <2>3, <2>4, <2>5 DEF FastForward, TypeOK
  <1>12. ASSUME NEW k \in Workers, NEW p \in Plans, RemoveWorktree(k, p) PROVE TypeOK'
    <2>1. task' \in [Workers -> Task]
      BY <1>12, RemoveType
    <2> QED BY <1>12, <2>1 DEF RemoveWorktree, TypeOK
  <1>13. ASSUME NEW k \in Workers, NEW p \in Plans, DeleteBranch(k, p) PROVE TypeOK'
    <2>1. task' \in [Workers -> Task]
      BY <1>13, RemoveType
    <2>2. branch' \in [Plans -> {"none", "open", "gone"}]
      BY <1>13, <1>t DEF DeleteBranch, TypeOK
    <2>3. discarded' \subseteq Plans
      BY <1>13, <1>t DEF DeleteBranch, TypeOK
    <2> QED BY <1>13, <2>1, <2>2, <2>3 DEF DeleteBranch, TypeOK
  <1>14. ASSUME NEW k \in Workers, NEW p \in Plans, Rename(k, p) PROVE TypeOK'
    <2>1. task' \in [Workers -> Task]
      BY <1>14, <1>t, GotoType, FailType DEF Rename, Steps
    <2> QED BY <1>14, <2>1 DEF Rename, TypeOK, ToOf, Phases, ActivePhases, WorkPhases
  <1>15. ASSUME NEW k \in Workers, NEW p \in Plans, Stamp(k, p) PROVE TypeOK'
    <2>1. task' \in [Workers -> Task]
      BY <1>15, <1>t, GotoType DEF Stamp, AfterStamp, Steps
    <2>2. entered' \in [Plans -> Nat]
      BY <1>15, <1>t DEF Stamp, TypeOK
    <2>3. clock' \in Nat
      BY <1>15, <1>t DEF Stamp, TypeOK
    <2>4. ticked' \in BOOLEAN
      BY <1>15, <1>t DEF Stamp, TypeOK
    <2> QED BY <1>15, <2>1, <2>2, <2>3, <2>4 DEF Stamp, TypeOK
  <1>16. ASSUME NEW k \in Workers, NEW p \in Plans, Create(k, p) PROVE TypeOK'
    <2>1. task' \in [Workers -> Task]
      BY <1>16, <1>t, GotoType, FailType DEF Create, Steps
    <2>2. worktree' \in [Plans -> BOOLEAN]
      BY <1>16, <1>t DEF Create, TypeOK
    <2>4. branch' \in [Plans -> {"none", "open", "gone"}]
      BY <1>16, <1>t DEF Create, TypeOK
    <2>3. base' \in [Plans -> Nat]
      BY <1>16, <1>t DEF Create, TypeOK, Task
    <2> QED BY <1>16, <2>1, <2>2, <2>3, <2>4 DEF Create, TypeOK
  <1>17. ASSUME NEW k \in Workers, NEW p \in Plans, Drop(k, p) PROVE TypeOK'
    <2>1. task' \in [Workers -> Task]
      BY <1>17, <1>t, GotoType, SucceedType DEF Drop, Steps
    <2> QED BY <1>17, <2>1 DEF Drop, TypeOK
  <1>18. ASSUME NEW k \in Workers, NEW p \in Plans, Spawn(k, p) PROVE TypeOK'
    <2>1. task' \in [Workers -> Task]
      BY <1>18, <1>t, GotoType, FailType DEF Spawn, Steps
    <2>2. live' \in [Plans -> [Roles -> {"none", "idle", "working"}]]
      <3> DEFINE r == StartRole(task[k])
      <3>1. live' \in {live, [live EXCEPT ![p][r] = "idle"]}
        BY <1>18 DEF Spawn
      <3> HIDE DEF r
      <3>2. [live EXCEPT ![p][r] = "idle"] \in [Plans -> [Roles -> {"none", "idle", "working"}]]
        BY MarkType
      <3> QED BY <3>1, <3>2 DEF TypeOK
    <2>3. started' \in [Plans -> BOOLEAN]
      BY <1>18, <1>t DEF Spawn, TypeOK
    <2>4. ticked' \in BOOLEAN
      BY <1>18, <1>t DEF Spawn, TypeOK
    <2> QED BY <1>18, <2>1, <2>2, <2>3, <2>4 DEF Spawn, TypeOK
  <1>19. ASSUME NEW k \in Workers, NEW p \in Plans, StartTurn(k, p) PROVE TypeOK'
    <2>1. task' \in [Workers -> Task]
      BY <1>19, <1>t, SucceedType, FailType DEF StartTurn
    <2> DEFINE r == StartRole(task[k])
               mark == IF live[p][r] = "none" THEN "none" ELSE "working"
    <2>2. live' \in [Plans -> [Roles -> {"none", "idle", "working"}]]
      <3>1. live' \in {live, [live EXCEPT ![p][r] = mark]}
        BY <1>19 DEF StartTurn
      <3>2. mark \in {"none", "idle", "working"}
        OBVIOUS
      <3> HIDE DEF r, mark
      <3>3. [live EXCEPT ![p][r] = mark] \in [Plans -> [Roles -> {"none", "idle", "working"}]]
        BY <3>2, MarkType
      <3> QED BY <3>1, <3>3 DEF TypeOK
    <2>3. turns' \in [Plans -> [Roles -> Nat]]
      <3>1. turns' \in {turns, [turns EXCEPT ![p][r] = @ + 1]}
        BY <1>19 DEF StartTurn
      <3> HIDE DEF r
      <3> QED BY <3>1, AnswerType DEF TypeOK
    <2> QED BY <1>19, <2>1, <2>2, <2>3 DEF StartTurn, TypeOK
  <1>20. ASSUME NEW p \in Plans, NEW r \in Roles, NEW ok \in BOOLEAN, EndTurn(p, r, ok) PROVE TypeOK'
    BY <1>20 DEF EndTurn, TypeOK
  <1>21. ASSUME NEW p \in Plans, NEW r \in Roles, AgentEdit(p, r) PROVE TypeOK'
    BY <1>21 DEF AgentEdit, TypeOK
  <1>22. ASSUME NEW p \in Plans, NEW r \in Roles, Tidy(p, r) PROVE TypeOK'
    BY <1>22 DEF Tidy, TypeOK
  <1>23. ASSUME NEW p \in Plans, NEW r \in Roles, Commit(p, r) PROVE TypeOK'
    BY <1>23 DEF Commit, TypeOK
  <1>24. ASSUME NEW p \in Plans, NEW r \in Roles, Rebase(p, r) PROVE TypeOK'
    BY <1>24 DEF Rebase, TypeOK
  <1>25. ASSUME NEW p \in Plans, UserEdit(p) PROVE TypeOK'
    BY <1>25 DEF UserEdit, TypeOK
  <1>26. ASSUME TargetMoves PROVE TypeOK'
    BY <1>26 DEF TargetMoves, TypeOK
  <1>27. ASSUME Crash PROVE TypeOK'
    <2>1. task' \in [Workers -> Task]
      BY <1>27, <1>t, NoTaskType DEF Crash
    <2> QED BY <1>27, <2>1 DEF Crash, TypeOK
  <1>28. CASE UNCHANGED vars
    BY <1>28 DEF vars, TypeOK
  <1> QED
    BY <1>1, <1>2, <1>3, <1>4, <1>5, <1>6, <1>7, <1>8, <1>9, <1>10, <1>11, <1>12, <1>13, <1>14, <1>15, <1>16, <1>17, <1>18, <1>19, <1>20, <1>21, <1>22, <1>23, <1>24, <1>25, <1>26, <1>27, <1>28
       DEF Next, TaskStep, UserStep, TurnStep

\* The state of the automation stays well typed in every behaviour.
THEOREM TypesHold == Spec => []TypeOK
  BY TypeInit, TypeStep, PTL DEF Spec

-----------------------------------------------------------------------------
(* The route of a transition *)

\* A step that leaves the ledger alone, takes at most a checkout away, and
\* moves one task to a place it is entitled to.
LEMMA LedgerKept ==
  ASSUME Route, TypeOK',
         UNCHANGED <<phase, branch, tip, merged, landed, discarded, raced>>,
         \A p \in Plans : worktree'[p] => worktree[p],
         NEW k \in Workers, \A j \in Workers \ {k} : task'[j] = task[j],
         RouteAct(task'[k]), Secured(task'[k])
  PROVE  Route'
  <1>1. \A j \in Workers : RouteAct(task'[j]) /\ Secured(task'[j])
    BY DEF Route
  <1>2. \A j \in Workers : (RouteAct(task[j]) /\ Secured(task[j]))'
    BY <1>1 DEF RouteAct, Secured
  <1>3. CheckoutHasBranch' /\ CompletedIsGone' /\ NoWorkLost'
    BY DEF Route, CheckoutHasBranch, CompletedIsGone, NoWorkLost
  <1> QED BY <1>2, <1>3 DEF Route

\* Where an idle worker and a fresh pump stand.
LEMMA PumpTasks == NoTask.pc = "idle" /\ NewPump.pc = "scan"
  BY DEF NoTask, NewPump

\* A step that touches only its own task, and leaves it owing nothing.
LEMMA FreeStep ==
  ASSUME Route, TypeOK',
         UNCHANGED <<phase, branch, tip, merged, landed, discarded, raced>>,
         \A p \in Plans : worktree'[p] => worktree[p],
         NEW k \in Workers, \A j \in Workers \ {k} : task'[j] = task[j],
         task'[k].pc \in Free
  PROVE  Route'
  BY FreeTask, LedgerKept

\* Steps that belong to no task and leave the ledger alone.
LEMMA Outside ==
  ASSUME Route, TypeOK', UNCHANGED <<task, phase, branch, tip, merged, landed, discarded, raced>>,
         \A p \in Plans : worktree'[p] => worktree[p]
  PROVE  Route'
  <1>1. \A j \in Workers : (RouteAct(task[j]) /\ Secured(task[j]))'
    BY DEF Route, RouteAct, Secured
  <1>2. CheckoutHasBranch' /\ CompletedIsGone' /\ NoWorkLost'
    BY DEF Route, CheckoutHasBranch, CompletedIsGone, NoWorkLost
  <1> QED BY <1>1, <1>2 DEF Route

\* Nothing is in flight when the repository is opened.
LEMMA RouteInit == Init => Route
  <1> SUFFICES ASSUME Init PROVE Route
    OBVIOUS
  <1>1. \A k \in Workers : RouteAct(task[k]) /\ Secured(task[k])
    BY PumpTasks, FreeTask DEF Init, Free
  <1>2. CheckoutHasBranch /\ NoWorkLost
    BY DEF Init, CheckoutHasBranch, NoWorkLost
  <1>3. CompletedIsGone
    BY PlanFlowAssumption DEF Init, CompletedIsGone
  <1> QED BY <1>1, <1>2, <1>3, TypeInit DEF Route

\* Every step keeps Route; one case per action, and for the git steps one for
\* the plan the step is about and one for the others.
LEMMA RouteStep == Route /\ [Next]_vars => Route'
  <1> SUFFICES ASSUME Route, [Next]_vars PROVE Route'
    OBVIOUS
  <1> USE DEF disk, git, agents, time, counts, ghosts
  <1>t. /\ TypeOK /\ TypeOK'
        /\ task \in [Workers -> Task] /\ \A k \in Workers : task[k] \in Task
    BY TypeStep DEF Route, TypeOK
  <1>p. \A k \in Workers : RouteAct(task[k]) /\ Secured(task[k])
    BY DEF Route
  <1>1. ASSUME NEW k \in Workers, StartPump(k) PROVE Route'
    <2>1. task'[k].pc \in Free /\ \A j \in Workers \ {k} : task'[j] = task[j]
      BY <1>1, <1>t, PumpTasks, NoTaskType, Becomes DEF StartPump, Free
    <2> QED BY <1>1, <1>t, <2>1, FreeStep DEF StartPump
  <1>2. ASSUME NEW k \in Workers, EndPump(k) PROVE Route'
    <2>1. task'[k].pc \in Free /\ \A j \in Workers \ {k} : task'[j] = task[j]
      BY <1>2, <1>t, PumpTasks, NoTaskType, Becomes DEF EndPump, Free
    <2> QED BY <1>2, <1>t, <2>1, FreeStep DEF EndPump
  <1>3. ASSUME NEW k \in Workers, NEW p \in Plans, SetMode(k, p) PROVE Route'
    <2>1. CASE UNCHANGED task
      BY <1>3, <1>t, <2>1, Outside DEF SetMode
    <2>2. CASE Become(k, NewPump)
      <3>1. task'[k].pc \in Free /\ \A j \in Workers \ {k} : task'[j] = task[j]
        BY <1>t, <2>2, PumpTasks, NoTaskType, Becomes DEF Free
      <3> QED BY <1>3, <1>t, <3>1, FreeStep DEF SetMode
    <2> QED BY <1>3, <2>1, <2>2 DEF SetMode, PumpIfAuto
  <1>4. ASSUME NEW k \in Workers, NEW p \in Plans, SetEvergreen(k, p) PROVE Route'
    <2>1. CASE UNCHANGED task
      BY <1>4, <1>t, <2>1, Outside DEF SetEvergreen
    <2>2. CASE Become(k, NewPump)
      <3>1. task'[k].pc \in Free /\ \A j \in Workers \ {k} : task'[j] = task[j]
        BY <1>t, <2>2, PumpTasks, NoTaskType, Becomes DEF Free
      <3> QED BY <1>4, <1>t, <3>1, FreeStep DEF SetEvergreen
    <2> QED BY <1>4, <2>1, <2>2 DEF SetEvergreen, PumpIfAuto
  <1>5. ASSUME NEW k \in Workers, NEW p \in Plans, Drop(k, p) PROVE Route'
    <2>1. task'[k].pc \in Free /\ \A j \in Workers \ {k} : task'[j] = task[j]
      BY <1>5, <1>t, GotoEffect, SucceedEffect DEF Drop, Free, Steps
    <2> QED BY <1>5, <1>t, <2>1, FreeStep DEF Drop
  <1>6. ASSUME NEW k \in Workers, NEW p \in Plans, Spawn(k, p) PROVE Route'
    <2>1. task'[k].pc \in Free /\ \A j \in Workers \ {k} : task'[j] = task[j]
      BY <1>6, <1>t, GotoEffect, FailEffect DEF Spawn, Free, Steps
    <2> QED BY <1>6, <1>t, <2>1, FreeStep DEF Spawn
  <1>7. ASSUME NEW k \in Workers, NEW p \in Plans, StartTurn(k, p) PROVE Route'
    <2>1. task'[k].pc \in Free /\ \A j \in Workers \ {k} : task'[j] = task[j]
      BY <1>7, <1>t, SucceedEffect, FailEffect DEF StartTurn, Free
    <2> QED BY <1>7, <1>t, <2>1, FreeStep DEF StartTurn
  <1>8. ASSUME NEW p \in Plans, NEW r \in Roles, NEW ok \in BOOLEAN, EndTurn(p, r, ok) PROVE Route'
    BY <1>8, <1>t, Outside DEF EndTurn
  <1>9. ASSUME NEW p \in Plans, NEW r \in Roles, AgentEdit(p, r) PROVE Route'
    BY <1>9, <1>t, Outside DEF AgentEdit
  <1>10. ASSUME NEW p \in Plans, NEW r \in Roles, Tidy(p, r) PROVE Route'
    BY <1>10, <1>t, Outside DEF Tidy
  <1>11. ASSUME NEW p \in Plans, NEW r \in Roles, Rebase(p, r) PROVE Route'
    BY <1>11, <1>t, Outside DEF Rebase
  <1>12. ASSUME NEW p \in Plans, UserEdit(p) PROVE Route'
    BY <1>12, <1>t, Outside DEF UserEdit
  <1>13. ASSUME TargetMoves PROVE Route'
    BY <1>13, <1>t, Outside DEF TargetMoves
  <1>14. ASSUME NEW k \in Workers, Scan(k) PROVE Route'
    BY <1>14, <1>t, ScanType, FreeStep DEF Scan, Free
  <1>15. ASSUME NEW k \in Workers, NEW p \in Plans, View(k, p) PROVE Route'
    <2>1. Secured(task'[k])
      BY <1>15, <1>t, ViewType DEF Secured
    <2> QED BY <1>15, <1>t, <2>1, ViewType, LedgerKept DEF View
  <1>16. ASSUME NEW k \in Workers, NEW p \in Plans, NEW act \in CommandsFor(phase[p]),
                Command(k, p, act)
         PROVE  Route'
    <2>1. Secured(task'[k])
      BY <1>16, <1>t, CommandType DEF Secured
    <2> QED BY <1>16, <1>t, <2>1, CommandType, LedgerKept DEF Command
  <1>17. ASSUME NEW k \in Workers, NEW p \in Plans, Redirect(k, p) PROVE Route'
    <2>1. Secured(task'[k])
      BY <1>17, <1>t, RedirectType DEF Secured
    <2> QED BY <1>17, <1>t, <1>p, <2>1, RedirectType, LedgerKept DEF Redirect
  <1>18. ASSUME NEW k \in Workers, NEW p \in Plans, Guard(k, p) PROVE Route'
    <2>1. Secured(task'[k])
      BY <1>18, <1>t, GuardType, FreeTask DEF Secured, FinishActs
    <2> QED BY <1>18, <1>t, <1>p, <2>1, GuardType, LedgerKept DEF Guard
  <1>19. ASSUME NEW k \in Workers, NEW p \in Plans, Status(k, p) PROVE Route'
    <2>1. CASE Gate(p, task[k].act) /\ Goto(k, AfterStatus(task[k].act))
      <3>1. AfterStatus(task[k].act) \in Steps
        BY DEF AfterStatus, Steps
      <3>2. /\ task'[k].pc = AfterStatus(task[k].act)
            /\ task'[k].act = task[k].act /\ task'[k].from = task[k].from
            /\ \A j \in Workers \ {k} : task'[j] = task[j]
        BY <1>t, <2>1, <3>1, GotoEffect
      <3>3. task'[k].plan = p /\ branch'[p] # "none"
        BY <1>19, <1>t, <2>1, <3>1, GotoEffect DEF Status, At, Gate, IsClean
      <3>4. RouteAct(task'[k]) /\ Secured(task'[k])
        BY <1>19, <1>p, <3>2, <3>3
           DEF Status, At, AfterStatus, RouteAct, Secured, StartActs, FinishActs
      <3> QED BY <1>19, <1>t, <3>2, <3>4, LedgerKept DEF Status
    <2>2. CASE Fail(k)
      BY <1>19, <1>t, <2>2, FailEffect, FreeStep DEF Status, Free
    <2> QED BY <1>19, <2>1, <2>2 DEF Status
  <1>20. ASSUME NEW k \in Workers, NEW p \in Plans, RemoveWorktree(k, p) PROVE Route'
    <2>1. RouteAct(task'[k]) /\ Secured(task'[k])
      <3>1. task[k].pc = "remove" /\ RouteAct(task[k]) /\ Secured(task[k])
        BY <1>20, <1>p DEF RemoveWorktree, At
      <3>2. CASE task'[k].pc \in Free
        BY <3>2, FreeTask
      <3>3. CASE task'[k].pc \notin Free
        <4>1. /\ task'[k].pc = "delete" /\ task'[k].act = task[k].act
              /\ task'[k].from = task[k].from /\ task'[k].plan = task[k].plan
          BY <1>20, <1>t, <3>1, <3>3, RemoveType
        <4> QED BY <3>1, <4>1 DEF RouteAct, Secured
      <3> QED BY <3>2, <3>3
    <2>2. \A q \in Plans : worktree'[q] => worktree[q]
      BY <1>20, <1>t DEF RemoveWorktree, TypeOK
    <2> QED BY <1>20, <1>t, <2>1, <2>2, RemoveType, LedgerKept DEF RemoveWorktree
  <1>21. ASSUME NEW k \in Workers, NEW p \in Plans, Stamp(k, p) PROVE Route'
    <2>1. AfterStamp(task[k].act) \in Steps
      BY DEF AfterStamp, Steps
    <2>2. /\ task'[k].pc = AfterStamp(task[k].act)
          /\ task'[k].act = task[k].act /\ task'[k].plan = task[k].plan
          /\ \A j \in Workers \ {k} : task'[j] = task[j]
      BY <1>21, <1>t, <2>1, GotoEffect DEF Stamp
    <2>3. RouteAct(task'[k]) /\ Secured(task'[k])
      BY <1>21, <1>p, <2>2 DEF Stamp, At, AfterStamp, RouteAct, Secured
    <2> QED BY <1>21, <1>t, <2>2, <2>3, LedgerKept DEF Stamp
  <1>22. CASE Crash
    <2>1. \A k \in Workers : task'[k] = NoTask
      BY <1>22 DEF Crash
    <2>2. \A k \in Workers : (RouteAct(task[k]) /\ Secured(task[k]))'
      BY <2>1, PumpTasks DEF RouteAct, Secured
    <2>3. CheckoutHasBranch' /\ CompletedIsGone' /\ NoWorkLost'
      BY <1>22 DEF Crash, Route, CheckoutHasBranch, CompletedIsGone, NoWorkLost
    <2> QED BY <1>t, <2>2, <2>3 DEF Route
  <1>23. CASE UNCHANGED vars
    BY <1>23, <1>t, Outside DEF vars
  <1>24. ASSUME NEW k \in Workers, NEW p \in Plans, FastForward(k, p) PROVE Route'
    <2>1. CASE Goto(k, "remove") /\ branch[p] = "open"
      <3>1. /\ task'[k].pc = "remove" /\ task'[k].act = task[k].act
            /\ task'[k].from = task[k].from /\ task'[k].plan = p
            /\ \A j \in Workers \ {k} : task'[j] = task[j]
        BY <1>24, <1>t, <2>1, GotoEffect DEF FastForward, Steps
      <3>2. merged' = [merged EXCEPT ![p] = tip[p]] /\ landed' = landed \cup {p}
            /\ UNCHANGED <<phase, branch, tip, worktree, discarded, raced>>
        BY <1>24, <1>t, <2>1, <3>1, FailEffect DEF FastForward
      <3>3. RouteAct(task'[k])
        BY <1>24, <1>p, <3>1 DEF FastForward, At, RouteAct
      <3>4. \A q \in Plans : merged'[q] = tip[q] \/ merged'[q] = merged[q]
        BY <1>t, <3>2 DEF TypeOK
      <3>5. merged'[p] = tip[p]
        BY <1>t, <3>2 DEF TypeOK
      <3>6. (RouteAct(task[k]) /\ Secured(task[k]))'
        BY <2>1, <3>1, <3>2, <3>3, <3>5 DEF RouteAct, Secured
      <3>7. ASSUME NEW j \in Workers \ {k} PROVE (RouteAct(task[j]) /\ Secured(task[j]))'
        <4>1. task'[j] = task[j] /\ task[j].plan \in Plans
          BY <1>t, <3>1 DEF Task
        <4> QED BY <1>p, <3>2, <3>4, <4>1 DEF RouteAct, Secured
      <3>8. CheckoutHasBranch' /\ CompletedIsGone' /\ NoWorkLost'
        BY <3>2, <3>4 DEF Route, CheckoutHasBranch, CompletedIsGone, NoWorkLost
      <3> QED BY <1>t, <3>6, <3>7, <3>8 DEF Route
    <2>2. CASE Fail(k) /\ UNCHANGED <<git, landed>>
      BY <1>24, <1>t, <2>2, FailEffect, FreeStep DEF FastForward, Free
    <2> QED BY <1>24, <2>1, <2>2 DEF FastForward
  <1>25. ASSUME NEW k \in Workers, NEW p \in Plans, DeleteBranch(k, p) PROVE Route'
    <2>1. CASE worktree[p] \/ (branch[p] # "open" /\ task[k].own)
      BY <1>25, <1>t, <2>1, FailEffect, FreeStep DEF DeleteBranch, Free
    <2>2. CASE ~(worktree[p] \/ (branch[p] # "open" /\ task[k].own))
      <3>1. /\ branch' = [branch EXCEPT ![p] = IF @ = "open" THEN "gone" ELSE @]
            /\ discarded' = IF task[k].act = "Cancel" /\ branch[p] = "open"
                            THEN discarded \cup {p} ELSE discarded
            /\ UNCHANGED <<phase, worktree, tip, merged, landed, raced>>
            /\ task[k].pc = "delete" /\ task[k].plan = p
        BY <1>25, <2>2 DEF DeleteBranch, At
      <3>2. ASSUME NEW q \in Plans
            PROVE  \/ branch'[q] = branch[q]
                   \/ q = p /\ branch[q] = "open" /\ branch'[q] = "gone"
        BY <1>t, <3>1 DEF TypeOK
      <3>3. branch'[p] # "open"
        BY <1>t, <3>1 DEF TypeOK
      <3>4. RouteAct(task'[k])
        BY <1>25, <1>t, <1>p, <3>1, RemoveType, FreeTask DEF RouteAct
      <3>5. task[k].act \in FinishActs =>
              /\ p \in landed /\ branch[p] # "none"
              /\ p \notin raced => merged[p] = tip[p]
        BY <1>p, <3>1 DEF Secured
      <3>6. (RouteAct(task[k]) /\ Secured(task[k]))'
        <4>1. \/ task'[k].pc \in Free
              \/ /\ task'[k].pc = "rename" /\ task'[k].act = task[k].act
                 /\ task'[k].plan = p
          BY <1>25, <1>t, <3>1, RemoveType
        <4>2. task[k].act \in FinishActs => branch'[p] = "gone"
          BY <1>t, <3>2, <3>3, <3>5 DEF TypeOK
        <4>3. task[k].act \notin {"BeginEvergreening", "BeginLanding"}
          BY <1>p, <3>1 DEF RouteAct, FinishActs
        <4> QED BY <3>1, <3>4, <3>5, <4>1, <4>2, <4>3 DEF Free, RouteAct, Secured
      <3>7. ASSUME NEW j \in Workers \ {k} PROVE (RouteAct(task[j]) /\ Secured(task[j]))'
        <4>1. task'[j] = task[j] /\ task[j].plan \in Plans
          BY <1>25, <1>t, RemoveType DEF Task
        <4> QED BY <1>p, <3>1, <3>2, <4>1 DEF RouteAct, Secured
      <3>8. CheckoutHasBranch' /\ CompletedIsGone'
        BY <2>2, <3>1, <3>2 DEF Route, CheckoutHasBranch, CompletedIsGone
      <3>9. NoWorkLost'
        <4>1. task[k].act \in FinishActs \cup {"Cancel"}
          BY <1>p, <3>1 DEF RouteAct
        <4> QED BY <3>1, <3>2, <3>5, <4>1 DEF Route, NoWorkLost
      <3> QED BY <1>t, <3>6, <3>7, <3>8, <3>9 DEF Route
    <2> QED BY <2>1, <2>2
  <1>26. ASSUME NEW k \in Workers, NEW p \in Plans, Rename(k, p) PROVE Route'
    <2>1. CASE Goto(k, "stamp") /\ phase' = [phase EXCEPT ![p] = ToOf(task[k].act)]
      <3>1. /\ task'[k].pc = "stamp" /\ task'[k].act = task[k].act
            /\ task'[k].plan = p /\ task[k].pc = "rename" /\ task[k].plan = p
            /\ \A j \in Workers \ {k} : task'[j] = task[j]
        BY <1>26, <1>t, <2>1, GotoEffect DEF Rename, At, Steps
      <3>2. UNCHANGED <<branch, worktree, tip, merged, landed, discarded, raced>>
        BY <1>26 DEF Rename
      <3>3. ToOf(task[k].act) # "scoping"
            /\ (ToOf(task[k].act) = "completed" => task[k].act \in FinishActs)
        BY DEF ToOf
      <3>4. \A q \in Plans : phase'[q] = phase[q] \/ (q = p /\ phase'[q] = ToOf(task[k].act))
        BY <1>t, <2>1 DEF TypeOK
      <3>5. phase'[p] = ToOf(task[k].act)
        BY <1>t, <2>1 DEF TypeOK
      <3>6. (RouteAct(task[k]) /\ Secured(task[k]))'
        BY <3>1, <3>3, <3>5 DEF RouteAct, Secured
      <3>7. ASSUME NEW j \in Workers \ {k} PROVE (RouteAct(task[j]) /\ Secured(task[j]))'
        <4>1. task'[j] = task[j] /\ task[j].plan \in Plans
          BY <1>t, <3>1 DEF Task
        <4> QED BY <1>p, <3>2, <3>3, <3>4, <4>1 DEF RouteAct, Secured
      <3>8. CheckoutHasBranch' /\ NoWorkLost'
        BY <3>2 DEF Route, CheckoutHasBranch, NoWorkLost
      <3>9. CompletedIsGone'
        BY <1>p, <3>1, <3>2, <3>3, <3>4 DEF Route, CompletedIsGone, Secured
      <3> QED BY <1>t, <3>6, <3>7, <3>8, <3>9 DEF Route
    <2>2. CASE Fail(k) /\ UNCHANGED phase
      BY <1>26, <1>t, <2>2, FailEffect, FreeStep DEF Rename, Free
    <2> QED BY <1>26, <2>1, <2>2 DEF Rename
  <1>27. ASSUME NEW k \in Workers, NEW p \in Plans, Create(k, p) PROVE Route'
    <2>1. CASE Goto(k, "drop") /\ branch[p] = "none"
      <3>1. task'[k].pc \in Free /\ \A j \in Workers \ {k} : task'[j] = task[j]
        BY <1>t, <2>1, GotoEffect DEF Free, Steps
      <3>2. /\ worktree' = [worktree EXCEPT ![p] = TRUE]
            /\ branch' = [branch EXCEPT ![p] = "open"]
            /\ UNCHANGED <<phase, tip, merged, landed, discarded, raced>>
        BY <1>27, <1>t, <2>1, GotoEffect, FailEffect DEF Create, Steps
      <3>3. branch'[p] = "open" /\ \A q \in Plans \ {p} : branch'[q] = branch[q] /\ worktree'[q] = worktree[q]
        BY <1>t, <3>2 DEF TypeOK
      <3>4. (RouteAct(task[k]) /\ Secured(task[k]))'
        BY <3>1 DEF Free, RouteAct, Secured
      <3>5. ASSUME NEW j \in Workers \ {k} PROVE (RouteAct(task[j]) /\ Secured(task[j]))'
        <4>1. task'[j] = task[j] /\ task[j].plan \in Plans
          BY <1>t, <3>1 DEF Task
        <4>2. branch[task[j].plan] = "gone" => branch'[task[j].plan] = "gone"
          BY <2>1, <3>3, <4>1
        <4>3. branch[task[j].plan] # "none" => branch'[task[j].plan] # "none"
          BY <3>3, <4>1
        <4> QED BY <1>p, <3>2, <4>1, <4>2, <4>3 DEF RouteAct, Secured
      <3>6. CheckoutHasBranch' /\ CompletedIsGone' /\ NoWorkLost'
        BY <2>1, <3>2, <3>3 DEF Route, CheckoutHasBranch, CompletedIsGone, NoWorkLost
      <3> QED BY <1>t, <3>4, <3>5, <3>6 DEF Route
    <2>2. CASE Fail(k) /\ UNCHANGED <<worktree, branch, base>>
      BY <1>27, <1>t, <2>2, FailEffect, FreeStep DEF Create, Free
    <2> QED BY <1>27, <2>1, <2>2 DEF Create
  <1>28. ASSUME NEW p \in Plans, NEW r \in Roles, Commit(p, r) PROVE Route'
    <2>1. /\ worktree[p] /\ branch[p] = "open"
          /\ tip' = [tip EXCEPT ![p] = @ + 1]
          /\ raced' = IF Retiring(p) THEN raced \cup {p} ELSE raced
          /\ UNCHANGED <<task, phase, worktree, branch, merged, landed, discarded>>
      BY <1>28 DEF Commit, Route, CheckoutHasBranch
    <2>2. \A q \in Plans : q # p => tip'[q] = tip[q]
      BY <1>t, <2>1 DEF TypeOK
    <2>3. ASSUME NEW j \in Workers PROVE (RouteAct(task[j]) /\ Secured(task[j]))'
      <3>1. task[j].plan \in Plans
        BY <1>t DEF Task
      <3>2. task[j].pc \in {"remove", "delete"} /\ task[j].act \in FinishActs
            /\ task[j].plan = p => p \in raced'
        BY <2>1 DEF Retiring
      <3> QED BY <1>p, <2>1, <2>2, <3>1, <3>2 DEF RouteAct, Secured
    <2>4. CheckoutHasBranch' /\ CompletedIsGone' /\ NoWorkLost'
      BY <2>1, <2>2 DEF Route, CheckoutHasBranch, CompletedIsGone, NoWorkLost
    <2> QED BY <1>t, <2>3, <2>4 DEF Route
  <1> QED
    BY <1>1, <1>2, <1>3, <1>4, <1>5, <1>6, <1>7, <1>8, <1>9, <1>10, <1>11, <1>12, <1>13, <1>14, <1>15, <1>16, <1>17, <1>18, <1>19, <1>20, <1>21, <1>22, <1>23, <1>24, <1>25, <1>26, <1>27, <1>28
       DEF Next, TaskStep, UserStep, TurnStep

\* The inductive invariant: what each task has secured for its plan at each step
\* of a transition stays true however the tasks interleave, fail and crash.
THEOREM RouteHolds == Spec => []Route
  BY RouteInit, RouteStep, PTL DEF Spec

\* No commit is lost with its branch.
THEOREM WorkIsSafe == Spec => []NoWorkLost
  <1>1. Route => NoWorkLost
    BY DEF Route
  <1> QED BY <1>1, RouteHolds, PTL

\* A completed plan landed and was retired.
THEOREM CompletedIsClean == Spec => []CompletedIsRetired
  <1>1. Route => CompletedIsRetired
    BY DEF Route, CompletedIsGone, CheckoutHasBranch, CompletedIsRetired
  <1> QED BY <1>1, RouteHolds, PTL

-----------------------------------------------------------------------------
(* The abstract life of a plan *)

\* The open repository is an initial state of the abstract life of its plans.
LEMMA LifecycleInit == Init => Lifecycle!Init
  BY PlanFlowAssumption DEF Init, Lifecycle!Init, Lifecycle!WorkPhases

\* Every step of the automation is a step of the abstract life or none.
LEMMA LifecycleStep == Route /\ [Next]_vars => [Lifecycle!Next]_(Lifecycle!vars)
  <1> SUFFICES ASSUME Route, [Next]_vars PROVE [Lifecycle!Next]_(Lifecycle!vars)
    OBVIOUS
  <1> USE DEF disk, git, agents, time, counts, ghosts
  <1>t. TypeOK /\ task \in [Workers -> Task] /\ \A k \in Workers : task[k] \in Task
    BY DEF Route, TypeOK
  <1>p. \A k \in Workers : RouteAct(task[k]) /\ Secured(task[k])
    BY DEF Route
  <1>1. ASSUME NEW k \in Workers, NEW p \in Plans, FastForward(k, p)
        PROVE  Lifecycle!Land(p) \/ UNCHANGED Lifecycle!vars
    BY <1>1 DEF FastForward, Lifecycle!Land, Lifecycle!vars
  <1>2. ASSUME NEW k \in Workers, NEW p \in Plans, DeleteBranch(k, p)
        PROVE  Lifecycle!Retire(p) \/ Lifecycle!Discard(p) \/ UNCHANGED Lifecycle!vars
    <2>1. CASE branch[p] # "open"
      <3>1. branch' = branch /\ discarded' = discarded
        BY <1>2, <1>t, <2>1 DEF DeleteBranch, TypeOK
      <3> QED BY <1>2, <3>1 DEF DeleteBranch, Lifecycle!vars
    <2>2. CASE branch[p] = "open" /\ ~worktree[p]
      <3>1. /\ branch' = [branch EXCEPT ![p] = "gone"]
            /\ discarded' = IF task[k].act = "Cancel" THEN discarded \cup {p} ELSE discarded
            /\ UNCHANGED <<phase, landed>>
            /\ task[k].pc = "delete" /\ task[k].plan = p
        BY <1>2, <2>2 DEF DeleteBranch, At
      <3>2. task[k].act = "Cancel" \/ (task[k].act \in FinishActs /\ p \in landed)
        BY <1>p, <3>1 DEF RouteAct, Secured
      <3>3. task[k].act = "Cancel" => Lifecycle!Discard(p)
        BY <2>2, <3>1 DEF Lifecycle!Discard
      <3>4. task[k].act \in FinishActs /\ p \in landed => Lifecycle!Retire(p)
        BY <2>2, <3>1 DEF Lifecycle!Retire, FinishActs
      <3> QED BY <3>2, <3>3, <3>4
    <2>3. CASE worktree[p]
      BY <1>2, <2>3 DEF DeleteBranch, Lifecycle!vars
    <2> QED BY <2>1, <2>2, <2>3
  <1>3. ASSUME NEW k \in Workers, NEW p \in Plans, Rename(k, p)
        PROVE  \/ Lifecycle!Approve(p) \/ Lifecycle!Clean(p) \/ Lifecycle!Queue(p)
               \/ Lifecycle!Cancel(p) \/ Lifecycle!Complete(p) \/ UNCHANGED Lifecycle!vars
    <2>1. CASE phase[p] = task[k].from /\ phase' = [phase EXCEPT ![p] = ToOf(task[k].act)]
      <3>1. UNCHANGED <<branch, landed, discarded>> /\ task[k].pc = "rename" /\ task[k].plan = p
        BY <1>3 DEF Rename, At
      <3>2. Moves(task[k].act, phase[p])
        BY <1>p, <2>1, <3>1 DEF RouteAct
      <3>3. CASE task[k].act \in FinishActs
        <4>1. p \in landed /\ branch[p] = "gone"
          BY <1>p, <3>1, <3>3 DEF Secured
        <4>2. ToOf(task[k].act) = "completed" /\ phase[p] \in WorkPhases
          BY <3>2, <3>3 DEF ToOf, Moves, FinishActs
        <4> QED BY <2>1, <3>1, <4>1, <4>2
               DEF Lifecycle!Complete, Lifecycle!Move, Lifecycle!WorkPhases, WorkPhases
      <3>4. CASE task[k].act \notin FinishActs
        <4>1. task[k].act \in {"BeginEvergreening", "BeginLanding"} => branch[p] # "none"
          BY <1>p, <3>1 DEF Secured
        <4> QED BY <2>1, <3>1, <3>2, <3>4, <4>1
           DEF Moves, ToOf, FinishActs, Lifecycle!Approve, Lifecycle!Clean, Lifecycle!Queue,
               Lifecycle!Cancel, Lifecycle!Move, Lifecycle!WorkPhases, WorkPhases, ActivePhases
      <3> QED BY <3>3, <3>4
    <2>2. CASE UNCHANGED phase
      BY <1>3, <2>2 DEF Rename, Lifecycle!vars
    <2> QED BY <1>3, <2>1, <2>2 DEF Rename
  <1>4. ASSUME NEW k \in Workers, NEW p \in Plans, Create(k, p)
        PROVE  Lifecycle!Open(p) \/ UNCHANGED Lifecycle!vars
    <2>1. phase[p] # "scoping"
      BY <1>4, <1>p DEF Create, At, Secured
    <2> QED BY <1>4, <2>1 DEF Create, Lifecycle!Open, Lifecycle!vars
  <1>5. ASSUME NEW k \in Workers, TaskStep(k),
               ~ \E p \in Plans : \/ FastForward(k, p) \/ DeleteBranch(k, p)
                                  \/ Rename(k, p) \/ Create(k, p)
        PROVE  UNCHANGED Lifecycle!vars
    BY <1>5 DEF TaskStep, Lifecycle!vars, StartPump, Scan, EndPump, View, Redirect, Guard,
         Status, RemoveWorktree, Stamp, Drop, Spawn, StartTurn
  <1>6. ASSUME NEW k \in Workers, UserStep(k)
        PROVE  UNCHANGED Lifecycle!vars
    BY <1>6 DEF UserStep, Lifecycle!vars, Command, SetMode, SetEvergreen
  <1>7. ASSUME NEW p \in Plans, UserEdit(p) \/ \E r \in Roles : TurnStep(p, r)
        PROVE  UNCHANGED Lifecycle!vars
    BY <1>7 DEF TurnStep, Lifecycle!vars, UserEdit, EndTurn, AgentEdit, Tidy, Commit, Rebase
  <1>8. CASE TargetMoves \/ Crash \/ UNCHANGED vars
    BY <1>8 DEF TargetMoves, Crash, vars, Lifecycle!vars
  <1> QED BY <1>1, <1>2, <1>3, <1>4, <1>5, <1>6, <1>7, <1>8 DEF Next, Lifecycle!Next

\* The automation, with all its interleavings, failures and crashes, implements
\* the abstract life of a plan.
THEOREM ImplementsLifecycle == Spec => LifecycleSpec
  BY LifecycleInit, LifecycleStep, RouteHolds, PTL DEF Spec, LifecycleSpec, Lifecycle!Spec
-----------------------------------------------------------------------------
(* The landing queue *)

\* No stamp is later than the clock that gave it.
StampsPast == (\A p \in Plans : entered[p] <= clock) /\ crashes \in Nat

\* What QueueKeepsOrder says of one step.
KeepsOrder == \A p \in Plans : Placed(p) /\ phase'[p] = "landing" =>
  /\ Placed(p)' /\ entered'[p] = entered[p]
  /\ \A q \in Plans : Arriving(q) /\ Placed(q)' /\ crashes' = crashes =>
                      entered[p] <= entered'[q]

\* No task comes to a stamp or leaves one, and no plan moves.
QueueStill ==
  /\ UNCHANGED <<phase, entered>>
  /\ \A k \in Workers :
       task[k].pc = "stamp" \/ task'[k].pc = "stamp" => task'[k] = task[k]

\* Such a step keeps every plan at its place, and nobody arrives.
LEMMA StillKeeps == QueueStill => KeepsOrder
  BY DEF QueueStill, KeepsOrder, Placed, Arriving

\* A step of a task that is not about a move is such a step.
LEMMA StillTask ==
  ASSUME UNCHANGED <<phase, entered>>, NEW k \in Workers,
         task[k].pc # "stamp", task'[k].pc # "stamp",
         \A j \in Workers \ {k} : task'[j] = task[j]
  PROVE  QueueStill
  BY DEF QueueStill

\* A plan in landing/ moves out of it only; who moves in is about to be stamped.
LEMMA RenameKeeps ==
  ASSUME Route, NEW k \in Workers, NEW p \in Plans, Rename(k, p)
  PROVE  KeepsOrder
  <1>t. TypeOK /\ task \in [Workers -> Task] /\ RouteAct(task[k])
    BY DEF Route, TypeOK
  <1>0. task[k].pc = "rename" /\ task[k].plan = p /\ entered' = entered
    BY DEF Rename, At
  <1>1. CASE Fail(k) /\ UNCHANGED phase
    BY <1>t, <1>0, <1>1, FailEffect, StillTask, StillKeeps
  <1>2. CASE /\ phase[p] = task[k].from /\ Goto(k, "stamp")
             /\ phase' = [phase EXCEPT ![p] = ToOf(task[k].act)]
    <2>1. /\ task'[k].plan = p
          /\ \A j \in Workers \ {k} : task'[j] = task[j]
      BY <1>t, <1>0, <1>2, GotoEffect DEF Steps
    <2>2. phase[p] = "landing" => phase'[p] # "landing"
      <3>1. phase[p] = "landing" => task[k].act \in FinishActs \cup {"Cancel"}
        BY <1>t, <1>0, <1>2 DEF RouteAct, Moves
      <3>2. phase'[p] = ToOf(task[k].act)
        BY <1>t, <1>2 DEF TypeOK
      <3> QED BY <3>1, <3>2 DEF ToOf, FinishActs
    <2>3. ASSUME NEW q \in Plans, Arriving(q) PROVE Arriving(q)'
      BY <1>0, <2>1, <2>3 DEF Arriving
    <2>4. ASSUME NEW q \in Plans, q # p, ~Arriving(q) PROVE ~Arriving(q)'
      BY <1>0, <2>1, <2>4 DEF Arriving
    <2> QED BY <1>0, <2>2, <2>3, <2>4 DEF KeepsOrder, Placed
  <1> QED BY <1>1, <1>2 DEF Rename

\* The stamp of an arrival is not before any earlier one, and a late stamp of an
\* earlier move does not touch a plan in landing/.
LEMMA StampKeeps ==
  ASSUME Route, StampsPast, NEW k \in Workers, NEW p \in Plans, Stamp(k, p)
  PROVE  KeepsOrder /\ StampsPast'
  <1>t. TypeOK /\ task \in [Workers -> Task]
    BY DEF Route, TypeOK
  <1>0. task[k].pc = "stamp" /\ task[k].plan = p /\ UNCHANGED <<phase, crashes>>
    BY DEF Stamp, At, counts
  <1>1. task'[k].pc # "stamp" /\ \A j \in Workers \ {k} : task'[j] = task[j]
    BY <1>t, GotoEffect DEF Stamp, AfterStamp, Steps
  <1>2. /\ \A q \in Plans \ {p} : entered'[q] = entered[q]
        /\ phase[p] # ToOf(task[k].act) => entered'[p] = entered[p]
        /\ phase[p] = ToOf(task[k].act) => entered'[p] = clock'
        /\ clock \in Nat /\ clock' \in Nat /\ clock' >= clock
    BY <1>t DEF Stamp, TypeOK
  <1>3. StampsPast'
    <2>1. ASSUME NEW q \in Plans PROVE entered'[q] <= clock'
      <3>1. entered[q] <= clock /\ entered[q] \in Nat
        BY <1>t DEF StampsPast, TypeOK
      <3> QED BY <1>2, <3>1
    <2> QED BY <1>0, <2>1 DEF StampsPast
  <1>4. \A q \in Plans : Arriving(q)' => Arriving(q)
    BY <1>1 DEF Arriving
  <1>5. ASSUME NEW q \in Plans, Arriving(q), ~Arriving(q)'
        PROVE  q = p /\ ToOf(task[k].act) = "landing"
    BY <1>0, <1>1, <1>5 DEF Arriving
  <1>6. ASSUME NEW q \in Plans, Placed(q), phase'[q] = "landing"
        PROVE  Placed(q)' /\ entered'[q] = entered[q]
    <2>1. q = p => ToOf(task[k].act) # "landing"
      BY <1>0, <1>6 DEF Placed, Arriving
    <2> QED BY <1>0, <1>2, <1>4, <1>6, <2>1 DEF Placed
  <1>7. ASSUME NEW q \in Plans, Placed(q), NEW x \in Plans, Arriving(x), Placed(x)'
        PROVE  entered[q] <= entered'[x]
    <2>1. x = p /\ ToOf(task[k].act) = "landing" /\ phase[p] = "landing"
      BY <1>0, <1>5, <1>7 DEF Placed
    <2>2. entered'[x] >= clock
      BY <1>2, <2>1
    <2>3. entered[q] <= clock /\ entered[q] \in Nat /\ entered'[x] \in Nat
      BY <1>t, <1>2, <2>1 DEF StampsPast, TypeOK
    <2> QED BY <1>2, <2>2, <2>3
  <1> QED BY <1>3, <1>6, <1>7 DEF KeepsOrder

\* Every step keeps the order of the queue; only moves and stamps touch it, and
\* a restart, which forgets the tasks but no stamp.
LEMMA QueueStep == Route /\ StampsPast /\ [Next]_vars => KeepsOrder /\ StampsPast'
  <1> SUFFICES ASSUME Route, StampsPast, [Next]_vars PROVE KeepsOrder /\ StampsPast'
    OBVIOUS
  <1> USE DEF disk, git, agents, time, counts, ghosts
  <1>t. TypeOK /\ task \in [Workers -> Task] /\ \A k \in Workers : task[k] \in Task
    BY DEF Route, TypeOK
  <1>s. UNCHANGED <<entered, clock, crashes>> => StampsPast'
    BY DEF StampsPast
  <1>1. ASSUME NEW k \in Workers, StartPump(k) \/ Scan(k) \/ EndPump(k)
        PROVE  KeepsOrder /\ StampsPast'
    <2>1. /\ task[k].pc # "stamp" /\ task'[k].pc # "stamp"
          /\ \A j \in Workers \ {k} : task'[j] = task[j]
      BY <1>1, <1>t, ScanType, PumpTasks, NoTaskType, Becomes DEF StartPump, Scan, EndPump, At
    <2> QED BY <1>1, <1>s, <2>1, StillTask, StillKeeps DEF StartPump, Scan, EndPump
  <1>2. ASSUME NEW k \in Workers, NEW p \in Plans,
               View(k, p) \/ Redirect(k, p) \/ Guard(k, p)
        PROVE  KeepsOrder /\ StampsPast'
    <2>1. /\ task[k].pc # "stamp" /\ task'[k].pc # "stamp"
          /\ \A j \in Workers \ {k} : task'[j] = task[j]
      BY <1>2, <1>t, ViewType, RedirectType, GuardType DEF View, Redirect, Guard, At, Free
    <2> QED BY <1>2, <1>s, <2>1, StillTask, StillKeeps DEF View, Redirect, Guard
  <1>3. ASSUME NEW k \in Workers, NEW p \in Plans,
               \/ Status(k, p) \/ FastForward(k, p) \/ RemoveWorktree(k, p)
               \/ DeleteBranch(k, p) \/ Create(k, p)
        PROVE  KeepsOrder /\ StampsPast'
    <2>1. /\ task[k].pc # "stamp"
          /\ task'[k].pc # "stamp" /\ \A j \in Workers \ {k} : task'[j] = task[j]
      <3>1. AfterStatus(task[k].act) \in {"merge", "spawn", "rename"}
        BY DEF AfterStatus
      <3>2. CASE Status(k, p)
        BY <1>t, <3>1, <3>2, GotoEffect, FailEffect DEF Status, At, Steps
      <3>3. CASE FastForward(k, p)
        BY <1>t, <3>3, GotoEffect, FailEffect DEF FastForward, At, Steps
      <3>4. CASE RemoveWorktree(k, p) \/ DeleteBranch(k, p)
        BY <1>t, <3>4, RemoveType DEF RemoveWorktree, DeleteBranch, At, Free
      <3>5. CASE Create(k, p)
        BY <1>t, <3>5, GotoEffect, FailEffect DEF Create, At, Steps
      <3> QED BY <1>3, <3>2, <3>3, <3>4, <3>5
    <2> QED BY <1>3, <1>s, <2>1, StillTask, StillKeeps
            DEF Status, FastForward, RemoveWorktree, DeleteBranch, Create
  <1>4. ASSUME NEW k \in Workers, NEW p \in Plans, Drop(k, p) \/ Spawn(k, p) \/ StartTurn(k, p)
        PROVE  KeepsOrder /\ StampsPast'
    <2>1. /\ task[k].pc # "stamp" /\ task'[k].pc # "stamp"
          /\ \A j \in Workers \ {k} : task'[j] = task[j]
      BY <1>4, <1>t, GotoEffect, FailEffect, SucceedEffect DEF Drop, Spawn, StartTurn, At, Steps
    <2> QED BY <1>4, <1>s, <2>1, StillTask, StillKeeps DEF Drop, Spawn, StartTurn
  <1>5. ASSUME NEW k \in Workers, NEW p \in Plans, Rename(k, p)
        PROVE  KeepsOrder /\ StampsPast'
    BY <1>5, <1>s, RenameKeeps DEF Rename
  <1>6. ASSUME NEW k \in Workers, NEW p \in Plans, Stamp(k, p)
        PROVE  KeepsOrder /\ StampsPast'
    BY <1>6, StampKeeps
  <1>7. ASSUME NEW k \in Workers, NEW p \in Plans, NEW act \in CommandsFor(phase[p]),
               Command(k, p, act)
        PROVE  KeepsOrder /\ StampsPast'
    <2>1. /\ task[k].pc # "stamp" /\ task'[k].pc # "stamp"
          /\ \A j \in Workers \ {k} : task'[j] = task[j]
      BY <1>7, <1>t, CommandType DEF Command, At
    <2> QED BY <1>7, <1>s, <2>1, StillTask, StillKeeps DEF Command
  <1>8. ASSUME NEW k \in Workers, NEW p \in Plans, SetMode(k, p) \/ SetEvergreen(k, p)
        PROVE  KeepsOrder /\ StampsPast'
    <2>1. /\ task[k].pc # "stamp" /\ task'[k].pc # "stamp"
          /\ \A j \in Workers \ {k} : task'[j] = task[j]
      <3>1. task[k].pc = "idle" /\ (UNCHANGED task \/ Become(k, NewPump))
        BY <1>8 DEF SetMode, SetEvergreen, PumpIfAuto, At
      <3> QED BY <1>t, <3>1, PumpTasks, NoTaskType, Becomes
    <2> QED BY <1>8, <1>s, <2>1, StillTask, StillKeeps DEF SetMode, SetEvergreen
  <1>9. ASSUME NEW p \in Plans, UserEdit(p) \/ \E r \in Roles : TurnStep(p, r)
        PROVE  KeepsOrder /\ StampsPast'
    <2>1. UNCHANGED <<task, phase, entered, clock, crashes>>
      BY <1>9 DEF TurnStep, UserEdit, EndTurn, AgentEdit, Tidy, Commit, Rebase
    <2> QED BY <1>s, <2>1, StillKeeps DEF QueueStill
  <1>10. CASE Crash
    <2>1. /\ UNCHANGED <<phase, entered, clock>> /\ crashes' = crashes + 1
          /\ \A k \in Workers : task'[k].pc # "stamp"
      BY <1>10, PumpTasks DEF Crash
    <2>2. \A p \in Plans : ~Arriving(p)'
      BY <2>1 DEF Arriving
    <2>3. crashes' # crashes /\ crashes' \in Nat
      BY <2>1 DEF StampsPast
    <2> QED BY <2>1, <2>2, <2>3 DEF KeepsOrder, Placed, StampsPast
  <1>11. CASE TargetMoves \/ UNCHANGED vars
    <2>1. UNCHANGED <<task, phase, entered, clock, crashes>>
      BY <1>11 DEF TargetMoves, vars
    <2> QED BY <1>s, <2>1, StillKeeps DEF QueueStill
  <1> QED BY <1>1, <1>2, <1>3, <1>4, <1>5, <1>6, <1>7, <1>8, <1>9, <1>10, <1>11
          DEF Next, TaskStep, UserStep

\* A plan that waits in the landing queue keeps its place until it leaves it:
\* for any number of plans and tasks, and through crashes.
THEOREM QueueIsFair == Spec => QueueKeepsOrder
  <1>1. Init => StampsPast
    BY DEF Init, StampsPast
  <1>2. Route /\ StampsPast /\ [Next]_vars => [KeepsOrder]_vars /\ StampsPast'
    BY QueueStep
  <1>3. [][KeepsOrder]_vars => QueueKeepsOrder
    BY DEF KeepsOrder, QueueKeepsOrder
  <1> QED BY <1>1, <1>2, <1>3, RouteHolds, PTL DEF Spec

=============================================================================
