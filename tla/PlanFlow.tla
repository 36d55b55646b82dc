------------------------------ MODULE PlanFlow ------------------------------
(***************************************************************************)
(* The automation core of samokod's backend (agent/advance.rs, with the    *)
(* moves of plans.rs and the git steps of worktrees.rs).  Pumps run on     *)
(* threads of their own and commands are concurrent tasks; both go through *)
(* the one `transition' function, which holds no lock across its file, git *)
(* and agent steps.  Each step of a transition is an action here, so every *)
(* two transitions interleave at every point where the code lets them.     *)
(***************************************************************************)
EXTENDS Integers, FiniteSets, Sequences, LandingQueue

CONSTANTS
  Plans,        \* plan names; naturals, ordered like the names
  Workers,      \* tasks that can be in flight at once (pumps and commands)
  StartPhases,  \* phases the plans may be in when the repository is opened
  Faults,       \* the steps that may fail: "move", "create", "merge", "spawn", "turn"
  Diligent,     \* plans whose agents end a turn well only when their job is done
  MaxTarget,    \* bound: versions of the target branch made by others
  MaxCommits,   \* bound: commits one plan's branch receives
  MaxCommands,  \* bound: commands the user issues
  MaxEdits,     \* bound: edits of a worktree that leave it dirty
  MaxTurns,     \* bound: prompts in flight on one session
  MaxDue,       \* bound: pumps asked for and not started
  MaxCrashes,   \* bound: restarts of the application
  MaxEvents     \* bound: moves of the target, commands, edits and crashes together

ASSUME PlanFlowAssumption ==
  /\ Plans \subseteq Nat /\ Plans # {} /\ IsFiniteSet(Plans)
  /\ StartPhases \subseteq {"scoping", "executing", "evergreening", "landing"}
  /\ Diligent \subseteq Plans
  /\ {MaxTarget, MaxCommits, MaxCommands, MaxEdits, MaxTurns, MaxDue,
      MaxCrashes, MaxEvents} \subseteq Nat

WorkPhases   == {"executing", "evergreening", "landing"}
ActivePhases == {"scoping"} \cup WorkPhases
Phases       == ActivePhases \cup {"completed", "cancelled"}
Roles        == ActivePhases          \* role_phase: one session role per phase

FinishActs == {"FinishExecuting", "FinishEvergreening", "FinishLanding"}
StartActs  == {"StartLanding", "RebaseLanding"}
PumpActs   == FinishActs \cup StartActs \cup {"BeginEvergreening", "BeginLanding"}
Acts       == PumpActs \cup {"Execute", "Cancel", "Prompt", "None"}

Steps == {"idle", "scan", "view", "redirect", "guard", "status", "merge",
          "remove", "delete", "rename", "stamp", "create", "drop", "spawn",
          "turn"}

VARIABLES
  \* what survives a crash: .samokod/ and git
  phase, entered, manual, evergreen, started,
  worktree, branch, dirty, base, tip, merged, target,
  \* the backend's memory and the agents
  live, turns, task, due,
  \* time: the millisecond of the last stamp, and whether it is over
  clock, ticked,
  \* counters of the bounds, and history for the properties
  commands, edits, crashes, landed, discarded, raced

disk   == <<phase, entered, manual, evergreen, started>>
git    == <<worktree, branch, dirty, base, tip, merged, target>>
agents == <<live, turns>>
time   == <<clock, ticked>>
counts == <<commands, edits, crashes>>
ghosts == <<landed, discarded, raced>>
vars   == <<disk, git, agents, task, due, time, counts, ghosts>>

\* Whether the bound leaves room for another event from outside.
Quiet == target + commands + edits + crashes < MaxEvents

-----------------------------------------------------------------------------
(* Tasks *)

NoTask == [pc |-> "idle", pump |-> FALSE, act |-> "None", picked |-> "None",
           plan |-> CHOOSE p \in Plans : TRUE, from |-> "scoping",
           cut |-> 0, own |-> FALSE, todo |-> <<>>, head |-> {}, fired |-> {}]

NewPump == [NoTask EXCEPT !.pc = "scan", !.pump = TRUE]

\* The session a transition gates on and where it moves its plan.
FromOf(act) ==
  CASE act = "Execute"                            -> "scoping"
    [] act \in {"BeginEvergreening", "FinishExecuting"} -> "executing"
    [] act = "FinishEvergreening"                 -> "evergreening"
    [] OTHER                                      -> "landing"

ToOf(act) ==
  CASE act = "Execute"           -> "executing"
    [] act = "BeginEvergreening" -> "evergreening"
    [] act \in FinishActs        -> "completed"
    [] act = "Cancel"            -> "cancelled"
    [] OTHER                     -> "landing"

\* The order of the steps of one transition.
AfterGuard(act, from) ==
  CASE act = "Execute" -> "rename"
    [] act = "Cancel"  -> IF from \in WorkPhases THEN "remove" ELSE "rename"
    [] act = "Prompt"  -> "spawn"
    [] OTHER           -> "status"

AfterStatus(act) ==
  CASE act \in FinishActs -> "merge"
    [] act \in StartActs  -> "spawn"
    [] OTHER              -> "rename"

AfterStamp(act) == IF act = "Execute" THEN "create" ELSE "drop"

At(k, step) == task[k].pc = step
Become(k, t) == task' = [task EXCEPT ![k] = t]
Goto(k, step) == Become(k, [task[k] EXCEPT !.pc = step])

\* Mutant: a pump rescans whatever it fired before.
SucceedForever(k) ==
  IF task[k].pump THEN Goto(k, "scan") ELSE Become(k, NoTask)

\* A transition returns.  A command ends; a pump that fired rescans unless
\* it fired the same transition before; a pump whose transition failed goes
\* on with its pass.
Succeed(k) ==
  LET done == <<task[k].picked, task[k].plan>> IN
  IF task[k].pump /\ done \notin task[k].fired
  THEN Become(k, [task[k] EXCEPT !.pc = "scan", !.fired = @ \cup {done}])
  ELSE Become(k, NoTask)

Fail(k) == IF task[k].pump THEN Goto(k, "view") ELSE Become(k, NoTask)

Working(p, role) == live[p][role] = "working"
IsClean(p) == worktree[p] /\ branch[p] = "open" /\ ~dirty[p]
Ffable(p)  == base[p] = target
HasCommits(p) == tip[p] > merged[p]

-----------------------------------------------------------------------------
(* Pump: scan, view, decide *)

StartPump(k) ==
  /\ At(k, "idle") /\ due > 0
  /\ due' = due - 1
  /\ Become(k, NewPump)
  /\ UNCHANGED <<disk, git, agents, time, counts, ghosts>>

\* One pass: the active plans in visiting order and the head of the landing
\* queue, both as of now.
Scan(k) ==
  LET active == {p \in Plans : phase[p] \in ActivePhases} IN
  /\ At(k, "scan")
  /\ \E order \in VisitOrders(phase, entered, active, Cardinality(active)) :
       Become(k, [task[k] EXCEPT !.pc = "view",
                    !.todo = [i \in DOMAIN order |->
                                [plan |-> order[i], phase |-> phase[order[i]]]],
                    !.head = {p \in active : IsHead(phase, entered, p)}])
  /\ UNCHANGED <<disk, git, agents, due, time, counts, ghosts>>

\* plan_view and next_action, for the phase the scan saw; "None" holds the
\* plan.  A worktree that cannot be probed counts as dirty, and a directory
\* that has moved on reads as a default state.json: automatic, evergreen, no
\* landing session.
NextAction(p, phs, head) ==
  LET there == phase[p] = phs IN
  IF (there /\ manual[p]) \/ Working(p, phs) \/ ~IsClean(p) THEN "None"
  ELSE CASE phs = "executing" ->
              IF (there => evergreen[p]) /\ HasCommits(p) THEN "BeginEvergreening"
              ELSE IF Ffable(p) THEN "FinishExecuting" ELSE "BeginLanding"
         [] phs = "evergreening" ->
              IF Ffable(p) THEN "FinishEvergreening" ELSE "BeginLanding"
         [] phs = "landing" ->
              IF Ffable(p) THEN "FinishLanding"
              ELSE IF p \notin head THEN "None"
              ELSE IF there /\ started[p] THEN "RebaseLanding" ELSE "StartLanding"
         [] OTHER -> "None"

\* The first step of a transition: a rebase or a start probes first whether
\* the landing is fast-forwardable after all.
FirstStep(act) == IF act \in StartActs THEN "redirect" ELSE "guard"

View(k, p) ==
  LET act == NextAction(p, Head(task[k].todo).phase, task[k].head) IN
  /\ At(k, "view") /\ task[k].todo # <<>> /\ Head(task[k].todo).plan = p
  /\ Become(k, [task[k] EXCEPT !.todo = Tail(@), !.plan = p,
                  !.act = act, !.picked = act, !.from = FromOf(act),
                  !.pc = IF act = "None" THEN "view" ELSE FirstStep(act)])
  /\ UNCHANGED <<disk, git, agents, due, time, counts, ghosts>>

\* A pass that fired nothing ends the pump.
EndPump(k) ==
  /\ At(k, "view") /\ task[k].todo = <<>>
  /\ Become(k, NoTask)
  /\ UNCHANGED <<disk, git, agents, due, time, counts, ghosts>>

-----------------------------------------------------------------------------
(* Commands *)

\* execute_plan, finish_landing, begin_landing, cancel_plan and send_prompt,
\* on the session the user sees.
CommandsFor(phs) ==
  CASE phs = "scoping"      -> {"Execute", "Cancel", "Prompt"}
    [] phs = "executing"    -> {"FinishExecuting", "BeginLanding", "Cancel", "Prompt"}
    [] phs = "evergreening" -> {"FinishEvergreening", "BeginLanding", "Cancel", "Prompt"}
    [] phs = "landing"      -> {"FinishLanding", "Cancel", "Prompt"}
    [] OTHER                -> {}

Command(k, p, act) ==
  /\ At(k, "idle") /\ commands < MaxCommands /\ Quiet
  /\ act \in CommandsFor(phase[p])
  /\ commands' = commands + 1
  /\ Become(k, [NoTask EXCEPT !.pc = FirstStep(act), !.act = act,
                  !.picked = act, !.plan = p, !.from = phase[p]])
  /\ UNCHANGED <<disk, git, agents, due, time, edits, crashes, ghosts>>

\* set_plan_mode and set_plan_evergreen: flip, then pump if the plan is on auto.
PumpIfAuto(k, auto) ==
  IF auto THEN Become(k, NewPump) ELSE UNCHANGED task

SetMode(k, p) ==
  /\ At(k, "idle") /\ commands < MaxCommands /\ Quiet
  /\ phase[p] \in WorkPhases
  /\ manual' = [manual EXCEPT ![p] = ~@]
  /\ PumpIfAuto(k, manual[p])
  /\ commands' = commands + 1
  /\ UNCHANGED <<phase, entered, evergreen, started, git, agents, due, time,
                 edits, crashes, ghosts>>

SetEvergreen(k, p) ==
  /\ At(k, "idle") /\ commands < MaxCommands /\ Quiet
  /\ phase[p] \in WorkPhases
  /\ evergreen' = [evergreen EXCEPT ![p] = ~@]
  /\ PumpIfAuto(k, ~manual[p])
  /\ commands' = commands + 1
  /\ UNCHANGED <<phase, entered, manual, started, git, agents, due, time,
                 edits, crashes, ghosts>>

-----------------------------------------------------------------------------
(* The steps of a transition; p is the worker's plan *)

\* landing_is_ffable: finish instead.
Redirect(k, p) ==
  /\ At(k, "redirect") /\ task[k].plan = p
  /\ Become(k, [task[k] EXCEPT !.pc = "guard",
                  !.act = IF phase[p] = "landing" /\ IsClean(p) /\ Ffable(p)
                          THEN "FinishLanding" ELSE @])
  /\ UNCHANGED <<disk, git, agents, due, time, counts, ghosts>>

\* The phase the worker must find its plan in, given what it came for.
GuardPhases(act, from) ==
  IF act = "BeginLanding" THEN {"executing", "evergreening"} ELSE {from}

\* ensure_idle, the directory check, and for a start or a rebase the head of
\* the queue.  A prompt only refuses a landing that is held; its turn guard
\* comes last.  Execute also snapshots the head commit.
GuardHolds(p, act, from) ==
  IF act = "Prompt"
  THEN ~(from = "landing" /\ IsQueued(phase, entered, p))
  ELSE /\ phase[p] \in GuardPhases(act, from)
       /\ ~Working(p, phase[p])
       /\ act \in StartActs => IsHead(phase, entered, p)

Guard(k, p) ==
  LET t == task[k] IN
  /\ At(k, "guard") /\ t.plan = p
  /\ IF GuardHolds(p, t.act, t.from)
     THEN LET from == IF t.act = "Prompt" THEN t.from ELSE phase[p] IN
          Become(k, [t EXCEPT !.pc = AfterGuard(t.act, from), !.from = from,
                       !.cut = IF t.act = "Execute" THEN target ELSE 0])
     ELSE Fail(k)
  /\ UNCHANGED <<disk, git, agents, due, time, counts, ghosts>>

\* worktree_status_for with gate_landing: dirty refuses every step; a finish
\* wants a fast-forwardable branch, a move into or a start of landing wants a
\* diverged one, evergreening and a rebase do not care.
Gate(p, act) ==
  /\ IsClean(p)
  /\ act \in FinishActs => Ffable(p)
  /\ act \in {"BeginLanding", "StartLanding"} => ~Ffable(p)

Status(k, p) ==
  /\ At(k, "status") /\ task[k].plan = p
  /\ IF Gate(p, task[k].act) THEN Goto(k, AfterStatus(task[k].act)) ELSE Fail(k)
  /\ UNCHANGED <<disk, git, agents, due, time, counts, ghosts>>

\* Mutant: the error of the fast-forward is dropped.
FastForwardIgnored(k, p) ==
  /\ At(k, "merge") /\ task[k].plan = p
  /\ Goto(k, "remove")
  /\ \/ /\ branch[p] = "open" /\ Ffable(p)
        /\ target' = IF HasCommits(p) THEN target + 1 ELSE target
        /\ base' = [base EXCEPT ![p] = target']
        /\ merged' = [merged EXCEPT ![p] = tip[p]]
        /\ landed' = landed \cup {p}
        /\ UNCHANGED <<worktree, branch, dirty, tip>>
     \/ /\ branch[p] # "open" \/ ~Ffable(p) \/ "merge" \in Faults
        /\ UNCHANGED <<git, landed>>
  /\ UNCHANGED <<disk, agents, due, time, counts, discarded, raced>>

\* fast_forward: git itself refuses a branch that does not contain the
\* target.  Landed commits move the target.
FastForward(k, p) ==
  /\ At(k, "merge") /\ task[k].plan = p
  /\ \/ /\ branch[p] = "open" /\ Ffable(p)
        /\ target' = IF HasCommits(p) THEN target + 1 ELSE target
        /\ base' = [base EXCEPT ![p] = target']
        /\ merged' = [merged EXCEPT ![p] = tip[p]]
        /\ landed' = landed \cup {p}
        /\ Goto(k, "remove")
        /\ UNCHANGED <<worktree, branch, dirty, tip>>
     \/ /\ branch[p] # "open" \/ ~Ffable(p) \/ "merge" \in Faults
        /\ Fail(k)
        /\ UNCHANGED <<git, landed>>
  /\ UNCHANGED <<disk, agents, due, time, counts, discarded, raced>>

\* Mutant: a refused removal does not stop the finish.
RemoveWorktreeIgnored(k, p) ==
  /\ At(k, "remove") /\ task[k].plan = p
  /\ IF worktree[p] /\ dirty[p] /\ task[k].act # "Cancel"
     THEN Goto(k, "rename") /\ UNCHANGED <<worktree, dirty>>
     ELSE /\ worktree' = [worktree EXCEPT ![p] = FALSE]
          /\ dirty' = [dirty EXCEPT ![p] = FALSE]
          /\ Become(k, [task[k] EXCEPT !.pc = "delete", !.own = worktree[p]])
  /\ UNCHANGED <<disk, branch, base, tip, merged, target, agents, due, time, counts, ghosts>>

\* worktrees::remove, first half: a clean removal refuses a dirty tree.
RemoveWorktree(k, p) ==
  /\ At(k, "remove") /\ task[k].plan = p
  /\ IF worktree[p] /\ dirty[p] /\ task[k].act # "Cancel"
     THEN Fail(k) /\ UNCHANGED <<worktree, dirty>>
     ELSE /\ worktree' = [worktree EXCEPT ![p] = FALSE]
          /\ dirty' = [dirty EXCEPT ![p] = FALSE]
          /\ Become(k, [task[k] EXCEPT !.pc = "delete", !.own = worktree[p]])
  /\ UNCHANGED <<disk, branch, base, tip, merged, target, agents, due, time, counts, ghosts>>

\* Second half, `branch -D`: git refuses a branch that is checked out; a
\* missing branch is loud only for the task that removed the worktree.
DeleteBranch(k, p) ==
  /\ At(k, "delete") /\ task[k].plan = p
  /\ IF worktree[p] \/ (branch[p] # "open" /\ task[k].own)
     THEN Fail(k) /\ UNCHANGED <<branch, discarded>>
     ELSE /\ branch' = [branch EXCEPT ![p] = IF @ = "open" THEN "gone" ELSE @]
          /\ discarded' = IF task[k].act = "Cancel" /\ branch[p] = "open"
                          THEN discarded \cup {p} ELSE discarded
          /\ Become(k, [task[k] EXCEPT !.pc = "rename", !.own = FALSE])
  /\ UNCHANGED <<disk, worktree, dirty, base, tip, merged, target, agents, due,
                 time, counts, landed, raced>>

\* Mutant: the directory moves wherever it is by now.
RenameAnywhere(k, p) ==
  /\ At(k, "rename") /\ task[k].plan = p
  /\ phase' = [phase EXCEPT ![p] = ToOf(task[k].act)]
  /\ Goto(k, "stamp")
  /\ UNCHANGED <<entered, manual, evergreen, started, git, agents, due, time, counts, ghosts>>

\* The plan directory moves, if it is still where the guard saw it.  Only
\* execute can also fail on an unreadable or untitled plan.md.
Rename(k, p) ==
  LET t == task[k] IN
  /\ At(k, "rename") /\ t.plan = p
  /\ \/ /\ phase[p] = t.from
        /\ phase' = [phase EXCEPT ![p] = ToOf(t.act)]
        /\ Goto(k, "stamp")
     \/ /\ phase[p] # t.from \/ (t.act = "Execute" /\ "move" \in Faults)
        /\ Fail(k)
        /\ UNCHANGED phase
  /\ UNCHANGED <<entered, manual, evergreen, started, git, agents, due, time, counts, ghosts>>

\* Mutant: the directory is stamped wherever it is by now.
StampAnywhere(k, p) ==
  LET t == task[k] IN
  /\ At(k, "stamp") /\ t.plan = p
  /\ \E now \in {clock, clock + 1} :
       /\ ticked => now > clock
       /\ clock' = now /\ ticked' = FALSE
       /\ entered' = [entered EXCEPT ![p] = now]
  /\ Goto(k, AfterStamp(t.act))
  /\ UNCHANGED <<phase, manual, evergreen, started, git, agents, due, counts, ghosts>>

\* stamp_entered_at: milliseconds, so two stamps can tie when no agent was
\* spawned in between.  Skipped when the directory has moved on.
Stamp(k, p) ==
  LET t == task[k] IN
  /\ At(k, "stamp") /\ t.plan = p
  /\ IF phase[p] = ToOf(t.act)
     THEN \E now \in {clock, clock + 1} :
            /\ ticked => now > clock
            /\ clock' = now /\ ticked' = FALSE
            /\ entered' = [entered EXCEPT ![p] = now]
     ELSE UNCHANGED <<clock, ticked, entered>>
  /\ Goto(k, AfterStamp(t.act))
  /\ UNCHANGED <<phase, manual, evergreen, started, git, agents, due, counts, ghosts>>

\* worktrees::create, at the commit Execute saw; fails when the branch or the
\* path is taken (the branch name drops the timestamp, so another plan's
\* title can take it).
Create(k, p) ==
  /\ At(k, "create") /\ task[k].plan = p
  /\ \/ /\ ~worktree[p] /\ branch[p] = "none"
        /\ worktree' = [worktree EXCEPT ![p] = TRUE]
        /\ branch' = [branch EXCEPT ![p] = "open"]
        /\ base' = [base EXCEPT ![p] = task[k].cut]
        /\ Goto(k, "drop")
     \/ /\ worktree[p] \/ branch[p] # "none" \/ "create" \in Faults
        /\ Fail(k)
        /\ UNCHANGED <<worktree, branch, base>>
  /\ UNCHANGED <<disk, dirty, tip, merged, target, agents, due, time, counts, ghosts>>

\* drop_live of the acted session, or of every work session of a plan that
\* finished or was cancelled.
DroppedRoles(act, from) ==
  IF act \in FinishActs \/ (act = "Cancel" /\ from # "scoping")
  THEN WorkPhases ELSE {from}

Drop(k, p) ==
  LET t == task[k] IN
  /\ At(k, "drop") /\ t.plan = p
  /\ live' = [live EXCEPT ![p] = [r \in Roles |->
                IF r \in DroppedRoles(t.act, t.from) THEN "none" ELSE @[r]]]
  /\ IF t.act \in {"Execute", "BeginEvergreening"} THEN Goto(k, "spawn") ELSE Succeed(k)
  /\ UNCHANGED <<disk, git, turns, due, time, counts, ghosts>>

\* The role whose session a transition starts.
StartRole(t) == IF t.act = "Prompt" THEN t.from ELSE ToOf(t.act)

\* spawn_session overwrites the entry.  ensure_live (prompts and rebases)
\* keeps a live session and refuses a plan that left the role's phase.  A
\* spawn takes longer than a millisecond.
Spawn(k, p) ==
  LET t == task[k]
      r == StartRole(t)
      lazy == t.act \in {"Prompt", "RebaseLanding"} IN
  /\ At(k, "spawn") /\ t.plan = p
  /\ \/ /\ lazy /\ live[p][r] # "none"
        /\ Goto(k, "turn")
        /\ UNCHANGED <<live, started, ticked>>
     \/ /\ lazy => live[p][r] = "none" /\ phase[p] = r
        /\ live' = [live EXCEPT ![p][r] = "idle"]
        /\ started' = IF r = "landing" THEN [started EXCEPT ![p] = TRUE] ELSE started
        /\ ticked' = TRUE
        /\ Goto(k, "turn")
     \/ /\ \/ "spawn" \in Faults
           \/ lazy /\ live[p][r] = "none" /\ phase[p] # r
        /\ Fail(k)
        /\ UNCHANGED <<live, started, ticked>>
  /\ UNCHANGED <<phase, entered, manual, evergreen, git, turns, due, clock, counts,
                 ghosts>>

\* Mutant: the first prompt of a session stamps the plan again.
StartTurnStamps(k, p) ==
  LET r == StartRole(task[k]) IN
  /\ At(k, "turn") /\ task[k].plan = p /\ turns[p][r] < MaxTurns
  /\ turns' = [turns EXCEPT ![p][r] = @ + 1]
  /\ live' = [live EXCEPT ![p][r] = IF @ = "none" THEN @ ELSE "working"]
  /\ clock' = clock + 1 /\ entered' = [entered EXCEPT ![p] = clock']
  /\ Succeed(k)
  /\ UNCHANGED <<phase, manual, evergreen, started, git, due, ticked, counts, ghosts>>

\* start_turn: refuse a working key, else mark it and send the prompt.  A key
\* that was dropped meanwhile is not marked, and its prompt goes out anyway.
StartTurn(k, p) ==
  LET r == StartRole(task[k]) IN
  /\ At(k, "turn") /\ task[k].plan = p
  /\ IF Working(p, r)
     THEN Fail(k) /\ UNCHANGED agents
     ELSE /\ turns[p][r] < MaxTurns
          /\ turns' = [turns EXCEPT ![p][r] = @ + 1]
          /\ live' = [live EXCEPT ![p][r] = IF @ = "none" THEN @ ELSE "working"]
          /\ Succeed(k)
  /\ UNCHANGED <<disk, git, due, time, counts, ghosts>>

-----------------------------------------------------------------------------
(* Agents, the user's own hands, and the rest of the world *)

\* What an agent was asked for: everything committed, and a landing rebased.
JobDone(p, r) ==
  worktree[p] => ~dirty[p] /\ (r = "landing" => Ffable(p))

\* Mutants: a turn's end is handled twice; a turn's end does not pump.
EndTurnTwice(p, r, ok) ==
  /\ live[p][r] # "none"
  /\ ok \/ "turn" \in Faults
  /\ ok /\ p \in Diligent => JobDone(p, r)
  /\ turns' = [turns EXCEPT ![p][r] = @ - 1]
  /\ live' = [live EXCEPT ![p][r] = IF @ = "none" THEN @ ELSE "idle"]
  /\ due' = IF ok /\ due < MaxDue THEN due + 1 ELSE due
  /\ UNCHANGED <<disk, git, task, time, counts, ghosts>>

EndTurnQuietly(p, r, ok) ==
  /\ turns[p][r] > 0
  /\ ok \/ "turn" \in Faults
  /\ ok /\ p \in Diligent => JobDone(p, r)
  /\ turns' = [turns EXCEPT ![p][r] = @ - 1]
  /\ live' = [live EXCEPT ![p][r] = IF @ = "none" THEN @ ELSE "idle"]
  /\ UNCHANGED <<disk, git, task, due, time, counts, ghosts>>

\* The turn's task takes the answer: the key is idle again, and a clean end
\* asks for a pump.
EndTurn(p, r, ok) ==
  /\ turns[p][r] > 0
  /\ ok \/ "turn" \in Faults
  /\ ok /\ p \in Diligent => JobDone(p, r)
  /\ turns' = [turns EXCEPT ![p][r] = @ - 1]
  /\ live' = [live EXCEPT ![p][r] = IF @ = "none" THEN @ ELSE "idle"]
  /\ due' = IF ok /\ due < MaxDue THEN due + 1 ELSE due
  /\ UNCHANGED <<disk, git, task, time, counts, ghosts>>

\* Some task has passed the merge of p and has not deleted the branch yet.
Retiring(p) == \E k \in Workers :
  /\ task[k].plan = p /\ task[k].act \in FinishActs
  /\ task[k].pc \in {"remove", "delete"}

\* A running turn edits its worktree, tidies it up, commits, or rebases the
\* branch.
Commit(p, r) ==
  /\ turns[p][r] > 0 /\ r \in WorkPhases /\ worktree[p] /\ tip[p] < MaxCommits
  /\ tip' = [tip EXCEPT ![p] = @ + 1]
  /\ dirty' = [dirty EXCEPT ![p] = FALSE]
  /\ raced' = IF Retiring(p) THEN raced \cup {p} ELSE raced
  /\ UNCHANGED <<disk, worktree, branch, base, merged, target, agents, task,
                 due, time, counts, landed, discarded>>

AgentEdit(p, r) ==
  /\ turns[p][r] > 0 /\ r \in WorkPhases /\ worktree[p] /\ ~dirty[p]
  /\ edits < MaxEdits /\ Quiet
  /\ dirty' = [dirty EXCEPT ![p] = TRUE]
  /\ edits' = edits + 1
  /\ UNCHANGED <<disk, worktree, branch, base, tip, merged, target, agents, task,
                 due, time, commands, crashes, ghosts>>

Tidy(p, r) ==
  /\ turns[p][r] > 0 /\ r \in WorkPhases /\ worktree[p] /\ dirty[p]
  /\ dirty' = [dirty EXCEPT ![p] = FALSE]
  /\ UNCHANGED <<disk, worktree, branch, base, tip, merged, target, agents, task,
                 due, time, counts, ghosts>>

Rebase(p, r) ==
  /\ turns[p][r] > 0 /\ r = "landing" /\ worktree[p] /\ ~dirty[p] /\ ~Ffable(p)
  /\ base' = [base EXCEPT ![p] = target]
  /\ UNCHANGED <<disk, worktree, branch, dirty, tip, merged, target, agents, task,
                 due, time, counts, ghosts>>

\* The user edits a worktree by hand, or cleans it.
UserEdit(p) ==
  /\ worktree[p] /\ edits < MaxEdits /\ Quiet
  /\ dirty' = [dirty EXCEPT ![p] = ~@]
  /\ edits' = edits + 1
  /\ UNCHANGED <<disk, worktree, branch, base, tip, merged, target, agents, task,
                 due, time, commands, crashes, ghosts>>

\* Somebody commits on the target branch.
TargetMoves ==
  /\ target < MaxTarget /\ Quiet
  /\ target' = target + 1
  /\ UNCHANGED <<disk, worktree, branch, dirty, base, tip, merged, agents, task,
                 due, time, counts, ghosts>>

\* The application dies and is started again: open_repo begins with empty
\* maps and pumps.
Crash ==
  /\ crashes < MaxCrashes /\ Quiet
  /\ crashes' = crashes + 1
  /\ task' = [k \in Workers |-> NoTask]
  /\ live' = [p \in Plans |-> [r \in Roles |-> "none"]]
  /\ turns' = [p \in Plans |-> [r \in Roles |-> 0]]
  /\ due' = 1
  /\ UNCHANGED <<disk, git, time, commands, edits, ghosts>>

-----------------------------------------------------------------------------
Init ==
  /\ phase \in [Plans -> StartPhases]
  /\ entered = [p \in Plans |-> 0]
  /\ manual = [p \in Plans |-> FALSE]
  /\ evergreen \in [Plans -> BOOLEAN]
  /\ started = [p \in Plans |-> FALSE]
  /\ worktree = [p \in Plans |-> phase[p] # "scoping"]
  /\ branch = [p \in Plans |-> IF phase[p] = "scoping" THEN "none" ELSE "open"]
  /\ dirty = [p \in Plans |-> FALSE]
  /\ target \in 0..MaxTarget
  /\ base \in [Plans -> 0..target]
  /\ tip \in [Plans -> 0..MaxCommits]
  /\ \A p \in Plans : phase[p] = "scoping" => tip[p] = 0 /\ base[p] = 0
  /\ merged = [p \in Plans |-> 0]
  /\ live = [p \in Plans |-> [r \in Roles |-> "none"]]
  /\ turns = [p \in Plans |-> [r \in Roles |-> 0]]
  /\ task = [k \in Workers |-> NoTask]
  /\ due = 1
  /\ clock = 0 /\ ticked = TRUE /\ commands = 0 /\ edits = 0 /\ crashes = 0
  /\ landed = {} /\ discarded = {} /\ raced = {}

\* The steps a running task takes by itself.
TaskStep(k) ==
  \/ StartPump(k) \/ Scan(k) \/ EndPump(k)
  \/ \E p \in Plans :
       \/ View(k, p) \/ Redirect(k, p) \/ Guard(k, p) \/ Status(k, p)
       \/ FastForward(k, p) \/ RemoveWorktree(k, p) \/ DeleteBranch(k, p)
       \/ Rename(k, p) \/ Stamp(k, p) \/ Create(k, p) \/ Drop(k, p)
       \/ Spawn(k, p) \/ StartTurn(k, p)

UserStep(k) == \E p \in Plans :
  \/ \E act \in CommandsFor(phase[p]) : Command(k, p, act)
  \/ SetMode(k, p) \/ SetEvergreen(k, p)

TurnStep(p, r) ==
  \/ \E ok \in BOOLEAN : EndTurn(p, r, ok)
  \/ AgentEdit(p, r) \/ Tidy(p, r) \/ Commit(p, r) \/ Rebase(p, r)

Next ==
  \/ \E k \in Workers : TaskStep(k) \/ UserStep(k)
  \/ \E p \in Plans : UserEdit(p) \/ \E r \in Roles : TurnStep(p, r)
  \/ TargetMoves
  \/ Crash

Spec == Init /\ [][Next]_vars

\* Threads and tasks are scheduled, git and the agent process answer, and an
\* agent works towards the end of its turn.  Users and crashes owe nothing.
Fairness ==
  /\ \A k \in Workers : WF_vars(TaskStep(k))
  /\ \A p \in Plans, r \in Roles :
       /\ WF_vars(Tidy(p, r)) /\ WF_vars(Rebase(p, r))
       /\ WF_vars(EndTurn(p, r, TRUE))

FairSpec == Spec /\ Fairness
-----------------------------------------------------------------------------
(* Properties *)

Task == [pc : Steps, pump : BOOLEAN, act : Acts, picked : Acts, plan : Plans,
         from : Phases, cut : Nat, own : BOOLEAN,
         todo : Seq([plan : Plans, phase : Phases]),
         head : SUBSET Plans, fired : SUBSET (Acts \X Plans)]

\* Types.
TypeOK ==
  /\ phase \in [Plans -> Phases]
  /\ entered \in [Plans -> Nat]
  /\ manual \in [Plans -> BOOLEAN] /\ evergreen \in [Plans -> BOOLEAN]
  /\ started \in [Plans -> BOOLEAN]
  /\ worktree \in [Plans -> BOOLEAN] /\ dirty \in [Plans -> BOOLEAN]
  /\ branch \in [Plans -> {"none", "open", "gone"}]
  /\ base \in [Plans -> Nat] /\ tip \in [Plans -> Nat]
  /\ merged \in [Plans -> Nat] /\ target \in Nat
  /\ live \in [Plans -> [Roles -> {"none", "idle", "working"}]]
  /\ turns \in [Plans -> [Roles -> Nat]]
  /\ task \in [Workers -> Task]
  /\ due \in Nat /\ clock \in Nat /\ ticked \in BOOLEAN
  /\ landed \subseteq Plans /\ discarded \subseteq Plans /\ raced \subseteq Plans

\* A branch that no longer exists took nothing with it: every commit of it is
\* in the target, unless the user cancelled the plan or a turn committed
\* between the fast-forward and the removal.
NoWorkLost == \A p \in Plans :
  branch[p] = "gone" /\ p \notin discarded \cup raced => merged[p] = tip[p]

\* A completed plan landed and left neither worktree nor branch behind,
\* whatever failed or crashed on the way.
CompletedIsRetired == \A p \in Plans :
  phase[p] = "completed" => p \in landed /\ ~worktree[p] /\ branch[p] # "open"

\* A finish that lost its plan to another task after it had removed the
\* checkout leaves a plan nothing moves any more.
Stranded(p) == phase[p] \in WorkPhases /\ branch[p] = "gone"

\* Left alone, an automatic plan with diligent agents lands and completes,
\* through cleanup, the landing queue and as many rebases as it takes, unless
\* two tasks raced on it and stranded it with its work landed.  Plans whose
\* agents are not diligent may be beside it, as long as they do not head the
\* queue with a branch to rebase.
AutomationDrains == \A p \in Diligent :
  <>(phase[p] = "completed" \/ (Stranded(p) /\ p \in landed))

\* A pump always comes to rest.
PumpsSettle == \A k \in Workers : task[k].pump ~> ~task[k].pump

\* "Many waiters queue in `landing/`, one agent runs at the head."
OneLandingAgent == \A p, q \in Plans :
  turns[p]["landing"] > 0 /\ turns[q]["landing"] > 0 => p = q

\* A plan waits at its place in the queue: it is in landing/ and no task is
\* about to stamp its arrival there.
Arriving(p) == \E k \in Workers :
  /\ task[k].pc = "stamp" /\ task[k].plan = p /\ ToOf(task[k].act) = "landing"
Placed(p) == phase[p] = "landing" /\ ~Arriving(p)

\* A plan keeps its place until it leaves the queue, whatever other tasks,
\* late stamps and restarts do: it does not arrive again, its stamp stays, and
\* who arrives comes behind it, but for a tie within its millisecond and for a
\* plan that a restart left with the stamp of its earlier phase.
QueueKeepsOrder ==
  [][\A p \in Plans : Placed(p) /\ phase'[p] = "landing" =>
       /\ Placed(p)' /\ entered'[p] = entered[p]
       /\ \A q \in Plans : Arriving(q) /\ Placed(q)' /\ crashes' = crashes =>
                           entered[p] <= entered'[q]]_vars

\* The automation implements the abstract life of a plan.
Lifecycle == INSTANCE PlanLifecycle
  WITH Plans <- Plans, phase <- phase, branch <- branch, landed <- landed,
       discarded <- discarded
LifecycleSpec == Lifecycle!Spec

=============================================================================
