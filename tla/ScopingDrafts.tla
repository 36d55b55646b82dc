---------------------------- MODULE ScopingDrafts ----------------------------
(***************************************************************************)
(* Scoping plans from a reserved name to their first turn, and the         *)
(* selection: opening, creating, selecting, cancelling, approving and the  *)
(* first prompt (agent.rs, agent/turns.rs, agent/plans_list.rs,            *)
(* agent/session_ids.rs, plans.rs).                                        *)
(*                                                                         *)
(* A reserved plan lives in memory; its first prompt gives it a directory. *)
(* A plan nobody prompted vanishes when it is left, unless the draft in    *)
(* its compose box is kept as its title.  Commands run at once: each step  *)
(* is a section under the lock of State or an access to the file system.   *)
(* state.json is read and written without a lock.                          *)
(***************************************************************************)
EXTENDS Integers

CONSTANTS
  Calls,       \* slots of commands in flight
  Titles,      \* working titles inferred from texts
  NoTitle,     \* a text no title is inferred from; Untitled
  NoDraft,     \* a blank compose box
  Free,        \* a name that is not reserved
  NoPlan,      \* no selection
  Other,       \* any plan of a later phase
  MaxClock,    \* bound: seconds
  MaxCopies,   \* bound: names of one second, the first not counted
  MaxCommands, \* bound: commands
  MaxOpens     \* bound: restarts and repositories opened again

ASSUME ScopingDraftsAssumption ==
  /\ {NoTitle, NoDraft, Free} \cap Titles = {}
  /\ NoTitle # NoDraft /\ NoTitle # Free /\ NoDraft # Free
  /\ MaxClock \in Nat \ {0} /\ MaxCopies \in Nat
  /\ MaxCommands \in Nat /\ MaxOpens \in Nat

\* The timestamp of a second, alone or with a counter.
Names == (1..MaxClock) \X (0..MaxCopies)
Title == Titles \cup {NoTitle}

ASSUME NamesAssumption == Names \cap {NoPlan, Other} = {} /\ NoPlan # Other

VARIABLES
  pending,  \* State::pending_scoping, a title or Free
  current,  \* State::current
  prompted, \* State::prompted
  live,     \* sessions with an entry, those with a last prompt, those working
  asked,
  working,
  dirs,     \* directories of scoping/
  file,     \* their state.json: working title and prompted flag
  md,       \* directories with a plan.md, which has a heading
  others,   \* there is a plan of a later phase
  clock,
  task,     \* the commands in flight
  commands, opens,
  \* what the user may rely on:
  said,     \* plans with a turn, and that on record
  named,    \* the title last inferred for a plan
  torn,     \* plans whose state.json was overwritten from an outdated copy
  used,     \* names reserved so far,
  reused    \* and those reserved again in the second they were given up

memory == <<pending, current, prompted, live, asked, working>>
disk   == <<dirs, file, md, others>>
ghosts == <<said, named, torn>>
names  == <<used, reused>>
vars   == <<memory, disk, clock, task, commands, opens, ghosts, names>>

Blank == [title |-> NoTitle, prompted |-> FALSE]
Idle  == [pc |-> "idle", n |-> Other, text |-> NoDraft, copy |-> Blank, move |-> "none"]

Goto(c, pc) == task' = [task EXCEPT ![c].pc = pc]
Done(c)     == task' = [task EXCEPT ![c] = Idle]

\* A command takes a copy of the state.json of its plan.
Read(c, pc) == task' = [task EXCEPT ![c].pc = pc, ![c].copy = file[task[c].n]]

\* A command about plan n starts in slot c, with a text or draft.
Begin(c, pc, n, text) ==
  /\ task[c] = Idle /\ commands < MaxCommands
  /\ commands' = commands + 1
  /\ task' = [task EXCEPT ![c] =
                [pc |-> pc, n |-> n, text |-> text, copy |-> Blank, move |-> "none"]]

\* The steps of send_prompt: the reserved name becomes a directory, the turn
\* starts.
NameSteps == {"mkdir", "carry", "carried", "save title", "forget"}
TurnSteps == {"start", "id", "save id", "mark", "flag", "save flag", "turn"}
SendSteps == {"check"} \cup NameSteps \cup TurnSteps

\* The steps of a cancel or an approval from the move on.
MoveSteps == {"move", "drop", "carry flag", "spawn", "view", "pin"}

CallSteps ==
  {"idle", "create", "select", "cancel", "execute", "mode", "save mode"}
    \cup SendSteps \cup MoveSteps

Reserved == {n \in Names : pending[n] # Free}
Listed   == dirs \cup Reserved

\* Mutant: the flag on disk is not asked.
IsEmptyMemory(n) == n \notin md /\ n \notin prompted /\ n \notin asked

\* is_empty_scoping.
IsEmpty(n) == n \notin md /\ n \notin prompted /\ ~file[n].prompted /\ n \notin asked

-----------------------------------------------------------------------------
(* What the sections under the lock are made of *)

\* unique_name of this second, among the names taken.
Fresh(n, taken) ==
  /\ n \in Names /\ n[1] = clock /\ n \notin taken
  /\ \A k \in 0..(n[2] - 1) : <<clock, k>> \in taken

\* vanish_scoping, for a plan that is empty.
Vanish(n) ==
  /\ dirs' = dirs \ {n} /\ file' = [file EXCEPT ![n] = Blank]
  /\ live' = live \ {n} /\ prompted' = prompted \ {n}
  /\ named' = [named EXCEPT ![n] = NoTitle]
  /\ said' = said \ {n} /\ torn' = torn \ {n}

\* keep_or_vanish_empty with a draft: its title replaces what there was.
KeepDraft(n, title) ==
  /\ file' = IF n \in dirs THEN [file EXCEPT ![n].title = title] ELSE file
  /\ named' = IF n \in Listed THEN [named EXCEPT ![n] = title] ELSE named
  /\ UNCHANGED <<dirs, live, prompted, said, torn>>

\* abandon_empty_scoping, all but the reserved names.
Abandon(n, draft) ==
  IF n \in Names /\ IsEmpty(n)
  THEN IF draft = NoDraft THEN Vanish(n) ELSE KeepDraft(n, draft)
  ELSE UNCHANGED <<dirs, file, live, prompted, ghosts>>

\* What abandoning a plan makes of the reserved names.
Abandoned(n, draft) ==
  IF ~(n \in Names /\ IsEmpty(n)) THEN pending
  ELSE IF draft = NoDraft THEN [pending EXCEPT ![n] = Free]
  ELSE IF n \in Reserved \ dirs THEN [pending EXCEPT ![n] = draft]
  ELSE pending

\* A new name is reserved, given the names already reserved, and selected.
Reserve(reserved) ==
  \E n \in Names :
    /\ Fresh(n, dirs' \cup {m \in Names : reserved[m] # Free})
    /\ pending' = [reserved EXCEPT ![n] = NoTitle]
    /\ current' = n
    /\ used' = used \cup {n}
    /\ reused' = IF n \in used THEN reused \cup {n} ELSE reused

-----------------------------------------------------------------------------
(* Opening, creating and selecting *)

\* open_repo.  A restart also forgets the prompted flags and the commands.
Open(restart) ==
  /\ opens < MaxOpens /\ opens' = opens + 1
  /\ live' = {} /\ asked' = {} /\ working' = {}
  /\ prompted' = IF restart THEN {} ELSE prompted
  /\ task' = IF restart THEN [c \in Calls |-> Idle] ELSE task
  /\ named' = [n \in Names |-> file[n].title]
  /\ UNCHANGED <<disk, clock, commands, said, torn>>
  /\ LET none == [n \in Names |-> Free] IN
     \/ dirs = {} /\ Reserve(none)
     \/ dirs # {} /\ pending' = none /\ current' = NoPlan /\ UNCHANGED names

\* create_plan: a blank reserved plan that is selected is used again.
Create(c, draft) ==
  /\ ~(current \in Reserved /\ IsEmpty(current) /\ draft = NoDraft)
  /\ Begin(c, "create", Other, draft)
  /\ UNCHANGED <<memory, disk, clock, opens, ghosts, names>>

CreateNew(c) ==
  /\ task[c].pc = "create"
  /\ Abandon(current, task[c].text)
  /\ Reserve(Abandoned(current, task[c].text))
  /\ Done(c)
  /\ UNCHANGED <<asked, working, md, others, clock, commands, opens>>

\* select_plan of a plan that exists.
Select(c, n, draft) ==
  /\ n \in Listed \/ (n = Other /\ others)
  /\ Begin(c, "select", n, draft)
  /\ UNCHANGED <<memory, disk, clock, opens, ghosts, names>>

SelectKey(c) ==
  /\ task[c].pc = "select"
  /\ IF current # task[c].n
     THEN Abandon(current, task[c].text) /\ pending' = Abandoned(current, task[c].text)
     ELSE UNCHANGED <<pending, dirs, file, live, prompted, ghosts>>
  /\ current' = task[c].n
  /\ Done(c)
  /\ UNCHANGED <<asked, working, md, others, clock, commands, opens, names>>

-----------------------------------------------------------------------------
(* Cancelling and approving *)

\* cancel_plan and the approval of a plan that is idle.
Cancel(c, n) ==
  /\ n \in Listed \ working
  /\ Begin(c, "cancel", n, NoDraft)
  /\ UNCHANGED <<memory, disk, clock, opens, ghosts, names>>

Execute(c, n) ==
  /\ n \in dirs \ working
  /\ Begin(c, "execute", n, NoDraft)
  /\ UNCHANGED <<memory, disk, clock, opens, ghosts, names>>

\* most_recent_key: a directory, of any arrival, the last reserved name, or a
\* plan of a later phase.
MostRecent(ds, reserved) ==
  IF ds # {} THEN ds
  ELSE {n \in reserved : \A m \in reserved : m[1] < n[1] \/ (m[1] = n[1] /\ m[2] <= n[2])}
       \cup (IF reserved = {} /\ others THEN {Other} ELSE {})

\* An empty plan vanishes, and the selection moves on if it was viewed.
CancelEmpty(c) ==
  LET n == task[c].n
      left == Abandoned(n, NoDraft)
      recent == MostRecent(dirs', {m \in Names : left[m] # Free}) IN
  /\ task[c].pc = "cancel" /\ IsEmpty(n)
  /\ Abandon(n, NoDraft)
  /\ \/ current # n /\ pending' = left /\ UNCHANGED <<current, names>>
     \/ current = n /\ pending' = left /\ current' \in recent /\ UNCHANGED names
     \/ current = n /\ recent = {} /\ Reserve(left)
  /\ Done(c)
  /\ UNCHANGED <<asked, working, md, others, clock, commands, opens>>

CancelFull(c) ==
  /\ task[c].pc = "cancel" /\ ~IsEmpty(task[c].n)
  /\ Goto(c, "move")
  /\ UNCHANGED <<memory, disk, clock, commands, opens, ghosts, names>>

\* plans::cancel and plans::execute: a plan with a heading gets its slug.  The
\* move may fail, and an approval may then fail to create the worktree.
Move(c) ==
  LET n == task[c].n
      kind == IF task[c].pc = "execute" THEN "approved" ELSE IF n \in md THEN "slug" ELSE "same" IN
  /\ task[c].pc \in {"move", "execute"}
  /\ \/ Done(c) /\ UNCHANGED <<disk, ghosts>>
     \/ /\ n \in dirs /\ (kind = "approved" => n \in md)
        /\ dirs' = dirs \ {n} /\ md' = md \ {n}
        /\ file' = [file EXCEPT ![n] = Blank] /\ others' = TRUE
        /\ named' = [named EXCEPT ![n] = NoTitle]
        /\ said' = said \ {n} /\ torn' = torn \ {n}
        /\ \/ task' = [task EXCEPT ![c].pc = "drop", ![c].move = kind]
           \/ kind = "approved" /\ Done(c)
  /\ UNCHANGED <<memory, clock, commands, opens, names>>

\* drop_live.
Drop(c) ==
  LET n == task[c].n IN
  /\ task[c].pc = "drop"
  /\ live' = live \ {n} /\ asked' = asked \ {n} /\ working' = working \ {n}
  /\ Goto(c, "carry flag")
  /\ UNCHANGED <<pending, current, prompted, disk, clock, commands, opens, ghosts, names>>

\* carry_prompted.
CarryFlag(c) ==
  /\ task[c].pc = "carry flag"
  /\ prompted' = IF task[c].move = "same" THEN prompted ELSE prompted \ {task[c].n}
  /\ Goto(c, IF task[c].move = "approved" THEN "spawn" ELSE "view")
  /\ UNCHANGED <<pending, current, live, asked, working, disk, clock, commands, opens, ghosts, names>>

\* The agent of an approved plan starts, or fails to.
Spawn(c) ==
  /\ task[c].pc = "spawn"
  /\ Goto(c, "view") \/ Done(c)
  /\ UNCHANGED <<memory, disk, clock, commands, opens, ghosts, names>>

\* select_if_viewed looks, then selects.
View(c) ==
  /\ task[c].pc = "view"
  /\ IF current = task[c].n THEN Goto(c, "pin") ELSE Done(c)
  /\ UNCHANGED <<memory, disk, clock, commands, opens, ghosts, names>>

Pin(c) ==
  /\ task[c].pc = "pin"
  /\ current' = Other
  /\ Done(c)
  /\ UNCHANGED <<pending, prompted, live, asked, working, disk, clock, commands, opens, ghosts, names>>

-----------------------------------------------------------------------------
(* The prompt *)

Sending(n) ==
  \E c \in Calls : task[c].n = n /\ task[c].pc \in SendSteps

\* send_prompt: a first title is set once.  The frontend queues a plan's next
\* prompt while one is on its way.
Send(c, n, title) ==
  /\ n \in Listed /\ ~Sending(n)
  /\ Begin(c, "check", n, title)
  /\ LET none == IF n \in dirs THEN n \notin md /\ file[n].title = NoTitle
                               ELSE pending[n] = NoTitle IN
     /\ file' = IF none /\ n \in dirs THEN [file EXCEPT ![n].title = title] ELSE file
     /\ pending' = IF none /\ n \notin dirs THEN [pending EXCEPT ![n] = title] ELSE pending
     /\ named' = IF none THEN [named EXCEPT ![n] = title] ELSE named
  /\ UNCHANGED <<current, prompted, live, asked, working, dirs, md, others, clock, opens, said, torn, names>>

Check(c) ==
  /\ task[c].pc = "check"
  /\ Goto(c, IF task[c].n \in Reserved THEN "mkdir" ELSE "start")
  /\ UNCHANGED <<memory, disk, clock, commands, opens, ghosts, names>>

\* materialize_scoping.
Materialize(c) ==
  /\ task[c].pc = "mkdir"
  /\ \/ dirs' = dirs \cup {task[c].n} /\ Goto(c, "carry")
     \/ Done(c) /\ UNCHANGED dirs
  /\ UNCHANGED <<memory, file, md, others, clock, commands, opens, ghosts, names>>

\* Mutant: the reserved name is given up with its title.
CarryNothing(c) ==
  /\ task[c].pc = "carry"
  /\ pending' = [pending EXCEPT ![task[c].n] = Free]
  /\ Goto(c, "forget")
  /\ UNCHANGED <<current, prompted, live, asked, working, disk, clock, commands, opens, ghosts, names>>

\* carry_pending_title takes the title,
Carry(c) ==
  LET n == task[c].n IN
  /\ task[c].pc = "carry"
  /\ pending' = [pending EXCEPT ![n] = Free]
  /\ IF pending[n] \in Titles
     THEN task' = [task EXCEPT ![c].pc = "carried", ![c].text = pending[n]]
     ELSE Goto(c, "forget")
  /\ UNCHANGED <<current, prompted, live, asked, working, disk, clock, commands, opens, ghosts, names>>

\* and puts it back without a directory.
Carried(c) ==
  LET n == task[c].n IN
  /\ task[c].pc = "carried"
  /\ \/ /\ n \notin dirs
        /\ pending' = [pending EXCEPT ![n] = task[c].text] /\ Goto(c, "forget")
     \/ n \in dirs /\ UNCHANGED pending /\ Read(c, "save title")
  /\ UNCHANGED <<current, prompted, live, asked, working, disk, clock, commands, opens, ghosts, names>>

Forget(c) ==
  /\ task[c].pc = "forget"
  /\ pending' = [pending EXCEPT ![task[c].n] = Free]
  /\ Goto(c, "start")
  /\ UNCHANGED <<current, prompted, live, asked, working, disk, clock, commands, opens, ghosts, names>>

\* ensure_live, which may fail.
Start(c) ==
  /\ task[c].pc = "start"
  /\ \/ live' = live \cup {task[c].n} /\ Goto(c, "id")
     \/ Done(c) /\ UNCHANGED live
  /\ UNCHANGED <<pending, current, prompted, asked, working, disk, clock, commands, opens, ghosts, names>>

\* mark_prompted, in memory.
Mark(c) ==
  /\ task[c].pc = "mark"
  /\ prompted' = prompted \cup {task[c].n}
  /\ Goto(c, "flag")
  /\ UNCHANGED <<pending, current, live, asked, working, disk, clock, commands, opens, ghosts, names>>

\* Mutant: a dropped session gets its entry back half.
StartTurnDropped(c) ==
  /\ task[c].pc = "turn"
  /\ asked' = asked \cup {task[c].n} /\ working' = working \cup {task[c].n}
  /\ Done(c)
  /\ UNCHANGED <<pending, current, prompted, live, disk, clock, commands, opens, ghosts, names>>

\* start_turn; a session that was dropped runs without an entry.
StartTurn(c) ==
  LET n == task[c].n IN
  /\ task[c].pc = "turn"
  /\ IF n \in working
     THEN UNCHANGED <<asked, working, said>>
     ELSE /\ asked' = asked \cup ({n} \cap live) /\ working' = working \cup ({n} \cap live)
          /\ said' = said \cup {m \in {n} \cap dirs : file[m].prompted}
  /\ Done(c)
  /\ UNCHANGED <<pending, current, prompted, live, disk, clock, commands, opens, named, torn, names>>

-----------------------------------------------------------------------------
(* state.json *)

\* set_plan_mode and set_plan_evergreen.
SetMode(c, n) ==
  /\ n \in dirs
  /\ Begin(c, "mode", n, NoDraft)
  /\ UNCHANGED <<memory, disk, clock, opens, ghosts, names>>

\* update_state and update_plan_state read a copy; a change already there, or
\* a directory that is gone, ends it.
Load(c) ==
  LET n == task[c].n IN
  /\ task[c].pc \in {"id", "flag", "mode"}
  /\ \/ /\ n \in dirs /\ (task[c].pc = "flag" => ~file[n].prompted)
        /\ CASE task[c].pc = "id"   -> Read(c, "save id")
            [] task[c].pc = "flag" -> Read(c, "save flag")
            [] task[c].pc = "mode" -> Read(c, "save mode")
     \/ /\ CASE task[c].pc = "id"   -> Goto(c, "mark")
            [] task[c].pc = "flag" ->
                 (n \notin dirs \/ file[n].prompted) /\ Goto(c, "turn")
            [] task[c].pc = "mode" -> n \notin dirs /\ Done(c)
  /\ UNCHANGED <<memory, disk, clock, commands, opens, ghosts, names>>

\* store_state: the copy, changed, replaces what is there now.  A title that
\* is set stays.
Store(c) ==
  LET n == task[c].n
      copy == task[c].copy
      writes == n \in dirs /\ (task[c].pc = "save title" => copy.title = NoTitle)
      new == CASE task[c].pc = "save title" -> [copy EXCEPT !.title = task[c].text]
               [] task[c].pc = "save flag"  -> [copy EXCEPT !.prompted = TRUE]
               [] OTHER -> copy IN
  /\ task[c].pc \in {"save title", "save id", "save flag", "save mode"}
  /\ file' = IF writes THEN [file EXCEPT ![n] = new] ELSE file
  /\ torn' = IF writes /\ copy # file[n] THEN torn \cup {n} ELSE torn
  /\ CASE task[c].pc = "save title" -> Goto(c, "forget")
       [] task[c].pc = "save id"    -> Goto(c, "mark")
       [] task[c].pc = "save flag"  -> Goto(c, "turn")
       [] task[c].pc = "save mode"  -> Done(c)
  /\ UNCHANGED <<memory, dirs, md, others, clock, commands, opens, said, named, names>>

-----------------------------------------------------------------------------
(* The agent and the clock *)

WritePlan(n) ==
  /\ n \in (working \cap dirs) \ md
  /\ md' = md \cup {n}
  /\ UNCHANGED <<memory, dirs, file, others, clock, task, commands, opens, ghosts, names>>

EndTurn(n) ==
  /\ n \in working
  /\ working' = working \ {n}
  /\ UNCHANGED <<pending, current, prompted, live, asked, disk, clock, task, commands, opens, ghosts, names>>

Tick ==
  /\ clock < MaxClock
  /\ clock' = clock + 1
  /\ UNCHANGED <<memory, disk, task, commands, opens, ghosts, names>>

-----------------------------------------------------------------------------
Init ==
  /\ clock = 1
  /\ pending = [n \in Names |-> IF n = <<1, 0>> THEN NoTitle ELSE Free]
  /\ current = <<1, 0>>
  /\ prompted = {} /\ live = {} /\ asked = {} /\ working = {}
  /\ dirs = {} /\ file = [n \in Names |-> Blank] /\ md = {} /\ others \in BOOLEAN
  /\ task = [c \in Calls |-> Idle] /\ commands = 0 /\ opens = 0
  /\ said = {} /\ named = [n \in Names |-> NoTitle] /\ torn = {}
  /\ used = {<<1, 0>>} /\ reused = {}

Command(c) ==
  \/ \E draft \in Title \cup {NoDraft} :
       Create(c, draft) \/ \E n \in Names \cup {Other} : Select(c, n, draft)
  \/ \E n \in Names :
       \/ Cancel(c, n) \/ Execute(c, n) \/ SetMode(c, n)
       \/ \E title \in Title : Send(c, n, title)

Step(c) ==
  \/ CreateNew(c) \/ SelectKey(c)
  \/ CancelEmpty(c) \/ CancelFull(c) \/ Move(c)
  \/ Drop(c) \/ CarryFlag(c) \/ Spawn(c) \/ View(c) \/ Pin(c)
  \/ Check(c) \/ Materialize(c) \/ Carry(c) \/ Carried(c) \/ Forget(c)
  \/ Start(c) \/ Mark(c) \/ StartTurn(c)
  \/ Load(c) \/ Store(c)

Next ==
  \/ \E restart \in BOOLEAN : Open(restart)
  \/ \E c \in Calls : Command(c) \/ Step(c)
  \/ \E n \in Names : WritePlan(n) \/ EndTurn(n)
  \/ Tick

Spec == Init /\ [][Next]_vars

-----------------------------------------------------------------------------
(* Properties *)

FileState == [title : Title, prompted : BOOLEAN]
CallRec ==
  [pc : CallSteps, n : Names \cup {Other}, text : Title \cup {NoDraft}, copy : FileState,
   move : {"none", "same", "slug", "approved"}]

\* Types.
TypeOK ==
  /\ pending \in [Names -> Title \cup {Free}]
  /\ current \in Names \cup {NoPlan, Other}
  /\ prompted \subseteq Names /\ live \subseteq Names
  /\ asked \subseteq live /\ working \subseteq asked
  /\ dirs \subseteq Names /\ md \subseteq dirs
  /\ file \in [Names -> FileState]
  /\ task \in [Calls -> CallRec]

\* Why a plan may leave the list: it moves to a later phase; nothing was ever
\* said in it, and the user leaves or cancels it; it has no directory, and the
\* process ends or the prompt that put it back forgets it.
MayLeave(n) ==
  \/ \E c \in Calls : task[c].pc \in {"move", "execute"} /\ task[c].n = n /\ task'[c] # task[c]
  \/ /\ n \notin said \ torn
     /\ n = current \/ \E c \in Calls : task[c].pc = "cancel" /\ task[c].n = n
  \/ n \notin dirs /\ opens' # opens
  \/ n \notin dirs /\ \E c \in Calls : task[c].pc = "forget" /\ task[c].n = n

\* No plan leaves the list for another reason, the conversations with a turn
\* least of all.  One whose prompted flag an overlapping write of state.json
\* dropped is excepted, and so is a name that stands for two plans of one
\* second.
PlansStay == [][\A n \in (Listed \ Listed') \ reused : MayLeave(n)]_vars

\* Commands that carry a title from memory to disk.
Carrying(n) ==
  \E c \in Calls : task[c].pc \in {"carried", "save title"} /\ task[c].n = n

\* A listed plan whose last text or draft gave it a title is not shown without
\* one, however sends, drafts and restarts meet.
TitlesSurvive ==
  \A n \in (Listed \ torn) \ reused :
    named[n] # NoTitle /\ ~Carrying(n)
      => file[n].title # NoTitle \/ pending[n] \in Titles

=============================================================================
