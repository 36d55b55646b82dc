--------------------------- MODULE SessionRecords ---------------------------
(***************************************************************************)
(* The state file of one plan, `.samokod/plans/<phase>/<plan>/state.json`, *)
(* and the threads that write it.  No lock covers it: every writer locates *)
(* the directory, loads the whole file, changes one field of its copy and  *)
(* writes the whole copy back, with std::fs::write, which first truncates. *)
(* Meanwhile transitions rename the directory, and whoever resolves a lost *)
(* session id holds its copy for the seconds the OpenCode CLI takes.       *)
(* `evergreen` shares the path of `manual` and is no field of its own;     *)
(* `working_title` is ScopingDrafts' subject.                              *)
(***************************************************************************)
EXTENDS Naturals, Sequences, FiniteSets

CONSTANTS
  Tasks,       \* threads of the backend that may write the file
  Roles,       \* the session roles in use
  Reached,     \* the phases in use
  Foreign,     \* the sessions OpenCode lists before this plan has any
  MaxOps,      \* bound: operations begun
  MaxCost,     \* bound: the cost a session reports
  MaxSessions, \* bound: sessions listed
  MaxCrashes   \* bound: restarts of the application

AllRoles  == {"scoping", "executing", "evergreening", "landing"}
AllPhases == AllRoles \cup {"completed", "cancelled"}

\* An OpenCode session: the agent that owns it and the directory it runs in
\* (the repository, this plan's worktree, another place).  Its id is its
\* place in the order of creation; 0 stands for no id.
Session == [agent : AllRoles \cup {"build"}, dir : {"root", "tree", "other"}]

ASSUME SessionRecordsAssumption ==
  /\ Roles \subseteq AllRoles /\ "scoping" \in Roles
  /\ Reached \subseteq AllPhases /\ "scoping" \in Reached
  /\ Foreign \in Seq(Session)
  /\ {MaxOps, MaxCost, MaxSessions, MaxCrashes} \subseteq Nat

\* The fields of PlanState: per role a SessionRecord, the id and its
\* last-seen cost.  Every value is a number; a flag is 0 or 1.
Id(r)    == <<"id", r>>
Cost(r)  == <<"cost", r>>
Manual   == <<"manual", "plan">>
Prompted == <<"prompted", "plan">>
Entered  == <<"entered", "plan">>
Fields == {Id(r) : r \in Roles} \cup {Cost(r) : r \in Roles}
            \cup {Manual, Prompted, Entered}

PlanState == [Fields -> Nat]
Default   == [f \in Fields |-> 0]

\* ActivePlan::cwd; by opencode::agent_for each role has an agent of its own.
Cwd(r) == IF r = "scoping" THEN "root" ELSE "tree"

VARIABLES
  files,    \* per phase: the plan's directory there and its state.json
  slugged,  \* the plan has gained its slug, and with it another name
  stamps,   \* time stamps given out
  live,     \* in memory: the session each role runs
  listed,   \* the sessions OpenCode lists, oldest first
  task,     \* what each thread is about
  want,     \* history: the last value a write left in each field
  raced,    \* history: the fields that a race has touched since
  ops, crashes

disk    == <<files, slugged, stamps>>
agents  == <<live, listed>>
history == <<want, raced>>
vars == <<disk, agents, task, history, ops, crashes>>
-----------------------------------------------------------------------------
(* The file: no directory, a directory without it, truncated and not yet   *)
(* written, one write over another, or a state.                            *)

Kinds == {"nodir", "nofile", "empty", "garbage", "state"}
Bare(kind) == [is |-> kind, of |-> Default]
Holding(s) == [is |-> "state", of |-> s]

\* load_state: whatever is not there or does not parse reads as defaults.
LoadState(p) == files[p].of

\* Whether that is what the plan has recorded so far.
Sound(p) == files[p].is \in {"state", "nofile"}

\* plans::locate: the first phase that has a directory of that name.
Places == {p \in Reached : files[p].is # "nodir"}
Located(k, p) == task[k].name = slugged /\ p \in Places
-----------------------------------------------------------------------------
(* Operations: the fields to set, one read-modify-write each.  To set an id *)
(* to 0 is to recover it.                                                   *)

Set(f, v) == [field |-> f, value |-> v]
Recovering(op) == op.field[1] = "id" /\ op.value = 0

Idle == [pc |-> "idle", todo |-> <<>>, name |-> FALSE, dir |-> "scoping",
         copy |-> Default, stale |-> FALSE]
At(k, pc) == task[k].pc = pc
Op(k)     == Head(task[k].todo)

\* Mutant: the thread turns to a next field it may not have.
RestForever(k) ==
  [Idle EXCEPT !.pc = "locate", !.todo = Tail(task[k].todo), !.name = task[k].name]

\* The thread turns to its next field, for which it locates the plan anew.
Rest(k) ==
  IF Len(task[k].todo) > 1
  THEN [Idle EXCEPT !.pc = "locate", !.todo = Tail(task[k].todo),
                    !.name = task[k].name]
  ELSE Idle
Proceed(k) == task' = [task EXCEPT ![k] = Rest(k)]

\* An operation begins under the plan's name, or under its name of before: a
\* key may be older than the rename.
Begin(k, todo) == \E name \in {FALSE, slugged} :
  /\ At(k, "idle") /\ ops < MaxOps
  /\ ops' = ops + 1
  /\ task' = [task EXCEPT ![k] = [Idle EXCEPT !.pc = "locate", !.todo = todo,
                                              !.name = name]]

\* The closures that report no change when the field holds the value already.
Unchanged(s, op) ==
  op.field \notin {Manual, Entered} /\ s[op.field] = op.value
-----------------------------------------------------------------------------
(* Who writes *)

\* roles_for: the roles whose rows a plan in phase p shows, as history too.
RolesFor(p) ==
  CASE p = "scoping"      -> {"scoping"}
    [] p = "executing"    -> {"scoping", "executing"}
    [] p = "evergreening" -> {"scoping", "executing", "evergreening"}
    [] p = "landing"      -> AllRoles
    [] OTHER -> {"scoping"} \cup {r \in Roles : LoadState(p)[Id(r)] # 0}

HasRow(r) == \/ r = "scoping" /\ Places = {}
             \/ \E p \in Places : r \in RolesFor(p)

\* spawn_session: a session of the role's agent in the role's directory.
Spawn(k, r) ==
  /\ HasRow(r) /\ Places \subseteq AllRoles
  /\ Len(listed) < MaxSessions
  /\ listed' = Append(listed, [agent |-> r, dir |-> Cwd(r)])
  /\ live' = [live EXCEPT ![r] = Len(listed) + 1]
  /\ Begin(k, <<Set(Id(r), Len(listed) + 1)>>)
  /\ UNCHANGED <<disk, history, crashes>>

\* send_prompt: record the id once more, then the flag.
Prompt(k, r) ==
  /\ live[r] # 0 /\ Places # {}
  /\ Begin(k, <<Set(Id(r), live[r]), Set(Prompted, 1)>>)
  /\ UNCHANGED <<disk, agents, history, crashes>>

\* The first prompt of a reserved plan makes its directory and stamps it.
Materialize(k) ==
  /\ live["scoping"] # 0 /\ Places = {}
  /\ At(k, "idle") /\ ops < MaxOps /\ ops' = ops + 1
  /\ files' = [files EXCEPT !["scoping"] = Bare("nofile")]
  /\ stamps' = stamps + 1
  /\ task' = [task EXCEPT ![k] = [Idle EXCEPT
       !.pc = "load", !.name = slugged,
       !.todo = <<Set(Entered, stamps + 1), Set(Id("scoping"), live["scoping"]),
                  Set(Prompted, 1)>>]]
  /\ UNCHANGED <<slugged, agents, history, crashes>>

\* A usage update of a live session.
RecordCost(k, r) == \E c \in 0..MaxCost :
  /\ live[r] # 0
  /\ Begin(k, <<Set(Cost(r), c)>>)
  /\ UNCHANGED <<disk, agents, history, crashes>>

\* set_plan_mode, over update_plan_state.
SetPlanMode(k) == \E v \in {0, 1} :
  /\ Begin(k, <<Set(Manual, v)>>)
  /\ UNCHANGED <<disk, agents, history, crashes>>

\* load_history resolves the id of a role that may have none.
LoadHistory(k, r) ==
  /\ HasRow(r)
  /\ Begin(k, <<Set(Id(r), 0)>>)
  /\ UNCHANGED <<disk, agents, history, crashes>>

\* The moves of plans.rs: the directory is renamed, then stamped.  A file
\* already open for writing goes along.
Moves == {<<"scoping", "executing">>, <<"executing", "evergreening">>}
  \cup ({"executing", "evergreening"} \X {"landing", "completed"})
  \cup {<<"landing", "completed">>} \cup (AllRoles \X {"cancelled"})

Rename(k, from, to) ==
  /\ At(k, "idle") /\ ops < MaxOps /\ ops' = ops + 1
  /\ <<from, to>> \in Moves /\ from \in Places /\ to \in Reached
  /\ files' = [files EXCEPT ![from] = Bare("nodir"), ![to] = files[from]]
  /\ slugged' \in IF to = "executing" THEN {TRUE}
                  ELSE IF from = "scoping" THEN BOOLEAN ELSE {slugged}
  /\ stamps' = stamps + 1
  /\ task' = [j \in Tasks |->
       IF j = k THEN [Idle EXCEPT !.pc = "load", !.name = slugged', !.dir = to,
                                  !.todo = <<Set(Entered, stamps + 1)>>]
       ELSE IF At(j, "fill") /\ task[j].dir = from
            THEN [task[j] EXCEPT !.dir = to] ELSE task[j]]
  /\ live' = [live EXCEPT ![from] = 0]    \* the left role's session is dropped
  /\ UNCHANGED <<listed, history, crashes>>
-----------------------------------------------------------------------------
(* One read-modify-write *)

Locate(k) ==
  /\ At(k, "locate")
  /\ \/ \E p \in Reached : Located(k, p)
           /\ task' = [task EXCEPT ![k].pc = "load", ![k].dir = p]
     \/ (\A p \in Reached : ~Located(k, p)) /\ Proceed(k)
  /\ UNCHANGED <<disk, agents, history, ops, crashes>>

\* What the writer believes of its field, once it has read or written it.
Believe(k, v) ==
  /\ want' = [want EXCEPT ![Op(k).field] = v]
  /\ raced' = raced \ {Op(k).field}

\* Mutant: a move stamps a fresh state.
StampedAnew(k) == [task[k] EXCEPT
  !.copy = IF Op(k).field = Entered THEN Default ELSE LoadState(task[k].dir),
  !.stale = ~Sound(task[k].dir)]

Loaded(k) == [task[k] EXCEPT !.copy = LoadState(task[k].dir),
                             !.stale = ~Sound(task[k].dir)]

Load(k) ==
  LET s == LoadState(task[k].dir) IN
  /\ At(k, "load")
  /\ \/ /\ Recovering(Op(k)) /\ s[Op(k).field] # 0
        /\ Proceed(k) /\ UNCHANGED history
     \/ /\ Recovering(Op(k)) /\ s[Op(k).field] = 0
        /\ task' = [task EXCEPT ![k] = [Loaded(k) EXCEPT !.pc = "recover"]]
        /\ UNCHANGED history
     \/ /\ ~Recovering(Op(k)) /\ Unchanged(s, Op(k))
        /\ IF Sound(task[k].dir) THEN Believe(k, Op(k).value)
                                 ELSE UNCHANGED history
        /\ Proceed(k)
     \/ /\ ~Recovering(Op(k)) /\ ~Unchanged(s, Op(k))
        /\ task' = [task EXCEPT ![k] = [Loaded(k) EXCEPT !.pc = "store"]]
        /\ UNCHANGED history
  /\ UNCHANGED <<disk, agents, ops, crashes>>

\* best_match over the sessions whose export succeeded: the newest created at
\* or before plan.md was modified, else the newest.
\* Mutant: only the directory has to match.
EligibleByPlace(r, claimed) == {i \in DOMAIN listed :
  listed[i].dir = Cwd(r) /\ i \notin claimed}

Eligible(r, claimed) == {i \in DOMAIN listed :
  listed[i].dir = Cwd(r) /\ listed[i].agent = r /\ i \notin claimed}

BestMatch(among, mtime) ==
  LET before == {i \in among : i <= mtime}
      pool   == IF before # {} THEN before ELSE among
  IN  {i \in pool : \A j \in pool : j <= i}

Recover(k) ==
  LET r == Op(k).field[2]
      claimed == {task[k].copy[Id(q)] : q \in Roles}
  IN
  /\ At(k, "recover")
  /\ \/ Proceed(k)                        \* the CLI failed, or nothing matches
     \/ \E verified \in SUBSET Eligible(r, claimed), mtime \in 0..Len(listed) :
          \E i \in BestMatch(verified, mtime) :
            task' = [task EXCEPT ![k].pc = "store", ![k].todo = <<Set(Id(r), i)>>]
  /\ UNCHANGED <<disk, agents, history, ops, crashes>>

\* Once k has changed the file, the copies the others hold are out of date.
Outdate(k, own) ==
  task' = [j \in Tasks |->
    IF j = k THEN own
    ELSE [task[j] EXCEPT !.stale =
            task[j].stale \/ task[j].pc \in {"recover", "store", "fill"}]]

\* Mutant: a store creates the directory it misses.
TruncateCreating(k) ==
  /\ At(k, "store")
  /\ files' = [files EXCEPT ![task[k].dir] = Bare("empty")]
  /\ Outdate(k, [task[k] EXCEPT !.pc = "fill"])
  /\ UNCHANGED <<slugged, stamps, agents, history, ops, crashes>>

\* store_state: std::fs::write opens and truncates, or fails when the
\* directory is gone.
Truncate(k) ==
  /\ At(k, "store")
  /\ IF files[task[k].dir].is = "nodir"
     THEN Proceed(k) /\ UNCHANGED files
     ELSE /\ files' = [files EXCEPT ![task[k].dir] = Bare("empty")]
          /\ Outdate(k, [task[k] EXCEPT !.pc = "fill"])
  /\ UNCHANGED <<slugged, stamps, agents, history, ops, crashes>>

\* ... and then writes.  Over what another has written since, a shorter text
\* leaves that one's tail.
Fill(k) ==
  LET p == task[k].dir
      s == [task[k].copy EXCEPT ![Op(k).field] = Op(k).value]
  IN
  /\ At(k, "fill")
  /\ \/ /\ files' = [files EXCEPT ![p] = Holding(s)]
        /\ want' = [want EXCEPT ![Op(k).field] = Op(k).value]
        /\ raced' = (IF task[k].stale THEN Fields ELSE raced) \ {Op(k).field}
     \/ /\ files[p].is # "empty"
        /\ files' = [files EXCEPT ![p] = Bare("garbage")]
        /\ raced' = Fields /\ UNCHANGED want
  /\ Outdate(k, Rest(k))
  /\ UNCHANGED <<slugged, stamps, agents, ops, crashes>>

\* The application dies and is started again: a truncated file stays empty.
Restart ==
  /\ crashes < MaxCrashes /\ crashes' = crashes + 1
  /\ task' = [k \in Tasks |-> Idle]
  /\ live' = [r \in Roles |-> 0]
  /\ raced' = IF \E k \in Tasks : At(k, "fill") THEN Fields ELSE raced
  /\ UNCHANGED <<disk, listed, want, ops>>
-----------------------------------------------------------------------------
Init ==
  /\ files = [p \in Reached |-> Bare("nodir")]
  /\ slugged = FALSE /\ stamps = 0
  /\ live = [r \in Roles |-> 0] /\ listed = Foreign
  /\ task = [k \in Tasks |-> Idle]
  /\ want = Default /\ raced = {}
  /\ ops = 0 /\ crashes = 0

Next ==
  \/ \E k \in Tasks :
       \/ \E r \in Roles : \/ Spawn(k, r) \/ Prompt(k, r)
                           \/ RecordCost(k, r) \/ LoadHistory(k, r)
       \/ Materialize(k) \/ SetPlanMode(k)
       \/ \E from, to \in Reached : Rename(k, from, to)
       \/ Locate(k) \/ Load(k) \/ Recover(k) \/ Truncate(k) \/ Fill(k)
  \/ Restart

Spec == Init /\ [][Next]_vars
-----------------------------------------------------------------------------
TaskRec == [pc : {"idle", "locate", "load", "recover", "store", "fill"},
            todo : Seq([field : Fields, value : Nat]), name : BOOLEAN,
            dir : Reached, copy : PlanState, stale : BOOLEAN]

\* Types; a thread that is not idle has a field to set.
TypeOK ==
  /\ files \in [Reached -> [is : Kinds, of : PlanState]]
  /\ slugged \in BOOLEAN /\ stamps \in Nat
  /\ live \in [Roles -> Nat] /\ listed \in Seq(Session)
  /\ task \in [Tasks -> TaskRec]
  /\ \A k \in Tasks : ~At(k, "idle") => task[k].todo # <<>>
  /\ want \in PlanState /\ raced \subseteq Fields
  /\ ops \in Nat /\ crashes \in Nat

\* No write, however late, brings back a directory the plan has left.
OnePlace == \A p, q \in Places : p = q

\* A field loses what was written to it last only to a race: a write by a
\* copy taken before that write, a read of the truncated file, or a crash
\* between the truncation and the text.  Any two writes that do not overlap
\* preserve each other, through renames and restarts.
OnlyRacesLose ==
  (\A k \in Tasks : ~At(k, "fill")) =>
    \A p \in Places, f \in Fields \ raced : LoadState(p)[f] = want[f]

\* Whatever the CLI lists, an id recorded for a role is of a session that the
\* role's own agent runs in the role's own directory.
Belongs(i, r) == i # 0 =>
  i \in DOMAIN listed /\ listed[i].agent = r /\ listed[i].dir = Cwd(r)
IdsBelong == \A p \in Reached, r \in Roles : Belongs(files[p].of[Id(r)], r)
=============================================================================
