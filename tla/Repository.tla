----------------------------- MODULE Repository -----------------------------
(***************************************************************************)
(* What belongs to the open repository as a whole: which one it is, the    *)
(* branch its checkout is on (the landing target), and the model and       *)
(* effort its sessions run with.  The branch is a cache of `.git/HEAD`,    *)
(* kept by a watcher thread, by a refresh on every window focus, by the    *)
(* open itself and, as a side effect, by every spawn, which writes back    *)
(* the pair it took before it started.  A choice of an option is sent to   *)
(* every live session, one after the other, and the roles that moved are   *)
(* saved in `.samokod/state.json` of whatever repository is then open.     *)
(***************************************************************************)
EXTENDS Naturals, Sequences, FiniteSets

CONSTANTS
  Tasks,      \* commands under way at the same time
  Repos, NoRepo,
  Branches,   \* what HEAD may name
  Detached,   \* the name "HEAD": no branch, or git could not tell
  Sessions,   \* the session keys
  Values,     \* models and efforts
  Offered,    \* the efforts a model offers
  First,      \* the model an agent starts with
  Faults,     \* what may fail: "git", "watch", "send", "apply"
  MaxRecent,  \* MAX_RECENT
  MaxOps,     \* bound: commands begun
  MaxMoves,   \* bound: changes of a HEAD
  MaxEvents   \* bound: commands and changes of a HEAD together

ConfigRoles == {"model", "effort"}
NoValue == 0

ASSUME RepositoryAssumption ==
  /\ NoRepo \notin Repos /\ Repos # {}
  /\ Detached \in Branches
  /\ Values \subseteq Nat \ {NoValue} /\ First \in Values
  /\ Offered \in [Values -> SUBSET Values]
  /\ {MaxRecent, MaxOps, MaxMoves, MaxEvents} \subseteq Nat

\* RepoState: one optional value per role.
RepoState == [ConfigRoles -> Values \cup {NoValue}]
Unset == [q \in ConfigRoles |-> NoValue]

VARIABLES
  head,     \* what `.git/HEAD` of each repository names
  saved,    \* `.samokod/state.json` of each repository
  recent,   \* the recent repositories in the preferences
  open,     \* State.repo_root
  branch,   \* State.checkout_branch, and the repository it was read from
  watch,    \* the watcher in State.branch_watch, 0 for none
  watcher,  \* the watchers started so far, each with its thread
  sess,     \* the live sessions: their run, options, and State's last_roles
  task,     \* what each command is about
  crossed,  \* history: a refresh has met an open
  excused,  \* history: the branch may be wrong with nothing on its way
  tidy,     \* history: no commands overlapped and nothing failed
  runs, ops, moves

git     == <<head, saved>>
backend == <<open, branch, watch, watcher>>
history == <<crossed, excused, tidy>>
counts  == <<runs, ops, moves>>
vars    == <<git, recent, backend, sess, task, history, counts>>

\* Whether the bound leaves room for another command or another HEAD.
Quiet == ops + moves < MaxEvents
-----------------------------------------------------------------------------
(* Sessions and their options *)

Off == [run |-> 0, cfg |-> Unset, last |-> Unset]

\* The agent's side of set_config_option.  A model that does not offer the
\* effort falls back to one it does; an effort not offered is refused.
Fallback(m) == IF Offered[m] = {} THEN NoValue
               ELSE CHOOSE e \in Offered[m] : TRUE
Takes(cfg, q, v) ==
  q = "model" \/ \E m \in Values : m = cfg["model"] /\ v \in Offered[m]
SetOption(cfg, q, v) ==
  IF q = "effort" THEN [cfg EXCEPT !["effort"] = v]
  ELSE [cfg EXCEPT !["model"] = v,
                   !["effort"] = IF @ \in Offered[v] THEN @ ELSE Fallback(v)]

Fresh == SetOption(Unset, "model", First)

\* One reapplied role: absent and refused ones are skipped.
Reapply(cfg, stored, q) ==
  IF stored[q] # NoValue /\ Takes(cfg, q, stored[q])
  THEN SetOption(cfg, q, stored[q]) ELSE cfg

\* Mutant: effort first.
AppliedEffortFirst(stored) ==
  Reapply(Reapply(Fresh, stored, "effort"), stored, "model")

\* spawn_session reapplies the model, then the effort.
Applied(stored) == Reapply(Reapply(Fresh, stored, "model"), stored, "effort")

Live == {s \in Sessions : sess[s].run # 0}
-----------------------------------------------------------------------------
(* Commands *)

Idle == [pc |-> "idle", root |-> NoRepo, branch |-> [of |-> NoRepo, name |-> Detached],
         stored |-> Unset, todo |-> {}, sent |-> {},
         role |-> "model", value |-> NoValue,
         roles |-> Unset, moved |-> {}]
At(k, pc) == task[k].pc = pc
Finish(k) == task' = [task EXCEPT ![k] = Idle]

\* Opens, spawns and picks; a refresh has nothing to do with the options.
Meddles(k) == task[k].pc \notin {"idle", "read", "set"}

Begin(k, t) ==
  /\ At(k, "idle") /\ ops < MaxOps /\ Quiet /\ ops' = ops + 1
  /\ task' = [task EXCEPT ![k] = t]
  /\ UNCHANGED <<runs, moves>>

\* Whether a command that meddles may count as tidy from its start.
Alone(k) == \A j \in Tasks \ {k} : ~Meddles(j)

\* `git rev-parse` in r, and what the code makes of a failure.
RevParse(r) == {head[r]} \cup (IF "git" \in Faults THEN {Detached} ELSE {})

Hold(r, name) == branch' = [of |-> r, name |-> name]
-----------------------------------------------------------------------------
(* refresh_branch *)

BeginRefresh(k) ==
  /\ open # NoRepo
  /\ Begin(k, [Idle EXCEPT !.pc = "read", !.root = open])
  /\ UNCHANGED <<git, recent, backend, sess, history>>

ReadBranch(k) ==
  /\ At(k, "read")
  /\ \E name \in RevParse(task[k].root) :
       task' = [task EXCEPT ![k].pc = "set",
                            ![k].branch = [of |-> task[k].root, name |-> name]]
  /\ UNCHANGED <<git, recent, backend, sess, history, counts>>

\* set_branch: whatever repository is open by now.
SetBranch(k) ==
  /\ At(k, "set")
  /\ IF branch.name = task[k].branch.name
     THEN UNCHANGED <<branch, crossed>>
     ELSE /\ branch' = task[k].branch
          /\ crossed' = (crossed \/ task[k].root # open)
  /\ excused' = (branch'.name # head[open])
  /\ Finish(k)
  /\ UNCHANGED <<git, recent, open, watch, watcher, sess, tidy, counts>>
-----------------------------------------------------------------------------
(* open_repo *)

BeginOpen(k, r) ==
  /\ Begin(k, [Idle EXCEPT !.pc = "open", !.root = r])
  /\ sess' = [s \in Sessions |-> Off]            \* clear_sessions
  /\ tidy' = (tidy /\ Alone(k))
  /\ UNCHANGED <<git, recent, backend, crossed, excused>>

\* Under the lock: the root, and the branch as git tells it.
Adopt(k) ==
  LET r == task[k].root IN
  /\ At(k, "open")
  /\ open' = r
  /\ \E name \in RevParse(r) : Hold(r, name) /\ excused' = (name # head[r])
  /\ task' = [task EXCEPT ![k].pc = "watch"]
  /\ UNCHANGED <<git, recent, watch, watcher, sess, crossed, tidy, counts>>

\* watch_branch: the watcher is started, and stored in place of the old one,
\* whose undelivered events go with it.
Watch(k) ==
  /\ At(k, "watch")
  /\ \/ /\ watcher' = Append(watcher, [root |-> task[k].root, due |-> FALSE,
                                       pc |-> "rest", name |-> Detached])
        /\ watch' = Len(watcher) + 1
     \/ "watch" \in Faults /\ watch' = 0 /\ UNCHANGED watcher
  /\ excused' = (excused \/ branch.name # head[open])
  /\ task' = [task EXCEPT ![k].pc = "prefs"]
  /\ UNCHANGED <<git, recent, open, branch, sess, crossed, tidy, counts>>

\* Mutant: to the front, once more.
RecordAgain(list, r) == <<r>> \o list

\* What `retain` leaves of the list: its entries but for r, in order.
Others(list, r) ==
  LET kept[n \in 0..Len(list)] ==
        IF n = 0 THEN <<>>
        ELSE IF list[n] = r THEN kept[n - 1] ELSE Append(kept[n - 1], list[n])
  IN  kept[Len(list)]

\* record_open: to the front, once, and the list is capped.
RecordOpen(list, r) ==
  LET all == <<r>> \o Others(list, r)
  IN  SubSeq(all, 1, IF Len(all) < MaxRecent THEN Len(all) ELSE MaxRecent)

SavePrefs(k) ==
  /\ At(k, "prefs")
  /\ recent' = RecordOpen(recent, task[k].root)
  /\ Finish(k)
  /\ UNCHANGED <<git, backend, sess, history, counts>>
-----------------------------------------------------------------------------
(* The watcher's thread *)

Stands(w, pc) == w \in DOMAIN watcher /\ watcher[w].pc = pc

MoveHead(r, name) ==
  /\ moves < MaxMoves /\ Quiet /\ moves' = moves + 1
  /\ name # head[r] /\ head' = [head EXCEPT ![r] = name]
  /\ IF watch # 0 /\ watcher[watch].root = r
     THEN watcher' = [watcher EXCEPT ![watch].due = TRUE] /\ UNCHANGED excused
     ELSE UNCHANGED watcher /\ excused' = (excused \/ r = open)
  /\ UNCHANGED <<saved, recent, open, branch, watch, sess, task, crossed, tidy,
                 runs, ops>>

\* Only the watcher in use gets events; it sleeps 100 ms on each.
Notice(w) ==
  /\ w = watch /\ Stands(w, "rest") /\ watcher[w].due
  /\ watcher' = [watcher EXCEPT ![w].due = FALSE, ![w].pc = "debounce"]
  /\ UNCHANGED <<git, recent, open, branch, watch, sess, task, history, counts>>

\* Then it asks git; no answer, no news.
Debounced(w) ==
  /\ Stands(w, "debounce")
  /\ \/ /\ watcher' = [watcher EXCEPT ![w].pc = "found",
                                      ![w].name = head[watcher[w].root]]
        /\ UNCHANGED excused
     \/ /\ "git" \in Faults
        /\ watcher' = [watcher EXCEPT ![w].pc = "rest"]
        /\ excused' = TRUE
  /\ UNCHANGED <<git, recent, open, branch, watch, sess, task, crossed, tidy, counts>>

\* Mutant: the events that came in meanwhile are taken for the one handled.
OnBranchCoalesced(w) ==
  LET name == watcher[w].name IN
  /\ Stands(w, "found")
  /\ watcher' = [watcher EXCEPT ![w].pc = "rest", ![w].due = FALSE]
  /\ IF open = watcher[w].root /\ branch.name # name
     THEN /\ Hold(watcher[w].root, name)
          /\ excused' = IF w = watch THEN excused /\ name # head[open]
                                     ELSE excused \/ name # head[open]
     ELSE UNCHANGED <<branch, excused>>
  /\ UNCHANGED <<git, recent, open, watch, sess, task, crossed, tidy, counts>>

\* Mutant: whichever repository is open.
OnAnyBranch(w) ==
  LET name == watcher[w].name IN
  /\ Stands(w, "found")
  /\ watcher' = [watcher EXCEPT ![w].pc = "rest"]
  /\ Hold(watcher[w].root, name) /\ UNCHANGED excused
  /\ UNCHANGED <<git, recent, open, watch, sess, task, crossed, tidy, counts>>

\* on_branch: only while its own repository is open.
OnBranch(w) ==
  LET name == watcher[w].name IN
  /\ Stands(w, "found")
  /\ watcher' = [watcher EXCEPT ![w].pc = "rest"]
  /\ IF open = watcher[w].root /\ branch.name # name
     THEN /\ Hold(watcher[w].root, name)
          /\ excused' = IF w = watch THEN excused /\ name # head[open]
                                     ELSE excused \/ name # head[open]
     ELSE UNCHANGED <<branch, excused>>
  /\ UNCHANGED <<git, recent, open, watch, sess, task, crossed, tidy, counts>>
-----------------------------------------------------------------------------
(* spawn_session and session/load *)

BeginSpawn(k, s) ==
  /\ open # NoRepo /\ s \notin Live
  /\ Begin(k, [Idle EXCEPT !.pc = "spawn", !.root = open, !.branch = branch,
                           !.stored = saved[open], !.todo = {<<s, 0>>}])
  /\ tidy' = (tidy /\ Alone(k))
  /\ UNCHANGED <<git, recent, backend, sess, crossed, excused>>

\* The session is up with the options it took and goes into the table; the
\* root and the branch of the snapshot go back into the state.
Insert(k) ==
  /\ At(k, "spawn")
  /\ \E p \in task[k].todo, refused \in SUBSET ConfigRoles :
       /\ refused # {} => "apply" \in Faults
       /\ LET taken == [q \in ConfigRoles |->
                          IF q \in refused THEN NoValue ELSE task[k].stored[q]]
              cfg   == Applied(taken)
          IN  sess' = [sess EXCEPT ![p[1]] =
                [run |-> runs + 1, cfg |-> cfg,
                 last |-> [q \in ConfigRoles |->
                             IF cfg[q] = taken[q] THEN taken[q] ELSE NoValue]]]
       /\ tidy' = (tidy /\ refused = {})
  /\ open' = task[k].root /\ branch' = task[k].branch
  /\ excused' = (task[k].branch.name # head[task[k].root])
  /\ runs' = runs + 1
  /\ Finish(k)
  /\ UNCHANGED <<git, recent, watch, watcher, crossed, ops, moves>>

\* load_history: a session of before comes back with the options it had.
Load(s) ==
  /\ open # NoRepo /\ s \notin Live /\ ops < MaxOps /\ Quiet
  /\ \E m \in Values :
       LET cfg == SetOption(Unset, "model", m)
       IN  sess' = [sess EXCEPT ![s] = [run |-> runs + 1, cfg |-> cfg, last |-> cfg]]
  /\ runs' = runs + 1 /\ ops' = ops + 1
  /\ tidy' = FALSE
  /\ UNCHANGED <<git, recent, backend, task, crossed, excused, moves>>
-----------------------------------------------------------------------------
(* set_global_config_option *)

BeginPick(k, q, v) ==
  /\ Live # {}
  /\ Begin(k, [Idle EXCEPT !.pc = "send", !.role = q, !.value = v,
                           !.todo = {<<s, sess[s].run>> : s \in Live}])
  /\ tidy' = (tidy /\ Alone(k))
  /\ UNCHANGED <<git, recent, backend, sess, crossed, excused>>

\* The sessions of the snapshot in any order.  A session that is gone, or
\* that refuses, ends the whole choice with an error.
Send(k) ==
  /\ At(k, "send") /\ task[k].todo # {}
  /\ \E p \in task[k].todo :
       LET s == p[1] IN
       \/ /\ sess[s].run = p[2] /\ Takes(sess[s].cfg, task[k].role, task[k].value)
          /\ LET cfg == SetOption(sess[s].cfg, task[k].role, task[k].value) IN
             /\ sess' = [sess EXCEPT ![s].cfg = cfg]
             /\ task' = [task EXCEPT ![k].pc = "answer", ![k].roles = cfg,
                                     ![k].todo = @ \ {p}, ![k].sent = {s}]
          /\ UNCHANGED tidy
       \/ /\ \/ sess[s].run # p[2]
             \/ ~Takes(sess[s].cfg, task[k].role, task[k].value)
             \/ "send" \in Faults
          /\ Finish(k) /\ tidy' = FALSE /\ UNCHANGED sess
  /\ UNCHANGED <<git, recent, backend, crossed, excused, counts>>

\* The response, by key: what moved against last_roles, which it replaces.
Answer(k) == \E s \in task[k].sent :
  /\ At(k, "answer")
  /\ task' = [task EXCEPT ![k].pc = "save", ![k].sent = {},
       ![k].moved = {q \in ConfigRoles : sess[s].last[q] # task[k].roles[q]}]
  /\ sess' = IF s \in Live THEN [sess EXCEPT ![s].last = task[k].roles] ELSE sess
  /\ UNCHANGED <<git, recent, backend, history, counts>>

\* set_role, once per moved role, model first: load and write of the file of
\* the repository open now.  A load may meet the truncated file of another.
Save(k) ==
  /\ At(k, "save")
  /\ IF task[k].moved = {}
     THEN IF task[k].todo = {} THEN Finish(k)
                               ELSE task' = [task EXCEPT ![k].pc = "send"]
     ELSE \E stored \in {saved[open]} \cup
            {Unset : j \in {j \in Tasks \ {k} : At(j, "write") /\ task[j].root = open}} :
          task' = [task EXCEPT ![k].pc = "write", ![k].root = open,
                               ![k].stored = stored]
  /\ UNCHANGED <<git, recent, backend, sess, history, counts>>

NextMoved(k) == IF "model" \in task[k].moved THEN "model" ELSE "effort"

Write(k) ==
  LET q == NextMoved(k) IN
  /\ At(k, "write")
  /\ saved' = [saved EXCEPT ![task[k].root] =
                 [task[k].stored EXCEPT ![q] = task[k].roles[q]]]
  /\ task' = [task EXCEPT ![k].pc = "save", ![k].moved = @ \ {q}]
  /\ UNCHANGED <<head, recent, backend, sess, history, counts>>
-----------------------------------------------------------------------------
Init ==
  /\ head \in [Repos -> Branches]
  /\ saved = [r \in Repos |-> Unset] /\ recent = <<>>
  /\ open = NoRepo /\ branch = [of |-> NoRepo, name |-> Detached]
  /\ watch = 0 /\ watcher = <<>>
  /\ sess = [s \in Sessions |-> Off]
  /\ task = [k \in Tasks |-> Idle]
  /\ crossed = FALSE /\ excused = FALSE /\ tidy = TRUE
  /\ runs = 0 /\ ops = 0 /\ moves = 0

Step(k) == \/ ReadBranch(k) \/ SetBranch(k)
           \/ Adopt(k) \/ Watch(k) \/ SavePrefs(k) \/ Insert(k)
           \/ Send(k) \/ Answer(k) \/ Save(k) \/ Write(k)
Follow(w) == Notice(w) \/ Debounced(w) \/ OnBranch(w)

\* One watcher per open, and one that may be there at first.
Watchers == 1..(MaxOps + 1)

Next ==
  \/ \E k \in Tasks :
       \/ BeginRefresh(k) \/ \E r \in Repos : BeginOpen(k, r)
       \/ \E s \in Sessions : BeginSpawn(k, s)
       \/ \E q \in ConfigRoles, v \in Values : BeginPick(k, q, v)
       \/ Step(k)
  \/ \E s \in Sessions : Load(s)
  \/ \E w \in Watchers : Follow(w)
  \/ \E r \in Repos, name \in Branches : MoveHead(r, name)

Spec == Init /\ [][Next]_vars

\* The backend's threads run; nobody is made to do anything.
Fairness == /\ \A k \in Tasks : WF_vars(Step(k))
            /\ \A w \in Watchers : WF_vars(Follow(w))
FairSpec == Spec /\ Fairness
-----------------------------------------------------------------------------
\* Types; a watcher that is held was started, and the recent list is capped.
TypeOK ==
  /\ head \in [Repos -> Branches] /\ saved \in [Repos -> RepoState]
  /\ recent \in Seq(Repos) /\ Len(recent) <= MaxRecent
  /\ open \in Repos \cup {NoRepo}
  /\ branch \in [of : Repos \cup {NoRepo}, name : Branches]
  /\ watch \in Nat /\ (watch # 0 => watch \in DOMAIN watcher)
  /\ watcher \in Seq([root : Repos, due : BOOLEAN, name : Branches,
                      pc : {"rest", "debounce", "found"}])
  /\ sess \in [Sessions -> [run : Nat, cfg : RepoState, last : RepoState]]
  /\ task \in [Tasks ->
       [pc : {"idle", "read", "set", "open", "watch", "prefs", "spawn", "send",
              "answer", "save", "write"},
        root : Repos \cup {NoRepo},
        branch : [of : Repos \cup {NoRepo}, name : Branches],
        stored : RepoState, todo : SUBSET (Sessions \X Nat), sent : SUBSET Sessions,
        role : ConfigRoles, value : Values \cup {NoValue},
        roles : RepoState, moved : SUBSET ConfigRoles]]
  /\ {crossed, excused, tidy} \subseteq BOOLEAN
  /\ {runs, ops, moves} \subseteq Nat

\* The landing target is a branch of the open repository, whatever opens,
\* spawns and late watchers do; only a refresh that met an open mixes them.
TargetIsOfRepo == crossed \/ branch.of = open

\* The landing target is what HEAD names, or the watcher is about to see it,
\* unless one of these made it wrong: a stale value of a refresh or a spawn,
\* a move before the open's watcher was in place, a lost watcher or a git
\* that did not answer.
Coming == watch # 0 /\ watcher[watch].root = open /\
  \/ watcher[watch].due \/ watcher[watch].pc = "debounce"
  \/ watcher[watch].pc = "found" /\ watcher[watch].name = head[open]
TargetFollowsHead ==
  open # NoRepo /\ ~excused => branch.name = head[open] \/ Coming

\* Once HEAD rests the target comes to rest on it, with the same exceptions.
TargetCatchesUp == <>[](open = NoRepo \/ excused \/ branch.name = head[open])

\* With no two commands at once and no failure, every live session runs with
\* the model and effort that are saved for the repository, so a session
\* started next runs with the same: "every live session gets the same value".
SessionsAgree ==
  tidy /\ (\A k \in Tasks : ~Meddles(k)) =>
    \A s \in Live, q \in ConfigRoles :
      saved[open][q] # NoValue => sess[s].cfg[q] = saved[open][q]
=============================================================================
