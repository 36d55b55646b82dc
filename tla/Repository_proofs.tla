------------------------- MODULE Repository_proofs -------------------------
(***************************************************************************)
(* What Repository keeps true for any repositories, branches, sessions,    *)
(* commands and bounds: whose branch the landing target is, and that it    *)
(* follows HEAD.                                                           *)
(***************************************************************************)
EXTENDS Repository, SequenceTheorems, WellFoundedInduction, TLAPS

Branch  == [of : Repos \cup {NoRepo}, name : Branches]
Watched == [root : Repos, due : BOOLEAN, name : Branches,
            pc : {"rest", "debounce", "found"}]
Slot    == [pc : {"idle", "read", "set", "open", "watch", "prefs", "spawn", "send",
                  "answer", "save", "write"},
            root : Repos \cup {NoRepo}, branch : Branch,
            stored : RepoState, todo : SUBSET (Sessions \X Nat), sent : SUBSET Sessions,
            role : ConfigRoles, value : Values \cup {NoValue},
            roles : RepoState, moved : SUBSET ConfigRoles]

\* TypeOK without the list of recent repositories, which no other action reads.
Types ==
  /\ head \in [Repos -> Branches] /\ saved \in [Repos -> RepoState]
  /\ open \in Repos \cup {NoRepo} /\ branch \in Branch
  /\ watch \in Nat /\ (watch # 0 => watch \in DOMAIN watcher)
  /\ watcher \in Seq(Watched)
  /\ sess \in [Sessions -> [run : Nat, cfg : RepoState, last : RepoState]]
  /\ task \in [Tasks -> Slot]
  /\ {crossed, excused, tidy} \subseteq BOOLEAN
  /\ runs \in Nat

\* Before the first open nothing lives and nothing but opens is under way.
Unopened == open = NoRepo =>
  /\ \A s \in Sessions : sess[s].run = 0
  /\ \A k \in Tasks : task[k].pc \in {"idle", "open"}

\* What a command carries from one lock section to the next: a root, for a
\* refresh a branch of it, and for a spawn the branch that was the target
\* when it began.
Carries(k) ==
  /\ task[k].pc \in {"read", "set", "open", "watch", "prefs", "spawn", "write"} =>
       task[k].root \in Repos
  /\ task[k].pc = "set" => task[k].branch.of = task[k].root
  /\ task[k].pc = "spawn" => crossed \/ task[k].branch.of = task[k].root
  /\ task[k].pc \in {"send", "answer", "save", "write"} => task[k].value \in Values

\* What the watcher in use has found is what HEAD names, or it hears of more.
UpToDate(w) == w # 0 /\ watcher[w].pc = "found" =>
  watcher[w].due \/ watcher[w].name = head[watcher[w].root]
Fresher == UpToDate(watch)

Commands == \A k \in Tasks : Carries(k)
Target   == TargetIsOfRepo /\ TargetFollowsHead /\ Fresher
Inv      == Types /\ Unopened /\ Commands /\ Target

-----------------------------------------------------------------------------
(* Options *)

LEMMA Constants ==
  /\ NoRepo \notin Repos /\ Detached \in Branches /\ First \in Values
  /\ \A m \in Values : Offered[m] \subseteq Values
  BY RepositoryAssumption

LEMMA UnsetType == Unset \in RepoState
  BY DEF Unset, RepoState

\* An agent leaves its options among those there are.
LEMMA SetOptionType ==
  ASSUME NEW cfg \in RepoState, NEW q \in ConfigRoles, NEW v \in Values
  PROVE  SetOption(cfg, q, v) \in RepoState
  <1>1. Fallback(v) \in Values \cup {NoValue}
    BY Constants DEF Fallback
  <1>2. (IF cfg["effort"] \in Offered[v] THEN cfg["effort"] ELSE Fallback(v))
          \in Values \cup {NoValue}
    BY <1>1, Constants
  <1> QED BY <1>2 DEF SetOption, RepoState, ConfigRoles

LEMMA AppliedType ==
  ASSUME NEW stored \in RepoState
  PROVE  Applied(stored) \in RepoState
  <1>1. Fresh \in RepoState
    BY SetOptionType, UnsetType, Constants DEF Fresh, ConfigRoles
  <1>2. \A cfg \in RepoState, q \in ConfigRoles : Reapply(cfg, stored, q) \in RepoState
    BY SetOptionType DEF Reapply, RepoState
  <1> QED BY <1>1, <1>2 DEF Applied, ConfigRoles

-----------------------------------------------------------------------------
(* Steps that leave the target alone *)

\* A step of commands and sessions only: it owes types and what they carry.
LEMMA TargetStays ==
  ASSUME Target, UNCHANGED <<head, open, branch, watch, watcher, crossed, excused>>
  PROVE  Target'
  BY DEF Target, TargetIsOfRepo, TargetFollowsHead, Coming, Fresher, UpToDate

LEMMA IdleType == Idle \in Slot /\ Idle.pc = "idle" /\ Idle.value = NoValue
  BY UnsetType, Constants DEF Idle, Slot, Branch, ConfigRoles, NoValue

\* A command goes on to its next step.
LEMMA GoesOn ==
  ASSUME Types, NEW k \in Tasks, NEW pc \in {"watch", "prefs", "save", "send"},
         task' = [task EXCEPT ![k].pc = pc]
  PROVE  task' \in [Tasks -> Slot]
  <1>1. task[k] \in Slot
    BY DEF Types
  <1>2. [task[k] EXCEPT !.pc = pc] \in Slot
    BY <1>1 DEF Slot
  <1> QED BY <1>1, <1>2 DEF Types

LEMMA InitInv == Init => Inv
  <1> SUFFICES ASSUME Init PROVE Inv OBVIOUS
  <1>1. Types
    <2>1. /\ head \in [Repos -> Branches] /\ open \in Repos \cup {NoRepo}
          /\ branch \in Branch /\ watch \in Nat /\ watch = 0 /\ runs \in Nat
          /\ {crossed, excused, tidy} \subseteq BOOLEAN
      BY Constants DEF Init, Branch
    <2>2. saved \in [Repos -> RepoState]
      BY UnsetType DEF Init
    <2>3. watcher \in Seq(Watched)
      BY DEF Init
    <2>4. sess \in [Sessions -> [run : Nat, cfg : RepoState, last : RepoState]]
      BY UnsetType DEF Init, Off
    <2>5. task \in [Tasks -> Slot]
      BY IdleType DEF Init
    <2> QED BY <2>1, <2>2, <2>3, <2>4, <2>5 DEF Types
  <1>2. Unopened /\ Commands
    BY IdleType DEF Init, Unopened, Commands, Carries, Off
  <1>3. Target
    BY DEF Init, Target, TargetIsOfRepo, TargetFollowsHead, Fresher, UpToDate
  <1> QED BY <1>1, <1>2, <1>3 DEF Inv
-----------------------------------------------------------------------------
(* Refreshes *)

LEMMA BeginRefreshStep ==
  ASSUME Inv, NEW k \in Tasks, BeginRefresh(k)
  PROVE  Inv'
  <1>1. Types'
    BY IdleType DEF Inv, Types, BeginRefresh, Begin, git, backend, history, Slot
  <1>2. Unopened' /\ Commands'
    BY IdleType DEF Inv, Types, Unopened, Commands, Carries, BeginRefresh, Begin, git, backend,
       history, Slot, At
  <1>3. Target'
    BY TargetStays DEF Inv, BeginRefresh, Begin, git, backend, history
  <1> QED BY <1>1, <1>2, <1>3 DEF Inv

LEMMA ReadBranchStep ==
  ASSUME Inv, NEW k \in Tasks, ReadBranch(k)
  PROVE  Inv'
  <1>1. PICK name \in RevParse(task[k].root) :
          task' = [task EXCEPT ![k].pc = "set",
                               ![k].branch = [of |-> task[k].root, name |-> name]]
    BY DEF ReadBranch
  <1>2. name \in Branches
    BY Constants DEF RevParse, Inv, Types, Commands, Carries, ReadBranch, At
  <1>3. Types'
    <2>1. /\ task[k] \in Slot /\ task[k].root \in Repos
      BY DEF Inv, Types, Commands, Carries, ReadBranch, At
    <2>2. [of |-> task[k].root, name |-> name] \in Branch
      BY <1>2, <2>1 DEF Branch
    <2>3. [task[k] EXCEPT !.pc = "set", !.branch = [of |-> task[k].root, name |-> name]] \in Slot
      BY <2>1, <2>2 DEF Slot
    <2>4. task' = [task EXCEPT ![k] =
            [task[k] EXCEPT !.pc = "set", !.branch = [of |-> task[k].root, name |-> name]]]
      BY <1>1, <2>1 DEF Inv, Types, Slot
    <2> QED BY <2>3, <2>4 DEF Inv, Types, ReadBranch, git, backend, history, counts
  <1>4. Unopened' /\ Commands'
    BY <1>1 DEF Inv, Types, Unopened, Commands, Carries, ReadBranch, git, backend,
       history, counts, Slot, At
  <1>5. Target'
    BY TargetStays DEF Inv, ReadBranch, git, backend, history
  <1> QED BY <1>3, <1>4, <1>5 DEF Inv

LEMMA SetBranchStep ==
  ASSUME Inv, NEW k \in Tasks, SetBranch(k)
  PROVE  Inv'
  <1>1. Types'
    <2>1. task[k].branch \in Branch /\ task' \in [Tasks -> Slot]
      BY IdleType DEF Inv, Types, SetBranch, Finish, Slot
    <2>2. /\ branch' \in Branch
          /\ crossed' \in BOOLEAN /\ excused' \in BOOLEAN /\ UNCHANGED tidy
      BY <2>1 DEF Inv, Types, SetBranch
    <2> QED BY <2>1, <2>2 DEF Inv, Types, SetBranch, git, counts
  <1>2. Unopened' /\ Commands'
    BY IdleType DEF Inv, Types, Unopened, Commands, Carries, SetBranch, Finish, At, Slot, git, counts
  <1>3. Target'
    BY DEF Inv, Types, Commands, Carries, Target, TargetIsOfRepo, TargetFollowsHead, Fresher,
       UpToDate, Coming, SetBranch, At, git
  <1> QED BY <1>1, <1>2, <1>3 DEF Inv

-----------------------------------------------------------------------------
(* Opens *)

LEMMA BeginOpenStep ==
  ASSUME Inv, NEW k \in Tasks, NEW r \in Repos, BeginOpen(k, r)
  PROVE  Inv'
  <1>1. Types'
    BY IdleType, UnsetType DEF Inv, Types, BeginOpen, Begin, git, backend, Slot, Off, Alone
  <1>2. Unopened' /\ Commands'
    BY IdleType DEF Inv, Types, Unopened, Commands, Carries, BeginOpen, Begin, git, backend,
       Slot, At, Off
  <1>3. Target'
    BY TargetStays DEF Inv, BeginOpen, Begin, git, backend
  <1> QED BY <1>1, <1>2, <1>3 DEF Inv

LEMMA AdoptStep ==
  ASSUME Inv, NEW k \in Tasks, Adopt(k)
  PROVE  Inv'
  <1>1. task[k].root \in Repos
    BY DEF Inv, Commands, Carries, Adopt, At
  <1>2. PICK name \in RevParse(task[k].root) :
          Hold(task[k].root, name) /\ excused' = (name # head[task[k].root])
    BY DEF Adopt
  <1>3. name \in Branches
    BY <1>1, Constants DEF RevParse, Inv, Types
  <1>4. Types'
    <2>1. task' \in [Tasks -> Slot]
      BY GoesOn DEF Inv, Adopt
    <2>2. /\ branch' \in Branch /\ open' \in Repos
          /\ excused' \in BOOLEAN /\ UNCHANGED <<crossed, tidy>>
      BY <1>1, <1>2, <1>3 DEF Adopt, Hold, Branch
    <2> QED BY <2>1, <2>2 DEF Inv, Types, Adopt, git, counts
  <1>5. Unopened' /\ Commands'
    BY <1>1, Constants DEF Inv, Types, Unopened, Commands, Carries, Adopt, Slot, At, git, counts
  <1>6. Target'
    BY <1>2 DEF Inv, Target, TargetIsOfRepo, TargetFollowsHead, Fresher, UpToDate, Adopt, Hold, git
  <1> QED BY <1>4, <1>5, <1>6 DEF Inv

LEMMA WatchStep ==
  ASSUME Inv, NEW k \in Tasks, Watch(k)
  PROVE  Inv'
  <1>1. task[k].root \in Repos
    BY DEF Inv, Commands, Carries, Watch, At
  <1>2. Unopened' /\ Commands'
    BY <1>1 DEF Inv, Types, Unopened, Commands, Carries, Watch, Slot, At, git, counts
  <1>3. /\ task' \in [Tasks -> Slot]
        /\ {crossed, excused, tidy}' \subseteq BOOLEAN
    <2>1. task' \in [Tasks -> Slot]
      BY GoesOn DEF Inv, Watch
    <2>2. excused' \in BOOLEAN /\ UNCHANGED <<crossed, tidy>>
      BY DEF Inv, Types, Watch
    <2> QED BY <2>1, <2>2 DEF Inv, Types
  <1>4. CASE watch' = 0 /\ UNCHANGED watcher
    <2>1. Types'
      BY <1>3, <1>4 DEF Inv, Types, Watch, git, counts
    <2>2. Target'
      BY <1>4 DEF Inv, Types, Target, TargetIsOfRepo, TargetFollowsHead, Fresher, UpToDate, Watch, git
    <2> QED BY <1>2, <2>1, <2>2 DEF Inv
  <1>5. CASE /\ watcher' = Append(watcher, [root |-> task[k].root, due |-> FALSE,
                                             pc |-> "rest", name |-> Detached])
             /\ watch' = Len(watcher) + 1
    <2> DEFINE w == [root |-> task[k].root, due |-> FALSE, pc |-> "rest", name |-> Detached]
    <2>1. w \in Watched
      BY <1>1, Constants DEF Watched
    <2>2. watcher \in Seq(Watched)
      BY DEF Inv, Types
    <2>3. /\ watcher' \in Seq(Watched) /\ watch' \in DOMAIN watcher' /\ watch' \in Nat
          /\ watcher'[watch'] = w
      BY <1>5, <2>1, <2>2
    <2>4. Types'
      BY <1>3, <2>3 DEF Inv, Types, Watch, git, counts
    <2>5. UNCHANGED <<open, branch, head, crossed>> /\ excused' = (excused \/ branch.name # head[open])
      BY DEF Watch, git
    <2>6. watcher'[watch'].pc = "rest"
      BY <2>3
    <2>7. Target'
      BY <2>5, <2>6 DEF Inv, Target, TargetIsOfRepo, TargetFollowsHead, Fresher, UpToDate
    <2> QED BY <1>2, <2>4, <2>7 DEF Inv
  <1> QED BY <1>4, <1>5 DEF Watch

LEMMA SavePrefsStep ==
  ASSUME Inv, NEW k \in Tasks, SavePrefs(k)
  PROVE  Inv'
  <1>1. Types' /\ Unopened' /\ Commands'
    BY IdleType DEF Inv, Types, Unopened, Commands, Carries, SavePrefs, Finish, git, backend,
       history, counts, At
  <1>2. Target'
    BY TargetStays DEF Inv, SavePrefs, git, backend, history
  <1> QED BY <1>1, <1>2 DEF Inv

-----------------------------------------------------------------------------
(* HEAD and its watchers *)

\* What a step of a watcher's thread may do to the watchers.
LEMMA WatcherType ==
  ASSUME Types, NEW w \in DOMAIN watcher, NEW d \in BOOLEAN,
         NEW pc \in {"rest", "debounce", "found"}, NEW name \in Branches,
         watcher' = [watcher EXCEPT ![w].due = d, ![w].pc = pc, ![w].name = name]
  PROVE  /\ watcher' \in Seq(Watched)
         /\ DOMAIN watcher' = DOMAIN watcher
         /\ watcher'[w].root = watcher[w].root
         /\ watcher'[w].due = d /\ watcher'[w].pc = pc /\ watcher'[w].name = name
         /\ \A v \in DOMAIN watcher \ {w} : watcher'[v] = watcher[v]
         /\ watcher[w] \in Watched
  <1>1. watcher \in Seq(Watched) /\ watcher[w] \in Watched
    BY DEF Types
  <1>2. [watcher[w] EXCEPT !.due = d, !.pc = pc, !.name = name] \in Watched
    BY <1>1 DEF Watched
  <1>3. watcher' = [watcher EXCEPT ![w] = [watcher[w] EXCEPT !.due = d, !.pc = pc, !.name = name]]
    BY <1>1 DEF Watched
  <1>4. /\ watcher' \in Seq(Watched) /\ DOMAIN watcher' = DOMAIN watcher
        /\ \A v \in DOMAIN watcher \ {w} : watcher'[v] = watcher[v]
        /\ watcher'[w] = [watcher[w] EXCEPT !.due = d, !.pc = pc, !.name = name]
    BY <1>1, <1>2, <1>3
  <1> QED BY <1>1, <1>4 DEF Watched

LEMMA MoveHeadStep ==
  ASSUME Inv, NEW r \in Repos, NEW name \in Branches, MoveHead(r, name)
  PROVE  Inv'
  <1>1. /\ head' \in [Repos -> Branches] /\ head' = [head EXCEPT ![r] = name]
        /\ \A x \in Repos \ {r} : head'[x] = head[x]
    BY DEF Inv, Types, MoveHead
  <1>2. Unopened' /\ Commands'
    BY DEF Inv, Unopened, Commands, Carries, MoveHead
  <1>3. CASE watch # 0 /\ watcher[watch].root = r
    <2>1. watch \in DOMAIN watcher /\ watcher[watch] \in Watched
      BY <1>3 DEF Inv, Types
    <2>2. watcher' = [watcher EXCEPT ![watch].due = TRUE, ![watch].pc = watcher[watch].pc,
                                     ![watch].name = watcher[watch].name]
      BY <1>3, <2>1 DEF MoveHead, Watched, Inv, Types
    <2>3. /\ watcher' \in Seq(Watched) /\ DOMAIN watcher' = DOMAIN watcher
          /\ watcher'[watch].due = TRUE /\ watcher'[watch].root = r
      BY <1>3, <2>1, <2>2, WatcherType DEF Inv, Watched
    <2>4. Types'
      BY <1>1, <2>3, <1>3 DEF Inv, Types, MoveHead
    <2>5. Target'
      BY <1>1, <1>3, <2>3 DEF Inv, Types, Target, TargetIsOfRepo, TargetFollowsHead, Coming,
         Fresher, UpToDate, MoveHead
    <2> QED BY <1>2, <2>4, <2>5 DEF Inv
  <1>4. CASE ~(watch # 0 /\ watcher[watch].root = r)
    <2>1. UNCHANGED watcher /\ excused' = (excused \/ r = open)
      BY <1>4 DEF MoveHead
    <2>2. Types'
      BY <1>1, <2>1 DEF Inv, Types, MoveHead
    <2>3. watch # 0 => watcher[watch] \in Watched
      BY DEF Inv, Types
    <2>4. Target'
      BY <1>1, <1>4, <2>1, <2>3 DEF Inv, Types, Target, TargetIsOfRepo, TargetFollowsHead, Coming,
         Fresher, UpToDate, MoveHead, Watched
    <2> QED BY <1>2, <2>2, <2>4 DEF Inv
  <1> QED BY <1>3, <1>4

LEMMA NoticeStep ==
  ASSUME Inv, NEW w \in Watchers, Notice(w)
  PROVE  Inv'
  <1>1. w \in DOMAIN watcher /\ w = watch /\ watcher[w] \in Watched
    BY DEF Notice, Stands, Inv, Types
  <1>2. watcher' = [watcher EXCEPT ![w].due = FALSE, ![w].pc = "debounce",
                                   ![w].name = watcher[w].name]
    BY <1>1 DEF Notice, Watched, Inv, Types
  <1>3. /\ watcher' \in Seq(Watched) /\ DOMAIN watcher' = DOMAIN watcher
        /\ watcher'[w].pc = "debounce" /\ watcher'[w].root = watcher[w].root
    BY <1>1, <1>2, WatcherType DEF Inv, Watched
  <1>4. Types'
    BY <1>3 DEF Inv, Types, Notice, git, history, counts
  <1>5. Unopened' /\ Commands'
    BY DEF Inv, Unopened, Commands, Carries, Notice, history
  <1>6. Target'
    BY <1>1, <1>3 DEF Inv, Types, Target, TargetIsOfRepo, TargetFollowsHead, Coming, Fresher,
       UpToDate, Notice, git, history, Stands
  <1> QED BY <1>4, <1>5, <1>6 DEF Inv

LEMMA DebouncedStep ==
  ASSUME Inv, NEW w \in Watchers, Debounced(w)
  PROVE  Inv'
  <1>1. w \in DOMAIN watcher /\ watcher[w] \in Watched /\ watcher[w].pc = "debounce"
    BY DEF Debounced, Stands, Inv, Types
  <1>2. Unopened' /\ Commands'
    BY DEF Inv, Unopened, Commands, Carries, Debounced
  <1>3. CASE /\ watcher' = [watcher EXCEPT ![w].pc = "found",
                                           ![w].name = head[watcher[w].root]]
             /\ UNCHANGED excused
    <2>1. head[watcher[w].root] \in Branches
      BY <1>1 DEF Watched, Inv, Types
    <2>2. watcher' = [watcher EXCEPT ![w].due = watcher[w].due, ![w].pc = "found",
                                     ![w].name = head[watcher[w].root]]
      BY <1>1, <1>3 DEF Watched, Inv, Types
    <2>3. /\ watcher' \in Seq(Watched) /\ DOMAIN watcher' = DOMAIN watcher
          /\ watcher'[w].root = watcher[w].root /\ watcher'[w].pc = "found"
          /\ watcher'[w].name = head[watcher[w].root]
          /\ watcher'[w].due = watcher[w].due
          /\ \A v \in DOMAIN watcher \ {w} : watcher'[v] = watcher[v]
      BY <1>1, <2>1, <2>2, WatcherType DEF Inv, Watched
    <2>4. Types'
      BY <1>3, <2>3 DEF Inv, Types, Debounced, git, counts
    <2>5. Target'
      BY <1>1, <1>3, <2>3 DEF Inv, Types, Target, TargetIsOfRepo, TargetFollowsHead, Coming,
         Fresher, UpToDate, Debounced, git
    <2> QED BY <1>2, <2>4, <2>5 DEF Inv
  <1>4. CASE watcher' = [watcher EXCEPT ![w].pc = "rest"] /\ excused' = TRUE
    <2>1. watcher' = [watcher EXCEPT ![w].due = watcher[w].due, ![w].pc = "rest",
                                     ![w].name = watcher[w].name]
      BY <1>1, <1>4 DEF Watched, Inv, Types
    <2>2. /\ watcher' \in Seq(Watched) /\ DOMAIN watcher' = DOMAIN watcher
          /\ watcher'[w].pc = "rest"
          /\ \A v \in DOMAIN watcher \ {w} : watcher'[v] = watcher[v]
      BY <1>1, <2>1, WatcherType DEF Inv, Watched
    <2>3. Types'
      BY <1>4, <2>2 DEF Inv, Types, Debounced, git, counts
    <2>4. Target'
      BY <1>1, <1>4, <2>2 DEF Inv, Types, Target, TargetIsOfRepo, TargetFollowsHead,
         Fresher, UpToDate, Debounced, git
    <2> QED BY <1>2, <2>3, <2>4 DEF Inv
  <1> QED BY <1>3, <1>4 DEF Debounced

LEMMA OnBranchStep ==
  ASSUME Inv, NEW w \in Watchers, OnBranch(w)
  PROVE  Inv'
  <1>1. /\ w \in DOMAIN watcher /\ watcher[w] \in Watched /\ watcher[w].pc = "found"
        /\ watcher' = [watcher EXCEPT ![w].pc = "rest"]
    BY DEF OnBranch, Stands, Inv, Types
  <1>3. /\ watcher' \in Seq(Watched) /\ DOMAIN watcher' = DOMAIN watcher
        /\ watcher'[w].root = watcher[w].root /\ watcher'[w].pc = "rest"
        /\ watcher'[w].due = watcher[w].due
        /\ \A v \in DOMAIN watcher \ {w} : watcher'[v] = watcher[v]
    <2> DEFINE v == [watcher[w] EXCEPT !.pc = "rest"]
    <2>1. /\ v \in Watched /\ v.root = watcher[w].root /\ v.pc = "rest"
          /\ v.due = watcher[w].due
      BY <1>1 DEF Watched
    <2>2. watcher \in Seq(Watched) /\ watcher' = [watcher EXCEPT ![w] = v]
      BY <1>1 DEF Inv, Types
    <2> HIDE DEF v
    <2> QED BY <1>1, <2>1, <2>2
  <1>4. Unopened' /\ Commands'
    BY DEF Inv, Unopened, Commands, Carries, OnBranch
  <1>5. CASE open = watcher[w].root /\ branch.name # watcher[w].name
    <2>1. /\ branch' = [of |-> open, name |-> watcher[w].name]
          /\ excused' = IF w = watch THEN excused /\ watcher[w].name # head[open]
                                     ELSE excused \/ watcher[w].name # head[open]
      BY <1>5 DEF OnBranch, Hold
    <2>2. Types'
      <3>1. branch' \in Branch
        BY <1>1, <1>5, <2>1 DEF Branch, Watched
      <3>2. excused' \in BOOLEAN
        BY <2>1 DEF Inv, Types
      <3> QED BY <1>3, <3>1, <3>2 DEF Inv, Types, OnBranch, git, counts
    <2>3. Fresher'
      BY <1>1, <1>3 DEF Inv, Types, Target, Fresher, UpToDate, OnBranch, git
    <2>4. TargetIsOfRepo'
      BY <2>1 DEF TargetIsOfRepo, OnBranch
    <2>5. TargetFollowsHead'
      <3>1. UNCHANGED <<open, head, watch>>
        BY DEF OnBranch, git
      <3>2. CASE w # watch
        BY <2>1, <3>1, <3>2 DEF TargetFollowsHead
      <3>3. CASE w = watch /\ watcher[w].name = head[open]
        BY <2>1, <3>1, <3>3 DEF TargetFollowsHead
      <3>4. CASE w = watch /\ watcher[w].name # head[open]
        <4>1. watch # 0 /\ watcher[w].due
          BY <1>1, <1>5, <3>4 DEF Inv, Types, Target, Fresher, UpToDate
        <4>2. Coming'
          BY <1>3, <1>5, <3>1, <3>4, <4>1 DEF Coming
        <4> QED BY <4>2 DEF TargetFollowsHead
      <3> QED BY <3>2, <3>3, <3>4
    <2> QED BY <1>4, <2>2, <2>3, <2>4, <2>5 DEF Inv, Target
  <1>6. CASE ~(open = watcher[w].root /\ branch.name # watcher[w].name)
    <2>1. UNCHANGED <<branch, excused>>
      BY <1>6 DEF OnBranch
    <2>2. Types'
      BY <1>3, <2>1 DEF Inv, Types, OnBranch, git, counts
    <2>3. Target'
      BY <1>1, <1>3, <1>6, <2>1 DEF Inv, Types, Target, TargetIsOfRepo, TargetFollowsHead, Coming,
         Fresher, UpToDate, OnBranch, git
    <2> QED BY <1>4, <2>2, <2>3 DEF Inv
  <1> QED BY <1>5, <1>6

-----------------------------------------------------------------------------
(* Spawns and loads *)

\* A session gets a new record.
LEMMA SessionType ==
  ASSUME Types, NEW s \in Sessions, NEW run \in Nat, NEW cfg \in RepoState, NEW last \in RepoState,
         sess' = [sess EXCEPT ![s] = [run |-> run, cfg |-> cfg, last |-> last]]
  PROVE  sess' \in [Sessions -> [run : Nat, cfg : RepoState, last : RepoState]]
  BY DEF Types

LEMMA BeginSpawnStep ==
  ASSUME Inv, NEW k \in Tasks, NEW s \in Sessions, BeginSpawn(k, s)
  PROVE  Inv'
  <1> DEFINE todo == {<<s, 0>>}
             t    == [Idle EXCEPT !.pc = "spawn", !.root = open, !.branch = branch,
                                  !.stored = saved[open], !.todo = todo]
  <1>1. open \in Repos /\ saved[open] \in RepoState /\ branch \in Branch
    BY DEF BeginSpawn, Inv, Types
  <1>2. t \in Slot
    <2>1. todo \in SUBSET (Sessions \X Nat)
      OBVIOUS
    <2> HIDE DEF todo
    <2> QED BY <1>1, <2>1, IdleType DEF Slot
  <1>3. t.pc = "spawn" /\ t.root = open /\ t.branch = branch
    BY IdleType DEF Slot
  <1>4. task' = [task EXCEPT ![k] = t]
    BY DEF BeginSpawn, Begin
  <1>5. Types'
    BY <1>2, <1>4 DEF Inv, Types, BeginSpawn, Begin, git, backend, Alone
  <1>6. Unopened' /\ Commands'
    <2>1. \A j \in Tasks : task'[j] = IF j = k THEN t ELSE task[j]
      BY <1>4 DEF Inv, Types
    <2>2. UNCHANGED <<open, crossed, sess, branch>> /\ open # NoRepo
      BY DEF BeginSpawn, backend
    <2> HIDE DEF t
    <2> QED BY <1>1, <1>3, <2>1, <2>2 DEF Inv, Unopened, Commands, Carries, Target, TargetIsOfRepo
  <1>7. Target'
    BY TargetStays DEF Inv, BeginSpawn, git, backend
  <1> QED BY <1>5, <1>6, <1>7 DEF Inv

LEMMA InsertStep ==
  ASSUME Inv, NEW k \in Tasks, Insert(k)
  PROVE  Inv'
  <1>1. /\ task[k] \in Slot /\ task[k].root \in Repos
        /\ crossed \/ task[k].branch.of = task[k].root
    BY DEF Insert, At, Inv, Types, Commands, Carries
  <1>2. PICK p \in task[k].todo, refused \in SUBSET ConfigRoles :
          LET taken == [q \in ConfigRoles |->
                          IF q \in refused THEN NoValue ELSE task[k].stored[q]]
              cfg   == Applied(taken)
          IN  /\ sess' = [sess EXCEPT ![p[1]] =
                   [run |-> runs + 1, cfg |-> cfg,
                    last |-> [q \in ConfigRoles |->
                                IF cfg[q] = taken[q] THEN taken[q] ELSE NoValue]]]
              /\ tidy' = (tidy /\ refused = {})
    BY DEF Insert
  <1> DEFINE taken == [q \in ConfigRoles |-> IF q \in refused THEN NoValue ELSE task[k].stored[q]]
             cfg   == Applied(taken)
             last  == [q \in ConfigRoles |-> IF cfg[q] = taken[q] THEN taken[q] ELSE NoValue]
  <1>3. taken \in RepoState
    BY <1>1 DEF Slot, RepoState
  <1>4. cfg \in RepoState
    BY <1>3, AppliedType
  <1>5. last \in RepoState
    BY <1>3 DEF RepoState
  <1>6. p[1] \in Sessions /\ runs + 1 \in Nat
    BY <1>1 DEF Slot, Inv, Types
  <1>7. sess' = [sess EXCEPT ![p[1]] = [run |-> runs + 1, cfg |-> cfg, last |-> last]]
    BY <1>2
  <1>8. sess' \in [Sessions -> [run : Nat, cfg : RepoState, last : RepoState]]
    <2> HIDE DEF cfg, last
    <2> QED BY <1>4, <1>5, <1>6, <1>7, SessionType DEF Inv
  <1>9. /\ open' = task[k].root /\ branch' = task[k].branch
        /\ excused' = (task[k].branch.name # head[task[k].root])
        /\ UNCHANGED <<head, saved, watch, watcher, crossed>>
        /\ runs' = runs + 1 /\ task' = [task EXCEPT ![k] = Idle]
    BY DEF Insert, git, Finish
  <1>10. tidy' \in BOOLEAN
    BY <1>2 DEF Inv, Types
  <1>11. Types'
    <2>1. task' \in [Tasks -> Slot]
      BY <1>9, IdleType DEF Inv, Types
    <2>2. task[k].branch \in Branch
      BY <1>1 DEF Slot
    <2> QED BY <1>1, <1>6, <1>8, <1>9, <1>10, <2>1, <2>2 DEF Inv, Types
  <1>12. Unopened' /\ Commands'
    BY <1>1, <1>9, IdleType, Constants DEF Inv, Types, Unopened, Commands, Carries
  <1>13. Target'
    BY <1>1, <1>9 DEF Inv, Target, TargetIsOfRepo, TargetFollowsHead, Fresher, UpToDate
  <1> QED BY <1>11, <1>12, <1>13 DEF Inv

LEMMA LoadStep ==
  ASSUME Inv, NEW s \in Sessions, Load(s)
  PROVE  Inv'
  <1>1. PICK m \in Values :
          sess' = [sess EXCEPT ![s] = [run |-> runs + 1, cfg |-> SetOption(Unset, "model", m),
                                       last |-> SetOption(Unset, "model", m)]]
    BY DEF Load
  <1>2. SetOption(Unset, "model", m) \in RepoState
    BY SetOptionType, UnsetType DEF ConfigRoles
  <1>3. runs + 1 \in Nat
    BY DEF Inv, Types
  <1>4. sess' \in [Sessions -> [run : Nat, cfg : RepoState, last : RepoState]]
    BY <1>1, <1>2, <1>3, SessionType DEF Inv
  <1>5. Types'
    BY <1>3, <1>4 DEF Inv, Types, Load, git, backend
  <1>6. Unopened' /\ Commands'
    BY DEF Inv, Unopened, Commands, Carries, Load, backend
  <1>7. Target'
    BY TargetStays DEF Inv, Load, git, backend
  <1> QED BY <1>5, <1>6, <1>7 DEF Inv

-----------------------------------------------------------------------------
(* Choices *)

LEMMA BeginPickStep ==
  ASSUME Inv, NEW k \in Tasks, NEW q \in ConfigRoles, NEW v \in Values, BeginPick(k, q, v)
  PROVE  Inv'
  <1> DEFINE todo == {<<s, sess[s].run>> : s \in Live}
             t    == [Idle EXCEPT !.pc = "send", !.role = q, !.value = v, !.todo = todo]
  <1>1. todo \subseteq Sessions \X Nat
    BY DEF Live, Inv, Types
  <1>2. t \in Slot /\ t.pc = "send" /\ t.value = v
    <2> HIDE DEF todo
    <2> QED BY <1>1, IdleType DEF Slot
  <1>3. task' = [task EXCEPT ![k] = t] /\ UNCHANGED <<open, sess, crossed>> /\ Live # {}
    BY DEF BeginPick, Begin, backend
  <1> HIDE DEF t
  <1>4. Types'
    BY <1>2, <1>3 DEF Inv, Types, BeginPick, Begin, git, backend, Alone
  <1>5. open # NoRepo
    BY <1>3 DEF Inv, Unopened, Live
  <1>6. \A j \in Tasks : task'[j] = IF j = k THEN t ELSE task[j]
    BY <1>3 DEF Inv, Types
  <1>7. Unopened' /\ Commands'
    BY <1>2, <1>3, <1>5, <1>6 DEF Inv, Unopened, Commands, Carries
  <1>8. Target'
    BY TargetStays DEF Inv, BeginPick, git, backend
  <1> QED BY <1>4, <1>7, <1>8 DEF Inv

LEMMA SendStep ==
  ASSUME Inv, NEW k \in Tasks, Send(k)
  PROVE  Inv'
  <1>1. /\ task[k] \in Slot /\ task[k].value \in Values /\ task[k].pc = "send"
        /\ task[k].role \in ConfigRoles
    BY DEF Send, At, Inv, Types, Commands, Carries, Slot
  <1>2. PICK p \in task[k].todo :
       \/ /\ LET cfg == SetOption(sess[p[1]].cfg, task[k].role, task[k].value) IN
             /\ sess' = [sess EXCEPT ![p[1]].cfg = cfg]
             /\ task' = [task EXCEPT ![k].pc = "answer", ![k].roles = cfg,
                                     ![k].todo = @ \ {p}, ![k].sent = {p[1]}]
          /\ UNCHANGED tidy
       \/ Finish(k) /\ tidy' = FALSE /\ UNCHANGED sess
    BY DEF Send
  <1>3. p[1] \in Sessions /\ sess[p[1]].cfg \in RepoState
    BY <1>1 DEF Slot, Inv, Types
  <1>4. UNCHANGED <<head, saved, open, branch, watch, watcher, crossed, excused, runs>>
    BY DEF Send, git, backend, counts
  <1>5. Target'
    BY <1>4, TargetStays DEF Inv
  <1>6. CASE Finish(k) /\ tidy' = FALSE /\ UNCHANGED sess
    <2>1. Types'
      BY <1>4, <1>6, IdleType DEF Inv, Types, Finish
    <2>2. Unopened' /\ Commands'
      BY <1>4, <1>6, IdleType DEF Inv, Types, Unopened, Commands, Carries, Finish
    <2> QED BY <1>5, <2>1, <2>2 DEF Inv
  <1>7. CASE /\ LET cfg == SetOption(sess[p[1]].cfg, task[k].role, task[k].value) IN
                /\ sess' = [sess EXCEPT ![p[1]].cfg = cfg]
                /\ task' = [task EXCEPT ![k].pc = "answer", ![k].roles = cfg,
                                        ![k].todo = @ \ {p}, ![k].sent = {p[1]}]
             /\ UNCHANGED tidy
    <2> DEFINE cfg == SetOption(sess[p[1]].cfg, task[k].role, task[k].value)
               t   == [task[k] EXCEPT !.pc = "answer", !.roles = cfg,
                                      !.todo = @ \ {p}, !.sent = {p[1]}]
    <2>1. cfg \in RepoState
      BY <1>1, <1>3, SetOptionType
    <2>2. task' = [task EXCEPT ![k] = t] /\ sess' = [sess EXCEPT ![p[1]].cfg = cfg]
      BY <1>7 DEF Inv, Types
    <2> HIDE DEF cfg
    <2>3. t \in Slot /\ t.pc = "answer" /\ t.value = task[k].value
      BY <1>1, <1>3, <2>1 DEF Slot
    <2> HIDE DEF t
    <2>4. \A s \in Sessions : sess'[s].run = sess[s].run
      BY <1>3, <2>2 DEF Inv, Types
    <2>5. sess' \in [Sessions -> [run : Nat, cfg : RepoState, last : RepoState]]
      BY <1>3, <2>1, <2>2 DEF Inv, Types
    <2>6. Types'
      <3>1. task' \in [Tasks -> Slot]
        BY <2>2, <2>3 DEF Inv, Types
      <3>2. UNCHANGED tidy
        BY <1>7
      <3> QED BY <1>4, <2>5, <3>1, <3>2 DEF Inv, Types
    <2>7. \A j \in Tasks : task'[j] = IF j = k THEN t ELSE task[j]
      BY <2>2 DEF Inv, Types
    <2>8. Unopened' /\ Commands'
      BY <1>1, <1>4, <2>3, <2>4, <2>7 DEF Inv, Unopened, Commands, Carries
    <2> QED BY <1>5, <2>6, <2>8 DEF Inv
  <1> QED BY <1>2, <1>6, <1>7

LEMMA AnswerStep ==
  ASSUME Inv, NEW k \in Tasks, Answer(k)
  PROVE  Inv'
  <1>1. PICK s \in task[k].sent :
          /\ task' = [task EXCEPT ![k].pc = "save", ![k].sent = {},
               ![k].moved = {q \in ConfigRoles : sess[s].last[q] # task[k].roles[q]}]
          /\ sess' = IF s \in Live THEN [sess EXCEPT ![s].last = task[k].roles] ELSE sess
    BY DEF Answer
  <1>2. /\ task[k] \in Slot /\ task[k].value \in Values /\ task[k].pc = "answer"
        /\ s \in Sessions /\ task[k].roles \in RepoState
    BY DEF Answer, At, Inv, Types, Commands, Carries, Slot
  <1>3. UNCHANGED <<head, saved, open, branch, watch, watcher, crossed, excused, tidy, runs>>
    BY DEF Answer, git, backend, counts, history
  <1> DEFINE moved == {q \in ConfigRoles : sess[s].last[q] # task[k].roles[q]}
             t     == [task[k] EXCEPT !.pc = "save", !.sent = {}, !.moved = moved]
  <1>4. moved \subseteq ConfigRoles
    OBVIOUS
  <1>5. task' = [task EXCEPT ![k] = t]
    BY <1>1 DEF Inv, Types
  <1> HIDE DEF moved
  <1>6. t \in Slot /\ t.pc = "save" /\ t.value = task[k].value
    BY <1>2, <1>4 DEF Slot
  <1> HIDE DEF t
  <1>7. /\ sess' \in [Sessions -> [run : Nat, cfg : RepoState, last : RepoState]]
        /\ \A x \in Sessions : sess'[x].run = sess[x].run
    BY <1>1, <1>2 DEF Inv, Types
  <1>8. Types'
    BY <1>3, <1>5, <1>6, <1>7 DEF Inv, Types
  <1>9. \A j \in Tasks : task'[j] = IF j = k THEN t ELSE task[j]
    BY <1>5 DEF Inv, Types
  <1>10. Unopened' /\ Commands'
    BY <1>2, <1>3, <1>6, <1>7, <1>9 DEF Inv, Unopened, Commands, Carries
  <1>11. Target'
    BY <1>3, TargetStays DEF Inv
  <1> QED BY <1>8, <1>10, <1>11 DEF Inv

LEMMA SaveStep ==
  ASSUME Inv, NEW k \in Tasks, Save(k)
  PROVE  Inv'
  <1>1. /\ task[k] \in Slot /\ task[k].value \in Values /\ task[k].pc = "save"
        /\ open \in Repos
    BY DEF Save, At, Inv, Types, Commands, Carries, Unopened
  <1>2. UNCHANGED <<head, saved, open, branch, watch, watcher, crossed, excused, tidy, runs, sess>>
    BY DEF Save, git, backend, counts, history
  <1>3. Target'
    BY <1>2, TargetStays DEF Inv
  <1>4. ASSUME NEW t \in Slot, task' = [task EXCEPT ![k] = t],
               t.pc \in {"idle", "send", "write"}, t.pc = "write" => t.root = open,
               t.pc # "idle" => t.value = task[k].value
        PROVE  Inv'
    <2>1. \A j \in Tasks : task'[j] = IF j = k THEN t ELSE task[j]
      BY <1>4 DEF Inv, Types
    <2>2. Types'
      BY <1>2, <1>4 DEF Inv, Types
    <2>3. Unopened' /\ Commands'
      BY <1>1, <1>2, <1>4, <2>1, Constants DEF Inv, Unopened, Commands, Carries
    <2> QED BY <1>3, <2>2, <2>3 DEF Inv
  <1>5. CASE Finish(k)
    BY <1>4, <1>5, IdleType DEF Finish
  <1>6. CASE task' = [task EXCEPT ![k].pc = "send"]
    <2>1. [task[k] EXCEPT !.pc = "send"] \in Slot
      BY <1>1 DEF Slot
    <2>2. task' = [task EXCEPT ![k] = [task[k] EXCEPT !.pc = "send"]]
      BY <1>6
    <2>3. /\ [task[k] EXCEPT !.pc = "send"].pc = "send"
          /\ [task[k] EXCEPT !.pc = "send"].value = task[k].value
      BY <1>1 DEF Slot
    <2> QED BY <1>4, <2>1, <2>2, <2>3
  <1>7. CASE \E stored \in {saved[open]} \cup
               {Unset : j \in {j \in Tasks \ {k} : At(j, "write") /\ task[j].root = open}} :
             task' = [task EXCEPT ![k].pc = "write", ![k].root = open, ![k].stored = stored]
    <2>1. PICK stored \in {saved[open], Unset} :
            task' = [task EXCEPT ![k].pc = "write", ![k].root = open, ![k].stored = stored]
      BY <1>7
    <2>2. stored \in RepoState
      BY <1>1, UnsetType DEF Inv, Types
    <2> DEFINE t == [task[k] EXCEPT !.pc = "write", !.root = open, !.stored = stored]
    <2>3. task' = [task EXCEPT ![k] = t]
      BY <2>1 DEF Inv, Types
    <2>4. t \in Slot /\ t.pc = "write" /\ t.root = open /\ t.value = task[k].value
      BY <1>1, <2>2 DEF Slot
    <2> HIDE DEF t
    <2> QED BY <1>4, <2>3, <2>4
  <1> QED BY <1>5, <1>6, <1>7 DEF Save

LEMMA WriteStep ==
  ASSUME Inv, NEW k \in Tasks, Write(k)
  PROVE  Inv'
  <1> DEFINE q == NextMoved(k)
             new == [task[k].stored EXCEPT ![q] = task[k].roles[q]]
             t == [task[k] EXCEPT !.pc = "save", !.moved = @ \ {q}]
  <1>1. /\ task[k] \in Slot /\ task[k].value \in Values /\ task[k].pc = "write"
        /\ task[k].root \in Repos
    BY DEF Write, At, Inv, Types, Commands, Carries
  <1>2. /\ saved' = [saved EXCEPT ![task[k].root] = new]
        /\ task' = [task EXCEPT ![k] = t]
        /\ UNCHANGED <<head, open, branch, watch, watcher, crossed, excused, tidy, runs, sess>>
    BY DEF Write, backend, history, counts, Inv, Types
  <1>3. q \in ConfigRoles
    BY DEF NextMoved, ConfigRoles
  <1> HIDE DEF q
  <1>4. new \in RepoState
    BY <1>1, <1>3 DEF Slot, RepoState
  <1>5. t \in Slot /\ t.pc = "save" /\ t.value = task[k].value
    BY <1>1, <1>3 DEF Slot
  <1> HIDE DEF new, t
  <1>6. Types'
    BY <1>2, <1>4, <1>5 DEF Inv, Types
  <1>7. \A j \in Tasks : task'[j] = IF j = k THEN t ELSE task[j]
    BY <1>2 DEF Inv, Types
  <1>8. Unopened' /\ Commands'
    BY <1>1, <1>2, <1>5, <1>7 DEF Inv, Unopened, Commands, Carries
  <1>9. Target'
    BY <1>2, TargetStays DEF Inv
  <1> QED BY <1>6, <1>8, <1>9 DEF Inv

-----------------------------------------------------------------------------
(* The recent repositories *)

\* Induction over the naturals, for a set instead of a predicate.
LEMMA NatInd ==
  ASSUME NEW S, 0 \in S, \A n \in Nat : n \in S => n + 1 \in S
  PROVE  Nat \subseteq S
  <1> DEFINE R == OpToRel(<, Nat)
             T == Nat \ S
  <1>1. SUFFICES ASSUME T # {} PROVE FALSE
    OBVIOUS
  <1>2. IsWellFoundedOn(R, Nat)
    BY NatLessThanWellFounded
  <1> HIDE DEF R
  <1>3. T \subseteq Nat
    OBVIOUS
  <1>4. PICK x \in T : \A y \in T : ~(<<y, x>> \in R)
    <2> HIDE DEF T
    <2> QED BY <1>1, <1>2, <1>3, WFMin
  <1>5. \A y \in T : ~(y < x)
    BY <1>4 DEF R, OpToRel
  <1>6. x # 0 /\ x - 1 \in Nat /\ x - 1 < x
    OBVIOUS
  <1> QED BY <1>5, <1>6

\* What `retain' leaves is a list again, and not longer.
LEMMA OthersType ==
  ASSUME NEW S, NEW list \in Seq(S), NEW r
  PROVE  Others(list, r) \in Seq(S) /\ Len(Others(list, r)) <= Len(list)
  <1> DEFINE Next1(g, i) == IF i = 0 THEN <<>>
                          ELSE IF list[i] = r THEN g[i - 1] ELSE Append(g[i - 1], list[i])
             Is(g, n) == g = [i \in 0..n |-> Next1(g, i)]
             E == {n \in Nat : \E g : Is(g, n)}
             kept == CHOOSE g : Is(g, Len(list))
  <1>1. 0 \in E
    <2>1. Is([i \in 0..0 |-> <<>>], 0)
      OBVIOUS
    <2> QED BY <2>1
  <1>2. ASSUME NEW n \in E PROVE n + 1 \in E
    <2>1. PICK g : Is(g, n)
      OBVIOUS
    <2> DEFINE h == [i \in 0..(n + 1) |-> IF i <= n THEN g[i] ELSE Next1(g, i)]
    <2>2. \A i \in 0..(n + 1) : h[i] = Next1(h, i)
      <3> TAKE i \in 0..(n + 1)
      <3>1. CASE i <= n
        <4>1. g[i] = Next1(g, i) /\ h[i] = g[i]
          <5>1. i \in 0..n
            BY <3>1
          <5> HIDE DEF Next1
          <5> QED BY <2>1, <3>1, <5>1
        <4>2. i # 0 => h[i - 1] = g[i - 1]
          BY <3>1
        <4> QED BY <4>1, <4>2
      <3>2. CASE i = n + 1
        <4>1. h[i] = Next1(g, i) /\ h[i - 1] = g[i - 1]
          BY <3>2
        <4> QED BY <4>1
      <3> QED BY <3>1, <3>2
    <2>3. Is(h, n + 1)
      BY <2>2
    <2> HIDE DEF h, Is
    <2>4. \E f : Is(f, n + 1)
      BY <2>3
    <2> QED BY <2>4
  <1>3. Len(list) \in E
    <2> HIDE DEF E
    <2>1. Nat \subseteq E
      BY <1>1, <1>2, NatInd
    <2> QED BY <2>1
  <1>4. Is(kept, Len(list))
    BY <1>3
  <1>5. Others(list, r) = kept[Len(list)]
    BY DEF Others
  <1> HIDE DEF kept
  <1>6. \A i \in 0..Len(list) : kept[i] = Next1(kept, i)
    BY <1>4
  <1> DEFINE T == {n \in Nat : n <= Len(list) => kept[n] \in Seq(S) /\ Len(kept[n]) <= n}
  <1>7. 0 \in T
    <2>1. kept[0] = <<>>
      BY <1>6
    <2>2. kept[0] \in Seq(S) /\ Len(kept[0]) <= 0
      BY <2>1
    <2> QED BY <2>2
  <1>8. ASSUME NEW n \in T PROVE n + 1 \in T
    <2> SUFFICES ASSUME n + 1 <= Len(list)
                 PROVE  kept[n + 1] \in Seq(S) /\ Len(kept[n + 1]) <= n + 1
      OBVIOUS
    <2>1. kept[n] \in Seq(S) /\ Len(kept[n]) <= n
      OBVIOUS
    <2>2. kept[n + 1] = IF list[n + 1] = r THEN kept[n] ELSE Append(kept[n], list[n + 1])
      BY <1>6
    <2>3. list[n + 1] \in S
      OBVIOUS
    <2> QED BY <2>1, <2>2, <2>3
  <1>9. Len(list) \in T
    <2> HIDE DEF T
    <2>1. Nat \subseteq T
      BY <1>7, <1>8, NatInd
    <2> QED BY <2>1
  <1> QED BY <1>5, <1>9

\* The list stays capped, whatever it was before.
LEMMA RecordOpenType ==
  ASSUME NEW list \in Seq(Repos), NEW r \in Repos
  PROVE  RecordOpen(list, r) \in Seq(Repos) /\ Len(RecordOpen(list, r)) <= MaxRecent
  <1> DEFINE all == <<r>> \o Others(list, r)
             m   == IF Len(all) < MaxRecent THEN Len(all) ELSE MaxRecent
  <1>1. MaxRecent \in Nat
    BY RepositoryAssumption
  <1>2. all \in Seq(Repos)
    BY OthersType
  <1> HIDE DEF all
  <1>3. m \in 0..Len(all) /\ m <= MaxRecent
    BY <1>1, <1>2
  <1> HIDE DEF m
  <1>4. SubSeq(all, 1, m) \in Seq(Repos) /\ Len(SubSeq(all, 1, m)) = m
    BY <1>2, <1>3, SubSeqProperties
  <1> QED BY <1>3, <1>4 DEF RecordOpen, all, m

\* What TypeOK says beside Types.
Listed == recent \in Seq(Repos) /\ Len(recent) <= MaxRecent /\ {ops, moves} \subseteq Nat

LEMMA ListedStep ==
  ASSUME Inv, Listed, [Next]_vars
  PROVE  Listed'
  <1>1. CASE \E k \in Tasks : SavePrefs(k)
    <2>1. PICK k \in Tasks : SavePrefs(k)
      BY <1>1
    <2>2. task[k].root \in Repos /\ recent' = RecordOpen(recent, task[k].root)
      BY <2>1 DEF SavePrefs, At, Inv, Commands, Carries
    <2>3. UNCHANGED counts
      BY <2>1 DEF SavePrefs
    <2> QED BY <2>2, <2>3, RecordOpenType DEF Listed, counts
  <1>2. CASE ~\E k \in Tasks : SavePrefs(k)
    <2>1. UNCHANGED recent
      BY <1>2 DEF Next, Step, Follow, vars, BeginRefresh, ReadBranch, SetBranch, BeginOpen, Adopt,
         Watch, MoveHead, Notice, Debounced, OnBranch, BeginSpawn, Insert, Load, BeginPick, Send,
         Answer, Save, Write
    <2>2. ops' \in {ops, ops + 1} /\ moves' \in {moves, moves + 1}
      BY <1>2 DEF Next, Step, Follow, vars, BeginRefresh, ReadBranch, SetBranch, BeginOpen, Adopt,
         Watch, MoveHead, Notice, Debounced, OnBranch, BeginSpawn, Insert, Load, BeginPick, Send,
         Answer, Save, Write, Begin, counts
    <2> QED BY <2>1, <2>2 DEF Listed
  <1> QED BY <1>1, <1>2

-----------------------------------------------------------------------------
(* Sessions and what is saved *)

\* Options an agent can stand at: a model, with an effort of its own if it has any.
Fits(c) ==
  /\ c["model"] # NoValue
  /\ \/ c["effort"] \in Offered[c["model"]]
     \/ c["effort"] = NoValue /\ Offered[c["model"]] = {}

\* What may be saved while choices do not overlap, and what a session started
\* with it runs with.
Saves(x) == x = Unset \/ Fits(x)
Means(x) == IF x = Unset THEN Fresh ELSE x
Runs(s, x) == sess[s].cfg = Means(x) /\ sess[s].last = x
Settled == \A s \in Live : Runs(s, saved[open])

Picks(k)    == task[k].pc \in {"send", "answer", "save", "write"}
Waits(k, s) == <<s, sess[s].run>> \in task[k].todo
Saving(k)   == task[k].pc \in {"save", "write"}
Begun(k)    == \E s \in Live : ~Waits(k, s)

\* A choice that turns what is saved from old to new: the sessions it has
\* reached run with new, the others with old, and saved follows role by role.
Turns(k, old, new) ==
  /\ Saves(old) /\ new = SetOption(Means(old), task[k].role, task[k].value)
  /\ Live # {} /\ (Begun(k) => Fits(new))
  /\ task[k].todo \subseteq {<<s, sess[s].run>> : s \in Live}
  /\ \A s \in Live : IF Waits(k, s) THEN Runs(s, old)
                     ELSE /\ sess[s].cfg = new
                          /\ sess[s].last = IF s \in task[k].sent THEN old ELSE new
  /\ task[k].pc = "send" =>
       task[k].sent = {} /\ saved[open] = IF Begun(k) THEN new ELSE old
  /\ task[k].pc = "answer" =>
       /\ task[k].roles = new /\ saved[open] \in {old, new}
       /\ \E s \in Live : task[k].sent = {s} /\ ~Waits(k, s)
  /\ Saving(k) =>
       /\ task[k].roles = new /\ task[k].sent = {} /\ Begun(k)
       /\ \A q \in ConfigRoles \ task[k].moved : saved[open][q] = new[q]
  /\ task[k].pc = "write" => task[k].root = open /\ task[k].stored = saved[open]

\* What a command that meddles has made of sessions and saved options so far.
Stage(k) ==
  /\ task[k].pc \in {"open", "watch", "prefs"} => Live = {}
  /\ task[k].pc = "spawn" =>
       task[k].root = open /\ task[k].stored = saved[open] /\ Settled
  /\ Picks(k) => \E old, new \in RepoState : Turns(k, old, new)

AllSaved  == \A r \in Repos : Saves(saved[r]) \/ (r = open /\ \E k \in Tasks : Saving(k))

Alike == tidy =>
  /\ \A j, k \in Tasks : Meddles(j) /\ Meddles(k) => j = k
  /\ \A k \in Tasks : Meddles(k) => Stage(k)
  /\ (\A k \in Tasks : ~Meddles(k)) => Settled
  /\ AllSaved

LEMMA RoleNames == ConfigRoles = {"model", "effort"} /\ "model" # "effort"
  BY DEF ConfigRoles

\* An option that an agent takes leaves it at options of its model.
LEMMA FitsAfter ==
  ASSUME NEW c \in RepoState, NEW q \in ConfigRoles, NEW v \in Values, Takes(c, q, v)
  PROVE  Fits(SetOption(c, q, v))
  <1>1. CASE q = "model"
    <2>1. v # NoValue /\ Offered[v] \subseteq Values
      BY Constants, RepositoryAssumption
    <2>2. SetOption(c, q, v)["model"] = v
      BY <1>1 DEF SetOption, RepoState, ConfigRoles
    <2>3. SetOption(c, q, v)["effort"] = IF c["effort"] \in Offered[v] THEN c["effort"]
                                         ELSE Fallback(v)
      BY <1>1 DEF SetOption, RepoState, ConfigRoles
    <2>4. Fallback(v) \in Offered[v] \/ (Fallback(v) = NoValue /\ Offered[v] = {})
      BY DEF Fallback
    <2> QED BY <2>1, <2>2, <2>3, <2>4 DEF Fits
  <1>2. CASE q = "effort"
    <2>1. c["model"] \in Values /\ v \in Offered[c["model"]]
      BY <1>2 DEF Takes
    <2>2. SetOption(c, q, v) = [c EXCEPT !["effort"] = v]
      BY <1>2 DEF SetOption
    <2>3. SetOption(c, q, v)["model"] = c["model"] /\ SetOption(c, q, v)["effort"] = v
      BY <2>2 DEF RepoState, ConfigRoles
    <2>4. c["model"] # NoValue
      BY <2>1, RepositoryAssumption
    <2> QED BY <2>1, <2>3, <2>4 DEF Fits
  <1> QED BY <1>1, <1>2 DEF ConfigRoles

LEMMA FreshFits == Fresh \in RepoState /\ Fits(Fresh)
  <1>1. Takes(Unset, "model", First)
    BY DEF Takes
  <1> QED BY <1>1, FitsAfter, SetOptionType, UnsetType, Constants DEF Fresh, ConfigRoles

LEMMA MeansType ==
  ASSUME NEW x \in RepoState
  PROVE  /\ Means(x) \in RepoState
         /\ Saves(x) => Fits(Means(x))
         /\ Fits(x) => Means(x) = x
  <1>1. ~Fits(Unset)
    BY DEF Fits, Unset, ConfigRoles
  <1> QED BY <1>1, FreshFits DEF Means, Saves

\* Two sets of options are the same if they agree role by role.
LEMMA SameOptions ==
  ASSUME NEW a \in RepoState, NEW b \in RepoState, \A q \in ConfigRoles : a[q] = b[q]
  PROVE  a = b
  BY DEF RepoState

\* A session that is started runs with what is saved.
LEMMA AppliedMeans ==
  ASSUME NEW x \in RepoState, Saves(x)
  PROVE  /\ Applied(x) = Means(x)
         /\ [q \in ConfigRoles |-> IF Applied(x)[q] = x[q] THEN x[q] ELSE NoValue] = x
  <1> DEFINE L(c) == [q \in ConfigRoles |-> IF c[q] = x[q] THEN x[q] ELSE NoValue]
  <1>1. CASE x = Unset
    <2>1. \A q \in ConfigRoles : x[q] = NoValue
      BY <1>1 DEF Unset
    <2>2. Applied(x) = Fresh
      BY <2>1 DEF Applied, Reapply, ConfigRoles
    <2>3. L(Fresh) \in RepoState
      BY DEF RepoState
    <2>4. \A q \in ConfigRoles : L(Fresh)[q] = x[q]
      BY <2>1
    <2>5. L(Fresh) = x
      <3> HIDE DEF L
      <3> QED BY <2>3, <2>4, SameOptions
    <2> QED BY <1>1, <2>2, <2>5 DEF Means
  <1>2. CASE Fits(x)
    <2> DEFINE m == x["model"]
               a == SetOption(Fresh, "model", m)
    <2>1. m \in Values /\ x["effort"] \in Values \cup {NoValue} /\ NoValue \notin Values
      BY <1>2, RepositoryAssumption DEF Fits, RepoState, ConfigRoles
    <2>2. Offered[m] \subseteq Values
      BY <2>1, Constants
    <2>3. Takes(Fresh, "model", m)
      BY DEF Takes
    <2>4. Reapply(Fresh, x, "model") = a
      BY <2>1, <2>3 DEF Reapply
    <2>5. a \in RepoState /\ a["model"] = m
      <3>1. a \in RepoState
        BY <2>1, FreshFits, SetOptionType DEF ConfigRoles
      <3> QED BY <2>1, <3>1, FreshFits DEF SetOption, RepoState, ConfigRoles
    <2>6. Applied(x) = Reapply(a, x, "effort")
      BY <2>4 DEF Applied
    <2>7. ASSUME x["effort"] # NoValue PROVE Applied(x) = x
      <3>1. x["effort"] \in Offered[m]
        BY <1>2, <2>7 DEF Fits
      <3>2. Takes(a, "effort", x["effort"])
        BY <2>1, <2>5, <3>1 DEF Takes
      <3> HIDE DEF a
      <3>3. Applied(x) = [a EXCEPT !["effort"] = x["effort"]]
        BY <2>6, <2>7, <3>2 DEF Reapply, SetOption
      <3>4. Applied(x) \in RepoState
        BY AppliedType
      <3>5. \A q \in ConfigRoles : Applied(x)[q] = x[q]
        BY <2>5, <3>3 DEF RepoState, ConfigRoles
      <3> QED BY <3>4, <3>5, SameOptions
    <2>8. ASSUME x["effort"] = NoValue PROVE Applied(x) = x
      <3>1. Offered[m] = {}
        BY <1>2, <2>1, <2>2, <2>8 DEF Fits
      <3>2. Fallback(m) = NoValue
        BY <3>1 DEF Fallback
      <3>3. a["effort"] = NoValue
        BY <3>1, <3>2, FreshFits DEF SetOption, RepoState, ConfigRoles
      <3> HIDE DEF a
      <3>4. Applied(x) = a
        BY <2>6, <2>8 DEF Reapply
      <3>5. \A q \in ConfigRoles : a[q] = x[q]
        BY <2>5, <2>8, <3>3 DEF ConfigRoles
      <3> QED BY <2>5, <3>4, <3>5, SameOptions
    <2>9. Applied(x) = x
      BY <2>7, <2>8
    <2>10. L(x) = x
      <3>1. L(x) \in RepoState /\ \A q \in ConfigRoles : L(x)[q] = x[q]
        BY DEF RepoState
      <3> HIDE DEF L
      <3> QED BY <3>1, SameOptions
    <2> QED BY <1>2, <2>9, <2>10, MeansType
  <1> QED BY <1>1, <1>2 DEF Saves

LEMMA InitAlike == Init => Alike
  BY DEF Init, Alike, Meddles, Idle, Settled, AllSaved, Saves, Live, Off

\* A step that changes neither options nor a command that meddles with them.
LEMMA AlikeStays ==
  ASSUME Alike, tidy' => tidy, UNCHANGED <<saved, open, sess>>,
         \A j \in Tasks : /\ Meddles(j)' <=> Meddles(j)
                          /\ Meddles(j) => task'[j] = task[j]
  PROVE  Alike'
  <1> SUFFICES ASSUME tidy' PROVE Alike'
    BY DEF Alike
  <1>1. UNCHANGED Live
    BY DEF Live
  <1>2. \A j \in Tasks : Meddles(j) => task'[j] = task[j] /\ (Stage(j) => Stage(j)')
    BY <1>1 DEF Stage, Settled, Runs, Picks, Turns, Begun, Waits, Saving
  <1>3. Settled => Settled'
    BY <1>1 DEF Settled, Runs
  <1>4. \A j \in Tasks : Saving(j) => Saving(j)'
    BY DEF Saving, Meddles
  <1>5. AllSaved => AllSaved'
    BY <1>4 DEF AllSaved
  <1> QED BY <1>2, <1>3, <1>5 DEF Alike

\* A step of the only command that meddles.
LEMMA AlikeMoves ==
  ASSUME NEW k \in Tasks, \A j \in Tasks \ {k} : ~Meddles(j) /\ task'[j] = task[j],
         tidy' => /\ Meddles(k)' => Stage(k)'
                  /\ ~Meddles(k)' => Settled'
                  /\ AllSaved'
  PROVE  Alike'
  <1>1. \A j \in Tasks \ {k} : ~Meddles(j)'
    BY DEF Meddles
  <1> QED BY <1>1 DEF Alike

\* What a command finds that is alone with the options.
LEMMA AlikeAlone ==
  ASSUME Alike, tidy, NEW k \in Tasks, \A j \in Tasks \ {k} : ~Meddles(j)
  PROVE  /\ ~Meddles(k) => Settled
         /\ ~Saving(k) => \A r \in Repos : Saves(saved[r])
  <1>1. \A j \in Tasks : Saving(j) => Meddles(j)
    BY DEF Saving, Meddles
  <1> QED BY <1>1 DEF Alike, AllSaved

LEMMA AlikeOne ==
  ASSUME Alike, tidy, NEW k \in Tasks, Meddles(k)
  PROVE  Stage(k) /\ \A j \in Tasks \ {k} : ~Meddles(j)
  BY DEF Alike

LEMMA AlikeRefresh ==
  ASSUME Inv, Alike, NEW k \in Tasks, BeginRefresh(k) \/ ReadBranch(k) \/ SetBranch(k)
  PROVE  Alike'
  <1>1. /\ tidy' = tidy /\ UNCHANGED <<saved, open, sess>>
        /\ \A j \in Tasks \ {k} : task'[j] = task[j]
    BY DEF BeginRefresh, ReadBranch, SetBranch, Begin, Finish, git, backend, history, Inv, Types
  <1>2. task[k].pc \in {"idle", "read", "set"} /\ task'[k].pc \in {"idle", "read", "set"}
    <2>1. CASE BeginRefresh(k)
      BY <2>1, IdleType DEF BeginRefresh, Begin, At, Inv, Types, Slot
    <2>2. CASE ReadBranch(k)
      BY <2>2 DEF ReadBranch, At, Inv, Types, Slot
    <2>3. CASE SetBranch(k)
      BY <2>3, IdleType DEF SetBranch, Finish, At, Inv, Types
    <2> QED BY <2>1, <2>2, <2>3
  <1> QED BY <1>1, <1>2, AlikeStays DEF Meddles

LEMMA AlikeWatchers ==
  ASSUME Alike,
         \/ \E r \in Repos, name \in Branches : MoveHead(r, name)
         \/ \E w \in Watchers : Follow(w)
         \/ UNCHANGED vars
  PROVE  Alike'
  <1>1. UNCHANGED <<tidy, saved, open, sess, task>>
    BY DEF MoveHead, Follow, Notice, Debounced, OnBranch, vars, git, backend, history
  <1> QED BY <1>1, AlikeStays DEF Meddles

LEMMA AlikeOpen ==
  ASSUME Inv, Alike, NEW k \in Tasks,
         (\E r \in Repos : BeginOpen(k, r)) \/ Adopt(k) \/ Watch(k) \/ SavePrefs(k)
  PROVE  Alike'
  <1>1. CASE \E r \in Repos : BeginOpen(k, r)
    <2>1. PICK r \in Repos : BeginOpen(k, r)
      BY <1>1
    <2>2. /\ task'[k].pc = "open" /\ \A j \in Tasks \ {k} : task'[j] = task[j]
          /\ UNCHANGED <<saved, open>> /\ ~Saving(k)
          /\ tidy' = (tidy /\ Alone(k))
      BY <2>1 DEF BeginOpen, Begin, git, backend, Idle, Inv, Types, At, Saving
    <2>3. Live' = {}
      BY <2>1 DEF BeginOpen, Live, Off
    <2>4. CASE ~tidy'
      BY <2>4 DEF Alike
    <2>5. CASE tidy'
      <3>1. tidy /\ \A j \in Tasks \ {k} : ~Meddles(j)
        BY <2>2, <2>5 DEF Alone
      <3>2. AllSaved'
        BY <2>2, <3>1, AlikeAlone DEF AllSaved
      <3>3. Stage(k)' /\ Meddles(k)'
        BY <2>2, <2>3 DEF Stage, Picks, Meddles
      <3> QED BY <2>2, <3>1, <3>2, <3>3, AlikeMoves
    <2> QED BY <2>4, <2>5
  <1>2. CASE Adopt(k) \/ Watch(k) \/ SavePrefs(k)
    <2>1. /\ task[k].pc \in {"open", "watch", "prefs"}
          /\ task'[k].pc \in {"watch", "prefs", "idle"}
          /\ \A j \in Tasks \ {k} : task'[j] = task[j]
          /\ UNCHANGED <<saved, sess, tidy>> /\ Meddles(k) /\ ~Saving(k)
      BY <1>2 DEF Adopt, Watch, SavePrefs, Finish, At, git, backend, history, Idle, Meddles,
         Saving, Inv, Types, Slot
    <2>2. CASE tidy
      <3>1. Live = {} /\ (\A j \in Tasks \ {k} : ~Meddles(j)) /\ (\A r \in Repos : Saves(saved[r]))
        BY <2>1, <2>2, AlikeOne, AlikeAlone DEF Stage
      <3>2. Live' = {}
        BY <2>1, <3>1 DEF Live
      <3>3. AllSaved' /\ Settled' /\ Stage(k)'
        BY <2>1, <3>1, <3>2 DEF AllSaved, Settled, Stage, Picks
      <3> QED BY <2>1, <3>1, <3>3, AlikeMoves
    <2> QED BY <2>1, <2>2 DEF Alike
  <1> QED BY <1>1, <1>2

LEMMA AlikeBeginSpawn ==
  ASSUME Inv, Alike, NEW k \in Tasks, NEW x \in Sessions, BeginSpawn(k, x)
  PROVE  Alike'
  <1>1. /\ task'[k].pc = "spawn" /\ task'[k].root = open /\ task'[k].stored = saved[open]
        /\ \A j \in Tasks \ {k} : task'[j] = task[j]
        /\ UNCHANGED <<saved, open, sess>> /\ ~Saving(k) /\ ~Meddles(k)
        /\ tidy' = (tidy /\ Alone(k))
    BY DEF BeginSpawn, Begin, git, backend, Idle, Inv, Types, At, Saving, Meddles
  <1>2. CASE ~tidy'
    BY <1>2 DEF Alike
  <1>3. CASE tidy'
    <2>1. tidy /\ \A j \in Tasks \ {k} : ~Meddles(j)
      BY <1>1, <1>3 DEF Alone
    <2>2. Settled /\ \A r \in Repos : Saves(saved[r])
      BY <1>1, <2>1, AlikeAlone
    <2>3. AllSaved' /\ Settled'
      BY <1>1, <2>2 DEF AllSaved, Settled, Live, Runs
    <2>4. Stage(k)' /\ Meddles(k)'
      BY <1>1, <2>3 DEF Stage, Picks, Meddles
    <2> QED BY <1>1, <2>1, <2>3, <2>4, AlikeMoves
  <1> QED BY <1>2, <1>3

LEMMA AlikeInsert ==
  ASSUME Inv, Alike, NEW k \in Tasks, Insert(k)
  PROVE  Alike'
  <1>1. PICK p \in task[k].todo, refused \in SUBSET ConfigRoles :
          LET taken == [q \in ConfigRoles |->
                          IF q \in refused THEN NoValue ELSE task[k].stored[q]]
              cfg   == Applied(taken)
          IN  /\ sess' = [sess EXCEPT ![p[1]] =
                   [run |-> runs + 1, cfg |-> cfg,
                    last |-> [q \in ConfigRoles |->
                                IF cfg[q] = taken[q] THEN taken[q] ELSE NoValue]]]
              /\ tidy' = (tidy /\ refused = {})
    BY DEF Insert
  <1> DEFINE x == task[k].stored
  <1>2. /\ task[k] \in Slot /\ task[k].pc = "spawn" /\ Meddles(k) /\ ~Saving(k)
        /\ x \in RepoState /\ p[1] \in Sessions
    BY DEF Insert, At, Inv, Types, Slot, Meddles, Saving
  <1>3. /\ UNCHANGED saved /\ open' = task[k].root /\ task'[k].pc = "idle"
        /\ \A j \in Tasks \ {k} : task'[j] = task[j]
    BY DEF Insert, git, Finish, Inv, Types, Idle
  <1>4. CASE ~tidy'
    BY <1>4 DEF Alike
  <1>5. CASE tidy'
    <2>1. tidy /\ refused = {}
      BY <1>1, <1>5
    <2>2. /\ \A j \in Tasks \ {k} : ~Meddles(j)
          /\ task[k].root = open /\ x = saved[open] /\ Settled
          /\ \A r \in Repos : Saves(saved[r])
      BY <1>2, <2>1, AlikeOne, AlikeAlone DEF Stage
    <2>3. Saves(x)
      <3>1. task[k].root \in Repos
        BY <1>2 DEF Inv, Commands, Carries
      <3> QED BY <2>2, <3>1
    <2>4. [q \in ConfigRoles |-> IF q \in refused THEN NoValue ELSE task[k].stored[q]] = x
      BY <1>2, <2>1 DEF RepoState
    <2> HIDE DEF x
    <2>5. sess' = [sess EXCEPT ![p[1]] = [run |-> runs + 1, cfg |-> Means(x), last |-> x]]
      BY <1>1, <1>2, <2>3, <2>4, AppliedMeans
    <2>6. Settled'
      BY <1>3, <2>2, <2>5 DEF Settled, Live, Runs, Inv, Types
    <2>7. AllSaved'
      BY <1>3, <2>2 DEF AllSaved
    <2> QED BY <1>3, <2>2, <2>6, <2>7, AlikeMoves DEF Meddles
  <1> QED BY <1>4, <1>5

LEMMA AlikeBeginPick ==
  ASSUME Inv, Alike, NEW k \in Tasks, NEW q \in ConfigRoles, NEW v \in Values, BeginPick(k, q, v)
  PROVE  Alike'
  <1> DEFINE todo == {<<s, sess[s].run>> : s \in Live}
             t    == [Idle EXCEPT !.pc = "send", !.role = q, !.value = v, !.todo = todo]
  <1>1. /\ task' = [task EXCEPT ![k] = t] /\ Live # {}
        /\ UNCHANGED <<saved, open, sess>> /\ ~Saving(k) /\ ~Meddles(k)
        /\ tidy' = (tidy /\ Alone(k))
    BY DEF BeginPick, Begin, git, backend, Inv, Types, At, Saving, Meddles
  <1>2. t.pc = "send" /\ t.role = q /\ t.value = v /\ t.todo = todo /\ t.sent = {}
    BY DEF Idle
  <1> HIDE DEF t
  <1>3. /\ task'[k].pc = "send" /\ task'[k].role = q /\ task'[k].value = v
        /\ task'[k].todo = todo /\ task'[k].sent = {}
        /\ \A j \in Tasks \ {k} : task'[j] = task[j]
    BY <1>1, <1>2 DEF Inv, Types
  <1>4. CASE ~tidy'
    BY <1>4 DEF Alike
  <1>5. CASE tidy'
    <2>1. tidy /\ \A j \in Tasks \ {k} : ~Meddles(j)
      BY <1>1, <1>5 DEF Alone
    <2>2. Settled /\ \A r \in Repos : Saves(saved[r])
      BY <1>1, <2>1, AlikeAlone
    <2>3. open \in Repos
      BY <1>1 DEF Inv, Types, Unopened, Live
    <2>4. PICK old \in RepoState : old = saved[open] /\ Saves(old)
      BY <2>2, <2>3 DEF Inv, Types
    <2>5. PICK new \in RepoState : new = SetOption(Means(old), q, v)
      BY <2>4, MeansType, SetOptionType
    <2>6. UNCHANGED Live /\ \A s \in Live : Waits(k, s)'
      BY <1>1, <1>3 DEF Live, Waits
    <2>7. ~Begun(k)'
      BY <2>6 DEF Begun
    <2>8. \A s \in Live : Runs(s, old)'
      BY <1>1, <2>2, <2>4 DEF Settled, Runs
    <2>9. Turns(k, old, new)'
      <3>1. new = SetOption(Means(old), task'[k].role, task'[k].value)
        BY <1>3, <2>5
      <3>2. task'[k].todo \subseteq {<<s, sess'[s].run>> : s \in Live'}
        BY <1>1, <1>3, <2>6
      <3> QED BY <1>1, <1>3, <2>4, <2>6, <2>7, <2>8, <3>1, <3>2 DEF Turns, Saving
    <2>10. Stage(k)' /\ Meddles(k)'
      BY <1>3, <2>4, <2>5, <2>9 DEF Stage, Picks, Meddles
    <2>11. AllSaved'
      BY <1>1, <2>2 DEF AllSaved
    <2> QED BY <1>3, <2>1, <2>10, <2>11, AlikeMoves
  <1> QED BY <1>4, <1>5

LEMMA AlikeSend ==
  ASSUME Inv, Alike, NEW k \in Tasks, Send(k)
  PROVE  Alike'
  <1>1. /\ task[k] \in Slot /\ task[k].pc = "send" /\ Meddles(k) /\ ~Saving(k) /\ Picks(k)
        /\ task[k].role \in ConfigRoles /\ task[k].value \in Values
        /\ UNCHANGED <<saved, open>>
    BY DEF Send, At, Inv, Types, Slot, Commands, Carries, Meddles, Saving, Picks, git, backend
  <1>2. CASE ~tidy'
    BY <1>2 DEF Alike
  <1>3. CASE tidy'
    <2>1. PICK p \in task[k].todo :
            /\ sess[p[1]].run = p[2] /\ Takes(sess[p[1]].cfg, task[k].role, task[k].value)
            /\ LET cfg == SetOption(sess[p[1]].cfg, task[k].role, task[k].value) IN
               /\ sess' = [sess EXCEPT ![p[1]].cfg = cfg]
               /\ task' = [task EXCEPT ![k].pc = "answer", ![k].roles = cfg,
                                       ![k].todo = @ \ {p}, ![k].sent = {p[1]}]
            /\ UNCHANGED tidy
      BY <1>3 DEF Send
    <2>2. tidy /\ Stage(k) /\ \A j \in Tasks \ {k} : ~Meddles(j)
      BY <1>1, <1>3, <2>1, AlikeOne
    <2>3. PICK old \in RepoState, new \in RepoState : Turns(k, old, new)
      BY <1>1, <2>2 DEF Stage
    <2> DEFINE x == p[1]
    <2>4. x \in Live /\ x \in Sessions /\ p = <<x, sess[x].run>> /\ Waits(k, x)
      BY <2>1, <2>3 DEF Turns, Saving, Live, Waits
    <2> HIDE DEF x
    <2>5. sess[x].cfg = Means(old) /\ sess[x].last = old
      BY <2>3, <2>4 DEF Turns, Saving, Runs
    <2>6. /\ sess' = [sess EXCEPT ![x].cfg = new]
          /\ task' = [task EXCEPT ![k].pc = "answer", ![k].roles = new,
                                  ![k].todo = @ \ {p}, ![k].sent = {x}]
          /\ Takes(Means(old), task[k].role, task[k].value)
          /\ new = SetOption(Means(old), task[k].role, task[k].value)
      BY <2>1, <2>3, <2>5 DEF Turns, Saving, x
    <2>7. Fits(new)
      BY <1>1, <2>6, MeansType, FitsAfter
    <2>8. /\ UNCHANGED Live /\ \A s \in Sessions : sess'[s].run = sess[s].run /\ sess'[s].last = sess[s].last
          /\ \A s \in Sessions \ {x} : sess'[s] = sess[s]
          /\ sess'[x].cfg = new
      BY <2>4, <2>6 DEF Live, Inv, Types
    <2>9. /\ task'[k].pc = "answer" /\ task'[k].roles = new /\ task'[k].sent = {x}
          /\ task'[k].todo = task[k].todo \ {p}
          /\ task'[k].role = task[k].role /\ task'[k].value = task[k].value
          /\ \A j \in Tasks \ {k} : task'[j] = task[j]
      BY <1>1, <2>6 DEF Inv, Types, Slot
    <2>10. \A s \in Live : Waits(k, s)' <=> (Waits(k, s) /\ s # x)
      BY <2>4, <2>8, <2>9 DEF Waits, Live
    <2>11. Turns(k, old, new)'
      <3>1. task'[k].todo \subseteq {<<s, sess'[s].run>> : s \in Live'}
        BY <2>3, <2>8, <2>9 DEF Turns, Saving, Live
      <3>2. \A s \in Live : IF Waits(k, s)' THEN Runs(s, old)'
                            ELSE /\ sess'[s].cfg = new
                                 /\ sess'[s].last = IF s \in {x} THEN old ELSE new
        <4> TAKE s \in Live
        <4>1. CASE s = x
          BY <2>4, <2>5, <2>8, <2>10, <4>1
        <4>2. CASE s # x
          BY <1>1, <2>3, <2>8, <2>10, <4>2 DEF Turns, Saving, Runs, Live
        <4> QED BY <4>1, <4>2
      <3>3. saved[open] \in {old, new}
        BY <1>1, <2>3 DEF Turns, Saving
      <3> QED BY <1>1, <2>3, <2>4, <2>6, <2>7, <2>8, <2>9, <2>10, <3>1, <3>2, <3>3 DEF Turns, Saving
    <2>12. Stage(k)' /\ Meddles(k)'
      BY <2>9, <2>11 DEF Stage, Picks, Meddles
    <2>13. AllSaved'
      BY <1>1, <2>2, AlikeAlone DEF AllSaved
    <2> QED BY <2>2, <2>9, <2>12, <2>13, AlikeMoves
  <1> QED BY <1>2, <1>3

LEMMA AlikeAnswer ==
  ASSUME Inv, Alike, NEW k \in Tasks, Answer(k)
  PROVE  Alike'
  <1>1. PICK x \in task[k].sent :
          /\ task' = [task EXCEPT ![k].pc = "save", ![k].sent = {},
               ![k].moved = {q \in ConfigRoles : sess[x].last[q] # task[k].roles[q]}]
          /\ sess' = IF x \in Live THEN [sess EXCEPT ![x].last = task[k].roles] ELSE sess
    BY DEF Answer
  <1>2. /\ task[k] \in Slot /\ task[k].pc = "answer" /\ Meddles(k) /\ ~Saving(k) /\ Picks(k)
        /\ UNCHANGED <<saved, open, tidy>> /\ x \in Sessions
    BY DEF Answer, At, Inv, Types, Slot, Meddles, Saving, Picks, git, backend, history
  <1>3. CASE ~tidy
    BY <1>2, <1>3 DEF Alike
  <1>4. CASE tidy
    <2>1. Stage(k) /\ \A j \in Tasks \ {k} : ~Meddles(j)
      BY <1>2, <1>4, AlikeOne
    <2>2. PICK old \in RepoState, new \in RepoState : Turns(k, old, new)
      BY <1>2, <2>1 DEF Stage
    <2>3. /\ x \in Live /\ task[k].sent = {x} /\ ~Waits(k, x) /\ task[k].roles = new
          /\ sess[x].last = old /\ saved[open] \in {old, new}
      BY <1>2, <2>2 DEF Turns, Saving
    <2>4. /\ UNCHANGED Live /\ \A s \in Sessions : sess'[s].run = sess[s].run /\ sess'[s].cfg = sess[s].cfg
          /\ \A s \in Sessions \ {x} : sess'[s] = sess[s]
          /\ sess'[x].last = new
      BY <1>1, <1>2, <2>3 DEF Live, Inv, Types
    <2>5. /\ task'[k].pc = "save" /\ task'[k].sent = {} /\ task'[k].todo = task[k].todo
          /\ task'[k].roles = new
          /\ task'[k].moved = {q \in ConfigRoles : old[q] # new[q]}
          /\ task'[k].role = task[k].role /\ task'[k].value = task[k].value
          /\ \A j \in Tasks \ {k} : task'[j] = task[j]
      BY <1>1, <1>2, <2>3 DEF Inv, Types, Slot
    <2>6. \A s \in Live : Waits(k, s)' <=> Waits(k, s)
      BY <2>4, <2>5 DEF Waits, Live
    <2>7. Begun(k)' /\ Fits(new)
      BY <2>2, <2>3, <2>4, <2>6 DEF Begun, Turns
    <2>8. Turns(k, old, new)'
      <3>1. task'[k].todo \subseteq {<<s, sess'[s].run>> : s \in Live'}
        BY <2>2, <2>4, <2>5 DEF Turns, Saving, Live
      <3>2. \A s \in Live : IF Waits(k, s)' THEN Runs(s, old)'
                            ELSE sess'[s].cfg = new /\ sess'[s].last = new
        BY <2>2, <2>3, <2>4, <2>6 DEF Turns, Saving, Runs, Live
      <3>3. \A q \in ConfigRoles \ task'[k].moved : saved[open][q] = new[q]
        BY <2>3, <2>5
      <3> QED BY <1>2, <2>2, <2>4, <2>5, <2>6, <2>7, <3>1, <3>2, <3>3 DEF Turns, Saving
    <2>9. Stage(k)' /\ Meddles(k)'
      BY <2>5, <2>8 DEF Stage, Picks, Meddles
    <2>10. AllSaved'
      BY <1>2, <1>4, <2>1, AlikeAlone DEF AllSaved
    <2> QED BY <2>1, <2>5, <2>9, <2>10, AlikeMoves
  <1> QED BY <1>3, <1>4

LEMMA AlikeSave ==
  ASSUME Inv, Alike, NEW k \in Tasks, Save(k)
  PROVE  Alike'
  <1>1. /\ task[k] \in Slot /\ task[k].pc = "save" /\ Meddles(k) /\ Picks(k)
        /\ UNCHANGED <<saved, open, sess, tidy>> /\ open \in Repos /\ saved[open] \in RepoState
    BY DEF Save, At, Inv, Types, Slot, Meddles, Picks, git, backend, history, Unopened
  <1>2. UNCHANGED Live
    BY <1>1 DEF Live
  <1>3. CASE ~tidy
    BY <1>1, <1>3 DEF Alike
  <1>4. CASE tidy
    <2>1. Stage(k) /\ \A j \in Tasks \ {k} : ~Meddles(j)
      BY <1>1, <1>4, AlikeOne
    <2>2. PICK old \in RepoState, new \in RepoState : Turns(k, old, new)
      BY <1>1, <2>1 DEF Stage
    <2>3. /\ Begun(k) /\ Fits(new) /\ task[k].sent = {} /\ task[k].roles = new
          /\ \A q \in ConfigRoles \ task[k].moved : saved[open][q] = new[q]
      BY <1>1, <2>2 DEF Turns, Saving
    <2>4. \A r \in Repos \ {open} : Saves(saved[r])
      BY <1>4 DEF Alike, AllSaved
    <2>5. CASE task[k].moved = {} /\ task[k].todo = {}
      <3>1. saved[open] = new
        BY <1>1, <2>3, <2>5, SameOptions
      <3>2. task'[k].pc = "idle" /\ \A j \in Tasks \ {k} : task'[j] = task[j]
        BY <2>5 DEF Save, Finish, Idle, Inv, Types
      <3>3. \A s \in Live : Runs(s, new)
        BY <2>2, <2>3, <2>5, MeansType DEF Turns, Saving, Runs, Waits
      <3>4. Settled' /\ AllSaved'
        BY <1>1, <1>2, <2>3, <2>4, <3>1, <3>3 DEF Settled, Runs, AllSaved, Saves
      <3> QED BY <2>1, <3>2, <3>4, AlikeMoves DEF Meddles
    <2>6. CASE task[k].moved = {} /\ task[k].todo # {}
      <3>1. saved[open] = new
        BY <1>1, <2>3, <2>6, SameOptions
      <3>2. /\ task' = [task EXCEPT ![k].pc = "send"]
            /\ \A j \in Tasks \ {k} : task'[j] = task[j]
        BY <2>6 DEF Save, Inv, Types
      <3>3. /\ task'[k].pc = "send" /\ task'[k].sent = {} /\ task'[k].todo = task[k].todo
            /\ task'[k].role = task[k].role /\ task'[k].value = task[k].value
        BY <1>1, <2>3, <3>2 DEF Inv, Types, Slot
      <3>4. \A s \in Live : Waits(k, s)' <=> Waits(k, s)
        BY <1>1, <3>3 DEF Waits
      <3>5. Begun(k)'
        BY <1>2, <2>3, <3>4 DEF Begun
      <3>6. Turns(k, old, new)'
        BY <1>1, <1>2, <2>2, <2>3, <3>1, <3>3, <3>4, <3>5 DEF Turns, Saving, Runs
      <3>7. Stage(k)' /\ Meddles(k)'
        BY <3>3, <3>6 DEF Stage, Picks, Meddles
      <3>8. AllSaved'
        BY <1>1, <2>3, <2>4, <3>1 DEF AllSaved, Saves
      <3> QED BY <2>1, <3>2, <3>7, <3>8, AlikeMoves
    <2>7. CASE task[k].moved # {}
      <3>1. PICK stored \in {saved[open]} \cup
              {Unset : j \in {j \in Tasks \ {k} : At(j, "write") /\ task[j].root = open}} :
              task' = [task EXCEPT ![k].pc = "write", ![k].root = open, ![k].stored = stored]
        BY <2>7 DEF Save
      <3>2. stored = saved[open]
        BY <2>1, <3>1 DEF At, Meddles
      <3>3. /\ task'[k].pc = "write" /\ task'[k].sent = {} /\ task'[k].todo = task[k].todo
            /\ task'[k].role = task[k].role /\ task'[k].value = task[k].value
            /\ task'[k].roles = new /\ task'[k].moved = task[k].moved
            /\ task'[k].root = open /\ task'[k].stored = saved[open]
            /\ \A j \in Tasks \ {k} : task'[j] = task[j]
        BY <1>1, <2>3, <3>1, <3>2 DEF Inv, Types, Slot
      <3>4. \A s \in Live : Waits(k, s)' <=> Waits(k, s)
        BY <1>1, <3>3 DEF Waits
      <3>5. Begun(k)'
        BY <1>2, <2>3, <3>4 DEF Begun
      <3>6. Turns(k, old, new)'
        BY <1>1, <1>2, <2>2, <2>3, <3>3, <3>4, <3>5 DEF Turns, Saving, Runs
      <3>7. Stage(k)' /\ Meddles(k)'
        BY <3>3, <3>6 DEF Stage, Picks, Meddles
      <3>8. AllSaved'
        BY <1>1, <2>4, <3>3 DEF AllSaved, Saving
      <3> QED BY <2>1, <3>3, <3>7, <3>8, AlikeMoves
    <2> QED BY <2>5, <2>6, <2>7
  <1> QED BY <1>3, <1>4

LEMMA AlikeWrite ==
  ASSUME Inv, Alike, NEW k \in Tasks, Write(k)
  PROVE  Alike'
  <1> DEFINE n == NextMoved(k)
  <1>1. /\ task[k] \in Slot /\ task[k].pc = "write" /\ Meddles(k) /\ Picks(k)
        /\ UNCHANGED <<open, sess, tidy>>
        /\ saved' = [saved EXCEPT ![task[k].root] =
                       [task[k].stored EXCEPT ![n] = task[k].roles[n]]]
        /\ task' = [task EXCEPT ![k].pc = "save", ![k].moved = @ \ {n}]
        /\ open \in Repos /\ n \in ConfigRoles
    BY DEF Write, At, Inv, Types, Slot, Meddles, Picks, backend, history, Unopened, NextMoved,
       ConfigRoles
  <1> HIDE DEF n
  <1>2. UNCHANGED Live
    BY <1>1 DEF Live
  <1>3. CASE ~tidy
    BY <1>1, <1>3 DEF Alike
  <1>4. CASE tidy
    <2>1. Stage(k) /\ \A j \in Tasks \ {k} : ~Meddles(j)
      BY <1>1, <1>4, AlikeOne
    <2>2. PICK old \in RepoState, new \in RepoState : Turns(k, old, new)
      BY <1>1, <2>1 DEF Stage
    <2>3. /\ Begun(k) /\ Fits(new) /\ task[k].sent = {} /\ task[k].roles = new
          /\ \A q \in ConfigRoles \ task[k].moved : saved[open][q] = new[q]
          /\ task[k].root = open /\ task[k].stored = saved[open]
      BY <1>1, <2>2 DEF Turns, Saving
    <2>4. /\ saved' = [saved EXCEPT ![open] = [saved[open] EXCEPT ![n] = new[n]]]
          /\ saved[open] \in RepoState
      BY <1>1, <2>3 DEF Inv, Types
    <2>5. /\ saved'[open][n] = new[n]
          /\ \A q \in ConfigRoles \ {n} : saved'[open][q] = saved[open][q]
          /\ \A r \in Repos \ {open} : saved'[r] = saved[r]
      BY <1>1, <2>4 DEF Inv, Types, RepoState
    <2>6. /\ task'[k].pc = "save" /\ task'[k].sent = {} /\ task'[k].todo = task[k].todo
          /\ task'[k].role = task[k].role /\ task'[k].value = task[k].value
          /\ task'[k].roles = new /\ task'[k].moved = task[k].moved \ {n}
          /\ \A j \in Tasks \ {k} : task'[j] = task[j]
      BY <1>1, <2>3 DEF Inv, Types, Slot
    <2>7. \A s \in Live : Waits(k, s)' <=> Waits(k, s)
      BY <1>1, <2>6 DEF Waits
    <2>8. Begun(k)'
      BY <1>2, <2>3, <2>7 DEF Begun
    <2>9. \A q \in ConfigRoles \ task'[k].moved : saved'[open'][q] = new[q]
      BY <1>1, <2>3, <2>5, <2>6
    <2>10. Turns(k, old, new)'
      <3>1. UNCHANGED <<sess, Live>>
        BY <1>1, <1>2
      <3>2. \A s \in Live : IF Waits(k, s) THEN Runs(s, old)
                            ELSE sess[s].cfg = new /\ sess[s].last = new
        BY <2>2, <2>3 DEF Turns, Saving
      <3> QED BY <2>2, <2>3, <2>6, <2>7, <2>8, <2>9, <3>1, <3>2 DEF Turns, Saving, Runs
    <2>11. Stage(k)' /\ Meddles(k)'
      BY <2>6, <2>10 DEF Stage, Picks, Meddles
    <2>12. AllSaved'
      BY <1>1, <1>4, <2>5, <2>6 DEF AllSaved, Saving, Alike
    <2> QED BY <2>1, <2>6, <2>11, <2>12, AlikeMoves
  <1> QED BY <1>3, <1>4

LEMMA AlikeStep ==
  ASSUME Inv, Alike, [Next]_vars
  PROVE  Alike'
  <1>1. CASE \E s \in Sessions : Load(s)
    BY <1>1 DEF Load, Alike
  <1>2. CASE Next /\ ~\E s \in Sessions : Load(s)
    BY <1>2, AlikeRefresh, AlikeWatchers, AlikeOpen, AlikeBeginSpawn, AlikeInsert,
       AlikeBeginPick, AlikeSend, AlikeAnswer, AlikeSave, AlikeWrite DEF Next, Step
  <1> QED BY <1>1, <1>2, AlikeWatchers

-----------------------------------------------------------------------------
(* Theorems *)

LEMMA InvStep ==
  ASSUME Inv, [Next]_vars
  PROVE  Inv'
  <1>1. CASE UNCHANGED vars
    <2>1. UNCHANGED <<head, saved, open, branch, watch, watcher, sess, task, crossed, excused,
                      tidy, runs>>
      BY <1>1 DEF vars, git, backend, history, counts
    <2>2. Types'
      BY <2>1 DEF Inv, Types
    <2>3. Unopened' /\ Commands'
      BY <2>1 DEF Inv, Unopened, Commands, Carries
    <2> QED BY <2>1, <2>2, <2>3, TargetStays DEF Inv
  <1>2. CASE Next
    BY <1>2, BeginRefreshStep, ReadBranchStep, SetBranchStep, BeginOpenStep, AdoptStep, WatchStep,
       SavePrefsStep, MoveHeadStep, NoticeStep, DebouncedStep, OnBranchStep, BeginSpawnStep,
       InsertStep, LoadStep, BeginPickStep, SendStep, AnswerStep, SaveStep, WriteStep
       DEF Next, Step, Follow
  <1> QED BY <1>1, <1>2

\* The invariant holds always.
THEOREM RepositoryInvariant == Spec => []Inv
  <1>1. Inv /\ [Next]_vars => Inv'
    BY InvStep
  <1> QED BY InitInv, <1>1, PTL DEF Spec

\* The landing target is a branch of the repository that is open, whichever
\* opens, spawns and late watchers write it; only a refresh that met an open
\* (agent.rs, refresh_branch) mixes them.
THEOREM TargetIsOwn == Spec => []TargetIsOfRepo
  <1>1. Inv => TargetIsOfRepo
    BY DEF Inv, Target
  <1> QED BY RepositoryInvariant, <1>1, PTL

\* The landing target is what HEAD names or the watcher (branch_watch.rs) is
\* about to correct it, but for the exceptions that `excused' records.
THEOREM TargetIsFollowed == Spec => []TargetFollowsHead
  <1>1. Inv => TargetFollowsHead
    BY DEF Inv, Target
  <1> QED BY RepositoryInvariant, <1>1, PTL

\* Every part of the state keeps its type, the watcher in use was started, and
\* the list that record_open (prefs.rs) writes stays capped.
THEOREM TypesHold == Spec => []TypeOK
  <1>1. Init => Listed
    BY RepositoryAssumption DEF Init, Listed
  <1>2. Inv /\ Listed /\ [Next]_vars => Listed'
    BY ListedStep
  <1>3. Inv /\ Listed => TypeOK
    BY DEF Inv, Types, Listed, TypeOK, Branch, Watched, Slot
  <1> QED BY RepositoryInvariant, <1>1, <1>2, <1>3, PTL DEF Spec

\* While choices, opens and spawns do not overlap and nothing fails, what
\* set_global_config_option (agent.rs) sends and persist_config_roles saves,
\* session by session and role by role, leaves every live session at the model
\* and effort that are saved for the repository.
THEOREM ChoicesReachAll == Spec => []SessionsAgree
  <1>1. Alike => SessionsAgree
    <2> SUFFICES ASSUME Alike, tidy, \A k \in Tasks : ~Meddles(k),
                        NEW s \in Live, NEW q \in ConfigRoles, saved[open][q] # NoValue
                 PROVE  sess[s].cfg[q] = saved[open][q]
      BY DEF SessionsAgree
    <2>1. Runs(s, saved[open])
      BY DEF Alike, Settled
    <2>2. saved[open] # Unset
      BY DEF Unset
    <2> QED BY <2>1, <2>2 DEF Runs, Means
  <1>2. Inv /\ Alike /\ [Next]_vars => Alike'
    BY AlikeStep
  <1> QED BY InitAlike, RepositoryInvariant, <1>1, <1>2, PTL DEF Spec
=============================================================================
