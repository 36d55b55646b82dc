# samokod in TLA+

samokod is a Tauri application: a Rust backend that drives coding agents over
a git repository, and a React frontend. The unit of work is a *plan*: a
directory under `.samokod/` that moves through `scoping/`, `executing/`,
`evergreening/`, `landing/` to `completed/` or `cancelled/`, with one agent
session per active phase and one git worktree and branch from approval until
it is landed. This directory models the concurrent core of both halves, checks it
with TLC and proves what matters most with TLAPS.

## The system

| part | state | operations | hard behaviour |
|---|---|---|---|
| plan automation (`agent/advance.rs`) | none of its own; a pump keeps the transitions it fired | `spawn_pump`, `pump`, `next_action`, `transition` | pumps on their own threads and commands interleave inside `transition`, which holds no lock across file, git and agent steps |
| plan commands (`agent.rs`) | `State` behind one mutex: live sessions, current, repository, branch, sets of claims | open, execute, begin/finish landing, cancel, set mode, set evergreen, create, select, set branch | the guard is read once, the effects follow without the lock |
| landing queue (`agent/landing_queue.rs`) | the directories of `landing/` and their arrival stamps | position, head, held | rename before stamp, millisecond ties |
| plan directories (`plans.rs`) | the directories and their `state.json` | the moves, flags, arrival stamps | rename and stamp apart, unlocked read-modify-write |
| worktrees (`worktrees.rs`, `git.rs`) | worktrees, branches | create, probes, fast-forward, remove | steps of one finish fail separately; crashes between them |
| sessions (`agent/session.rs`) | the map of live sessions | spawn, ensure live, load history, drop | overwriting entries, writing back stale repository fields |
| single-flight starts (`agent/start.rs`, `agent/warm.rs`) | `warming`, `history_loading`, `history_loaded` | claims, guards, waits with timeouts | two loads of one session, waits that time out, claims cleared under an owner |
| turns (`agent/turns.rs`) | `working` per session | send, start, cancel, completion, notifications | an answer that arrives after its turn was cancelled |
| scoping drafts (`agent.rs`, `agent/plans_list.rs`, `agent/session_ids.rs`) | reserved names and their titles, `current`, `prompted`, `state.json` | create, select, abandon, first prompt, carry title and flag | commands overlap between lock sections; `state.json` is read and written without a lock |
| permissions (`agent/permissions.rs`) | the senders of a session's entry, the approval flag, the cards | request, answer, cancel, drop, replay | each handler runs step by step while its entry is cancelled, dropped or replaced |
| todos (`agent/turns.rs`, `agent/session.rs`) | the list in the entry and the one on screen | update, reset, replay | a replay into an entry that already holds the list |
| session ids (`agent/session_ids.rs`), `state.json` (`plans.rs`) | ids, costs, flags, stamps of one plan | record, recover, set, rename | unlocked read-modify-writes, a truncated file, a directory that moves under a writer |
| repository and landing target (`agent.rs`, `agent/branch_watch.rs`) | root, branch, watcher | open, refresh, watch, write back | values read before an await and stored after another open |
| agent config and preferences (`agent/config.rs`, `prefs.rs`) | the roles saved per repository, the options of each session, recent repositories | pick, reapply, persist | a choice sent to one session after the other, any of which may fail |
| updates (`updates.rs`) | none that another part reads | | |
| agent process (`opencode.rs`, `acp.rs`) | a child process and its protocol | | external: only the answers matter |
| frontend (`src/src`) | React state: sessions, queued prompts, drafts | reducers over backend events | events and answers are handled against the queue as last rendered |

The backend's parts share `State` (one mutex, taken for short sections) and the
file system; they call each other directly. Work that outlives a command runs
in detached tasks (turns, warm starts) and threads (pumps). A turn that ends
well, a branch move, opening a repository and changing a plan's mode pump the
automation.

What makes each part correct, and where that is stated:

* automation: no commit is lost with its branch, a completed plan was landed and
  cleaned up, plans only move forward, every automatic plan completes
  (`PlanFlow`, `PlanLifecycle`);
* queue: one agent at the head; who waits keeps its place and newcomers come behind
  it (`LandingQueue`, `PlanFlow`);
* sessions and starts: each claim has one owner, a key reads working only while
  a turn will clear it, nobody waits for ever on somebody else (`SessionStart`);
* scoping drafts: plans do not drop out of the list, titles survive the way from
  memory to disk (`ScopingDrafts`);
* records: writes of `state.json` that do not overlap preserve each other, a late
  write brings no directory back, a recovered id is of the role's own agent
  (`SessionRecords`);
* repository: the landing target is a branch of the open repository and comes to
  rest on its HEAD, sessions run with the saved options (`Repository`);
* cards: what an agent waits for can be answered, an answer reaches the request
  it was given for, nothing is refused on the user's behalf, the list on screen
  is the one the row counts, leaving a session ends (`SessionCards`);
* prompts: none is lost between queue and backend, none is sent while it is
  edited, they go out in the queue's order and a deleted one never, a busy session
  gets no second one (`PromptQueue`, `PromptDelivery`).

## Modules

Each variable is commented with the field it stands for; PROJECT.json maps every
definition to its lines.

* `LandingQueue`: the order of `landing/` and the visiting order of a pump
  pass, as operators over `phase` and `stamp`.
* `PlanFlow` (extends it): the automation core. `task[k]` is a pump thread or a
  command task; its `pc` names the step of `transition` it stands at. Every step
  between two file, git, lock or agent operations is an action (`Redirect`,
  `Guard`, `Status`, `FastForward`, `RemoveWorktree`, `DeleteBranch`, `Rename`,
  `Stamp`, `Create`, `Drop`, `Spawn`, `StartTurn`), so any two tasks interleave
  wherever the code lets them. `phase`, `entered`, `manual`, `evergreen`,
  `started` are the directories and their `state.json`; `worktree`, `branch`,
  `dirty`, `base`, `tip`, `merged`, `target` abstract git: a branch is
  fast-forwardable iff its `base` is the current `target`. `live` is the
  session map, `turns` the prompts the agent process has not answered, `due`
  the pumps asked for. Crash forgets the memory and keeps disk and git.
  Agents, the user's own edits and commits on the target are external actions.
  Plan names are naturals, commits a counter, a session is absent, idle or
  working; a step that cannot be probed counts as dirty.
* `PlanLifecycle`: what the automation promises, without tasks and steps.
  `PlanFlow!LifecycleSpec` is the refinement; the mapping is the identity on
  `phase` and `branch`, and tasks, sessions, stamps and the rest of git are hidden.
* `SessionStart`: one session key. A task is a call (warm start, history load,
  prompt, retry, the eager spawn of a transition); it runs to the next lock
  section, file access, wait or agent request in one action. `warming`,
  `loading`, `loaded` are the claim sets of `State` for this key, `task[k].warm`
  and `.hist` the guards a call holds, `entry` the key's `LiveSession`, `conns`
  and `closed` the agent processes, `sids` and `delivered` the conversations and
  whether they heard their role. The plan's place (`here`, `queued`, `gone`,
  `finished`) moves under the calls. Left out: the modes and models a new
  session pins.
* `ScopingDrafts`: the plans of `scoping/`. A command sits in a slot of `Calls`
  and runs lock section by lock section: `Create`/`CreateNew`, `Select`/
  `SelectKey`, `Cancel`..`Pin`, `Send`..`StartTurn`, `SetMode`, with `Load` and
  `Store` for every read-modify-write of `state.json`. `pending` is
  `pending_scoping`, `dirs`, `file`, `md` the disk, `live`, `asked`, `working`
  the sessions by what `is_empty_scoping` and the commands ask of them. A name
  is a second with a counter. Plans of later phases are one value, `Other`. Left
  out: headings, slugs and the order in which directories arrived; keeping a
  draft writes its file inside the lock section; a prompt is the only one of its
  plan on the way, as the frontend queues the next one.
* `PromptQueue`: one session end to end: the frontend's queue (`items`,
  `editing`), the session flags of `store.ts` (`chat`), what React last rendered
  (`shown`), the commands it awaits (`calls`), the backend's turn, card and
  replay, and the events in between. Events and answers may be handled before
  the next render; what the user does is flushed at once. Left out: several
  cards of one session, a transport that dies under an open card; the two start
  phases (preparing, replaying) are one flag.
* `PromptDelivery`: what that queue promises, without renders, events and
  commands under way: which prompts wait, which were handed to the backend and in
  which order, which were withdrawn. `PromptQueue!DeliverySpec` is the refinement,
  with `items` for what waits, `sent` for what was handed over and `deleted` for
  what was withdrawn. The abstract queue may hand over the latest prompt again,
  which is what a drain from a queue not yet rendered does; it may not hand over
  an older one, skip the head, reorder by itself or bring back a deleted prompt.
* `SessionRecords`: one plan's `state.json`. `files` holds, for every phase the
  plan may reach, no directory, no file, an empty one, garbage, or a state. A
  thread runs `locate` (find the directory), `load`, `recover` (the CLI's list
  of sessions), `store` (truncate) and `fill` as separate steps, once for each
  field it has to set, while commands rename the directory and other threads do
  the same. `want` is what was written last to a field, `raced` the fields for
  which a race decided. A loader that meets the truncated file takes the
  default; a shorter text over a longer one leaves a tail (`garbage`).
  `listed` is what OpenCode lists, other plans' sessions included. Left out: the
  evergreen flag and the working title, which are written the same way.
* `Repository`: the open repository (`open`, `branch`), its watcher, the
  preferences (`saved`, `recent`) and the options of the live sessions (`sess`).
  A command is `refresh_branch`, `open_repo`, a spawn or
  `set_global_config_option` and stops wherever the code leaves the lock: a
  value read before is stored after. `MoveHead` is git outside; the watcher's
  thread sleeps and reads HEAD on its own. The agent's answer to an option is
  external: a model keeps the effort or falls back, an effort it does not offer
  is refused. `crossed`, `excused` and `tidy` remember which of the listed
  exceptions has happened.
* `SessionCards`: permission cards and todo lists from the agent's request to
  the screen. `live` is the map of entries with the `pending` senders by tool
  call, `conns` the connections, `start` the spawn or load under way, `turn` the
  prompts not answered, `drop` a `session/close` that waits, `asks` one handler
  per request with its step (`routed`, `admitted`, `held`, `flagged`, `waiting`,
  `decided`, `answered`), `chat` what `store.ts` shows. `Serial` says that a
  connection's loop waits in its handler, as the code's dispatch does. `blame`,
  `hidden`, `met`, `unsaid`, `left`, `reread` are history for the properties.
* `*_proofs`: the theorems of a module. `MC*`: what TLC needs beside it.

Actions and operators commented "Mutant" are wrong variants of the one they
precede; no specification uses them. They show that a property depends on the
line they break.

## Runs and bounds

Every bound is a constant in the guard of one action, and `MaxEvents`, in the
guards of all events from outside, bounds them together. Deadlock checking is
off everywhere: with the bounds used up, as in the idle application, nothing is
left to do.

| run | instance | shows |
|---|---|---|
| `flow` | 1 plan from any active phase, 2 tasks, 2 events (commands, edits, moves of the target, a restart), every kind of step may fail | `NoWorkLost`, `CompletedIsRetired`, the refinement of `PlanLifecycle` and, of `QueueKeepsOrder`, that no late stamp moves a waiting plan, when pumps and commands race step by step with agents and a moving target (4.8 million states) |
| `live` | 2 plans that contend for the queue, one with agents that do their job and one with agents that may not | `AutomationDrains`: the first completes; `PumpsSettle`: every pump comes to rest; `QueueKeepsOrder` with one plan arriving behind the other |
| `agents` | 2 plans, one enters `landing/` while the other's agent runs | two landing agents, against a comment of `advance.rs` |
| `claims` | 2 calls at once, of all five kinds; an agent that may never answer; a death, a cancel, a move or a reopen | `ClaimsOwned`, `WorkingHasTurn`, `OnlyOwnRequestsHang` |
| `stale` | 2 prompts and a cancel | a key reads idle while its turn runs, against a comment of `agent.rs` |
| `role` | 2 prompts and a process death | a conversation without its role, against a comment of `session.rs` |
| `prompts` | 3 prompts, all failures, 2 of the rarer events | `NothingLost`, `EditedStays` and the refinement of `PromptDelivery` |
| `stop` | 3 prompts, one STOP | a busy session drains, against a comment of `select.ts` |
| `drafts` | 2 commands at once, 3 in all, 2 seconds with 2 names each, one restart or reopen | `PlansStay`, `TitlesSurvive` |
| `records` | 2 threads, 4 operations, 2 roles, 3 phases, 5 sessions of which 3 are foreign, one restart | `OnePlace`, `OnlyRacesLose`, `IdsBelong` |
| `repository` | 2 repositories, 2 commands at once, 2 sessions, 2 models and efforts, 4 commands and HEAD moves together, git, watchers and sends may fail; starts with a repository open and its choices saved | `TargetIsOfRepo`, `TargetFollowsHead`, `SessionsAgree`, `TargetCatchesUp` |
| `cards` | 1 key, 1 tool call, 2 processes, 2 requests, 2 todo payloads, 2 turns, 5 of these together | `CardsAnswerable`, `OwnAnswer`, `NoStrayCancel`, `TodosShown`, `DropsFinish` |

Why these are enough: two tasks give every race of a pair, and tasks of
`PlanFlow` meet only in a plan's own directory, branch and sessions, so one plan
does for its safety; the queue's order needs two. `flow` has the commands and
late stamps and `live` the second plan; with both at once, two plans, two
commands, a restart and failing spawns but no turns, `QueueKeepsOrder` held too
(1.1 million states), and its theorem covers any number of plans and tasks. The
clock is assumed never to go back. Two events let one command
meet another, or meet a crash or a moved target, on top of what pumps, agents
and faults do by themselves. In `SessionStart` two calls meet step by step and
one event comes between; with three calls in all the same properties held.
Three prompts are one being sent, one at the head and one behind it. In
`ScopingDrafts` a plan can be reserved, prompted and left with three commands;
the same properties also held with four (3.6 million states) and, within one
second, five commands (18.9 million). In `SessionRecords` four operations are
the two that create a plan and its session, a rename and one more writer.
`Repository` needs two repositories for a value to cross, and two models, one of
which offers a single effort, for a fallback. In `SessionCards` two requests of
one tool call, over two processes, are the case in which a sender, a card or an
answer can be mistaken; other keys share nothing with it.

Fairness. `PlanFlow!Fairness`: tasks and threads are scheduled and their calls
return (weak fairness of `TaskStep`); an agent at work tidies, rebases and ends
its turn. Users, faults and crashes owe nothing. `Diligent` is the set of plans
whose agents end a turn well only with their job done; in `live` the other plan's
agents do as they like. `SessionStart!Fairness` is weaker still: only a call's
own steps and timers are fair (`OwnStep`), the agent's answers are not, so what
hangs is seen to hang in its own request. `Repository!Fairness`: commands and
watcher threads run on; git and users owe nothing. `SessionCards!Fairness`: the
runtime runs every handler on, and an agent answers `session/close` once its
connection's loop is free; users never have to answer a card.

## Where the code goes another way than its comments

The violation runs above; PROJECT.json quotes each line. Steps that the code
does not exclude and no property covers are hazards there, with a note. The
ones a reader should know of:

* a turn may start after `ensure_idle` and run while its plan moves; a cancelled
  plan may keep an agent that a transition spawned late;
* two pumps may both start the landing agent; the second spawn overwrites the
  entry of the first one's turn;
* a warm start may open a conversation beside a history replay, as it looks and
  claims in two lock sections; a replay may begin after a prompt looked for one;
* a repository opened again clears claims whose guards still live
  (`ClaimsOwned` therefore speaks of the time until then);
* the answer of `answer_permission` or `retry_last` may come after its turn ended
  and leaves the session busy;
* a plan left while its first prompt is on the way vanishes under the prompt;
* `set_plan_mode` may write back a `state.json` without the prompted flag (such
  plans are `torn` in `ScopingDrafts` and excepted);
* `select_if_viewed` may undo a selection made between its two lock sections;
* a name given up and reserved again within one second stands for two plans
  (`reused`, excepted);
* `refresh_branch` and `open_repo` fall back to the name "HEAD" when git does not
  answer, though a comment (`agent.rs:374`) says that failures keep the last value;
* a spawn writes back the root and the branch it read before its agent started,
  and neither announces the branch nor pumps (`excused`, `crossed`);
* a choice made while a repository is opened is saved for the one that is open by
  the time the agents have answered; sessions that were loaded keep their own
  options, and a choice equal to what the last answer said is not saved;
* `set_global_config_option` ends at the first session that is gone or refuses:
  the ones before it have the choice, the ones behind it do not;
* `resolve` may take another plan's scoping session for its own: both run the
  scoping agent at the root, and the newest wins (`session_ids.rs:197`);
* the approval flag is one per entry and any handler that returns lowers it
  (`permissions.rs:165`), while another request of the key may still wait; the
  second of two requests of one tool call takes the first one's sender (`met`);
* a card raised between the end of a replay and the event that says so is shown
  as answered (`store.ts:226`), and one that is open while a failed load is tried
  again is wiped from the screen (`hidden`); a card whose agent died stays enabled;
* a replayed todo list equal to the one the entry holds is not sent again, though
  the screen was reset (`turns.rs:602`; `unsaid`);
* the plans list is computed and sent in two steps, so an older one may arrive
  last (`plans_list.rs:57`).

## Proofs

TLAPS proves, for every value of the constants, from the named assumptions of
each module:

| module | theorem | property |
|---|---|---|
| `PlanFlow_proofs` | `TypesHold`, `WorkIsSafe`, `CompletedIsClean`, `ImplementsLifecycle`, `QueueIsFair` | `TypeOK`, `NoWorkLost`, `CompletedIsRetired`, `LifecycleSpec`, `QueueKeepsOrder` |
| `SessionStart_proofs` | `TypesHold`, `WorkingIsBacked`, `ClaimsAreOwned` | `TypeOK`, `WorkingHasTurn`, `ClaimsOwned` |
| `PromptQueue_proofs` | `TypesHold`, `PromptsAreKept`, `EditedPromptsStay`, `ImplementsDelivery` | `TypeOK`, `NothingLost`, `EditedStays`, `DeliverySpec` |
| `ScopingDrafts_proofs` | `TypesHold`, `PlansAreKept`, `TitlesAreKept` | `TypeOK`, `PlansStay`, `TitlesSurvive` |
| `SessionRecords_proofs` | `RecordsTyped`, `PlanInOnePlace`, `IdsAreOfTheirRole`, `NothingElseLoses` | `TypeOK`, `OnePlace`, `IdsBelong`, `OnlyRacesLose` |
| `SessionCards_proofs` | `TypesHold`, `CardsCanBeAnswered`, `DecisionsReachTheirOwn`, `NothingIsRefused`, `TodosAreShown` | `TypeOK`, `CardsAnswerable`, `OwnAnswer`, `NoStrayCancel`, `TodosShown` |
| `Repository_proofs` | `TypesHold`, `TargetIsOwn`, `TargetIsFollowed`, `ChoicesReachAll` | `TypeOK`, `TargetIsOfRepo`, `TargetFollowsHead`, `SessionsAgree` |

* `PlanFlow`: neither safety invariant is inductive. A task about to delete a
  branch must have merged it, one about to move a finished plan must have retired
  it, and that must survive all other tasks. `Route` says so per step of a
  transition (`RouteAct` for the task, `Secured` for its plan), with two facts
  about git (`CheckoutHasBranch`, `CompletedIsGone`); it is inductive
  (`RouteInit`, `RouteStep`) and implies the rest. The refinement is proved step
  by step under `Route`; that a plan whose branch was never cut goes nowhere but
  to cancelled is the gate's look at the branch, kept from `Status` to `Rename`.
  The queue's order needs in addition that no stamp is later than the clock
  (`StampsPast`): only moves, stamps and restarts touch the queue (`QueueStill`
  for all else); a move takes a plan out or makes it `Arriving`, and a stamp that
  finds its plan elsewhere leaves it alone. A restart is excepted for the plan
  it leaves between rename and stamp, which keeps the stamp of its earlier phase.
* `SessionStart`: `Claimed` ties the guards a call holds to the step where it
  stands, `Moved` says how a claim may change with its guard; every action is
  shown to be an `Effect`, and from that alone the claims stay owned. A reopen
  only ends what is claimed, as `count.reopens` never falls (`ReopensCount`).
* `PromptQueue`: `Inv` adds to `NothingLost` that a stale rendering holds only
  prompts that were typed and the current edit. The refinement needs two more
  invariants: `Apart`, no prompt is in two places or twice in the queue; and
  `Rendered`, the screen shows the queue, or the queue behind the prompt that has
  just gone, which is not in the editor. A drain that reads the screen therefore
  takes the head or the latest prompt again (`DrainDelivers`). What the actions
  do to a sequence (`CutOut`, `Append`, a swap) is proved in lemmas of its own.
* `ScopingDrafts`: `NameInv` holds of each name by itself. A plan that is still
  reserved, or is just getting its directory, is empty, and no command holds a
  copy of its `state.json` that says otherwise (`UpcomingIsEmpty`); so a
  conversation on record is never mistaken for an empty plan (`SaidIsKept`). Each
  step is shown to leave a name as it must (`Kept`) and to proceed where it may
  (`Proceeds`), or to leave a plan (`Leaves`). For titles, `Bears` says what each
  command knows: while one carries a title, the plan has it nowhere else, and the
  copy it read on disk still tells whether the file has a title of its own.
* `SessionRecords`: `OnlyRacesLose` follows from what is true of a writer between
  its load and its text: a copy that nothing has outdated (`~stale`) equals the
  file, field by field, wherever the plan has moved in the meantime, and a
  truncation outdates every other copy. With `OnePlace`, which holds as no write
  creates a directory, and with what a recovered id must be (`Belongs`), this is
  inductive (`RecordsInvariant`).
* `SessionCards`: what an entry registers under a tool call is a request of that
  call without a decision (`Holds`), a handler without one has its sender there
  (`Registered`), and an enabled card belongs to a request that has reached the
  screen and is not over (`Belongs`). Two handlers at work for one key are in
  `met` (`Together`), which is what lets the proof follow one handler at a time.
  For the list, `Listed` says what each step of a start leaves on screen. None of
  it depends on `Serial`.
* `Repository`: what a watcher has found is what HEAD names, or it is due to hear
  of more (`Fresher`), and a command carries from one lock section to the next a
  root, and a branch of that root unless a refresh met an open (`Carries`); before
  the first open only opens are under way (`Unopened`). The run starts with a
  repository open, as the program with one on record does; the theorems start
  from `Init`, where none is. For the options, `Alike` says more than
  `SessionsAgree`, as long as no choice met another command (`tidy`): at most
  one command is about to change options, and between commands every live session
  runs with what is saved. While a choice is under way (`Turns`), there are an old
  and a new set of options; sessions it has reached run with the new, the others
  with the old, and what is saved goes from old to new role by role. `Fits` are
  the options an agent can stand at and `Means` what a saved value starts a
  session with; that agents with equal options answer a choice alike
  (`AppliedMeans`) is why the sessions agree at the end. The list of recent
  repositories is filtered by a recursive function; `OthersType` bounds it by
  induction over its length, with an induction principle (`NatInd`) proved for a
  set from the well-foundedness of the naturals, as one for an operator is out
  of the provers' reach.

Only model-checked: the liveness properties (`AutomationDrains`, `PumpsSettle`,
`OnlyOwnRequestsHang`, `TargetCatchesUp`, `DropsFinish`), as fairness and ENABLED
are out of the prover's reach, and the violations, which are single behaviours.
Every invariant, action property and refinement that a passing run checks has a
theorem. No module uses RECURSIVE operators.

## Not modelled, and what comes next

PROJECT.json gives a reason per component. In order:

1. the pushes of the plans list (its rows, and which of two arrives last) and the
   frontend's starts and drafts (`start.ts`, `drafts.ts`), composed with
   `ScopingDrafts`;
2. pure algorithms as operators against a reference: `diff_todos`, the estimate
   of a plan's remaining time, `unique_name`, moves in the queue, the decision of
   the plan view;
3. proofs: an abstract specification of permission cards that `SessionCards`
   refines; that the pump visits every plan once and in the queue's order
   (`LandingQueue`).

Never: the agent's protocol (`acp.rs`, `opencode.rs`), updates, formatting,
rendering; they keep no state that another part depends on, or are pure I/O.
