---------------------------- MODULE SessionStart ----------------------------
(***************************************************************************)
(* How one session key gets a live agent process: warm starts, history     *)
(* replays, prompts, retries and the eager start of a transition, with     *)
(* their single-flight claims (agent/start.rs, warm.rs, session.rs) and    *)
(* the turns they start (turns.rs).  Every call is a task; it runs to the  *)
(* next lock section, file access, wait or agent request in one action.    *)
(***************************************************************************)
EXTENDS Integers, FiniteSets

CONSTANTS
  Tasks,       \* calls in flight at once
  Kinds,       \* the calls issued: "warm", "load", "prompt", "retry", "eager"
  Places,      \* where the plan may be at first: "here", "queued", "gone", "finished"
  Faults,      \* agent requests that may fail: "start", "session", "load"
  MaxCalls,    \* bound: calls issued
  MaxConns,    \* bound: agent processes started
  MaxDeaths,   \* bound: agent processes that die
  MaxCancels,  \* bound: turns cancelled
  MaxMoves,    \* bound: moves of the plan
  MaxReopens,  \* bound: times a repository is opened again
  MaxEvents    \* bound: deaths, cancels, moves and reopens together

ASSUME SessionStartAssumption ==
  /\ Kinds \subseteq {"warm", "load", "prompt", "retry", "eager"}
  /\ Places \subseteq {"here", "queued", "gone", "finished"}
  /\ {MaxCalls, MaxConns, MaxDeaths, MaxCancels, MaxMoves, MaxReopens,
      MaxEvents} \subseteq Nat

VARIABLES
  place,       \* the plan's directory: in the role's phase (and queued), or elsewhere
  saved,       \* the session id in state.json, 0 for none
  warming,     \* the key is in State.warming
  loading,     \* the key is in State.history_loading
  loaded,      \* the key is in State.history_loaded
  entry,       \* the key's LiveSession
  conns,       \* processes started so far; they are 1..conns
  closed,      \* those whose transport is closed
  sids,        \* conversations opened so far; they are 1..sids
  delivered,   \* conversations that were told their role
  turns,       \* prompts without an answer
  task,        \* the calls
  count        \* how often each bounded event happened

claims == <<warming, loading, loaded>>
procs  == <<conns, closed, sids>>
vars   == <<place, saved, claims, entry, procs, delivered, turns, task, count>>

Absent == [there |-> FALSE, conn |-> 0, sid |-> 0, working |-> FALSE,
           prefixed |-> FALSE, last |-> "none"]

NoCall == [pc |-> "idle", kind |-> "warm", warm |-> FALSE, hist |-> FALSE,
           conn |-> 0, sid |-> 0, prefixed |-> FALSE, text |-> "plain"]

Live      == entry.conn # 0 /\ entry.sid # 0 /\ entry.conn \notin closed
Started   == loading \/ loaded
ThereDir  == place \in {"here", "queued"}

At(k, step)   == task[k].pc = step
Become(k, t)  == task' = [task EXCEPT ![k] = t]
Goto(k, step) == Become(k, [task[k] EXCEPT !.pc = step])
Count(event)  == count' = [count EXCEPT ![event] = @ + 1]

\* Whether the bound leaves room for another event from outside.
Quiet == count.deaths + count.cancels + count.moves + count.reopens < MaxEvents

\* A call returns: its guards drop, which releases what they claimed.
Return(k) ==
  /\ Become(k, NoCall)
  /\ warming' = (warming /\ ~task[k].warm)
  /\ loading' = (loading /\ ~task[k].hist)
  /\ UNCHANGED loaded

\* A call returns after its replay: the history guard is finished.
Finish(k) ==
  /\ Become(k, NoCall)
  /\ warming' = (warming /\ ~task[k].warm)
  /\ loading' = FALSE
  /\ loaded' = TRUE

-----------------------------------------------------------------------------
(* Calls *)

FirstStep(kind) ==
  CASE kind = "warm"  -> "check"
    [] kind = "load"  -> "settle"
    [] kind = "eager" -> "connect"
    [] OTHER          -> "replay"

Call(k, kind) ==
  /\ At(k, "idle") /\ count.calls < MaxCalls
  /\ kind = "eager" => place = "here"
  /\ Become(k, [NoCall EXCEPT !.pc = FirstStep(kind), !.kind = kind,
                  !.prefixed = kind = "eager",
                  !.text = IF kind = "eager" THEN "role" ELSE "plain"])
  /\ Count("calls")
  /\ UNCHANGED <<place, saved, claims, entry, procs, delivered, turns>>

\* warm_session up to its claim.
WarmCheck(k) ==
  /\ At(k, "check")
  /\ IF place \in {"finished", "queued"} \/ Live \/ Started
     THEN Return(k)
     ELSE Goto(k, "claim") /\ UNCHANGED claims
  /\ UNCHANGED <<place, saved, entry, procs, delivered, turns, count>>

\* Mutant: the claim is taken whoever holds it.
ClaimWarmTwice(k) ==
  /\ At(k, "claim")
  /\ warming' = TRUE
  /\ Become(k, [task[k] EXCEPT !.warm = TRUE, !.pc = "spawn"])
  /\ UNCHANGED <<loading, loaded, place, saved, entry, procs, delivered, turns, count>>

\* WarmGuard::claim.  A warm and an empty history give up when it is taken,
\* prompts wait for the owner.
ClaimWarm(k) ==
  /\ At(k, "claim")
  /\ IF ~warming
     THEN /\ warming' = TRUE
          /\ Become(k, [task[k] EXCEPT !.warm = TRUE, !.pc = "spawn"])
          /\ UNCHANGED <<loading, loaded>>
     ELSE IF task[k].kind \in {"warm", "load"} THEN Return(k)
     ELSE Goto(k, "wait") /\ UNCHANGED claims
  /\ UNCHANGED <<place, saved, entry, procs, delivered, turns, count>>

\* Mutant: a retry does not ask whether there is a last prompt.
RetryBlindly(k) ==
  /\ At(k, "replay") /\ ~loading
  /\ IF task[k].kind = "prompt" /\ place = "queued"
     THEN Return(k)
     ELSE /\ Become(k, [task[k] EXCEPT !.pc = "ensure",
                !.text = IF task[k].kind = "retry" THEN entry.last ELSE @])
          /\ UNCHANGED claims
  /\ UNCHANGED <<place, saved, entry, procs, delivered, turns, count>>

\* wait_for_history, the queue check of a prompt, the last prompt of a retry.
WaitForHistory(k) ==
  /\ At(k, "replay") /\ ~loading
  /\ IF \/ task[k].kind = "prompt" /\ place = "queued"
        \/ task[k].kind = "retry" /\ entry.last = "none"
     THEN Return(k)
     ELSE /\ Become(k, [task[k] EXCEPT !.pc = "ensure",
                !.text = IF task[k].kind = "retry" THEN entry.last ELSE @])
          /\ UNCHANGED claims
  /\ UNCHANGED <<place, saved, entry, procs, delivered, turns, count>>

\* What a call does once it holds a connection and a conversation.
AfterSpawn(kind) ==
  CASE kind = "prompt" -> "heal"
    [] kind \in {"retry", "eager"} -> "turn"
    [] OTHER -> "done"

TakeLive(k) ==
  Become(k, [task[k] EXCEPT !.conn = entry.conn, !.sid = entry.sid,
               !.pc = AfterSpawn(task[k].kind)])

\* ensure_live: the live session, or the warm claim.
EnsureLive(k) ==
  /\ At(k, "ensure")
  /\ IF Live THEN TakeLive(k) ELSE Goto(k, "claim")
  /\ UNCHANGED <<place, saved, claims, entry, procs, delivered, turns, count>>

\* The owner of the claim settled: take its session or claim again.
WaitForLive(k) ==
  /\ At(k, "wait") /\ (Live \/ ~warming)
  /\ IF Live THEN TakeLive(k) ELSE Goto(k, "claim")
  /\ UNCHANGED <<place, saved, claims, entry, procs, delivered, turns, count>>

\* load_history first lets a warm settle.
LetWarmSettle(k) ==
  /\ At(k, "settle") /\ ~warming
  /\ Goto(k, "history")
  /\ UNCHANGED <<place, saved, claims, entry, procs, delivered, turns, count>>

\* Mutant: the wait for another call's session has no timeout.
WaitingForever(k) ==
  \/ At(k, "replay") /\ loading
  \/ At(k, "settle") /\ warming

\* A wait that nothing has ended yet.
Waiting(k) ==
  \/ At(k, "replay") /\ loading
  \/ At(k, "wait") /\ warming /\ ~Live
  \/ At(k, "settle") /\ warming

\* ENSURE_LIVE_TIMEOUT, HISTORY_TIMEOUT, WARM_TIMEOUT.
Timeout(k) ==
  /\ Waiting(k)
  /\ Return(k)
  /\ UNCHANGED <<place, saved, entry, procs, delivered, turns, count>>

\* HistoryGuard::claim.
ClaimHistory(k) ==
  /\ At(k, "history")
  /\ IF Started \/ entry.working
     THEN Return(k)
     ELSE /\ loading' = TRUE
          /\ Become(k, [task[k] EXCEPT !.hist = TRUE, !.pc = "resolve"])
          /\ UNCHANGED <<warming, loaded>>
  /\ UNCHANGED <<place, saved, entry, procs, delivered, turns, count>>

\* session_ids::resolve; with no past, finish_empty_history: finished plans
\* fail, queued landings are done, others start a live session.
Resolve(k) ==
  /\ At(k, "resolve")
  /\ \/ /\ saved # 0
        /\ Become(k, [task[k] EXCEPT !.sid = saved, !.pc = "connect"])
        /\ UNCHANGED claims
     \/ saved = 0 /\ place = "finished" /\ Return(k)
     \/ saved = 0 /\ place = "queued" /\ Finish(k)
     \/ /\ saved = 0 /\ place \in {"here", "gone"}
        /\ Goto(k, "claim")
        /\ UNCHANGED claims
  /\ UNCHANGED <<place, saved, entry, procs, delivered, turns, count>>

-----------------------------------------------------------------------------
(* Spawning *)

\* ensure_live_claimed: the plan must still be there; a known session keeps
\* its prefix state.
CheckPlan(k) ==
  /\ At(k, "spawn")
  /\ IF ThereDir
     THEN /\ Become(k, [task[k] EXCEPT !.pc = "connect", !.prefixed = entry.prefixed])
          /\ UNCHANGED claims
     ELSE Return(k)
  /\ UNCHANGED <<place, saved, entry, procs, delivered, turns, count>>

\* A replay adopts its past conversation, everyone else opens a new one.
\* (A load holds the warm claim exactly when it found no past.)
AfterConnect(t) == IF t.kind = "load" /\ ~t.warm THEN "adopt" ELSE "session"

\* ensure_connection_for: reuse an open connection, else start a process.
Connect(k) ==
  LET c == entry.conn IN
  /\ At(k, "connect")
  /\ IF c # 0 /\ c \notin closed
     THEN /\ Become(k, [task[k] EXCEPT !.conn = c, !.pc = AfterConnect(task[k])])
          /\ UNCHANGED entry
     ELSE /\ Goto(k, "init")
          /\ entry' = [entry EXCEPT !.conn = 0]
  /\ UNCHANGED <<place, saved, claims, procs, delivered, turns, count>>

\* The process answers initialize: its connection goes into the key's entry,
\* which is made when there is none.
Initialize(k) ==
  /\ At(k, "init")
  /\ \/ /\ conns < MaxConns
        /\ conns' = conns + 1
        /\ entry' = IF entry.there THEN [entry EXCEPT !.conn = conns']
                    ELSE [Absent EXCEPT !.there = TRUE, !.conn = conns',
                                        !.prefixed = task[k].prefixed]
        /\ Goto(k, "ready")
        /\ UNCHANGED claims
     \/ /\ "start" \in Faults \/ conns = MaxConns
        /\ Return(k)
        /\ UNCHANGED <<conns, entry>>
  /\ UNCHANGED <<place, saved, closed, sids, delivered, turns, count>>

\* The caller reads the connection back from the map.
Ready(k) ==
  /\ At(k, "ready")
  /\ IF entry.conn # 0
     THEN /\ Become(k, [task[k] EXCEPT !.conn = entry.conn, !.pc = AfterConnect(task[k])])
          /\ UNCHANGED claims
     ELSE Return(k)
  /\ UNCHANGED <<place, saved, entry, procs, delivered, turns, count>>

\* session/new, the mode pin and the stored model and effort.
OpenSession(k) ==
  /\ At(k, "session")
  /\ \/ /\ task[k].conn \notin closed
        /\ sids' = sids + 1
        /\ Become(k, [task[k] EXCEPT !.sid = sids', !.pc = "insert"])
        /\ UNCHANGED claims
     \/ /\ task[k].conn \in closed \/ "session" \in Faults
        /\ Return(k)
        /\ UNCHANGED sids
  /\ UNCHANGED <<place, saved, entry, conns, closed, delivered, turns, count>>

\* The new LiveSession replaces the entry and keeps its prefix state.
Insert(k) ==
  /\ At(k, "insert")
  /\ entry' = [there |-> TRUE, conn |-> task[k].conn, sid |-> task[k].sid,
               working |-> FALSE, last |-> "none",
               prefixed |-> IF entry.there THEN entry.prefixed ELSE task[k].prefixed]
  /\ Goto(k, "record")
  /\ UNCHANGED <<place, saved, claims, procs, delivered, turns, count>>

\* record_session, after which the warm guard of ensure_live drops.
Record(k) ==
  LET next == AfterSpawn(task[k].kind) IN
  /\ At(k, "record")
  /\ saved' = task[k].sid
  /\ \/ task[k].kind = "warm" /\ Return(k)
     \/ task[k].kind = "load" /\ Finish(k)
     \/ /\ next # "done"
        /\ Become(k, [task[k] EXCEPT !.pc = next, !.warm = FALSE])
        /\ warming' = (warming /\ ~task[k].warm)
        /\ UNCHANGED <<loading, loaded>>
  /\ UNCHANGED <<place, entry, procs, delivered, turns, count>>

\* A replay: the entry takes the past id, then session/load streams.
Adopt(k) ==
  /\ At(k, "adopt")
  /\ entry' = IF entry.there THEN [entry EXCEPT !.sid = task[k].sid] ELSE entry
  /\ Goto(k, "load")
  /\ UNCHANGED <<place, saved, claims, procs, delivered, turns, count>>

Load(k) ==
  /\ At(k, "load")
  /\ \/ task[k].conn \notin closed /\ Finish(k)
     \/ (task[k].conn \in closed \/ "load" \in Faults) /\ Return(k)
  /\ UNCHANGED <<place, saved, entry, procs, delivered, turns, count>>

-----------------------------------------------------------------------------
(* Turns *)

\* A prompt records the id once more.
Heal(k) ==
  /\ At(k, "heal")
  /\ saved' = task[k].sid
  /\ Goto(k, "prefix")
  /\ UNCHANGED <<place, claims, entry, procs, delivered, turns, count>>

\* claim_role_prefix: one locked check-and-mark.
ClaimPrefix(k) ==
  LET first == entry.there /\ ~entry.prefixed IN
  /\ At(k, "prefix")
  /\ entry' = IF first THEN [entry EXCEPT !.prefixed = TRUE] ELSE entry
  /\ Become(k, [task[k] EXCEPT !.pc = "turn", !.text = IF first THEN "role" ELSE @])
  /\ UNCHANGED <<place, saved, claims, procs, delivered, turns, count>>

\* start_turn: refuse a working key, else mark it, if it is still there, and
\* send the prompt.
StartTurn(k) ==
  LET t == task[k] IN
  /\ At(k, "turn")
  /\ IF entry.working
     THEN UNCHANGED <<entry, turns, delivered, count>>
     ELSE /\ entry' = IF entry.there
                      THEN [entry EXCEPT !.working = TRUE, !.last = t.text] ELSE entry
          /\ turns' = turns \cup {[n |-> count.turns, conn |-> t.conn, sid |-> t.sid,
                                   stopped |-> FALSE]}
          /\ delivered' = IF t.text = "role" THEN delivered \cup {t.sid} ELSE delivered
          /\ Count("turns")
  /\ Become(k, NoCall)
  /\ UNCHANGED <<place, saved, claims, procs>>

\* Mutant: a dead transport leaves the key working.
EndTurnWorking(t) ==
  /\ t \in turns
  /\ turns' = turns \ {t}
  /\ entry' = IF t.conn \in closed
              THEN [entry EXCEPT !.conn = 0, !.sid = 0]
              ELSE [entry EXCEPT !.working = FALSE]
  /\ UNCHANGED <<place, saved, claims, procs, delivered, task, count>>

\* The answer of a turn: the key is idle again; a dead transport also takes
\* the connection and the id off the key.
EndTurn(t) ==
  /\ t \in turns
  /\ turns' = turns \ {t}
  /\ entry' = IF t.conn \in closed
              THEN [entry EXCEPT !.working = FALSE, !.conn = 0, !.sid = 0]
              ELSE [entry EXCEPT !.working = FALSE]
  /\ UNCHANGED <<place, saved, claims, procs, delivered, task, count>>

\* cancel_turn: the agent is told to stop what runs in the conversation.
CancelTurn ==
  /\ count.cancels < MaxCancels /\ Quiet
  /\ entry.conn # 0 /\ entry.sid # 0
  /\ entry' = [entry EXCEPT !.working = FALSE]
  /\ turns' = {[t EXCEPT !.stopped = @ \/ t.sid = entry.sid] : t \in turns}
  /\ Count("cancels")
  /\ UNCHANGED <<place, saved, claims, procs, delivered, task>>

-----------------------------------------------------------------------------
(* The rest of the application and the world *)

\* drop_live, by the transition that moved the plan on.
DropLive ==
  /\ entry.there /\ place \in {"gone", "finished"}
  /\ entry' = Absent
  /\ UNCHANGED <<place, saved, claims, procs, delivered, turns, task, count>>

\* The plan moves on, ends, or changes its place in the landing queue.
Moves == {<<"here", "queued">>, <<"queued", "here">>, <<"here", "gone">>,
          <<"here", "finished">>, <<"queued", "finished">>, <<"gone", "finished">>}

MovePlan(to) ==
  /\ count.moves < MaxMoves /\ Quiet
  /\ <<place, to>> \in Moves
  /\ place' = to
  /\ Count("moves")
  /\ UNCHANGED <<saved, claims, entry, procs, delivered, turns, task>>

\* A process dies.
CloseConn(c) ==
  /\ count.deaths < MaxDeaths /\ Quiet
  /\ c \in 1..conns \ closed
  /\ closed' = closed \cup {c}
  /\ Count("deaths")
  /\ UNCHANGED <<place, saved, claims, entry, conns, sids, delivered, turns, task>>

\* clear_sessions: the repository is opened again while calls are in flight.
Reopen ==
  /\ count.reopens < MaxReopens /\ Quiet
  /\ entry' = Absent
  /\ warming' = FALSE /\ loading' = FALSE /\ loaded' = FALSE
  /\ Count("reopens")
  /\ UNCHANGED <<place, saved, procs, delivered, turns, task>>

-----------------------------------------------------------------------------
Events == {"calls", "turns", "deaths", "cancels", "moves", "reopens"}

\* A fresh application; conversation 1 is the saved one, if there is one, and
\* was told its role when it was opened.
Init ==
  /\ place \in Places
  /\ saved \in {0, 1}
  /\ sids = saved
  /\ delivered = {s \in {1} : s = saved}
  /\ warming = FALSE /\ loading = FALSE /\ loaded = FALSE
  /\ entry = Absent
  /\ conns = 0 /\ closed = {} /\ turns = {}
  /\ task = [k \in Tasks |-> NoCall]
  /\ count = [e \in Events |-> 0]

\* Steps of a call that need no answer from the agent, and steps that do.
OwnStep(k) ==
  \/ WarmCheck(k) \/ ClaimWarm(k) \/ WaitForHistory(k) \/ EnsureLive(k)
  \/ WaitForLive(k) \/ LetWarmSettle(k) \/ Timeout(k) \/ ClaimHistory(k)
  \/ Resolve(k) \/ CheckPlan(k) \/ Connect(k) \/ Ready(k) \/ Insert(k)
  \/ Record(k) \/ Adopt(k) \/ Heal(k) \/ ClaimPrefix(k) \/ StartTurn(k)

AgentStep(k) == Initialize(k) \/ OpenSession(k) \/ Load(k)

Next ==
  \/ \E k \in Tasks : OwnStep(k) \/ AgentStep(k) \/ \E kind \in Kinds : Call(k, kind)
  \/ \E t \in turns : EndTurn(t)
  \/ CancelTurn \/ DropLive \/ Reopen
  \/ \E to \in {"here", "queued", "gone", "finished"} : MovePlan(to)
  \/ \E c \in 1..conns : CloseConn(c)

Spec == Init /\ [][Next]_vars

\* The backend's tasks are scheduled and their timers fire; the agent may
\* never answer.
Fairness == \A k \in Tasks : WF_vars(OwnStep(k))
FairSpec == Spec /\ Fairness

-----------------------------------------------------------------------------
(* Properties *)

CallSteps == {"idle", "check", "claim", "replay", "ensure", "wait", "settle",
              "history", "resolve", "spawn", "connect", "init", "ready",
              "session", "insert", "record", "adopt", "load", "heal",
              "prefix", "turn"}

CallRec == [pc : CallSteps, kind : {"warm", "load", "prompt", "retry", "eager"},
            warm : BOOLEAN, hist : BOOLEAN, conn : Nat, sid : Nat,
            prefixed : BOOLEAN, text : {"plain", "role"}]

Entry == [there : BOOLEAN, conn : Nat, sid : Nat, working : BOOLEAN,
          prefixed : BOOLEAN, last : {"none", "plain", "role"}]

Turn == [n : Nat, conn : Nat, sid : Nat, stopped : BOOLEAN]

\* Types.
TypeOK ==
  /\ place \in {"here", "queued", "gone", "finished"}
  /\ saved \in Nat /\ conns \in Nat /\ sids \in Nat
  /\ warming \in BOOLEAN /\ loading \in BOOLEAN /\ loaded \in BOOLEAN
  /\ entry \in Entry
  /\ closed \subseteq Nat /\ delivered \subseteq Nat
  /\ turns \subseteq Turn
  /\ task \in [Tasks -> CallRec]
  /\ count \in [Events -> Nat]

\* Until a repository is opened again, a claim is in the state exactly while
\* one call holds its guard: no claim outlives its owner whichever way the
\* call returns, and no two calls spawn under the same claim or replay at once.
ClaimsOwned == count.reopens = 0 =>
  /\ warming <=> \E k \in Tasks : task[k].warm
  /\ loading <=> \E k \in Tasks : task[k].hist
  /\ \A j, k \in Tasks : task[j].warm /\ task[k].warm => j = k
  /\ \A j, k \in Tasks : task[j].hist /\ task[k].hist => j = k

\* A key that reads working has a turn whose answer will clear it, whatever
\* died, was dropped, was spawned again or was cancelled in between.
WorkingHasTurn == entry.working => turns # {}

\* With an agent that never answers, a call hangs only in a request of its
\* own: whoever waits for another call gives up and returns.
OnlyOwnRequestsHang == \A k \in Tasks :
  ~At(k, "idle") ~> task[k].pc \in {"idle", "init", "session", "load"}

\* "True while a live turn runs for the key": no turn runs on the key's own
\* session unseen, unless it was told to stop.
WorkingWhileTurnRuns == \A t \in turns :
  t.sid = entry.sid /\ ~t.stopped => entry.working

\* "Role already delivered for this ACP conversation": no conversation works
\* without having been told its role.
RoleComesFirst == \A t \in turns : t.sid \in delivered

=============================================================================
