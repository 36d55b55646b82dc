---------------------------- MODULE SessionCards ----------------------------
(***************************************************************************)
(* What a session shows while its agent works: the permission cards and    *)
(* the todo list.  A request for permission is a task on the agent's       *)
(* connection that registers a one-shot sender under the tool call,        *)
(* raises the row's flag, shows a card and waits; the user's answer, a     *)
(* cancelled turn, a dropped session and a replaced entry each take that   *)
(* sender.  The task waits on the loop that dispatches the connection's    *)
(* messages, so that everything else the agent says, the answer to         *)
(* `session/close` included, waits with it.                                *)
(***************************************************************************)
EXTENDS Naturals, Sequences, FiniteSets

CONSTANTS
  Sessions,   \* the session keys
  Calls,      \* tool call ids
  Lists,      \* todo lists with something in them
  Cleared,    \* the empty todo list
  Serial,     \* a connection dispatches nothing while one of its handlers waits
  MaxConns,   \* bound: agent processes started
  MaxAsks,    \* bound: permission requests
  MaxNotes,   \* bound: todo payloads
  MaxTurns,   \* bound: turns started
  MaxEvents   \* bound: processes, turns, requests and todo payloads together

ASSUME SessionCardsAssumption ==
  /\ Cleared \notin Lists
  /\ Serial \in BOOLEAN
  /\ {MaxConns, MaxAsks, MaxNotes, MaxTurns, MaxEvents} \subseteq Nat

None == 0
ConnIds == 1..MaxConns
AskIds == 1..MaxAsks

VARIABLES
  live,    \* State.sessions: an entry for each key, or Gone
  past,    \* the session id on record for each key
  conns,   \* the connections made so far: key, session id, closed
  start,   \* the spawn or history load under way for each key
  loaded,  \* State.history_loaded
  turn,    \* connections with a prompt the agent has not answered
  drop,    \* the connection whose session/close a drop waits for
  asks,    \* the permission requests so far, each with its handler
  chat,    \* the user interface: start phase, cards, todos
  blame,   \* history: requests some card or session was taken from
  hidden,  \* history: requests whose card the user could not use
  met,     \* history: requests handled at the same time as another of the key
  unsaid,  \* history: keys whose chat lost todos that the entry kept
  left,    \* keys dropped because their plan moved on
  reread,  \* history: keys of those that were loaded again
  notes, turns

counts  == <<notes, turns>>
history == <<blame, hidden, met, unsaid, left, reread>>
vars    == <<live, past, conns, start, loaded, turn, drop, asks, chat,
             history, counts>>

\* Whether the bound leaves room for another event from outside.
Quiet == Len(conns) + turns + Len(asks) + notes < MaxEvents
-----------------------------------------------------------------------------
(* Entries *)

NoSenders == [call \in Calls |-> None]
\* LiveSession: its connection, session id, and what its row shows.
Entry(c, id) == [held |-> TRUE, conn |-> c, id |-> id, working |-> FALSE,
                 approval |-> FALSE, todos |-> Cleared, pending |-> NoSenders]
Gone == [Entry(None, None) EXCEPT !.held = FALSE]
Held(k) == live[k].held

Usable(k) == Held(k) /\ live[k].conn # None /\ ~conns[live[k].conn].closed
IsLive(k) == Usable(k) /\ live[k].id # None
Loading(k) == start[k].load
Resting == [pc |-> "idle", conn |-> None, load |-> FALSE]

\* Mutant: tool calls nobody waits for are taken as well.
AllSenders(k) == {live[k].pending[call] : call \in Calls}

\* The senders an entry holds, and the requests once they are gone: a sender
\* that is used or dropped settles the request it belongs to.
Senders(k) == {live[k].pending[call] : call \in Calls} \ {None}
Settled(R, outcome) ==
  [r \in DOMAIN asks |->
     IF r \in R /\ asks[r].chan = "open" THEN [asks[r] EXCEPT !.chan = outcome]
     ELSE asks[r]]

\* The handler keeps its connection's loop until it is done.
Busy(r) == asks[r].pc \notin {"done", "lost"}
Free(c) == /\ c \in DOMAIN conns /\ ~conns[c].closed
           /\ Serial => \A r \in DOMAIN asks : asks[r].conn = c => ~Busy(r)
-----------------------------------------------------------------------------
Init ==
  /\ live = [k \in Sessions |-> Gone]
  /\ past = [k \in Sessions |-> None]
  /\ conns = <<>>
  /\ start = [k \in Sessions |-> Resting]
  /\ loaded = {} /\ turn = {}
  /\ drop = [k \in Sessions |-> None]
  /\ asks = <<>>
  /\ chat = [k \in Sessions |-> [phase |-> "idle", cards |-> {}, todos |-> Cleared]]
  /\ blame = {} /\ hidden = {} /\ met = {} /\ unsaid = {}
  /\ left = {} /\ reread = {}
  /\ notes = 0 /\ turns = 0
-----------------------------------------------------------------------------
(* Starts: a spawned session, and the replay of a past one *)

\* ensure_connection_for: the entry's connection while it is open, else a new
\* process, which puts itself into the entry it finds or a fresh one.
Connected(k, id) ==
  IF Usable(k) THEN /\ start' = [start EXCEPT ![k].conn = live[k].conn,
                                              ![k].pc = IF id = None THEN "new" ELSE "load"]
                    /\ live' = [live EXCEPT ![k].id = IF id = None THEN @ ELSE id]
                    /\ conns' = [conns EXCEPT ![live[k].conn].id = IF id = None THEN @ ELSE id]
  ELSE LET c == Len(conns) + 1 IN
       /\ c <= MaxConns /\ Quiet
       /\ conns' = Append(conns, [key |-> k, id |-> IF id = None THEN c ELSE id,
                                  closed |-> FALSE])
       /\ live' = [live EXCEPT ![k] =
                     IF Held(k) THEN [@ EXCEPT !.conn = c,
                                               !.id = IF id = None THEN live[k].id ELSE id]
                     ELSE Entry(c, id)]
       /\ start' = [start EXCEPT ![k].conn = c,
                                 ![k].pc = IF id = None THEN "new" ELSE "load"]

\* A prompt or a warm on a key that is not live.
BeginSpawn(k) ==
  /\ start[k] = Resting /\ ~IsLive(k)
  /\ k \notin left
  /\ start' = [start EXCEPT ![k].pc = "connect"]
  /\ UNCHANGED <<live, past, conns, loaded, turn, drop, asks, chat, history, counts>>

\* Mutant: every start clears the transcript.
BeginLoadWiping(k) ==
  /\ start[k] = Resting /\ k \notin loaded /\ ~live[k].working
  /\ k \in left => past[k] # None
  /\ start' = [start EXCEPT ![k] = [pc |-> "connect", conn |-> None, load |-> TRUE]]
  /\ chat' = [chat EXCEPT ![k] = [phase |-> "preparing", todos |-> Cleared, cards |-> {}]]
  /\ unsaid' = IF live[k].todos # Cleared THEN unsaid \cup {k} ELSE unsaid
  /\ reread' = IF k \in left THEN reread \cup {k} ELSE reread
  /\ UNCHANGED <<live, past, conns, loaded, turn, drop, asks, blame, met, hidden, left, counts>>

\* load_history: the claim, then HistoryPreparing and SessionReset.
BeginLoad(k) ==
  /\ start[k] = Resting /\ k \notin loaded /\ ~live[k].working
  /\ k \in left => past[k] # None
  /\ start' = [start EXCEPT ![k] = [pc |-> "connect", conn |-> None, load |-> TRUE]]
  /\ LET wiped == chat[k].phase = "failed" IN
     /\ chat' = [chat EXCEPT ![k] = [phase |-> "preparing", todos |-> Cleared,
                                     cards |-> IF wiped THEN {} ELSE @.cards]]
     /\ hidden' = IF wiped THEN hidden \cup {card.ask : card \in chat[k].cards} ELSE hidden
  /\ unsaid' = IF live[k].todos # Cleared THEN unsaid \cup {k} ELSE unsaid
  /\ reread' = IF k \in left THEN reread \cup {k} ELSE reread
  /\ UNCHANGED <<live, past, conns, loaded, turn, drop, asks, blame, met, left, counts>>

\* The process starts.  A load of a key with a past goes on to HistoryBegin.
Connect(k) ==
  /\ start[k].pc = "connect"
  /\ LET id == IF start[k].load THEN past[k] ELSE None IN
     /\ Connected(k, id)
     /\ chat' = IF id = None THEN chat ELSE [chat EXCEPT ![k].phase = "replaying"]
  /\ UNCHANGED <<past, loaded, turn, drop, asks, history, counts>>

\* session/new has answered: a new entry takes the place of whatever is there
\* (the senders in it are dropped with it), and its id is recorded.
Insert(k) ==
  LET c == start[k].conn IN
  /\ start[k].pc = "new" /\ Free(c)
  /\ live' = [live EXCEPT ![k] = Entry(c, c)]
  /\ past' = [past EXCEPT ![k] = c]
  /\ conns' = [conns EXCEPT ![c].id = c]
  /\ asks' = Settled(Senders(k), "gone")
  /\ blame' = blame \cup Senders(k)
  /\ start' = [start EXCEPT ![k].pc = "reset"]
  /\ UNCHANGED <<loaded, turn, drop, chat, hidden, met, unsaid, left, reread, counts>>

\* Mutant: the new session's list is left to its first payload.
ResetQuietly(k) ==
  /\ start[k].pc = "reset"
  /\ start' = [start EXCEPT ![k] = IF @.load THEN [@ EXCEPT !.pc = "settle"] ELSE Resting]
  /\ UNCHANGED <<live, past, conns, loaded, turn, drop, asks, chat, history, counts>>

\* SessionReset; then a spawn is over, and an empty history done.
Reset(k) ==
  /\ start[k].pc = "reset"
  /\ chat' = [chat EXCEPT ![k].todos = Cleared]
  /\ unsaid' = IF live[k].todos # Cleared THEN unsaid \cup {k} ELSE unsaid \ {k}
  /\ start' = [start EXCEPT ![k] = IF @.load THEN [@ EXCEPT !.pc = "settle"] ELSE Resting]
  /\ UNCHANGED <<live, past, conns, loaded, turn, drop, asks, blame, hidden, met,
                 left, reread, counts>>

\* The replay is over: the claim is settled, and HistoryDone follows.
EndLoad(k) ==
  /\ start[k].pc = "load" => Free(start[k].conn)
  /\ start[k].pc \in {"load", "settle"}
  /\ loaded' = loaded \cup {k}
  /\ start' = [start EXCEPT ![k].pc = "done", ![k].load = FALSE]
  /\ UNCHANGED <<live, past, conns, turn, drop, asks, chat, history, counts>>

HistoryDone(k) ==
  /\ start[k].pc = "done"
  /\ start' = [start EXCEPT ![k] = Resting]
  /\ chat' = [chat EXCEPT ![k].phase = "idle"]
  /\ UNCHANGED <<live, past, conns, loaded, turn, drop, asks, history, counts>>

\* The process did not start, or closed, or answered with an error.
FailStart(k) ==
  /\ start[k].pc \in {"connect", "new", "load"}
  /\ start[k].conn # None => \/ conns[start[k].conn].closed
                             \/ Free(start[k].conn)
  /\ start' = [start EXCEPT ![k] = Resting]
  /\ chat' = IF start[k].load THEN [chat EXCEPT ![k].phase = "failed"] ELSE chat
  /\ UNCHANGED <<live, past, conns, loaded, turn, drop, asks, history, counts>>

\* The agent's process ends; nothing is dispatched on its connection any more.
Exit(c) ==
  /\ c \in DOMAIN conns /\ ~conns[c].closed
  /\ conns' = [conns EXCEPT ![c].closed = TRUE]
  /\ UNCHANGED <<live, past, start, loaded, turn, drop, asks, chat, history, counts>>
-----------------------------------------------------------------------------
(* Turns, and what ends them *)

\* start_turn, once no replay is on its way.
StartTurn(k) ==
  /\ IsLive(k) /\ ~live[k].working /\ ~Loading(k) /\ turns < MaxTurns /\ Quiet
  /\ live' = [live EXCEPT ![k].working = TRUE]
  /\ turn' = turn \cup {live[k].conn}
  /\ turns' = turns + 1
  /\ UNCHANGED <<past, conns, start, loaded, drop, asks, chat, history, notes>>

\* The agent answers the prompt, or its transport has gone.
EndTurn(c) ==
  LET k == conns[c].key IN
  /\ c \in turn /\ (conns[c].closed \/ Free(c))
  /\ turn' = turn \ {c}
  /\ live' = IF ~Held(k) THEN live
             ELSE IF conns[c].closed
                  THEN [live EXCEPT ![k].working = FALSE, ![k].conn = None, ![k].id = None]
                  ELSE [live EXCEPT ![k].working = FALSE]
  /\ UNCHANGED <<past, conns, start, loaded, drop, asks, chat, history, counts>>

\* cancel_turn: every sender of the session answers cancelled; the agent is
\* told, and goes on until it has heard.
CancelTurn(k) ==
  /\ Held(k) /\ live[k].conn # None /\ live[k].id # None
  /\ live[k].working \/ Senders(k) # {}
  /\ asks' = Settled(Senders(k), "cancelled")
  /\ blame' = blame \cup Senders(k)
  /\ live' = [live EXCEPT ![k].pending = NoSenders, ![k].working = FALSE]
  /\ UNCHANGED <<past, conns, start, loaded, turn, drop, chat, hidden, met, unsaid,
                 left, reread, counts>>

\* Mutant: the entry, and what it holds, goes once the agent has answered.
DropLate(k) ==
  /\ Held(k) /\ start[k] = Resting /\ drop[k] = None
  /\ left' = left \cup {k}
  /\ drop' = [drop EXCEPT ![k] = IF live[k].id = None THEN None ELSE live[k].conn]
  /\ UNCHANGED <<live, past, conns, start, loaded, turn, asks, chat, blame, hidden, met,
                 unsaid, reread, counts>>

\* drop_live: the senders, then the entry; then session/close is awaited.
\* The plan has moved, so that the key is not prompted again.
DropLive(k) ==
  /\ Held(k) /\ start[k] = Resting /\ drop[k] = None
  /\ asks' = Settled(Senders(k), "cancelled")
  /\ blame' = blame \cup Senders(k)
  /\ left' = left \cup {k}
  /\ live' = [live EXCEPT ![k] = Gone]
  /\ drop' = [drop EXCEPT ![k] = IF live[k].id = None THEN None ELSE live[k].conn]
  /\ UNCHANGED <<past, conns, start, loaded, turn, chat, hidden, met, unsaid,
                 reread, counts>>

CloseAnswered(k) ==
  /\ drop[k] # None /\ (conns[drop[k]].closed \/ Free(drop[k]))
  /\ drop' = [drop EXCEPT ![k] = None]
  /\ UNCHANGED <<live, past, conns, start, loaded, turn, asks, chat, history, counts>>
-----------------------------------------------------------------------------
(* handle_permission_request: one handler for each request *)

Key(r) == conns[asks[r].conn].key
At(r, pc) == r \in DOMAIN asks /\ asks[r].pc = pc
Goes(r, pc) == asks' = [asks EXCEPT ![r].pc = pc]
Refused(r) == asks' = [asks EXCEPT ![r].pc = "done", ![r].reply = "cancelled"]

\* The agent asks, in a turn or in a replay.  A request of another session
\* than the entry's, and one with no one-shot option, is answered cancelled.
Receive(c, call, options) ==
  LET k == conns[c].key
      stale == Held(k) /\ live[k].id # None /\ live[k].id # conns[c].id
      refused == stale \/ options = {}
      ask == [conn |-> c, call |-> call, chan |-> "open", chosen |-> None,
              pc |-> IF refused THEN "done" ELSE "routed",
              reply |-> IF refused THEN "cancelled" ELSE "none"]
      others == {r \in DOMAIN asks : Key(r) = k /\ Busy(r)}
  IN /\ Free(c) /\ Len(asks) < MaxAsks /\ Quiet
     /\ c \in turn \/ (start[k].pc = "load" /\ start[k].conn = c)
     /\ asks' = Append(asks, ask)
     /\ met' = IF others = {} THEN met ELSE met \cup others \cup {Len(asks) + 1}
     /\ UNCHANGED <<live, past, conns, start, loaded, turn, drop, chat, blame,
                    hidden, unsaid, left, reread, counts>>

\* What to_view keeps of the options: the one-shot kinds.
ToView(kinds) == kinds \cap {"allow_once", "reject_once"}

Card(r, resolved) == [ask |-> r, call |-> asks[r].call, resolved |-> resolved]

\* Mutant: the card stays as it was.
ResolvedNone(cards, call) == cards
\* permission_resolved: every card of that tool call.
Resolved(cards, call) ==
  {[card EXCEPT !.resolved = @ \/ card.call = call] : card \in cards}

\* While history replays the card is shown answered, and nobody waits.
Replayed(r) ==
  /\ At(r, "routed") /\ Loading(Key(r))
  /\ Refused(r)
  /\ chat' = [chat EXCEPT ![Key(r)].cards = Resolved(@ \cup {Card(r, TRUE)}, asks[r].call)]
  /\ UNCHANGED <<live, past, conns, start, loaded, turn, drop, history, counts>>

Admit(r) ==
  /\ At(r, "routed") /\ ~Loading(Key(r))
  /\ Goes(r, "admitted")
  /\ UNCHANGED <<live, past, conns, start, loaded, turn, drop, chat, history, counts>>

\* The sender takes the place of another one of the same tool call.
Register(r) ==
  LET k == Key(r) IN
  /\ At(r, "admitted")
  /\ IF Held(k)
     THEN /\ live' = [live EXCEPT ![k].pending[asks[r].call] = r]
          /\ asks' = [Settled({live[k].pending[asks[r].call]}, "gone") EXCEPT ![r].pc = "held"]
     ELSE Refused(r) /\ UNCHANGED live
  /\ UNCHANGED <<past, conns, start, loaded, turn, drop, chat, history, counts>>

SetApproval(r) ==
  LET k == Key(r) IN
  /\ At(r, "held") /\ Goes(r, "flagged")
  /\ live' = IF Held(k) THEN [live EXCEPT ![k].approval = TRUE] ELSE live
  /\ UNCHANGED <<past, conns, start, loaded, turn, drop, chat, history, counts>>

\* PermissionAsked.  A chat in a replay shows the card as already answered.
Show(r) ==
  LET k == Key(r)  replaying == chat[k].phase = "replaying" IN
  /\ At(r, "flagged") /\ Goes(r, "waiting")
  /\ chat' = [chat EXCEPT ![k].cards = @ \cup {Card(r, replaying)}]
  /\ hidden' = IF replaying THEN hidden \cup {r} ELSE hidden
  /\ UNCHANGED <<live, past, conns, start, loaded, turn, drop, blame, met, unsaid,
                 left, reread, counts>>

\* Mutant: the handler does not wait for ever.
WakeEarly(r) ==
  LET k == Key(r)  call == asks[r].call IN
  /\ At(r, "waiting")
  /\ live' = [live EXCEPT ![k].pending[call] = None]
  /\ asks' = [Settled({live[k].pending[call]}, "gone") EXCEPT ![r].pc = "decided"]
  /\ UNCHANGED <<past, conns, start, loaded, turn, drop, chat, history, counts>>

\* The decision has come, or the sender is gone; what is registered under the
\* tool call is taken out.
Wake(r) ==
  LET k == Key(r)  call == asks[r].call IN
  /\ At(r, "waiting") /\ asks[r].chan # "open"
  /\ live' = [live EXCEPT ![k].pending[call] = None]
  /\ asks' = [Settled({live[k].pending[call]}, "gone") EXCEPT ![r].pc = "decided"]
  /\ UNCHANGED <<past, conns, start, loaded, turn, drop, chat, history, counts>>

\* The answer to the agent; the flag goes down whoever else waits.
Respond(r) ==
  LET k == Key(r) IN
  /\ At(r, "decided")
  /\ asks' = [asks EXCEPT ![r].pc = "answered",
                          ![r].reply = IF asks[r].chan = "selected" THEN "selected" ELSE "cancelled"]
  /\ live' = IF Held(k) THEN [live EXCEPT ![k].approval = FALSE] ELSE live
  /\ UNCHANGED <<past, conns, start, loaded, turn, drop, chat, history, counts>>

\* PermissionResolved.
Close(r) ==
  /\ At(r, "answered") /\ Goes(r, "done")
  /\ chat' = [chat EXCEPT ![Key(r)].cards = Resolved(@, asks[r].call)]
  /\ UNCHANGED <<live, past, conns, start, loaded, turn, drop, history, counts>>

\* The connection's task has ended with the handler in it.
Abandon(r) ==
  /\ At(r, "waiting") /\ conns[asks[r].conn].closed
  /\ Goes(r, "lost")
  /\ UNCHANGED <<live, past, conns, start, loaded, turn, drop, chat, history, counts>>

\* answer_permission, from a card whose buttons are enabled.
Answer(k) == \E card \in chat[k].cards :
  LET r == live[k].pending[card.call] IN
  /\ ~card.resolved
  /\ r # None
  /\ live' = [live EXCEPT ![k].pending[card.call] = None]
  /\ asks' = [Settled({r}, "selected") EXCEPT ![r].chosen = card.ask]
  /\ UNCHANGED <<past, conns, start, loaded, turn, drop, chat, history, counts>>

Handler(r) ==
  \/ Replayed(r) \/ Admit(r) \/ Register(r) \/ SetApproval(r) \/ Show(r)
  \/ Wake(r) \/ Respond(r) \/ Close(r)
-----------------------------------------------------------------------------
(* Todos *)

\* update_todos with TodosChanged: a list that did not move stays silent.
Todo(c, list) ==
  LET k == conns[c].key
      stale == Held(k) /\ live[k].id # None /\ live[k].id # conns[c].id
  IN /\ Free(c) /\ notes < MaxNotes /\ Quiet
     /\ c \in turn \/ (start[k].pc = "load" /\ start[k].conn = c)
     /\ notes' = notes + 1
     /\ IF ~stale /\ Held(k) /\ list # live[k].todos
        THEN /\ live' = [live EXCEPT ![k].todos = list]
             /\ chat' = [chat EXCEPT ![k].todos = list]
             /\ unsaid' = unsaid \ {k}
        ELSE UNCHANGED <<live, chat, unsaid>>
     /\ UNCHANGED <<past, conns, start, loaded, turn, drop, asks, blame, hidden, met,
                    left, reread, turns>>
-----------------------------------------------------------------------------
Next ==
  \/ \E k \in Sessions :
       \/ BeginSpawn(k) \/ BeginLoad(k) \/ Connect(k) \/ Insert(k) \/ Reset(k)
       \/ EndLoad(k) \/ HistoryDone(k) \/ FailStart(k)
       \/ StartTurn(k) \/ CancelTurn(k) \/ DropLive(k) \/ CloseAnswered(k)
       \/ Answer(k)
  \/ \E c \in ConnIds :
       \/ Exit(c) \/ EndTurn(c)
       \/ \E list \in Lists \cup {Cleared} : Todo(c, list)
       \/ \E call \in Calls, kinds \in {{"allow_once", "allow_always"}, {"allow_always"}} :
            Receive(c, call, ToView(kinds))
  \/ \E r \in AskIds : Handler(r) \/ Abandon(r)

Spec == Init /\ [][Next]_vars

\* The runtime runs every handler on, and an agent answers session/close.
Fairness ==
  /\ \A r \in AskIds : WF_vars(Handler(r))
  /\ \A k \in Sessions : WF_vars(CloseAnswered(k))
FairSpec == Spec /\ Fairness
-----------------------------------------------------------------------------
(* Properties *)

\* Types; senders, starts and turns name requests and connections that exist.
TypeOK ==
  /\ live \in [Sessions -> [held : BOOLEAN, conn : {None} \cup DOMAIN conns,
                            id : 0..MaxConns, working : BOOLEAN, approval : BOOLEAN,
                            todos : Lists \cup {Cleared},
                            pending : [Calls -> {None} \cup DOMAIN asks]]]
  /\ past \in [Sessions -> 0..MaxConns]
  /\ conns \in Seq([key : Sessions, id : 1..MaxConns, closed : BOOLEAN])
  /\ Len(conns) <= MaxConns
  /\ start \in [Sessions -> [pc : {"idle", "connect", "new", "reset", "load", "settle", "done"},
                             conn : {None} \cup DOMAIN conns, load : BOOLEAN]]
  /\ loaded \subseteq Sessions /\ turn \subseteq DOMAIN conns
  /\ drop \in [Sessions -> {None} \cup DOMAIN conns]
  /\ asks \in Seq([conn : DOMAIN conns, call : Calls, chosen : 0..MaxAsks,
                   chan : {"open", "selected", "cancelled", "gone"},
                   pc : {"routed", "admitted", "held", "flagged", "waiting", "decided",
                         "answered", "done", "lost"},
                   reply : {"none", "selected", "cancelled"}])
  /\ Len(asks) <= MaxAsks
  /\ chat \in [Sessions -> [phase : {"idle", "preparing", "replaying", "failed"},
                            cards : SUBSET [ask : AskIds, call : Calls, resolved : BOOLEAN],
                            todos : Lists \cup {Cleared}]]
  /\ UNION {blame, hidden, met} \subseteq DOMAIN asks

\* The user can always answer what an agent waits for: while a handler waits
\* for a decision its sender is registered under its tool call, the row says
\* so, and its card is on screen and enabled.  Excepted are requests handled
\* at the same time as another of the key, a card raised into the last moment
\* of a replay, and one wiped by a second load after a failed one.
CardsAnswerable ==
  \A r \in DOMAIN asks \ (met \cup hidden) :
    (At(r, "waiting") /\ asks[r].chan = "open" /\ ~conns[asks[r].conn].closed) =>
      /\ live[Key(r)].pending[asks[r].call] = r
      /\ live[Key(r)].approval
      /\ \E card \in chat[Key(r)].cards : card.ask = r /\ ~card.resolved

\* A decision reaches the request it was made for: a request is answered as
\* selected only from its own card, also when the agent asks again for the
\* same tool call; only a card whose agent has died stays enabled beside it.
OwnAnswer ==
  \A r \in DOMAIN asks \ met :
    asks[r].reply = "selected" =>
      asks[r].chosen = r \/ asks[asks[r].chosen].pc = "lost"

\* Nothing is refused on the user's behalf: a request that was not part of a
\* replay is answered cancelled only when its turn was cancelled or its
\* session was dropped or replaced.
NoStrayCancel ==
  \A r \in DOMAIN asks \ met :
    (At(r, "answered") /\ asks[r].reply = "cancelled") => r \in blame

\* The list on screen is the list the row counts, unless a replay has found
\* the entry already holding what it replays.
TodosShown ==
  \A k \in Sessions :
    (start[k] = Resting /\ Held(k) /\ k \notin unsaid) => chat[k].todos = live[k].todos

\* Leaving a session ends: its open card does not keep the answer to
\* session/close waiting.
DropsFinish ==
  \A k \in Sessions : (drop[k] # None) ~> (drop[k] = None \/ k \in reread)
=============================================================================
