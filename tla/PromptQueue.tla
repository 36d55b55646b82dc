---------------------------- MODULE PromptQueue -----------------------------
(***************************************************************************)
(* One session between the user and the agent: the frontend's queue of     *)
(* prompts and its view of the turn (sessions/queue.ts, sessions/store.ts, *)
(* App.tsx), the commands it calls, the backend's turns and permission     *)
(* cards (turns.rs, permissions.rs), and the events that come back.        *)
(*                                                                         *)
(* Events arrive in the order the backend emits them; the answer of a      *)
(* command arrives whenever it likes.  A handler of an event or of an      *)
(* answer leaves the screen as it was until the next render; what the user *)
(* does is rendered at once.                                               *)
(***************************************************************************)
EXTENDS Integers, Sequences, FiniteSets

CONSTANTS
  Messages,    \* the prompts a user may type
  NoMessage,   \* no message
  Faults,      \* what may fail: "prompt" (a start), "turn", "replay"
  MaxExtras    \* bound: stops, edits, moves, retries, permission requests,
               \* streamed updates and history replays, together

ASSUME PromptQueueAssumption ==
  /\ NoMessage \notin Messages
  /\ Faults \subseteq {"prompt", "turn", "replay"}
  /\ MaxExtras \in Nat

VARIABLES
  items,      \* the queue
  editing,    \* the queued prompt being edited
  chat,       \* ChatState: working, approval, failed, replaying, and what the
              \* transcript shows: an open card, an error
  shown,      \* items, editing and busy as last rendered
  typed,      \* prompts the user entered
  sent,       \* prompts handed to the backend, in order
  deleted,    \* queued prompts the user emptied
  calls,      \* commands the frontend awaits
  working,    \* the backend's working flag of the session
  live,       \* the session has a connection
  prompted,   \* a turn has started: there is a last_prompt
  turns,      \* prompts the agent works on
  card,       \* the permission request: "none", "asked", "answered"
  history,    \* the replay: "none", "loading", "loaded"
  events,     \* events on their way to the frontend
  extras      \* how many bounded events happened

queue   == <<items, editing, typed, sent, deleted>>
backend == <<working, live, prompted, turns, card, history>>
vars    == <<queue, chat, shown, calls, backend, events, extras>>

Extra       == extras < MaxExtras /\ extras' = extras + 1
Emit(event) == events' = Append(events, event)

Elements(s) == {s[i] : i \in 1..Len(s)}

\* The queue without a prompt, whose id it holds once.
Without(s, m) ==
  IF m \in Elements(s)
  THEN LET i == CHOOSE i \in 1..Len(s) : s[i] = m
       IN  SubSeq(s, 1, i - 1) \o SubSeq(s, i + 1, Len(s))
  ELSE s

-----------------------------------------------------------------------------
(* The gate *)

\* isSessionBusy, drainStatusFor.
Busy(c) == c.working \/ c.approval \/ c.replaying
Idle(c) == ~Busy(c) /\ ~c.failed

\* Mutant: the head goes even while it is edited.
DrainEdited(its, edited, idle) ==
  IF idle /\ its # <<>> THEN Head(its) ELSE NoMessage

\* Mutant: an edited head lets the next prompt past.
DrainPastEdited(its, edited, idle) ==
  CASE idle /\ its # <<>> /\ Head(its) # edited -> Head(its)
    [] idle /\ Len(its) > 1 /\ Head(its) = edited -> its[2]
    [] OTHER -> NoMessage

\* resolveDrain: the head, unless it is being edited.
DrainHead(its, edited, idle) ==
  IF idle /\ its # <<>> /\ Head(its) # edited THEN Head(its) ELSE NoMessage

\* A command goes to the backend, beside the awaited ones.
Issue(cmd, id, awaited) ==
  calls' = awaited \cup {[id |-> id, cmd |-> cmd, reply |-> "none"]}

\* sendNow, from a chat state c.
SendNow(m, c, awaited) ==
  /\ sent' = Append(sent, m)
  /\ chat' = [c EXCEPT !.working = TRUE, !.failed = FALSE]
  /\ Issue("prompt", Len(sent), awaited)

Keep(c, awaited) == chat' = c /\ calls' = awaited /\ UNCHANGED sent

\* Mutant: a queue that does not drain is drained.
DrainNothing(c, idle, awaited) ==
  LET head == DrainHead(shown.items, shown.editing, idle) IN
  SendNow(head, c, awaited) /\ items' = Without(items, head)

\* maybeDrain, after an event or an answer: takeNext reads the rendered queue.
Drain(c, idle, awaited) ==
  LET head == DrainHead(shown.items, shown.editing, idle) IN
  \/ head = NoMessage /\ Keep(c, awaited) /\ UNCHANGED items
  \/ head # NoMessage /\ SendNow(head, c, awaited) /\ items' = Without(items, head)

\* The screen, which what the user does brings up to date at once.
Screen == [items |-> items, editing |-> editing, busy |-> Busy(chat)]
Flush  == shown' = Screen'

\* Events and answers already there may be handled before the next render,
\* what the backend does later comes after it.
Render ==
  /\ shown # Screen
  /\ shown' = Screen
  /\ UNCHANGED <<queue, chat, calls, backend, events, extras>>

-----------------------------------------------------------------------------
(* The user *)

\* Mutant: the head goes out and the new prompt is not put in the queue.
SendDropped(m) ==
  LET head == DrainHead(shown.items, shown.editing, Idle(chat)) IN
  /\ m \notin typed
  /\ typed' = typed \cup {m}
  /\ \/ /\ shown.busy
        /\ items' = Append(items, m) /\ Keep(chat, calls)
     \/ /\ ~shown.busy /\ head # NoMessage
        /\ items' = Without(items, head)
        /\ SendNow(head, chat, calls)
     \/ /\ ~shown.busy /\ head = NoMessage /\ shown.items # <<>>
        /\ items' = Append(items, m) /\ Keep(chat, calls)
     \/ /\ ~shown.busy /\ head = NoMessage /\ shown.items = <<>>
        /\ SendNow(m, chat, calls) /\ UNCHANGED items
  /\ UNCHANGED <<editing, deleted, backend, events, extras>>
  /\ Flush

\* handleSend: queue it, or send the head, or send it.
Send(m) ==
  LET head == DrainHead(shown.items, shown.editing, Idle(chat)) IN
  /\ m \notin typed
  /\ typed' = typed \cup {m}
  /\ \/ /\ shown.busy
        /\ items' = Append(items, m) /\ Keep(chat, calls)
     \/ /\ ~shown.busy /\ head # NoMessage
        /\ items' = Without(Append(items, m), head)
        /\ SendNow(head, chat, calls)
     \/ /\ ~shown.busy /\ head = NoMessage /\ shown.items # <<>>
        /\ items' = Append(items, m) /\ Keep(chat, calls)
     \/ /\ ~shown.busy /\ head = NoMessage /\ shown.items = <<>>
        /\ SendNow(m, chat, calls) /\ UNCHANGED items
  /\ UNCHANGED <<editing, deleted, backend, events, extras>>
  /\ Flush

Edit(m) ==
  /\ m \in Elements(shown.items) /\ editing' = m
  /\ Extra
  /\ UNCHANGED <<items, typed, sent, deleted, chat, calls, backend, events>>
  /\ Flush

\* handleQueueCommit: the text is kept, or emptied, which deletes the prompt;
\* an idle session then sends the head, unless an emptied one was not it.
Commit(emptied) ==
  LET m    == shown.editing
      isHead == shown.items # <<>> /\ Head(shown.items) = m
      left == IF emptied THEN Without(shown.items, m) ELSE shown.items
      head == DrainHead(left, NoMessage, Idle(chat) /\ (isHead \/ ~emptied))
      rest == IF emptied THEN Without(items, m) ELSE items
  IN
  /\ m \in Elements(shown.items)
  /\ editing' = NoMessage
  /\ deleted' = IF emptied THEN deleted \cup {m} ELSE deleted
  /\ IF head = NoMessage
     THEN items' = rest /\ Keep(chat, calls)
     ELSE items' = Without(rest, head) /\ SendNow(head, chat, calls)
  /\ UNCHANGED <<typed, backend, events, extras>>
  /\ Flush

\* Escape or blur.
CancelEdit ==
  /\ shown.editing \in Elements(shown.items)
  /\ editing' = NoMessage
  /\ UNCHANGED <<items, typed, sent, deleted, chat, calls, backend, events, extras>>
  /\ Flush

\* moveQueuedItem, up by one; down is the same for the one below.
Move(i) ==
  /\ i \in 2..Len(items)
  /\ items' = [items EXCEPT ![i] = items[i - 1], ![i - 1] = items[i]]
  /\ Extra
  /\ UNCHANGED <<editing, typed, sent, deleted, chat, calls, backend, events>>
  /\ Flush

\* STOP shows while the session is busy.
Stop ==
  /\ shown.busy
  /\ Issue("stop", extras, calls) /\ Extra
  /\ UNCHANGED <<queue, chat, shown, backend, events>>

\* The card on the screen is answered.
Answer ==
  /\ chat.asked
  /\ ~\E c \in calls : c.cmd = "answer"
  /\ Issue("answer", 0, calls)
  /\ UNCHANGED <<queue, chat, shown, backend, events, extras>>

\* handleRetry.
Retry ==
  /\ ~shown.busy /\ chat.erred
  /\ chat' = [chat EXCEPT !.failed = FALSE]
  /\ Issue("retry", extras, calls) /\ Extra
  /\ UNCHANGED <<queue, backend, events>>
  /\ Flush

-----------------------------------------------------------------------------
(* The backend *)

Reply(c, r) == calls' = (calls \ {c}) \cup {[c EXCEPT !.reply = r]}

\* send_prompt and retry_last, from start_turn on or given up before it.
Prompted(c) ==
  /\ c.cmd \in {"prompt", "retry"} /\ c.reply = "none" /\ history # "loading"
  /\ \/ /\ working \/ "prompt" \in Faults
        /\ Reply(c, "error")
        /\ UNCHANGED <<working, live, prompted, turns>>
     \/ /\ ~working /\ (c.cmd = "retry" => prompted)
        /\ Reply(c, "ok")
        /\ working' = TRUE /\ live' = TRUE /\ prompted' = TRUE
        /\ turns' = turns \cup {[cmd |-> c.cmd, id |-> c.id, stopped |-> FALSE]}
     \/ /\ c.cmd = "retry" /\ ~prompted
        /\ Reply(c, "none to retry")
        /\ UNCHANGED <<working, live, prompted, turns>>
  /\ UNCHANGED <<queue, chat, shown, card, history, events, extras>>

\* cancel_turn: open cards are answered as cancelled, the agent is told.
Stopped(c) ==
  /\ c.cmd = "stop" /\ c.reply = "none"
  /\ IF live
     THEN /\ Reply(c, "ok")
          /\ card' = IF card = "asked" THEN "answered" ELSE card
          /\ turns' = {[t EXCEPT !.stopped = TRUE] : t \in turns}
          /\ working' = FALSE
     ELSE Reply(c, "error") /\ UNCHANGED <<card, turns, working>>
  /\ UNCHANGED <<queue, chat, shown, live, prompted, history, events, extras>>

\* answer_permission.
Answered(c) ==
  /\ c.cmd = "answer" /\ c.reply = "none"
  /\ IF card = "asked"
     THEN card' = "answered" /\ Reply(c, "ok")
     ELSE Reply(c, "error") /\ UNCHANGED card
  /\ UNCHANGED <<queue, chat, shown, working, live, prompted, turns, history, events, extras>>

\* handle_permission_request asks, and answers the agent once it is decided;
\* during a replay it only shows.  One card at a time.
AskCard ==
  /\ turns # {} /\ card = "none"
  /\ \/ /\ history # "loading"
        /\ card' = "asked" /\ Emit("asked")
     \/ /\ history = "loading"
        /\ events' = events \o <<"asked", "resolved">> /\ UNCHANGED card
  /\ Extra
  /\ UNCHANGED <<queue, chat, shown, calls, working, live, prompted, turns, history>>

CloseCard ==
  /\ card = "answered"
  /\ card' = "none"
  /\ Emit("resolved")
  /\ UNCHANGED <<queue, chat, shown, calls, working, live, prompted, turns, history, extras>>

\* handle_notification.
TurnText ==
  /\ turns # {} /\ card # "asked"
  /\ Emit("text") /\ Extra
  /\ UNCHANGED <<queue, chat, shown, calls, backend>>

\* The answer of a turn; a failure may be the end of the connection.
TurnEnd(t) ==
  /\ t \in turns /\ card # "asked"
  /\ turns' = turns \ {t}
  /\ working' = FALSE
  /\ \/ Emit("done") /\ UNCHANGED live
     \/ "turn" \in Faults /\ Emit("failed") /\ live' \in {live, FALSE}
  /\ UNCHANGED <<queue, chat, shown, calls, prompted, card, history, extras>>

\* load_history, once, and only when no turn runs; a failed one may run again.
ReplayBegin ==
  /\ ~working /\ history = "none"
  /\ history' = "loading"
  /\ Emit("begin") /\ Extra
  /\ UNCHANGED <<queue, chat, shown, calls, working, live, prompted, turns, card>>

ReplayEnd ==
  /\ history = "loading"
  /\ \/ history' = "loaded" /\ live' = TRUE /\ Emit("replayed")
     \/ /\ "replay" \in Faults
        /\ history' = "none" /\ UNCHANGED live /\ Emit("unreplayed")
  /\ UNCHANGED <<queue, chat, shown, calls, working, prompted, turns, card, extras>>

-----------------------------------------------------------------------------
(* What comes back to the frontend *)

\* applySessionEvent.
Applied(event) ==
  CASE event = "text" ->
         IF chat.replaying THEN chat ELSE [chat EXCEPT !.working = TRUE, !.failed = FALSE]
    [] event = "done" ->
         [chat EXCEPT !.working = FALSE, !.approval = FALSE, !.failed = FALSE]
    [] event = "failed" ->
         [chat EXCEPT !.working = FALSE, !.approval = FALSE, !.failed = TRUE, !.erred = TRUE]
    [] event = "asked" ->
         IF chat.replaying THEN chat ELSE [chat EXCEPT !.approval = TRUE, !.asked = TRUE]
    [] event = "resolved" -> [chat EXCEPT !.asked = FALSE]
    [] event = "begin" -> [chat EXCEPT !.replaying = TRUE]
    [] event \in {"replayed", "unreplayed"} -> [chat EXCEPT !.replaying = FALSE]
    [] OTHER -> chat

\* handleEvent: ends of turns and replays drain the queue.
Event ==
  /\ events # <<>>
  /\ events' = Tail(events)
  /\ LET c == Applied(Head(events)) IN
     IF Head(events) \in {"done", "replayed"}
     THEN Drain(c, Idle(c), calls)
     ELSE Keep(c, calls) /\ UNCHANGED items
  /\ UNCHANGED <<editing, typed, deleted, shown, backend, extras>>

\* The answer of a command reaches the handler that awaits it.
Back(c) ==
  /\ c.reply # "none"
  /\ CASE c.cmd = "prompt" /\ c.reply = "error" ->
            chat' = [chat EXCEPT !.working = FALSE, !.erred = TRUE]
       [] c.cmd = "retry" /\ c.reply = "error" -> chat' = [chat EXCEPT !.erred = TRUE]
       [] c.cmd = "retry" /\ c.reply = "ok" -> chat' = [chat EXCEPT !.working = TRUE]
       [] c.cmd = "answer" /\ c.reply = "ok" ->
            chat' = [chat EXCEPT !.approval = FALSE, !.working = TRUE]
       [] OTHER -> chat' = chat
  /\ calls' = calls \ {c}
  /\ c.cmd # "stop"
  /\ UNCHANGED <<queue, shown, backend, events, extras>>

\* handleStop: the session is idle, and its queue goes on unless it failed.
BackStopped(c) ==
  /\ c.cmd = "stop" /\ c.reply # "none"
  /\ Drain([chat EXCEPT !.working = FALSE, !.approval = FALSE],
           c.reply = "ok" /\ ~chat.failed /\ ~chat.replaying, calls \ {c})
  /\ UNCHANGED <<editing, typed, deleted, shown, backend, events, extras>>

-----------------------------------------------------------------------------
Flags == {"working", "approval", "failed", "replaying", "asked", "erred"}

Init ==
  /\ items = <<>> /\ editing = NoMessage
  /\ chat = [f \in Flags |-> FALSE]
  /\ shown = [items |-> <<>>, editing |-> NoMessage, busy |-> FALSE]
  /\ typed = {} /\ sent = <<>> /\ deleted = {}
  /\ calls = {} /\ events = <<>>
  /\ working = FALSE /\ live = FALSE /\ prompted = FALSE /\ turns = {}
  /\ card = "none" /\ history = "none"
  /\ extras = 0

User ==
  \/ \E m \in Messages : Send(m) \/ Edit(m)
  \/ \E emptied \in BOOLEAN : Commit(emptied)
  \/ \E i \in 2..Len(items) : Move(i)
  \/ CancelEdit \/ Stop \/ Answer \/ Retry

Backend ==
  \/ \E c \in calls : Prompted(c) \/ Stopped(c) \/ Answered(c)
  \/ CloseCard
  \/ ReplayEnd

Agent ==
  \/ AskCard \/ TurnText \/ ReplayBegin
  \/ \E t \in turns : TurnEnd(t)

Frontend == Render \/ Event \/ \E c \in calls : Back(c) \/ BackStopped(c)

Next == User \/ Frontend \/ (shown = Screen /\ (Backend \/ Agent))

Spec == Init /\ [][Next]_vars

-----------------------------------------------------------------------------
(* Properties *)

\* Types.
TypeOK ==
  /\ items \in Seq(Messages) /\ sent \in Seq(Messages)
  /\ editing \in Messages \cup {NoMessage}
  /\ chat \in [Flags -> BOOLEAN]
  /\ shown.items \in Seq(Messages) /\ shown.busy \in BOOLEAN
  /\ typed \subseteq Messages /\ deleted \subseteq Messages
  /\ card \in {"none", "asked", "answered"}
  /\ history \in {"none", "loading", "loaded"}

\* Every prompt the user typed waits in the queue, was handed to the backend
\* or was deleted by the user, however renders, events and answers interleave.
NothingLost == typed = Elements(items) \cup Elements(sent) \cup deleted

\* A prompt open in the editor is not sent from under the user.
EditedStays ==
  [][\A m \in Messages :
       editing = m /\ editing' = m /\ m \in Elements(sent') => m \in Elements(sent)]_vars

\* The queue, with all its renders, events and answers, implements the abstract
\* delivery of prompts: they are handed over in the order the user sees, each
\* once but for the latest, which drains before a render hand over again.
Delivery == INSTANCE PromptDelivery
  WITH waiting <- items, handed <- sent, withdrawn <- deleted
DeliverySpec == Delivery!Spec

\* Prompts on their way to the agent or being answered.
UnderWay ==
  {c.id : c \in {d \in calls : d.cmd = "prompt" /\ d.reply = "none"}}
    \cup {t.id : t \in {u \in turns : u.cmd = "prompt" /\ ~u.stopped}}

\* A queued prompt is sent, unless the user types or commits one, only when no
\* other prompt is on its way to the agent or answered by it.
BusyNeverDrains ==
  [][sent' # sent /\ typed' = typed /\ editing' = editing => UnderWay = {}]_vars

=============================================================================
