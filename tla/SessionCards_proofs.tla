------------------------ MODULE SessionCards_proofs ------------------------
(***************************************************************************)
(* What SessionCards keeps true for any sessions, tool calls, lists and    *)
(* bounds, whether or not a connection waits with its handlers.            *)
(***************************************************************************)
EXTENDS SessionCards, SequenceTheorems, TLAPS

Waits == {"held", "flagged", "waiting"}       \* the sender is registered

EntryOf(C, R) ==
  [held : BOOLEAN, conn : {None} \cup C, id : 0..MaxConns, working : BOOLEAN,
   approval : BOOLEAN, todos : Lists \cup {Cleared}, pending : [Calls -> {None} \cup R]]
ConnRec == [key : Sessions, id : 1..MaxConns, closed : BOOLEAN]
StartOf(C) ==
  [pc : {"idle", "connect", "new", "reset", "load", "settle", "done"},
   conn : {None} \cup C, load : BOOLEAN]
Outcomes == {"selected", "cancelled", "gone"}
Steps == {"routed", "admitted", "held", "flagged", "waiting", "decided", "answered",
          "done", "lost"}
Replies == {"none", "selected", "cancelled"}
AskOf(C) ==
  [conn : C, call : Calls, chosen : 0..MaxAsks, chan : {"open"} \cup Outcomes,
   pc : Steps, reply : Replies]
CardRec == [ask : AskIds, call : Calls, resolved : BOOLEAN]
ChatRec == [phase : {"idle", "preparing", "replaying", "failed"},
            cards : SUBSET CardRec, todos : Lists \cup {Cleared}]

\* TypeOK by these names.
Types ==
  /\ live \in [Sessions -> EntryOf(DOMAIN conns, DOMAIN asks)]
  /\ past \in [Sessions -> 0..MaxConns]
  /\ conns \in Seq(ConnRec) /\ Len(conns) <= MaxConns
  /\ start \in [Sessions -> StartOf(DOMAIN conns)]
  /\ loaded \subseteq Sessions /\ turn \subseteq DOMAIN conns
  /\ drop \in [Sessions -> {None} \cup DOMAIN conns]
  /\ asks \in Seq(AskOf(DOMAIN conns)) /\ Len(asks) <= MaxAsks
  /\ chat \in [Sessions -> ChatRec]
  /\ blame \subseteq DOMAIN asks /\ hidden \subseteq DOMAIN asks /\ met \subseteq DOMAIN asks

\* What an entry registers under a tool call is a request of it that has no
\* decision yet; without an entry nothing is registered.
Holds(k) ==
  /\ \A call \in Calls : LET r == live[k].pending[call] IN r # None =>
       /\ r \in DOMAIN asks /\ asks[r].call = call /\ Key(r) = k
       /\ asks[r].chan = "open" /\ asks[r].pc \in Waits \cup {"lost"}
  /\ ~Held(k) => \A call \in Calls : live[k].pending[call] = None

\* A handler has its sender registered until there is a decision.
Registered(r) ==
  /\ asks[r].pc \in {"routed", "admitted"} => asks[r].chan = "open"
  /\ asks[r].pc \in Waits /\ asks[r].chan = "open" =>
       live[Key(r)].pending[asks[r].call] = r

\* `met' has the requests that were handled beside another of their key.
Together(r, q) ==
  r # q /\ Key(r) = Key(q) /\ Busy(r) /\ Busy(q) => r \in met

\* A sender that went without a decision was taken by what `blame' records.
Blamed(r) ==
  /\ asks[r].pc = "decided" => asks[r].chan # "open"
  /\ r \notin met /\ asks[r].pc # "lost" /\ asks[r].chan \in {"cancelled", "gone"} => r \in blame
  /\ r \notin met /\ asks[r].pc = "answered" /\ asks[r].reply = "cancelled" => r \in blame

\* A decision came from the request's own card, or one that was abandoned.
Chosen(r) ==
  /\ asks[r].reply = "selected" =>
       asks[r].chan = "selected" /\ asks[r].pc \in {"answered", "done"}
  /\ r \notin met /\ asks[r].pc # "lost" /\ asks[r].chan = "selected" =>
       \/ asks[r].chosen = r
       \/ asks[r].chosen \in DOMAIN asks /\ asks[asks[r].chosen].pc = "lost"

\* A card belongs to a request of the key; while its buttons are enabled the
\* request has reached the screen and is not over.
Belongs(k) == \A card \in chat[k].cards :
  /\ card.ask \in DOMAIN asks /\ Key(card.ask) = k /\ card.call = asks[card.ask].call
  /\ ~card.resolved => asks[card.ask].pc \in {"waiting", "decided", "answered", "lost"}

Flagged(r) ==
  r \notin met /\ asks[r].pc \in {"flagged", "waiting"} /\ asks[r].chan = "open" =>
    live[Key(r)].approval
Shown(r) ==
  r \notin met \cup hidden /\ asks[r].pc = "waiting" /\ asks[r].chan = "open" =>
    \E card \in chat[Key(r)].cards : card.ask = r /\ ~card.resolved

Requests ==
  /\ \A k \in Sessions : Holds(k) /\ Belongs(k)
  /\ \A r \in DOMAIN asks : Registered(r) /\ Blamed(r) /\ Chosen(r) /\ Flagged(r) /\ Shown(r)
  /\ \A r, q \in DOMAIN asks : Together(r, q)

\* The list on screen through a start: it is cleared before a load and after
\* a new session, and a key that has no entry yet shows none.
Listed(k) ==
  /\ start[k].pc \in {"new", "load", "reset", "settle", "done"} => Held(k)
  /\ start[k].pc = "connect" /\ ~start[k].load => k \notin left
  /\ ~Held(k) /\ (k \notin left \/ start[k].load) => chat[k].todos = Cleared
  /\ Held(k) /\ start[k].pc # "reset" /\ k \notin unsaid => chat[k].todos = live[k].todos

\* What no step does to the requests and connections there are.
Handles ==
  /\ asks' \in Seq(AskOf(DOMAIN conns)) /\ DOMAIN asks' = DOMAIN asks
  /\ Len(asks') = Len(asks)
  /\ \A r \in DOMAIN asks : asks'[r].conn = asks[r].conn /\ asks'[r].call = asks[r].call
KeysStay ==
  /\ DOMAIN conns \subseteq DOMAIN conns'
  /\ \A c \in DOMAIN conns : conns'[c].key = conns[c].key

\* A step that writes one sender of one entry.
SlotSet(k, call, v) ==
  \A i \in Sessions :
    /\ live'[i].held = live[i].held /\ live'[i].approval = live[i].approval
    /\ \A c \in Calls :
         live'[i].pending[c] = IF i = k /\ c = call THEN v ELSE live[i].pending[c]

Screens == \A k \in Sessions : Listed(k)

Inv == Types /\ Requests /\ Screens

-----------------------------------------------------------------------------
(* Types *)

LEMMA Constants ==
  /\ Cleared \notin Lists /\ MaxConns \in Nat /\ MaxAsks \in Nat
  /\ None = 0 /\ AskIds = 1..MaxAsks /\ ConnIds = 1..MaxConns
  BY SessionCardsAssumption DEF None, AskIds, ConnIds

\* A new entry, and none.
LEMMA EntryType ==
  ASSUME NEW C, NEW R, NEW c \in {None} \cup C, NEW id \in 0..MaxConns
  PROVE  /\ Entry(c, id) \in EntryOf(C, R)
         /\ Entry(c, id).held /\ Entry(c, id).pending = NoSenders
         /\ Entry(c, id).todos = Cleared /\ Entry(c, id).conn = c /\ Entry(c, id).id = id
  BY Constants DEF Entry, EntryOf, NoSenders

LEMMA GoneType ==
  ASSUME NEW C, NEW R
  PROVE  Gone \in EntryOf(C, R) /\ ~Gone.held /\ Gone.pending = NoSenders
         /\ Gone.todos = Cleared
  <1>1. None \in {None} \cup C /\ None \in 0..MaxConns
    BY Constants
  <1>2. Entry(None, None) \in EntryOf(C, R) /\ Entry(None, None).pending = NoSenders
        /\ Entry(None, None).todos = Cleared
    BY <1>1, EntryType
  <1> QED BY <1>2 DEF EntryOf, Gone

LEMMA TypesSame == Types => TypeOK
  BY DEF Types, TypeOK, EntryOf, ConnRec, StartOf, AskOf, Outcomes, Steps, Replies,
         ChatRec, CardRec

\* What the functions and sequences hold.
LEMMA Members ==
  ASSUME Types
  PROVE  /\ \A k \in Sessions : /\ live[k] \in EntryOf(DOMAIN conns, DOMAIN asks)
                                /\ start[k] \in StartOf(DOMAIN conns)
                                /\ chat[k] \in ChatRec
         /\ \A c \in DOMAIN conns : conns[c] \in ConnRec
         /\ \A r \in DOMAIN asks : asks[r] \in AskOf(DOMAIN conns) /\ Key(r) \in Sessions
         /\ DOMAIN asks = 1..Len(asks) /\ Len(asks) \in Nat
         /\ DOMAIN conns = 1..Len(conns) /\ Len(conns) \in Nat
  <1>1. \A k \in Sessions : /\ live[k] \in EntryOf(DOMAIN conns, DOMAIN asks)
                            /\ start[k] \in StartOf(DOMAIN conns)
                            /\ chat[k] \in ChatRec
    BY DEF Types
  <1>2. /\ DOMAIN asks = 1..Len(asks) /\ Len(asks) \in Nat
        /\ DOMAIN conns = 1..Len(conns) /\ Len(conns) \in Nat
    BY DEF Types
  <1>3. \A c \in DOMAIN conns : conns[c] \in ConnRec
    BY DEF Types
  <1>4. \A r \in DOMAIN asks : asks[r] \in AskOf(DOMAIN conns)
    BY DEF Types
  <1>5. \A r \in DOMAIN asks : Key(r) \in Sessions
    BY <1>3, <1>4 DEF AskOf, ConnRec, Key
  <1> QED BY <1>1, <1>2, <1>3, <1>4, <1>5

-----------------------------------------------------------------------------
(* Requests that change *)

\* One request changes.
LEMMA UpdateType ==
  ASSUME NEW C, NEW s \in Seq(AskOf(C)), NEW r \in DOMAIN s, NEW a \in AskOf(C)
  PROVE  LET t == [s EXCEPT ![r] = a] IN
         /\ t \in Seq(AskOf(C)) /\ DOMAIN t = DOMAIN s /\ Len(t) = Len(s)
         /\ \A q \in DOMAIN s : t[q] = IF q = r THEN a ELSE s[q]
  OBVIOUS

\* Some senders are settled.
LEMMA SettledType ==
  ASSUME Types, NEW R, NEW outcome \in Outcomes
  PROVE  LET s == Settled(R, outcome) IN
         /\ s \in Seq(AskOf(DOMAIN conns)) /\ DOMAIN s = DOMAIN asks /\ Len(s) = Len(asks)
         /\ \A r \in DOMAIN asks :
              /\ s[r].conn = asks[r].conn /\ s[r].call = asks[r].call
              /\ s[r].chosen = asks[r].chosen /\ s[r].pc = asks[r].pc
              /\ s[r].reply = asks[r].reply
              /\ s[r].chan = IF r \in R /\ asks[r].chan = "open" THEN outcome ELSE asks[r].chan
  <1>1. \A r \in DOMAIN asks : /\ asks[r] \in AskOf(DOMAIN conns)
                               /\ [asks[r] EXCEPT !.chan = outcome] \in AskOf(DOMAIN conns)
    BY Members DEF AskOf
  <1>2. Settled(R, outcome) \in [1..Len(asks) -> AskOf(DOMAIN conns)]
    BY <1>1, Members DEF Settled
  <1>3. \A r \in DOMAIN asks : Settled(R, outcome)[r] =
          IF r \in R /\ asks[r].chan = "open" THEN [asks[r] EXCEPT !.chan = outcome] ELSE asks[r]
    BY DEF Settled
  <1>4. Settled(R, outcome) \in Seq(AskOf(DOMAIN conns)) /\ Len(Settled(R, outcome)) = Len(asks)
    BY <1>2, Members
  <1> QED BY <1>1, <1>2, <1>3, <1>4, Members DEF AskOf

\* A handler goes on.
LEMMA GoesOn ==
  ASSUME Types, NEW r \in DOMAIN asks, NEW pc \in Steps, Goes(r, pc)
  PROVE  Handles /\ \A q \in DOMAIN asks :
           /\ asks'[q].chan = asks[q].chan /\ asks'[q].chosen = asks[q].chosen
           /\ asks'[q].reply = asks[q].reply
           /\ asks'[q].pc = IF q = r THEN pc ELSE asks[q].pc
  <1> DEFINE a == [asks[r] EXCEPT !.pc = pc]
  <1>1. a \in AskOf(DOMAIN conns) /\ asks \in Seq(AskOf(DOMAIN conns))
    BY Members DEF AskOf, Types
  <1>2. asks' = [asks EXCEPT ![r] = a]
    BY DEF Goes
  <1>3. /\ a.conn = asks[r].conn /\ a.call = asks[r].call /\ a.chan = asks[r].chan
        /\ a.chosen = asks[r].chosen /\ a.reply = asks[r].reply /\ a.pc = pc
    BY Members DEF AskOf
  <1> HIDE DEF a
  <1> QED BY <1>1, <1>2, <1>3, UpdateType DEF Handles

\* A handler goes on, and some senders are settled.
LEMMA SettlesAndGoes ==
  ASSUME Types, NEW r \in DOMAIN asks, NEW pc \in Steps, NEW R, NEW outcome \in Outcomes,
         asks' = [Settled(R, outcome) EXCEPT ![r].pc = pc]
  PROVE  Handles /\ \A q \in DOMAIN asks :
           /\ asks'[q].chosen = asks[q].chosen /\ asks'[q].reply = asks[q].reply
           /\ asks'[q].pc = IF q = r THEN pc ELSE asks[q].pc
           /\ asks'[q].chan = IF q \in R /\ asks[q].chan = "open" THEN outcome ELSE asks[q].chan
  <1> DEFINE s == Settled(R, outcome)  a == [s[r] EXCEPT !.pc = pc]
  <1>1. s \in Seq(AskOf(DOMAIN conns)) /\ DOMAIN s = DOMAIN asks /\ Len(s) = Len(asks)
    BY SettledType
  <1>2. s[r] \in AskOf(DOMAIN conns)
    BY <1>1
  <1>3. asks' = [s EXCEPT ![r] = a]
    OBVIOUS
  <1>4. /\ a \in AskOf(DOMAIN conns)
        /\ a.conn = s[r].conn /\ a.call = s[r].call /\ a.chan = s[r].chan
        /\ a.chosen = s[r].chosen /\ a.reply = s[r].reply /\ a.pc = pc
    BY <1>2 DEF AskOf
  <1>5. \A q \in DOMAIN asks :
          /\ s[q].conn = asks[q].conn /\ s[q].call = asks[q].call
          /\ s[q].chosen = asks[q].chosen /\ s[q].pc = asks[q].pc
          /\ s[q].reply = asks[q].reply
          /\ s[q].chan = IF q \in R /\ asks[q].chan = "open" THEN outcome ELSE asks[q].chan
    BY SettledType
  <1> HIDE DEF s, a
  <1> DEFINE t == [s EXCEPT ![r] = a]
  <1>6. t \in Seq(AskOf(DOMAIN conns)) /\ DOMAIN t = DOMAIN s /\ Len(t) = Len(s)
        /\ \A q \in DOMAIN s : t[q] = IF q = r THEN a ELSE s[q]
    <2> r \in DOMAIN s
      BY <1>1
    <2> QED BY ONLY <1>1, <1>4, UpdateType
  <1>7. asks' = t
    BY <1>3
  <1> HIDE DEF t
  <1>8. /\ asks' \in Seq(AskOf(DOMAIN conns)) /\ DOMAIN asks' = DOMAIN asks
        /\ Len(asks') = Len(asks)
        /\ \A q \in DOMAIN asks : asks'[q] = IF q = r THEN a ELSE s[q]
    BY ONLY <1>1, <1>6, <1>7
  <1> QED BY ONLY r \in DOMAIN asks, <1>4, <1>5, <1>8 DEF Handles

\* A handler answers.
LEMMA RepliesTo ==
  ASSUME Types, NEW r \in DOMAIN asks, NEW pc \in Steps, NEW reply \in Replies,
         asks' = [asks EXCEPT ![r].pc = pc, ![r].reply = reply]
  PROVE  Handles /\ \A q \in DOMAIN asks :
           /\ asks'[q].chan = asks[q].chan /\ asks'[q].chosen = asks[q].chosen
           /\ asks'[q].reply = (IF q = r THEN reply ELSE asks[q].reply)
           /\ asks'[q].pc = IF q = r THEN pc ELSE asks[q].pc
  <1> DEFINE a == [asks[r] EXCEPT !.pc = pc, !.reply = reply]
  <1>1. a \in AskOf(DOMAIN conns) /\ asks \in Seq(AskOf(DOMAIN conns))
    BY Members DEF AskOf, Types
  <1>2. asks' = [asks EXCEPT ![r] = a]
    BY Members DEF AskOf
  <1>3. /\ a.conn = asks[r].conn /\ a.call = asks[r].call /\ a.chan = asks[r].chan
        /\ a.chosen = asks[r].chosen /\ a.reply = reply /\ a.pc = pc
    BY Members DEF AskOf
  <1> HIDE DEF a
  <1> DEFINE t == [asks EXCEPT ![r] = a]
  <1>4. t \in Seq(AskOf(DOMAIN conns)) /\ DOMAIN t = DOMAIN asks /\ Len(t) = Len(asks)
        /\ \A q \in DOMAIN asks : t[q] = IF q = r THEN a ELSE asks[q]
    BY <1>1, UpdateType
  <1>5. asks' = t
    BY <1>2
  <1> HIDE DEF t
  <1> QED BY <1>3, <1>4, <1>5 DEF Handles

-----------------------------------------------------------------------------
(* Types of what a step writes *)

\* An entry is replaced.
LEMMA EntryPut ==
  ASSUME Types, NEW k \in Sessions, NEW e \in EntryOf(DOMAIN conns, DOMAIN asks),
         live' = [live EXCEPT ![k] = e]
  PROVE  live' \in [Sessions -> EntryOf(DOMAIN conns, DOMAIN asks)]
  BY DEF Types

\* A connection is changed.
LEMMA ConnPut ==
  ASSUME Types, NEW c \in DOMAIN conns, NEW a \in ConnRec
  PROVE  LET t == [conns EXCEPT ![c] = a] IN
         /\ t \in Seq(ConnRec) /\ Len(t) = Len(conns) /\ DOMAIN t = DOMAIN conns
         /\ t[c] = a /\ \A d \in DOMAIN conns : d # c => t[d] = conns[d]
  <1>1. conns \in Seq(ConnRec)
    BY DEF Types
  <1> QED BY <1>1

\* An entry whose turn is over.
LEMMA EndedType ==
  ASSUME NEW D, NEW Q, NEW e \in EntryOf(D, Q)
  PROVE  /\ [e EXCEPT !.working = FALSE, !.conn = None, !.id = None] \in EntryOf(D, Q)
         /\ [e EXCEPT !.working = FALSE] \in EntryOf(D, Q)
  <1>1. None \in {None} \cup D /\ None \in 0..MaxConns
    BY Constants
  <1> QED BY <1>1 DEF EntryOf

LEMMA BeginSpawnTypes ==
  ASSUME Types, NEW k \in Sessions, BeginSpawn(k)
  PROVE  Types'
  BY Constants DEF history, counts, Types, StartOf, ChatRec, BeginSpawn, Resting

LEMMA HistoryDoneTypes ==
  ASSUME Types, NEW k \in Sessions, HistoryDone(k)
  PROVE  Types'
  BY Constants DEF history, counts, Types, StartOf, ChatRec, HistoryDone, Resting

LEMMA FailStartTypes ==
  ASSUME Types, NEW k \in Sessions, FailStart(k)
  PROVE  Types'
  BY Constants DEF history, counts, Types, StartOf, ChatRec, FailStart, Resting

LEMMA CloseAnsweredTypes ==
  ASSUME Types, NEW k \in Sessions, CloseAnswered(k)
  PROVE  Types'
  BY Constants DEF history, counts, Types, CloseAnswered

LEMMA BeginLoadTypes ==
  ASSUME Types, NEW k \in Sessions, Requests, BeginLoad(k)
  PROVE  Types'
  <1>1. start' \in [Sessions -> StartOf(DOMAIN conns)]
    BY Constants DEF BeginLoad, Types, StartOf
  <1>2. chat' \in [Sessions -> ChatRec]
    BY DEF BeginLoad, Types, ChatRec
  <1>3. \A card \in chat[k].cards : card.ask \in DOMAIN asks
    BY DEF Requests, Belongs
  <1>4. hidden' \subseteq DOMAIN asks'
    BY <1>3 DEF BeginLoad, Types
  <1> QED BY <1>1, <1>2, <1>3, <1>4 DEF BeginLoad, Types, history, counts

LEMMA ResetTypes ==
  ASSUME Types, NEW k \in Sessions, Reset(k)
  PROVE  Types'
  <1>1. start' \in [Sessions -> StartOf(DOMAIN conns)]
    BY Constants DEF Reset, Types, StartOf, Resting
  <1>2. chat' \in [Sessions -> ChatRec]
    BY DEF Reset, Types, ChatRec
  <1> QED BY <1>1, <1>2 DEF Reset, Types, history, counts

LEMMA EndLoadTypes ==
  ASSUME Types, NEW k \in Sessions, EndLoad(k)
  PROVE  Types'
  <1>1. start' \in [Sessions -> StartOf(DOMAIN conns)]
    BY DEF EndLoad, Types, StartOf
  <1> QED BY <1>1 DEF EndLoad, Types, history, counts

LEMMA StartTurnTypes ==
  ASSUME Types, NEW k \in Sessions, StartTurn(k)
  PROVE  Types'
  <1>1. live[k] \in EntryOf(DOMAIN conns, DOMAIN asks)
    BY Members
  <1>2. [live[k] EXCEPT !.working = TRUE] \in EntryOf(DOMAIN conns, DOMAIN asks)
    BY <1>1 DEF EntryOf
  <1>3. live' \in [Sessions -> EntryOf(DOMAIN conns, DOMAIN asks)]
    BY <1>2, EntryPut DEF StartTurn
  <1>4. live[k].conn \in DOMAIN conns
    BY <1>1 DEF StartTurn, IsLive, Usable, EntryOf
  <1> QED BY <1>1, <1>2, <1>3, <1>4 DEF StartTurn, Types, history, counts

LEMMA ExitTypes ==
  ASSUME Types, NEW c \in ConnIds, Exit(c)
  PROVE  Types'
  <1>1. [conns[c] EXCEPT !.closed = TRUE] \in ConnRec
    BY Members DEF Exit, ConnRec
  <1>2. conns' = [conns EXCEPT ![c] = [conns[c] EXCEPT !.closed = TRUE]] /\ c \in DOMAIN conns
    BY DEF Exit
  <1>3. conns' \in Seq(ConnRec) /\ Len(conns') = Len(conns) /\ DOMAIN conns' = DOMAIN conns
    BY <1>1, <1>2, ConnPut
  <1> QED BY <1>1, <1>2, <1>3 DEF Exit, Types, history, counts

LEMMA EndTurnTypes ==
  ASSUME Types, NEW c \in ConnIds, EndTurn(c)
  PROVE  Types'
  <1>1. c \in DOMAIN conns
    BY DEF EndTurn, Types
  <1>2. conns[c].key \in Sessions
    BY <1>1, Members DEF ConnRec
  <1>3. live[conns[c].key] \in EntryOf(DOMAIN conns, DOMAIN asks)
    BY <1>2, Members
  <1>4. /\ [live[conns[c].key] EXCEPT !.working = FALSE, !.conn = None, !.id = None]
               \in EntryOf(DOMAIN conns, DOMAIN asks)
        /\ [live[conns[c].key] EXCEPT !.working = FALSE] \in EntryOf(DOMAIN conns, DOMAIN asks)
    BY <1>3, EndedType
  <1>5. live' \in [Sessions -> EntryOf(DOMAIN conns, DOMAIN asks)]
    BY <1>2, <1>3, <1>4, EntryPut DEF EndTurn, Types
  <1> QED BY <1>1, <1>2, <1>3, <1>4, <1>5 DEF EndTurn, Types, history, counts

LEMMA TodoTypes ==
  ASSUME Types, NEW c \in ConnIds, NEW list \in Lists \cup {Cleared}, Todo(c, list)
  PROVE  Types'
  <1>1. conns[c].key \in Sessions
    BY Members DEF ConnRec, Todo, Free
  <1>2. /\ live[conns[c].key] \in EntryOf(DOMAIN conns, DOMAIN asks)
        /\ chat[conns[c].key] \in ChatRec
    BY <1>1, Members
  <1>3. /\ [live[conns[c].key] EXCEPT !.todos = list] \in EntryOf(DOMAIN conns, DOMAIN asks)
        /\ [chat[conns[c].key] EXCEPT !.todos = list] \in ChatRec
    BY <1>2 DEF EntryOf, ChatRec
  <1>4. live' \in [Sessions -> EntryOf(DOMAIN conns, DOMAIN asks)]
    BY <1>1, <1>3, EntryPut DEF Todo, Types
  <1>5. chat' \in [Sessions -> ChatRec]
    BY <1>1, <1>3 DEF Todo, Types
  <1> QED BY <1>1, <1>2, <1>3, <1>4, <1>5 DEF Todo, Types, history, counts

LEMMA CancelTurnTypes ==
  ASSUME Types, NEW k \in Sessions, CancelTurn(k)
  PROVE  Types'
  <1>1. asks' \in Seq(AskOf(DOMAIN conns)) /\ Len(asks') = Len(asks) /\ DOMAIN asks' = DOMAIN asks
    BY SettledType DEF CancelTurn, Outcomes
  <1>2. /\ live[k] \in EntryOf(DOMAIN conns, DOMAIN asks)
        /\ NoSenders \in [Calls -> {None} \cup DOMAIN asks]
    BY Members DEF NoSenders
  <1>3. [live[k] EXCEPT !.pending = NoSenders, !.working = FALSE]
            \in EntryOf(DOMAIN conns, DOMAIN asks)
    BY <1>2 DEF EntryOf
  <1>4. live' \in [Sessions -> EntryOf(DOMAIN conns, DOMAIN asks)]
    BY <1>2, <1>3, EntryPut DEF CancelTurn
  <1>5. Senders(k) \subseteq DOMAIN asks
    BY <1>2 DEF Senders, EntryOf
  <1> QED BY <1>1, <1>2, <1>3, <1>4, <1>5 DEF CancelTurn, Types, history, counts

LEMMA DropLiveTypes ==
  ASSUME Types, NEW k \in Sessions, DropLive(k)
  PROVE  Types'
  <1>1. asks' \in Seq(AskOf(DOMAIN conns)) /\ Len(asks') = Len(asks) /\ DOMAIN asks' = DOMAIN asks
    BY SettledType DEF DropLive, Outcomes
  <1>2. live' \in [Sessions -> EntryOf(DOMAIN conns, DOMAIN asks)]
    BY GoneType, EntryPut DEF DropLive
  <1>3. live[k] \in EntryOf(DOMAIN conns, DOMAIN asks)
    BY Members
  <1>4. drop' \in [Sessions -> {None} \cup DOMAIN conns]
    BY <1>3 DEF DropLive, Types, EntryOf
  <1>5. Senders(k) \subseteq DOMAIN asks
    BY <1>3 DEF Senders, EntryOf
  <1> QED BY <1>1, <1>2, <1>3, <1>4, <1>5 DEF DropLive, Types, history, counts

\* The handler's key has an entry and a chat.
LEMMA OfHandler ==
  ASSUME Types, NEW r \in DOMAIN asks
  PROVE  /\ Key(r) \in Sessions /\ asks[r].call \in Calls /\ asks[r].conn \in DOMAIN conns
         /\ r \in AskIds
         /\ live[Key(r)] \in EntryOf(DOMAIN conns, DOMAIN asks) /\ chat[Key(r)] \in ChatRec
         /\ live[Key(r)].pending \in [Calls -> {None} \cup DOMAIN asks]
  <1>1. r \in AskIds
    BY Members, Constants DEF Types
  <1> QED BY <1>1, Members DEF AskOf, EntryOf

\* Its chat shows other cards.
LEMMA CardsPut ==
  ASSUME Types, NEW r \in DOMAIN asks, NEW cards \in SUBSET CardRec,
         chat' = [chat EXCEPT ![Key(r)].cards = cards]
  PROVE  chat' \in [Sessions -> ChatRec]
  <1>1. [chat[Key(r)] EXCEPT !.cards = cards] \in ChatRec
    BY OfHandler DEF ChatRec
  <1> QED BY <1>1 DEF Types

LEMMA CardAdded ==
  ASSUME Types, NEW r \in DOMAIN asks, NEW b \in BOOLEAN
  PROVE  chat[Key(r)].cards \cup {Card(r, b)} \in SUBSET CardRec
  <1>1. Card(r, b) \in CardRec
    BY OfHandler DEF CardRec, Card
  <1> QED BY <1>1, OfHandler DEF ChatRec

LEMMA ResolvedType ==
  ASSUME NEW cards \in SUBSET CardRec, NEW call
  PROVE  Resolved(cards, call) \in SUBSET CardRec
  <1>1. \A card \in CardRec : [card EXCEPT !.resolved = @ \/ card.call = call] \in CardRec
    BY DEF CardRec
  <1> QED BY <1>1 DEF Resolved

LEMMA AdmitTypes ==
  ASSUME Types, NEW r \in DOMAIN asks, Admit(r)
  PROVE  Types'
  <1>1. asks' \in Seq(AskOf(DOMAIN conns)) /\ Len(asks') = Len(asks) /\ DOMAIN asks' = DOMAIN asks
    BY GoesOn DEF Admit, Handles, Steps
  <1> QED BY <1>1 DEF Admit, Types, history, counts

LEMMA AbandonTypes ==
  ASSUME Types, NEW r \in DOMAIN asks, Abandon(r)
  PROVE  Types'
  <1>1. asks' \in Seq(AskOf(DOMAIN conns)) /\ Len(asks') = Len(asks) /\ DOMAIN asks' = DOMAIN asks
    BY GoesOn DEF Abandon, Handles, Steps
  <1> QED BY <1>1 DEF Abandon, Types, history, counts

LEMMA ReplayedTypes ==
  ASSUME Types, NEW r \in DOMAIN asks, Replayed(r)
  PROVE  Types'
  <1>1. asks' \in Seq(AskOf(DOMAIN conns)) /\ Len(asks') = Len(asks) /\ DOMAIN asks' = DOMAIN asks
    BY RepliesTo DEF Replayed, Refused, Handles, Steps, Replies
  <1>2. chat[Key(r)].cards \cup {Card(r, TRUE)} \in SUBSET CardRec
    BY CardAdded
  <1>3. chat' =
          [chat EXCEPT ![Key(r)].cards =
              Resolved(chat[Key(r)].cards \cup {Card(r, TRUE)}, asks[r].call)]
    BY DEF Replayed
  <1>4. chat' \in [Sessions -> ChatRec]
    BY <1>2, <1>3, ResolvedType, CardsPut
  <1> QED BY <1>1, <1>2, <1>3, <1>4 DEF Replayed, Types, history, counts

LEMMA CloseTypes ==
  ASSUME Types, NEW r \in DOMAIN asks, Close(r)
  PROVE  Types'
  <1>1. asks' \in Seq(AskOf(DOMAIN conns)) /\ Len(asks') = Len(asks) /\ DOMAIN asks' = DOMAIN asks
    BY GoesOn DEF Close, Handles, Steps
  <1>2. chat[Key(r)].cards \in SUBSET CardRec
    BY OfHandler DEF ChatRec
  <1>3. chat' = [chat EXCEPT ![Key(r)].cards = Resolved(chat[Key(r)].cards, asks[r].call)]
    BY DEF Close
  <1>4. chat' \in [Sessions -> ChatRec]
    BY <1>2, <1>3, ResolvedType, CardsPut
  <1> QED BY <1>1, <1>2, <1>3, <1>4 DEF Close, Types, history, counts

LEMMA ShowTypes ==
  ASSUME Types, NEW r \in DOMAIN asks, Show(r)
  PROVE  Types'
  <1>1. asks' \in Seq(AskOf(DOMAIN conns)) /\ Len(asks') = Len(asks) /\ DOMAIN asks' = DOMAIN asks
    BY GoesOn DEF Show, Handles, Steps
  <1>2. \A b \in BOOLEAN : chat[Key(r)].cards \cup {Card(r, b)} \in SUBSET CardRec
    BY CardAdded
  <1>3. chat' =
          [chat EXCEPT ![Key(r)].cards =
              chat[Key(r)].cards \cup {Card(r, chat[Key(r)].phase = "replaying")}]
    BY DEF Show
  <1>4. chat' \in [Sessions -> ChatRec]
    BY <1>2, <1>3, CardsPut
  <1>5. hidden' \subseteq DOMAIN asks
    BY DEF Show, Types
  <1> QED BY <1>1, <1>2, <1>3, <1>4, <1>5 DEF Show, Types, history, counts

LEMMA SetApprovalTypes ==
  ASSUME Types, NEW r \in DOMAIN asks, SetApproval(r)
  PROVE  Types'
  <1>1. asks' \in Seq(AskOf(DOMAIN conns)) /\ Len(asks') = Len(asks) /\ DOMAIN asks' = DOMAIN asks
    BY GoesOn DEF SetApproval, Handles, Steps
  <1>2. [live[Key(r)] EXCEPT !.approval = TRUE] \in EntryOf(DOMAIN conns, DOMAIN asks)
    BY OfHandler DEF EntryOf
  <1>3. live' \in [Sessions -> EntryOf(DOMAIN conns, DOMAIN asks)]
    BY <1>2, OfHandler, EntryPut DEF SetApproval, Types
  <1> QED BY <1>1, <1>2, <1>3 DEF SetApproval, Types, history, counts

LEMMA RespondTypes ==
  ASSUME Types, NEW r \in DOMAIN asks, Respond(r)
  PROVE  Types'
  <1>1. asks' \in Seq(AskOf(DOMAIN conns)) /\ Len(asks') = Len(asks) /\ DOMAIN asks' = DOMAIN asks
    BY RepliesTo DEF Respond, Handles, Steps, Replies
  <1>2. [live[Key(r)] EXCEPT !.approval = FALSE] \in EntryOf(DOMAIN conns, DOMAIN asks)
    BY OfHandler DEF EntryOf
  <1>3. live' \in [Sessions -> EntryOf(DOMAIN conns, DOMAIN asks)]
    BY <1>2, OfHandler, EntryPut DEF Respond, Types
  <1> QED BY <1>1, <1>2, <1>3 DEF Respond, Types, history, counts

LEMMA WakeTypes ==
  ASSUME Types, NEW r \in DOMAIN asks, Wake(r)
  PROVE  Types'
  <1>1. asks' \in Seq(AskOf(DOMAIN conns)) /\ Len(asks') = Len(asks) /\ DOMAIN asks' = DOMAIN asks
    BY SettlesAndGoes DEF Wake, Handles, Steps, Outcomes
  <1>2. [live[Key(r)] EXCEPT !.pending[asks[r].call] = None]
            \in EntryOf(DOMAIN conns, DOMAIN asks)
    BY OfHandler DEF EntryOf
  <1>3. live' \in [Sessions -> EntryOf(DOMAIN conns, DOMAIN asks)]
    BY <1>2, OfHandler, EntryPut DEF Wake
  <1> QED BY <1>1, <1>2, <1>3 DEF Wake, Types, history, counts

LEMMA RegisterTypes ==
  ASSUME Types, NEW r \in DOMAIN asks, Register(r)
  PROVE  Types'
  <1>1. asks' \in Seq(AskOf(DOMAIN conns)) /\ Len(asks') = Len(asks) /\ DOMAIN asks' = DOMAIN asks
    BY SettlesAndGoes, RepliesTo DEF Register, Refused, Handles, Steps, Outcomes, Replies
  <1>2. [live[Key(r)] EXCEPT !.pending[asks[r].call] = r] \in EntryOf(DOMAIN conns, DOMAIN asks)
    BY OfHandler DEF EntryOf
  <1>3. live' \in [Sessions -> EntryOf(DOMAIN conns, DOMAIN asks)]
    BY <1>2, OfHandler, EntryPut DEF Register, Types
  <1> QED BY <1>1, <1>2, <1>3 DEF Register, Types, history, counts

\* What holds over the connections and requests there are holds over more.
LEMMA Wider ==
  ASSUME Types, NEW D, NEW Q, DOMAIN conns \subseteq D, DOMAIN asks \subseteq Q
  PROVE  /\ live \in [Sessions -> EntryOf(D, Q)] /\ start \in [Sessions -> StartOf(D)]
         /\ turn \subseteq D /\ drop \in [Sessions -> {None} \cup D]
         /\ asks \in Seq(AskOf(D))
         /\ blame \subseteq Q /\ hidden \subseteq Q /\ met \subseteq Q
  <1>1. EntryOf(DOMAIN conns, DOMAIN asks) \subseteq EntryOf(D, Q)
    BY DEF EntryOf
  <1>2. StartOf(DOMAIN conns) \subseteq StartOf(D)
    BY DEF StartOf
  <1>3. AskOf(DOMAIN conns) \subseteq AskOf(D)
    BY DEF AskOf
  <1>4. live \in [Sessions -> EntryOf(D, Q)]
    BY <1>1 DEF Types
  <1>5. start \in [Sessions -> StartOf(D)]
    BY <1>2 DEF Types
  <1>6. asks \in Seq(AskOf(D))
    BY <1>3 DEF Types
  <1> QED BY <1>4, <1>5, <1>6 DEF Types

LEMMA ConnectTypes ==
  ASSUME Types, NEW k \in Sessions, Connect(k)
  PROVE  Types'
  <1> DEFINE id == IF start[k].load THEN past[k] ELSE None
             pc == IF id = None THEN "new" ELSE "load"
  <1>1. id \in 0..MaxConns /\ pc \in {"new", "load"}
    BY Constants DEF Types
  <1>2. chat' \in [Sessions -> ChatRec]
    <2>1. [chat[k] EXCEPT !.phase = "replaying"] \in ChatRec
      BY Members DEF ChatRec
    <2> QED BY <2>1 DEF Connect, Types
  <1>3. live[k] \in EntryOf(DOMAIN conns, DOMAIN asks) /\ start[k] \in StartOf(DOMAIN conns)
    BY Members
  <1>4. Connected(k, id)
    BY DEF Connect
  <1> HIDE DEF id, pc
  <1>5. CASE Usable(k)
    <2> DEFINE c == live[k].conn  a == [conns[c] EXCEPT !.id = IF id = None THEN @ ELSE id]
               e == [live[k] EXCEPT !.id = IF id = None THEN @ ELSE id]
               t == [start[k] EXCEPT !.conn = c, !.pc = pc]
    <2>1. c \in DOMAIN conns
      BY <1>3, <1>5 DEF Usable, EntryOf
    <2>2. a \in ConnRec
      BY <1>1, <2>1, Members, Constants DEF ConnRec
    <2>3. e \in EntryOf(DOMAIN conns, DOMAIN asks)
      BY <1>1, <1>3 DEF EntryOf
    <2>4. t \in StartOf(DOMAIN conns)
      BY <1>1, <1>3, <2>1 DEF StartOf
    <2>5. /\ live' = [live EXCEPT ![k] = e] /\ conns' = [conns EXCEPT ![c] = a]
          /\ start' = [start EXCEPT ![k] = t]
      BY <1>4, <1>5 DEF Connected, pc
    <2> HIDE DEF a, e, t, c
    <2>6. conns' \in Seq(ConnRec) /\ Len(conns') = Len(conns) /\ DOMAIN conns' = DOMAIN conns
      BY <2>1, <2>2, <2>5, ConnPut
    <2>7. live' \in [Sessions -> EntryOf(DOMAIN conns, DOMAIN asks)]
      BY <2>3, <2>5, EntryPut
    <2>8. start' \in [Sessions -> StartOf(DOMAIN conns)]
      BY <2>4, <2>5 DEF Types
    <2> QED BY <1>2, <2>6, <2>7, <2>8 DEF Connect, Types, history, counts
  <1>6. CASE ~Usable(k)
    <2> DEFINE c == Len(conns) + 1
               a == [key |-> k, id |-> IF id = None THEN c ELSE id, closed |-> FALSE]
               e == IF Held(k)
                    THEN [live[k] EXCEPT !.conn = c,
                                         !.id = IF id = None THEN live[k].id ELSE id]
                    ELSE Entry(c, id)
               t == [start[k] EXCEPT !.conn = c, !.pc = pc]
    <2>1. /\ c \in 1..MaxConns /\ conns' = Append(conns, a)
          /\ live' = [live EXCEPT ![k] = e] /\ start' = [start EXCEPT ![k] = t]
      <3>1. c <= MaxConns /\ conns' = Append(conns, a)
        BY <1>4, <1>6 DEF Connected
      <3>2. live' = [live EXCEPT ![k] = e]
        <4>1. CASE Held(k)
          BY <1>4, <1>6, <4>1 DEF Connected
        <4>2. CASE ~Held(k)
          BY <1>4, <1>6, <4>2 DEF Connected
        <4> QED BY <4>1, <4>2
      <3>3. start' = [start EXCEPT ![k] = t]
        BY <1>4, <1>6 DEF Connected, pc
      <3>4. c \in 1..MaxConns
        BY <3>1, Members, Constants
      <3> HIDE DEF a, e, t
      <3> QED BY <3>1, <3>2, <3>3, <3>4
    <2>2. a \in ConnRec
      BY <1>1, <2>1, Constants DEF ConnRec
    <2>3. conns' \in Seq(ConnRec) /\ Len(conns') = c /\ DOMAIN conns' = 1..c
      <3> HIDE DEF a
      <3> QED BY <2>1, <2>2, Members DEF Types
    <2>4. DOMAIN conns \subseteq DOMAIN conns' /\ c \in DOMAIN conns'
      BY <2>1, <2>3, Members
    <2>5. /\ live \in [Sessions -> EntryOf(DOMAIN conns', DOMAIN asks)]
          /\ start \in [Sessions -> StartOf(DOMAIN conns')]
          /\ turn \subseteq DOMAIN conns' /\ drop \in [Sessions -> {None} \cup DOMAIN conns']
          /\ asks \in Seq(AskOf(DOMAIN conns'))
      BY <2>4, Wider
    <2>6. e \in EntryOf(DOMAIN conns', DOMAIN asks)
      <3>1. CASE Held(k)
        BY <1>1, <2>4, <2>5, <3>1 DEF EntryOf
      <3>2. CASE ~Held(k)
        BY <1>1, <2>4, <3>2, EntryType
      <3> QED BY <3>1, <3>2
    <2>7. t \in StartOf(DOMAIN conns')
      BY <1>1, <2>4, <2>5 DEF StartOf
    <2> HIDE DEF a, e, t, c
    <2>8. live' \in [Sessions -> EntryOf(DOMAIN conns', DOMAIN asks)]
      BY <2>1, <2>5, <2>6
    <2>9. start' \in [Sessions -> StartOf(DOMAIN conns')]
      BY <2>1, <2>5, <2>7
    <2> QED BY <1>2, <2>1, <2>3, <2>5, <2>8, <2>9, Constants DEF Connect, Types, history, counts
  <1> QED BY <1>5, <1>6

LEMMA InsertTypes ==
  ASSUME Types, NEW k \in Sessions, Insert(k)
  PROVE  Types'
  <1> DEFINE c == start[k].conn
  <1>1. c \in DOMAIN conns /\ c \in 1..MaxConns
    BY Members, Constants DEF Insert, Free, Types
  <1>2. conns' = [conns EXCEPT ![c] = [conns[c] EXCEPT !.id = c]]
        /\ [conns[c] EXCEPT !.id = c] \in ConnRec
    BY <1>1, Members DEF Insert, ConnRec
  <1>3. conns' \in Seq(ConnRec) /\ Len(conns') = Len(conns) /\ DOMAIN conns' = DOMAIN conns
    BY <1>1, <1>2, ConnPut
  <1>4. asks' \in Seq(AskOf(DOMAIN conns)) /\ Len(asks') = Len(asks) /\ DOMAIN asks' = DOMAIN asks
    BY SettledType DEF Insert, Outcomes
  <1>5. live' \in [Sessions -> EntryOf(DOMAIN conns, DOMAIN asks)]
    <2>1. c \in {None} \cup DOMAIN conns /\ c \in 0..MaxConns
      BY <1>1, Constants
    <2>2. Entry(c, c) \in EntryOf(DOMAIN conns, DOMAIN asks)
      BY <2>1, EntryType
    <2> QED BY <2>2, EntryPut DEF Insert
  <1>6. Senders(k) \subseteq DOMAIN asks
    BY Members DEF Senders, EntryOf
  <1>7. start' \in [Sessions -> StartOf(DOMAIN conns)]
    BY DEF Insert, Types, StartOf
  <1>8. past' \in [Sessions -> 0..MaxConns]
    BY <1>1, Constants DEF Insert, Types
  <1> QED BY <1>3, <1>4, <1>5, <1>6, <1>7, <1>8 DEF Insert, Types, history, counts

LEMMA ReceiveTypes ==
  ASSUME Types, NEW c \in ConnIds, NEW call \in Calls, NEW options, Receive(c, call, options)
  PROVE  Types'
  <1>1. PICK ask \in AskOf(DOMAIN conns) : asks' = Append(asks, ask)
    BY Constants DEF Receive, Free, AskOf, None, Steps, Replies
  <1>2. /\ asks' \in Seq(AskOf(DOMAIN conns)) /\ Len(asks') = Len(asks) + 1
        /\ DOMAIN asks' = 1..(Len(asks) + 1)
    BY <1>1, Members DEF Types
  <1>3. DOMAIN asks \subseteq DOMAIN asks' /\ Len(asks) + 1 \in DOMAIN asks'
    BY <1>2, Members
  <1>4. met' \subseteq DOMAIN asks' /\ Len(asks') <= MaxAsks
    BY <1>2, <1>3, Members, Constants DEF Receive, Types
  <1>5. /\ live \in [Sessions -> EntryOf(DOMAIN conns, DOMAIN asks')]
        /\ blame \subseteq DOMAIN asks' /\ hidden \subseteq DOMAIN asks'
    BY <1>3, Wider
  <1> QED BY <1>2, <1>4, <1>5 DEF Receive, Types, history, counts

\* A decision for what is registered under a card's tool call.
LEMMA Answers ==
  ASSUME Types, NEW r \in DOMAIN asks, NEW chosen \in 0..MaxAsks,
         asks' = [Settled({r}, "selected") EXCEPT ![r].chosen = chosen]
  PROVE  Handles /\ \A q \in DOMAIN asks :
           /\ asks'[q].reply = asks[q].reply /\ asks'[q].pc = asks[q].pc
           /\ asks'[q].chosen = (IF q = r THEN chosen ELSE asks[q].chosen)
           /\ asks'[q].chan = IF q = r /\ asks[q].chan = "open" THEN "selected" ELSE asks[q].chan
  <1> DEFINE s == Settled({r}, "selected")  a == [s[r] EXCEPT !.chosen = chosen]
  <1>1. s \in Seq(AskOf(DOMAIN conns)) /\ DOMAIN s = DOMAIN asks /\ Len(s) = Len(asks)
    BY SettledType DEF Outcomes
  <1>2. s[r] \in AskOf(DOMAIN conns)
    BY <1>1
  <1>3. asks' = [s EXCEPT ![r] = a]
    OBVIOUS
  <1>4. /\ a \in AskOf(DOMAIN conns)
        /\ a.conn = s[r].conn /\ a.call = s[r].call /\ a.chan = s[r].chan
        /\ a.chosen = chosen /\ a.reply = s[r].reply /\ a.pc = s[r].pc
    BY <1>2 DEF AskOf
  <1>5. \A q \in DOMAIN asks :
          /\ s[q].conn = asks[q].conn /\ s[q].call = asks[q].call
          /\ s[q].chosen = asks[q].chosen /\ s[q].pc = asks[q].pc
          /\ s[q].reply = asks[q].reply
          /\ s[q].chan = IF q = r /\ asks[q].chan = "open" THEN "selected" ELSE asks[q].chan
    BY SettledType DEF Outcomes
  <1> HIDE DEF s, a
  <1> DEFINE t == [s EXCEPT ![r] = a]
  <1>6. t \in Seq(AskOf(DOMAIN conns)) /\ DOMAIN t = DOMAIN s /\ Len(t) = Len(s)
        /\ \A q \in DOMAIN s : t[q] = IF q = r THEN a ELSE s[q]
    <2> r \in DOMAIN s
      BY <1>1
    <2> QED BY ONLY <1>1, <1>4, UpdateType
  <1>7. asks' = t
    BY <1>3
  <1> HIDE DEF t
  <1>8. /\ asks' \in Seq(AskOf(DOMAIN conns)) /\ DOMAIN asks' = DOMAIN asks
        /\ Len(asks') = Len(asks)
        /\ \A q \in DOMAIN asks : asks'[q] = IF q = r THEN a ELSE s[q]
    BY ONLY <1>1, <1>6, <1>7
  <1> QED BY ONLY r \in DOMAIN asks, <1>4, <1>5, <1>8 DEF Handles

LEMMA AnswerTypes ==
  ASSUME Types, NEW k \in Sessions, Answer(k)
  PROVE  Types'
  <1>1. PICK card \in chat[k].cards :
          LET r == live[k].pending[card.call] IN
          /\ r # None
          /\ live' = [live EXCEPT ![k].pending[card.call] = None]
          /\ asks' = [Settled({r}, "selected") EXCEPT ![r].chosen = card.ask]
    BY DEF Answer
  <1> DEFINE r == live[k].pending[card.call]
  <1>2. card \in CardRec /\ live[k] \in EntryOf(DOMAIN conns, DOMAIN asks)
    BY Members DEF ChatRec
  <1>3. r \in DOMAIN asks /\ card.ask \in 0..MaxAsks
    BY <1>1, <1>2, Constants DEF EntryOf, CardRec
  <1>4. asks' \in Seq(AskOf(DOMAIN conns)) /\ Len(asks') = Len(asks) /\ DOMAIN asks' = DOMAIN asks
    BY <1>1, <1>3, Answers DEF Handles
  <1>5. [live[k] EXCEPT !.pending[card.call] = None] \in EntryOf(DOMAIN conns, DOMAIN asks)
    BY <1>2 DEF EntryOf, CardRec
  <1>6. live' \in [Sessions -> EntryOf(DOMAIN conns, DOMAIN asks)]
    BY <1>1, <1>5, EntryPut
  <1> QED BY <1>4, <1>6 DEF Answer, Types, history, counts

-----------------------------------------------------------------------------
(* Requests *)

LEMMA KeyStays ==
  ASSUME Types, KeysStay,
         NEW r \in DOMAIN asks, asks'[r].conn = asks[r].conn
  PROVE  Key(r)' = Key(r) /\ Key(r) \in Sessions
  BY Members DEF KeysStay, Key, AskOf

\* What is registered is a request.
LEMMA Sender ==
  ASSUME Types, Requests, NEW k \in Sessions, NEW call \in Calls, live[k].pending[call] # None
  PROVE  LET r == live[k].pending[call] IN
         /\ r \in DOMAIN asks /\ asks[r].call = call /\ Key(r) = k
         /\ asks[r].chan = "open" /\ asks[r].pc \in Waits \cup {"lost"}
         /\ Held(k)
  BY DEF Requests, Holds, NoSenders

\* Where a step leaves the requests, the senders and the flags that somebody
\* waits under as they are, and takes cards away only as `hidden' records.
LEMMA Calm ==
  ASSUME Types, Requests, KeysStay, asks' = asks, met' = met, blame' = blame,
         hidden \subseteq hidden',
         \A k \in Sessions :
           /\ live'[k].pending = live[k].pending
           /\ live[k].held => live'[k].held
           /\ live[k].held /\ live[k].approval => live'[k].approval
           /\ \/ chat'[k].cards = chat[k].cards
              \/ chat'[k].cards = {} /\ \A card \in chat[k].cards : card.ask \in hidden'
  PROVE  Requests'
  <1>1. \A r \in DOMAIN asks : Key(r)' = Key(r) /\ Key(r) \in Sessions /\ asks[r].call \in Calls
    BY KeyStays, Members DEF AskOf
  <1>2. ASSUME NEW k \in Sessions PROVE Holds(k)' /\ Belongs(k)'
    BY <1>1, <1>2 DEF Requests, Holds, Belongs, Held
  <1>3. ASSUME NEW r \in DOMAIN asks
        PROVE  Registered(r)' /\ Blamed(r)' /\ Chosen(r)'
    BY <1>1, <1>3 DEF Requests, Registered, Blamed, Chosen
  <1>4. ASSUME NEW r \in DOMAIN asks PROVE Flagged(r)'
    <2>1. SUFFICES ASSUME r \notin met, asks[r].pc \in {"flagged", "waiting"},
                          asks[r].chan = "open"
                   PROVE  live'[Key(r)].approval
      BY <1>1, <1>4 DEF Flagged
    <2>2. live[Key(r)].approval /\ live[Key(r)].pending[asks[r].call] = r
      BY <2>1, <1>4 DEF Requests, Flagged, Registered, Waits
    <2>3. r # None
      BY <1>4, Members, Constants
    <2>4. Held(Key(r))
      BY <1>1, <1>4, <2>2, <2>3, Sender
    <2> QED BY <1>1, <1>4, <2>2, <2>4 DEF Held
  <1>5. ASSUME NEW r \in DOMAIN asks PROVE Shown(r)'
    BY <1>1, <1>5 DEF Requests, Shown
  <1>6. ASSUME NEW r \in DOMAIN asks, NEW q \in DOMAIN asks PROVE Together(r, q)'
    BY <1>1, <1>6 DEF Requests, Together, Busy
  <1> QED BY <1>2, <1>3, <1>4, <1>5, <1>6 DEF Requests

\* Where a step takes every sender of an entry and says so in `blame'.
LEMMA Clears ==
  ASSUME Types, Requests, KeysStay, NEW k \in Sessions, NEW outcome \in {"cancelled", "gone"},
         asks' = Settled(Senders(k), outcome), blame' = blame \cup Senders(k),
         met' = met, hidden' = hidden, chat' = chat,
         live'[k].pending = NoSenders,
         \A i \in Sessions \ {k} : live'[i] = live[i]
  PROVE  Requests'
  <1> DEFINE Taken(q) == q \in Senders(k) /\ asks[q].chan = "open"
  <1>1. /\ DOMAIN asks' = DOMAIN asks
        /\ \A q \in DOMAIN asks :
             /\ asks'[q].conn = asks[q].conn /\ asks'[q].call = asks[q].call
             /\ asks'[q].chosen = asks[q].chosen /\ asks'[q].pc = asks[q].pc
             /\ asks'[q].reply = asks[q].reply
             /\ asks'[q].chan = IF Taken(q) THEN outcome ELSE asks[q].chan
    BY SettledType DEF Outcomes
  <1>2. \A r \in DOMAIN asks : /\ Key(r)' = Key(r) /\ Key(r) \in Sessions /\ asks[r].call \in Calls
                               /\ r # None
    BY <1>1, KeyStays, Members, Constants DEF AskOf
  <1>3. \A r \in DOMAIN asks :
          asks[r].pc \in Waits /\ asks[r].chan = "open" /\ Key(r) = k => Taken(r)
    BY <1>2 DEF Requests, Registered, Senders
  <1>4. \A r \in DOMAIN asks : Taken(r) => /\ Key(r) = k /\ asks[r].pc \in Waits \cup {"lost"}
                                           /\ r \in blame'
    BY <1>2 DEF Requests, Holds, Senders
  <1> HIDE DEF Taken
  <1>5. ASSUME NEW i \in Sessions PROVE Holds(i)' /\ Belongs(i)'
    <2>1. CASE i = k
      BY <1>1, <1>2, <2>1 DEF Requests, Holds, Belongs, NoSenders
    <2>2. CASE i # k
      BY <1>1, <1>2, <1>4, <1>5, <2>2 DEF Requests, Holds, Belongs, Held
    <2> QED BY <2>1, <2>2
  <1>6. ASSUME NEW r \in DOMAIN asks PROVE Registered(r)' /\ Flagged(r)' /\ Shown(r)'
    <2>1. asks'[r].chan = "open" => asks[r].chan = "open" /\ ~Taken(r)
      BY <1>1, <1>6 DEF Taken
    <2>2. asks[r].pc \in {"routed", "admitted"} => asks'[r].chan = asks[r].chan
      BY <1>1, <1>4, <1>6 DEF Waits
    <2>3. Registered(r)'
      BY <1>1, <1>2, <1>3, <1>6, <2>1, <2>2 DEF Requests, Registered
    <2>4. Flagged(r)' /\ Shown(r)'
      BY <1>1, <1>2, <1>3, <1>6, <2>1 DEF Requests, Flagged, Shown, Waits
    <2> QED BY <2>3, <2>4
  <1>7. ASSUME NEW r \in DOMAIN asks PROVE Blamed(r)' /\ Chosen(r)'
    BY <1>1, <1>4, <1>7 DEF Requests, Blamed, Chosen, Waits
  <1>8. ASSUME NEW r \in DOMAIN asks, NEW q \in DOMAIN asks PROVE Together(r, q)'
    BY <1>1, <1>2, <1>8 DEF Requests, Together, Busy
  <1> QED BY <1>1, <1>5, <1>6, <1>7, <1>8 DEF Requests

-----------------------------------------------------------------------------
(* The steps of a handler *)

LEMMA AdmitRequests ==
  ASSUME Types, Requests, NEW r \in DOMAIN asks, Admit(r)
  PROVE  Requests'
  <1>1. Handles /\ \A q \in DOMAIN asks :
          /\ asks'[q].chan = asks[q].chan /\ asks'[q].chosen = asks[q].chosen
          /\ asks'[q].reply = asks[q].reply
          /\ asks'[q].pc = IF q = r THEN "admitted" ELSE asks[q].pc
    BY GoesOn DEF Admit, Steps
  <1>2. \A q \in DOMAIN asks : /\ Key(q)' = Key(q) /\ Key(q) \in Sessions /\ asks[q].call \in Calls
                               /\ q # None
    <2> KeysStay
      BY DEF KeysStay, Admit
    <2> QED BY <1>1, KeyStays, Members, Constants DEF AskOf, Handles
  <1>3. live' = live
    BY DEF Admit
  <1>4. chat' = chat /\ hidden' = hidden
    BY DEF Admit, history
  <1>5. met' = met /\ blame' = blame
    BY DEF Admit, history
  <1>6. ASSUME NEW k \in Sessions PROVE Holds(k)'
    BY <1>1, <1>2, <1>3, <1>6 DEF Handles, Requests, Holds, Held, Waits, NoSenders, Admit, At
  <1>7. ASSUME NEW k \in Sessions PROVE Belongs(k)'
    BY <1>1, <1>2, <1>4, <1>7 DEF Handles, Requests, Belongs, Admit, At
  <1>8. ASSUME NEW q \in DOMAIN asks PROVE Registered(q)' /\ Blamed(q)' /\ Chosen(q)'
    BY <1>1, <1>2, <1>3, <1>5, <1>8 DEF Handles, Requests, Registered, Blamed, Chosen, Waits,
       Admit, At
  <1>9. ASSUME NEW q \in DOMAIN asks PROVE Flagged(q)'
    BY <1>1, <1>2, <1>3, <1>5, <1>9 DEF Handles, Requests, Flagged, Admit, At
  <1>10. ASSUME NEW q \in DOMAIN asks PROVE Shown(q)'
    BY <1>1, <1>2, <1>4, <1>5, <1>10 DEF Handles, Requests, Shown, Admit, At
  <1>11. ASSUME NEW q \in DOMAIN asks, NEW p \in DOMAIN asks PROVE Together(q, p)'
    BY <1>1, <1>2, <1>5, <1>11 DEF Handles, Requests, Together, Busy, Admit, At
  <1> QED BY <1>1, <1>6, <1>7, <1>8, <1>9, <1>10, <1>11 DEF Handles, Requests

LEMMA AbandonRequests ==
  ASSUME Types, Requests, NEW r \in DOMAIN asks, Abandon(r)
  PROVE  Requests'
  <1>1. Handles /\ \A q \in DOMAIN asks :
          /\ asks'[q].chan = asks[q].chan /\ asks'[q].chosen = asks[q].chosen
          /\ asks'[q].reply = asks[q].reply
          /\ asks'[q].pc = IF q = r THEN "lost" ELSE asks[q].pc
    BY GoesOn DEF Abandon, Steps
  <1>2. \A q \in DOMAIN asks : /\ Key(q)' = Key(q) /\ Key(q) \in Sessions /\ asks[q].call \in Calls
                               /\ q # None
    <2> KeysStay
      BY DEF KeysStay, Abandon
    <2> QED BY <1>1, KeyStays, Members, Constants DEF AskOf, Handles
  <1>3. live' = live
    BY DEF Abandon
  <1>4. chat' = chat /\ hidden' = hidden
    BY DEF Abandon, history
  <1>5. met' = met /\ blame' = blame
    BY DEF Abandon, history
  <1>6. ASSUME NEW k \in Sessions PROVE Holds(k)'
    BY <1>1, <1>2, <1>3, <1>6 DEF Handles, Requests, Holds, Held, Waits, NoSenders, Abandon, At
  <1>7. ASSUME NEW k \in Sessions PROVE Belongs(k)'
    BY <1>1, <1>2, <1>4, <1>7 DEF Handles, Requests, Belongs, Abandon, At
  <1>8. ASSUME NEW q \in DOMAIN asks PROVE Registered(q)' /\ Blamed(q)' /\ Chosen(q)'
    BY <1>1, <1>2, <1>3, <1>5, <1>8 DEF Handles, Requests, Registered, Blamed, Chosen, Waits,
       Abandon, At
  <1>9. ASSUME NEW q \in DOMAIN asks PROVE Flagged(q)'
    BY <1>1, <1>2, <1>3, <1>5, <1>9 DEF Handles, Requests, Flagged, Abandon, At
  <1>10. ASSUME NEW q \in DOMAIN asks PROVE Shown(q)'
    BY <1>1, <1>2, <1>4, <1>5, <1>10 DEF Handles, Requests, Shown, Abandon, At
  <1>11. ASSUME NEW q \in DOMAIN asks, NEW p \in DOMAIN asks PROVE Together(q, p)'
    BY <1>1, <1>2, <1>5, <1>11 DEF Handles, Requests, Together, Busy, Abandon, At
  <1> QED BY <1>1, <1>6, <1>7, <1>8, <1>9, <1>10, <1>11 DEF Handles, Requests

LEMMA SetApprovalRequests ==
  ASSUME Types, Requests, NEW r \in DOMAIN asks, SetApproval(r)
  PROVE  Requests'
  <1>1. Handles /\ \A q \in DOMAIN asks :
          /\ asks'[q].chan = asks[q].chan /\ asks'[q].chosen = asks[q].chosen
          /\ asks'[q].reply = asks[q].reply
          /\ asks'[q].pc = IF q = r THEN "flagged" ELSE asks[q].pc
    BY GoesOn DEF SetApproval, Steps
  <1>2. \A q \in DOMAIN asks : /\ Key(q)' = Key(q) /\ Key(q) \in Sessions /\ asks[q].call \in Calls
                               /\ q # None
    <2> KeysStay
      BY DEF KeysStay, SetApproval
    <2> QED BY <1>1, KeyStays, Members, Constants DEF AskOf, Handles
  <1>3. \A k \in Sessions :
          /\ live'[k].pending = live[k].pending /\ live'[k].held = live[k].held
          /\ live'[k].approval = IF k = Key(r) /\ live[k].held THEN TRUE ELSE live[k].approval
    <2>1. /\ live[Key(r)] \in EntryOf(DOMAIN conns, DOMAIN asks)
          /\ live \in [Sessions -> EntryOf(DOMAIN conns, DOMAIN asks)]
      BY OfHandler DEF Types
    <2> QED BY <2>1, <1>2 DEF SetApproval, EntryOf, Held
  <1>4. chat' = chat /\ hidden' = hidden
    BY DEF SetApproval, history
  <1>5. met' = met /\ blame' = blame
    BY DEF SetApproval, history
  <1>6. ASSUME NEW k \in Sessions PROVE Holds(k)'
    BY <1>1, <1>2, <1>3, <1>6 DEF Handles, Requests, Holds, Held, Waits, NoSenders, SetApproval,
       At
  <1>7. ASSUME NEW k \in Sessions PROVE Belongs(k)'
    BY <1>1, <1>2, <1>4, <1>7 DEF Handles, Requests, Belongs, SetApproval, At
  <1>8. ASSUME NEW q \in DOMAIN asks PROVE Registered(q)' /\ Blamed(q)' /\ Chosen(q)'
    BY <1>1, <1>2, <1>3, <1>5, <1>8 DEF Handles, Requests, Registered, Blamed, Chosen, Waits,
       SetApproval, At
  <1>9. ASSUME NEW q \in DOMAIN asks PROVE Flagged(q)'
    <2>1. SUFFICES ASSUME q \notin met, asks[q].chan = "open",
                          asks'[q].pc \in {"flagged", "waiting"}
                   PROVE  live'[Key(q)].approval
      BY <1>1, <1>2, <1>5, <1>9 DEF Flagged, Handles
    <2>2. CASE q = r
      <3>1. live[Key(r)].pending[asks[r].call] # None
        BY <1>2, <2>1, <2>2 DEF Requests, Registered, Waits, SetApproval, At
      <3> QED BY <1>2, <1>3, <2>2, <3>1, Sender DEF Held
    <2>3. CASE q # r
      BY <1>1, <1>2, <1>3, <2>1, <2>3 DEF Requests, Flagged
    <2> QED BY <2>2, <2>3
  <1>10. ASSUME NEW q \in DOMAIN asks PROVE Shown(q)'
    BY <1>1, <1>2, <1>4, <1>5, <1>10 DEF Handles, Requests, Shown, SetApproval, At
  <1>11. ASSUME NEW q \in DOMAIN asks, NEW p \in DOMAIN asks PROVE Together(q, p)'
    BY <1>1, <1>2, <1>5, <1>11 DEF Handles, Requests, Together, Busy, SetApproval, At
  <1> QED BY <1>1, <1>6, <1>7, <1>8, <1>9, <1>10, <1>11 DEF Handles, Requests

\* The card comes up with its buttons enabled, or hidden.
LEMMA ShowRequests ==
  ASSUME Types, Requests, NEW r \in DOMAIN asks, Show(r)
  PROVE  Requests'
  <1>1. Handles /\ \A q \in DOMAIN asks :
          /\ asks'[q].chan = asks[q].chan /\ asks'[q].chosen = asks[q].chosen
          /\ asks'[q].reply = asks[q].reply
          /\ asks'[q].pc = IF q = r THEN "waiting" ELSE asks[q].pc
    BY GoesOn DEF Show, Steps
  <1>2. \A q \in DOMAIN asks : /\ Key(q)' = Key(q) /\ Key(q) \in Sessions /\ asks[q].call \in Calls
                               /\ q # None
    <2> KeysStay
      BY DEF KeysStay, Show
    <2> QED BY <1>1, KeyStays, Members, Constants DEF AskOf, Handles
  <1>3. live' = live
    BY DEF Show
  <1>4. /\ chat'[Key(r)].cards =
             chat[Key(r)].cards \cup {Card(r, chat[Key(r)].phase = "replaying")}
        /\ \A k \in Sessions : k # Key(r) => chat'[k].cards = chat[k].cards
        /\ hidden' = IF chat[Key(r)].phase = "replaying" THEN hidden \cup {r} ELSE hidden
    <2>1. chat[Key(r)] \in ChatRec /\ chat \in [Sessions -> ChatRec]
      BY OfHandler DEF Types
    <2> QED BY <2>1, <1>2 DEF Show, ChatRec
  <1>5. met' = met /\ blame' = blame
    BY DEF Show, history
  <1>6. ASSUME NEW k \in Sessions PROVE Holds(k)'
    BY <1>1, <1>2, <1>3, <1>6 DEF Handles, Requests, Holds, Held, Waits, NoSenders, Show, At
  <1>7. ASSUME NEW k \in Sessions PROVE Belongs(k)'
    <2>1. ASSUME NEW card \in chat'[k].cards
          PROVE  \/ card \in chat[k].cards
                 \/ k = Key(r) /\ card.ask = r /\ card.call = asks[r].call
      BY <1>4, <1>7, <2>1 DEF Card
    <2> QED BY <1>1, <1>2, <1>7, <2>1 DEF Handles, Requests, Belongs, Show, At
  <1>8. ASSUME NEW q \in DOMAIN asks PROVE Registered(q)' /\ Blamed(q)' /\ Chosen(q)'
    BY <1>1, <1>2, <1>3, <1>5, <1>8 DEF Handles, Requests, Registered, Blamed, Chosen, Waits,
       Show, At
  <1>9. ASSUME NEW q \in DOMAIN asks PROVE Flagged(q)'
    BY <1>1, <1>2, <1>3, <1>5, <1>9 DEF Handles, Requests, Flagged, Show, At
  <1>10. ASSUME NEW q \in DOMAIN asks PROVE Shown(q)'
    <2>1. CASE q = r
      <3>1. SUFFICES ASSUME q \notin hidden'
                     PROVE  \E card \in chat'[Key(q)].cards :
                              card.ask = q /\ ~card.resolved
        BY <1>1, <1>2, <1>10 DEF Shown
      <3>2. (chat[Key(r)].phase = "replaying") = FALSE
        BY <1>4, <2>1, <3>1
      <3>3. Card(r, FALSE) \in chat'[Key(q)].cards
        BY <1>4, <2>1, <3>2
      <3> QED BY <2>1, <3>3 DEF Card
    <2>2. CASE q # r
      BY <1>1, <1>2, <1>4, <1>5, <1>10, <2>2 DEF Handles, Requests, Shown
    <2> QED BY <2>1, <2>2
  <1>11. ASSUME NEW q \in DOMAIN asks, NEW p \in DOMAIN asks PROVE Together(q, p)'
    BY <1>1, <1>2, <1>5, <1>11 DEF Handles, Requests, Together, Busy, Show, At
  <1> QED BY <1>1, <1>6, <1>7, <1>8, <1>9, <1>10, <1>11 DEF Handles, Requests

\* The flag goes down: whoever still waits under it is in `met'.
LEMMA RespondRequests ==
  ASSUME Types, Requests, NEW r \in DOMAIN asks, Respond(r)
  PROVE  Requests'
  <1>1. Handles /\ \A q \in DOMAIN asks :
          /\ asks'[q].chan = asks[q].chan /\ asks'[q].chosen = asks[q].chosen
          /\ asks'[q].reply = (IF q # r THEN asks[q].reply
                              ELSE IF asks[r].chan = "selected" THEN "selected" ELSE "cancelled")
          /\ asks'[q].pc = IF q = r THEN "answered" ELSE asks[q].pc
    <2> DEFINE reply == IF asks[r].chan = "selected" THEN "selected" ELSE "cancelled"
    <2>1. asks' = [asks EXCEPT ![r].pc = "answered", ![r].reply = reply]
      BY DEF Respond
    <2>2. reply \in Replies /\ "answered" \in Steps
      BY DEF Replies, Steps
    <2> HIDE DEF reply
    <2>3. Handles /\ \A q \in DOMAIN asks :
           /\ asks'[q].chan = asks[q].chan /\ asks'[q].chosen = asks[q].chosen
           /\ asks'[q].reply = (IF q = r THEN reply ELSE asks[q].reply)
           /\ asks'[q].pc = IF q = r THEN "answered" ELSE asks[q].pc
      BY <2>1, <2>2, RepliesTo
    <2> QED BY <2>3 DEF reply
  <1>2. \A q \in DOMAIN asks : /\ Key(q)' = Key(q) /\ Key(q) \in Sessions /\ asks[q].call \in Calls
                               /\ q # None
    <2> KeysStay
      BY DEF KeysStay, Respond
    <2> QED BY <1>1, KeyStays, Members, Constants DEF AskOf, Handles
  <1>3. \A k \in Sessions :
          /\ live'[k].pending = live[k].pending /\ live'[k].held = live[k].held
          /\ live'[k].approval = IF k = Key(r) /\ live[k].held THEN FALSE ELSE live[k].approval
    <2>1. /\ live[Key(r)] \in EntryOf(DOMAIN conns, DOMAIN asks)
          /\ live \in [Sessions -> EntryOf(DOMAIN conns, DOMAIN asks)]
      BY OfHandler DEF Types
    <2> QED BY <2>1, <1>2 DEF Respond, EntryOf, Held
  <1>4. chat' = chat /\ hidden' = hidden
    BY DEF Respond, history
  <1>5. met' = met /\ blame' = blame
    BY DEF Respond, history
  <1>6. ASSUME NEW k \in Sessions PROVE Holds(k)'
    BY <1>1, <1>2, <1>3, <1>6 DEF Handles, Requests, Holds, Held, Waits, NoSenders, Respond, At
  <1>7. ASSUME NEW k \in Sessions PROVE Belongs(k)'
    BY <1>1, <1>2, <1>4, <1>7 DEF Handles, Requests, Belongs, Respond, At
  <1>8. ASSUME NEW q \in DOMAIN asks PROVE Registered(q)' /\ Blamed(q)' /\ Chosen(q)'
    <2>1. asks[r].pc = "decided" /\ asks[r].chan \in Outcomes
      BY Members DEF Respond, At, Requests, Blamed, AskOf
    <2>2. Registered(q)'
      <3>1. CASE q = r
        BY <1>1, <3>1 DEF Registered, Waits
      <3>2. CASE q # r
        <4>1. /\ asks'[q].pc = asks[q].pc
              /\ asks'[q].chan = asks[q].chan
              /\ asks'[q].call = asks[q].call
          BY <1>1, <1>8, <3>2 DEF Handles
        <4>2. live'[Key(q)].pending = live[Key(q)].pending /\ Registered(q)
          BY <1>2, <1>3, <1>8 DEF Requests
        <4> QED BY <1>2, <1>8, <4>1, <4>2 DEF Registered
      <3> QED BY <3>1, <3>2
    <2>3. Blamed(q)'
      BY <1>1, <1>5, <1>8, <2>1 DEF Handles, Requests, Blamed, Outcomes
    <2>4. Chosen(q)'
      BY <1>1, <1>5, <1>8, <2>1 DEF Handles, Requests, Chosen
    <2> QED BY <2>2, <2>3, <2>4
  <1>9. ASSUME NEW q \in DOMAIN asks PROVE Flagged(q)'
    <2>1. SUFFICES ASSUME q \notin met, asks[q].chan = "open",
                          asks'[q].pc \in {"flagged", "waiting"}
                   PROVE  live'[Key(q)].approval
      BY <1>1, <1>2, <1>5, <1>9 DEF Flagged, Handles
    <2>2. q # r /\ Busy(q) /\ Busy(r)
      BY <1>1, <2>1 DEF Busy, Respond, At
    <2>3. Key(q) # Key(r)
      BY <1>9, <2>1, <2>2 DEF Requests, Together
    <2> QED BY <1>1, <1>2, <1>3, <2>1, <2>2, <2>3 DEF Requests, Flagged
  <1>10. ASSUME NEW q \in DOMAIN asks PROVE Shown(q)'
    BY <1>1, <1>2, <1>4, <1>5, <1>10 DEF Handles, Requests, Shown, Respond, At
  <1>11. ASSUME NEW q \in DOMAIN asks, NEW p \in DOMAIN asks PROVE Together(q, p)'
    BY <1>1, <1>2, <1>5, <1>11 DEF Handles, Requests, Together, Busy, Respond, At
  <1> QED BY <1>1, <1>6, <1>7, <1>8, <1>9, <1>10, <1>11 DEF Handles, Requests

\* What is resolved is a card that was there.
LEMMA KeepsCard ==
  ASSUME NEW cards \in SUBSET CardRec, NEW call
  PROVE  \A card \in Resolved(cards, call) : \E old \in cards :
           /\ card.ask = old.ask /\ card.call = old.call
           /\ card.resolved <=> old.resolved \/ old.call = call
  BY DEF Resolved, CardRec

\* The cards of a tool call close: whoever still waits with one is in `met'.
LEMMA CloseRequests ==
  ASSUME Types, Requests, NEW r \in DOMAIN asks, Close(r)
  PROVE  Requests'
  <1>1. Handles /\ \A q \in DOMAIN asks :
          /\ asks'[q].chan = asks[q].chan /\ asks'[q].chosen = asks[q].chosen
          /\ asks'[q].reply = asks[q].reply
          /\ asks'[q].pc = IF q = r THEN "done" ELSE asks[q].pc
    BY GoesOn DEF Close, Steps
  <1>2. \A q \in DOMAIN asks : /\ Key(q)' = Key(q) /\ Key(q) \in Sessions /\ asks[q].call \in Calls
                               /\ q # None
    <2> KeysStay
      BY DEF KeysStay, Close
    <2> QED BY <1>1, KeyStays, Members, Constants DEF AskOf, Handles
  <1>3. live' = live
    BY DEF Close
  <1>4. /\ \A k \in Sessions : k # Key(r) => chat'[k].cards = chat[k].cards
        /\ chat'[Key(r)].cards = Resolved(chat[Key(r)].cards, asks[r].call)
        /\ hidden' = hidden
    <2>1. chat[Key(r)] \in ChatRec /\ chat \in [Sessions -> ChatRec]
      BY OfHandler DEF Types
    <2> QED BY <2>1, <1>2 DEF Close, ChatRec, history
  <1>5. met' = met /\ blame' = blame
    BY DEF Close, history
  <1>6. ASSUME NEW k \in Sessions PROVE Holds(k)'
    BY <1>1, <1>2, <1>3, <1>6 DEF Handles, Requests, Holds, Held, Waits, NoSenders, Close, At
  <1>7. ASSUME NEW k \in Sessions PROVE Belongs(k)'
    <2>1. \A card \in chat[Key(r)].cards :
            /\ card \in CardRec /\ card.ask \in DOMAIN asks /\ Key(card.ask) = Key(r)
            /\ card.call = asks[card.ask].call
            /\ ~card.resolved => asks[card.ask].pc \in {"waiting", "decided", "answered", "lost"}
      BY <1>2, CardAdded, OfHandler DEF Requests, Belongs, ChatRec, Card
    <2>2. \A card \in chat'[Key(r)].cards : \E old \in chat[Key(r)].cards :
            /\ card.ask = old.ask /\ card.call = old.call
            /\ card.resolved <=> old.resolved \/ old.call = asks[r].call
      BY <1>4, <2>1, KeepsCard
    <2>3. CASE k = Key(r)
      BY <1>1, <1>2, <2>1, <2>2, <2>3 DEF Handles, Belongs, Close, At
    <2>4. CASE k # Key(r)
      BY <1>1, <1>2, <1>4, <1>7, <2>4 DEF Handles, Requests, Belongs, Close, At
    <2> QED BY <2>3, <2>4
  <1>8. ASSUME NEW q \in DOMAIN asks PROVE Registered(q)' /\ Blamed(q)' /\ Chosen(q)'
    BY <1>1, <1>2, <1>3, <1>5, <1>8 DEF Handles, Requests, Registered, Blamed, Chosen, Waits,
       Close, At
  <1>9. ASSUME NEW q \in DOMAIN asks PROVE Flagged(q)'
    BY <1>1, <1>2, <1>3, <1>5, <1>9 DEF Handles, Requests, Flagged, Close, At
  <1>10. ASSUME NEW q \in DOMAIN asks PROVE Shown(q)'
    <2>1. SUFFICES ASSUME q \notin met \cup hidden, asks[q].chan = "open", asks'[q].pc = "waiting"
                   PROVE  \E card \in chat'[Key(q)].cards : card.ask = q /\ ~card.resolved
      BY <1>1, <1>2, <1>5, <1>4, <1>10 DEF Shown, Handles
    <2>2. q # r /\ Busy(q) /\ Busy(r)
      BY <1>1, <2>1 DEF Busy, Close, At
    <2>3. Key(q) # Key(r)
      BY <1>10, <2>1, <2>2 DEF Requests, Together
    <2> QED BY <1>1, <1>2, <1>4, <2>1, <2>2, <2>3 DEF Requests, Shown
  <1>11. ASSUME NEW q \in DOMAIN asks, NEW p \in DOMAIN asks PROVE Together(q, p)'
    BY <1>1, <1>2, <1>5, <1>11 DEF Handles, Requests, Together, Busy, Close, At
  <1> QED BY <1>1, <1>6, <1>7, <1>8, <1>9, <1>10, <1>11 DEF Handles, Requests

\* So do those that a replayed request is added to.
LEMMA ReplayedRequests ==
  ASSUME Types, Requests, NEW r \in DOMAIN asks, Replayed(r)
  PROVE  Requests'
  <1>1. Handles /\ \A q \in DOMAIN asks :
          /\ asks'[q].chan = asks[q].chan /\ asks'[q].chosen = asks[q].chosen
          /\ asks'[q].reply = (IF q = r THEN "cancelled" ELSE asks[q].reply)
          /\ asks'[q].pc = IF q = r THEN "done" ELSE asks[q].pc
    BY RepliesTo DEF Replayed, Refused, Steps, Replies
  <1>2. \A q \in DOMAIN asks : /\ Key(q)' = Key(q) /\ Key(q) \in Sessions /\ asks[q].call \in Calls
                               /\ q # None
    <2> KeysStay
      BY DEF KeysStay, Replayed
    <2> QED BY <1>1, KeyStays, Members, Constants DEF AskOf, Handles
  <1>3. live' = live
    BY DEF Replayed
  <1>4. /\ \A k \in Sessions : k # Key(r) => chat'[k].cards = chat[k].cards
        /\ chat'[Key(r)].cards = Resolved(chat[Key(r)].cards \cup {Card(r, TRUE)}, asks[r].call)
        /\ hidden' = hidden
    <2>1. chat[Key(r)] \in ChatRec /\ chat \in [Sessions -> ChatRec]
      BY OfHandler DEF Types
    <2> QED BY <2>1, <1>2 DEF Replayed, ChatRec, history
  <1>5. met' = met /\ blame' = blame
    BY DEF Replayed, history
  <1>6. ASSUME NEW k \in Sessions PROVE Holds(k)'
    BY <1>1, <1>2, <1>3, <1>6 DEF Handles, Requests, Holds, Held, Waits, NoSenders, Replayed, At
  <1>7. ASSUME NEW k \in Sessions PROVE Belongs(k)'
    <2> DEFINE shown == chat[Key(r)].cards \cup {Card(r, TRUE)}
    <2>1. \A card \in shown :
            /\ card \in CardRec /\ card.ask \in DOMAIN asks /\ Key(card.ask) = Key(r)
            /\ card.call = asks[card.ask].call
            /\ ~card.resolved => asks[card.ask].pc \in {"waiting", "decided", "answered", "lost"}
      <3>1. shown \in SUBSET CardRec
        BY CardAdded, OfHandler DEF ChatRec
      <3>2. \A card \in chat[Key(r)].cards :
            /\ card.ask \in DOMAIN asks /\ Key(card.ask) = Key(r)
            /\ card.call = asks[card.ask].call
            /\ ~card.resolved => asks[card.ask].pc \in {"waiting", "decided", "answered", "lost"}
        BY <1>2 DEF Requests, Belongs
      <3>3. Card(r, TRUE).ask = r /\ Card(r, TRUE).call = asks[r].call /\ Card(r, TRUE).resolved
        BY DEF Card
      <3> QED BY <3>1, <3>2, <3>3
    <2>2. \A card \in chat'[Key(r)].cards : \E old \in shown :
            /\ card.ask = old.ask /\ card.call = old.call
            /\ card.resolved <=> old.resolved \/ old.call = asks[r].call
      <3>1. chat'[Key(r)].cards = Resolved(shown, asks[r].call) /\ shown \in SUBSET CardRec
        BY <1>4, CardAdded
      <3> HIDE DEF shown
      <3> QED BY <3>1, KeepsCard
    <2> HIDE DEF shown
    <2>3. CASE k = Key(r)
      <3>1. asks[r].pc = "routed"
        BY DEF Replayed, At
      <3>2. ASSUME NEW card \in chat'[Key(r)].cards
            PROVE  /\ card.ask \in DOMAIN asks /\ Key(card.ask) = Key(r)
                   /\ card.call = asks[card.ask].call
                   /\ ~card.resolved => card.ask # r /\
                        asks[card.ask].pc \in {"waiting", "decided", "answered", "lost"}
        BY ONLY <2>1, <2>2, <3>1, <3>2
      <3> QED BY <1>1, <1>2, <2>3, <3>2 DEF Handles, Belongs
    <2>4. CASE k # Key(r)
      BY <1>1, <1>2, <1>4, <1>7, <2>4 DEF Handles, Requests, Belongs, Replayed, At
    <2> QED BY <2>3, <2>4
  <1>8. ASSUME NEW q \in DOMAIN asks PROVE Registered(q)' /\ Blamed(q)' /\ Chosen(q)'
    BY <1>1, <1>2, <1>3, <1>5, <1>8 DEF Handles, Requests, Registered, Blamed, Chosen, Waits,
       Replayed, At
  <1>9. ASSUME NEW q \in DOMAIN asks PROVE Flagged(q)'
    BY <1>1, <1>2, <1>3, <1>5, <1>9 DEF Handles, Requests, Flagged, Replayed, At
  <1>10. ASSUME NEW q \in DOMAIN asks PROVE Shown(q)'
    <2>1. SUFFICES ASSUME q \notin met \cup hidden, asks[q].chan = "open", asks'[q].pc = "waiting"
                   PROVE  \E card \in chat'[Key(q)].cards : card.ask = q /\ ~card.resolved
      BY <1>1, <1>2, <1>5, <1>4, <1>10 DEF Shown, Handles
    <2>2. q # r /\ Busy(q) /\ Busy(r)
      BY <1>1, <2>1 DEF Busy, Replayed, At
    <2>3. Key(q) # Key(r)
      BY <1>10, <2>1, <2>2 DEF Requests, Together
    <2> QED BY <1>1, <1>2, <1>4, <2>1, <2>2, <2>3 DEF Requests, Shown
  <1>11. ASSUME NEW q \in DOMAIN asks, NEW p \in DOMAIN asks PROVE Together(q, p)'
    BY <1>1, <1>2, <1>5, <1>11 DEF Handles, Requests, Together, Busy, Replayed, At
  <1> QED BY <1>1, <1>6, <1>7, <1>8, <1>9, <1>10, <1>11 DEF Handles, Requests

\* The sender is registered in the place of another, or taken out of it.
LEMMA SlotPut ==
  ASSUME Types, NEW k \in Sessions, NEW call \in Calls, NEW v
  PROVE  live' = [live EXCEPT ![k].pending[call] = v] => SlotSet(k, call, v)
  <1>1. live[k] \in EntryOf(DOMAIN conns, DOMAIN asks)
        /\ live \in [Sessions -> EntryOf(DOMAIN conns, DOMAIN asks)]
    BY Members DEF Types
  <1> QED BY <1>1 DEF EntryOf, SlotSet

\* One sender goes, and perhaps another comes in its place.
LEMMA SlotHolds ==
  ASSUME Types, Requests, NEW k \in Sessions, NEW call \in Calls, NEW v, SlotSet(k, call, v),
         DOMAIN asks' = DOMAIN asks,
         \A q \in DOMAIN asks : Key(q)' = Key(q) /\ asks'[q].call = asks[q].call,
         \A q \in DOMAIN asks :
           /\ q # live[k].pending[call]
           /\ asks[q].chan = "open" /\ asks[q].pc \in Waits \cup {"lost"}
           => asks'[q].chan = "open" /\ asks'[q].pc \in Waits \cup {"lost"},
         v # None => /\ Held(k) /\ v \in DOMAIN asks /\ asks[v].call = call /\ Key(v) = k
                     /\ asks'[v].chan = "open" /\ asks'[v].pc \in Waits \cup {"lost"}
  PROVE  \A i \in Sessions : Holds(i)'
  <1> SUFFICES ASSUME NEW i \in Sessions PROVE Holds(i)'
    OBVIOUS
  <1>1. /\ live'[i].held = live[i].held
        /\ \A c \in Calls : live'[i].pending[c] =
             IF i = k /\ c = call THEN v ELSE live[i].pending[c]
    BY DEF SlotSet
  <1>2. ASSUME NEW c \in Calls, NEW q, q = live'[i].pending[c], q # None
        PROVE  /\ q \in DOMAIN asks' /\ asks'[q].call = c /\ Key(q)' = i
               /\ asks'[q].chan = "open" /\ asks'[q].pc \in Waits \cup {"lost"}
    <2>1. CASE i = k /\ c = call
      BY <1>1, <1>2, <2>1
    <2>2. CASE ~(i = k /\ c = call)
      <3>1. q = live[i].pending[c]
        BY <1>1, <1>2, <2>2
      <3>2. /\ q \in DOMAIN asks /\ asks[q].call = c /\ Key(q) = i
            /\ asks[q].chan = "open" /\ asks[q].pc \in Waits \cup {"lost"}
        BY <1>2, <3>1, Sender
      <3>3. q # live[k].pending[call]
        BY <1>2, <2>2, <3>2, Sender
      <3> QED BY <3>2, <3>3
    <2> QED BY <2>1, <2>2
  <1>3. ~live'[i].held => \A c \in Calls : live'[i].pending[c] = None
    BY <1>1 DEF Requests, Holds, Held
  <1> QED BY <1>2, <1>3 DEF Holds, Held

\* A handler registers its sender; the one in its place is of `met' or lost.
LEMMA RegisterHeld ==
  ASSUME Types, Requests, NEW r \in DOMAIN asks, NEW k \in Sessions, k = Key(r),
         NEW call \in Calls, call = asks[r].call, NEW p, p = live[k].pending[call],
         Register(r), Held(k)
  PROVE  Requests'
  <1>1. \A q \in DOMAIN asks : /\ asks[q].call \in Calls /\ Key(q) \in Sessions /\ q # None
    BY Members, Constants DEF AskOf
  <1>2. /\ KeysStay /\ met' = met /\ blame' = blame /\ hidden' = hidden /\ chat' = chat
        /\ asks[r].pc = "admitted" /\ asks[r].chan = "open"
    BY DEF KeysStay, Register, history, At, Requests, Registered
  <1>3. Handles /\ \A q \in DOMAIN asks :
          /\ asks'[q].chosen = asks[q].chosen /\ asks'[q].reply = asks[q].reply
          /\ asks'[q].pc = IF q = r THEN "held" ELSE asks[q].pc
          /\ asks'[q].chan = IF q \in {p} /\ asks[q].chan = "open" THEN "gone" ELSE asks[q].chan
    <2> DEFINE R == {p}
    <2>1. asks' = [Settled(R, "gone") EXCEPT ![r].pc = "held"]
      BY DEF Register
    <2>2. "held" \in Steps /\ "gone" \in Outcomes
      BY DEF Steps, Outcomes
    <2> HIDE DEF R
    <2>3. Handles /\ \A q \in DOMAIN asks :
            /\ asks'[q].chosen = asks[q].chosen /\ asks'[q].reply = asks[q].reply
            /\ asks'[q].pc = IF q = r THEN "held" ELSE asks[q].pc
            /\ asks'[q].chan = IF q \in R /\ asks[q].chan = "open" THEN "gone" ELSE asks[q].chan
      BY <2>1, <2>2, SettlesAndGoes
    <2> QED BY <2>3 DEF R
  <1>4. \A q \in DOMAIN asks : Key(q)' = Key(q)
    BY <1>2, <1>3, KeyStays DEF Handles
  <1>5. SlotSet(k, call, r)
    <2>1. live' = [live EXCEPT ![k].pending[call] = r]
      BY DEF Register
    <2> QED BY <2>1, SlotPut
  <1>6. p # r /\ (p # None => /\ p \in DOMAIN asks /\ asks[p].call = call /\ Key(p) = k
                              /\ asks[p].pc \in Waits \cup {"lost"})
    BY <1>1, <1>2, Sender DEF Waits
  <1>7. p # None /\ asks[p].pc # "lost" => p \in met
    BY <1>2, <1>6 DEF Requests, Together, Busy, Waits
  <1>8. ASSUME NEW i \in Sessions PROVE Holds(i)'
    <2>1. \A q \in DOMAIN asks :
            /\ q # live[k].pending[call]
            /\ asks[q].chan = "open" /\ asks[q].pc \in Waits \cup {"lost"}
            => asks'[q].chan = "open" /\ asks'[q].pc \in Waits \cup {"lost"}
      BY <1>3 DEF Waits
    <2>2. asks'[r].chan = "open" /\ asks'[r].pc \in Waits \cup {"lost"}
      BY <1>2, <1>3, <1>6 DEF Waits
    <2> QED BY <1>3, <1>4, <1>5, <1>8, <2>1, <2>2, SlotHolds DEF Handles
  <1>9. ASSUME NEW i \in Sessions PROVE Belongs(i)'
    BY <1>2, <1>3, <1>4, <1>9 DEF Handles, Requests, Belongs
  <1>10. ASSUME NEW q \in DOMAIN asks PROVE Registered(q)'
    <2>1. CASE q = r
      BY <1>1, <1>3, <1>4, <1>5, <2>1 DEF SlotSet, Handles, Registered, Waits
    <2>2. CASE q # r
      <3>1. asks'[q].pc = asks[q].pc /\ asks'[q].call = asks[q].call /\ Registered(q)
        BY <1>3, <1>10, <2>2 DEF Handles, Requests
      <3>2. CASE q = p
        <4>1. /\ asks[q].pc \in Waits \cup {"lost"}
              /\ asks[q].chan = "open"
              /\ asks'[q].chan = "gone"
          BY <1>3, <1>6, <3>2, <1>10, <1>1, Sender
        <4> QED BY <3>1, <4>1 DEF Registered, Waits
      <3>3. CASE q # p
        <4>1. asks'[q].chan = asks[q].chan
          BY <1>3, <1>10, <3>3
        <4>2. live[Key(q)].pending[asks[q].call] = q => live'[Key(q)].pending[asks[q].call] = q
          BY <1>1, <1>5, <1>10, <3>3 DEF SlotSet
        <4> QED BY <1>4, <1>10, <3>1, <4>1, <4>2 DEF Registered
      <3> QED BY <3>2, <3>3
    <2> QED BY <2>1, <2>2
  <1>11. ASSUME NEW q \in DOMAIN asks PROVE Blamed(q)' /\ Chosen(q)'
    BY <1>1, <1>2, <1>3, <1>6, <1>7, <1>11 DEF Handles, Requests, Blamed, Chosen, Waits
  <1>12. ASSUME NEW q \in DOMAIN asks PROVE Flagged(q)' /\ Shown(q)'
    BY <1>1, <1>2, <1>3, <1>4, <1>5, <1>12 DEF SlotSet, Handles, Requests, Flagged, Shown
  <1>13. ASSUME NEW q \in DOMAIN asks, NEW o \in DOMAIN asks PROVE Together(q, o)'
    BY <1>2, <1>3, <1>4, <1>13 DEF Handles, Requests, Together, Busy
  <1> QED BY <1>3, <1>8, <1>9, <1>10, <1>11, <1>12, <1>13 DEF Handles, Requests

\* Its entry has gone, and it answers that the request is cancelled.
LEMMA RegisterGone ==
  ASSUME Types, Requests, NEW r \in DOMAIN asks, Register(r), ~Held(Key(r))
  PROVE  Requests'
  <1>1. \A q \in DOMAIN asks : /\ asks[q].call \in Calls /\ Key(q) \in Sessions /\ q # None
    BY Members, Constants DEF AskOf
  <1>2. /\ KeysStay /\ met' = met /\ blame' = blame /\ hidden' = hidden /\ chat' = chat
        /\ asks[r].pc = "admitted" /\ asks[r].chan = "open" /\ live' = live
        /\ asks' = [asks EXCEPT ![r].pc = "done", ![r].reply = "cancelled"]
    BY DEF KeysStay, Register, Refused, history, At, Requests, Registered
  <1>3. Handles /\ \A q \in DOMAIN asks :
          /\ asks'[q].chan = asks[q].chan /\ asks'[q].chosen = asks[q].chosen
          /\ asks'[q].reply = (IF q = r THEN "cancelled" ELSE asks[q].reply)
          /\ asks'[q].pc = IF q = r THEN "done" ELSE asks[q].pc
    BY <1>2, RepliesTo DEF Steps, Replies
  <1>4. \A q \in DOMAIN asks : Key(q)' = Key(q)
    BY <1>2, <1>3, KeyStays DEF Handles
  <1>5. ASSUME NEW i \in Sessions PROVE Holds(i)'
    BY <1>1, <1>2, <1>3, <1>4, <1>5 DEF Handles, Requests, Holds, Held, Waits
  <1>6. ASSUME NEW i \in Sessions PROVE Belongs(i)'
    BY <1>1, <1>2, <1>3, <1>4, <1>6 DEF Handles, Requests, Belongs
  <1>7. ASSUME NEW q \in DOMAIN asks PROVE Registered(q)' /\ Blamed(q)' /\ Chosen(q)'
    BY <1>1, <1>2, <1>3, <1>4, <1>7 DEF Handles, Requests, Registered, Blamed, Chosen, Waits
  <1>8. ASSUME NEW q \in DOMAIN asks PROVE Flagged(q)' /\ Shown(q)'
    BY <1>1, <1>2, <1>3, <1>4, <1>8 DEF Handles, Requests, Flagged, Shown
  <1>9. ASSUME NEW q \in DOMAIN asks, NEW o \in DOMAIN asks PROVE Together(q, o)'
    BY <1>2, <1>3, <1>4, <1>9 DEF Handles, Requests, Together, Busy
  <1> QED BY <1>3, <1>5, <1>6, <1>7, <1>8, <1>9 DEF Handles, Requests

LEMMA RegisterRequests ==
  ASSUME Types, Requests, NEW r \in DOMAIN asks, Register(r)
  PROVE  Requests'
  BY RegisterHeld, RegisterGone, OfHandler

\* A handler wakes: whoever is registered instead of it is of `met' or lost.
LEMMA WakeRequests ==
  ASSUME Types, Requests, NEW r \in DOMAIN asks, NEW k \in Sessions, k = Key(r),
         NEW call \in Calls, call = asks[r].call, NEW p, p = live[k].pending[call],
         Wake(r)
  PROVE  Requests'
  <1>1. \A q \in DOMAIN asks : /\ asks[q].call \in Calls /\ Key(q) \in Sessions /\ q # None
    BY Members, Constants DEF AskOf
  <1>2. /\ KeysStay /\ met' = met /\ blame' = blame /\ hidden' = hidden /\ chat' = chat
        /\ asks[r].pc = "waiting" /\ asks[r].chan # "open"
    BY DEF KeysStay, Wake, history, At
  <1>3. Handles /\ \A q \in DOMAIN asks :
          /\ asks'[q].chosen = asks[q].chosen /\ asks'[q].reply = asks[q].reply
          /\ asks'[q].pc = IF q = r THEN "decided" ELSE asks[q].pc
          /\ asks'[q].chan = IF q \in {p} /\ asks[q].chan = "open" THEN "gone" ELSE asks[q].chan
    <2> DEFINE R == {p}
    <2>1. asks' = [Settled(R, "gone") EXCEPT ![r].pc = "decided"]
      BY DEF Wake
    <2>2. "decided" \in Steps /\ "gone" \in Outcomes
      BY DEF Steps, Outcomes
    <2> HIDE DEF R
    <2>3. Handles /\ \A q \in DOMAIN asks :
            /\ asks'[q].chosen = asks[q].chosen /\ asks'[q].reply = asks[q].reply
            /\ asks'[q].pc = IF q = r THEN "decided" ELSE asks[q].pc
            /\ asks'[q].chan = IF q \in R /\ asks[q].chan = "open" THEN "gone" ELSE asks[q].chan
      BY <2>1, <2>2, SettlesAndGoes
    <2> QED BY <2>3 DEF R
  <1>4. \A q \in DOMAIN asks : Key(q)' = Key(q)
    BY <1>2, <1>3, KeyStays DEF Handles
  <1>5. SlotSet(k, call, None)
    <2>1. live' = [live EXCEPT ![k].pending[call] = None]
      BY DEF Wake
    <2> QED BY <2>1, SlotPut
  <1>6. p # r /\ (p # None => /\ p \in DOMAIN asks /\ asks[p].call = call /\ Key(p) = k
                              /\ asks[p].pc \in Waits \cup {"lost"})
    BY <1>1, <1>2, Sender
  <1>7. p # None /\ asks[p].pc # "lost" => p \in met
    BY <1>2, <1>6 DEF Requests, Together, Busy, Waits
  <1>8. ASSUME NEW i \in Sessions PROVE Holds(i)'
    <2>1. \A q \in DOMAIN asks :
            /\ q # live[k].pending[call]
            /\ asks[q].chan = "open" /\ asks[q].pc \in Waits \cup {"lost"}
            => asks'[q].chan = "open" /\ asks'[q].pc \in Waits \cup {"lost"}
      BY <1>2, <1>3
    <2> QED BY <1>3, <1>4, <1>5, <1>8, <2>1, SlotHolds DEF Handles
  <1>9. ASSUME NEW i \in Sessions PROVE Belongs(i)'
    BY <1>2, <1>3, <1>4, <1>9 DEF Handles, Requests, Belongs
  <1>10. ASSUME NEW q \in DOMAIN asks PROVE Registered(q)'
    <2>1. CASE q = r
      BY <1>3, <2>1 DEF Registered, Waits
    <2>2. CASE q = p
      <3>1. asks[q].pc \in Waits \cup {"lost"} /\ asks[q].chan = "open" /\ asks'[q].chan = "gone"
        BY <1>1, <1>3, <1>6, <1>10, <2>2, Sender
      <3>2. asks'[q].pc = asks[q].pc
        BY <1>3, <1>6, <1>10, <2>2
      <3> QED BY <3>1, <3>2 DEF Registered, Waits
    <2>3. CASE q # r /\ q # p
      <3>1. asks'[q].pc = asks[q].pc /\ asks'[q].call = asks[q].call /\ Registered(q)
            /\ asks'[q].chan = asks[q].chan
        BY <1>3, <1>10, <2>3 DEF Handles, Requests
      <3>2. live[Key(q)].pending[asks[q].call] = q => live'[Key(q)].pending[asks[q].call] = q
        BY <1>1, <1>5, <1>10, <2>3 DEF SlotSet
      <3> QED BY <1>4, <1>10, <3>1, <3>2 DEF Registered
    <2> QED BY <2>1, <2>2, <2>3
  <1>11. ASSUME NEW q \in DOMAIN asks PROVE Blamed(q)' /\ Chosen(q)'
    BY <1>1, <1>2, <1>3, <1>6, <1>7, <1>11 DEF Handles, Requests, Blamed, Chosen, Waits
  <1>12. ASSUME NEW q \in DOMAIN asks PROVE Flagged(q)' /\ Shown(q)'
    BY <1>1, <1>2, <1>3, <1>4, <1>5, <1>12 DEF SlotSet, Handles, Requests, Flagged, Shown
  <1>13. ASSUME NEW q \in DOMAIN asks, NEW o \in DOMAIN asks PROVE Together(q, o)'
    BY <1>2, <1>3, <1>4, <1>13 DEF Handles, Requests, Together, Busy
  <1> QED BY <1>3, <1>8, <1>9, <1>10, <1>11, <1>12, <1>13 DEF Handles, Requests

\* The user answers a card: what is registered under its tool call is the
\* request of the card, or that request is lost, or both are of `met'.
LEMMA AnswerRequests ==
  ASSUME Types, Requests, NEW k \in Sessions, Answer(k)
  PROVE  Requests'
  <1>1. PICK card \in chat[k].cards :
          /\ ~card.resolved /\ live[k].pending[card.call] # None
          /\ live' = [live EXCEPT ![k].pending[card.call] = None]
          /\ asks' = [Settled({live[k].pending[card.call]}, "selected")
                        EXCEPT ![live[k].pending[card.call]].chosen = card.ask]
    BY DEF Answer
  <1>2. PICK r : r = live[k].pending[card.call]
    OBVIOUS
  <1>3. card \in CardRec /\ card.call \in Calls /\ card.ask \in 0..MaxAsks
    BY Members, Constants DEF ChatRec, CardRec
  <1>4. /\ r \in DOMAIN asks /\ asks[r].call = card.call /\ Key(r) = k
        /\ asks[r].chan = "open" /\ asks[r].pc \in Waits \cup {"lost"} /\ Held(k)
    BY <1>1, <1>2, <1>3, Sender
  <1>5. Handles /\ \A q \in DOMAIN asks :
          /\ asks'[q].reply = asks[q].reply /\ asks'[q].pc = asks[q].pc
          /\ asks'[q].chosen = (IF q = r THEN card.ask ELSE asks[q].chosen)
          /\ asks'[q].chan = IF q = r /\ asks[q].chan = "open" THEN "selected" ELSE asks[q].chan
    <2>1. asks' = [Settled({r}, "selected") EXCEPT ![r].chosen = card.ask]
      BY <1>1, <1>2
    <2> QED BY <1>3, <1>4, <2>1, Answers
  <1>6. SlotSet(k, card.call, None)
    BY <1>1, <1>3, SlotPut
  <1>7. \A q \in DOMAIN asks : /\ asks[q].call \in Calls /\ Key(q) \in Sessions /\ q # None
    BY Members, Constants DEF AskOf
  <1>8. KeysStay /\ met' = met /\ blame' = blame /\ hidden' = hidden /\ chat' = chat
    BY DEF KeysStay, Answer, history
  <1>9. \A q \in DOMAIN asks : Key(q)' = Key(q)
    BY <1>5, <1>8, KeyStays DEF Handles
  <1>10. ASSUME NEW i \in Sessions PROVE Holds(i)'
    <2>1. \A q \in DOMAIN asks :
            /\ q # live[k].pending[card.call]
            /\ asks[q].chan = "open" /\ asks[q].pc \in Waits \cup {"lost"}
            => asks'[q].chan = "open" /\ asks'[q].pc \in Waits \cup {"lost"}
      BY <1>2, <1>5
    <2> QED BY <1>3, <1>5, <1>6, <1>9, <1>10, <2>1, SlotHolds DEF Handles
  <1>11. ASSUME NEW i \in Sessions PROVE Belongs(i)'
    BY <1>5, <1>8, <1>9, <1>11 DEF Handles, Requests, Belongs
  <1>12. ASSUME NEW q \in DOMAIN asks PROVE Registered(q)'
    <2>1. CASE q = r
      BY <1>4, <1>5, <2>1 DEF Registered, Waits
    <2>2. CASE q # r
      <3>1. asks'[q].pc = asks[q].pc /\ asks'[q].call = asks[q].call /\ Registered(q)
            /\ asks'[q].chan = asks[q].chan
        BY <1>5, <1>12, <2>2 DEF Handles, Requests
      <3>2. live[Key(q)].pending[asks[q].call] = q => live'[Key(q)].pending[asks[q].call] = q
        BY <1>2, <1>6, <1>7, <1>12, <2>2 DEF SlotSet
      <3> QED BY <1>9, <1>12, <3>1, <3>2 DEF Registered
    <2> QED BY <2>1, <2>2
  <1>13. ASSUME NEW q \in DOMAIN asks PROVE Blamed(q)'
    BY <1>4, <1>5, <1>8, <1>13 DEF Handles, Requests, Blamed, Waits
  <1>14. ASSUME NEW q \in DOMAIN asks PROVE Chosen(q)'
    <2>1. CASE q = r
      <3>1. /\ card.ask \in DOMAIN asks /\ Key(card.ask) = k
            /\ asks[card.ask].pc \in {"waiting", "decided", "answered", "lost"}
        BY <1>1 DEF Requests, Belongs
      <3>2. r \notin met /\ asks[r].pc # "lost" /\ card.ask # r => asks[card.ask].pc = "lost"
        BY <1>4, <3>1 DEF Requests, Together, Busy, Waits
      <3>3. asks[r].reply # "selected"
        BY <1>4 DEF Requests, Chosen, Waits
      <3> QED BY <1>4, <1>5, <1>8, <2>1, <3>1, <3>2, <3>3 DEF Handles, Chosen
    <2>2. CASE q # r
      BY <1>5, <1>8, <1>14, <2>2 DEF Handles, Requests, Chosen
    <2> QED BY <2>1, <2>2
  <1>15. ASSUME NEW q \in DOMAIN asks PROVE Flagged(q)' /\ Shown(q)'
    BY <1>5, <1>6, <1>7, <1>8, <1>9, <1>15 DEF SlotSet, Handles, Requests, Flagged, Shown
  <1>16. ASSUME NEW q \in DOMAIN asks, NEW o \in DOMAIN asks PROVE Together(q, o)'
    BY <1>5, <1>8, <1>9, <1>16 DEF Handles, Requests, Together, Busy
  <1> QED BY <1>5, <1>10, <1>11, <1>12, <1>13, <1>14, <1>15, <1>16 DEF Handles, Requests

\* The agent asks: whoever is busy with the key is of `met', and so is this.
LEMMA ReceiveRequests ==
  ASSUME Types, Requests, NEW c \in ConnIds, NEW call \in Calls, NEW options,
         Receive(c, call, options)
  PROVE  Requests'
  <1>0. PICK n : n = Len(asks) + 1
    OBVIOUS
  <1>1. PICK ask \in AskOf(DOMAIN conns) :
          /\ asks' = Append(asks, ask)
          /\ ask.conn = c /\ ask.call = call /\ ask.chan = "open" /\ ask.reply # "selected"
          /\ ask.pc \in {"done", "routed"}
          /\ ask.pc = "done" => ask.reply = "cancelled"
    BY Constants DEF Receive, Free, AskOf, None, Steps, Replies
  <1>2. /\ DOMAIN asks' = DOMAIN asks \cup {n} /\ n \notin DOMAIN asks
        /\ asks'[n] = ask /\ \A q \in DOMAIN asks : asks'[q] = asks[q]
    BY <1>0, <1>1, Members DEF Types
  <1>3. /\ conns' = conns /\ live' = live /\ chat' = chat /\ blame' = blame /\ hidden' = hidden
        /\ met \subseteq met'
        /\ \A q \in DOMAIN asks : Key(q) = conns[c].key /\ Busy(q) => q \in met' /\ n \in met'
    BY <1>0 DEF Receive, history
  <1>4. Key(n)' = conns[c].key
    <2>1. conns' = conns /\ asks'[n].conn = c
      BY <1>1, <1>2, <1>3
    <2> QED BY ONLY <2>1 DEF Key
  <1>5. \A q \in DOMAIN asks : Key(q)' = Key(q) /\ (Busy(q)' <=> Busy(q))
    BY <1>2, <1>3 DEF Key, Busy
  <1>6. ASSUME NEW i \in Sessions PROVE Holds(i)' /\ Belongs(i)'
    BY <1>2, <1>3, <1>5, <1>6 DEF Requests, Holds, Belongs, Held
  <1>7. ASSUME NEW q \in DOMAIN asks' PROVE Registered(q)' /\ Blamed(q)' /\ Chosen(q)'
    <2>1. CASE q = n
      BY <1>1, <1>2, <2>1 DEF Registered, Blamed, Chosen, Waits
    <2>2. CASE q \in DOMAIN asks
      BY <1>2, <1>3, <1>5, <2>2 DEF Requests, Registered, Blamed, Chosen
    <2> QED BY <1>2, <1>7, <2>1, <2>2
  <1>8. ASSUME NEW q \in DOMAIN asks' PROVE Flagged(q)' /\ Shown(q)'
    <2>1. CASE q = n
      BY <1>1, <1>2, <2>1 DEF Flagged, Shown
    <2>2. CASE q \in DOMAIN asks
      BY <1>2, <1>3, <1>5, <2>2 DEF Requests, Flagged, Shown
    <2> QED BY <1>2, <1>8, <2>1, <2>2
  <1>9. ASSUME NEW q \in DOMAIN asks', NEW o \in DOMAIN asks' PROVE Together(q, o)'
    <2>1. CASE q \in DOMAIN asks /\ o \in DOMAIN asks
      BY <1>2, <1>3, <1>5, <2>1 DEF Requests, Together, Busy
    <2>2. CASE q = n \/ o = n
      <3>1. \A a \in DOMAIN asks : Key(a)' = Key(n)' /\ Busy(a)' => a \in met' /\ n \in met'
        BY <1>3, <1>4, <1>5
      <3>2. (q # o /\ Key(q)' = Key(o)' /\ Busy(q)' /\ Busy(o)') => q \in met'
        BY <1>2, <1>9, <2>2, <3>1
      <3> QED BY <3>2 DEF Together
    <2> QED BY <1>2, <1>9, <2>1, <2>2
  <1> QED BY <1>6, <1>7, <1>8, <1>9 DEF Requests

-----------------------------------------------------------------------------
(* Steps of starts and turns *)

\* Where nothing of what decides the lists changes.
LEMMA ListsStay ==
  ASSUME Screens, start' = start, left' = left, unsaid' = unsaid,
         \A k \in Sessions : /\ live'[k].held = live[k].held /\ live'[k].todos = live[k].todos
                             /\ chat'[k].todos = chat[k].todos
  PROVE  Screens'
  BY DEF Screens, Listed, Held

LEMMA StartTurnStep ==
  ASSUME Inv, NEW k \in Sessions, StartTurn(k)
  PROVE  Requests' /\ Screens'
  <1>1. /\ live \in [Sessions -> EntryOf(DOMAIN conns, DOMAIN asks)]
        /\ chat \in [Sessions -> ChatRec]
    BY DEF Inv, Types
  <1>2. \A i \in Sessions :
          /\ live'[i].pending = live[i].pending /\ live'[i].approval = live[i].approval
          /\ live'[i].held = live[i].held /\ live'[i].todos = live[i].todos
    BY <1>1 DEF StartTurn, EntryOf
  <1>3. \A i \in Sessions : /\ chat'[i].cards = chat[i].cards /\ chat'[i].todos = chat[i].todos
    BY DEF StartTurn
  <1>4. KeysStay /\ asks' = asks /\ met' = met /\ blame' = blame /\ hidden' = hidden
    BY DEF KeysStay, StartTurn, history
  <1>5. Requests'
    BY <1>2, <1>3, <1>4, Calm DEF Inv
  <1>6. Screens'
    BY <1>2, <1>3, ListsStay DEF Inv, StartTurn, history
  <1> QED BY <1>5, <1>6

LEMMA CloseAnsweredStep ==
  ASSUME Inv, NEW k \in Sessions, CloseAnswered(k)
  PROVE  Requests' /\ Screens'
  <1>1. /\ live \in [Sessions -> EntryOf(DOMAIN conns, DOMAIN asks)]
        /\ chat \in [Sessions -> ChatRec]
    BY DEF Inv, Types
  <1>2. \A i \in Sessions :
          /\ live'[i].pending = live[i].pending /\ live'[i].approval = live[i].approval
          /\ live'[i].held = live[i].held /\ live'[i].todos = live[i].todos
    BY DEF CloseAnswered
  <1>3. \A i \in Sessions : /\ chat'[i].cards = chat[i].cards /\ chat'[i].todos = chat[i].todos
    BY DEF CloseAnswered
  <1>4. KeysStay /\ asks' = asks /\ met' = met /\ blame' = blame /\ hidden' = hidden
    BY DEF KeysStay, CloseAnswered, history
  <1>5. Requests'
    BY <1>2, <1>3, <1>4, Calm DEF Inv
  <1>6. Screens'
    BY <1>2, <1>3, ListsStay DEF Inv, CloseAnswered, history
  <1> QED BY <1>5, <1>6

LEMMA ExitStep ==
  ASSUME Inv, NEW c \in ConnIds, Exit(c)
  PROVE  Requests' /\ Screens'
  <1>1. /\ live \in [Sessions -> EntryOf(DOMAIN conns, DOMAIN asks)]
        /\ chat \in [Sessions -> ChatRec]
    BY DEF Inv, Types
  <1>2. \A i \in Sessions :
          /\ live'[i].pending = live[i].pending /\ live'[i].approval = live[i].approval
          /\ live'[i].held = live[i].held /\ live'[i].todos = live[i].todos
    BY DEF Exit
  <1>3. \A i \in Sessions : /\ chat'[i].cards = chat[i].cards /\ chat'[i].todos = chat[i].todos
    BY DEF Exit
  <1>4. KeysStay /\ asks' = asks /\ met' = met /\ blame' = blame /\ hidden' = hidden
    <2>1. KeysStay
      <3>1. [conns[c] EXCEPT !.closed = TRUE] \in ConnRec
            /\ [conns[c] EXCEPT !.closed = TRUE].key = conns[c].key
        BY Members DEF Inv, Exit, ConnRec
      <3>2. conns' = [conns EXCEPT ![c] = [conns[c] EXCEPT !.closed = TRUE]] /\ c \in DOMAIN conns
        BY DEF Exit
      <3> QED BY <3>1, <3>2, ConnPut DEF KeysStay, Inv
    <2> QED BY <2>1 DEF Exit, history
  <1>5. Requests'
    BY <1>2, <1>3, <1>4, Calm DEF Inv
  <1>6. Screens'
    BY <1>2, <1>3, ListsStay DEF Inv, Exit, history
  <1> QED BY <1>5, <1>6

LEMMA EndTurnStep ==
  ASSUME Inv, NEW c \in ConnIds, EndTurn(c)
  PROVE  Requests' /\ Screens'
  <1>1. /\ live \in [Sessions -> EntryOf(DOMAIN conns, DOMAIN asks)]
        /\ chat \in [Sessions -> ChatRec]
    BY DEF Inv, Types
  <1>2. \A i \in Sessions :
          /\ live'[i].pending = live[i].pending /\ live'[i].approval = live[i].approval
          /\ live'[i].held = live[i].held /\ live'[i].todos = live[i].todos
    BY <1>1 DEF EndTurn, EntryOf
  <1>3. \A i \in Sessions : /\ chat'[i].cards = chat[i].cards /\ chat'[i].todos = chat[i].todos
    BY DEF EndTurn
  <1>4. KeysStay /\ asks' = asks /\ met' = met /\ blame' = blame /\ hidden' = hidden
    BY DEF KeysStay, EndTurn, history
  <1>5. Requests'
    BY <1>2, <1>3, <1>4, Calm DEF Inv
  <1>6. Screens'
    BY <1>2, <1>3, ListsStay DEF Inv, EndTurn, history
  <1> QED BY <1>5, <1>6

LEMMA BeginSpawnStep ==
  ASSUME Inv, NEW k \in Sessions, BeginSpawn(k)
  PROVE  Requests' /\ Screens'
  <1>1. /\ live \in [Sessions -> EntryOf(DOMAIN conns, DOMAIN asks)]
        /\ chat \in [Sessions -> ChatRec]
    BY DEF Inv, Types
  <1>2. \A i \in Sessions :
          /\ live'[i].pending = live[i].pending /\ live'[i].approval = live[i].approval
          /\ live'[i].held = live[i].held /\ live'[i].todos = live[i].todos
    BY DEF BeginSpawn
  <1>3. \A i \in Sessions : /\ chat'[i].cards = chat[i].cards /\ chat'[i].todos = chat[i].todos
    BY DEF BeginSpawn
  <1>4. KeysStay /\ asks' = asks /\ met' = met /\ blame' = blame /\ hidden' = hidden
    BY DEF KeysStay, BeginSpawn, history
  <1>5. Requests'
    BY <1>2, <1>3, <1>4, Calm DEF Inv
  <1>6. Screens'
    BY <1>1, <1>2, <1>3, Members DEF Inv, Screens, Listed, Held, BeginSpawn, history, Resting,
       Types, StartOf
  <1> QED BY <1>5, <1>6

LEMMA EndLoadStep ==
  ASSUME Inv, NEW k \in Sessions, EndLoad(k)
  PROVE  Requests' /\ Screens'
  <1>1. /\ live \in [Sessions -> EntryOf(DOMAIN conns, DOMAIN asks)]
        /\ chat \in [Sessions -> ChatRec]
    BY DEF Inv, Types
  <1>2. \A i \in Sessions :
          /\ live'[i].pending = live[i].pending /\ live'[i].approval = live[i].approval
          /\ live'[i].held = live[i].held /\ live'[i].todos = live[i].todos
    BY DEF EndLoad
  <1>3. \A i \in Sessions : /\ chat'[i].cards = chat[i].cards /\ chat'[i].todos = chat[i].todos
    BY DEF EndLoad
  <1>4. KeysStay /\ asks' = asks /\ met' = met /\ blame' = blame /\ hidden' = hidden
    BY DEF KeysStay, EndLoad, history
  <1>5. Requests'
    BY <1>2, <1>3, <1>4, Calm DEF Inv
  <1>6. Screens'
    BY <1>1, <1>2, <1>3, Members DEF Inv, Screens, Listed, Held, EndLoad, history, Types, StartOf
  <1> QED BY <1>5, <1>6

LEMMA HistoryDoneStep ==
  ASSUME Inv, NEW k \in Sessions, HistoryDone(k)
  PROVE  Requests' /\ Screens'
  <1>1. /\ live \in [Sessions -> EntryOf(DOMAIN conns, DOMAIN asks)]
        /\ chat \in [Sessions -> ChatRec]
    BY DEF Inv, Types
  <1>2. \A i \in Sessions :
          /\ live'[i].pending = live[i].pending /\ live'[i].approval = live[i].approval
          /\ live'[i].held = live[i].held /\ live'[i].todos = live[i].todos
    BY DEF HistoryDone
  <1>3. \A i \in Sessions : /\ chat'[i].cards = chat[i].cards /\ chat'[i].todos = chat[i].todos
    BY <1>1 DEF HistoryDone, ChatRec
  <1>4. KeysStay /\ asks' = asks /\ met' = met /\ blame' = blame /\ hidden' = hidden
    BY DEF KeysStay, HistoryDone, history
  <1>5. Requests'
    BY <1>2, <1>3, <1>4, Calm DEF Inv
  <1>6. Screens'
    BY <1>1, <1>2, <1>3, Members DEF Inv, Screens, Listed, Held, HistoryDone, history, Resting,
       Types, StartOf
  <1> QED BY <1>5, <1>6

LEMMA FailStartStep ==
  ASSUME Inv, NEW k \in Sessions, FailStart(k)
  PROVE  Requests' /\ Screens'
  <1>1. /\ live \in [Sessions -> EntryOf(DOMAIN conns, DOMAIN asks)]
        /\ chat \in [Sessions -> ChatRec]
    BY DEF Inv, Types
  <1>2. \A i \in Sessions :
          /\ live'[i].pending = live[i].pending /\ live'[i].approval = live[i].approval
          /\ live'[i].held = live[i].held /\ live'[i].todos = live[i].todos
    BY DEF FailStart
  <1>3. \A i \in Sessions : /\ chat'[i].cards = chat[i].cards /\ chat'[i].todos = chat[i].todos
    BY <1>1 DEF FailStart, ChatRec
  <1>4. KeysStay /\ asks' = asks /\ met' = met /\ blame' = blame /\ hidden' = hidden
    BY DEF KeysStay, FailStart, history
  <1>5. Requests'
    BY <1>2, <1>3, <1>4, Calm DEF Inv
  <1>6. Screens'
    BY <1>1, <1>2, <1>3, Members DEF Inv, Screens, Listed, Held, FailStart, history, Resting,
       Types, StartOf
  <1> QED BY <1>5, <1>6

LEMMA ResetStep ==
  ASSUME Inv, NEW k \in Sessions, Reset(k)
  PROVE  Requests' /\ Screens'
  <1>1. /\ live \in [Sessions -> EntryOf(DOMAIN conns, DOMAIN asks)]
        /\ chat \in [Sessions -> ChatRec]
    BY DEF Inv, Types
  <1>2. \A i \in Sessions :
          /\ live'[i].pending = live[i].pending /\ live'[i].approval = live[i].approval
          /\ live'[i].held = live[i].held /\ live'[i].todos = live[i].todos
    BY DEF Reset
  <1>3. \A i \in Sessions : /\ chat'[i].cards = chat[i].cards
                              /\ chat'[i].todos = IF i = k THEN Cleared ELSE chat[i].todos
    BY <1>1 DEF Reset, ChatRec
  <1>4. KeysStay /\ asks' = asks /\ met' = met /\ blame' = blame /\ hidden' = hidden
    BY DEF KeysStay, Reset, history
  <1>5. Requests'
    BY <1>2, <1>3, <1>4, Calm DEF Inv
  <1>6. Screens'
    BY <1>1, <1>2, <1>3, Members DEF Inv, Screens, Listed, Held, Reset, history, Resting, Types,
       StartOf
  <1> QED BY <1>5, <1>6

LEMMA BeginLoadStep ==
  ASSUME Inv, NEW k \in Sessions, BeginLoad(k)
  PROVE  Requests' /\ Screens'
  <1>1. /\ live \in [Sessions -> EntryOf(DOMAIN conns, DOMAIN asks)]
        /\ chat \in [Sessions -> ChatRec]
    BY DEF Inv, Types
  <1>2. live' = live /\ KeysStay /\ asks' = asks /\ met' = met /\ blame' = blame
        /\ hidden \subseteq hidden'
    BY DEF BeginLoad, KeysStay
  <1>3. \A i \in Sessions :
          /\ chat'[i].todos = IF i = k THEN Cleared ELSE chat[i].todos
          /\ \/ chat'[i].cards = chat[i].cards
             \/ chat'[i].cards = {} /\ \A card \in chat[i].cards : card.ask \in hidden'
    BY <1>1 DEF BeginLoad, ChatRec
  <1>4. Requests'
    BY <1>2, <1>3, Calm DEF Inv
  <1>5. Screens'
    BY <1>1, <1>2, <1>3, Members DEF Inv, Screens, Listed, Held, BeginLoad, history, Resting,
       Types, StartOf
  <1> QED BY <1>4, <1>5

\* The process puts itself into the entry that is there, or a fresh one.
LEMMA ConnectStep ==
  ASSUME Inv, NEW k \in Sessions, Connect(k)
  PROVE  Requests' /\ Screens'
  <1> DEFINE id == IF start[k].load THEN past[k] ELSE None
             pc == IF id = None THEN "new" ELSE "load"
  <1>1. /\ live \in [Sessions -> EntryOf(DOMAIN conns, DOMAIN asks)]
        /\ chat \in [Sessions -> ChatRec] /\ start \in [Sessions -> StartOf(DOMAIN conns)]
        /\ id \in 0..MaxConns
    BY Constants DEF Inv, Types
  <1>2. /\ start[k].pc = "connect" /\ Connected(k, id)
        /\ past' = past /\ asks' = asks /\ met' = met /\ blame' = blame /\ hidden' = hidden
        /\ left' = left /\ unsaid' = unsaid
    BY DEF Connect, history
  <1>3. \A i \in Sessions : chat'[i].cards = chat[i].cards /\ chat'[i].todos = chat[i].todos
    BY <1>1 DEF Connect, ChatRec
  <1> HIDE DEF id
  <1>4. /\ KeysStay
        /\ \A i \in Sessions :
             /\ i # k => live'[i] = live[i] /\ start'[i] = start[i]
             /\ i = k => /\ live'[k].held
                         /\ start'[k].pc \in {"new", "load"} /\ start'[k].load = start[k].load
        /\ Held(k) => /\ live'[k].pending = live[k].pending
                      /\ live'[k].approval = live[k].approval /\ live'[k].todos = live[k].todos
        /\ ~Held(k) => live'[k].pending = NoSenders /\ live'[k].todos = Cleared
    <2>1. CASE Usable(k)
      <3>1. live[k].conn \in DOMAIN conns /\ Held(k)
        BY <1>1, <2>1 DEF Usable, EntryOf
      <3>2. /\ live' = [live EXCEPT ![k].id = IF id = None THEN @ ELSE id]
            /\ start' = [start EXCEPT ![k].conn = live[k].conn, ![k].pc = pc]
            /\ conns' = [conns EXCEPT ![live[k].conn].id = IF id = None THEN @ ELSE id]
        BY <1>2, <2>1 DEF Connected
      <3>3. KeysStay
        <4>1. conns[live[k].conn] \in ConnRec
          BY <3>1, Members DEF Inv
        <4>2. [conns[live[k].conn] EXCEPT !.id = IF id = None THEN @ ELSE id].key
                = conns[live[k].conn].key
          BY <4>1 DEF ConnRec
        <4> QED BY <3>1, <3>2, <4>2 DEF KeysStay
      <3>4. /\ live'[k].held /\ live'[k].pending = live[k].pending
            /\ live'[k].approval = live[k].approval /\ live'[k].todos = live[k].todos
        BY <1>1, <3>1, <3>2 DEF EntryOf, Held
      <3>5. start'[k].pc \in {"new", "load"} /\ start'[k].load = start[k].load
        BY <1>1, <3>2 DEF StartOf
      <3>6. \A i \in Sessions : i # k => live'[i] = live[i] /\ start'[i] = start[i]
        BY <1>1, <3>2
      <3> QED BY <3>1, <3>3, <3>4, <3>5, <3>6
    <2>2. CASE ~Usable(k)
      <3> DEFINE c == Len(conns) + 1
      <3>1. /\ c <= MaxConns
            /\ conns' = Append(conns, [key |-> k, id |-> IF id = None THEN c ELSE id,
                                       closed |-> FALSE])
            /\ start' = [start EXCEPT ![k].conn = c, ![k].pc = pc]
        BY <1>2, <2>2 DEF Connected
      <3>2. live' = [live EXCEPT ![k] =
                       IF Held(k) THEN [live[k] EXCEPT !.conn = c,
                                          !.id = IF id = None THEN live[k].id ELSE id]
                       ELSE Entry(c, id)]
        <4>1. CASE Held(k)
          BY <1>2, <2>2, <4>1 DEF Connected
        <4>2. CASE ~Held(k)
          BY <1>2, <2>2, <4>2 DEF Connected
        <4> QED BY <4>1, <4>2
      <3>3. KeysStay
        BY <3>1, Members DEF KeysStay, Inv, Types
      <3>4. Held(k) => /\ live'[k].held /\ live'[k].pending = live[k].pending
                       /\ live'[k].approval = live[k].approval /\ live'[k].todos = live[k].todos
        BY <1>1, <3>2 DEF EntryOf, Held
      <3>5. ~Held(k) => live'[k].held /\ live'[k].pending = NoSenders /\ live'[k].todos = Cleared
        BY <1>1, <3>2 DEF Entry
      <3>6. start'[k].pc \in {"new", "load"} /\ start'[k].load = start[k].load
        BY <1>1, <3>1 DEF StartOf
      <3>7. \A i \in Sessions : i # k => live'[i] = live[i] /\ start'[i] = start[i]
        BY <1>1, <3>1, <3>2
      <3> HIDE DEF c
      <3> QED BY <3>3, <3>4, <3>5, <3>6, <3>7
    <2> QED BY <2>1, <2>2
  <1>5. Requests'
    <2>1. live'[k].pending = live[k].pending
      <3>1. ~Held(k) => \A call \in Calls : live[k].pending[call] = None
        BY DEF Inv, Requests, Holds
      <3>2. live[k].pending \in [Calls -> {None} \cup DOMAIN asks]
        BY <1>1 DEF EntryOf
      <3>3. ~Held(k) => live[k].pending = NoSenders
        BY <3>1, <3>2 DEF NoSenders
      <3> QED BY <1>4, <3>3
    <2>2. \A i \in Sessions :
           /\ live'[i].pending = live[i].pending
           /\ live[i].held => live'[i].held
           /\ live[i].held /\ live[i].approval => live'[i].approval
      BY <1>4, <2>1 DEF Held
    <2>3. KeysStay /\ asks' = asks /\ met' = met /\ blame' = blame /\ hidden \subseteq hidden'
      BY <1>2, <1>4
    <2> QED BY <1>3, <2>2, <2>3, Calm DEF Inv
  <1>6. ASSUME NEW i \in Sessions PROVE Listed(i)'
    <2>1. Listed(i)
      BY <1>6 DEF Inv, Screens
    <2>2. CASE i # k
      BY <1>2, <1>3, <1>4, <1>6, <2>1, <2>2 DEF Listed, Held
    <2>3. CASE i = k
      BY <1>2, <1>3, <1>4, <1>6, <2>1, <2>3 DEF Listed, Held
    <2> QED BY <2>2, <2>3
  <1> QED BY <1>5, <1>6 DEF Screens

LEMMA TodoStep ==
  ASSUME Inv, NEW c \in ConnIds, NEW list \in Lists \cup {Cleared}, Todo(c, list)
  PROVE  Requests' /\ Screens'
  <1>1. /\ live \in [Sessions -> EntryOf(DOMAIN conns, DOMAIN asks)]
        /\ chat \in [Sessions -> ChatRec]
    BY DEF Inv, Types
  <1>2. PICK k \in Sessions : k = conns[c].key
    BY Members DEF Inv, Todo, Free, ConnRec
  <1>3. /\ KeysStay /\ asks' = asks /\ met' = met /\ blame' = blame /\ hidden' = hidden
        /\ start' = start /\ left' = left
    BY DEF KeysStay, Todo
  <1>4. CASE UNCHANGED <<live, chat, unsaid>>
    <2>1. Requests'
      BY <1>3, <1>4, Calm DEF Inv
    <2> QED BY <1>3, <1>4, <2>1, ListsStay DEF Inv
  <1>5. CASE /\ Held(k) /\ live' = [live EXCEPT ![k].todos = list]
             /\ chat' = [chat EXCEPT ![k].todos = list] /\ unsaid' = unsaid \ {k}
    <2>1. \A i \in Sessions :
            /\ live'[i].pending = live[i].pending /\ live'[i].approval = live[i].approval
            /\ live'[i].held = live[i].held /\ chat'[i].cards = chat[i].cards
            /\ live'[i].todos = IF i = k THEN list ELSE live[i].todos
            /\ chat'[i].todos = IF i = k THEN list ELSE chat[i].todos
      BY <1>1, <1>5 DEF EntryOf, ChatRec
    <2>2. Requests'
      BY <1>3, <2>1, Calm DEF Inv
    <2>3. Screens'
      BY <1>3, <1>5, <2>1 DEF Inv, Screens, Listed, Held
    <2> QED BY <2>2, <2>3
  <1> QED BY <1>2, <1>4, <1>5 DEF Todo

\* A new entry in the place of whatever is there: its list is sent next.
LEMMA InsertStep ==
  ASSUME Inv, NEW k \in Sessions, Insert(k)
  PROVE  Requests' /\ Screens'
  <1>1. /\ live \in [Sessions -> EntryOf(DOMAIN conns, DOMAIN asks)]
        /\ start \in [Sessions -> StartOf(DOMAIN conns)]
    BY DEF Inv, Types
  <1>2. PICK c : c = start[k].conn
    OBVIOUS
  <1>3. /\ start[k].pc = "new" /\ c \in DOMAIN conns
        /\ live' = [live EXCEPT ![k] = Entry(c, c)]
        /\ conns' = [conns EXCEPT ![c].id = c]
        /\ asks' = Settled(Senders(k), "gone") /\ blame' = blame \cup Senders(k)
        /\ start' = [start EXCEPT ![k].pc = "reset"]
        /\ chat' = chat /\ hidden' = hidden /\ met' = met /\ unsaid' = unsaid /\ left' = left
    BY <1>2 DEF Insert, Free
  <1>4. KeysStay
    <2>1. conns[c] \in ConnRec
      BY <1>3, Members DEF Inv
    <2>2. [conns[c] EXCEPT !.id = c].key = conns[c].key
      BY <2>1 DEF ConnRec
    <2> QED BY <1>3, <2>2 DEF KeysStay
  <1>5. Entry(c, c).pending = NoSenders /\ Entry(c, c).held
    BY DEF Entry
  <1>6. /\ live'[k].pending = NoSenders /\ live'[k].held
        /\ \A i \in Sessions \ {k} : live'[i] = live[i]
    BY <1>1, <1>3, <1>5
  <1>7. Requests'
    BY <1>3, <1>4, <1>6, Clears DEF Inv
  <1>8. \A i \in Sessions : /\ start'[i].load = start[i].load
                            /\ start'[i].pc = IF i = k THEN "reset" ELSE start[i].pc
    BY <1>1, <1>3 DEF StartOf
  <1>9. ASSUME NEW i \in Sessions PROVE Listed(i)'
    <2>1. CASE i = k
      BY <1>3, <1>6, <1>8, <2>1 DEF Listed, Held
    <2>2. CASE i # k
      BY <1>3, <1>6, <1>8, <1>9, <2>2 DEF Inv, Screens, Listed, Held
    <2> QED BY <2>1, <2>2
  <1> QED BY <1>7, <1>9 DEF Screens

LEMMA CancelTurnStep ==
  ASSUME Inv, NEW k \in Sessions, CancelTurn(k)
  PROVE  Requests' /\ Screens'
  <1>1. live \in [Sessions -> EntryOf(DOMAIN conns, DOMAIN asks)]
    BY DEF Inv, Types
  <1>2. /\ asks' = Settled(Senders(k), "cancelled") /\ blame' = blame \cup Senders(k)
        /\ KeysStay /\ met' = met /\ hidden' = hidden /\ chat' = chat
        /\ start' = start /\ left' = left /\ unsaid' = unsaid
    BY DEF CancelTurn, KeysStay
  <1>3. /\ live'[k].pending = NoSenders
        /\ \A i \in Sessions : live'[i].held = live[i].held /\ live'[i].todos = live[i].todos
        /\ \A i \in Sessions \ {k} : live'[i] = live[i]
    BY <1>1 DEF CancelTurn, EntryOf
  <1>4. Requests'
    BY <1>2, <1>3, Clears DEF Inv
  <1>5. Screens'
    BY <1>2, <1>3, ListsStay DEF Inv
  <1> QED BY <1>4, <1>5

LEMMA DropLiveStep ==
  ASSUME Inv, NEW k \in Sessions, DropLive(k)
  PROVE  Requests' /\ Screens'
  <1>1. /\ live \in [Sessions -> EntryOf(DOMAIN conns, DOMAIN asks)] /\ start[k] = Resting
    BY DEF Inv, Types, DropLive
  <1>2. /\ asks' = Settled(Senders(k), "cancelled") /\ blame' = blame \cup Senders(k)
        /\ KeysStay /\ met' = met /\ hidden' = hidden /\ chat' = chat
        /\ start' = start /\ left' = left \cup {k} /\ unsaid' = unsaid
    BY DEF DropLive, KeysStay
  <1>3. /\ live'[k].pending = NoSenders /\ ~live'[k].held
        /\ \A i \in Sessions \ {k} : live'[i] = live[i]
    BY <1>1, GoneType DEF DropLive
  <1>4. Requests'
    BY <1>2, <1>3, Clears DEF Inv
  <1>5. Screens'
    BY <1>1, <1>2, <1>3 DEF Inv, Screens, Listed, Held, Resting
  <1> QED BY <1>4, <1>5

-----------------------------------------------------------------------------
(* Every step *)

\* A handler's step changes neither an entry's list nor the chat's.
LEMMA ListsOfHandlers ==
  ASSUME Inv, NEW r \in DOMAIN asks, Handler(r) \/ Abandon(r)
  PROVE  Screens'
  <1>1. /\ live \in [Sessions -> EntryOf(DOMAIN conns, DOMAIN asks)]
        /\ chat \in [Sessions -> ChatRec]
    BY DEF Inv, Types
  <1>2. start' = start /\ left' = left /\ unsaid' = unsaid
    BY DEF Handler, Replayed, Admit, Register, SetApproval, Show, Wake, Respond, Close, Abandon,
           history
  <1>3. \A i \in Sessions : live'[i].held = live[i].held /\ live'[i].todos = live[i].todos
    <2>1. CASE live' = live
      BY <2>1
    <2>2. CASE Register(r) \/ Wake(r)
      BY <1>1, <2>2 DEF Register, Wake, EntryOf
    <2>3. CASE SetApproval(r)
      BY <1>1, <2>3 DEF SetApproval, EntryOf
    <2>4. CASE Respond(r)
      BY <1>1, <2>4 DEF Respond, EntryOf
    <2> QED BY <2>1, <2>2, <2>3, <2>4 DEF Handler, Replayed, Admit, Show, Close, Abandon
  <1>4. \A i \in Sessions : chat'[i].todos = chat[i].todos
    BY <1>1 DEF Handler, Replayed, Admit, Register, SetApproval, Show, Wake, Respond, Close,
                Abandon, ChatRec
  <1> QED BY <1>2, <1>3, <1>4, ListsStay DEF Inv

LEMMA HandlerStep ==
  ASSUME Inv, NEW r \in AskIds, Handler(r) \/ Abandon(r)
  PROVE  Inv'
  <1>1. r \in DOMAIN asks
    BY DEF Handler, Replayed, Admit, Register, SetApproval, Show, Wake, Respond, Close, Abandon,
       At
  <1>2. Types'
    BY <1>1, ReplayedTypes, AdmitTypes, RegisterTypes, SetApprovalTypes, ShowTypes, WakeTypes,
       RespondTypes, CloseTypes, AbandonTypes DEF Handler, Inv
  <1>3. Wake(r) => Requests'
    BY <1>1, OfHandler, WakeRequests DEF Inv
  <1>4. Requests'
    BY <1>1, <1>3, ReplayedRequests, AdmitRequests, RegisterRequests, SetApprovalRequests,
       ShowRequests, RespondRequests, CloseRequests, AbandonRequests DEF Handler, Inv
  <1> QED BY <1>1, <1>2, <1>4, ListsOfHandlers DEF Inv

LEMMA AnswerStep ==
  ASSUME Inv, NEW k \in Sessions, Answer(k)
  PROVE  Inv'
  <1>1. live \in [Sessions -> EntryOf(DOMAIN conns, DOMAIN asks)]
    BY DEF Inv, Types
  <1>2. \A i \in Sessions : live'[i].held = live[i].held /\ live'[i].todos = live[i].todos
    BY <1>1 DEF Answer, EntryOf
  <1>3. Screens'
    BY <1>2, ListsStay DEF Inv, Answer, history
  <1> QED BY <1>3, AnswerTypes, AnswerRequests DEF Inv

LEMMA ReceiveStep ==
  ASSUME Inv, NEW c \in ConnIds, NEW call \in Calls, NEW options, Receive(c, call, options)
  PROVE  Inv'
  <1>1. Screens'
    BY ListsStay DEF Inv, Receive
  <1> QED BY <1>1, ReceiveTypes, ReceiveRequests DEF Inv

LEMMA InitInv == Init => Inv
  <1> SUFFICES ASSUME Init PROVE Inv OBVIOUS
  <1>1. DOMAIN asks = {} /\ DOMAIN conns = {} /\ asks = <<>> /\ conns = <<>>
    BY DEF Init
  <1>2. Types
    <2>1. Gone \in EntryOf(DOMAIN conns, DOMAIN asks)
      BY GoneType
    <2>2. Resting \in StartOf(DOMAIN conns)
      BY DEF Resting, StartOf
    <2>3. [phase |-> "idle", cards |-> {}, todos |-> Cleared] \in ChatRec
      BY DEF ChatRec
    <2> QED BY <1>1, <2>1, <2>2, <2>3, Constants DEF Init, Types
  <1>3. \A k \in Sessions : live[k] = Gone /\ chat[k].cards = {} /\ chat[k].todos = Cleared
                            /\ start[k] = Resting
    BY DEF Init
  <1>4. Requests
    BY <1>1, <1>3, GoneType DEF Requests, Holds, Belongs, Held, NoSenders
  <1>5. Screens
    BY <1>3, GoneType DEF Screens, Listed, Held, Resting
  <1> QED BY <1>2, <1>4, <1>5 DEF Inv

LEMMA InvStep == Inv /\ [Next]_vars => Inv'
  <1> SUFFICES ASSUME Inv, [Next]_vars PROVE Inv' OBVIOUS
  <1>1. ASSUME NEW k \in Sessions,
               \/ BeginSpawn(k) \/ BeginLoad(k) \/ Connect(k) \/ Insert(k) \/ Reset(k)
               \/ EndLoad(k) \/ HistoryDone(k) \/ FailStart(k)
        PROVE  Inv'
    <2>1. Types'
      BY <1>1, BeginSpawnTypes, BeginLoadTypes, ConnectTypes, InsertTypes, ResetTypes,
         EndLoadTypes, HistoryDoneTypes, FailStartTypes DEF Inv
    <2>2. Requests' /\ Screens'
      BY <1>1, BeginSpawnStep, BeginLoadStep, ConnectStep, InsertStep, ResetStep,
         EndLoadStep, HistoryDoneStep, FailStartStep
    <2> QED BY <2>1, <2>2 DEF Inv
  <1>2. ASSUME NEW k \in Sessions,
               StartTurn(k) \/ CancelTurn(k) \/ DropLive(k) \/ CloseAnswered(k)
        PROVE  Inv'
    BY <1>2, StartTurnTypes, CancelTurnTypes, DropLiveTypes, CloseAnsweredTypes,
       StartTurnStep, CancelTurnStep, DropLiveStep, CloseAnsweredStep DEF Inv
  <1>3. ASSUME NEW c \in ConnIds, Exit(c) \/ EndTurn(c) PROVE Inv'
    BY <1>3, ExitTypes, EndTurnTypes, ExitStep, EndTurnStep DEF Inv
  <1>4. ASSUME NEW c \in ConnIds, NEW list \in Lists \cup {Cleared}, Todo(c, list) PROVE Inv'
    BY <1>4, TodoTypes, TodoStep DEF Inv
  <1>5. CASE UNCHANGED vars
    <2>1. Types'
      BY <1>5 DEF vars, history, Inv, Types
    <2>2. KeysStay /\ UNCHANGED <<live, asks, chat, start, blame, hidden, met, unsaid, left>>
      BY <1>5 DEF vars, history, KeysStay
    <2>3. Requests'
      BY <2>2, Calm DEF Inv
    <2>4. Screens'
      BY <2>2, ListsStay DEF Inv
    <2> QED BY <2>1, <2>3, <2>4 DEF Inv
  <1>6. CASE Next
    BY <1>1, <1>2, <1>3, <1>4, <1>6, AnswerStep, ReceiveStep, HandlerStep DEF Next
  <1> QED BY <1>5, <1>6

\* The invariant holds always.
THEOREM CardsInvariant == Spec => []Inv
  <1>1. Inv /\ [Next]_vars => Inv'
    BY InvStep
  <1> QED BY InitInv, <1>1, PTL DEF Spec

-----------------------------------------------------------------------------
(* What a reader should know of *)

\* Entries, connections, handlers and the screen keep their types, and every
\* sender, start and turn names a request or connection that exists.
THEOREM TypesHold == Spec => []TypeOK
  <1>1. Inv => TypeOK
    BY TypesSame DEF Inv
  <1> QED BY CardsInvariant, <1>1, PTL

\* What an agent waits for can be answered (permissions.rs,
\* handle_permission_request; store.ts): the sender is registered, the row is
\* flagged, and the card is on screen, but for the requests that `met' and
\* `hidden' record.
THEOREM CardsCanBeAnswered == Spec => []CardsAnswerable
  <1>1. Inv => CardsAnswerable
    <2> SUFFICES ASSUME Inv, NEW r \in DOMAIN asks \ (met \cup hidden),
                        asks[r].pc = "waiting", asks[r].chan = "open"
                 PROVE  /\ live[Key(r)].pending[asks[r].call] = r
                        /\ live[Key(r)].approval
                        /\ \E card \in chat[Key(r)].cards : card.ask = r /\ ~card.resolved
      BY DEF CardsAnswerable, At
    <2>1. Registered(r) /\ Flagged(r) /\ Shown(r)
      BY DEF Inv, Requests
    <2> QED BY <2>1 DEF Registered, Flagged, Shown, Waits
  <1> QED BY CardsInvariant, <1>1, PTL

\* A decision reaches the request whose card it was made on (permissions.rs,
\* answer_permission), however often the agent asks for the same tool call.
THEOREM DecisionsReachTheirOwn == Spec => []OwnAnswer
  <1>1. Inv => OwnAnswer
    <2> SUFFICES ASSUME Inv, NEW r \in DOMAIN asks \ met, asks[r].reply = "selected"
                 PROVE  asks[r].chosen = r \/ asks[asks[r].chosen].pc = "lost"
      BY DEF OwnAnswer
    <2>1. Chosen(r)
      BY DEF Inv, Requests
    <2> QED BY <2>1 DEF Chosen
  <1> QED BY CardsInvariant, <1>1, PTL

\* No request is refused on the user's behalf: the answer is cancelled only
\* after a cancelled turn, a drop or a new entry (cancel_turn, drop_live,
\* spawn_session).
THEOREM NothingIsRefused == Spec => []NoStrayCancel
  <1>1. Inv => NoStrayCancel
    <2> SUFFICES ASSUME Inv, NEW r \in DOMAIN asks \ met,
                        asks[r].pc = "answered", asks[r].reply = "cancelled"
                 PROVE  r \in blame
      BY DEF NoStrayCancel, At
    <2>1. Blamed(r)
      BY DEF Inv, Requests
    <2> QED BY <2>1 DEF Blamed
  <1> QED BY CardsInvariant, <1>1, PTL

\* The list on screen is the list the row counts once no start is under way
\* (turns.rs, update_todos; store.ts), but for what `unsaid' records.
THEOREM TodosAreShown == Spec => []TodosShown
  <1>1. Inv => TodosShown
    BY DEF Inv, Screens, Listed, TodosShown, Resting
  <1> QED BY CardsInvariant, <1>1, PTL

=============================================================================
