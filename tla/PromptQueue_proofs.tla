------------------------- MODULE PromptQueue_proofs -------------------------
(***************************************************************************)
(* No prompt is lost and none is sent while it is edited, for any prompts, *)
(* faults and bounds.  The argument: what the screen shows was typed, the  *)
(* prompt marked as edited on the screen is the one being edited, and      *)
(* whatever leaves the queue is sent or deleted in the same step.          *)
(***************************************************************************)
EXTENDS PromptQueue, SequenceTheorems, TLAPS

-----------------------------------------------------------------------------
(* The queue as a sequence *)

\* Taking a prompt out leaves a queue of prompts.
LEMMA WithoutType ==
  ASSUME NEW S, NEW s \in Seq(S), NEW m
  PROVE  Without(s, m) \in Seq(S)
<1>1. CASE m \in Elements(s)
  <2> DEFINE i == CHOOSE i \in 1..Len(s) : s[i] = m
  <2>1. i \in 1..Len(s)
    BY <1>1 DEF Elements
  <2>2. SubSeq(s, 1, i - 1) \in Seq(S) /\ SubSeq(s, i + 1, Len(s)) \in Seq(S)
    <3> HIDE DEF i
    <3>1. /\ i - 1 \in Int /\ i + 1 \in Int /\ Len(s) \in Int
          /\ \A j \in 1..(i - 1) : s[j] \in S
          /\ \A j \in (i + 1)..Len(s) : s[j] \in S
      BY <2>1
    <3> QED BY <3>1, SubSeqProperties
  <2>3. Without(s, m) = SubSeq(s, 1, i - 1) \o SubSeq(s, i + 1, Len(s))
    BY <1>1 DEF Without
  <2> HIDE DEF i
  <2> QED BY <2>2, <2>3
<1>2. CASE m \notin Elements(s)
  BY <1>2 DEF Without
<1> QED BY <1>1, <1>2

\* A queue without its i-th prompt: the ones behind it move up.
LEMMA CutOut ==
  ASSUME NEW S, NEW s \in Seq(S), NEW i \in 1..Len(s)
  PROVE  LET w == SubSeq(s, 1, i - 1) \o SubSeq(s, i + 1, Len(s)) IN
         /\ w \in Seq(S) /\ Len(w) = Len(s) - 1
         /\ \A j \in 1..(i - 1) : w[j] = s[j]
         /\ \A j \in i..(Len(s) - 1) : w[j] = s[j + 1]
<1> DEFINE a == SubSeq(s, 1, i - 1)
           b == SubSeq(s, i + 1, Len(s))
           w == a \o b
<1>1. /\ a \in Seq(S) /\ Len(a) = i - 1
      /\ \A j \in 1..(i - 1) : a[j] = s[j]
  <2>1. i - 1 \in Int /\ i - 1 >= 0 /\ \A j \in 1..(i - 1) : s[j] \in S
    OBVIOUS
  <2>2. /\ a \in Seq(S)
        /\ Len(a) = IF 1 <= i - 1 THEN i - 1 - 1 + 1 ELSE 0
        /\ \A j \in 1..(i - 1 - 1 + 1) : a[j] = s[1 + j - 1]
    BY <2>1, SubSeqProperties
  <2> QED BY <2>1, <2>2
<1>2. /\ b \in Seq(S) /\ Len(b) = Len(s) - i
      /\ \A j \in 1..(Len(s) - i) : b[j] = s[i + j]
  <2>1. /\ i \in Int /\ Len(s) \in Int /\ i <= Len(s)
        /\ \A j \in (i + 1)..Len(s) : s[j] \in S
    OBVIOUS
  <2>2. /\ b \in Seq(S)
        /\ Len(b) = IF i + 1 <= Len(s) THEN Len(s) - (i + 1) + 1 ELSE 0
        /\ \A j \in 1..(Len(s) - (i + 1) + 1) : b[j] = s[i + 1 + j - 1]
    BY <2>1, SubSeqProperties
  <2> QED BY <2>1, <2>2
<1> HIDE DEF a, b
<1>3. /\ w \in Seq(S) /\ Len(w) = Len(a) + Len(b)
      /\ \A j \in 1..(Len(a) + Len(b)) :
           w[j] = IF j <= Len(a) THEN a[j] ELSE b[j - Len(a)]
  BY <1>1, <1>2, ConcatProperties
<1>4. Len(w) = Len(s) - 1
  BY <1>1, <1>2, <1>3
<1>5. \A j \in 1..(i - 1) : w[j] = s[j]
  BY <1>1, <1>2, <1>3
<1>6. ASSUME NEW j \in i..(Len(s) - 1) PROVE w[j] = s[j + 1]
  <2>1. j \in 1..(Len(a) + Len(b)) /\ ~(j <= Len(a))
        /\ j - Len(a) \in 1..(Len(s) - i) /\ i + (j - Len(a)) = j + 1
    BY <1>1, <1>2
  <2> QED BY <1>2, <1>3, <2>1
<1> QED BY <1>3, <1>4, <1>5, <1>6 DEF a, b

\* Taking a prompt out cuts out one place that held it.
LEMMA WithoutCuts ==
  ASSUME NEW s, NEW m \in Elements(s)
  PROVE  \E i \in 1..Len(s) :
           /\ s[i] = m
           /\ Without(s, m) = SubSeq(s, 1, i - 1) \o SubSeq(s, i + 1, Len(s))
<1> DEFINE i == CHOOSE i \in 1..Len(s) : s[i] = m
<1>1. i \in 1..Len(s) /\ s[i] = m
  BY DEF Elements
<1>2. Without(s, m) = SubSeq(s, 1, i - 1) \o SubSeq(s, i + 1, Len(s))
  BY DEF Without
<1> HIDE DEF i
<1> QED BY <1>1, <1>2

\* Taking a prompt out takes out nothing else.
LEMMA WithoutElements ==
  ASSUME NEW S, NEW s \in Seq(S), NEW m
  PROVE  Elements(Without(s, m)) \cup {m} = Elements(s) \cup {m}
<1>1. CASE m \in Elements(s)
  <2> DEFINE w == Without(s, m)
  <2>1. PICK i \in 1..Len(s) :
          s[i] = m /\ w = SubSeq(s, 1, i - 1) \o SubSeq(s, i + 1, Len(s))
    BY <1>1, WithoutCuts
  <2>2. /\ Len(w) = Len(s) - 1
        /\ \A j \in 1..(i - 1) : w[j] = s[j]
        /\ \A j \in i..(Len(s) - 1) : w[j] = s[j + 1]
    BY <2>1, CutOut
  <2> HIDE DEF w
  <2>3. ASSUME NEW x \in Elements(w) PROVE x \in Elements(s)
    <3>1. PICK j \in 1..Len(w) : w[j] = x
      BY DEF Elements
    <3>2. \/ j \in 1..(i - 1) /\ x = s[j]
          \/ j + 1 \in 1..Len(s) /\ x = s[j + 1]
      BY <2>2, <3>1
    <3> QED BY <3>2 DEF Elements
  <2>4. ASSUME NEW x \in Elements(s), x # m PROVE x \in Elements(w)
    <3>1. PICK j \in 1..Len(s) : s[j] = x
      BY DEF Elements
    <3>2. j # i
      BY <2>1, <2>4, <3>1
    <3>3. \/ j \in 1..(i - 1) /\ j \in 1..Len(w) /\ w[j] = x
          \/ j - 1 \in i..(Len(s) - 1) /\ j - 1 \in 1..Len(w) /\ w[j - 1] = x
      BY <2>2, <3>1, <3>2
    <3> QED BY <3>3 DEF Elements
  <2> QED BY <2>3, <2>4 DEF w
<1>2. CASE m \notin Elements(s)
  BY <1>2 DEF Without
<1> QED BY <1>1, <1>2

LEMMA AppendElements ==
  ASSUME NEW S, NEW s \in Seq(S), NEW m \in S
  PROVE  /\ Append(s, m) \in Seq(S)
         /\ Elements(Append(s, m)) = Elements(s) \cup {m}
<1>1. /\ Append(s, m) \in Seq(S) /\ Len(Append(s, m)) = Len(s) + 1
      /\ Append(s, m)[Len(s) + 1] = m
      /\ \A i \in 1..Len(s) : Append(s, m)[i] = s[i]
  OBVIOUS
<1>2. 1..(Len(s) + 1) = (1..Len(s)) \cup {Len(s) + 1}
  OBVIOUS
<1> QED BY <1>1, <1>2 DEF Elements

\* Moving a prompt changes the order only.
LEMMA SwapElements ==
  ASSUME NEW S, NEW s \in Seq(S), NEW i \in 2..Len(s)
  PROVE  LET t == [s EXCEPT ![i] = s[i - 1], ![i - 1] = s[i]]
         IN  t \in Seq(S) /\ Elements(t) = Elements(s)
<1> DEFINE t == [s EXCEPT ![i] = s[i - 1], ![i - 1] = s[i]]
<1>1. t \in Seq(S) /\ Len(t) = Len(s)
  OBVIOUS
<1>2. /\ t[i] = s[i - 1] /\ t[i - 1] = s[i]
      /\ \A j \in 1..Len(s) : j # i /\ j # i - 1 => t[j] = s[j]
      /\ i \in 1..Len(s) /\ i - 1 \in 1..Len(s)
  OBVIOUS
<1> HIDE DEF t
<1>3. Elements(t) = Elements(s)
  BY <1>1, <1>2 DEF Elements
<1> QED BY <1>1, <1>3 DEF t

\* What drains is the head, and not the prompt being edited.
LEMMA DrainHeadShown ==
  ASSUME NEW s \in Seq(Messages), NEW edited, NEW idle
  PROVE  LET head == DrainHead(s, edited, idle) IN
         head # NoMessage =>
           head \in Messages /\ head \in Elements(s) /\ head # edited
<1>1. s # <<>> => Head(s) = s[1] /\ 1 \in 1..Len(s) /\ s[1] \in Messages
  OBVIOUS
<1> QED BY <1>1 DEF DrainHead, Elements


-----------------------------------------------------------------------------
(* The books *)

\* What makes NothingLost inductive: the screen holds typed prompts only, and
\* its editor is the editor.
Inv ==
  /\ TypeOK
  /\ NothingLost
  /\ Elements(shown.items) \subseteq typed
  /\ shown.editing = editing
  /\ editing # NoMessage => editing \in typed

Flagged == [Flags -> BOOLEAN]

EditKept ==
  \A m \in Messages :
    editing = m /\ editing' = m /\ m \in Elements(sent') => m \in Elements(sent)

\* What a step owes: prompts in the queue, those sent and those deleted are
\* still all the typed ones.
Books ==
  /\ items' \in Seq(Messages) /\ sent' \in Seq(Messages) /\ chat' \in Flagged
  /\ typed \subseteq typed' /\ typed' \subseteq Messages /\ deleted' \subseteq Messages
  /\ NothingLost'

Rest == card' = card /\ history' = history

\* A step of the user ends on a fresh screen.
LEMMA UserStep ==
  ASSUME Inv, Books, Rest, Flush, EditKept,
         editing' \in Messages => editing' \in typed',
         editing' \in Messages \cup {NoMessage}
  PROVE  Inv' /\ EditKept
<1>1. shown'.items = items' /\ shown'.editing = editing' /\ shown'.busy \in BOOLEAN
  BY DEF Flush, Screen, Busy, Books, Flagged, Flags
<1>2. Elements(items') \subseteq typed'
  BY DEF Books, NothingLost
<1>3. TypeOK'
  BY <1>1 DEF TypeOK, Books, Rest, Flagged, Inv
<1> QED BY <1>1, <1>2, <1>3, PromptQueueAssumption DEF Inv, Books, Elements

\* A step of the frontend leaves the screen and the editor.
LEMMA FrontendStep ==
  ASSUME Inv, Books, Rest, EditKept, shown' = shown, editing' = editing
  PROVE  Inv' /\ EditKept
<1>1. TypeOK'
  BY DEF TypeOK, Books, Rest, Flagged, Inv
<1>2. Elements(shown'.items) \subseteq typed'
  BY DEF Inv, Books, Elements
<1> QED BY <1>1, <1>2 DEF Inv, Books

\* A step of the backend touches none of it.
LEMMA BackendStep ==
  ASSUME Inv, UNCHANGED <<queue, chat, shown>>,
         card' \in {"none", "asked", "answered"},
         history' \in {"none", "loading", "loaded"}
  PROVE  Inv' /\ EditKept
<1>1. TypeOK'
  BY DEF TypeOK, Inv, queue
<1>2. NothingLost'
  BY DEF NothingLost, Inv, queue, Elements
<1> QED BY <1>1, <1>2 DEF Inv, EditKept, queue, Elements

LEMMA SendNowKeeps ==
  ASSUME Inv, NEW c \in Flagged, NEW m \in Messages, NEW awaited,
         SendNow(m, c, awaited)
  PROVE  /\ sent' \in Seq(Messages) /\ Elements(sent') = Elements(sent) \cup {m}
         /\ chat' \in Flagged
<1>1. sent \in Seq(Messages)
  BY DEF Inv, TypeOK
<1>2. sent' = Append(sent, m)
  BY DEF SendNow
<1>3. chat' \in Flagged
  BY DEF SendNow, Flagged, Flags
<1> QED BY <1>1, <1>2, <1>3, AppendElements

LEMMA DrainKeeps ==
  ASSUME Inv, NEW c \in Flagged, NEW idle, NEW awaited, Drain(c, idle, awaited),
         UNCHANGED <<typed, deleted, editing>>
  PROVE  Books /\ EditKept
<1> DEFINE head == DrainHead(shown.items, shown.editing, idle)
<1>1. /\ items \in Seq(Messages) /\ sent \in Seq(Messages)
      /\ shown.items \in Seq(Messages)
  BY DEF Inv, TypeOK
<1>2. CASE head = NoMessage
  <2>1. chat' = c /\ UNCHANGED <<items, sent>>
    BY <1>2 DEF Drain, Keep
  <2> QED BY <1>1, <2>1 DEF Books, EditKept, NothingLost, Inv, TypeOK, Elements
<1>3. CASE head # NoMessage
  <2>1. SendNow(head, c, awaited) /\ items' = Without(items, head)
    BY <1>3 DEF Drain
  <2>2. head \in Messages /\ head \in typed /\ head # editing
    BY <1>1, <1>3, DrainHeadShown DEF Inv
  <2> HIDE DEF head
  <2>3. /\ sent' \in Seq(Messages) /\ Elements(sent') = Elements(sent) \cup {head}
        /\ chat' \in Flagged
    BY <2>1, <2>2, SendNowKeeps
  <2>4. /\ items' \in Seq(Messages)
        /\ Elements(items') \cup {head} = Elements(items) \cup {head}
    BY <1>1, <2>1, WithoutType, WithoutElements
  <2>5. NothingLost'
    BY <2>2, <2>3, <2>4 DEF NothingLost, Inv
  <2> QED BY <2>2, <2>3, <2>4, <2>5 DEF Books, EditKept, Inv, TypeOK
<1> QED BY <1>2, <1>3

-----------------------------------------------------------------------------
(* The user *)

LEMMA SendStep ==
  ASSUME Inv, NEW m \in Messages, Send(m)
  PROVE  Inv' /\ EditKept
<1> DEFINE head == DrainHead(shown.items, shown.editing, Idle(chat))
<1>1. /\ items \in Seq(Messages) /\ sent \in Seq(Messages)
      /\ shown.items \in Seq(Messages) /\ chat \in Flagged
  BY DEF Inv, TypeOK, Flagged
<1>2. /\ typed' = typed \cup {m} /\ m \notin typed
      /\ UNCHANGED <<editing, deleted>> /\ Rest /\ Flush
  BY DEF Send, backend, Rest
<1>3. Books /\ EditKept
  <2>1. CASE items' = Append(items, m) /\ Keep(chat, calls)
    <3>1. items' \in Seq(Messages) /\ Elements(items') = Elements(items) \cup {m}
      BY <1>1, <2>1, AppendElements
    <3>2. sent' = sent /\ chat' = chat
      BY <2>1 DEF Keep
    <3>3. NothingLost'
      BY <1>2, <3>1, <3>2 DEF NothingLost, Inv
    <3> QED BY <1>1, <1>2, <3>1, <3>2, <3>3 DEF Books, EditKept, Inv, TypeOK
  <2>2. CASE /\ head # NoMessage /\ items' = Without(Append(items, m), head)
             /\ SendNow(head, chat, calls)
    <3>1. head \in Messages /\ head \in typed /\ head # editing
      BY <1>1, <2>2, DrainHeadShown DEF Inv
    <3>2. /\ Append(items, m) \in Seq(Messages)
          /\ Elements(Append(items, m)) = Elements(items) \cup {m}
      BY <1>1, AppendElements
    <3> DEFINE longer == Append(items, m)
    <3> HIDE DEF head, longer
    <3>3. /\ items' \in Seq(Messages)
          /\ Elements(items') \cup {head} = Elements(longer) \cup {head}
      <4>1. longer \in Seq(Messages) /\ items' = Without(longer, head)
        BY <2>2, <3>2 DEF longer
      <4> QED BY <4>1, WithoutType, WithoutElements
    <3>4. /\ sent' \in Seq(Messages) /\ Elements(sent') = Elements(sent) \cup {head}
          /\ chat' \in Flagged
      BY <1>1, <2>2, <3>1, SendNowKeeps
    <3>5. NothingLost'
      BY <1>2, <3>1, <3>2, <3>3, <3>4 DEF NothingLost, Inv, longer
    <3> QED BY <1>2, <3>1, <3>3, <3>4, <3>5 DEF Books, EditKept, Inv, TypeOK
  <2>3. CASE SendNow(m, chat, calls) /\ items' = items
    <3>1. /\ sent' \in Seq(Messages) /\ Elements(sent') = Elements(sent) \cup {m}
          /\ chat' \in Flagged
      BY <1>1, <2>3, SendNowKeeps
    <3>2. NothingLost'
      BY <1>2, <2>3, <3>1 DEF NothingLost, Inv
    <3>3. editing # m
      BY <1>2, PromptQueueAssumption DEF Inv
    <3> QED BY <1>1, <1>2, <2>3, <3>1, <3>2, <3>3 DEF Books, EditKept, Inv, TypeOK
  <2> QED BY <2>1, <2>2, <2>3 DEF Send
<1> QED BY <1>2, <1>3, UserStep, PromptQueueAssumption DEF Inv, TypeOK

LEMMA CommitStep ==
  ASSUME Inv, NEW emptied \in BOOLEAN, Commit(emptied)
  PROVE  Inv' /\ EditKept
<1> DEFINE m    == shown.editing
           isHead == shown.items # <<>> /\ Head(shown.items) = m
           left == IF emptied THEN Without(shown.items, m) ELSE shown.items
           head == DrainHead(left, NoMessage, Idle(chat) /\ (isHead \/ ~emptied))
           rest == IF emptied THEN Without(items, m) ELSE items
           gone == IF emptied THEN {m} ELSE {}
<1>1. /\ items \in Seq(Messages) /\ sent \in Seq(Messages)
      /\ shown.items \in Seq(Messages) /\ chat \in Flagged
  BY DEF Inv, TypeOK, Flagged
<1>2. /\ m \in Elements(shown.items) /\ editing' = NoMessage
      /\ deleted' = deleted \cup gone
      /\ typed' = typed /\ Rest /\ Flush
  BY DEF Commit, backend, Rest
<1>3. m \in typed /\ m \in Messages /\ typed \subseteq Messages
  BY <1>2 DEF Inv, TypeOK
<1>4. left \in Seq(Messages) /\ Elements(left) \subseteq typed
  BY <1>1, <1>3, WithoutType, WithoutElements DEF Inv
<1>5. rest \in Seq(Messages) /\ Elements(rest) \cup gone = Elements(items) \cup gone
  BY <1>1, WithoutType, WithoutElements
<1>6. deleted' \subseteq Messages
  BY <1>2, <1>3 DEF Inv, TypeOK
<1>7. IF head = NoMessage THEN items' = rest /\ Keep(chat, calls)
      ELSE items' = Without(rest, head) /\ SendNow(head, chat, calls)
  BY DEF Commit
<1> HIDE DEF isHead, left, rest
<1>8. Books
  <2>1. CASE head = NoMessage
    <3>1. items' = rest /\ sent' = sent /\ chat' = chat
      BY <1>7, <2>1 DEF Keep
    <3>2. NothingLost'
      BY <1>2, <1>3, <1>5, <3>1 DEF NothingLost, Inv
    <3> QED BY <1>1, <1>2, <1>3, <1>5, <1>6, <3>1, <3>2 DEF Books
  <2>2. CASE head # NoMessage
    <3>1. head \in Messages /\ head \in typed
      BY <1>4, <2>2, DrainHeadShown
    <3>2. items' = Without(rest, head) /\ SendNow(head, chat, calls)
      BY <1>7, <2>2
    <3> HIDE DEF head
    <3>3. /\ items' \in Seq(Messages)
          /\ Elements(items') \cup {head} = Elements(rest) \cup {head}
      BY <1>5, <3>2, WithoutType, WithoutElements
    <3>4. /\ sent' \in Seq(Messages) /\ Elements(sent') = Elements(sent) \cup {head}
          /\ chat' \in Flagged
      BY <1>1, <3>1, <3>2, SendNowKeeps
    <3>5. gone \subseteq typed
      BY <1>3
    <3> HIDE DEF gone
    <3>6. NothingLost'
      BY <1>2, <1>5, <3>1, <3>3, <3>4, <3>5 DEF NothingLost, Inv
    <3> QED BY <1>2, <1>3, <1>6, <3>3, <3>4, <3>6 DEF Books
  <2> QED BY <2>1, <2>2
<1>9. EditKept
  BY <1>2, PromptQueueAssumption DEF EditKept
<1> QED BY <1>2, <1>8, <1>9, UserStep, PromptQueueAssumption

\* Steps of the user that hand nothing over.
LEMMA QuietUserStep ==
  ASSUME Inv, UNCHANGED <<sent, typed, deleted>>, Rest, Flush, chat' \in Flagged,
         items' \in Seq(Messages), Elements(items') = Elements(items),
         editing' \in {editing, NoMessage} \cup Elements(shown.items)
  PROVE  Inv' /\ EditKept
<1>1. Books /\ EditKept
  BY DEF Books, EditKept, NothingLost, Inv, TypeOK, Elements
<1>2. editing' \in Messages \cup {NoMessage} /\ (editing' \in Messages => editing' \in typed')
  BY PromptQueueAssumption DEF Inv, TypeOK
<1> QED BY <1>1, <1>2, UserStep

LEMMA MoveStep ==
  ASSUME Inv, NEW i \in 2..Len(items), Move(i)
  PROVE  Inv' /\ EditKept
<1>1. items \in Seq(Messages) /\ chat \in Flagged
  BY DEF Inv, TypeOK, Flagged
<1>2. items' \in Seq(Messages) /\ Elements(items') = Elements(items)
  BY <1>1, SwapElements DEF Move
<1>3. /\ UNCHANGED <<editing, sent, typed, deleted, chat>> /\ Rest /\ Flush
  BY DEF Move, backend, Rest
<1> QED BY <1>1, <1>2, <1>3, QuietUserStep

-----------------------------------------------------------------------------
(* Every step *)

LEMMA InvInit == Init => Inv
<1> SUFFICES ASSUME Init PROVE Inv
  OBVIOUS
<1>1. chat \in Flagged
  BY DEF Init, Flagged, Flags
<1>2. Elements(<<>>) = {} /\ <<>> \in Seq(Messages)
  BY DEF Elements
<1> QED BY <1>1, <1>2 DEF Init, Inv, TypeOK, NothingLost, Flagged

LEMMA InvStep ==
  ASSUME Inv, [Next]_vars
  PROVE  Inv' /\ EditKept
<1> USE DEF Inv, TypeOK
<1>1. CASE UNCHANGED vars
  BY <1>1, BackendStep DEF vars, backend
<1>2. CASE User
  <2>1. ASSUME NEW m \in Messages, Send(m) PROVE Inv' /\ EditKept
    BY <2>1, SendStep
  <2>2. ASSUME NEW m \in Messages, Edit(m) PROVE Inv' /\ EditKept
    <3>1. /\ UNCHANGED <<items, typed, sent, deleted, chat>> /\ Rest /\ Flush
          /\ editing' \in Elements(shown.items)
      BY <2>2 DEF Edit, backend, Rest
    <3> QED BY <3>1, QuietUserStep DEF Flagged, Elements
  <2>3. ASSUME NEW emptied \in BOOLEAN, Commit(emptied) PROVE Inv' /\ EditKept
    BY <2>3, CommitStep
  <2>4. ASSUME NEW i \in 2..Len(items), Move(i) PROVE Inv' /\ EditKept
    BY <2>4, MoveStep
  <2>5. CASE CancelEdit
    <3>1. /\ UNCHANGED <<items, typed, sent, deleted, chat>> /\ Rest /\ Flush
          /\ editing' = NoMessage
      BY <2>5 DEF CancelEdit, backend, Rest
    <3> QED BY <3>1, QuietUserStep DEF Flagged, Elements
  <2>6. CASE Stop \/ Answer
    BY <2>6, BackendStep DEF Stop, Answer, backend
  <2>7. CASE Retry
    <3>1. /\ UNCHANGED <<items, editing, typed, sent, deleted>> /\ Rest /\ Flush
      BY <2>7 DEF Retry, queue, backend, Rest
    <3>2. chat' \in Flagged
      BY <2>7 DEF Retry, Flagged, Flags
    <3> QED BY <3>1, <3>2, QuietUserStep DEF Elements
  <2> QED BY <1>2, <2>1, <2>2, <2>3, <2>4, <2>5, <2>6, <2>7 DEF User
<1>3. CASE Backend
  <2>1. ASSUME NEW c \in calls, Prompted(c) \/ Stopped(c) \/ Answered(c)
        PROVE  Inv' /\ EditKept
    BY <2>1, BackendStep DEF Prompted, Stopped, Answered
  <2>2. CASE CloseCard \/ ReplayEnd
    BY <2>2, BackendStep DEF CloseCard, ReplayEnd
  <2> QED BY <1>3, <2>1, <2>2 DEF Backend
<1>4. CASE Agent
  <2>1. CASE AskCard \/ TurnText \/ ReplayBegin
    BY <2>1, BackendStep DEF AskCard, TurnText, ReplayBegin, backend
  <2>2. ASSUME NEW t \in turns, TurnEnd(t) PROVE Inv' /\ EditKept
    BY <2>2, BackendStep DEF TurnEnd
  <2> QED BY <1>4, <2>1, <2>2 DEF Agent
<1>5. CASE Frontend
  <2>1. CASE Render
    <3>1. /\ UNCHANGED <<items, editing, typed, sent, deleted, chat>> /\ Rest /\ Flush
      BY <2>1 DEF Render, queue, backend, Rest, Flush, Screen
    <3> QED BY <3>1, QuietUserStep DEF Flagged, Elements
  <2>2. CASE Event
    <3> DEFINE c == Applied(Head(events))
    <3>1. c \in Flagged
      BY DEF Applied, Flagged, Flags
    <3>2. UNCHANGED <<editing, typed, deleted, shown>> /\ Rest
      BY <2>2 DEF Event, backend, Rest
    <3>3. \/ Drain(c, Idle(c), calls)
          \/ Keep(c, calls) /\ UNCHANGED items
      BY <2>2 DEF Event
    <3> HIDE DEF c
    <3>4. CASE Keep(c, calls) /\ UNCHANGED items
      BY <3>1, <3>2, <3>4, FrontendStep DEF Keep, Books, EditKept, NothingLost, Elements
    <3>5. CASE Drain(c, Idle(c), calls)
      BY <3>1, <3>2, <3>5, DrainKeeps, FrontendStep
    <3> QED BY <3>3, <3>4, <3>5
  <2>3. ASSUME NEW d \in calls, Back(d) PROVE Inv' /\ EditKept
    <3>1. chat' \in Flagged
      BY <2>3 DEF Back, Flagged, Flags
    <3>2. UNCHANGED <<queue, shown>> /\ Rest
      BY <2>3 DEF Back, backend, Rest
    <3> QED BY <3>1, <3>2, FrontendStep DEF Books, EditKept, NothingLost, queue, Elements
  <2>4. ASSUME NEW d \in calls, BackStopped(d) PROVE Inv' /\ EditKept
    <3> DEFINE c == [chat EXCEPT !.working = FALSE, !.approval = FALSE]
    <3>1. c \in Flagged
      BY DEF Flagged, Flags
    <3>2. UNCHANGED <<editing, typed, deleted, shown>> /\ Rest
      BY <2>4 DEF BackStopped, backend, Rest
    <3>3. Drain(c, d.reply = "ok" /\ ~chat.failed /\ ~chat.replaying, calls \ {d})
      BY <2>4 DEF BackStopped
    <3> HIDE DEF c
    <3> QED BY <3>1, <3>2, <3>3, DrainKeeps, FrontendStep
  <2> QED BY <1>5, <2>1, <2>2, <2>3, <2>4 DEF Frontend
<1> QED BY <1>1, <1>2, <1>3, <1>4, <1>5 DEF Next

\* The state of the queue and of the screen keeps its types.
THEOREM TypesHold == Spec => []TypeOK
<1>1. Inv /\ [Next]_vars => Inv'
  BY InvStep
<1>2. Inv => TypeOK
  BY DEF Inv
<1> QED BY InvInit, <1>1, <1>2, PTL DEF Spec

\* A prompt is queued, sent or deleted by the user, and never just gone,
\* whatever the order of renders, events and answers.
THEOREM PromptsAreKept == Spec => []NothingLost
<1>1. Inv /\ [Next]_vars => Inv'
  BY InvStep
<1>2. Inv => NothingLost
  BY DEF Inv
<1> QED BY InvInit, <1>1, <1>2, PTL DEF Spec

\* A queued prompt the user edits is not sent.
THEOREM EditedPromptsStay == Spec => EditedStays
<1>1. Inv /\ [Next]_vars => Inv'
  BY InvStep
<1>2. Inv /\ [Next]_vars => [EditKept]_vars
  BY InvStep
<1> QED BY InvInit, <1>1, <1>2, PTL DEF Spec, EditedStays, EditKept
-----------------------------------------------------------------------------
(* The abstract delivery: sequences *)

\* No prompt is in a queue twice.
Once(s) == \A i, j \in 1..Len(s) : s[i] = s[j] => i = j

\* The head of a queue, and what is behind it.
LEMMA HeadTail ==
  ASSUME NEW S, NEW s \in Seq(S), s # <<>>
  PROVE  /\ Head(s) = s[1] /\ 1 \in 1..Len(s) /\ Head(s) \in S /\ Head(s) \in Elements(s)
         /\ Tail(s) \in Seq(S) /\ Len(Tail(s)) = Len(s) - 1
         /\ \A j \in 1..(Len(s) - 1) : Tail(s)[j] = s[j + 1]
<1>1. /\ Head(s) = s[1] /\ 1 \in 1..Len(s) /\ s[1] \in S
      /\ Tail(s) \in Seq(S) /\ Len(Tail(s)) = Len(s) - 1
      /\ \A j \in 1..(Len(s) - 1) : Tail(s)[j] = s[j + 1]
  OBVIOUS
<1> QED BY <1>1 DEF Elements

\* Two queues with the same prompts at the same places are the same.
LEMMA SameSequence ==
  ASSUME NEW S, NEW s \in Seq(S), NEW t \in Seq(S), Len(s) = Len(t),
         \A j \in 1..Len(s) : s[j] = t[j]
  PROVE  s = t
OBVIOUS

\* Taking out the head leaves the tail.
LEMMA WithoutHead ==
  ASSUME NEW S, NEW s \in Seq(S), s # <<>>, Once(s)
  PROVE  Without(s, Head(s)) = Tail(s)
<1> DEFINE w == Without(s, Head(s))
<1>1. PICK i \in 1..Len(s) :
        s[i] = Head(s) /\ w = SubSeq(s, 1, i - 1) \o SubSeq(s, i + 1, Len(s))
  BY HeadTail, WithoutCuts
<1>2. i = 1
  BY <1>1, HeadTail DEF Once
<1>3. /\ w \in Seq(S) /\ Len(w) = Len(s) - 1
      /\ \A j \in i..(Len(s) - 1) : w[j] = s[j + 1]
  BY <1>1, CutOut
<1> HIDE DEF w
<1>4. w = Tail(s)
  BY <1>2, <1>3, HeadTail, SameSequence
<1> QED BY <1>4 DEF w

\* The tail no longer holds the head, and nothing twice.
LEMMA TailOnce ==
  ASSUME NEW S, NEW s \in Seq(S), s # <<>>, Once(s)
  PROVE  Once(Tail(s)) /\ Elements(Tail(s)) \subseteq Elements(s) \ {Head(s)}
<1>1. ASSUME NEW j \in 1..Len(Tail(s))
      PROVE  j + 1 \in 1..Len(s) /\ Tail(s)[j] = s[j + 1] /\ j + 1 # 1 /\ j \in Int
  BY HeadTail
<1>2. Once(Tail(s))
  <2> SUFFICES ASSUME NEW i \in 1..Len(Tail(s)), NEW j \in 1..Len(Tail(s)),
                      Tail(s)[i] = Tail(s)[j]
               PROVE  i = j
    BY DEF Once
  <2>1. i + 1 = j + 1
    BY <1>1 DEF Once
  <2> QED BY <1>1, <2>1
<1>3. ASSUME NEW x \in Elements(Tail(s)) PROVE x \in Elements(s) /\ x # Head(s)
  <2>1. PICK j \in 1..Len(Tail(s)) : Tail(s)[j] = x
    BY DEF Elements
  <2> QED BY <1>1, <2>1, HeadTail DEF Once, Elements
<1> QED BY <1>2, <1>3

\* A new prompt at the end keeps a queue without repetition.
LEMMA AppendOnce ==
  ASSUME NEW S, NEW s \in Seq(S), NEW m \in S, m \notin Elements(s), Once(s)
  PROVE  Once(Append(s, m))
<1>1. /\ Len(Append(s, m)) = Len(s) + 1 /\ Append(s, m)[Len(s) + 1] = m
      /\ \A i \in 1..Len(s) : Append(s, m)[i] = s[i] /\ s[i] # m
  BY DEF Elements
<1>2. 1..(Len(s) + 1) = (1..Len(s)) \cup {Len(s) + 1}
  OBVIOUS
<1> QED BY <1>1, <1>2 DEF Once

\* So does taking one out, which takes it out for good.
LEMMA WithoutOnce ==
  ASSUME NEW S, NEW s \in Seq(S), NEW m \in Elements(s), Once(s)
  PROVE  Once(Without(s, m)) /\ m \notin Elements(Without(s, m))
<1> DEFINE w == Without(s, m)
<1>1. PICK i \in 1..Len(s) :
        s[i] = m /\ w = SubSeq(s, 1, i - 1) \o SubSeq(s, i + 1, Len(s))
  BY WithoutCuts
<1>2. /\ Len(w) = Len(s) - 1
      /\ \A j \in 1..(i - 1) : w[j] = s[j]
      /\ \A j \in i..(Len(s) - 1) : w[j] = s[j + 1]
  BY <1>1, CutOut
<1> HIDE DEF w
<1>3. ASSUME NEW j \in 1..Len(w)
      PROVE  \/ j < i /\ j \in 1..Len(s) /\ w[j] = s[j]
             \/ j >= i /\ j + 1 \in 1..Len(s) /\ w[j] = s[j + 1]
  BY <1>2
<1>4. ASSUME NEW j \in 1..Len(w), NEW k \in 1..Len(w), w[j] = w[k] PROVE j = k
  BY <1>3, <1>4 DEF Once
<1>5. ASSUME NEW j \in 1..Len(w) PROVE w[j] # m
  <2>1. PICK k \in 1..Len(s) : k # i /\ w[j] = s[k]
    BY <1>3
  <2> QED BY <1>1, <2>1 DEF Once
<1>6. Once(w) /\ m \notin Elements(w)
  BY <1>4, <1>5 DEF Once, Elements
<1> QED BY <1>6 DEF w

\* And swapping two.
LEMMA SwapOnce ==
  ASSUME NEW S, NEW s \in Seq(S), NEW i \in 2..Len(s), Once(s)
  PROVE  Once([s EXCEPT ![i] = s[i - 1], ![i - 1] = s[i]])
<1> DEFINE t == [s EXCEPT ![i] = s[i - 1], ![i - 1] = s[i]]
           from(j) == IF j = i THEN i - 1 ELSE IF j = i - 1 THEN i ELSE j
<1>1. Len(t) = Len(s)
  OBVIOUS
<1>2. \A j \in 1..Len(s) : from(j) \in 1..Len(s) /\ t[j] = s[from(j)]
  OBVIOUS
<1>3. \A j, k \in 1..Len(s) : from(j) = from(k) => j = k
  OBVIOUS
<1> HIDE DEF t, from
<1>4. Once(t)
  BY <1>1, <1>2, <1>3 DEF Once
<1> QED BY <1>4 DEF t

\* The latest prompt of those handed over.
Latest(s) == s[Len(s)]

\* What a stale screen shows: the prompt that has just gone, and the queue.
LEMMA Behind ==
  ASSUME NEW S, NEW s \in Seq(S), NEW h \in S
  PROVE  LET t == <<h>> \o s IN
         /\ t \in Seq(S) /\ t # <<>> /\ Head(t) = h /\ Tail(t) = s
         /\ t[1] = h /\ Len(t) = Len(s) + 1 /\ \A j \in 1..Len(s) : t[j + 1] = s[j]
         /\ Elements(t) = Elements(s) \cup {h}
<1> DEFINE t == <<h>> \o s
<1>1. /\ <<h>> \in Seq(S) /\ Len(<<h>>) = 1 /\ <<h>>[1] = h
  OBVIOUS
<1>2. /\ t \in Seq(S) /\ Len(t) = Len(s) + 1
      /\ \A j \in 1..(Len(s) + 1) : t[j] = IF j <= 1 THEN <<h>>[j] ELSE s[j - 1]
  BY <1>1, ConcatProperties
<1>3. t[1] = h /\ \A j \in 1..Len(s) : t[j + 1] = s[j]
  BY <1>1, <1>2
<1>4. t # <<>>
  BY <1>2
<1> HIDE DEF t
<1>5. Head(t) = h /\ Tail(t) = s
  BY <1>2, <1>3, <1>4, HeadTail, SameSequence
<1>6. ASSUME NEW x \in Elements(t) PROVE x \in Elements(s) \cup {h}
  <2>1. PICK j \in 1..(Len(s) + 1) : t[j] = x
    BY <1>2 DEF Elements
  <2>2. CASE j = 1
    BY <1>3, <2>1, <2>2
  <2>3. CASE j # 1
    <3>1. j - 1 \in 1..Len(s) /\ (j - 1) + 1 = j
      BY <2>3
    <3> QED BY <1>3, <2>1, <3>1 DEF Elements
  <2> QED BY <2>2, <2>3
<1>7. ASSUME NEW x \in Elements(s) \cup {h} PROVE x \in Elements(t)
  <2>1. CASE x = h
    <3>1. 1 \in 1..Len(t)
      BY <1>2
    <3> QED BY <1>3, <2>1, <3>1 DEF Elements
  <2>2. CASE x \in Elements(s)
    <3>1. PICK j \in 1..Len(s) : s[j] = x
      BY <2>2 DEF Elements
    <3>2. j + 1 \in 1..Len(t)
      BY <1>2
    <3> QED BY <1>3, <3>1, <3>2 DEF Elements
  <2> QED BY <1>7, <2>1, <2>2
<1>8. Elements(t) = Elements(s) \cup {h}
  BY <1>6, <1>7
<1> QED BY <1>2, <1>3, <1>4, <1>5, <1>8 DEF t

-----------------------------------------------------------------------------
(* The abstract delivery: steps *)

\* No prompt is in two places, and none waits twice.
Apart ==
  /\ Once(items)
  /\ \A m \in Elements(items) : m \notin Elements(sent) /\ m \notin deleted
  /\ \A m \in Elements(sent) : m \notin deleted

\* The screen shows the queue, or what it was before its head went out: a
\* prompt that is not in the editor.
Rendered ==
  \/ shown.items = items
  \/ /\ sent # <<>> /\ shown.items = <<Latest(sent)>> \o items
     /\ Latest(sent) # editing

\* What a step owes to the abstract delivery, beside Inv.
Delivered == Apart' /\ Rendered' /\ [Delivery!Next]_(Delivery!vars)

\* Nothing goes out of the queue q.
LEMMA Holds ==
  ASSUME Apart, NEW q, items' = q, sent' = sent, Once(q),
         \A m \in Elements(q) : m \notin Elements(sent) /\ m \notin deleted',
         \A m \in Elements(sent) : m \notin deleted'
  PROVE  Apart' /\ Delivery!Deliver(q)
BY DEF Apart, Elements, Once, Delivery!Deliver

\* What has been handed over, and its latest.
LEMMA HandedOver ==
  ASSUME NEW S, NEW s \in Seq(S), NEW m \in S
  PROVE  LET t == Append(s, m) IN
         t \in Seq(S) /\ t # <<>> /\ Latest(t) = m /\ Elements(t) = Elements(s) \cup {m}
<1>1. /\ Append(s, m) \in Seq(S) /\ Append(s, m) # <<>>
      /\ Append(s, m)[Len(Append(s, m))] = m
  OBVIOUS
<1> QED BY <1>1, AppendElements DEF Latest

\* The head of the queue q goes out, or the latest prompt once more.
LEMMA Hands ==
  ASSUME Apart, sent \in Seq(Messages), NEW q \in Seq(Messages), Once(q),
         \A m \in Elements(q) : m \notin Elements(sent) /\ m \notin deleted',
         \A m \in Elements(sent) : m \notin deleted',
         NEW h \in Messages, items' = Without(q, h), sent' = Append(sent, h),
         \/ q # <<>> /\ h = Head(q)
         \/ sent # <<>> /\ h = Latest(sent)
  PROVE  /\ Apart' /\ Delivery!Deliver(q)
         /\ sent' # <<>> /\ Latest(sent') = h
         /\ items' = q \/ (q # <<>> /\ h = Head(q) /\ items' = Tail(q))
<1>1. /\ sent' # <<>> /\ Latest(sent') = h /\ Elements(sent') = Elements(sent) \cup {h}
  BY HandedOver
<1>2. Elements(sent)' = Elements(sent) \cup {h}
  BY <1>1 DEF Elements
<1>3. CASE q # <<>> /\ h = Head(q)
  <2>1. items' = Tail(q) /\ h \in Elements(q)
    BY <1>3, WithoutHead, HeadTail
  <2>2. Once(items') /\ Elements(items') \subseteq Elements(q) \ {h}
    <3>1. Once(Tail(q)) /\ Elements(Tail(q)) \subseteq Elements(q) \ {h}
      BY <1>3, TailOnce
    <3> QED BY <2>1, <3>1
  <2>3. Apart'
    BY <1>2, <2>1, <2>2 DEF Apart, Once, Elements
  <2> QED BY <1>1, <1>3, <2>1, <2>3 DEF Delivery!Deliver
<1>4. CASE sent # <<>> /\ h = Latest(sent)
  <2>1. h \in Elements(sent)
    <3>1. Len(sent) \in 1..Len(sent)
      BY <1>4
    <3> QED BY <1>4, <3>1 DEF Elements, Latest
  <2>2. items' = q
    BY <2>1 DEF Without
  <2>3. Apart'
    BY <1>2, <2>1, <2>2 DEF Apart, Once, Elements
  <2> QED BY <1>1, <1>4, <2>2, <2>3 DEF Delivery!Deliver, Latest
<1> QED BY <1>3, <1>4

\* What a drain takes off the screen heads the queue or has just gone out.
LEMMA DrainsHead ==
  ASSUME Inv, Rendered, NEW edited, NEW idle,
         DrainHead(shown.items, edited, idle) # NoMessage
  PROVE  LET h == DrainHead(shown.items, edited, idle) IN
         /\ h \in Messages /\ h # edited /\ h \in typed
         /\ \/ shown.items = items /\ items # <<>> /\ h = Head(items)
            \/ /\ sent # <<>> /\ h = Latest(sent) /\ h # editing
               /\ shown.items = <<h>> \o items
<1>1. /\ items \in Seq(Messages) /\ sent \in Seq(Messages)
      /\ shown.items \in Seq(Messages)
  BY DEF Inv, TypeOK
<1>2. /\ shown.items # <<>> /\ Head(shown.items) # edited
      /\ DrainHead(shown.items, edited, idle) = Head(shown.items)
  BY DEF DrainHead
<1>3. Head(shown.items) \in Messages /\ Head(shown.items) \in typed
  BY <1>1, <1>2, HeadTail DEF Inv
<1>4. sent # <<>> => Latest(sent) \in Messages
  BY <1>1 DEF Latest
<1>5. sent # <<>> => Head(<<Latest(sent)>> \o items) = Latest(sent)
  BY <1>1, <1>4, Behind
<1> QED BY <1>2, <1>3, <1>5 DEF Rendered

\* The prompts in the queue are typed, and nowhere else.
LEMMA Placed ==
  ASSUME Inv, Apart
  PROVE  /\ items \in Seq(Messages) /\ sent \in Seq(Messages) /\ Once(items)
         /\ shown.items \in Seq(Messages)
         /\ \A m \in Elements(items) : m \in typed /\ m \notin Elements(sent) /\ m \notin deleted
         /\ \A m \in Elements(sent) : m \in typed /\ m \notin deleted
         /\ deleted \subseteq typed
BY DEF Inv, TypeOK, NothingLost, Apart

\* A drain after an event or an answer.
LEMMA DrainDelivers ==
  ASSUME Inv, Apart, Rendered, NEW c, NEW idle, NEW awaited, Drain(c, idle, awaited),
         UNCHANGED <<typed, deleted, editing, shown>>
  PROVE  Delivered
<1> DEFINE h == DrainHead(shown.items, shown.editing, idle)
<1>1. CASE h = NoMessage
  <2>1. UNCHANGED <<items, sent>>
    BY <1>1 DEF Drain, Keep
  <2> QED BY <2>1 DEF Delivered, Apart, Rendered, Once, Elements, Latest, Delivery!vars
<1>2. CASE h # NoMessage
  <2>1. sent' = Append(sent, h) /\ items' = Without(items, h)
    BY <1>2 DEF Drain, SendNow
  <2>2. /\ h \in Messages /\ h # shown.editing
        /\ \/ shown.items = items /\ items # <<>> /\ h = Head(items)
           \/ sent # <<>> /\ h = Latest(sent) /\ shown.items = <<h>> \o items
    BY <1>2, DrainsHead
  <2> HIDE DEF h
  <2>3. /\ Apart' /\ Delivery!Deliver(items) /\ sent' # <<>> /\ Latest(sent') = h
        /\ items' = items \/ (items # <<>> /\ h = Head(items) /\ items' = Tail(items))
    BY <2>1, <2>2, Placed, Hands
  <2>4. shown.items = <<h>> \o items'
    <3>1. items # <<>> => items = <<Head(items)>> \o Tail(items)
      <4> SUFFICES ASSUME items # <<>> PROVE items = <<Head(items)>> \o Tail(items)
        OBVIOUS
      <4>1. items \in Seq(Messages)
        BY Placed
      <4>2. /\ Head(items) \in Messages /\ Tail(items) \in Seq(Messages)
            /\ Len(Tail(items)) = Len(items) - 1 /\ Head(items) = items[1]
            /\ \A j \in 1..(Len(items) - 1) : Tail(items)[j] = items[j + 1]
        BY <4>1, HeadTail
      <4> DEFINE t == <<Head(items)>> \o Tail(items)
      <4>3. /\ t \in Seq(Messages) /\ t[1] = Head(items) /\ Len(t) = Len(items)
            /\ \A j \in 1..(Len(items) - 1) : t[j + 1] = Tail(items)[j]
        BY <4>1, <4>2, Behind
      <4> HIDE DEF t
      <4>4. ASSUME NEW j \in 1..Len(items) PROVE items[j] = t[j]
        <5>1. CASE j = 1
          BY <4>2, <4>3, <5>1
        <5>2. CASE j # 1
          <6>1. j - 1 \in 1..(Len(items) - 1) /\ (j - 1) + 1 = j
            BY <4>1, <5>2
          <6> QED BY <4>2, <4>3, <6>1
        <5> QED BY <5>1, <5>2
      <4> QED BY <4>1, <4>3, <4>4, SameSequence DEF t
    <3>2. CASE shown.items = items /\ items # <<>> /\ h = Head(items)
      <4>1. items' = Tail(items)
        BY <2>1, <3>2, Placed, WithoutHead
      <4> QED BY <3>1, <3>2, <4>1
    <3>3. CASE sent # <<>> /\ h = Latest(sent) /\ shown.items = <<h>> \o items
      <4>1. Len(sent) \in 1..Len(sent)
        BY <3>3, Placed
      <4>2. h \in Elements(sent)
        BY <3>3, <4>1 DEF Elements, Latest
      <4>3. items' = items
        BY <2>1, <4>2, Placed DEF Without
      <4> QED BY <3>3, <4>3
    <3> QED BY <2>2, <3>2, <3>3
  <2>5. Rendered'
    <3>1. shown'.items = <<Latest(sent')>> \o items' /\ Latest(sent') # editing'
      BY <2>2, <2>3, <2>4 DEF Inv
    <3> QED BY <2>3, <3>1 DEF Rendered, Latest
  <2> QED BY <2>3, <2>5 DEF Delivered, Delivery!Next, Delivery!Hand
<1> QED BY <1>1, <1>2

\* Steps that hand nothing over and keep the queue, on a fresh screen or on the
\* same one.
LEMMA QuietDelivers ==
  ASSUME Apart, Rendered, UNCHANGED <<items, typed, sent, deleted>>,
         Flush \/ UNCHANGED <<shown, editing>>
  PROVE  Delivered
<1>1. Apart' /\ [Delivery!Next]_(Delivery!vars)
  BY DEF Apart, Once, Elements, Delivery!vars
<1>2. Rendered'
  BY DEF Flush, Screen, Rendered, Latest
<1> QED BY <1>1, <1>2 DEF Delivered

\* The user enters a prompt.
LEMMA SendDelivers ==
  ASSUME Inv, Apart, Rendered, NEW m \in Messages, Send(m)
  PROVE  Delivered
<1> DEFINE h == DrainHead(shown.items, shown.editing, Idle(chat))
           q == Append(items, m)
<1>1. /\ typed' = typed \cup {m} /\ m \notin typed
      /\ UNCHANGED <<editing, deleted>> /\ Flush
  BY DEF Send
<1>2. /\ q \in Seq(Messages) /\ Elements(q) = Elements(items) \cup {m}
      /\ Once(q) /\ q # <<>>
  BY <1>1, Placed, AppendElements, AppendOnce, HandedOver
<1>3. /\ \A x \in Elements(q) : x \notin Elements(sent) /\ x \notin deleted'
      /\ \A x \in Elements(sent) : x \notin deleted'
  BY <1>1, <1>2, Placed
<1>4. Rendered'
  BY <1>1 DEF Flush, Screen, Rendered
<1>5. Apart' /\ Delivery!Deliver(q)
  <2>1. CASE items' = q /\ Keep(chat, calls)
    <3>1. sent' = sent
      BY <2>1 DEF Keep
    <3> HIDE DEF q
    <3> QED BY <1>2, <1>3, <2>1, <3>1, Holds
  <2>2. CASE /\ h # NoMessage /\ items' = Without(q, h)
             /\ SendNow(h, chat, calls)
    <3>1. /\ h \in Messages
          /\ \/ items # <<>> /\ h = Head(items)
             \/ sent # <<>> /\ h = Latest(sent)
      BY <2>2, DrainsHead
    <3>2. sent' = Append(sent, h)
      BY <2>2 DEF SendNow
    <3>3. items # <<>> => Head(q) = Head(items)
      BY Placed
    <3> HIDE DEF q, h
    <3>4. \/ q # <<>> /\ h = Head(q)
          \/ sent # <<>> /\ h = Latest(sent)
      BY <1>2, <3>1, <3>3
    <3> QED BY <1>2, <1>3, <2>2, <3>1, <3>2, <3>4, Placed, Hands
  <2>3. CASE shown.items = <<>> /\ SendNow(m, chat, calls) /\ items' = items
    <3>1. items = <<>>
      <4>1. sent # <<>> => Latest(sent) \in Messages
        BY Placed DEF Latest
      <4>2. sent # <<>> => <<Latest(sent)>> \o items # <<>>
        BY <4>1, Placed, Behind
      <4> QED BY <2>3, <4>2 DEF Rendered
    <3>2. q = <<m>> /\ Head(q) = m /\ Tail(q) = <<>>
      BY <3>1
    <3>3. items' = Without(q, m) /\ sent' = Append(sent, m)
      <4>1. Without(q, Head(q)) = Tail(q)
        BY <1>2, WithoutHead
      <4> QED BY <2>3, <3>1, <3>2, <4>1 DEF SendNow
    <3> HIDE DEF q
    <3> QED BY <1>2, <1>3, <3>2, <3>3, Placed, Hands
  <2> QED BY <2>1, <2>2, <2>3 DEF Send
<1> QED BY <1>1, <1>4, <1>5 DEF Delivered, Delivery!Next, Delivery!Type

\* The user is done with a queued prompt: he keeps it, or empties it.
LEMMA CommitDelivers ==
  ASSUME Inv, Apart, Rendered, NEW emptied \in BOOLEAN, Commit(emptied)
  PROVE  Delivered
<1> DEFINE m    == shown.editing
           isHead == shown.items # <<>> /\ Head(shown.items) = m
           left == IF emptied THEN Without(shown.items, m) ELSE shown.items
           idle == Idle(chat) /\ (isHead \/ ~emptied)
           h    == DrainHead(left, NoMessage, idle)
           q    == IF emptied THEN Without(items, m) ELSE items
<1>1. /\ m \in Elements(shown.items) /\ typed' = typed /\ Flush
      /\ deleted' = IF emptied THEN deleted \cup {m} ELSE deleted
      /\ IF h = NoMessage THEN items' = q /\ Keep(chat, calls)
         ELSE items' = Without(q, h) /\ SendNow(h, chat, calls)
  BY DEF Commit
<1>2. Rendered'
  BY <1>1 DEF Flush, Screen, Rendered
<1>3. sent # <<>> => Latest(sent) \in Messages
  BY Placed DEF Latest
<1>4. m \in Elements(items)
  <2>1. CASE shown.items = items
    BY <1>1, <2>1
  <2>2. CASE sent # <<>> /\ shown.items = <<Latest(sent)>> \o items /\ Latest(sent) # editing
    <3>1. Elements(shown.items) = Elements(items) \cup {Latest(sent)}
      BY <1>3, <2>2, Placed, Behind
    <3> QED BY <1>1, <2>2, <3>1 DEF Inv
  <2> QED BY <2>1, <2>2 DEF Rendered
<1>5. q \in Seq(Messages) /\ Once(q) /\ Elements(q) \subseteq Elements(items)
      /\ (emptied => m \notin Elements(q))
  <2>1. CASE emptied
    BY <1>4, <2>1, Placed, WithoutType, WithoutElements, WithoutOnce
  <2>2. CASE ~emptied
    BY <2>2, Placed
  <2> QED BY <2>1, <2>2
<1>6. /\ \A x \in Elements(q) : x \notin Elements(sent) /\ x \notin deleted'
      /\ \A x \in Elements(sent) : x \notin deleted'
  BY <1>1, <1>4, <1>5, Placed
<1>7. ASSUME h # NoMessage
      PROVE  /\ h \in Messages
             /\ \/ q # <<>> /\ h = Head(q)
                \/ sent # <<>> /\ h = Latest(sent)
  <2>1. left \in Seq(Messages) /\ left # <<>> /\ h = Head(left)
    BY <1>7, Placed, WithoutType DEF DrainHead
  <2>2. h \in Messages
    BY <2>1, HeadTail
  <2>3. CASE shown.items = items
    BY <2>1, <2>2, <2>3
  <2>4. CASE sent # <<>> /\ shown.items = <<Latest(sent)>> \o items /\ Latest(sent) # editing
    <3> DEFINE t == <<Latest(sent)>> \o items
    <3>1. /\ t \in Seq(Messages) /\ t # <<>> /\ Head(t) = Latest(sent)
          /\ t[1] = Latest(sent) /\ Len(t) = Len(items) + 1
      BY <1>3, <2>4, Placed, Behind
    <3>2. CASE ~emptied
      BY <2>1, <2>2, <2>4, <3>1, <3>2
    <3>3. CASE emptied
      <4>1. PICK i \in 1..Len(t) :
              /\ t[i] = m
              /\ left = SubSeq(t, 1, i - 1) \o SubSeq(t, i + 1, Len(t))
        <5>1. m \in Elements(t) /\ left = Without(t, m)
          BY <1>1, <2>4, <3>3
        <5> HIDE DEF t, m, left
        <5> QED BY <5>1, WithoutCuts
      <4> HIDE DEF t, left
      <4>2. i # 1
        BY <2>4, <3>1, <4>1 DEF Inv
      <4>3. 1 \in 1..(i - 1) /\ \A j \in 1..(i - 1) : left[j] = t[j]
        BY <3>1, <4>1, <4>2, CutOut
      <4>4. Head(left) = left[1]
        BY <2>1, HeadTail
      <4> QED BY <2>1, <2>2, <2>4, <3>1, <4>3, <4>4
    <3> QED BY <3>2, <3>3
  <2> QED BY <2>3, <2>4 DEF Rendered
<1> HIDE DEF h, left, idle, isHead
<1>8. Apart' /\ Delivery!Deliver(q)
  <2> HIDE DEF q
  <2>1. CASE h = NoMessage
    <3>1. items' = q /\ sent' = sent
      BY <1>1, <2>1 DEF Keep
    <3> QED BY <1>5, <1>6, <3>1, Holds
  <2>2. CASE h # NoMessage
    <3>1. items' = Without(q, h) /\ sent' = Append(sent, h)
      BY <1>1, <2>2 DEF SendNow
    <3> QED BY <1>5, <1>6, <1>7, <2>2, <3>1, Placed, Hands
  <2> QED BY <2>1, <2>2
<1>9. Delivery!Next
  <2>1. CASE ~emptied
    BY <1>1, <1>8, <2>1 DEF Delivery!Next, Delivery!Hand
  <2>2. CASE emptied
    <3>1. PICK i \in 1..Len(items) :
            /\ items[i] = m
            /\ q = SubSeq(items, 1, i - 1) \o SubSeq(items, i + 1, Len(items))
      BY <1>4, <2>2, WithoutCuts
    <3>2. Delivery!Withdraw(i)
      BY <1>1, <1>8, <2>2, <3>1 DEF Delivery!Withdraw
    <3> QED BY <3>2 DEF Delivery!Next
  <2> QED BY <2>1, <2>2
<1> QED BY <1>2, <1>8, <1>9 DEF Delivered

\* The user moves a queued prompt.
LEMMA MoveDelivers ==
  ASSUME Inv, Apart, Rendered, NEW i \in 2..Len(items), Move(i)
  PROVE  Delivered
<1>1. /\ items' = [items EXCEPT ![i] = items[i - 1], ![i - 1] = items[i]]
      /\ UNCHANGED <<typed, sent, deleted>> /\ Flush
  BY DEF Move
<1>2. Rendered'
  BY <1>1 DEF Flush, Screen, Rendered
<1>3. Elements(items') = Elements(items) /\ Once(items')
  BY <1>1, Placed, SwapElements, SwapOnce
<1>4. Apart'
  BY <1>1, <1>3 DEF Apart, Once, Elements
<1>5. Delivery!Swap(i)
  BY <1>1 DEF Delivery!Swap
<1> QED BY <1>2, <1>4, <1>5 DEF Delivered, Delivery!Next

\* Every step of the queue is a step of the abstract delivery or none.
LEMMA DeliverStep ==
  ASSUME Inv, Apart, Rendered, [Next]_vars
  PROVE  Delivered
<1> USE DEF queue, backend
<1>1. CASE UNCHANGED vars
  BY <1>1, QuietDelivers DEF vars
<1>2. CASE User
  <2>1. ASSUME NEW m \in Messages, Send(m) PROVE Delivered
    BY <2>1, SendDelivers
  <2>2. ASSUME NEW m \in Messages, Edit(m) PROVE Delivered
    BY <2>2, QuietDelivers DEF Edit
  <2>3. ASSUME NEW emptied \in BOOLEAN, Commit(emptied) PROVE Delivered
    BY <2>3, CommitDelivers
  <2>4. ASSUME NEW i \in 2..Len(items), Move(i) PROVE Delivered
    BY <2>4, MoveDelivers
  <2>5. CASE CancelEdit \/ Stop \/ Answer \/ Retry
    BY <2>5, QuietDelivers DEF CancelEdit, Stop, Answer, Retry
  <2> QED BY <1>2, <2>1, <2>2, <2>3, <2>4, <2>5 DEF User
<1>3. CASE Backend \/ Agent
  <2>1. UNCHANGED <<queue, shown>>
    BY <1>3 DEF Backend, Agent, Prompted, Stopped, Answered, CloseCard, ReplayEnd,
       AskCard, TurnText, ReplayBegin, TurnEnd
  <2> QED BY <2>1, QuietDelivers
<1>4. CASE Frontend
  <2>1. CASE Render
    BY <2>1, QuietDelivers DEF Render, Flush, Screen
  <2>2. CASE Event
    <3>1. UNCHANGED <<typed, deleted, editing, shown>>
      BY <2>2 DEF Event
    <3>2. \/ Drain(Applied(Head(events)), Idle(Applied(Head(events))), calls)
          \/ UNCHANGED <<items, sent>>
      BY <2>2 DEF Event, Keep
    <3> QED BY <3>1, <3>2, DrainDelivers, QuietDelivers
  <2>3. ASSUME NEW d \in calls, Back(d) PROVE Delivered
    BY <2>3, QuietDelivers DEF Back
  <2>4. ASSUME NEW d \in calls, BackStopped(d) PROVE Delivered
    BY <2>4, DrainDelivers DEF BackStopped
  <2> QED BY <1>4, <2>1, <2>2, <2>3, <2>4 DEF Frontend
<1> QED BY <1>1, <1>2, <1>3, <1>4 DEF Next

\* The queue of prompts, with its renders, events and answers in any order,
\* delivers prompts as the abstract queue does.
THEOREM ImplementsDelivery == Spec => DeliverySpec
<1>1. Init => Apart /\ Rendered /\ Delivery!Init
  BY DEF Init, Apart, Rendered, Once, Elements, Delivery!Init
<1>2. Inv /\ [Next]_vars => Inv'
  BY InvStep
<1>3. Inv /\ Apart /\ Rendered /\ [Next]_vars
        => Apart' /\ Rendered' /\ [Delivery!Next]_(Delivery!vars)
  BY DeliverStep DEF Delivered
<1> QED BY InvInit, <1>1, <1>2, <1>3, PTL DEF Spec, DeliverySpec, Delivery!Spec

=============================================================================
