--------------------------- MODULE PromptDelivery ---------------------------
(***************************************************************************)
(* What a session's prompt queue promises, free of renders, events and     *)
(* commands on their way.  A prompt waits, is handed to the backend or     *)
(* withdrawn by the user; only the head of the queue is handed over, and   *)
(* only the user reorders it.  Of what was handed over only the latest     *)
(* prompt may be handed over again; a withdrawn one is never heard of.     *)
(***************************************************************************)
EXTENDS Integers, Sequences

CONSTANT Messages

VARIABLES
  typed,      \* prompts the user entered
  waiting,    \* the queue
  handed,     \* prompts handed to the backend, in order
  withdrawn   \* queued prompts the user deleted

vars == <<typed, waiting, handed, withdrawn>>

Init == typed = {} /\ waiting = <<>> /\ handed = <<>> /\ withdrawn = {}

\* From a queue q nothing goes out, or its head, or the latest prompt again.
Deliver(q) ==
  \/ waiting' = q /\ handed' = handed
  \/ /\ q # <<>>
     /\ waiting' = Tail(q) /\ handed' = Append(handed, Head(q))
  \/ /\ handed # <<>>
     /\ waiting' = q /\ handed' = Append(handed, handed[Len(handed)])

Type(m) ==
  /\ m \notin typed
  /\ typed' = typed \cup {m}
  /\ Deliver(Append(waiting, m))
  /\ UNCHANGED withdrawn

Withdraw(i) ==
  /\ withdrawn' = withdrawn \cup {waiting[i]}
  /\ Deliver(SubSeq(waiting, 1, i - 1) \o SubSeq(waiting, i + 1, Len(waiting)))
  /\ UNCHANGED typed

Swap(i) ==
  /\ waiting' = [waiting EXCEPT ![i] = waiting[i - 1], ![i - 1] = waiting[i]]
  /\ UNCHANGED <<typed, handed, withdrawn>>

Hand == Deliver(waiting) /\ UNCHANGED <<typed, withdrawn>>

Next ==
  \/ \E m \in Messages : Type(m)
  \/ \E i \in 1..Len(waiting) : Withdraw(i)
  \/ \E i \in 2..Len(waiting) : Swap(i)
  \/ Hand

Spec == Init /\ [][Next]_vars
=============================================================================
