------------------------ MODULE ScopingDrafts_proofs ------------------------
(***************************************************************************)
(* What ScopingDrafts keeps true for any number of commands, names and     *)
(* restarts: types, that plans stay in the list, and that titles stay with *)
(* their plans.                                                            *)
(*                                                                         *)
(* The core is what holds of one name: a name that still is, or is about   *)
(* to be, a reserved plan was never prompted, and nobody who moves or      *)
(* prompts it stands past the step where it is.                            *)
(***************************************************************************)
EXTENDS ScopingDrafts, TLAPS

\* A command under way is about a plan, and a title taken over is one.
Standing(c) ==
  /\ task[c].pc \notin {"idle", "create", "select"} => task[c].n \in Names
  /\ task[c].pc \in {"carried", "save title"} => task[c].text \in Titles

\* The name is reserved, or its first prompt is giving it a directory.
Upcoming(n) ==
  \/ pending[n] # Free
  \/ \E c \in Calls : task[c].n = n /\ task[c].pc \in NameSteps

\* Nothing refers to a name that was never reserved.
Unused(n) ==
  n \notin used => /\ IsEmpty(n) /\ pending[n] = Free /\ n \notin dirs
                   /\ \A c \in Calls : task[c].n # n

\* An upcoming plan is empty, and stays so: no copy of its state.json says
\* otherwise and nobody is past the point where it was upcoming.
UpcomingIsEmpty(n) ==
  Upcoming(n) => /\ IsEmpty(n)
                 /\ \A c \in Calls : task[c].n = n =>
                      ~task[c].copy.prompted /\ task[c].pc \notin TurnSteps \cup MoveSteps

\* The prompt that takes the title over left a directory behind.
CarriedHasDir(n) ==
  \A c \in Calls : task[c].n = n /\ task[c].pc = "carry" /\ pending[n] # Free => n \in dirs

\* One prompt of a plan is on its way.
OneSend(n) ==
  \A c, d \in Calls :
    /\ task[c].n = n /\ task[c].pc \in SendSteps
    /\ task[d].n = n /\ task[d].pc \in SendSteps
    => c = d

\* A conversation has a directory, and is on record unless torn.
SaidIsKept(n) ==
  /\ n \in said => n \in dirs
  /\ n \in said /\ n \notin torn => file[n].prompted

NameInv(n) ==
  /\ Unused(n) /\ OneSend(n) /\ SaidIsKept(n)
  /\ n \notin reused => UpcomingIsEmpty(n) /\ CarriedHasDir(n)

Inv ==
  /\ TypeOK
  /\ \A c \in Calls : Standing(c)
  /\ \A n \in Names : NameInv(n)

-----------------------------------------------------------------------------
(* Steps of one command *)

\* The record of command c changes, and no other.
StepTo(c) ==
  /\ task' \in [Calls -> CallRec]
  /\ \A d \in Calls : d # c => task'[d] = task[d]

GoesTo(c, pc) ==
  /\ StepTo(c) /\ task'[c].pc = pc /\ task'[c].n = task[c].n
  /\ task'[c].text = task[c].text /\ task'[c].copy = task[c].copy

Ends(c) == StepTo(c) /\ task'[c].pc = "idle" /\ task'[c].n = Other

Begins(c, pc, n) ==
  /\ StepTo(c) /\ task[c].n = Other
  /\ task'[c].pc = pc /\ task'[c].n = n /\ ~task'[c].copy.prompted

\* The steps, in one set.
LEMMA StepNames ==
  CallSteps = {"idle", "create", "select", "cancel", "execute", "mode", "save mode", "check",
               "mkdir", "carry", "carried", "save title", "forget",
               "start", "id", "save id", "mark", "flag", "save flag", "turn",
               "move", "drop", "carry flag", "spawn", "view", "pin"}
  BY DEF CallSteps, SendSteps, NameSteps, TurnSteps, MoveSteps

LEMMA GotoStep ==
  ASSUME TypeOK, NEW c \in Calls, NEW pc \in CallSteps, Goto(c, pc)
  PROVE  GoesTo(c, pc)
  <1> DEFINE u == [task[c] EXCEPT !.pc = pc]
  <1>1. u \in CallRec BY DEF TypeOK, CallRec
  <1> QED BY <1>1 DEF TypeOK, Goto, GoesTo, StepTo, CallRec

LEMMA DoneStep ==
  ASSUME TypeOK, NEW c \in Calls, Done(c)
  PROVE  Ends(c)
  <1>1. Idle \in CallRec BY DEF Idle, Blank, CallRec, CallSteps, FileState, Title
  <1> QED BY <1>1 DEF TypeOK, Done, Ends, StepTo, Idle, Blank

LEMMA BeginStep ==
  ASSUME TypeOK, NEW c \in Calls, NEW pc \in CallSteps, NEW n \in Names \cup {Other},
         NEW text \in Title \cup {NoDraft}, Begin(c, pc, n, text)
  PROVE  Begins(c, pc, n)
  <1> DEFINE u == [pc |-> pc, n |-> n, text |-> text, copy |-> Blank, move |-> "none"]
  <1>1. u \in CallRec BY DEF Blank, CallRec, FileState, Title
  <1> QED BY <1>1 DEF TypeOK, Begin, Begins, StepTo, Blank, Idle

\* A step that brings no prompt on its way keeps them apart.
LEMMA OneSendStep ==
  ASSUME NEW c \in Calls, NEW n, StepTo(c), OneSend(n),
         \/ task'[c].n # n
         \/ task'[c].pc \notin SendSteps
         \/ task[c].n = n /\ task[c].pc \in SendSteps
         \/ ~Sending(n)
  PROVE  OneSend(n)'
  BY DEF OneSend, StepTo, Sending

Takes(c, pc, copy) ==
  /\ StepTo(c) /\ task'[c].pc = pc /\ task'[c].n = task[c].n
  /\ task'[c].text = task[c].text /\ task'[c].copy = copy

\* After leaving a plan, with the reserved names that are left: nothing of n
\* was added.
Lighter(n, left) ==
  /\ left[n] # Free => pending[n] # Free
  /\ n \in dirs' => n \in dirs
  /\ n \in dirs /\ n \notin dirs' => left[n] = Free
  /\ n \in prompted' => n \in prompted
  /\ file'[n].prompted => file[n].prompted
  /\ n \in md' => n \in md
  /\ n \in asked' => n \in asked
  /\ SaidIsKept(n)'

Leaves(left) ==
  /\ left \in [Names -> Title \cup {Free}] /\ file' \in [Names -> FileState]
  /\ dirs' \subseteq Names /\ live' \subseteq Names /\ prompted' \subseteq Names
  /\ asked \subseteq live' /\ md \subseteq dirs'
  /\ \A n \in Names : Lighter(n, left)

\* m is reserved anew.
Anew(m, reserved) ==
  /\ m \notin dirs' /\ reserved[m] = Free
  /\ pending' = [reserved EXCEPT ![m] = NoTitle] /\ current' = m
  /\ used' = used \cup {m}
  /\ reused' = IF m \in used THEN reused \cup {m} ELSE reused

\* A new name is free: if it was reserved before, it counts as reused.
LEMMA ReserveStep ==
  ASSUME NEW reserved, Reserve(reserved)
  PROVE  \E m \in Names : Anew(m, reserved)
  BY DEF Reserve, Fresh, Anew

\* What a step of command c leaves of a name: no name is reserved, and an
\* upcoming plan stays empty.
Kept(c, n) ==
  /\ n \notin used => pending'[n] = Free /\ IsEmpty(n)' /\ n \notin dirs'
  /\ SaidIsKept(n)'
  /\ pending'[n] # Free =>
       pending[n] # Free \/ (task[c].n = n /\ task[c].pc \in NameSteps)
  /\ n \notin reused => /\ Upcoming(n) => IsEmpty(n)'
                        /\ n \in dirs => n \in dirs' \/ pending'[n] = Free

\* Where a command may go with a name.
Proceeds(c, n) == task'[c].n = n =>
  /\ task[c].n = n \/ n \in used
  /\ task'[c].pc \in SendSteps =>
       ~Sending(n) \/ (task[c].n = n /\ task[c].pc \in SendSteps)
  /\ n \notin reused =>
       /\ task'[c].pc \in NameSteps => Upcoming(n)
       /\ Upcoming(n)' => ~task'[c].copy.prompted /\ task'[c].pc \notin TurnSteps \cup MoveSteps
       /\ task'[c].pc = "carry" => n \in dirs'

LEMMA ProceedInv ==
  ASSUME Inv, NEW c \in Calls, StepTo(c), TypeOK', Standing(c)', UNCHANGED names,
         \A n \in Names : Kept(c, n) /\ Proceeds(c, n)
  PROVE  Inv'
  <1>s. \A d \in Calls : Standing(d)' BY DEF Inv, Standing, StepTo
  <1>n. SUFFICES ASSUME NEW n \in Names PROVE NameInv(n)' BY <1>s DEF Inv
  <1>i. NameInv(n) /\ Kept(c, n) /\ Proceeds(c, n) BY DEF Inv
  <1>1. Unused(n)' BY <1>i DEF NameInv, Unused, Kept, Proceeds, StepTo, names
  <1>2. OneSend(n)' BY <1>i, OneSendStep DEF NameInv, Proceeds
  <1>3. SaidIsKept(n)' BY <1>i DEF Kept
  <1>4. ASSUME n \notin reused' PROVE UpcomingIsEmpty(n)' /\ CarriedHasDir(n)'
    <2>1. /\ UpcomingIsEmpty(n) /\ CarriedHasDir(n) /\ OneSend(n) /\ n \notin reused
      BY <1>4, <1>i DEF NameInv, names
    <2>2. Upcoming(n)' => Upcoming(n)
      BY <2>1, <1>i DEF Upcoming, Kept, Proceeds, StepTo
    <2>3. UpcomingIsEmpty(n)'
      BY <2>1, <2>2, <1>i DEF UpcomingIsEmpty, Kept, Proceeds, StepTo
    <2>4. CarriedHasDir(n)'
      BY <2>1, <1>i DEF CarriedHasDir, OneSend, SendSteps, NameSteps, Kept, Proceeds, StepTo
    <2> QED BY <2>3, <2>4
  <1> QED BY <1>1, <1>2, <1>3, <1>4 DEF NameInv

LEMMA RecordStep ==
  ASSUME TypeOK, NEW c \in Calls, NEW u \in CallRec, task' = [task EXCEPT ![c] = u]
  PROVE  StepTo(c) /\ task'[c] = u
  BY DEF TypeOK, StepTo

LEMMA ReadStep ==
  ASSUME TypeOK, NEW c \in Calls, NEW pc \in CallSteps, task[c].n \in Names, Read(c, pc)
  PROVE  Takes(c, pc, file[task[c].n])
  <1> DEFINE u == [task[c] EXCEPT !.pc = pc, !.copy = file[task[c].n]]
  <1>1. u \in CallRec BY DEF TypeOK, CallRec
  <1> QED BY <1>1 DEF TypeOK, Read, Takes, StepTo, CallRec

LEMMA AbandonLeaves ==
  ASSUME Inv, NEW m, NEW draft \in Title \cup {NoDraft}, Abandon(m, draft), UNCHANGED <<asked, md>>
  PROVE  Leaves(Abandoned(m, draft))
  <1> DEFINE left == Abandoned(m, draft)
  <1>i. TypeOK /\ \A n \in Names : NameInv(n) BY DEF Inv
  <1>1. CASE ~(m \in Names /\ IsEmpty(m))
    BY <1>1, <1>i DEF Abandon, Abandoned, Leaves, Lighter, TypeOK, NameInv, SaidIsKept, ghosts
  <1>2. CASE m \in Names /\ IsEmpty(m) /\ draft = NoDraft
    <2> USE <1>2 DEF Abandon, Abandoned, Vanish
    <2>1. left = [pending EXCEPT ![m] = Free] /\ file' = [file EXCEPT ![m] = Blank] /\ Blank \in FileState /\ ~Blank.prompted
      BY DEF Blank, FileState, Title
    <2>2. left \in [Names -> Title \cup {Free}] /\ file' \in [Names -> FileState]
      BY <1>i, <2>1 DEF TypeOK
    <2>3. dirs' \subseteq Names /\ live' \subseteq Names /\ prompted' \subseteq Names /\ asked \subseteq live' /\ md \subseteq dirs'
      BY <1>i DEF TypeOK, IsEmpty
    <2>4. \A n \in Names : Lighter(n, left)
      BY <1>i, <2>1 DEF TypeOK, Lighter, NameInv, SaidIsKept
    <2> QED BY <2>2, <2>3, <2>4 DEF Leaves
  <1>3. CASE m \in Names /\ IsEmpty(m) /\ draft # NoDraft
    <2> USE <1>3 DEF Abandon, Abandoned, KeepDraft
    <2>1. left \in [Names -> Title \cup {Free}]
      BY <1>i DEF TypeOK
    <2>2. file' \in [Names -> FileState] /\ \A n \in Names : file'[n].prompted = file[n].prompted
      BY <1>i DEF TypeOK, FileState, Title
    <2>3. dirs' \subseteq Names /\ live' \subseteq Names /\ prompted' \subseteq Names /\ asked \subseteq live' /\ md \subseteq dirs'
      BY <1>i DEF TypeOK
    <2>4. \A n \in Names : left[n] # Free => pending[n] # Free
      BY <1>i DEF TypeOK, Reserved
    <2>5. \A n \in Names : Lighter(n, left)
      BY <1>i, <2>2, <2>4 DEF TypeOK, Lighter, NameInv, SaidIsKept
    <2> QED BY <2>1, <2>2, <2>3, <2>5 DEF Leaves
  <1> QED BY <1>1, <1>2, <1>3

LEMMA LeaveInv ==
  ASSUME Inv, NEW c \in Calls, Ends(c), NEW left, Leaves(left), UNCHANGED <<asked, working, md>>,
         \/ pending' = left /\ UNCHANGED names /\ current' \in Names \cup {NoPlan, Other}
         \/ Reserve(left)
  PROVE  Inv'
  <1>r. \/ pending' = left /\ UNCHANGED names /\ current' \in Names \cup {NoPlan, Other}
        \/ \E m \in Names : Anew(m, left)
    BY ReserveStep
  <1>s. StepTo(c) /\ \A d \in Calls : Standing(d)'
    BY NamesAssumption DEF Inv, Standing, Ends, StepTo
  <1>t. TypeOK'
    BY <1>r, <1>s DEF Inv, TypeOK, Leaves, Anew, StepTo, Title
  <1>n. SUFFICES ASSUME NEW n \in Names PROVE NameInv(n)' BY <1>s, <1>t DEF Inv
  <1>i. TypeOK /\ NameInv(n) /\ Lighter(n, left) /\ left \in [Names -> Title \cup {Free}]
    BY DEF Inv, Leaves
  <1>e. IsEmpty(n) => IsEmpty(n)' BY <1>i DEF Lighter, IsEmpty
  <1>p. /\ n \notin used' => n \notin used
        /\ n \notin reused' => n \notin reused
        /\ n \in dirs' => n \in dirs
        /\ n \notin used' => pending'[n] = left[n]
        /\ n \in used /\ n \notin reused' => pending'[n] = left[n]
        /\ n \notin used /\ n \in used' => n \notin dirs'
    BY <1>r, <1>i DEF Anew, names, Lighter
  <1>1. Unused(n)'
    BY <1>i, <1>e, <1>p, <1>s, NamesAssumption DEF NameInv, Unused, Lighter, Ends, StepTo
  <1>2. OneSend(n)'
    BY <1>i, OneSendStep, NamesAssumption DEF NameInv, Ends
  <1>3. SaidIsKept(n)' BY <1>i DEF Lighter
  <1>4. ASSUME n \notin reused' PROVE UpcomingIsEmpty(n)' /\ CarriedHasDir(n)'
    <2>1. CASE n \notin used
      BY <2>1, <1>i, <1>e, NamesAssumption
        DEF NameInv, Unused, UpcomingIsEmpty, CarriedHasDir, Ends, StepTo
    <2>2. CASE n \in used
      <3>1. n \notin reused /\ pending'[n] = left[n] BY <2>2, <1>4, <1>p
      <3>2. Upcoming(n)' => Upcoming(n)
        BY <3>1, <1>i, NamesAssumption DEF Upcoming, Lighter, Ends, StepTo
      <3>3. UpcomingIsEmpty(n)'
        BY <3>1, <3>2, <1>i, <1>e, NamesAssumption DEF NameInv, UpcomingIsEmpty, Ends, StepTo
      <3>4. CarriedHasDir(n)'
        BY <3>1, <1>i DEF NameInv, CarriedHasDir, Lighter, Ends, StepTo
      <3> QED BY <3>3, <3>4
    <2> QED BY <2>1, <2>2
  <1> QED BY <1>1, <1>2, <1>3, <1>4 DEF NameInv

LEMMA CreateNewInv ==
  ASSUME Inv, NEW c \in Calls, CreateNew(c)
  PROVE  Inv'
  <1>1. Ends(c) BY DoneStep DEF CreateNew, Inv
  <1>2. task[c].text \in Title \cup {NoDraft} BY DEF Inv, TypeOK, CallRec
  <1>3. Leaves(Abandoned(current, task[c].text)) BY <1>2, AbandonLeaves DEF CreateNew
  <1> QED BY <1>1, <1>3, LeaveInv DEF CreateNew

LEMMA SelectKeyInv ==
  ASSUME Inv, NEW c \in Calls, SelectKey(c)
  PROVE  Inv'
  <1>1. Ends(c) BY DoneStep DEF SelectKey, Inv
  <1>2. task[c].text \in Title \cup {NoDraft} /\ current' \in Names \cup {Other}
    BY DEF Inv, TypeOK, CallRec, SelectKey
  <1>3. Leaves(pending')
    <2>1. CASE current # task[c].n BY <2>1, <1>2, AbandonLeaves DEF SelectKey
    <2>2. CASE current = task[c].n
      BY <2>2 DEF SelectKey, Leaves, Lighter, Inv, TypeOK, NameInv, SaidIsKept, ghosts
    <2> QED BY <2>1, <2>2
  <1> QED BY <1>1, <1>2, <1>3, LeaveInv DEF SelectKey

LEMMA CancelEmptyInv ==
  ASSUME Inv, NEW c \in Calls, CancelEmpty(c)
  PROVE  Inv'
  <1> DEFINE n == task[c].n
             left == Abandoned(n, NoDraft)
  <1>1. Ends(c) BY DoneStep DEF CancelEmpty, Inv
  <1>2. Leaves(left) BY AbandonLeaves DEF CancelEmpty
  <1>3. dirs' \subseteq Names BY <1>2 DEF Leaves
  <1>4. MostRecent(dirs', {m \in Names : left[m] # Free}) \subseteq Names \cup {Other}
    BY <1>3 DEF MostRecent
  <1>5. \/ pending' = left /\ UNCHANGED names /\ current' \in Names \cup {NoPlan, Other}
        \/ Reserve(left)
    BY <1>4 DEF CancelEmpty, Inv, TypeOK
  <1> QED BY <1>1, <1>2, <1>5, LeaveInv DEF CancelEmpty

-----------------------------------------------------------------------------
(* Every action keeps the invariant *)

\* The commands that only begin.
LEMMA BeginInv ==
  ASSUME Inv, NEW c \in Calls, NEW pc \in {"create", "select", "cancel", "execute", "mode"},
         NEW m \in Listed \cup {Other}, m = Other => pc \in {"create", "select"},
         Begins(c, pc, m), UNCHANGED <<memory, disk, ghosts, names>>
  PROVE  Inv'
  <1> USE DEF memory, disk, ghosts, names
  <1>1. StepTo(c) /\ Standing(c)' BY DEF Inv, TypeOK, Standing, Begins, Listed, Reserved
  <1>2. TypeOK' BY <1>1 DEF Inv, TypeOK, StepTo
  <1>n. SUFFICES ASSUME NEW n \in Names PROVE Kept(c, n) /\ Proceeds(c, n)
    BY <1>1, <1>2, ProceedInv
  <1>i. NameInv(n) BY DEF Inv
  <1>3. Kept(c, n)
    BY <1>i DEF Kept, NameInv, Unused, UpcomingIsEmpty, SaidIsKept, IsEmpty
  <1>4. Proceeds(c, n)
    BY <1>i
      DEF Proceeds, NameInv, Unused, Begins, Listed, Reserved, SendSteps, NameSteps, TurnSteps,
          MoveSteps
  <1> QED BY <1>3, <1>4

LEMMA SendInv ==
  ASSUME Inv, NEW c \in Calls, NEW m \in Names, NEW title \in Title, Send(c, m, title)
  PROVE  Inv'
  <1>1. Begins(c, "check", m)
    BY BeginStep, StepNames DEF Send, Inv, Title
  <1>2. StepTo(c) /\ Standing(c)'
    BY <1>1, NamesAssumption DEF Inv, Standing, Begins, Send
  <1>3. TypeOK'
    BY <1>2 DEF Inv, TypeOK, StepTo, FileState, Send
  <1>n. SUFFICES ASSUME NEW n \in Names PROVE Kept(c, n) /\ Proceeds(c, n)
    BY <1>2, <1>3, ProceedInv DEF Send, names
  <1>i. TypeOK /\ NameInv(n) /\ Standing(c) BY DEF Inv
  <1>4. Kept(c, n)
    BY <1>i
      DEF Kept, NameInv, Unused, UpcomingIsEmpty, SaidIsKept, IsEmpty, FileState, Send, Listed,
          Reserved
  <1>5. Proceeds(c, n)
    BY <1>1, <1>i
      DEF Proceeds, NameInv, Unused, Begins, NameSteps, TurnSteps, MoveSteps, Send, Listed, Reserved
  <1> QED BY <1>4, <1>5

LEMMA CancelFullInv ==
  ASSUME Inv, NEW c \in Calls, CancelFull(c)
  PROVE  Inv'
  <1>1. GoesTo(c, "move")
    BY GotoStep, StepNames DEF CancelFull, Inv, Title
  <1>2. StepTo(c) /\ Standing(c)'
    BY <1>1, NamesAssumption DEF Inv, Standing, GoesTo, CancelFull
  <1>3. TypeOK'
    BY <1>2 DEF Inv, TypeOK, StepTo, memory, disk, CancelFull
  <1>n. SUFFICES ASSUME NEW n \in Names PROVE Kept(c, n) /\ Proceeds(c, n)
    BY <1>2, <1>3, ProceedInv DEF CancelFull, names
  <1>i. TypeOK /\ NameInv(n) /\ Standing(c) BY DEF Inv
  <1>4. Kept(c, n)
    BY <1>i
      DEF Kept, NameInv, Unused, UpcomingIsEmpty, SaidIsKept, IsEmpty, memory, disk, ghosts,
          CancelFull
  <1>5. Proceeds(c, n)
    BY <1>1, <1>i
      DEF Proceeds, NameInv, UpcomingIsEmpty, Upcoming, GoesTo, StepTo, SendSteps, NameSteps,
          TurnSteps, memory, CancelFull
  <1> QED BY <1>4, <1>5

LEMMA DropInv ==
  ASSUME Inv, NEW c \in Calls, Drop(c)
  PROVE  Inv'
  <1>1. GoesTo(c, "carry flag")
    BY GotoStep, StepNames DEF Drop, Inv, Title
  <1>2. StepTo(c) /\ Standing(c)'
    BY <1>1, NamesAssumption DEF Inv, Standing, GoesTo, Drop
  <1>3. TypeOK'
    BY <1>2 DEF Inv, TypeOK, StepTo, disk, Drop
  <1>n. SUFFICES ASSUME NEW n \in Names PROVE Kept(c, n) /\ Proceeds(c, n)
    BY <1>2, <1>3, ProceedInv DEF Drop, names
  <1>i. TypeOK /\ NameInv(n) /\ Standing(c) BY DEF Inv
  <1>4. Kept(c, n)
    BY <1>i DEF Kept, NameInv, Unused, UpcomingIsEmpty, SaidIsKept, IsEmpty, disk, ghosts, Drop
  <1>5. Proceeds(c, n)
    BY <1>1, <1>i
      DEF Proceeds, NameInv, UpcomingIsEmpty, Upcoming, GoesTo, StepTo, SendSteps, NameSteps,
          TurnSteps, MoveSteps, Drop
  <1> QED BY <1>4, <1>5

LEMMA CarryFlagInv ==
  ASSUME Inv, NEW c \in Calls, CarryFlag(c)
  PROVE  Inv'
  <1>1. GoesTo(c, "spawn") \/ GoesTo(c, "view")
    BY GotoStep, StepNames DEF CarryFlag, Inv, Title
  <1>2. StepTo(c) /\ Standing(c)'
    BY <1>1, NamesAssumption DEF Inv, Standing, GoesTo, CarryFlag
  <1>3. TypeOK'
    BY <1>2 DEF Inv, TypeOK, StepTo, disk, CarryFlag
  <1>n. SUFFICES ASSUME NEW n \in Names PROVE Kept(c, n) /\ Proceeds(c, n)
    BY <1>2, <1>3, ProceedInv DEF CarryFlag, names
  <1>i. TypeOK /\ NameInv(n) /\ Standing(c) BY DEF Inv
  <1>4. Kept(c, n)
    BY <1>i DEF Kept, NameInv, Unused, UpcomingIsEmpty, SaidIsKept, IsEmpty, disk, ghosts, CarryFlag
  <1>5. Proceeds(c, n)
    BY <1>1, <1>i
      DEF Proceeds, NameInv, UpcomingIsEmpty, Upcoming, GoesTo, StepTo, SendSteps, NameSteps,
          TurnSteps, MoveSteps, CarryFlag
  <1> QED BY <1>4, <1>5

LEMMA SpawnInv ==
  ASSUME Inv, NEW c \in Calls, Spawn(c)
  PROVE  Inv'
  <1>1. GoesTo(c, "view") \/ Ends(c)
    BY GotoStep, DoneStep, StepNames DEF Spawn, Inv, Title
  <1>2. StepTo(c) /\ Standing(c)'
    BY <1>1, NamesAssumption DEF Inv, Standing, GoesTo, Ends, Spawn
  <1>3. TypeOK'
    BY <1>2 DEF Inv, TypeOK, StepTo, memory, disk, Spawn
  <1>n. SUFFICES ASSUME NEW n \in Names PROVE Kept(c, n) /\ Proceeds(c, n)
    BY <1>2, <1>3, ProceedInv DEF Spawn, names
  <1>i. TypeOK /\ NameInv(n) /\ Standing(c) BY DEF Inv
  <1>4. Kept(c, n)
    BY <1>i
      DEF Kept, NameInv, Unused, UpcomingIsEmpty, SaidIsKept, IsEmpty, memory, disk, ghosts, Spawn
  <1>5. Proceeds(c, n)
    BY <1>1, <1>i, NamesAssumption
      DEF Proceeds, NameInv, UpcomingIsEmpty, Upcoming, GoesTo, Ends, StepTo, SendSteps, NameSteps,
          TurnSteps, MoveSteps, memory, Spawn
  <1> QED BY <1>4, <1>5

LEMMA ViewInv ==
  ASSUME Inv, NEW c \in Calls, View(c)
  PROVE  Inv'
  <1>1. GoesTo(c, "pin") \/ Ends(c)
    BY GotoStep, DoneStep, StepNames DEF View, Inv, Title
  <1>2. StepTo(c) /\ Standing(c)'
    BY <1>1, NamesAssumption DEF Inv, Standing, GoesTo, Ends, View
  <1>3. TypeOK'
    BY <1>2 DEF Inv, TypeOK, StepTo, memory, disk, View
  <1>n. SUFFICES ASSUME NEW n \in Names PROVE Kept(c, n) /\ Proceeds(c, n)
    BY <1>2, <1>3, ProceedInv DEF View, names
  <1>i. TypeOK /\ NameInv(n) /\ Standing(c) BY DEF Inv
  <1>4. Kept(c, n)
    BY <1>i
      DEF Kept, NameInv, Unused, UpcomingIsEmpty, SaidIsKept, IsEmpty, memory, disk, ghosts, View
  <1>5. Proceeds(c, n)
    BY <1>1, <1>i, NamesAssumption
      DEF Proceeds, NameInv, UpcomingIsEmpty, Upcoming, GoesTo, Ends, StepTo, SendSteps, NameSteps,
          TurnSteps, MoveSteps, memory, View
  <1> QED BY <1>4, <1>5

LEMMA PinInv ==
  ASSUME Inv, NEW c \in Calls, Pin(c)
  PROVE  Inv'
  <1>1. Ends(c)
    BY DoneStep, StepNames DEF Pin, Inv, Title
  <1>2. StepTo(c) /\ Standing(c)'
    BY <1>1, NamesAssumption DEF Inv, Standing, Ends, Pin
  <1>3. TypeOK'
    BY <1>2 DEF Inv, TypeOK, StepTo, disk, Pin
  <1>n. SUFFICES ASSUME NEW n \in Names PROVE Kept(c, n) /\ Proceeds(c, n)
    BY <1>2, <1>3, ProceedInv DEF Pin, names
  <1>i. TypeOK /\ NameInv(n) /\ Standing(c) BY DEF Inv
  <1>4. Kept(c, n)
    BY <1>i DEF Kept, NameInv, Unused, UpcomingIsEmpty, SaidIsKept, IsEmpty, disk, ghosts, Pin
  <1>5. Proceeds(c, n)
    BY <1>1, <1>i, NamesAssumption DEF Proceeds, Ends, Pin
  <1> QED BY <1>4, <1>5

LEMMA ForgetInv ==
  ASSUME Inv, NEW c \in Calls, Forget(c)
  PROVE  Inv'
  <1>1. GoesTo(c, "start")
    BY GotoStep, StepNames DEF Forget, Inv, Title
  <1>2. StepTo(c) /\ Standing(c)'
    BY <1>1, NamesAssumption DEF Inv, Standing, GoesTo, Forget
  <1>3. TypeOK'
    BY <1>2 DEF Inv, TypeOK, StepTo, disk, Forget
  <1>n. SUFFICES ASSUME NEW n \in Names PROVE Kept(c, n) /\ Proceeds(c, n)
    BY <1>2, <1>3, ProceedInv DEF Forget, names
  <1>i. TypeOK /\ NameInv(n) /\ Standing(c) BY DEF Inv
  <1>4. Kept(c, n)
    BY <1>i DEF Kept, NameInv, Unused, UpcomingIsEmpty, SaidIsKept, IsEmpty, disk, ghosts, Forget
  <1>5. Proceeds(c, n)
    BY <1>1, <1>i
      DEF Proceeds, TypeOK, NameInv, OneSend, Upcoming, GoesTo, StepTo, SendSteps, NameSteps, Forget
  <1> QED BY <1>4, <1>5

LEMMA StartInv ==
  ASSUME Inv, NEW c \in Calls, Start(c)
  PROVE  Inv'
  <1>1. GoesTo(c, "id") \/ Ends(c)
    BY GotoStep, DoneStep, StepNames DEF Start, Inv, Title
  <1>2. StepTo(c) /\ Standing(c)'
    BY <1>1, NamesAssumption DEF Inv, Standing, GoesTo, Ends, Start
  <1>3. TypeOK'
    BY <1>2 DEF Inv, TypeOK, Standing, StepTo, disk, Start
  <1>n. SUFFICES ASSUME NEW n \in Names PROVE Kept(c, n) /\ Proceeds(c, n)
    BY <1>2, <1>3, ProceedInv DEF Start, names
  <1>i. TypeOK /\ NameInv(n) /\ Standing(c) BY DEF Inv
  <1>4. Kept(c, n)
    BY <1>i DEF Kept, NameInv, Unused, UpcomingIsEmpty, SaidIsKept, IsEmpty, disk, ghosts, Start
  <1>5. Proceeds(c, n)
    BY <1>1, <1>i, NamesAssumption
      DEF Proceeds, NameInv, UpcomingIsEmpty, Upcoming, GoesTo, Ends, StepTo, SendSteps, NameSteps,
          TurnSteps, Start
  <1> QED BY <1>4, <1>5

LEMMA MarkInv ==
  ASSUME Inv, NEW c \in Calls, Mark(c)
  PROVE  Inv'
  <1>1. GoesTo(c, "flag")
    BY GotoStep, StepNames DEF Mark, Inv, Title
  <1>2. StepTo(c) /\ Standing(c)'
    BY <1>1, NamesAssumption DEF Inv, Standing, GoesTo, Mark
  <1>3. TypeOK'
    BY <1>2 DEF Inv, TypeOK, Standing, StepTo, disk, Mark
  <1>n. SUFFICES ASSUME NEW n \in Names PROVE Kept(c, n) /\ Proceeds(c, n)
    BY <1>2, <1>3, ProceedInv DEF Mark, names
  <1>i. TypeOK /\ NameInv(n) /\ Standing(c) BY DEF Inv
  <1>4. Kept(c, n)
    BY <1>i
      DEF Kept, NameInv, Unused, UpcomingIsEmpty, SaidIsKept, IsEmpty, TurnSteps, disk, ghosts, Mark
  <1>5. Proceeds(c, n)
    BY <1>1, <1>i
      DEF Proceeds, NameInv, UpcomingIsEmpty, Upcoming, GoesTo, StepTo, SendSteps, NameSteps,
          TurnSteps, Mark
  <1> QED BY <1>4, <1>5

LEMMA StartTurnInv ==
  ASSUME Inv, NEW c \in Calls, StartTurn(c)
  PROVE  Inv'
  <1>1. Ends(c)
    BY DoneStep, StepNames DEF StartTurn, Inv, Title
  <1>2. StepTo(c) /\ Standing(c)'
    BY <1>1, NamesAssumption DEF Inv, Standing, Ends, StartTurn
  <1>3. TypeOK'
    BY <1>2 DEF Inv, TypeOK, StepTo, disk, StartTurn
  <1>n. SUFFICES ASSUME NEW n \in Names PROVE Kept(c, n) /\ Proceeds(c, n)
    BY <1>2, <1>3, ProceedInv DEF StartTurn, names
  <1>i. TypeOK /\ NameInv(n) /\ Standing(c) BY DEF Inv
  <1>4. Kept(c, n)
    BY <1>i
      DEF Kept, NameInv, Unused, UpcomingIsEmpty, SaidIsKept, IsEmpty, TurnSteps, disk, StartTurn
  <1>5. Proceeds(c, n)
    BY <1>1, <1>i, NamesAssumption DEF Proceeds, Ends, StartTurn
  <1> QED BY <1>4, <1>5

LEMMA CheckInv ==
  ASSUME Inv, NEW c \in Calls, Check(c)
  PROVE  Inv'
  <1>1. IF task[c].n \in Reserved THEN GoesTo(c, "mkdir") ELSE GoesTo(c, "start")
    BY GotoStep, StepNames DEF Check, Inv
  <1>2. StepTo(c) /\ Standing(c)'
    BY <1>1, NamesAssumption DEF Inv, Standing, GoesTo, Check
  <1>3. TypeOK'
    BY <1>2 DEF Inv, TypeOK, StepTo, Check, memory, disk
  <1>n. SUFFICES ASSUME NEW n \in Names PROVE Kept(c, n) /\ Proceeds(c, n)
    BY <1>2, <1>3, ProceedInv DEF Check, names
  <1>i. TypeOK /\ NameInv(n) /\ Standing(c) BY DEF Inv
  <1>4. Kept(c, n)
    BY <1>1, <1>i
      DEF Kept, NameInv, Unused, UpcomingIsEmpty, SaidIsKept, IsEmpty, memory, disk, ghosts, Check
  <1>5. Proceeds(c, n)
    BY <1>1, <1>i
      DEF Proceeds, NameInv, OneSend, UpcomingIsEmpty, Upcoming, StepTo, SendSteps, NameSteps,
          TurnSteps, MoveSteps, memory, GoesTo, Check, Reserved
  <1> QED BY <1>4, <1>5

LEMMA MaterializeGoes ==
  ASSUME Inv, NEW c \in Calls, Materialize(c)
  PROVE  \/ GoesTo(c, "carry") /\ dirs' = dirs \cup {task[c].n}
         \/ Ends(c) /\ dirs' = dirs
  <1>1. CASE Goto(c, "carry") /\ dirs' = dirs \cup {task[c].n}
    BY <1>1, GotoStep, StepNames DEF Inv
  <1>2. CASE Done(c) /\ UNCHANGED dirs
    BY <1>2, DoneStep DEF Inv
  <1> QED BY <1>1, <1>2 DEF Materialize

LEMMA MaterializeInv ==
  ASSUME Inv, NEW c \in Calls, Materialize(c)
  PROVE  Inv'
  <1>1. \/ GoesTo(c, "carry") /\ dirs' = dirs \cup {task[c].n}
        \/ Ends(c) /\ dirs' = dirs
    BY MaterializeGoes
  <1>2. StepTo(c) /\ Standing(c)'
    BY <1>1, NamesAssumption DEF Inv, Standing, GoesTo, Ends, Materialize
  <1>3. TypeOK'
    BY <1>2 DEF Inv, TypeOK, Standing, StepTo, Materialize, memory
  <1>n. SUFFICES ASSUME NEW n \in Names PROVE Kept(c, n) /\ Proceeds(c, n)
    BY <1>2, <1>3, ProceedInv DEF Materialize, names
  <1>i. TypeOK /\ NameInv(n) /\ Standing(c) BY DEF Inv
  <1>4. Kept(c, n)
    BY <1>1, <1>i
      DEF Kept, NameInv, Unused, UpcomingIsEmpty, SaidIsKept, IsEmpty, memory, ghosts, Materialize
  <1>5. Proceeds(c, n)
    BY <1>1, <1>i, NamesAssumption
      DEF Proceeds, NameInv, UpcomingIsEmpty, Upcoming, SendSteps, NameSteps, TurnSteps, MoveSteps,
          GoesTo, Ends, Materialize
  <1> QED BY <1>4, <1>5

LEMMA CarryGoes ==
  ASSUME Inv, NEW c \in Calls, Carry(c)
  PROVE  /\ StepTo(c) /\ task'[c].n = task[c].n /\ task'[c].copy = task[c].copy
         /\ \/ task'[c].pc = "forget" /\ pending[task[c].n] \notin Titles
            \/ task'[c].pc = "carried" /\ task'[c].text \in Titles
  <1>1. CASE pending[task[c].n] \in Titles
    <2> DEFINE u == [task[c] EXCEPT !.pc = "carried", !.text = pending[task[c].n]]
    <2>1. task' = [task EXCEPT ![c] = u] BY <1>1 DEF Carry
    <2>2. u \in CallRec BY <1>1, StepNames DEF Inv, TypeOK, CallRec, Title
    <2>3. u.pc = "carried" /\ u.text \in Titles /\ u.n = task[c].n /\ u.copy = task[c].copy
      BY <1>1 DEF Inv, TypeOK, CallRec
    <2> QED BY <2>1, <2>2, <2>3, RecordStep DEF Inv
  <1>2. CASE pending[task[c].n] \notin Titles
    BY <1>2, GotoStep, StepNames DEF Carry, GoesTo, Inv
  <1> QED BY <1>1, <1>2

LEMMA CarryInv ==
  ASSUME Inv, NEW c \in Calls, Carry(c)
  PROVE  Inv'
  <1>1. /\ StepTo(c) /\ task'[c].n = task[c].n /\ task'[c].copy = task[c].copy
        /\ \/ task'[c].pc = "forget"
           \/ task'[c].pc = "carried" /\ task'[c].text \in Titles
    BY CarryGoes
  <1>2. StepTo(c) /\ Standing(c)'
    BY <1>1, NamesAssumption DEF Inv, Standing, StepTo, Carry
  <1>3. TypeOK'
    BY <1>2 DEF Inv, TypeOK, StepTo, Carry, disk
  <1>n. SUFFICES ASSUME NEW n \in Names PROVE Kept(c, n) /\ Proceeds(c, n)
    BY <1>2, <1>3, ProceedInv DEF Carry, names
  <1>i. TypeOK /\ NameInv(n) /\ Standing(c) BY DEF Inv
  <1>4. Kept(c, n)
    BY <1>1, <1>i
      DEF Kept, NameInv, Unused, UpcomingIsEmpty, SaidIsKept, IsEmpty, disk, ghosts, Carry
  <1>5. Proceeds(c, n)
    BY <1>1, <1>i
      DEF Proceeds, NameInv, UpcomingIsEmpty, Upcoming, SendSteps, NameSteps, TurnSteps, MoveSteps,
          Carry
  <1> QED BY <1>4, <1>5

LEMMA CarriedGoes ==
  ASSUME Inv, NEW c \in Calls, Carried(c)
  PROVE  \/ GoesTo(c, "forget") /\ pending' = [pending EXCEPT ![task[c].n] = task[c].text]
         \/ Takes(c, "save title", file[task[c].n]) /\ UNCHANGED pending
  <1>1. CASE Goto(c, "forget") /\ pending' = [pending EXCEPT ![task[c].n] = task[c].text]
    BY <1>1, GotoStep, StepNames DEF Inv
  <1>2. CASE Read(c, "save title") /\ UNCHANGED pending
    BY <1>2, ReadStep, StepNames, NamesAssumption DEF Inv, Standing, Carried
  <1> QED BY <1>1, <1>2 DEF Carried

LEMMA CarriedInv ==
  ASSUME Inv, NEW c \in Calls, Carried(c)
  PROVE  Inv'
  <1>1. \/ GoesTo(c, "forget") /\ pending' = [pending EXCEPT ![task[c].n] = task[c].text]
        \/ Takes(c, "save title", file[task[c].n]) /\ UNCHANGED pending
    BY CarriedGoes
  <1>2. StepTo(c) /\ Standing(c)'
    BY <1>1, NamesAssumption DEF Inv, Standing, GoesTo, Takes, Carried
  <1>3. TypeOK'
    BY <1>2 DEF Inv, TypeOK, Standing, StepTo, Carried, disk, Title
  <1>n. SUFFICES ASSUME NEW n \in Names PROVE Kept(c, n) /\ Proceeds(c, n)
    BY <1>2, <1>3, ProceedInv DEF Carried, names
  <1>i. TypeOK /\ NameInv(n) /\ Standing(c) BY DEF Inv
  <1>4. Kept(c, n)
    BY <1>1, <1>i
      DEF Kept, TypeOK, NameInv, Unused, UpcomingIsEmpty, SaidIsKept, IsEmpty, NameSteps, disk,
          ghosts, Carried
  <1>5. Proceeds(c, n)
    BY <1>1, <1>i
      DEF Proceeds, NameInv, UpcomingIsEmpty, Upcoming, SendSteps, NameSteps, TurnSteps, MoveSteps,
          GoesTo, Takes, Carried, IsEmpty
  <1> QED BY <1>4, <1>5

LEMMA LoadInv ==
  ASSUME Inv, NEW c \in Calls, Load(c)
  PROVE  Inv'
  <1>1. \/ /\ task[c].n \in dirs
           /\ \/ task[c].pc = "id" /\ Takes(c, "save id", file[task[c].n])
              \/ task[c].pc = "flag" /\ Takes(c, "save flag", file[task[c].n])
              \/ task[c].pc = "mode" /\ Takes(c, "save mode", file[task[c].n])
        \/ task[c].pc = "id" /\ GoesTo(c, "mark")
        \/ task[c].pc = "flag" /\ GoesTo(c, "turn")
        \/ task[c].pc = "mode" /\ Ends(c)
    <2>2. CASE task[c].pc = "id"
      BY <2>2, ReadStep, GotoStep, StepNames DEF Load, Inv, Standing
    <2>3. CASE task[c].pc = "flag"
      BY <2>3, ReadStep, GotoStep, StepNames DEF Load, Inv, Standing
    <2>4. CASE task[c].pc = "mode"
      BY <2>4, ReadStep, DoneStep, StepNames DEF Load, Inv, Standing
    <2> QED BY <2>2, <2>3, <2>4 DEF Load
  <1>2. StepTo(c) /\ Standing(c)'
    BY <1>1 DEF Inv, Standing, GoesTo, Takes, Ends, Load
  <1>3. TypeOK'
    BY <1>2 DEF Inv, TypeOK, StepTo, Load, memory, disk
  <1>n. SUFFICES ASSUME NEW n \in Names PROVE Kept(c, n) /\ Proceeds(c, n)
    BY <1>2, <1>3, ProceedInv DEF Load, names
  <1>i. TypeOK /\ NameInv(n) /\ Standing(c) BY DEF Inv
  <1>4. Kept(c, n)
    BY <1>1, <1>i
      DEF Kept, NameInv, Unused, UpcomingIsEmpty, SaidIsKept, IsEmpty, memory, disk, ghosts, Load
  <1>5. Proceeds(c, n)
    BY <1>1, <1>i, NamesAssumption
      DEF Proceeds, NameInv, UpcomingIsEmpty, Upcoming, StepTo, SendSteps, NameSteps, TurnSteps,
          MoveSteps, memory, GoesTo, Takes, Ends, Load, IsEmpty
  <1> QED BY <1>4, <1>5

LEMMA StoreGoes ==
  ASSUME Inv, NEW c \in Calls, Store(c)
  PROVE  \/ task[c].pc = "save title" /\ GoesTo(c, "forget")
         \/ task[c].pc = "save id" /\ GoesTo(c, "mark")
         \/ task[c].pc = "save flag" /\ GoesTo(c, "turn")
         \/ task[c].pc = "save mode" /\ Ends(c)
  <1>1. \/ task[c].pc = "save title" /\ Goto(c, "forget")
        \/ task[c].pc = "save id" /\ Goto(c, "mark")
        \/ task[c].pc = "save flag" /\ Goto(c, "turn")
        \/ task[c].pc = "save mode" /\ Done(c)
    BY DEF Store
  <1> QED BY <1>1, GotoStep, DoneStep, StepNames DEF Inv

LEMMA StoreInv ==
  ASSUME Inv, NEW c \in Calls, Store(c)
  PROVE  Inv'
  <1>1. \/ task[c].pc = "save title" /\ GoesTo(c, "forget")
        \/ task[c].pc = "save id" /\ GoesTo(c, "mark")
        \/ task[c].pc = "save flag" /\ GoesTo(c, "turn")
        \/ task[c].pc = "save mode" /\ Ends(c)
    BY StoreGoes
  <1>2. StepTo(c) /\ Standing(c)'
    BY <1>1, NamesAssumption DEF Inv, Standing, GoesTo, Ends, Store
  <1>3. TypeOK'
    <2>1. file' \in [Names -> FileState]
      <3> DEFINE copy == task[c].copy
      <3>1. copy \in FileState /\ (task[c].pc = "save title" => task[c].text \in Title)
        BY DEF Inv, TypeOK, CallRec, Standing, Title
      <3>2. /\ [copy EXCEPT !.prompted = TRUE] \in FileState
            /\ task[c].pc = "save title" => [copy EXCEPT !.title = task[c].text] \in FileState
        BY <3>1 DEF FileState
      <3> QED BY <3>1, <3>2 DEF Store, Inv, TypeOK
    <2> QED BY <2>1, <1>2 DEF Inv, TypeOK, StepTo, Store, memory
  <1>n. SUFFICES ASSUME NEW n \in Names PROVE Kept(c, n) /\ Proceeds(c, n)
    BY <1>2, <1>3, ProceedInv DEF Store, names
  <1>i. TypeOK /\ NameInv(n) /\ Standing(c) BY DEF Inv
  <1>4. Kept(c, n)
    <2>1. \A m \in Names : m # task[c].n => file'[m] = file[m]
      BY <1>i DEF Store, TypeOK
    <2>2. CASE file'[n] = file[n]
      BY <2>2, <1>i DEF Store, Kept, NameInv, Unused, UpcomingIsEmpty, SaidIsKept, IsEmpty, memory
    <2>3. CASE n = task[c].n /\ n \in dirs
      <3>1. /\ file'[n].prompted => \/ task[c].copy.prompted \/ file[n].prompted \/ task[c].pc = "save flag"
            /\ file[n].prompted /\ n \notin torn' => file'[n].prompted
        <4>1. task[c].copy \in FileState /\ file[n] \in FileState BY <1>i DEF TypeOK, CallRec
        <4>2. CASE file' = file BY <4>2
        <4>3. CASE file' # file
          <5>1. file'[n] = CASE task[c].pc = "save title" -> [task[c].copy EXCEPT !.title = task[c].text]
                             [] task[c].pc = "save flag" -> [task[c].copy EXCEPT !.prompted = TRUE]
                             [] OTHER -> task[c].copy
            BY <4>3, <1>i, <2>3 DEF Store, TypeOK
          <5>2. n \notin torn' => task[c].copy = file[n] BY <4>3, <2>3 DEF Store
          <5>3. \/ task[c].pc = "save flag" /\ file'[n].prompted
                \/ task[c].pc # "save flag" /\ file'[n].prompted = task[c].copy.prompted
            BY <4>1, <5>1 DEF FileState
          <5> QED BY <5>2, <5>3
        <4> QED BY <4>2, <4>3
      <3> QED BY <3>1, <2>3, <1>i
        DEF Store, Kept, NameInv, Unused, UpcomingIsEmpty, SaidIsKept, IsEmpty, TurnSteps, memory
    <2> QED BY <2>1, <2>2, <2>3 DEF Store
  <1>5. Proceeds(c, n)
    BY <1>1, <1>i, NamesAssumption
      DEF Proceeds, NameInv, UpcomingIsEmpty, Upcoming, StepTo, SendSteps, NameSteps, TurnSteps,
          MoveSteps, memory, GoesTo, Ends, Store
  <1> QED BY <1>4, <1>5

LEMMA MoveGoes ==
  ASSUME Inv, NEW c \in Calls, Move(c)
  PROVE  \/ Ends(c)
         \/ GoesTo(c, "drop") /\ (task[c].pc = "execute" => task[c].n \in md)
  <1>1. ASSUME NEW kind \in {"same", "slug", "approved"},
                task' = [task EXCEPT ![c].pc = "drop", ![c].move = kind]
         PROVE  GoesTo(c, "drop")
    <2> DEFINE u == [task[c] EXCEPT !.pc = "drop", !.move = kind]
    <2>1. u \in CallRec BY StepNames DEF Inv, TypeOK, CallRec
    <2>2. u.pc = "drop" /\ u.n = task[c].n /\ u.text = task[c].text /\ u.copy = task[c].copy
      BY DEF Inv, TypeOK, CallRec
    <2>3. task' = [task EXCEPT ![c] = u] BY <1>1
    <2> HIDE DEF u
    <2> QED BY <2>1, <2>2, <2>3, RecordStep DEF Inv, GoesTo
  <1>2. CASE Done(c) BY <1>2, DoneStep DEF Inv
  <1>3. CASE ~Done(c) BY <1>1, <1>3 DEF Move
  <1> QED BY <1>2, <1>3

LEMMA MoveInv ==
  ASSUME Inv, NEW c \in Calls, Move(c)
  PROVE  Inv'
  <1>1. \/ Ends(c)
        \/ GoesTo(c, "drop") /\ (task[c].pc = "execute" => task[c].n \in md)
    BY MoveGoes
  <1>2. StepTo(c) /\ Standing(c)'
    BY <1>1, NamesAssumption DEF Inv, Standing, GoesTo, Ends, Move
  <1>3. TypeOK'
    <2>1. dirs' \subseteq Names /\ md' \subseteq dirs'
      BY DEF Inv, TypeOK, Move, disk
    <2>2. Blank \in FileState BY DEF Blank, FileState, Title
    <2>3. file' = file \/ file' = [file EXCEPT ![task[c].n] = Blank] BY DEF Move, disk
    <2>4. file' \in [Names -> FileState] BY <2>2, <2>3 DEF Inv, TypeOK
    <2> QED BY <2>1, <2>4, <1>2 DEF Inv, TypeOK, StepTo, Move, memory
  <1>n. SUFFICES ASSUME NEW n \in Names PROVE Kept(c, n) /\ Proceeds(c, n)
    BY <1>2, <1>3, ProceedInv DEF Move, names
  <1>i. TypeOK /\ NameInv(n) /\ Standing(c) BY DEF Inv
  <1>4. Kept(c, n)
    BY <1>1, <1>i
      DEF Kept, TypeOK, NameInv, Unused, UpcomingIsEmpty, SaidIsKept, IsEmpty, Upcoming, MoveSteps,
          memory, disk, ghosts, Move
  <1>5. Proceeds(c, n)
    BY <1>1, <1>i, NamesAssumption
      DEF Proceeds, NameInv, UpcomingIsEmpty, Upcoming, StepTo, SendSteps, NameSteps, TurnSteps,
          MoveSteps, memory, GoesTo, Ends, Move, IsEmpty
  <1> QED BY <1>4, <1>5

LEMMA CommandInv ==
  ASSUME Inv, NEW c \in Calls, Command(c)
  PROVE  Inv'
  <1> USE BeginStep, StepNames, BeginInv DEF Inv
  <1>1. ASSUME NEW draft \in Title \cup {NoDraft}, Create(c, draft) PROVE Inv'
    BY <1>1 DEF Create
  <1>2. ASSUME NEW draft \in Title \cup {NoDraft}, NEW m \in Names \cup {Other}, Select(c, m, draft)
        PROVE  Inv'
    BY <1>2 DEF Select
  <1>3. ASSUME NEW m \in Names, Cancel(c, m) PROVE Inv'
    BY <1>3, NamesAssumption DEF Cancel, Title
  <1>4. ASSUME NEW m \in Names, Execute(c, m) PROVE Inv'
    BY <1>4, NamesAssumption DEF Execute, Listed, Title
  <1>5. ASSUME NEW m \in Names, SetMode(c, m) PROVE Inv'
    BY <1>5, NamesAssumption DEF SetMode, Listed, Title
  <1> QED BY <1>1, <1>2, <1>3, <1>4, <1>5, SendInv DEF Command

-----------------------------------------------------------------------------
(* The agent, the clock and opening *)

LEMMA WritePlanInv ==
  ASSUME Inv, NEW m \in Names, WritePlan(m)
  PROVE  Inv'
  <1>1. TypeOK' /\ \A c \in Calls : Standing(c)'
    BY DEF WritePlan, Inv, TypeOK, Standing, memory
  <1>2. ASSUME NEW n \in Names PROVE NameInv(n)'
    <2>1. n # m => (IsEmpty(n)' <=> IsEmpty(n)) BY DEF WritePlan, IsEmpty, memory
    <2>2. ~IsEmpty(m) BY DEF WritePlan, Inv, TypeOK, IsEmpty
    <2>3. NameInv(n) BY DEF Inv
    <2> QED BY <2>1, <2>2, <2>3
      DEF WritePlan, NameInv, Unused, OneSend, SaidIsKept, UpcomingIsEmpty, Upcoming, CarriedHasDir,
          memory, ghosts, names
  <1> QED BY <1>1, <1>2 DEF Inv

\* The end of a turn and a second that passes change nothing Inv speaks of.
LEMMA OtherInv ==
  ASSUME Inv, Tick \/ \E m \in Names : EndTurn(m)
  PROVE  Inv'
  <1> USE DEF Tick, EndTurn, memory, disk, ghosts, names
  <1>1. TypeOK' /\ \A c \in Calls : Standing(c)'
    BY DEF Inv, TypeOK, Standing
  <1>2. ASSUME NEW n \in Names PROVE NameInv(n)'
    BY DEF Inv, NameInv, Unused, OneSend, SaidIsKept, UpcomingIsEmpty, Upcoming, CarriedHasDir,
        IsEmpty
  <1> QED BY <1>1, <1>2 DEF Inv

LEMMA OpenInv ==
  ASSUME Inv, NEW restart \in BOOLEAN, Open(restart)
  PROVE  Inv'
  <1> DEFINE none == [n \in Names |-> Free]
  <1>r. \/ pending' = none /\ current' = NoPlan /\ UNCHANGED names
        \/ \E m \in Names : Anew(m, none)
    <2>1. Reserve(none) \/ (pending' = none /\ current' = NoPlan /\ UNCHANGED names) BY DEF Open
    <2> QED BY <2>1, ReserveStep
  <1>t. task' = task \/ task' = [c \in Calls |-> Idle] BY DEF Open
  <1>1. task' \in [Calls -> CallRec] /\ \A c \in Calls : Standing(c)'
    <2>1. CASE task' = task BY <2>1 DEF Inv, TypeOK, Standing
    <2>2. CASE task' = [c \in Calls |-> Idle]
      BY <2>2 DEF Idle, Blank, CallRec, CallSteps, FileState, Title, Standing
    <2> QED BY <1>t, <2>1, <2>2
  <1>2. TypeOK'
    <2>1. pending' \in [Names -> Title \cup {Free}] /\ current' \in Names \cup {NoPlan, Other}
      BY <1>r DEF Anew, Title
    <2> QED BY <1>1, <2>1 DEF Open, Inv, TypeOK, disk
  <1>n. SUFFICES ASSUME NEW n \in Names PROVE NameInv(n)' BY <1>1, <1>2 DEF Inv
  <1>i. NameInv(n) BY DEF Inv
  <1>e. IsEmpty(n) => IsEmpty(n)' BY DEF Open, IsEmpty, disk
  <1>c. \A c \in Calls : task'[c] = task[c] \/ task'[c] = Idle BY <1>t
  <1>d. Idle.n # n BY NamesAssumption DEF Idle
  <1>p. /\ n \notin used' => n \notin used /\ pending'[n] = Free
        /\ n \in used /\ n \notin reused' => pending'[n] = Free /\ n \notin reused
        /\ n \notin reused' => n \notin reused
    BY <1>r DEF Anew, names
  <1>3. Unused(n)' BY <1>i, <1>e, <1>c, <1>d, <1>p DEF NameInv, Unused, Open, disk
  <1>4. OneSend(n)' BY <1>i, <1>c, <1>d DEF NameInv, OneSend
  <1>5. SaidIsKept(n)' BY <1>i DEF NameInv, SaidIsKept, Open, disk
  <1>6. ASSUME n \notin reused' PROVE UpcomingIsEmpty(n)' /\ CarriedHasDir(n)'
    <2>1. CASE n \in used
      BY <2>1, <1>6, <1>i, <1>e, <1>c, <1>d, <1>p
        DEF NameInv, UpcomingIsEmpty, Upcoming, CarriedHasDir
    <2>2. CASE n \notin used
      BY <2>2, <1>i, <1>e, <1>c, <1>d DEF NameInv, Unused, UpcomingIsEmpty, CarriedHasDir
    <2> QED BY <2>1, <2>2
  <1> QED BY <1>3, <1>4, <1>5, <1>6 DEF NameInv

-----------------------------------------------------------------------------
(* The invariant *)

LEMMA FirstName == <<1, 0>> \in Names
  BY ScopingDraftsAssumption DEF Names

LEMMA InitInv == Init => Inv
  <1> SUFFICES ASSUME Init PROVE Inv OBVIOUS
  <1>1. Idle \in CallRec /\ Blank \in FileState /\ Idle.pc = "idle" /\ ~Blank.prompted
    BY DEF Idle, Blank, CallRec, CallSteps, FileState, Title
  <1>2. TypeOK BY <1>1, FirstName DEF Init, TypeOK, Title
  <1>3. \A c \in Calls : Standing(c) BY <1>1 DEF Init, Standing
  <1>4. ASSUME NEW n \in Names PROVE NameInv(n)
    <2>1. Idle.n # n BY NamesAssumption DEF Idle
    <2>2. IsEmpty(n) BY <1>1 DEF Init, IsEmpty
    <2> QED BY <1>1, <2>1, <2>2
      DEF Init, NameInv, Unused, OneSend, SaidIsKept, UpcomingIsEmpty, CarriedHasDir
  <1> QED BY <1>2, <1>3, <1>4 DEF Inv

LEMMA NextInv == Inv /\ [Next]_vars => Inv'
  <1> SUFFICES ASSUME Inv, [Next]_vars PROVE Inv' OBVIOUS
  <1>1. ASSUME NEW restart \in BOOLEAN, Open(restart) PROVE Inv' BY <1>1, OpenInv
  <1>2. ASSUME NEW c \in Calls, Command(c) PROVE Inv'
    BY <1>2, CommandInv
  <1>3. ASSUME NEW c \in Calls, Step(c) PROVE Inv'
    BY <1>3, CreateNewInv, SelectKeyInv, CancelEmptyInv, CancelFullInv, MoveInv, DropInv,
        CarryFlagInv, SpawnInv, ViewInv, PinInv, CheckInv, MaterializeInv, CarryInv, CarriedInv,
        ForgetInv, StartInv, MarkInv, StartTurnInv, LoadInv, StoreInv DEF Step
  <1>4. ASSUME NEW n \in Names, WritePlan(n) PROVE Inv' BY <1>4, WritePlanInv
  <1>5. ASSUME Tick \/ \E n \in Names : EndTurn(n) PROVE Inv' BY <1>5, OtherInv
  <1>6. CASE UNCHANGED vars
    BY <1>6
      DEF vars, memory, disk, ghosts, names, Inv, TypeOK, Standing, NameInv, Unused, OneSend,
          SaidIsKept, UpcomingIsEmpty, Upcoming, CarriedHasDir, IsEmpty
  <1> QED BY <1>1, <1>2, <1>3, <1>4, <1>5, <1>6 DEF Next

\* The invariant: commands that create, select, leave, prompt and move scoping
\* plans keep every name consistent.
THEOREM InvHolds == Spec => []Inv
  BY InitInv, NextInv, PTL DEF Spec

\* Types: no command leaves a selection, a session, a directory or a copy of
\* state.json outside what the code can hold.
THEOREM TypesHold == Spec => []TypeOK
  <1>1. Inv => TypeOK BY DEF Inv
  <1> QED BY <1>1, InvHolds, PTL

-----------------------------------------------------------------------------
(* Plans stay in the list *)

\* A plan that leaves the list.
Gone(n) == n \in Listed /\ n \notin Listed' /\ n \notin reused

AllMayLeave == \A n \in (Listed \ Listed') \ reused : MayLeave(n)

Counted == opens \in Nat

LEMMA OpensIsCount == Counted /\ [Next]_vars => Counted'
  <1> SUFFICES ASSUME opens \in Nat, Next, opens' # opens PROVE opens' \in Nat
    BY DEF vars, Counted
  <1>1. \A c \in Calls : ~Step(c)
    BY DEF Step, CreateNew, SelectKey, CancelEmpty, CancelFull, Move, Drop, CarryFlag, Spawn, View,
        Pin, Check, Materialize, Carry, Carried, Forget, Start, Mark, StartTurn, Load, Store
  <1>2. \A c \in Calls : ~Command(c)
    BY DEF Command, Create, Select, Cancel, Execute, SetMode, Send
  <1>3. \A n \in Names : ~WritePlan(n) /\ ~EndTurn(n) BY DEF WritePlan, EndTurn
  <1>4. ~Tick BY DEF Tick
  <1>5. \E restart \in BOOLEAN : Open(restart) BY <1>1, <1>2, <1>3, <1>4 DEF Next
  <1> QED BY <1>5 DEF Open

\* Only an empty plan vanishes, and only the plan that is left.
LEMMA AbandonGone ==
  ASSUME Inv, NEW m, NEW draft \in Title \cup {NoDraft}, Abandon(m, draft),
         NEW n \in Names, n \in Listed, n \notin dirs', Abandoned(m, draft)[n] = Free
  PROVE  n = m /\ n \notin said \ torn
  <1>i. TypeOK /\ SaidIsKept(n) BY DEF Inv, NameInv
  <1>1. CASE ~(m \in Names /\ IsEmpty(m))
    BY <1>1 DEF Abandon, Abandoned, Listed, Reserved
  <1>2. CASE m \in Names /\ IsEmpty(m) /\ draft = NoDraft
    BY <1>2, <1>i DEF Abandon, Abandoned, Vanish, Listed, Reserved, SaidIsKept, IsEmpty
  <1>3. CASE m \in Names /\ IsEmpty(m) /\ draft # NoDraft
    BY <1>3, <1>i, ScopingDraftsAssumption
      DEF Abandon, Abandoned, KeepDraft, Listed, Reserved, Title
  <1> QED BY <1>1, <1>2, <1>3

\* Reserving a name takes none off the list.
LEMMA ReserveAdds ==
  ASSUME NEW reserved, reserved \in [Names -> Title \cup {Free}], Reserve(reserved),
         NEW n \in Names, n \notin Listed'
  PROVE  n \notin dirs' /\ reserved[n] = Free
  BY ReserveStep, ScopingDraftsAssumption DEF Anew, Listed, Reserved, Title

LEMMA GoneStep ==
  ASSUME Inv, Counted, Next, NEW n \in Names, Gone(n)
  PROVE  MayLeave(n)
  <1>i. TypeOK /\ NameInv(n) BY DEF Inv
  <1>g. n \in Listed /\ n \notin dirs' /\ pending'[n] = Free BY DEF Gone, Listed, Reserved
  <1>d. \A c \in Calls : task[c].text \in Title \cup {NoDraft} BY DEF Inv, TypeOK, CallRec
  <1>1. CASE \E restart \in BOOLEAN : Open(restart)
    <2>1. opens' # opens /\ n \notin dirs BY <1>1, <1>g DEF Open, Counted, disk
    <2> QED BY <2>1 DEF MayLeave
  <1>2. ASSUME NEW c \in Calls, Command(c) PROVE FALSE
    <2>1. dirs' = dirs /\ (pending[n] # Free => pending'[n] # Free)
      BY <1>2, <1>i, ScopingDraftsAssumption
        DEF Command, Create, Select, Cancel, Execute, SetMode, Send, TypeOK, Title, memory, disk
    <2> QED BY <2>1, <1>g DEF Listed, Reserved
  <1>3. ASSUME NEW c \in Calls, CreateNew(c) PROVE MayLeave(n)
    <2> DEFINE left == Abandoned(current, task[c].text)
    <2>1. left \in [Names -> Title \cup {Free}] BY <1>3, <1>d, AbandonLeaves DEF CreateNew, Leaves
    <2>2. left[n] = Free BY <1>3, <2>1, ReserveAdds DEF CreateNew, Gone
    <2> QED BY <1>3, <1>d, <1>g, <2>2, AbandonGone DEF CreateNew, MayLeave
  <1>4. ASSUME NEW c \in Calls, SelectKey(c) PROVE MayLeave(n)
    <2>1. CASE current # task[c].n
      BY <2>1, <1>4, <1>d, <1>g, AbandonGone DEF SelectKey, MayLeave
    <2>2. CASE current = task[c].n
      BY <2>2, <1>4, <1>g DEF SelectKey, Listed, Reserved
    <2> QED BY <2>1, <2>2
  <1>5. ASSUME NEW c \in Calls, CancelEmpty(c) PROVE MayLeave(n)
    <2> DEFINE left == Abandoned(task[c].n, NoDraft)
    <2>1. left \in [Names -> Title \cup {Free}] BY <1>5, AbandonLeaves DEF CancelEmpty, Leaves
    <2>2. pending' = left \/ Reserve(left) BY <1>5 DEF CancelEmpty
    <2>3. left[n] = Free BY <2>1, <2>2, <1>g, ReserveAdds DEF Gone
    <2> QED BY <1>5, <1>g, <2>3, AbandonGone DEF CancelEmpty, MayLeave
  <1>6. ASSUME NEW c \in Calls, Move(c) PROVE MayLeave(n)
    <2>1. pending' = pending /\ n \in dirs /\ n = task[c].n
      BY <1>6, <1>g DEF Move, Listed, Reserved, memory, disk
    <2>2. task'[c] # task[c]
      BY <1>6, <1>i, <2>1, <1>g DEF Move, Done, Idle, TypeOK, CallRec
    <2> QED BY <1>6, <2>1, <2>2 DEF Move, MayLeave
  <1>7. ASSUME NEW c \in Calls, Carry(c) PROVE FALSE
    <2>1. dirs' = dirs BY <1>7 DEF Carry, disk
    <2>2. n = task[c].n /\ pending[n] # Free /\ n \notin dirs
      BY <1>7, <1>g, <1>i, <2>1 DEF Carry, Listed, Reserved
    <2> QED BY <1>7, <1>i, <2>2 DEF Carry, NameInv, CarriedHasDir, Gone
  <1>8. ASSUME NEW c \in Calls, Forget(c) PROVE MayLeave(n)
    <2>1. dirs' = dirs /\ n = task[c].n
      BY <1>8, <1>g, <1>i DEF Forget, Listed, Reserved, disk
    <2> QED BY <1>8, <1>g, <2>1 DEF Forget, MayLeave
  <1>9. ASSUME NEW c \in Calls, Carried(c) PROVE FALSE
    <2>1. task[c].text \in Titles /\ dirs' = dirs
      BY <1>9 DEF Carried, Inv, Standing, disk
    <2>2. pending[n] # Free => pending'[n] # Free
      BY <1>9, <1>i, <2>1, ScopingDraftsAssumption DEF Carried, TypeOK
    <2> QED BY <1>g, <2>1, <2>2 DEF Listed, Reserved
  <1>10. ASSUME NEW c \in Calls,
                \/ CancelFull(c) \/ Drop(c) \/ CarryFlag(c) \/ Spawn(c) \/ View(c) \/ Pin(c)
                \/ Check(c) \/ Materialize(c) \/ Start(c) \/ Mark(c) \/ StartTurn(c) \/ Load(c) \/ Store(c)
         PROVE  FALSE
    <2>1. pending' = pending /\ dirs \subseteq dirs'
      BY <1>10
        DEF CancelFull, Drop, CarryFlag, Spawn, View, Pin, Check, Materialize, Start, Mark,
            StartTurn, Load, Store, memory, disk
    <2> QED BY <2>1, <1>g DEF Listed, Reserved
  <1>11. ASSUME Tick \/ \E m \in Names : WritePlan(m) \/ EndTurn(m) PROVE FALSE
    BY <1>11, <1>g DEF Tick, WritePlan, EndTurn, Listed, Reserved, memory, disk
  <1>12. ASSUME NEW c \in Calls, Step(c) PROVE MayLeave(n)
    BY <1>12, <1>3, <1>4, <1>5, <1>6, <1>7, <1>8, <1>9, <1>10 DEF Step
  <1> QED BY <1>1, <1>2, <1>11, <1>12 DEF Next

\* A plan leaves the list when it moves to a later phase, or when nothing was
\* ever said in it and the user leaves or cancels it; a name without a
\* directory also goes with the process, or with the prompt that put it back.
\* So vanish_scoping and the moves never take a conversation on record.
THEOREM PlansAreKept == Spec => PlansStay
  <1>1. Init => Counted BY DEF Init, Counted
  <1>2. Inv /\ Counted /\ [Next]_vars => [AllMayLeave]_vars
    <2> SUFFICES ASSUME Inv, Counted, Next, NEW n \in (Listed \ Listed') \ reused PROVE MayLeave(n)
      BY DEF AllMayLeave
    <2>1. n \in Names /\ Gone(n) BY DEF Inv, TypeOK, Listed, Reserved, Gone
    <2> QED BY <2>1, GoneStep
  <1>3. Spec => [][AllMayLeave]_vars
    BY <1>1, <1>2, OpensIsCount, InitInv, NextInv, PTL DEF Spec
  <1> QED BY <1>3 DEF PlansStay, AllMayLeave

-----------------------------------------------------------------------------
(* Titles survive *)

\* A plan that is listed shows the title it was last given: on disk, in
\* memory, or about to be written by the prompt that carries it over.
Shown(n) ==
  n \in Listed /\ n \notin torn /\ named[n] # NoTitle /\ ~Carrying(n)
    => file[n].title # NoTitle \/ pending[n] \in Titles

\* What the command in slot c knows of a title when it is about plan n: one
\* that carries the title is the only place that has it, one about to give
\* the plan its directory finds the title where the list shows it, and a title
\* found on disk stays there.
Bears(c, n) == task[c].n = n =>
  /\ task[c].pc \in {"carried", "save title"} => pending[n] = Free
  /\ task[c].pc = "forget" /\ n \in dirs => pending[n] = Free
  /\ task[c].pc \in {"check", "mkdir"} /\ n \notin Listed => named[n] = NoTitle
  /\ /\ task[c].pc = "save title" /\ task[c].copy.title # NoTitle
     /\ n \notin torn /\ named[n] # NoTitle
     => file[n].title # NoTitle

TitleInv(n) ==
  /\ n \notin dirs => file[n].title = NoTitle
  /\ n \notin used => named[n] = NoTitle
  /\ n \notin reused => Shown(n) /\ \A c \in Calls : Bears(c, n)

TitlesInv ==
  /\ named \in [Names -> Title]
  /\ \A n \in Names : TitleInv(n)

\* Steps that neither touch nor carry a title.
LEMMA QuietTitles ==
  ASSUME TitlesInv, NEW c \in Calls, StepTo(c),
         UNCHANGED <<pending, dirs, file, named, torn, names>>,
         task[c].pc \notin {"carried", "save title"},
         task'[c].pc \notin {"carried", "save title", "forget", "check"},
         task'[c].pc = "mkdir" => task[c].pc = "check" /\ task'[c].n = task[c].n
  PROVE  TitlesInv'
  <1>1. SUFFICES ASSUME NEW n \in Names PROVE TitleInv(n)' BY DEF TitlesInv
  <1>2. TitleInv(n) BY DEF TitlesInv
  <1>3. Carrying(n)' <=> Carrying(n) BY DEF Carrying, StepTo
  <1>4. Shown(n) => Shown(n)' BY <1>3 DEF Shown, Listed, Reserved
  <1>5. ASSUME NEW d \in Calls, Bears(d, n), Bears(c, n) PROVE Bears(d, n)'
    <2>1. CASE d = c BY <2>1, <1>5 DEF Bears, Listed, Reserved
    <2>2. CASE d # c BY <2>2, <1>5 DEF Bears, Listed, Reserved, StepTo
    <2> QED BY <2>1, <2>2
  <1> QED BY <1>2, <1>4, <1>5 DEF TitleInv, names

\* What is true of a title once a plan has been left.
TitleLeft(n, left) ==
  /\ n \notin dirs' => file'[n].title = NoTitle
  /\ n \notin used => named'[n] = NoTitle
  /\ n \notin reused =>
       /\ (n \in dirs' \/ left[n] # Free) /\ n \notin torn' /\ named'[n] # NoTitle /\ ~Carrying(n)
            => file'[n].title # NoTitle \/ left[n] \in Titles
       /\ \A c \in Calls : task[c].n = n =>
            /\ task[c].pc \in {"carried", "save title"} => left[n] = Free
            /\ task[c].pc = "forget" /\ n \in dirs' => left[n] = Free
            /\ task[c].pc \in {"check", "mkdir"} /\ n \notin dirs' /\ left[n] = Free
                 => named'[n] = NoTitle
            /\ /\ task[c].pc = "save title" /\ task[c].copy.title # NoTitle
               /\ n \notin torn' /\ named'[n] # NoTitle
               => file'[n].title # NoTitle

LEMMA AbandonTitles ==
  ASSUME Inv, TitlesInv, NEW m, NEW draft \in Title \cup {NoDraft}, Abandon(m, draft)
  PROVE  named' \in [Names -> Title] /\ \A n \in Names : TitleLeft(n, Abandoned(m, draft))
  <1> DEFINE left == Abandoned(m, draft)
  <1>i. TypeOK /\ named \in [Names -> Title] BY DEF Inv, TitlesInv
  <1>t. named' \in [Names -> Title]
    BY <1>i DEF Abandon, Vanish, KeepDraft, ghosts, Title
  <1>n. SUFFICES ASSUME NEW n \in Names PROVE TitleLeft(n, left) BY <1>t
  <1>v. TitleInv(n) BY DEF TitlesInv
  <1>u. n \in Listed <=> n \in dirs \/ pending[n] # Free BY DEF Listed, Reserved
  <1> HIDE DEF left
  <1>1. CASE left[n] = pending[n] /\ file'[n] = file[n] /\ named'[n] = named[n]
             /\ (n \in dirs' <=> n \in dirs) /\ (n \in torn' <=> n \in torn)
    BY <1>1, <1>v, <1>u DEF TitleLeft, TitleInv, Shown, Bears
  <1>2. CASE ~(m \in Names /\ IsEmpty(m))
    BY <1>1, <1>2 DEF left, Abandon, Abandoned, ghosts
  <1>3. CASE m \in Names /\ IsEmpty(m) /\ draft = NoDraft
    <2>1. CASE n # m
      BY <1>1, <1>3, <2>1, <1>i DEF left, Abandon, Abandoned, Vanish, TypeOK
    <2>2. CASE n = m
      <3>1. left[n] = Free /\ file'[n].title = NoTitle /\ named'[n] = NoTitle /\ n \notin dirs'
        BY <1>3, <2>2, <1>i DEF left, Abandon, Abandoned, Vanish, TypeOK, Blank
      <3> QED BY <3>1, ScopingDraftsAssumption DEF TitleLeft
    <2> QED BY <2>1, <2>2
  <1>4. CASE m \in Names /\ IsEmpty(m) /\ draft # NoDraft
    <2>1. CASE n # m
      BY <1>1, <1>4, <2>1, <1>i DEF left, Abandon, Abandoned, KeepDraft, TypeOK
    <2>2. CASE n = m /\ n \notin Listed
      BY <1>1, <1>4, <2>2, <1>u DEF left, Abandon, Abandoned, KeepDraft, Reserved
    <2>3. CASE n = m /\ n \in dirs
      <3>1. left[n] = pending[n] /\ file'[n].title = draft /\ named'[n] = draft
        BY <1>4, <2>3, <1>i
          DEF left, Abandon, Abandoned, KeepDraft, TypeOK, FileState, Listed
      <3>2. dirs' = dirs BY <1>4 DEF Abandon, KeepDraft
      <3>3. n \in used \/ draft = NoTitle
        BY <1>4, <2>3 DEF Inv, NameInv, Unused
      <3> QED BY <3>1, <3>2, <3>3, <2>3, <1>v DEF TitleLeft, TitleInv, Bears
    <2>4. CASE n = m /\ n \in Listed /\ n \notin dirs
      <3>1. left[n] = draft /\ named'[n] = draft /\ file' = file /\ dirs' = dirs
        BY <1>4, <2>4, <1>u, <1>i DEF left, Abandon, Abandoned, KeepDraft, TypeOK, Reserved
      <3>2. draft \in Title /\ draft # Free /\ pending[n] # Free
        BY <1>4, <2>4, <1>u, ScopingDraftsAssumption DEF Title
      <3>3. n \in used BY <3>2 DEF Inv, NameInv, Unused
      <3> QED BY <3>1, <3>2, <3>3, <2>4, <1>v DEF TitleLeft, TitleInv, Bears, Title
    <2> QED BY <2>1, <2>2, <2>3, <2>4
  <1> QED BY <1>2, <1>3, <1>4 DEF left

LEMMA LeaveTitles ==
  ASSUME Inv, NEW c \in Calls, Ends(c), task[c].pc \in {"create", "select", "cancel"},
         NEW left \in [Names -> Title \cup {Free}], \A n \in Names : TitleLeft(n, left),
         named' \in [Names -> Title],
         \/ pending' = left /\ UNCHANGED names
         \/ Reserve(left)
  PROVE  TitlesInv'
  <1>1. SUFFICES ASSUME NEW n \in Names PROVE TitleInv(n)' BY DEF TitlesInv
  <1>2. TitleLeft(n, left) /\ NameInv(n) BY DEF Inv
  <1>3. \/ pending' = left /\ UNCHANGED names
        \/ \E m \in Names : Anew(m, left)
    BY ReserveStep
  <1>4. Carrying(n)' <=> Carrying(n) BY NamesAssumption DEF Carrying, Ends, StepTo
  <1>5. n \in Listed' <=> n \in dirs' \/ pending'[n] # Free BY DEF Listed, Reserved
  <1>6. \A d \in Calls : d # c => task'[d] = task[d] BY DEF Ends, StepTo
  <1>7. task'[c].n # n BY NamesAssumption DEF Ends
  <1>8. CASE n \in reused' \/ (pending'[n] = left[n] /\ n \notin reused)
    <2>1. (n \notin dirs' => file'[n].title = NoTitle) /\ (n \notin used' => named'[n] = NoTitle)
      BY <1>2, <1>3 DEF TitleLeft, names, Anew
    <2>2. ASSUME n \notin reused', NEW d \in Calls PROVE Bears(d, n)'
      BY <1>8, <2>2, <1>2, <1>5, <1>6, <1>7 DEF TitleLeft, Bears
    <2>3. n \notin reused' => Shown(n)'
      BY <1>8, <1>2, <1>4, <1>5 DEF TitleLeft, Shown
    <2> QED BY <2>1, <2>2, <2>3 DEF TitleInv
  <1>9. CASE n \notin used /\ n \in used' /\ n \notin dirs'
    <2>1. named'[n] = NoTitle /\ file'[n].title = NoTitle BY <1>9, <1>2 DEF TitleLeft
    <2>2. \A d \in Calls : task'[d].n # n
      BY <1>9, <1>2, <1>6, <1>7 DEF NameInv, Unused
    <2> QED BY <1>9, <2>1, <2>2 DEF TitleInv, Shown, Bears
  <1> QED BY <1>3, <1>8, <1>9 DEF Anew, names

LEMMA CreateNewTitles ==
  ASSUME Inv, TitlesInv, NEW c \in Calls, CreateNew(c)
  PROVE  TitlesInv'
  <1> DEFINE left == Abandoned(current, task[c].text)
  <1>1. Ends(c) BY DoneStep DEF CreateNew, Inv
  <1>2. task[c].text \in Title \cup {NoDraft} BY DEF Inv, TypeOK, CallRec
  <1>3. left \in [Names -> Title \cup {Free}]
    BY <1>2, AbandonLeaves DEF CreateNew, Leaves
  <1>4. named' \in [Names -> Title] /\ \A n \in Names : TitleLeft(n, left)
    BY <1>2, AbandonTitles DEF CreateNew
  <1> QED BY <1>1, <1>3, <1>4, LeaveTitles DEF CreateNew

LEMMA SelectKeyTitles ==
  ASSUME Inv, TitlesInv, NEW c \in Calls, SelectKey(c)
  PROVE  TitlesInv'
  <1>1. Ends(c) BY DoneStep DEF SelectKey, Inv
  <1>2. task[c].text \in Title \cup {NoDraft} BY DEF Inv, TypeOK, CallRec
  <1>3. /\ pending' \in [Names -> Title \cup {Free}] /\ named' \in [Names -> Title]
        /\ \A n \in Names : TitleLeft(n, pending')
    <2>1. CASE current # task[c].n
      BY <2>1, <1>2, AbandonLeaves, AbandonTitles DEF SelectKey, Leaves
    <2>2. CASE current = task[c].n
      <3>1. UNCHANGED <<pending, dirs, file, named, torn>> BY <2>2 DEF SelectKey, ghosts
      <3>2. ASSUME NEW n \in Names PROVE TitleLeft(n, pending')
        <4>1. TitleInv(n) BY DEF TitlesInv
        <4> QED BY <3>1, <4>1 DEF TitleLeft, TitleInv, Shown, Bears, Listed, Reserved
      <3> QED BY <3>1, <3>2 DEF Inv, TypeOK, TitlesInv
    <2> QED BY <2>1, <2>2
  <1> QED BY <1>1, <1>3, LeaveTitles DEF SelectKey

LEMMA CancelEmptyTitles ==
  ASSUME Inv, TitlesInv, NEW c \in Calls, CancelEmpty(c)
  PROVE  TitlesInv'
  <1> DEFINE left == Abandoned(task[c].n, NoDraft)
  <1>1. Ends(c) BY DoneStep DEF CancelEmpty, Inv
  <1>2. left \in [Names -> Title \cup {Free}] BY AbandonLeaves DEF CancelEmpty, Leaves
  <1>3. named' \in [Names -> Title] /\ \A n \in Names : TitleLeft(n, left)
    BY AbandonTitles DEF CancelEmpty
  <1>4. (pending' = left /\ UNCHANGED names) \/ Reserve(left) BY DEF CancelEmpty
  <1> QED BY <1>1, <1>2, <1>3, <1>4, LeaveTitles DEF CancelEmpty

\* The steps that only pass a title by.
LEMMA OtherTitles ==
  ASSUME Inv, TitlesInv, NEW c \in Calls,
         \/ CancelFull(c) \/ Drop(c) \/ CarryFlag(c) \/ Spawn(c) \/ View(c) \/ Pin(c)
         \/ Check(c) \/ Start(c) \/ Mark(c) \/ StartTurn(c) \/ Load(c)
  PROVE  TitlesInv'
  <1>1. /\ UNCHANGED <<pending, dirs, file, named, torn, names>>
        /\ task[c].pc \notin {"carried", "save title"}
    BY DEF CancelFull, Drop, CarryFlag, Spawn, View, Pin, Check, Start, Mark, StartTurn, Load,
           memory, disk, ghosts
  <1>2. /\ StepTo(c)
        /\ task'[c].pc \in {"idle", "move", "carry flag", "spawn", "view", "pin", "mkdir", "start",
                            "id", "flag", "save id", "save flag", "save mode", "mark", "turn"}
        /\ task'[c].pc = "mkdir" => task[c].pc = "check" /\ task'[c].n = task[c].n
    <2> USE GotoStep, DoneStep, StepNames DEF GoesTo, Ends, Inv
    <2>1. CASE CancelFull(c) BY <2>1 DEF CancelFull
    <2>2. CASE Drop(c) BY <2>2 DEF Drop
    <2>3. CASE CarryFlag(c) BY <2>3 DEF CarryFlag
    <2>4. CASE Spawn(c) BY <2>4 DEF Spawn
    <2>5. CASE View(c) BY <2>5 DEF View
    <2>6. CASE Pin(c) BY <2>6 DEF Pin
    <2>7. CASE Check(c) BY <2>7 DEF Check
    <2>8. CASE Start(c) BY <2>8 DEF Start
    <2>9. CASE Mark(c) BY <2>9 DEF Mark
    <2>10. CASE StartTurn(c) BY <2>10 DEF StartTurn
    <2>11. CASE Load(c)
      BY <2>11, ReadStep DEF Load, Takes, Standing
    <2> QED BY <2>1, <2>2, <2>3, <2>4, <2>5, <2>6, <2>7, <2>8, <2>9, <2>10, <2>11
  <1> QED BY <1>1, <1>2, QuietTitles

\* A step that touches one name, from what it does to that name.
LEMMA OneTitle ==
  ASSUME TitlesInv, NEW c \in Calls, StepTo(c), UNCHANGED names,
         NEW m \in Names, TitleInv(m)', named' \in [Names -> Title],
         task[c].n \in {m, Other}, task'[c].n \in {m, Other},
         \A n \in Names \ {m} :
           /\ pending'[n] = pending[n] /\ file'[n] = file[n] /\ named'[n] = named[n]
           /\ (n \in dirs' <=> n \in dirs) /\ (n \in torn' <=> n \in torn)
  PROVE  TitlesInv'
  <1>1. SUFFICES ASSUME NEW n \in Names, n # m PROVE TitleInv(n)' BY DEF TitlesInv
  <1>2. TitleInv(n) /\ n # Other BY NamesAssumption DEF TitlesInv
  <1>3. Carrying(n)' <=> Carrying(n) BY <1>1, <1>2 DEF Carrying, StepTo
  <1>4. Listed' \cap {n} = Listed \cap {n} BY <1>1 DEF Listed, Reserved
  <1>5. Shown(n) => Shown(n)' BY <1>1, <1>3, <1>4 DEF Shown
  <1>6. ASSUME NEW d \in Calls, Bears(d, n) PROVE Bears(d, n)'
    BY <1>1, <1>2, <1>4, <1>6 DEF Bears, StepTo
  <1> QED BY <1>1, <1>2, <1>5, <1>6 DEF TitleInv, names

LEMMA MoveTitles ==
  ASSUME Inv, TitlesInv, NEW c \in Calls, Move(c)
  PROVE  TitlesInv'
  <1>m. PICK m \in Names : m = task[c].n BY DEF Inv, Standing, Move
  <1>i. TypeOK /\ m = task[c].n /\ named \in [Names -> Title] /\ TitleInv(m)
    BY <1>m DEF Inv, TypeOK, Standing, Move, TitlesInv
  <1>1. Ends(c) \/ GoesTo(c, "drop") BY MoveGoes
  <1>q. CASE UNCHANGED <<disk, ghosts>>
    BY <1>1, <1>q, QuietTitles DEF GoesTo, Ends, Move, memory, disk, ghosts, names
  <1>r. CASE ~UNCHANGED <<disk, ghosts>>
    <2>1. /\ dirs' = dirs \ {m} /\ file' = [file EXCEPT ![m] = Blank]
          /\ named' = [named EXCEPT ![m] = NoTitle] /\ torn' = torn \ {m}
          /\ UNCHANGED names /\ pending' = pending
      BY <1>r, <1>i DEF Move, memory
    <2>2. /\ file'[m].title = NoTitle /\ named'[m] = NoTitle /\ m \notin dirs'
          /\ named' \in [Names -> Title]
      BY <2>1, <1>i DEF TypeOK, Blank, Title
    <2>3. ASSUME NEW d \in Calls, m \notin reused PROVE Bears(d, m)'
      <3>1. CASE d = c
        BY <3>1, <2>2, <1>1, <1>i, NamesAssumption DEF Bears, GoesTo, Ends
      <3>2. CASE d # c
        <4>1. task'[d] = task[d] /\ Bears(d, m)
          BY <3>2, <2>3, <1>1, <1>i DEF GoesTo, Ends, StepTo, TitleInv
        <4> QED BY <4>1, <2>1, <2>2 DEF Bears
      <3> QED BY <3>1, <3>2
    <2>4. TitleInv(m)' BY <2>1, <2>2, <2>3 DEF TitleInv, Shown, names
    <2>5. StepTo(c) /\ task'[c].n \in {m, Other} BY <1>1, <1>i DEF GoesTo, Ends
    <2>6. \A n \in Names \ {m} :
            /\ pending'[n] = pending[n] /\ file'[n] = file[n] /\ named'[n] = named[n]
            /\ (n \in dirs' <=> n \in dirs) /\ (n \in torn' <=> n \in torn)
      BY <2>1, <1>i DEF TypeOK
    <2> QED BY <2>1, <2>2, <2>4, <2>5, <2>6, <1>i, OneTitle
  <1> QED BY <1>q, <1>r

LEMMA MaterializeTitles ==
  ASSUME Inv, TitlesInv, NEW c \in Calls, Materialize(c)
  PROVE  TitlesInv'
  <1>m. PICK m \in Names : m = task[c].n BY DEF Inv, Standing, Materialize
  <1>i. /\ TypeOK /\ m = task[c].n /\ named \in [Names -> Title] /\ TitleInv(m) /\ NameInv(m)
        /\ task[c].pc = "mkdir" /\ UNCHANGED <<pending, file, named, torn, names>>
    BY <1>m DEF Inv, TypeOK, Standing, Materialize, TitlesInv, memory, ghosts
  <1>1. CASE Ends(c) /\ dirs' = dirs
    BY <1>1, <1>i, QuietTitles DEF Ends
  <1>2. CASE GoesTo(c, "carry") /\ dirs' = dirs \cup {m}
    <2>1. \A d \in Calls : task[d].n = m => task[d].pc \notin {"carried", "save title", "forget"}
      BY <1>i DEF NameInv, OneSend, SendSteps, NameSteps
    <2>2. TitleInv(m)'
      BY <1>2, <1>i, <2>1
        DEF TitleInv, Shown, Bears, Carrying, GoesTo, StepTo, Listed, Reserved, names
    <2> QED BY <1>2, <2>2, <1>i, OneTitle DEF GoesTo
  <1> QED BY <1>m, <1>1, <1>2, MaterializeGoes

LEMMA CarryTitles ==
  ASSUME Inv, TitlesInv, NEW c \in Calls, Carry(c)
  PROVE  TitlesInv'
  <1>m. PICK m \in Names : m = task[c].n BY DEF Inv, Standing, Carry
  <1>i. /\ TypeOK /\ m = task[c].n /\ named \in [Names -> Title] /\ TitleInv(m) /\ NameInv(m)
        /\ task[c].pc = "carry" /\ UNCHANGED <<dirs, file, named, torn, names>>
        /\ pending' = [pending EXCEPT ![m] = Free]
    BY <1>m DEF Inv, TypeOK, Standing, Carry, TitlesInv, disk, ghosts
  <1>1. /\ StepTo(c) /\ task'[c].n = m
        /\ \/ task'[c].pc = "forget" /\ pending[m] \notin Titles
           \/ task'[c].pc = "carried"
    BY <1>m, CarryGoes
  <1>2. \A d \in Calls : d # c /\ task[d].n = m => task[d].pc \notin SendSteps
    BY <1>i DEF NameInv, OneSend, SendSteps, NameSteps
  <1>3. pending'[m] = Free BY <1>i DEF TypeOK
  <1>4. ~Carrying(m) BY <1>2, <1>i DEF Carrying, SendSteps, NameSteps
  <1>5. Shown(m)' \/ m \in reused
    <2>1. CASE task'[c].pc = "carried" BY <2>1, <1>1 DEF Carrying, Shown
    <2>2. CASE pending[m] \notin Titles
      BY <2>2, <1>i, <1>3, <1>4 DEF TitleInv, Shown, Listed, Reserved
    <2> QED BY <2>1, <2>2, <1>1
  <1>6. \A d \in Calls : Bears(d, m)'
    BY <1>1, <1>2, <1>3 DEF Bears, StepTo, SendSteps, NameSteps
  <1>7. TitleInv(m)' BY <1>i, <1>5, <1>6 DEF TitleInv, names
  <1> QED BY <1>i, <1>1, <1>7, OneTitle DEF TypeOK

LEMMA CarriedTitles ==
  ASSUME Inv, TitlesInv, NEW c \in Calls, Carried(c)
  PROVE  TitlesInv'
  <1>m. PICK m \in Names : m = task[c].n BY DEF Inv, Standing, Carried
  <1>i. /\ TypeOK /\ m = task[c].n /\ named \in [Names -> Title] /\ TitleInv(m) /\ NameInv(m)
        /\ task[c].pc = "carried" /\ task[c].text \in Titles
        /\ UNCHANGED <<dirs, file, named, torn, names>>
    BY <1>m DEF Inv, TypeOK, Standing, Carried, TitlesInv, disk, ghosts
  <1>1. \A d \in Calls : d # c /\ task[d].n = m => task[d].pc \notin SendSteps
    BY <1>i DEF NameInv, OneSend, SendSteps, NameSteps
  <1>2. CASE Goto(c, "forget") /\ m \notin dirs /\ pending' = [pending EXCEPT ![m] = task[c].text]
    <2>1. GoesTo(c, "forget") BY <1>2, <1>i, GotoStep, StepNames
    <2>2. TitleInv(m)'
      BY <1>i, <1>1, <1>2, <2>1
        DEF TitleInv, Shown, Bears, TypeOK, GoesTo, StepTo, SendSteps, NameSteps, names
    <2> QED BY <1>2, <1>i, <2>1, <2>2, OneTitle DEF GoesTo, TypeOK
  <1>3. CASE Read(c, "save title") /\ pending' = pending
    <2>1. Takes(c, "save title", file[m]) BY <1>3, <1>i, ReadStep, StepNames
    <2>2. Carrying(m)' BY <2>1, <1>i DEF Carrying, Takes
    <2>3. TitleInv(m)'
      BY <1>i, <1>1, <1>3, <2>1, <2>2
        DEF TitleInv, Shown, Bears, Takes, StepTo, SendSteps, NameSteps, names
    <2> QED BY <1>3, <1>i, <2>1, <2>3, OneTitle DEF Takes
  <1> QED BY <1>m, <1>2, <1>3 DEF Carried

LEMMA ForgetTitles ==
  ASSUME Inv, TitlesInv, NEW c \in Calls, Forget(c)
  PROVE  TitlesInv'
  <1>m. PICK m \in Names : m = task[c].n BY DEF Inv, Standing, Forget
  <1>i. /\ TypeOK /\ m = task[c].n /\ named \in [Names -> Title] /\ TitleInv(m) /\ NameInv(m)
        /\ task[c].pc = "forget" /\ UNCHANGED <<dirs, file, named, torn, names>>
        /\ pending' = [pending EXCEPT ![m] = Free]
    BY <1>m DEF Inv, TypeOK, Standing, Forget, TitlesInv, disk, ghosts
  <1>1. GoesTo(c, "start") BY GotoStep, StepNames DEF Forget, Inv
  <1>2. \A d \in Calls : d # c /\ task[d].n = m => task[d].pc \notin SendSteps
    BY <1>i DEF NameInv, OneSend, SendSteps, NameSteps
  <1>3. pending'[m] = Free /\ ~Carrying(m)
    BY <1>i, <1>2 DEF TypeOK, Carrying, SendSteps, NameSteps
  <1>4. TitleInv(m)'
    BY <1>i, <1>1, <1>2, <1>3
      DEF TitleInv, Shown, Bears, GoesTo, StepTo, SendSteps, NameSteps, Listed, Reserved, names
  <1> QED BY <1>i, <1>1, <1>4, OneTitle DEF GoesTo, TypeOK

LEMMA SendTitles ==
  ASSUME Inv, TitlesInv, NEW c \in Calls, NEW m \in Names, NEW title \in Title, Send(c, m, title)
  PROVE  TitlesInv'
  <1>i. /\ TypeOK /\ named \in [Names -> Title] /\ TitleInv(m) /\ NameInv(m)
        /\ m \in Listed /\ ~Sending(m) /\ UNCHANGED <<dirs, torn, names>>
    BY DEF Inv, Send, TitlesInv
  <1>1. Begins(c, "check", m) BY BeginStep, StepNames DEF Send, Inv, Title
  <1>2. \A d \in Calls : task[d].n = m => task[d].pc \notin SendSteps BY <1>i DEF Sending
  <1>3. m \in Listed' /\ named' \in [Names -> Title]
    BY <1>i, ScopingDraftsAssumption DEF Send, TypeOK, Listed, Reserved, Title
  <1>4. \/ file'[m] = file[m] /\ pending'[m] = pending[m] /\ named'[m] = named[m]
        \/ /\ named'[m] = title
           /\ m \in dirs => file'[m].title = title
           /\ m \notin dirs => pending'[m] = title /\ file'[m] = file[m]
    BY <1>i DEF Send, TypeOK, FileState
  <1>5. ~Carrying(m) /\ ~Carrying(m)'
    BY <1>1, <1>2, NamesAssumption DEF Carrying, Begins, StepTo, SendSteps, NameSteps
  <1>6. Shown(m)' \/ m \in reused
    BY <1>i, <1>4, <1>5 DEF TitleInv, Shown, Title
  <1>7. \A d \in Calls : Bears(d, m)'
    BY <1>1, <1>2, <1>3 DEF Bears, Begins, StepTo, SendSteps, NameSteps
  <1>8. m \in used
    BY <1>i DEF NameInv, Unused, Listed, Reserved
  <1>9. TitleInv(m)' BY <1>i, <1>4, <1>6, <1>7, <1>8 DEF TitleInv, names
  <1>10. \A n \in Names \ {m} :
           pending'[n] = pending[n] /\ file'[n] = file[n] /\ named'[n] = named[n]
    BY <1>i DEF Send, TypeOK
  <1> QED BY <1>i, <1>1, <1>3, <1>9, <1>10, OneTitle DEF Begins

\* A write replaces the title by that of its copy, which is the one on disk
\* unless the file is torn, or by a title.
LEMMA StoredTitle ==
  ASSUME Inv, NEW c \in Calls, Store(c), NEW m \in Names, m = task[c].n
  PROVE  /\ task[c].pc = "save title" /\ task[c].copy.title = NoTitle /\ m \in dirs
              => file'[m].title \in Titles
         /\ \/ file'[m].title = file[m].title
            \/ m \in torn'
            \/ task[c].pc = "save title" /\ file'[m].title \in Titles
         /\ (m \notin dirs => file' = file) /\ (m \in torn => m \in torn')
         /\ \A n \in Names \ {m} : file'[n] = file[n] /\ (n \in torn' <=> n \in torn)
  <1>1. /\ task[c].copy \in FileState /\ file \in [Names -> FileState]
        /\ task[c].pc = "save title" => task[c].text \in Titles
    BY DEF Inv, TypeOK, CallRec, Standing
  <1>2. PICK copy \in FileState : copy = task[c].copy BY <1>1
  <1>3. CASE task[c].pc = "save title" /\ copy.title = NoTitle /\ m \in dirs
    <2>1. file' = [file EXCEPT ![m] = [copy EXCEPT !.title = task[c].text]]
      BY <1>2, <1>3 DEF Store
    <2>2. file'[m].title = task[c].text BY <2>1, <1>1 DEF FileState
    <2> QED BY <1>1, <1>2, <1>3, <2>1, <2>2 DEF Store
  <1>4. CASE task[c].pc # "save title" /\ m \in dirs
    <2>1. copy = file[m] \/ m \in torn' BY <1>2, <1>4 DEF Store
    <2>2. \/ file' = [file EXCEPT ![m] = [copy EXCEPT !.prompted = TRUE]]
          \/ file' = [file EXCEPT ![m] = copy]
      BY <1>2, <1>4 DEF Store
    <2>3. file'[m].title = copy.title BY <2>2, <1>1 DEF FileState
    <2> QED BY <1>1, <1>4, <2>1, <2>2, <2>3 DEF Store
  <1>5. CASE m \notin dirs \/ (task[c].pc = "save title" /\ copy.title # NoTitle)
    <2>1. file' = file /\ torn' = torn BY <1>2, <1>5 DEF Store
    <2> QED BY <1>2, <1>5, <2>1
  <1> QED BY <1>3, <1>4, <1>5

LEMMA StoreTitles ==
  ASSUME Inv, TitlesInv, NEW c \in Calls, Store(c)
  PROVE  TitlesInv'
  <1>m. PICK m \in Names : m = task[c].n BY DEF Inv, Standing, Store
  <1>i. /\ TypeOK /\ m = task[c].n /\ named \in [Names -> Title] /\ TitleInv(m)
        /\ UNCHANGED <<pending, dirs, named, names>>
    BY <1>m DEF Inv, Store, TitlesInv, memory
  <1>1. \/ task[c].pc = "save title" /\ GoesTo(c, "forget")
        \/ task[c].pc = "save id" /\ GoesTo(c, "mark")
        \/ task[c].pc = "save flag" /\ GoesTo(c, "turn")
        \/ task[c].pc = "save mode" /\ Ends(c)
    BY StoreGoes
  <1>2. NoTitle \notin Titles BY ScopingDraftsAssumption
  <1>3. /\ task[c].pc = "save title" /\ task[c].copy.title = NoTitle /\ m \in dirs
             => file'[m].title \in Titles
        /\ \/ file'[m].title = file[m].title
           \/ m \in torn'
           \/ task[c].pc = "save title" /\ file'[m].title \in Titles
        /\ (m \notin dirs => file' = file) /\ (m \in torn => m \in torn')
        /\ \A n \in Names \ {m} : file'[n] = file[n] /\ (n \in torn' <=> n \in torn)
    BY <1>m, StoredTitle
  <1>4. ASSUME m \notin reused PROVE Shown(m)'
    <2>1. SUFFICES ASSUME m \in Listed, m \notin torn', named[m] # NoTitle, ~Carrying(m)'
                   PROVE  file'[m].title # NoTitle \/ pending[m] \in Titles
      BY <1>i DEF Shown, Listed, Reserved
    <2>2. CASE task[c].pc = "save title"
      <3>1. Bears(c, m) BY <1>4, <1>i DEF TitleInv
      <3>2. m \in dirs BY <2>1, <2>2, <3>1, <1>i DEF Bears, Listed, Reserved
      <3>3. CASE task[c].copy.title = NoTitle BY <3>3, <3>2, <2>2, <1>3, <1>2
      <3>4. CASE task[c].copy.title # NoTitle
        BY <3>4, <3>1, <2>1, <2>2, <1>i, <1>3, <1>2 DEF Bears
      <3> QED BY <3>3, <3>4
    <2>3. CASE task[c].pc # "save title"
      <3>1. \A d \in Calls : d # c => task'[d] = task[d]
        BY <1>1 DEF GoesTo, Ends, StepTo
      <3>2. task[c].pc \notin {"carried", "save title"} BY <2>3, <1>1
      <3>3. ~Carrying(m) BY <2>1, <3>1, <3>2 DEF Carrying
      <3> QED BY <1>4, <2>1, <2>3, <3>3, <1>i, <1>3 DEF TitleInv, Shown
    <2> QED BY <2>2, <2>3
  <1>5. ASSUME NEW d \in Calls, m \notin reused PROVE Bears(d, m)'
    <2>1. Bears(d, m) /\ Bears(c, m) BY <1>i, <1>5 DEF TitleInv
    <2>2. CASE d = c
      BY <2>1, <2>2, <1>i, <1>1, NamesAssumption DEF Bears, GoesTo, Ends
    <2>3. CASE d # c
      <3>1. task'[d] = task[d] BY <2>3, <1>1 DEF GoesTo, Ends, StepTo
      <3> QED BY <2>1, <3>1, <1>i, <1>3, <1>2 DEF Bears, Listed, Reserved
    <2> QED BY <2>2, <2>3
  <1>6. TitleInv(m)' BY <1>i, <1>3, <1>4, <1>5 DEF TitleInv, names
  <1>7. StepTo(c) /\ task'[c].n \in {m, Other} BY <1>1, <1>i DEF GoesTo, Ends
  <1> QED BY <1>i, <1>3, <1>6, <1>7, OneTitle

\* The commands that only begin.
LEMMA CommandTitles ==
  ASSUME Inv, TitlesInv, NEW c \in Calls, Command(c)
  PROVE  TitlesInv'
  <1>1. CASE \E m \in Names, title \in Title : Send(c, m, title)
    BY <1>1, SendTitles
  <1>2. ASSUME NEW pc \in {"create", "select", "cancel", "execute", "mode"},
               NEW m \in Names \cup {Other}, NEW text \in Title \cup {NoDraft},
               Begin(c, pc, m, text), UNCHANGED <<memory, disk, ghosts, names>>
        PROVE  TitlesInv'
    <2>1. Begins(c, pc, m) BY <1>2, BeginStep, StepNames DEF Inv
    <2>2. task[c].pc = "idle" BY <1>2 DEF Begin, Idle
    <2> QED BY <1>2, <2>1, <2>2, QuietTitles DEF Begins, memory, disk, ghosts
  <1> QED BY <1>1, <1>2
        DEF Command, Create, Select, Cancel, Execute, SetMode

\* The agent and the clock.
LEMMA QuietStep ==
  ASSUME Inv, TitlesInv,
         UNCHANGED <<pending, dirs, file, named, torn, task, names>>
  PROVE  TitlesInv'
  <1>1. SUFFICES ASSUME NEW n \in Names PROVE TitleInv(n)' BY DEF TitlesInv
  <1>2. TitleInv(n) BY DEF TitlesInv
  <1> QED BY <1>2 DEF TitleInv, Shown, Bears, Carrying, Listed, Reserved, names

\* Opening shows what the disk has; what is in flight goes on, or is gone.
LEMMA OpenTitles ==
  ASSUME Inv, TitlesInv, NEW restart \in BOOLEAN, Open(restart)
  PROVE  TitlesInv'
  <1> DEFINE none == [n \in Names |-> Free]
  <1>1. /\ UNCHANGED <<dirs, file, torn>> /\ named' = [n \in Names |-> file[n].title]
        /\ \/ pending' = none /\ UNCHANGED names
           \/ Reserve(none)
        /\ \A c \in Calls : task'[c] = task[c] \/ task'[c] = Idle
    BY DEF Open, disk
  <1>2. named' \in [Names -> Title]
    BY <1>1 DEF Inv, TypeOK, FileState
  <1>3. SUFFICES ASSUME NEW n \in Names PROVE TitleInv(n)' BY <1>2 DEF TitlesInv
  <1>4. TitleInv(n) /\ NameInv(n) BY DEF TitlesInv, Inv
  <1>5. named'[n] = file'[n].title BY <1>1
  <1>6. Idle.n # n BY NamesAssumption DEF Idle
  <1>7. \/ n \in reused'
        \/ pending'[n] = Free
        \/ n \notin used
    BY <1>1, ReserveStep DEF Anew, names
  <1>8. n \notin used => file[n].title = NoTitle BY <1>4 DEF TitleInv, NameInv, Unused
  <1>9. n \notin used' => n \notin used BY <1>1, ReserveStep DEF Anew, names
  <1>10. n \notin reused' => n \notin reused BY <1>1, ReserveStep DEF Anew, names
  <1>11. ASSUME NEW c \in Calls, n \notin reused' PROVE Bears(c, n)'
    <2>1. CASE n \in used
      BY <2>1, <1>11, <1>1, <1>4, <1>5, <1>6, <1>7, <1>10 DEF Bears, TitleInv, Listed, Reserved
    <2>2. CASE n \notin used
      BY <2>2, <1>1, <1>4, <1>6 DEF NameInv, Unused, Bears
    <2> QED BY <2>1, <2>2
  <1> QED BY <1>1, <1>4, <1>5, <1>8, <1>9, <1>11 DEF TitleInv, Shown

LEMMA TitlesHold == Spec => []TitlesInv
  <1>1. Init => TitlesInv
    <2> SUFFICES ASSUME Init PROVE TitlesInv OBVIOUS
    <2>1. named \in [Names -> Title] BY DEF Init, Title
    <2>2. ASSUME NEW n \in Names PROVE TitleInv(n)
      <3>1. Idle.n # n BY NamesAssumption DEF Idle
      <3> QED BY <3>1 DEF Init, TitleInv, Shown, Bears, Blank
    <2> QED BY <2>1, <2>2 DEF TitlesInv
  <1>2. Inv /\ TitlesInv /\ [Next]_vars => TitlesInv'
    <2> SUFFICES ASSUME Inv, TitlesInv, [Next]_vars PROVE TitlesInv' OBVIOUS
    <2>1. ASSUME NEW restart \in BOOLEAN, Open(restart) PROVE TitlesInv' BY <2>1, OpenTitles
    <2>2. ASSUME NEW c \in Calls, Command(c) PROVE TitlesInv' BY <2>2, CommandTitles
    <2>3. ASSUME NEW c \in Calls, Step(c) PROVE TitlesInv'
      BY <2>3, CreateNewTitles, SelectKeyTitles, CancelEmptyTitles, OtherTitles, MoveTitles,
          MaterializeTitles, CarryTitles, CarriedTitles, ForgetTitles, StoreTitles DEF Step
    <2>4. ASSUME Tick \/ \E n \in Names : WritePlan(n) \/ EndTurn(n) PROVE TitlesInv'
      BY <2>4, QuietStep DEF Tick, WritePlan, EndTurn, memory, disk, ghosts
    <2>5. CASE UNCHANGED vars
      BY <2>5, QuietStep DEF vars, memory, disk, ghosts
    <2> QED BY <2>1, <2>2, <2>3, <2>4, <2>5 DEF Next
  <1> QED BY <1>1, <1>2, InitInv, NextInv, PTL DEF Spec

\* A title the user was shown stays (send_prompt, carry_pending_title,
\* keep_or_vanish_empty): however prompts, drafts, moves and restarts meet, a
\* listed plan is not shown without the title it was last given.
THEOREM TitlesAreKept == Spec => []TitlesSurvive
  <1>1. Inv /\ TitlesInv => TitlesSurvive
    <2> SUFFICES ASSUME Inv, TitlesInv, NEW n \in (Listed \ torn) \ reused,
                        named[n] # NoTitle, ~Carrying(n)
                 PROVE  file[n].title # NoTitle \/ pending[n] \in Titles
      BY DEF TitlesSurvive
    <2>1. n \in Names BY DEF Inv, TypeOK, Listed, Reserved
    <2> QED BY <2>1 DEF TitlesInv, TitleInv, Shown
  <1> QED BY <1>1, InvHolds, TitlesHold, PTL

=============================================================================
