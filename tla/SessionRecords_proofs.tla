------------------------ MODULE SessionRecords_proofs ------------------------
(***************************************************************************)
(* What SessionRecords keeps true for any roles, phases, threads and       *)
(* bounds.  The core is `Inv': a copy that nothing has outdated is what    *)
(* the file holds now, wherever the plan has moved in between.             *)
(***************************************************************************)
EXTENDS SessionRecords, SequenceTheorems, TLAPS

Sets == [field : Fields, value : Nat]
File == [is : Kinds, of : PlanState]

\* The ids in a state, or among the fields a thread will set, belong.
Ids(s)     == \A r \in Roles : Belongs(s[Id(r)], r)
Bound(todo) == \A i \in DOMAIN todo, r \in Roles :
                 todo[i].field = Id(r) => Belongs(todo[i].value, r)

Recovers(t) == t.pc = "recover" => Head(t.todo).field[1] = "id"

\* A state has, in the fields no race touched, what was written last.
Agrees(s) == \A f \in Fields \ raced : s[f] = want[f]

\* A record of a thread about to read, or holding a copy nothing outdated.
Current(t) == t.pc \in {"recover", "store"} =>
  t.stale \/ \E p \in Places : Sound(p) /\ t.copy = files[p].of

Filling(t) == t.pc = "fill" =>
  /\ t.dir \in Places
  /\ t.stale \/ (files[t.dir].is = "empty" /\ Agrees(t.copy))

Belonging ==
  /\ \A p \in Reached : Ids(files[p].of)
  /\ \A k \in Tasks : Ids(task[k].copy) /\ Bound(task[k].todo) /\ Recovers(task[k])
  /\ \A r \in Roles : Belongs(live[r], r)

Recorded ==
  /\ \A k \in Tasks : Current(task[k]) /\ Filling(task[k])
  /\ \A p \in Places : Sound(p) => Agrees(files[p].of)
  /\ \A p \in Places : ~Sound(p) => raced = Fields \/ \E k \in Tasks : At(k, "fill")
  /\ Places = {} => want = Default

Inv == TypeOK /\ OnePlace /\ Belonging /\ Recorded

-----------------------------------------------------------------------------
(* Fields, sequences and states *)

\* The id fields: one per role, and none of the other fields.
LEMMA IdFields ==
  /\ \A r \in Roles : Id(r) \in Fields /\ Id(r)[1] = "id" /\ Id(r)[2] = r
  /\ \A f \in Fields : f[1] = "id" => \E r \in Roles : f = Id(r)
  /\ Manual \in Fields /\ Prompted \in Fields /\ Entered \in Fields
  /\ \A r \in Roles : Cost(r) \in Fields
  /\ \A r \in Roles : Id(r) # Manual /\ Id(r) # Prompted /\ Id(r) # Entered
  /\ \A r, q \in Roles : Id(r) # Cost(q)
  <1>1. \A r \in Roles : Id(r) \in Fields /\ Id(r)[1] = "id" /\ Id(r)[2] = r
    BY DEF Fields, Id
  <1>2. \A f \in Fields : f[1] = "id" => \E r \in Roles : f = Id(r)
    BY DEF Fields, Id, Cost, Manual, Prompted, Entered
  <1>3. /\ Manual \in Fields /\ Prompted \in Fields /\ Entered \in Fields
        /\ \A r \in Roles : Cost(r) \in Fields
    BY DEF Fields
  <1>4. \A r \in Roles : Id(r) # Manual /\ Id(r) # Prompted /\ Id(r) # Entered
    BY DEF Id, Manual, Prompted, Entered
  <1>5. \A r, q \in Roles : Id(r) # Cost(q)
    BY DEF Id, Cost
  <1> QED BY <1>1, <1>2, <1>3, <1>4, <1>5

\* Two different id fields are of two roles.
LEMMA IdOne == \A r, q \in Roles : Id(r) = Id(q) => r = q
  BY DEF Id

\* The state before anything is written: it names no session.
LEMMA DefaultType == Default \in PlanState /\ Ids(Default)
  BY IdFields DEF Default, PlanState, Ids, Belongs

\* A thread at rest.
LEMMA IdleType == /\ Idle \in TaskRec /\ Idle.pc = "idle" /\ Idle.copy = Default
                  /\ Idle.todo = <<>> /\ Idle.dir = "scoping" /\ ~Idle.stale
  BY DefaultType, SessionRecordsAssumption DEF Idle, TaskRec

\* What is left to do after the first field.
LEMMA TailType ==
  ASSUME NEW todo \in Seq(Sets), todo # <<>>
  PROVE  /\ Head(todo) \in Sets /\ Tail(todo) \in Seq(Sets)
         /\ Len(todo) > 1 => Tail(todo) # <<>>
         /\ Bound(todo) => Bound(Tail(todo))
         /\ \A r \in Roles : Bound(todo) /\ Head(todo).field = Id(r)
              => Belongs(Head(todo).value, r)
  <1>1. Head(todo) \in Sets /\ Tail(todo) \in Seq(Sets) /\ Head(todo) = todo[1]
        /\ Len(Tail(todo)) = Len(todo) - 1 /\ Len(todo) \in Nat \ {0}
    OBVIOUS
  <1>2. \A i \in DOMAIN Tail(todo) : i + 1 \in DOMAIN todo /\ Tail(todo)[i] = todo[i + 1]
    OBVIOUS
  <1>3. 1 \in DOMAIN todo
    BY <1>1
  <1>4. Len(todo) > 1 => Tail(todo) # <<>>
    <2>1. Len(<<>>) = 0
      BY EmptySeq
    <2>2. Tail(todo) = <<>> => Len(Tail(todo)) = 0
      BY <2>1, Zenon
    <2> QED BY <1>1, <2>2
  <1> QED BY <1>1, <1>2, <1>3, <1>4 DEF Bound

\* A session's id stays that session's while others are listed behind it.
LEMMA BelongsStays ==
  ASSUME listed \in Seq(Session), NEW e \in Session,
         listed' = listed \/ listed' = Append(listed, e),
         NEW i, NEW r, Belongs(i, r)
  PROVE  Belongs(i, r)'
  <1>1. /\ DOMAIN listed = 1..Len(listed) /\ DOMAIN Append(listed, e) = 1..Len(listed) + 1
        /\ \A n \in 1..Len(listed) : Append(listed, e)[n] = listed[n]
    OBVIOUS
  <1> QED BY <1>1 DEF Belongs
\* The fields an operation sets, one, two or three of them.
LEMMA TodoType ==
  ASSUME NEW a \in Sets, NEW b \in Sets, NEW c \in Sets
  PROVE  /\ <<a>> \in Seq(Sets) /\ <<a, b>> \in Seq(Sets) /\ <<a, b, c>> \in Seq(Sets)
         /\ <<a>> # <<>> /\ <<a, b>> # <<>> /\ <<a, b, c>> # <<>>
         /\ Head(<<a>>) = a
         /\ DOMAIN <<a>> = {1} /\ DOMAIN <<a, b>> = {1, 2} /\ DOMAIN <<a, b, c>> = {1, 2, 3}
  <1>1. <<a>> \in Seq(Sets) /\ <<a>> # <<>> /\ Head(<<a>>) = a /\ DOMAIN <<a>> = {1}
    OBVIOUS
  <1>2. <<a, b>> \in Seq(Sets) /\ <<a, b>> # <<>> /\ DOMAIN <<a, b>> = {1, 2}
    OBVIOUS
  <1>3. <<a, b, c>> \in Seq(Sets) /\ <<a, b, c>> # <<>> /\ DOMAIN <<a, b, c>> = {1, 2, 3}
    OBVIOUS
  <1> QED BY <1>1, <1>2, <1>3

\* The fields an operation sets, as a record of its own.
LEMMA SetType ==
  ASSUME NEW f \in Fields, NEW v \in Nat
  PROVE  Set(f, v) \in Sets /\ Set(f, v).field = f /\ Set(f, v).value = v
  BY DEF Set, Sets

\* What a thread turns to holds no copy.
LEMMA RestType ==
  ASSUME Inv, NEW k \in Tasks, ~At(k, "idle")
  PROVE  /\ Rest(k) \in TaskRec /\ Rest(k).pc \in {"idle", "locate"}
         /\ Rest(k).pc # "idle" => Rest(k).todo # <<>>
         /\ Rest(k).copy = Default /\ Bound(Rest(k).todo)
  <1>1. task[k] \in TaskRec /\ task[k].todo \in Seq(Sets) /\ task[k].todo # <<>>
        /\ Bound(task[k].todo)
    BY DEF Inv, TypeOK, Belonging, TaskRec, Sets
  <1> DEFINE rest == Tail(task[k].todo)
             u == [Idle EXCEPT !.pc = "locate", !.todo = rest, !.name = task[k].name]
  <1>2. rest \in Seq(Sets) /\ Bound(rest) /\ (Len(task[k].todo) > 1 => rest # <<>>)
    BY <1>1, TailType
  <1>3. Rest(k) = IF Len(task[k].todo) > 1 THEN u ELSE Idle
    BY DEF Rest
  <1> HIDE DEF rest
  <1>4. u \in TaskRec /\ u.pc = "locate" /\ u.todo = rest /\ u.copy = Default
    BY <1>1, <1>2, IdleType DEF TaskRec, Sets
  <1>5. Bound(<<>>)
    BY DEF Bound
  <1> HIDE DEF u
  <1> QED BY <1>2, <1>3, <1>4, <1>5, IdleType

-----------------------------------------------------------------------------
(* Steps that leave the file and the history alone *)

LEMMA Quiet ==
  ASSUME Inv, NEW k \in Tasks, ~At(k, "fill"), NEW u \in TaskRec,
         task' = [task EXCEPT ![k] = u],
         u.pc # "idle" => u.todo # <<>>, u.pc # "fill",
         Current(u), Recovers(u), Ids(u.copy), Bound(u.todo)',
         UNCHANGED <<disk, history>>, ops' \in Nat, crashes' \in Nat,
         listed' \in Seq(Session), live' \in [Roles -> Nat],
         \A i, r : Belongs(i, r) => Belongs(i, r)',
         \A r \in Roles : Belongs(live[r], r)'
  PROVE  Inv'
  <1> USE DEF disk, history
  <1>1. task' \in [Tasks -> TaskRec] /\ task'[k] = u /\ \A j \in Tasks \ {k} : task'[j] = task[j]
    BY DEF Inv, TypeOK
  <1>2. TypeOK'
    BY <1>1 DEF Inv, TypeOK, At
  <1>3. OnePlace' /\ Places' = Places
    BY DEF Inv, OnePlace, Places
  <1>4. Belonging'
    <2>1. \A s : Ids(s) => Ids(s)'
      BY DEF Ids
    <2>2. \A todo : Bound(todo) => Bound(todo)'
      BY DEF Bound
    <2> QED BY <1>1, <2>1, <2>2 DEF Inv, Belonging, Recovers
  <1>5. Recorded'
    <2>1. \A t : (Current(t) => Current(t)') /\ (Filling(t) => Filling(t)')
      BY <1>3 DEF Current, Filling, Sound, Agrees
    <2>2. \A j \in Tasks : At(j, "fill") => At(j, "fill")'
      BY <1>1 DEF At
    <2>3. Filling(u)
      BY DEF Filling
    <2>4. \A j \in Tasks : Current(task[j])' /\ Filling(task[j])'
      BY <1>1, <2>1, <2>3 DEF Inv, Recorded
    <2> QED BY <1>3, <2>2, <2>4 DEF Inv, Recorded, Sound, Agrees
  <1> QED BY <1>2, <1>3, <1>4, <1>5 DEF Inv

\* An operation that begins.
LEMMA BeginStep ==
  ASSUME Inv, NEW k \in Tasks, NEW todo \in Seq(Sets), Begin(k, todo),
         todo # <<>>, Bound(todo)', UNCHANGED <<disk, history, crashes>>,
         listed' \in Seq(Session), live' \in [Roles -> Nat],
         \A i, r : Belongs(i, r) => Belongs(i, r)',
         \A r \in Roles : Belongs(live[r], r)'
  PROVE  Inv'
  <1>1. PICK name \in {FALSE, slugged} :
          task' = [task EXCEPT ![k] = [Idle EXCEPT !.pc = "locate", !.todo = todo,
                                                   !.name = name]]
    BY DEF Begin
  <1> DEFINE u == [Idle EXCEPT !.pc = "locate", !.todo = todo, !.name = name]
  <1>2. name \in BOOLEAN
    BY DEF Inv, TypeOK
  <1>3. u \in TaskRec /\ u.pc = "locate" /\ u.todo = todo /\ u.copy = Default
    BY <1>2, IdleType DEF TaskRec, Sets
  <1>4. task' = [task EXCEPT ![k] = u]
    BY <1>1
  <1> HIDE DEF u
  <1>5. ~At(k, "fill") /\ ops' \in Nat /\ crashes' \in Nat
    BY DEF Begin, At, Inv, TypeOK
  <1> QED BY <1>3, <1>4, <1>5, DefaultType, Quiet DEF Current, Recovers

\* A thread that turns to its next field.
LEMMA ProceedStep ==
  ASSUME Inv, NEW k \in Tasks, ~At(k, "idle"), ~At(k, "fill"), Proceed(k),
         UNCHANGED <<disk, agents, history, ops, crashes>>
  PROVE  Inv'
  <1>1. task' = [task EXCEPT ![k] = Rest(k)] /\ Rest(k) \in TaskRec
        /\ Rest(k).pc \in {"idle", "locate"} /\ (Rest(k).pc # "idle" => Rest(k).todo # <<>>)
        /\ Ids(Rest(k).copy) /\ Bound(Rest(k).todo)
    BY RestType, DefaultType DEF Proceed
  <1>2. PICK w : w = Rest(k)
    OBVIOUS
  <1>3. /\ \A i, r : Belongs(i, r) => Belongs(i, r)'
        /\ \A todo : Bound(todo) => Bound(todo)'
    BY DEF Belongs, Bound, agents
  <1>4. /\ ops' \in Nat /\ crashes' \in Nat /\ listed' \in Seq(Session)
        /\ live' \in [Roles -> Nat] /\ \A r \in Roles : Belongs(live[r], r)'
    BY <1>3 DEF Inv, TypeOK, agents, Belonging
  <1>5. Current(w) /\ Recovers(w) /\ Bound(w.todo)'
    BY <1>1, <1>2, <1>3 DEF Current, Recovers
  <1> QED BY <1>1, <1>2, <1>4, <1>3, <1>5, Quiet
\* Nothing that lists sessions or sets live ones.
LEMMA AgentsStay ==
  ASSUME Inv, UNCHANGED agents
  PROVE  /\ listed' \in Seq(Session) /\ live' \in [Roles -> Nat]
         /\ \A i, r : Belongs(i, r) => Belongs(i, r)'
         /\ \A todo : Bound(todo) => Bound(todo)'
         /\ \A s : Ids(s) => Ids(s)'
         /\ \A r \in Roles : Belongs(live[r], r)'
  BY DEF Inv, TypeOK, Belonging, agents, Belongs, Bound, Ids

LEMMA SpawnStep ==
  ASSUME Inv, NEW k \in Tasks, NEW r \in Roles, Spawn(k, r)
  PROVE  Inv'
  <1>0. PICK n : n = Len(listed) + 1
    OBVIOUS
  <1> DEFINE e == [agent |-> r, dir |-> Cwd(r)]
             todo == <<Set(Id(r), n)>>
  <1>1. listed \in Seq(Session) /\ n \in Nat /\ live \in [Roles -> Nat]
    BY <1>0 DEF Inv, TypeOK
  <1>2. e \in Session /\ e.agent = r /\ e.dir = Cwd(r)
    BY SessionRecordsAssumption DEF Session, Cwd
  <1>3. listed' = Append(listed, e) /\ live' = [live EXCEPT ![r] = n] /\ Begin(k, todo)
        /\ UNCHANGED <<disk, history, crashes>>
    BY <1>0 DEF Spawn
  <1> HIDE DEF e
  <1>4. listed' \in Seq(Session) /\ n \in DOMAIN listed' /\ listed'[n] = e
    BY <1>0, <1>1, <1>2, <1>3
  <1>5. Belongs(n, r)'
    BY <1>2, <1>4 DEF Belongs
  <1>6. \A i, q : Belongs(i, q) => Belongs(i, q)'
    BY <1>1, <1>2, <1>3, BelongsStays
  <1>7. live' \in [Roles -> Nat] /\ \A q \in Roles : Belongs(live[q], q)'
    BY <1>1, <1>3, <1>5, <1>6 DEF Inv, Belonging
  <1>8. /\ Set(Id(r), n) \in Sets /\ Set(Id(r), n).field = Id(r) /\ Set(Id(r), n).value = n
    BY <1>1, IdFields, SetType
  <1>9. todo \in Seq(Sets) /\ todo # <<>> /\ DOMAIN todo = {1} /\ todo[1] = Set(Id(r), n)
    BY <1>8, TodoType
  <1> HIDE DEF todo
  <1>10. Bound(todo)'
    BY <1>5, <1>8, <1>9, IdOne DEF Bound
  <1> QED BY <1>3, <1>4, <1>6, <1>7, <1>9, <1>10, BeginStep

\* A prompt, a usage update, a change of mode and a load of the history.
LEMMA PromptStep ==
  ASSUME Inv, NEW k \in Tasks, NEW r \in Roles, Prompt(k, r)
  PROVE  Inv'
  <1>0. PICK v : v = live[r]
    OBVIOUS
  <1> DEFINE a == Set(Id(r), v)
             b == Set(Prompted, 1)
             todo == <<a, b>>
  <1>1. v \in Nat /\ Belongs(v, r)
    BY <1>0 DEF Inv, TypeOK, Belonging
  <1>2. Begin(k, todo) /\ UNCHANGED <<disk, agents, history, crashes>>
    BY <1>0 DEF Prompt
  <1>3. /\ a \in Sets /\ a.field = Id(r) /\ a.value = v
        /\ b \in Sets /\ b.field = Prompted
    BY <1>1, IdFields, SetType
  <1> HIDE DEF a, b
  <1>4. todo \in Seq(Sets) /\ todo # <<>> /\ DOMAIN todo = {1, 2} /\ todo[1] = a /\ todo[2] = b
    BY <1>3, TodoType
  <1> HIDE DEF todo
  <1>5. Bound(todo)
    BY <1>1, <1>3, <1>4, IdFields, IdOne DEF Bound
  <1> QED BY <1>2, <1>4, <1>5, AgentsStay, BeginStep

LEMMA OneFieldStep ==
  ASSUME Inv, NEW k \in Tasks, NEW f \in Fields, NEW v \in Nat, Begin(k, <<Set(f, v)>>),
         UNCHANGED <<disk, agents, history, crashes>>,
         v = 0 \/ \A r \in Roles : f # Id(r)
  PROVE  Inv'
  <1> DEFINE a == Set(f, v)
             todo == <<a>>
  <1>1. a \in Sets /\ a.field = f /\ a.value = v
    BY SetType
  <1>2. Begin(k, todo)
    OBVIOUS
  <1> HIDE DEF a
  <1>4. todo \in Seq(Sets) /\ todo # <<>> /\ DOMAIN todo = {1} /\ todo[1] = a
    BY <1>1, TodoType
  <1> HIDE DEF todo
  <1>5. Bound(todo)
    BY <1>1, <1>4 DEF Bound, Belongs
  <1> QED BY <1>2, <1>4, <1>5, AgentsStay, BeginStep

LEMMA OneFieldSteps ==
  ASSUME Inv, NEW k \in Tasks,
         SetPlanMode(k) \/ \E r \in Roles : RecordCost(k, r) \/ LoadHistory(k, r)
  PROVE  Inv'
  <1>1. CASE SetPlanMode(k)
    <2>1. PICK v \in {0, 1} : Begin(k, <<Set(Manual, v)>>)
      BY <1>1 DEF SetPlanMode
    <2> QED BY <1>1, <2>1, IdFields, OneFieldStep DEF SetPlanMode
  <1>2. ASSUME NEW r \in Roles, RecordCost(k, r)
        PROVE  Inv'
    <2>1. PICK c \in 0..MaxCost : Begin(k, <<Set(Cost(r), c)>>)
                                   /\ UNCHANGED <<disk, agents, history, crashes>>
      BY <1>2 DEF RecordCost
    <2>2. c \in Nat
      BY SessionRecordsAssumption
    <2> QED BY <2>1, <2>2, IdFields, OneFieldStep
  <1>3. ASSUME NEW r \in Roles, LoadHistory(k, r)
        PROVE  Inv'
    BY <1>3, IdFields, OneFieldStep DEF LoadHistory
  <1> QED BY <1>1, <1>2, <1>3
-----------------------------------------------------------------------------
(* One read-modify-write *)

\* A thread that goes on, with the agents as they are.
LEMMA GoOn ==
  ASSUME Inv, NEW k \in Tasks, ~At(k, "fill"), NEW u \in TaskRec,
         task' = [task EXCEPT ![k] = u], u.todo # <<>>, u.pc # "fill",
         Current(u), Recovers(u), Ids(u.copy), Bound(u.todo),
         UNCHANGED <<disk, agents, history, ops, crashes>>
  PROVE  Inv'
  <1>1. ops' \in Nat /\ crashes' \in Nat
    BY DEF Inv, TypeOK
  <1>2. Bound(u.todo)'
    BY AgentsStay
  <1> QED BY <1>1, <1>2, AgentsStay, Quiet

LEMMA LocateStep ==
  ASSUME Inv, NEW k \in Tasks, Locate(k)
  PROVE  Inv'
  <1>1. CASE Proceed(k)
    BY <1>1, ProceedStep DEF Locate, At
  <1>2. ASSUME NEW p \in Reached, task' = [task EXCEPT ![k].pc = "load", ![k].dir = p]
        PROVE  Inv'
    <2> DEFINE u == [task[k] EXCEPT !.pc = "load", !.dir = p]
    <2>1. task[k] \in TaskRec /\ task[k].todo # <<>> /\ ~At(k, "fill")
          /\ Ids(task[k].copy) /\ Bound(task[k].todo)
      BY DEF Locate, At, Inv, TypeOK, Belonging
    <2>2. /\ u \in TaskRec /\ u.pc = "load" /\ u.todo = task[k].todo /\ u.copy = task[k].copy
          /\ task' = [task EXCEPT ![k] = u]
      BY <1>2, <2>1 DEF TaskRec, Inv, TypeOK
    <2> HIDE DEF u
    <2> QED BY <2>1, <2>2, GoOn DEF Locate, Current, Recovers
  <1> QED BY <1>1, <1>2 DEF Locate

\* A copy just taken is the file's, unless the file was torn.
LEMMA LoadedType ==
  ASSUME Inv, NEW k \in Tasks, ~At(k, "idle"), NEW pc \in {"recover", "store"}
  PROVE  LET u == [Loaded(k) EXCEPT !.pc = pc] IN
         /\ u \in TaskRec /\ u.pc = pc /\ u.todo = task[k].todo /\ u.todo # <<>>
         /\ Current(u) /\ Ids(u.copy) /\ Bound(u.todo)
  <1> DEFINE dir == task[k].dir
             u == [Loaded(k) EXCEPT !.pc = pc]
  <1>1. task[k] \in TaskRec /\ task[k].todo # <<>> /\ Bound(task[k].todo) /\ dir \in Reached
        /\ files[dir] \in File /\ Ids(files[dir].of)
    BY DEF Inv, TypeOK, At, TaskRec, File, Belonging
  <1>2. Sound(dir) \in BOOLEAN /\ LoadState(dir) = files[dir].of /\ files[dir].of \in PlanState
    BY <1>1 DEF Sound, LoadState, File
  <1>3. Sound(dir) => dir \in Places
    BY <1>1 DEF Sound, Places
  <1>4. /\ u \in TaskRec /\ u.pc = pc /\ u.todo = task[k].todo
        /\ u.copy = files[dir].of /\ u.stale = ~Sound(dir)
    BY <1>1, <1>2 DEF Loaded, TaskRec
  <1> HIDE DEF u
  <1>5. Current(u)
    BY <1>3, <1>4 DEF Current
  <1> QED BY <1>1, <1>4, <1>5 DEF u

\* A thread that finds its value in the file believes it is recorded.
LEMMA BelieveStep ==
  ASSUME Inv, NEW k \in Tasks, At(k, "load"), Sound(task[k].dir),
         LoadState(task[k].dir)[Op(k).field] = Op(k).value,
         Believe(k, Op(k).value), Proceed(k),
         UNCHANGED <<disk, agents, ops, crashes>>
  PROVE  Inv'
  <1>p. PICK dir : dir = task[k].dir
    OBVIOUS
  <1> DEFINE f == Op(k).field
             v == Op(k).value
             u == Rest(k)
  <1>0. task[k] \in TaskRec /\ task[k].todo # <<>> /\ task[k].todo \in Seq(Sets)
    BY DEF Inv, TypeOK, At, TaskRec, Sets
  <1>1. Op(k) \in Sets /\ f \in Fields /\ v \in Nat
    BY <1>0, TailType DEF Op, Sets
  <1>2. /\ u \in TaskRec /\ u.pc \in {"idle", "locate"} /\ (u.pc # "idle" => u.todo # <<>>)
        /\ Ids(u.copy) /\ Bound(u.todo)
    BY RestType, DefaultType DEF At
  <1>3. /\ task' = [task EXCEPT ![k] = u] /\ want' = [want EXCEPT ![f] = v]
        /\ raced' = raced \ {f} /\ files[dir].of[f] = v
    BY <1>p DEF Proceed, Believe, LoadState
  <1>4. dir \in Reached /\ dir \in Places /\ \A p \in Places : p = dir
    BY <1>p, <1>0 DEF TaskRec, Sound, Places, Inv, OnePlace
  <1> HIDE DEF u, f, v
  <1>5. TypeOK'
    BY <1>1, <1>2, <1>3 DEF Inv, TypeOK, disk, agents, At, PlanState
  <1>6. OnePlace' /\ Places' = Places
    BY DEF Inv, OnePlace, Places, disk
  <1>7. Belonging'
    BY <1>2, <1>3, AgentsStay DEF Inv, TypeOK, Belonging, Recovers, disk
  <1>8. Recorded'
    <2>1. Agrees(files[dir].of)'
      <3>1. Agrees(files[dir].of)
        BY <1>p, <1>4 DEF Inv, Recorded
      <3>2. files' = files /\ want' = [want EXCEPT ![f] = v] /\ want \in PlanState
        BY <1>3 DEF Inv, TypeOK, disk
      <3> QED BY <1>1, <1>3, <3>1, <3>2 DEF Agrees, PlanState
    <2>2. \A p \in Places' : Sound(p)' /\ Agrees(files[p].of)'
      BY <1>p, <1>4, <1>6, <2>1 DEF Sound, disk
    <2>3. ASSUME NEW j \in Tasks
          PROVE  Current(task[j])' /\ Filling(task[j])'
      <3>1. CASE j = k
        BY <1>2, <1>3, <3>1 DEF Current, Filling, Inv, TypeOK
      <3>2. CASE j # k
        <4>1. task'[j] = task[j] /\ Current(task[j]) /\ Filling(task[j])
          BY <1>3, <3>2 DEF Inv, TypeOK, Recorded
        <4>2. Current(task[j])'
          BY <1>6, <4>1 DEF Current, Sound, disk
        <4>3. task[j].pc = "fill" => task[j].dir \in Places /\ task[j].stale
          BY <1>p, <1>4, <4>1 DEF Filling, Sound
        <4> QED BY <1>6, <4>1, <4>2, <4>3 DEF Filling
      <3> QED BY <3>1, <3>2
    <2> QED BY <1>4, <1>6, <2>2, <2>3 DEF Recorded
  <1> QED BY <1>5, <1>6, <1>7, <1>8 DEF Inv

LEMMA LoadStep ==
  ASSUME Inv, NEW k \in Tasks, Load(k)
  PROVE  Inv'
  <1>0. At(k, "load") /\ ~At(k, "idle") /\ ~At(k, "fill")
        /\ UNCHANGED <<disk, agents, ops, crashes>>
    BY DEF Load, At
  <1>1. CASE Proceed(k) /\ UNCHANGED history
    BY <1>0, <1>1, ProceedStep
  <1>2. ASSUME NEW pc \in {"recover", "store"}, UNCHANGED history,
               task' = [task EXCEPT ![k] = [Loaded(k) EXCEPT !.pc = pc]],
               pc = "recover" => Recovering(Op(k))
        PROVE  Inv'
    <2> DEFINE u == [Loaded(k) EXCEPT !.pc = pc]
    <2>1. /\ u \in TaskRec /\ u.pc = pc /\ u.todo = task[k].todo /\ u.todo # <<>>
          /\ Current(u) /\ Ids(u.copy) /\ Bound(u.todo)
      BY <1>0, LoadedType
    <2>2. task' = [task EXCEPT ![k] = u]
      BY <1>2
    <2> HIDE DEF u
    <2>3. Recovers(u)
      BY <1>2, <2>1 DEF Recovers, Recovering, Op
    <2> QED BY <1>0, <1>2, <2>1, <2>2, <2>3, GoOn
  <1>3. CASE /\ Sound(task[k].dir) /\ Believe(k, Op(k).value) /\ Proceed(k)
             /\ LoadState(task[k].dir)[Op(k).field] = Op(k).value
    BY <1>0, <1>3, BelieveStep
  <1> QED BY <1>1, <1>2, <1>3 DEF Load, Unchanged

LEMMA RecoverStep ==
  ASSUME Inv, NEW k \in Tasks, Recover(k)
  PROVE  Inv'
  <1>0. At(k, "recover") /\ ~At(k, "idle") /\ ~At(k, "fill")
        /\ UNCHANGED <<disk, agents, history, ops, crashes>>
    BY DEF Recover, At
  <1>1. CASE Proceed(k)
    BY <1>0, <1>1, ProceedStep
  <1>2. CASE ~Proceed(k)
    <2>0. task[k] \in TaskRec /\ task[k].todo # <<>> /\ task[k].todo \in Seq(Sets)
          /\ Ids(task[k].copy) /\ Recovers(task[k]) /\ Current(task[k])
      BY <1>0 DEF Inv, TypeOK, At, TaskRec, Sets, Belonging, Recorded
    <2>1. Op(k).field \in Fields /\ Op(k).field[1] = "id"
      BY <1>0, <2>0, TailType DEF Op, Sets, Recovers, At
    <2>2. PICK r \in Roles : Op(k).field = Id(r)
      BY <2>1, IdFields
    <2>3. Op(k).field[2] = r
      BY <2>2, IdFields
    <2>4. PICK i : /\ i \in DOMAIN listed /\ listed[i].dir = Cwd(r) /\ listed[i].agent = r
                   /\ task' = [task EXCEPT ![k].pc = "store", ![k].todo = <<Set(Id(r), i)>>]
      BY <1>2, <2>3 DEF Recover, BestMatch, Eligible
    <2>5. i \in Nat /\ Belongs(i, r)
      BY <2>4 DEF Belongs, Inv, TypeOK
    <2> DEFINE a == Set(Id(r), i)
               todo == <<a>>
               u == [task[k] EXCEPT !.pc = "store", !.todo = todo]
    <2>6. a \in Sets /\ a.field = Id(r) /\ a.value = i
      BY <2>5, IdFields, SetType
    <2>7. task' = [task EXCEPT ![k] = u]
      BY <2>4 DEF Inv, TypeOK
    <2> HIDE DEF a
    <2>8. todo \in Seq(Sets) /\ todo # <<>> /\ DOMAIN todo = {1} /\ todo[1] = a
      BY <2>6, TodoType
    <2> HIDE DEF todo
    <2>9. Bound(todo)
      BY <2>5, <2>6, <2>8, IdOne DEF Bound
    <2>10. /\ u \in TaskRec /\ u.pc = "store" /\ u.todo = todo /\ u.copy = task[k].copy
           /\ u.stale = task[k].stale
      BY <2>0, <2>8 DEF TaskRec, Sets
    <2> HIDE DEF u
    <2>11. Current(u)
      BY <1>0, <2>0, <2>10 DEF Current, At
    <2> QED BY <1>0, <2>0, <2>7, <2>8, <2>9, <2>10, <2>11, GoOn DEF Recovers
  <1> QED BY <1>1, <1>2
\* The file of the one place is rewritten: the others' copies are outdated.
LEMMA OutdateType ==
  ASSUME Inv, NEW k \in Tasks, NEW own \in TaskRec, Outdate(k, own)
  PROVE  /\ task' \in [Tasks -> TaskRec] /\ task'[k] = own
         /\ \A j \in Tasks \ {k} :
              /\ task'[j].pc = task[j].pc /\ task'[j].todo = task[j].todo
              /\ task'[j].copy = task[j].copy /\ task'[j].dir = task[j].dir
              /\ task[j].pc \in {"recover", "store", "fill"} => task'[j].stale
  <1>1. \A j \in Tasks : task[j] \in TaskRec
    BY DEF Inv, TypeOK
  <1>2. \A j \in Tasks \ {k} :
          LET stale == task[j].stale \/ task[j].pc \in {"recover", "store", "fill"} IN
          task'[j] = [task[j] EXCEPT !.stale = stale] /\ stale \in BOOLEAN
    BY <1>1 DEF Outdate, TaskRec
  <1>3. task'[k] = own /\ DOMAIN task' = Tasks
    BY DEF Outdate
  <1>4. ASSUME NEW j \in Tasks \ {k}
        PROVE  /\ task'[j] \in TaskRec
               /\ task'[j].pc = task[j].pc /\ task'[j].todo = task[j].todo
               /\ task'[j].copy = task[j].copy /\ task'[j].dir = task[j].dir
               /\ task[j].pc \in {"recover", "store", "fill"} => task'[j].stale
    <2> DEFINE stale == task[j].stale \/ task[j].pc \in {"recover", "store", "fill"}
    <2>1. task'[j] = [task[j] EXCEPT !.stale = stale] /\ stale \in BOOLEAN
      BY <1>2
    <2>2. task[j].pc \in {"recover", "store", "fill"} => stale
      OBVIOUS
    <2> HIDE DEF stale
    <2> QED BY <1>1, <2>1, <2>2 DEF TaskRec
  <1>5. task' = [j \in Tasks |-> task'[j]]
    BY DEF Outdate
  <1> QED BY <1>3, <1>4, <1>5

LEMMA TruncateStep ==
  ASSUME Inv, NEW k \in Tasks, Truncate(k)
  PROVE  Inv'
  <1>p. PICK dir : dir = task[k].dir
    OBVIOUS
  <1>0. At(k, "store") /\ UNCHANGED <<slugged, stamps, agents, history, ops, crashes>>
    BY DEF Truncate
  <1>1. CASE files[dir].is = "nodir"
    BY <1>p, <1>0, <1>1, ProceedStep DEF Truncate, At, disk
  <1>2. CASE files[dir].is # "nodir"
    <2>0. PICK own : own = [task[k] EXCEPT !.pc = "fill"]
      OBVIOUS
    <2>1. files' = [files EXCEPT ![dir] = Bare("empty")] /\ Outdate(k, own)
      BY <1>p, <1>2, <2>0 DEF Truncate
    <2>2. task[k] \in TaskRec /\ task[k].pc = "store" /\ task[k].todo # <<>>
          /\ files \in [Reached -> File]
      BY <1>0 DEF At, Inv, TypeOK, File
    <2>3. /\ own \in TaskRec /\ own.pc = "fill" /\ own.todo = task[k].todo
          /\ own.copy = task[k].copy /\ own.dir = dir /\ own.stale = task[k].stale
      BY <1>p, <2>0, <2>2 DEF TaskRec
    <2>4. /\ task' \in [Tasks -> TaskRec] /\ task'[k] = own
          /\ \A j \in Tasks \ {k} :
               /\ task'[j].pc = task[j].pc /\ task'[j].todo = task[j].todo
               /\ task'[j].copy = task[j].copy /\ task'[j].dir = task[j].dir
               /\ task[j].pc \in {"recover", "store", "fill"} => task'[j].stale
      BY <2>1, <2>3, OutdateType
    <2>5. Bare("empty") \in File /\ Bare("empty").is = "empty" /\ Ids(Bare("empty").of)
      BY DefaultType DEF Bare, File, Kinds
    <2>6. dir \in Reached /\ files' \in [Reached -> File] /\ files'[dir] = Bare("empty")
          /\ \A p \in Reached \ {dir} : files'[p] = files[p]
      BY <1>p, <2>1, <2>2, <2>5 DEF TaskRec
    <2>7. dir \in Places /\ Places' = Places /\ OnePlace'
      BY <1>2, <2>5, <2>6 DEF Places, Inv, OnePlace
    <2>8. TypeOK'
      BY <1>0, <2>2, <2>3, <2>4, <2>6 DEF Inv, TypeOK, agents, history, At, File
    <2>9. Belonging'
      <3>1. \A j \in Tasks : task'[j].copy = task[j].copy /\ task'[j].todo = task[j].todo
                              /\ (task'[j].pc = "recover" => task[j].pc = "recover")
        BY <2>3, <2>4
      <3> QED BY <1>0, <2>5, <2>6, <3>1, AgentsStay DEF Inv, Belonging, Recovers
    <2>10. Recorded'
      <3>1. own.stale \/ Agrees(own.copy)
        <4>1. SUFFICES ASSUME ~own.stale PROVE Agrees(own.copy)
          OBVIOUS
        <4>2. PICK p \in Places : Sound(p) /\ task[k].copy = files[p].of
          BY <2>2, <2>3, <4>1 DEF Inv, Recorded, Current
        <4> QED BY <2>3, <4>2 DEF Inv, Recorded
      <3>2. Agrees(own.copy) => Agrees(own.copy)'
        BY <1>0 DEF Agrees, history
      <3>3. Filling(own)' /\ Current(own)'
        BY <2>3, <2>5, <2>6, <2>7, <3>1, <3>2 DEF Filling, Current
      <3>4. ASSUME NEW j \in Tasks \ {k}
            PROVE  Filling(task[j])' /\ Current(task[j])'
        BY <2>4, <2>7 DEF Inv, Recorded, Filling, Current
      <3>5. At(k, "fill")'
        BY <2>3, <2>4 DEF At
      <3>6. \A p \in Places : p = dir /\ ~Sound(p)'
        BY <2>5, <2>6, <2>7 DEF Inv, OnePlace, Sound
      <3> QED BY <2>4, <2>7, <3>3, <3>4, <3>5, <3>6 DEF Recorded
    <2> QED BY <2>7, <2>8, <2>9, <2>10 DEF Inv
  <1> QED BY <1>1, <1>2

LEMMA FillStep ==
  ASSUME Inv, NEW k \in Tasks, Fill(k)
  PROVE  Inv'
  <1>p. PICK dir, f, v : dir = task[k].dir /\ f = Op(k).field /\ v = Op(k).value
    OBVIOUS
  <1>o. PICK own : own = Rest(k)
    OBVIOUS
  <1> DEFINE s == [task[k].copy EXCEPT ![f] = v]
  <1>0. At(k, "fill") /\ ~At(k, "idle") /\ Outdate(k, own)
        /\ UNCHANGED <<slugged, stamps, agents, ops, crashes>>
    BY <1>o DEF Fill, At
  <1>1. task[k] \in TaskRec /\ task[k].todo # <<>> /\ task[k].todo \in Seq(Sets)
        /\ Bound(task[k].todo) /\ Ids(task[k].copy) /\ Filling(task[k])
    BY <1>0 DEF Inv, TypeOK, At, TaskRec, Sets, Belonging, Recorded
  <1>2. f \in Fields /\ v \in Nat /\ \A r \in Roles : f = Id(r) => Belongs(v, r)
    BY <1>p, <1>1, TailType DEF Op, Sets
  <1>3. s \in PlanState /\ s[f] = v /\ (\A g \in Fields \ {f} : s[g] = task[k].copy[g])
    BY <1>1, <1>2 DEF TaskRec, PlanState
  <1>4. Ids(s)
    BY <1>1, <1>2, <1>3, IdFields, IdOne DEF Ids
  <1>5. dir \in Places /\ dir \in Reached /\ \A p \in Places : p = dir
    BY <1>p, <1>0, <1>1 DEF Filling, At, Places, Inv, OnePlace
  <1>6. /\ own \in TaskRec /\ own.pc \in {"idle", "locate"} /\ (own.pc # "idle" => own.todo # <<>>)
        /\ Ids(own.copy) /\ Bound(own.todo)
    BY <1>o, <1>0, RestType, DefaultType
  <1>7. PICK new : /\ new \in File /\ new.is \in {"state", "garbage"} /\ Ids(new.of)
                   /\ files' = [files EXCEPT ![dir] = new]
                   /\ new.is = "state" => /\ new.of = s /\ want' = [want EXCEPT ![f] = v]
                        /\ raced' = (IF task[k].stale THEN Fields ELSE raced) \ {f}
                   /\ new.is = "garbage" => raced' = Fields /\ UNCHANGED want
    <2>1. /\ Holding(s) \in File /\ Holding(s).is = "state" /\ Holding(s).of = s
          /\ Bare("garbage") \in File /\ Bare("garbage").is = "garbage"
          /\ Ids(Bare("garbage").of)
      BY <1>3, DefaultType DEF Holding, Bare, File, Kinds
    <2>2. \/ /\ files' = [files EXCEPT ![dir] = Holding(s)]
             /\ want' = [want EXCEPT ![f] = v]
             /\ raced' = (IF task[k].stale THEN Fields ELSE raced) \ {f}
          \/ /\ files' = [files EXCEPT ![dir] = Bare("garbage")]
             /\ raced' = Fields /\ UNCHANGED want
      BY <1>p DEF Fill
    <2> HIDE DEF s
    <2> QED BY <1>4, <2>1, <2>2
  <1> HIDE DEF s
  <1>8. /\ task' \in [Tasks -> TaskRec] /\ task'[k] = own
        /\ \A j \in Tasks \ {k} :
             /\ task'[j].pc = task[j].pc /\ task'[j].todo = task[j].todo
             /\ task'[j].copy = task[j].copy /\ task'[j].dir = task[j].dir
             /\ task[j].pc \in {"recover", "store", "fill"} => task'[j].stale
    BY <1>0, <1>6, OutdateType
  <1>9. files \in [Reached -> File] /\ files' \in [Reached -> File] /\ files'[dir] = new
        /\ \A p \in Reached \ {dir} : files'[p] = files[p]
    BY <1>5, <1>7 DEF Inv, TypeOK, File
  <1>10. Places' = Places /\ OnePlace'
    BY <1>5, <1>7, <1>9 DEF Places, Inv, OnePlace
  <1>11. want' \in PlanState /\ raced' \subseteq Fields
    BY <1>2, <1>7 DEF Inv, TypeOK, PlanState
  <1>12. TypeOK'
    BY <1>0, <1>6, <1>8, <1>9, <1>11 DEF Inv, TypeOK, agents, At, File
  <1>13. Belonging'
    BY <1>0, <1>6, <1>7, <1>8, <1>9, AgentsStay DEF Inv, Belonging, Recovers
  <1>14. Recorded'
    <2>1. new.is = "state" => Agrees(new.of)'
      <3>1. SUFFICES ASSUME new.is = "state", NEW g \in Fields \ raced'
                     PROVE  s[g] = want'[g]
        BY <1>7 DEF Agrees
      <3>2. want' = [want EXCEPT ![f] = v] /\ want \in PlanState
            /\ raced' = (IF task[k].stale THEN Fields ELSE raced) \ {f}
        BY <1>7, <3>1 DEF Inv, TypeOK
      <3>3. CASE g = f
        BY <1>2, <1>3, <3>2, <3>3 DEF PlanState
      <3>4. CASE g # f
        BY <1>0, <1>1, <1>3, <3>2, <3>4 DEF PlanState, Filling, Agrees, At
      <3> QED BY <3>3, <3>4
    <2>2. Filling(own)' /\ Current(own)'
      BY <1>6 DEF Filling, Current
    <2>3. ASSUME NEW j \in Tasks \ {k}
          PROVE  Filling(task[j])' /\ Current(task[j])'
      BY <1>8, <1>10 DEF Inv, Recorded, Filling, Current
    <2>4. \A p \in Places : /\ p = dir /\ (Sound(p)' => Agrees(files[p].of)')
                            /\ (~Sound(p)' => raced' = Fields)
      BY <1>5, <1>7, <1>9, <2>1 DEF Sound
    <2> QED BY <1>5, <1>8, <1>10, <2>2, <2>3, <2>4 DEF Recorded
  <1> QED BY <1>10, <1>12, <1>13, <1>14 DEF Inv
-----------------------------------------------------------------------------
(* The directory appears, moves, and survives a restart *)

LEMMA MaterializeStep ==
  ASSUME Inv, NEW k \in Tasks, Materialize(k)
  PROVE  Inv'
  <1>p. PICK n, id : n = stamps + 1 /\ id = live["scoping"]
    OBVIOUS
  <1> DEFINE a == Set(Entered, n)
             b == Set(Id("scoping"), id)
             c == Set(Prompted, 1)
             todo == <<a, b, c>>
  <1>0. At(k, "idle") /\ Places = {} /\ UNCHANGED <<slugged, agents, history, crashes>>
        /\ ops' = ops + 1 /\ stamps' = n
    BY <1>p DEF Materialize
  <1>1. n \in Nat /\ id \in Nat /\ Belongs(id, "scoping")
    BY <1>p, SessionRecordsAssumption DEF Inv, TypeOK, Belonging
  <1>2. PICK name \in BOOLEAN : name = slugged
    BY DEF Inv, TypeOK
  <1> DEFINE u == [Idle EXCEPT !.pc = "load", !.name = name, !.todo = todo]
  <1>3. task' = [task EXCEPT ![k] = u]
    BY <1>p, <1>2 DEF Materialize
  <1>4. /\ a \in Sets /\ a.field = Entered /\ b \in Sets /\ b.field = Id("scoping")
        /\ b.value = id /\ c \in Sets /\ c.field = Prompted
    BY <1>1, IdFields, SetType, SessionRecordsAssumption
  <1> HIDE DEF a, b, c
  <1>5. /\ todo \in Seq(Sets) /\ todo # <<>> /\ DOMAIN todo = {1, 2, 3}
        /\ todo[1] = a /\ todo[2] = b /\ todo[3] = c
    BY <1>4, TodoType
  <1> HIDE DEF todo
  <1>6. Bound(todo)
    BY <1>1, <1>4, <1>5, IdFields, IdOne, SessionRecordsAssumption DEF Bound
  <1>7. u \in TaskRec /\ u.pc = "load" /\ u.todo = todo /\ Ids(u.copy)
    BY <1>5, IdleType, DefaultType DEF TaskRec, Sets
  <1> HIDE DEF u
  <1>8. task' \in [Tasks -> TaskRec] /\ task'[k] = u /\ \A j \in Tasks \ {k} : task'[j] = task[j]
    BY <1>3, <1>7 DEF Inv, TypeOK
  <1>9. Bare("nofile") \in File /\ Bare("nofile").is = "nofile" /\ Bare("nofile").of = Default
    BY DefaultType DEF Bare, File, Kinds
  <1>10. /\ files \in [Reached -> File] /\ files' = [files EXCEPT !["scoping"] = Bare("nofile")]
         /\ "scoping" \in Reached
    BY SessionRecordsAssumption DEF Inv, TypeOK, File, Materialize
  <1>11. /\ files' \in [Reached -> File] /\ files'["scoping"] = Bare("nofile")
         /\ \A p \in Reached \ {"scoping"} : files'[p] = files[p]
    BY <1>9, <1>10
  <1>12. Places' = {"scoping"} /\ OnePlace'
    BY <1>0, <1>9, <1>10, <1>11 DEF Places, OnePlace
  <1>13. TypeOK'
    BY <1>0, <1>1, <1>5, <1>7, <1>8, <1>11 DEF Inv, TypeOK, agents, history, At, File
  <1>14. Belonging'
    BY <1>0, <1>6, <1>7, <1>8, <1>9, <1>11, DefaultType, AgentsStay DEF Inv, Belonging, Recovers
  <1>15. Recorded'
    <2>1. \A j \in Tasks : Current(task[j])' /\ Filling(task[j])'
      BY <1>0, <1>7, <1>8 DEF Inv, Recorded, Current, Filling
    <2>2. Sound("scoping")' /\ Agrees(files["scoping"].of)'
      BY <1>0, <1>9, <1>11 DEF Sound, Agrees, history, Inv, Recorded
    <2> QED BY <1>12, <2>1, <2>2 DEF Recorded
  <1> QED BY <1>12, <1>13, <1>14, <1>15 DEF Inv

LEMMA RenameStep ==
  ASSUME Inv, NEW k \in Tasks, NEW from \in Reached, NEW to \in Reached, Rename(k, from, to)
  PROVE  Inv'
  <1>p. PICK n, name : n = stamps + 1 /\ name = slugged'
    OBVIOUS
  <1> DEFINE a == Set(Entered, n)
             todo == <<a>>
             u == [Idle EXCEPT !.pc = "load", !.name = name, !.dir = to, !.todo = todo]
  <1>0. /\ from \in Places /\ from # to /\ name \in BOOLEAN /\ slugged' \in BOOLEAN
        /\ ops' = ops + 1 /\ stamps' = n /\ UNCHANGED <<listed, history, crashes>>
        /\ live' = [live EXCEPT ![from] = 0] /\ ~At(k, "fill")
    BY <1>p DEF Rename, Moves, AllRoles, Inv, TypeOK, At
  <1>1. n \in Nat
    BY <1>p DEF Inv, TypeOK
  <1>2. a \in Sets /\ a.field = Entered
    BY <1>1, IdFields, SetType
  <1>3. task' = [j \in Tasks |-> IF j = k THEN u
                   ELSE IF At(j, "fill") /\ task[j].dir = from
                        THEN [task[j] EXCEPT !.dir = to] ELSE task[j]]
    BY <1>p DEF Rename
  <1> HIDE DEF a
  <1>4. todo \in Seq(Sets) /\ todo # <<>> /\ DOMAIN todo = {1} /\ todo[1] = a
    BY <1>2, TodoType
  <1> HIDE DEF todo
  <1>5. \A i, r : Belongs(i, r) => Belongs(i, r)'
    BY <1>0 DEF Belongs
  <1>6. Bound(todo)' /\ \A t : Bound(t) => Bound(t)'
    BY <1>2, <1>4, <1>5, IdFields DEF Bound
  <1>7. u \in TaskRec /\ u.pc = "load" /\ u.todo = todo /\ u.copy = Default
    BY <1>0, <1>4, IdleType DEF TaskRec, Sets
  <1> HIDE DEF u
  <1>8. /\ task' \in [Tasks -> TaskRec] /\ task'[k] = u
        /\ \A j \in Tasks \ {k} :
             /\ task'[j].pc = task[j].pc /\ task'[j].todo = task[j].todo
             /\ task'[j].copy = task[j].copy /\ task'[j].stale = task[j].stale
             /\ task[j].pc = "fill" => task'[j].dir = to
    <2>1. \A j \in Tasks : task[j] \in TaskRec
      BY DEF Inv, TypeOK
    <2>2. \A j \in Tasks : task[j].pc = "fill" => task[j].dir = from
      BY <1>0 DEF Inv, Recorded, Filling, OnePlace
    <2>3. \A j \in Tasks \ {k} : task'[j] = IF At(j, "fill") THEN [task[j] EXCEPT !.dir = to]
                                                             ELSE task[j]
      BY <1>3, <2>2 DEF At
    <2>4. ASSUME NEW j \in Tasks \ {k}
          PROVE  /\ task'[j] \in TaskRec
                 /\ task'[j].pc = task[j].pc /\ task'[j].todo = task[j].todo
                 /\ task'[j].copy = task[j].copy /\ task'[j].stale = task[j].stale
                 /\ task[j].pc = "fill" => task'[j].dir = to
      BY <2>1, <2>3 DEF TaskRec, At
    <2> QED BY <1>3, <1>7, <2>4
  <1>9. /\ files \in [Reached -> File]
        /\ files' = [files EXCEPT ![from] = Bare("nodir"), ![to] = files[from]]
        /\ Bare("nodir") \in File /\ Bare("nodir").is = "nodir" /\ Bare("nodir").of = Default
    BY DefaultType DEF Inv, TypeOK, File, Rename, Bare, Kinds
  <1>10. /\ files' \in [Reached -> File] /\ files'[to] = files[from] /\ files'[from] = Bare("nodir")
         /\ \A p \in Reached \ {from, to} : files'[p] = files[p]
    BY <1>0, <1>9
  <1>11. Places' = {to} /\ Places = {from} /\ OnePlace'
    <2>1. Places = {from}
      BY <1>0 DEF Inv, OnePlace
    <2>2. \A p \in Reached \ {from} : files[p].is = "nodir"
      BY <2>1 DEF Places
    <2>3. files[from].is # "nodir"
      BY <2>1 DEF Places
    <2>4. Places' = {to}
      BY <1>0, <1>9, <1>10, <2>2, <2>3 DEF Places
    <2> QED BY <2>1, <2>4 DEF OnePlace
  <1>12. live' \in [Roles -> Nat] /\ \A r \in Roles : Belongs(live[r], r)'
    <2>1. \A r \in Roles : live'[r] = live[r] \/ live'[r] = 0
      BY <1>0 DEF Inv, TypeOK
    <2>2. \A r : Belongs(0, r)'
      BY DEF Belongs
    <2> QED BY <1>0, <1>5, <2>1, <2>2 DEF Inv, TypeOK, Belonging
  <1>13. TypeOK'
    BY <1>0, <1>1, <1>4, <1>7, <1>8, <1>10, <1>12 DEF Inv, TypeOK, history, At, File
  <1>14. Belonging'
    <2>1. \A t : Ids(t) => Ids(t)'
      BY <1>5 DEF Ids
    <2>2. \A p \in Reached : Ids(files[p].of)'
      BY <1>0, <1>9, <1>10, <2>1, DefaultType DEF Inv, Belonging
    <2> QED BY <1>6, <1>7, <1>8, <1>12, <2>1, <2>2, DefaultType DEF Inv, Belonging, Recovers
  <1>15. Recorded'
    <2>1. \A t : Agrees(t)' <=> Agrees(t)
      BY <1>0 DEF Agrees, history
    <2>2. Sound(to)' <=> Sound(from)
      BY <1>10 DEF Sound
    <2>3. Current(u)' /\ Filling(u)'
      BY <1>7 DEF Current, Filling
    <2>4. ASSUME NEW j \in Tasks \ {k}
          PROVE  Current(task[j])' /\ Filling(task[j])'
      <3>1. Current(task[j]) /\ Filling(task[j])
        BY DEF Inv, Recorded
      <3>2. Current(task[j])'
        BY <1>8, <1>10, <1>11, <2>2, <3>1 DEF Current
      <3>3. Filling(task[j])'
        BY <1>8, <1>10, <1>11, <2>1, <3>1 DEF Filling
      <3> QED BY <3>2, <3>3
    <2>5. \A j \in Tasks : At(j, "fill") => At(j, "fill")'
      BY <1>0, <1>8 DEF At
    <2>6. Sound(from) => Agrees(files[from].of)
      BY <1>11 DEF Inv, Recorded
    <2>7. ~Sound(from) => raced = Fields \/ \E j \in Tasks : At(j, "fill")
      BY <1>11 DEF Inv, Recorded
    <2>8. \A p \in Places' : Sound(p)' => Agrees(files[p].of)'
      BY <1>10, <1>11, <2>1, <2>2, <2>6
    <2>9. \A p \in Places' : ~Sound(p)' => raced' = Fields \/ \E j \in Tasks : At(j, "fill")'
      BY <1>0, <1>11, <2>2, <2>5, <2>7 DEF history
    <2> QED BY <1>8, <1>11, <2>3, <2>4, <2>8, <2>9 DEF Recorded
  <1> QED BY <1>11, <1>13, <1>14, <1>15 DEF Inv

LEMMA RestartStep ==
  ASSUME Inv, Restart
  PROVE  Inv'
  <1>0. /\ UNCHANGED <<disk, listed, want, ops>> /\ crashes' = crashes + 1
        /\ task' = [k \in Tasks |-> Idle] /\ live' = [r \in Roles |-> 0]
        /\ raced' = (IF \E k \in Tasks : At(k, "fill") THEN Fields ELSE raced)
    BY DEF Restart
  <1>1. \A k \in Tasks : task'[k] = Idle
    BY <1>0
  <1>2. TypeOK'
    BY <1>0, IdleType DEF Inv, TypeOK, disk, At
  <1>3. OnePlace' /\ Places' = Places
    BY <1>0 DEF Inv, OnePlace, Places, disk
  <1>4. Belonging'
    <2>1. \A i, r : Belongs(i, r) => Belongs(i, r)'
      BY <1>0 DEF Belongs
    <2>2. \A s : Ids(s) => Ids(s)'
      BY <2>1 DEF Ids
    <2>3. \A r : Belongs(0, r)'
      BY DEF Belongs
    <2>4. Bound(<<>>)'
      BY DEF Bound
    <2> QED BY <1>0, <1>1, <2>2, <2>3, <2>4, IdleType, DefaultType
        DEF Inv, Belonging, Recovers, disk
  <1>5. Recorded'
    <2>1. \A k \in Tasks : Current(task[k])' /\ Filling(task[k])'
      BY <1>1, IdleType DEF Current, Filling
    <2>2. \A p \in Places : Sound(p)' => Agrees(files[p].of)'
      BY <1>0 DEF Inv, Recorded, Agrees, Sound, disk
    <2>3. \A p \in Places : ~Sound(p)' => raced' = Fields
      BY <1>0 DEF Inv, Recorded, Sound, disk
    <2> QED BY <1>0, <1>3, <2>1, <2>2, <2>3 DEF Inv, Recorded
  <1> QED BY <1>2, <1>3, <1>4, <1>5 DEF Inv

-----------------------------------------------------------------------------
(* Theorems *)

\* The invariant holds before the plan has a directory.
LEMMA InvInit ==
  ASSUME Init
  PROVE  Inv
  <1>1. /\ files = [p \in Reached |-> Bare("nodir")] /\ task = [k \in Tasks |-> Idle]
        /\ live = [r \in Roles |-> 0] /\ want = Default /\ listed = Foreign
        /\ raced = {} /\ slugged = FALSE /\ stamps = 0 /\ ops = 0 /\ crashes = 0
    BY DEF Init
  <1>2. Bare("nodir") \in File /\ Bare("nodir").is = "nodir" /\ Bare("nodir").of = Default
    BY DefaultType DEF Bare, File, Kinds
  <1>3. Places = {}
    BY <1>1, <1>2 DEF Places
  <1>4. TypeOK
    BY <1>1, <1>2, IdleType, DefaultType, SessionRecordsAssumption DEF TypeOK, At, File
  <1>5. Belonging
    <2>1. Bound(<<>>)
      BY DEF Bound
    <2> QED BY <1>1, <1>2, <2>1, IdleType, DefaultType DEF Belonging, Recovers, Belongs
  <1>6. Recorded
    BY <1>1, <1>3, IdleType DEF Recorded, Current, Filling
  <1> QED BY <1>3, <1>4, <1>5, <1>6 DEF Inv, OnePlace

\* Every step keeps the invariant.
LEMMA InvStep ==
  ASSUME Inv, [Next]_vars
  PROVE  Inv'
  <1>1. CASE UNCHANGED vars
    <2>1. /\ Places' = Places /\ task' = task /\ UNCHANGED <<files, want, raced, listed, live>>
      BY <1>1 DEF vars, disk, agents, history, Places
    <2>2. TypeOK'
      BY <1>1 DEF vars, disk, agents, history, Inv, TypeOK, At
    <2>3. Belonging'
      BY <2>1 DEF Inv, Belonging, Ids, Bound, Belongs, Recovers
    <2>4. Recorded'
      BY <2>1 DEF Inv, Recorded, Current, Filling, Sound, Agrees, At
    <2> QED BY <2>1, <2>2, <2>3, <2>4 DEF Inv, OnePlace
  <1>2. CASE Next
    BY <1>2, SpawnStep, PromptStep, OneFieldSteps, MaterializeStep, RenameStep, LocateStep,
       LoadStep, RecoverStep, TruncateStep, FillStep, RestartStep DEF Next
  <1> QED BY <1>1, <1>2

\* The invariant holds always.
THEOREM RecordsInvariant == Spec => []Inv
  <1>1. Inv /\ [Next]_vars => Inv'
    BY InvStep
  <1> QED BY InvInit, <1>1, PTL DEF Spec

\* Every variable keeps its type, whatever the threads, roles and bounds.
THEOREM RecordsTyped == Spec => []TypeOK
  <1>1. Inv => TypeOK
    BY DEF Inv
  <1> QED BY RecordsInvariant, <1>1, PTL

\* The plan is in one directory at most: no late write of state.json
\* (plans.rs, store_state) brings back one that a rename took away.
THEOREM PlanInOnePlace == Spec => []OnePlace
  <1>1. Inv => OnePlace
    BY DEF Inv
  <1> QED BY RecordsInvariant, <1>1, PTL

\* Whatever sessions OpenCode lists, an id on file is of a session that the
\* role's agent runs in the role's directory (session_ids.rs, best_match).
THEOREM IdsAreOfTheirRole == Spec => []IdsBelong
  <1>1. Inv => IdsBelong
    BY DEF Inv, Belonging, IdsBelong, Ids
  <1> QED BY RecordsInvariant, <1>1, PTL

\* Read-modify-writes of state.json that do not overlap preserve each other,
\* however the directory is renamed and the application restarted in between.
THEOREM NothingElseLoses == Spec => []OnlyRacesLose
  <1>1. Inv => OnlyRacesLose
    BY DEF Inv, Recorded, OnlyRacesLose, Agrees, LoadState
  <1> QED BY RecordsInvariant, <1>1, PTL
=============================================================================
