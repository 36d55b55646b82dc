------------------------ MODULE SessionStart_proofs -------------------------
(***************************************************************************)
(* What SessionStart keeps true for any number of calls, processes, moves  *)
(* and bounds.  The core is `Effect': what one step of a call may do to    *)
(* the call's own record and to the two claims.                            *)
(***************************************************************************)
EXTENDS SessionStart, TLAPS

Spawning == {"spawn", "connect", "init", "ready", "session", "insert", "record"}

\* Which guards a call holds, and which kind of call stands at which step.
Claimed(t) ==
  /\ t.warm => t.pc \in Spawning
  /\ t.hist <=> t.kind = "load" /\ t.pc \notin {"idle", "settle", "history"}
  /\ t.pc = "check" => t.kind = "warm"
  /\ t.pc \in {"settle", "history", "resolve", "adopt", "load"} => t.kind = "load"
  /\ t.pc \in {"replay", "ensure", "wait"} => t.kind \in {"prompt", "retry"}
  /\ t.pc \in {"heal", "prefix"} => t.kind = "prompt"
  /\ t.pc = "turn" => t.kind \in {"prompt", "retry", "eager"}
  /\ t.pc = "claim" => t.kind # "eager"

\* How a claim may move with the guard that stands for it.
Moved(claim, next, held, holds) ==
  \/ next = claim /\ holds = held
  \/ ~claim /\ next /\ holds
  \/ next = (claim /\ ~held) /\ ~holds

Effect(k) == \E u \in CallRec :
  /\ Become(k, u) /\ Claimed(u)
  /\ warming' \in BOOLEAN /\ loading' \in BOOLEAN /\ loaded' \in BOOLEAN
  /\ Moved(warming, warming', task[k].warm, u.warm)
  /\ Moved(loading, loading', task[k].hist, u.hist)

Inv ==
  /\ TypeOK
  /\ \A k \in Tasks : Claimed(task[k])
  /\ WorkingHasTurn

-----------------------------------------------------------------------------
(* Steps of a call *)

\* The record of a call that has returned.
LEMMA NoCallType == /\ NoCall \in CallRec /\ Claimed(NoCall)
                    /\ ~NoCall.warm /\ ~NoCall.hist /\ NoCall.pc = "idle"
  BY DEF NoCall, CallRec, CallSteps, Claimed, Spawning

\* A call that returns gives up exactly what it held.
LEMMA ReturnEffect ==
  ASSUME Inv, NEW k \in Tasks, Return(k)
  PROVE  Effect(k)
  <1>1. warming' \in BOOLEAN /\ loading' \in BOOLEAN /\ loaded' \in BOOLEAN
    BY DEF Return, Inv, TypeOK
  <1>2. /\ Moved(warming, warming', task[k].warm, NoCall.warm)
        /\ Moved(loading, loading', task[k].hist, NoCall.hist)
    BY NoCallType DEF Return, Moved
  <1> QED BY <1>1, <1>2, NoCallType DEF Return, Effect

\* A call that finished its replay held the history claim.
LEMMA FinishEffect ==
  ASSUME Inv, NEW k \in Tasks, Finish(k), task[k].hist
  PROVE  Effect(k)
  <1>1. warming' \in BOOLEAN /\ loading' \in BOOLEAN /\ loaded' \in BOOLEAN
    BY DEF Finish, Inv, TypeOK
  <1>2. /\ Moved(warming, warming', task[k].warm, NoCall.warm)
        /\ Moved(loading, loading', task[k].hist, NoCall.hist)
    BY NoCallType DEF Finish, Moved
  <1> QED BY <1>1, <1>2, NoCallType DEF Finish, Effect

\* A call that goes on with other data and keeps its guards and the claims.
LEMMA KeepEffect ==
  ASSUME Inv, NEW k \in Tasks, UNCHANGED claims,
         NEW u \in CallRec, Become(k, u), Claimed(u),
         u.warm = task[k].warm, u.hist = task[k].hist
  PROVE  Effect(k)
  BY DEF Effect, Moved, Inv, TypeOK, claims

\* Going to another step changes nothing else of a call.
LEMMA GotoStep ==
  ASSUME NEW k \in Tasks, task[k] \in CallRec, NEW step \in CallSteps
  PROVE  LET u == [task[k] EXCEPT !.pc = step] IN
         /\ u \in CallRec /\ u.pc = step /\ u.kind = task[k].kind
         /\ u.warm = task[k].warm /\ u.hist = task[k].hist
  BY DEF CallRec

\* A call that only goes to a step its guards and its kind belong to.
LEMMA GotoEffect ==
  ASSUME Inv, NEW k \in Tasks, UNCHANGED claims, NEW step \in CallSteps, Goto(k, step),
         task[k].warm => step \in Spawning,
         task[k].hist <=> task[k].kind = "load" /\ step \notin {"idle", "settle", "history"},
         step = "check" => task[k].kind = "warm",
         step \in {"settle", "history", "resolve", "adopt", "load"} => task[k].kind = "load",
         step \in {"replay", "ensure", "wait"} => task[k].kind \in {"prompt", "retry"},
         step \in {"heal", "prefix"} => task[k].kind = "prompt",
         step = "turn" => task[k].kind \in {"prompt", "retry", "eager"},
         step = "claim" => task[k].kind # "eager"
  PROVE  Effect(k)
  <1> DEFINE u == [task[k] EXCEPT !.pc = step]
  <1>1. task[k] \in CallRec
    BY DEF Inv, TypeOK
  <1>2. /\ u \in CallRec /\ u.pc = step /\ u.kind = task[k].kind
        /\ u.warm = task[k].warm /\ u.hist = task[k].hist
    BY <1>1, GotoStep
  <1>3. Become(k, u)
    BY DEF Goto
  <1> HIDE DEF u
  <1>4. Claimed(u)
    BY <1>2 DEF Claimed
  <1> QED BY <1>2, <1>3, <1>4, KeepEffect

\* Taking the live session keeps what the call holds.
LEMMA TakeLiveEffect ==
  ASSUME Inv, NEW k \in Tasks, UNCHANGED claims, TakeLive(k),
         task[k].pc \in {"ensure", "wait"}
  PROVE  Effect(k)
  <1> DEFINE next == AfterSpawn(task[k].kind)
             u == [task[k] EXCEPT !.conn = entry.conn, !.sid = entry.sid, !.pc = next]
  <1>1. task[k] \in CallRec /\ Claimed(task[k]) /\ entry.conn \in Nat /\ entry.sid \in Nat
    BY DEF Inv, TypeOK, Entry
  <1>2. \/ task[k].kind = "prompt" /\ next = "heal"
        \/ task[k].kind = "retry" /\ next = "turn"
    BY <1>1 DEF Claimed, AfterSpawn
  <1>3. Become(k, u)
    BY DEF TakeLive
  <1> HIDE DEF next
  <1>4. next \in CallSteps
    BY <1>2 DEF CallSteps
  <1>5. /\ u \in CallRec /\ u.pc = next /\ u.kind = task[k].kind
        /\ u.warm = task[k].warm /\ u.hist = task[k].hist
    BY <1>1, <1>4 DEF CallRec
  <1> HIDE DEF u
  <1>6. Claimed(u)
    BY <1>1, <1>2, <1>5 DEF Claimed, Spawning
  <1> QED BY <1>3, <1>5, <1>6, KeepEffect

\* The steps of a call up to its claim.
LEMMA WaitEffects ==
  ASSUME Inv, NEW k \in Tasks,
         \/ WarmCheck(k) \/ ClaimWarm(k) \/ WaitForHistory(k) \/ EnsureLive(k)
         \/ WaitForLive(k) \/ LetWarmSettle(k) \/ Timeout(k) \/ ClaimHistory(k)
         \/ Resolve(k) \/ CheckPlan(k)
  PROVE  Effect(k)
  <1>t. task[k] \in CallRec /\ Claimed(task[k]) /\ entry \in Entry /\ saved \in Nat
    BY DEF Inv, TypeOK
  <1>c. warming \in BOOLEAN /\ loading \in BOOLEAN /\ loaded \in BOOLEAN
    BY DEF Inv, TypeOK
  <1>1. CASE WarmCheck(k)
    <2>1. Goto(k, "claim") /\ UNCHANGED claims => Effect(k)
      BY <1>1, <1>t, GotoEffect DEF WarmCheck, At, Claimed, CallSteps, Spawning
    <2> QED BY <1>1, <2>1, ReturnEffect DEF WarmCheck
  <1>2. CASE ClaimWarm(k)
    <2> DEFINE u == [task[k] EXCEPT !.warm = TRUE, !.pc = "spawn"]
    <2>1. CASE ~warming
      <3>1. u \in CallRec /\ u.pc = "spawn" /\ u.kind = task[k].kind /\ u.warm
            /\ u.hist = task[k].hist
        BY <1>t DEF CallRec, CallSteps
      <3>2. Become(k, u) /\ warming' = TRUE /\ UNCHANGED <<loading, loaded>> /\ task[k].pc = "claim"
        BY <1>2, <2>1 DEF ClaimWarm, At
      <3> HIDE DEF u
      <3>3. Claimed(u)
        BY <1>t, <3>1, <3>2 DEF Claimed, Spawning
      <3> QED BY <1>c, <2>1, <3>1, <3>2, <3>3 DEF Effect, Moved
    <2>2. CASE warming /\ task[k].kind \in {"warm", "load"}
      BY <1>2, <2>2, ReturnEffect DEF ClaimWarm
    <2>3. CASE warming /\ task[k].kind \notin {"warm", "load"}
      <3>1. Goto(k, "wait") /\ UNCHANGED claims /\ task[k].pc = "claim"
        BY <1>2, <2>3 DEF ClaimWarm, At
      <3>2. task[k].kind \in {"prompt", "retry"}
        BY <1>t, <2>3, <3>1 DEF CallRec, Claimed
      <3> QED BY <1>t, <3>1, <3>2, GotoEffect DEF Claimed, CallSteps, Spawning
    <2> QED BY <1>c, <2>1, <2>2, <2>3
  <1>3. CASE WaitForHistory(k)
    <2> DEFINE text == IF task[k].kind = "retry" THEN entry.last ELSE task[k].text
               u == [task[k] EXCEPT !.pc = "ensure", !.text = text]
    <2>1. CASE task[k].kind = "retry" /\ entry.last = "none"
      BY <1>3, <2>1, ReturnEffect DEF WaitForHistory
    <2>2. CASE task[k].kind = "prompt" /\ place = "queued"
      BY <1>3, <2>2, ReturnEffect DEF WaitForHistory
    <2>3. CASE /\ ~(task[k].kind = "retry" /\ entry.last = "none")
               /\ ~(task[k].kind = "prompt" /\ place = "queued")
      <3>1. text \in {"plain", "role"}
        BY <1>t, <2>3 DEF CallRec, Entry
      <3>2. Become(k, u) /\ UNCHANGED claims /\ task[k].pc = "replay"
        BY <1>3, <2>3 DEF WaitForHistory, At
      <3> HIDE DEF text
      <3>3. /\ u \in CallRec /\ u.pc = "ensure" /\ u.kind = task[k].kind
            /\ u.warm = task[k].warm /\ u.hist = task[k].hist
        BY <1>t, <3>1 DEF CallRec, CallSteps
      <3> HIDE DEF u
      <3>4. Claimed(u)
        BY <1>t, <3>2, <3>3 DEF Claimed, Spawning
      <3> QED BY <3>2, <3>3, <3>4, KeepEffect
    <2> QED BY <2>1, <2>2, <2>3
  <1>4. CASE EnsureLive(k) \/ WaitForLive(k)
    <2>1. task[k].pc \in {"ensure", "wait"} /\ UNCHANGED claims
      BY <1>4 DEF EnsureLive, WaitForLive, At
    <2>2. Goto(k, "claim") => Effect(k)
      BY <1>t, <2>1, GotoEffect DEF Claimed, CallSteps, Spawning
    <2> QED BY <1>4, <2>1, <2>2, TakeLiveEffect DEF EnsureLive, WaitForLive
  <1>5. CASE LetWarmSettle(k)
    BY <1>5, <1>t, GotoEffect DEF LetWarmSettle, At, Claimed, CallSteps, Spawning
  <1>6. CASE Timeout(k)
    BY <1>6, ReturnEffect DEF Timeout
  <1>7. CASE ClaimHistory(k)
    <2> DEFINE u == [task[k] EXCEPT !.hist = TRUE, !.pc = "resolve"]
    <2>1. CASE Started \/ entry.working
      BY <1>7, <2>1, ReturnEffect DEF ClaimHistory
    <2>2. CASE ~(Started \/ entry.working)
      <3>1. u \in CallRec /\ u.pc = "resolve" /\ u.kind = task[k].kind /\ u.hist
            /\ u.warm = task[k].warm
        BY <1>t DEF CallRec, CallSteps
      <3>2. /\ Become(k, u) /\ loading' = TRUE /\ UNCHANGED <<warming, loaded>>
            /\ task[k].pc = "history" /\ ~loading
        BY <1>7, <2>2 DEF ClaimHistory, At, Started
      <3> HIDE DEF u
      <3>3. Claimed(u)
        BY <1>t, <3>1, <3>2 DEF Claimed, Spawning
      <3> QED BY <1>c, <3>1, <3>2, <3>3 DEF Effect, Moved
    <2> QED BY <2>1, <2>2
  <1>8. CASE Resolve(k)
    <2> DEFINE u == [task[k] EXCEPT !.sid = saved, !.pc = "connect"]
    <2>1. task[k].pc = "resolve" /\ task[k].kind = "load" /\ task[k].hist
      BY <1>8, <1>t DEF Resolve, At, Claimed
    <2>2. CASE Become(k, u) /\ UNCHANGED claims
      <3>1. /\ u \in CallRec /\ u.pc = "connect" /\ u.kind = task[k].kind
            /\ u.warm = task[k].warm /\ u.hist = task[k].hist
        BY <1>t DEF CallRec, CallSteps
      <3> HIDE DEF u
      <3>2. Claimed(u)
        BY <1>t, <2>1, <3>1 DEF Claimed, Spawning
      <3> QED BY <2>2, <3>1, <3>2, KeepEffect
    <2>3. CASE Goto(k, "claim") /\ UNCHANGED claims
      BY <1>t, <2>1, <2>3, GotoEffect DEF Claimed, CallSteps, Spawning
    <2> QED BY <1>8, <2>1, <2>2, <2>3, ReturnEffect, FinishEffect DEF Resolve
  <1>9. CASE CheckPlan(k)
    <2> DEFINE u == [task[k] EXCEPT !.pc = "connect", !.prefixed = entry.prefixed]
    <2>1. CASE ThereDir
      <3>1. Become(k, u) /\ UNCHANGED claims /\ task[k].pc = "spawn"
        BY <1>9, <2>1 DEF CheckPlan, At
      <3>2. /\ u \in CallRec /\ u.pc = "connect" /\ u.kind = task[k].kind
            /\ u.warm = task[k].warm /\ u.hist = task[k].hist
        BY <1>t DEF CallRec, CallSteps, Entry
      <3> HIDE DEF u
      <3>3. Claimed(u)
        BY <1>t, <3>1, <3>2 DEF Claimed, Spawning
      <3> QED BY <3>1, <3>2, <3>3, KeepEffect
    <2> QED BY <1>9, <2>1, ReturnEffect DEF CheckPlan
  <1> QED BY <1>1, <1>2, <1>3, <1>4, <1>5, <1>6, <1>7, <1>8, <1>9

\* The steps of a call from its connection to its turn, and its first step.
LEMMA SpawnEffects ==
  ASSUME Inv, NEW k \in Tasks,
         \/ Connect(k) \/ Initialize(k) \/ Ready(k) \/ OpenSession(k) \/ Insert(k)
         \/ Record(k) \/ Adopt(k) \/ Load(k) \/ Heal(k) \/ ClaimPrefix(k) \/ StartTurn(k)
         \/ \E kind \in Kinds : Call(k, kind)
  PROVE  Effect(k)
  <1>t. task[k] \in CallRec /\ Claimed(task[k]) /\ entry \in Entry /\ sids \in Nat
    BY DEF Inv, TypeOK
  <1>c. warming \in BOOLEAN /\ loading \in BOOLEAN /\ loaded \in BOOLEAN
    BY DEF Inv, TypeOK
  <1>a. /\ AfterConnect(task[k]) \in {"adopt", "session"}
        /\ AfterConnect(task[k]) = "adopt" => task[k].kind = "load" /\ ~task[k].warm
    BY DEF AfterConnect
  <1>1. CASE Connect(k) \/ Ready(k)
    <2> DEFINE next == AfterConnect(task[k])
               u == [task[k] EXCEPT !.conn = entry.conn, !.pc = next]
    <2>2. CASE Become(k, u) /\ UNCHANGED claims /\ task[k].pc \in {"connect", "ready"}
      <3> HIDE DEF next
      <3>1. /\ u \in CallRec /\ u.pc = next /\ u.kind = task[k].kind
            /\ u.warm = task[k].warm /\ u.hist = task[k].hist
        BY <1>t, <1>a DEF CallRec, CallSteps, Entry, next
      <3> HIDE DEF u
      <3>2. Claimed(u)
        BY <1>t, <1>a, <2>2, <3>1 DEF Claimed, Spawning, next
      <3> QED BY <2>2, <3>1, <3>2, KeepEffect
    <2>3. CASE Goto(k, "init") /\ UNCHANGED claims /\ task[k].pc \in {"connect", "ready"}
      BY <1>t, <2>3, GotoEffect DEF Claimed, CallSteps, Spawning
    <2>4. \/ Become(k, u) /\ UNCHANGED claims /\ task[k].pc \in {"connect", "ready"}
          \/ Goto(k, "init") /\ UNCHANGED claims /\ task[k].pc \in {"connect", "ready"}
          \/ Return(k)
      BY <1>1 DEF Connect, Ready, At
    <2> QED BY <2>2, <2>3, <2>4, ReturnEffect
  <1>2. CASE Initialize(k)
    <2>1. Goto(k, "ready") /\ UNCHANGED claims => Effect(k)
      BY <1>2, <1>t, GotoEffect DEF Initialize, At, Claimed, CallSteps, Spawning
    <2> QED BY <1>2, <2>1, ReturnEffect DEF Initialize
  <1>3. CASE OpenSession(k)
    <2> DEFINE sid == sids + 1
               u == [task[k] EXCEPT !.sid = sid, !.pc = "insert"]
    <2>1. CASE Become(k, u) /\ UNCHANGED claims
      <3>0. sid \in Nat
        BY <1>t
      <3> HIDE DEF sid
      <3>1. task[k].pc = "session"
        BY <1>3 DEF OpenSession, At
      <3>2. /\ u \in CallRec /\ u.pc = "insert" /\ u.kind = task[k].kind
            /\ u.warm = task[k].warm /\ u.hist = task[k].hist
        BY <1>t, <3>0 DEF CallRec, CallSteps
      <3> HIDE DEF u
      <3>3. Claimed(u)
        BY <1>t, <3>1, <3>2 DEF Claimed, Spawning
      <3> QED BY <2>1, <3>2, <3>3, KeepEffect
    <2> QED BY <1>3, <2>1, ReturnEffect DEF OpenSession
  <1>4. CASE Insert(k)
    BY <1>4, <1>t, GotoEffect DEF Insert, At, Claimed, CallSteps, Spawning
  <1>5. CASE Record(k)
    <2> DEFINE next == AfterSpawn(task[k].kind)
               u == [task[k] EXCEPT !.pc = next, !.warm = FALSE]
    <2>1. task[k].pc = "record"
      BY <1>5 DEF Record, At
    <2>2. CASE task[k].kind = "load" /\ Finish(k)
      BY <1>t, <2>1, <2>2, FinishEffect DEF Claimed
    <2>4. /\ task[k].kind = "prompt" => next = "heal"
          /\ task[k].kind \in {"retry", "eager"} => next = "turn"
          /\ task[k].kind \in {"warm", "load"} => next = "done"
      BY DEF AfterSpawn
    <2>3. CASE /\ next # "done" /\ Become(k, u)
               /\ warming' = (warming /\ ~task[k].warm) /\ UNCHANGED <<loading, loaded>>
      <3>1. \/ task[k].kind = "prompt" /\ next = "heal"
            \/ task[k].kind \in {"retry", "eager"} /\ next = "turn"
        BY <1>t, <2>3, <2>4 DEF AfterSpawn, CallRec
      <3> HIDE DEF next
      <3>2. /\ u \in CallRec /\ u.pc = next /\ u.kind = task[k].kind
            /\ ~u.warm /\ u.hist = task[k].hist
        BY <1>t, <3>1 DEF CallRec, CallSteps
      <3>3. Become(k, u)
        BY <2>3
      <3> HIDE DEF u
      <3>4. Claimed(u)
        BY <1>t, <2>1, <3>1, <3>2 DEF Claimed
      <3> QED BY <1>c, <2>3, <3>2, <3>3, <3>4 DEF Effect, Moved
    <2> QED BY <1>5, <2>2, <2>3, ReturnEffect DEF Record
  <1>6. CASE Adopt(k)
    BY <1>6, <1>t, GotoEffect DEF Adopt, At, Claimed, CallSteps, Spawning
  <1>7. CASE Load(k)
    <2>1. task[k].hist
      BY <1>7, <1>t DEF Load, At, Claimed
    <2> QED BY <1>7, <2>1, ReturnEffect, FinishEffect DEF Load
  <1>8. CASE Heal(k)
    BY <1>8, <1>t, GotoEffect DEF Heal, At, Claimed, CallSteps, Spawning
  <1>9. CASE ClaimPrefix(k)
    <2> DEFINE text == IF entry.there /\ ~entry.prefixed THEN "role" ELSE task[k].text
               u == [task[k] EXCEPT !.pc = "turn", !.text = text]
    <2>1. Become(k, u) /\ UNCHANGED claims /\ task[k].pc = "prefix"
      BY <1>9 DEF ClaimPrefix, At
    <2>2. text \in {"plain", "role"}
      BY <1>t DEF CallRec
    <2> HIDE DEF text
    <2>3. /\ u \in CallRec /\ u.pc = "turn" /\ u.kind = task[k].kind
          /\ u.warm = task[k].warm /\ u.hist = task[k].hist
      BY <1>t, <2>2 DEF CallRec, CallSteps
    <2> HIDE DEF u
    <2>4. Claimed(u)
      BY <1>t, <2>1, <2>3 DEF Claimed, Spawning
    <2> QED BY <2>1, <2>3, <2>4, KeepEffect
  <1>10. CASE StartTurn(k)
    <2>1. Become(k, NoCall) /\ UNCHANGED claims /\ task[k].pc = "turn"
      BY <1>10 DEF StartTurn, At
    <2>2. task[k].warm = NoCall.warm /\ task[k].hist = NoCall.hist
      BY <1>t, <2>1, NoCallType DEF Claimed, Spawning, CallRec, NoCall
    <2> QED BY <2>1, <2>2, NoCallType, KeepEffect
  <1>11. ASSUME NEW kind \in Kinds, Call(k, kind)
         PROVE  Effect(k)
    <2> DEFINE step == FirstStep(kind)
               text == IF kind = "eager" THEN "role" ELSE "plain"
               eager == kind = "eager"
               u == [NoCall EXCEPT !.pc = step, !.kind = kind,
                       !.prefixed = eager, !.text = text]
    <2>1. Become(k, u) /\ UNCHANGED claims /\ task[k].pc = "idle"
      BY <1>11 DEF Call, At
    <2>2. kind \in {"warm", "load", "prompt", "retry", "eager"}
      BY SessionStartAssumption
    <2>3. /\ kind = "warm" => step = "check"
          /\ kind = "load" => step = "settle"
          /\ kind = "eager" => step = "connect"
          /\ kind \in {"prompt", "retry"} => step = "replay"
          /\ text \in {"plain", "role"} /\ eager \in BOOLEAN
      BY DEF FirstStep
    <2> HIDE DEF step, text, eager
    <2>4. /\ u \in CallRec /\ u.pc = step /\ u.kind = kind /\ ~u.warm /\ ~u.hist
      BY <2>2, <2>3 DEF NoCall, CallRec, CallSteps
    <2> HIDE DEF u
    <2>5. Claimed(u)
      BY <2>2, <2>3, <2>4 DEF Claimed
    <2>6. task[k].warm = u.warm /\ task[k].hist = u.hist
      BY <1>t, <2>1, <2>4 DEF Claimed, Spawning, CallRec
    <2> QED BY <2>1, <2>4, <2>5, <2>6, KeepEffect
  <1> QED BY <1>1, <1>2, <1>3, <1>4, <1>5, <1>6, <1>7, <1>8, <1>9, <1>10, <1>11

-----------------------------------------------------------------------------
(* The rest of the state *)

\* What is kept besides the calls and the claims.
Rest ==
  /\ place \in {"here", "queued", "gone", "finished"}
  /\ saved \in Nat /\ conns \in Nat /\ sids \in Nat
  /\ entry \in Entry
  /\ closed \subseteq Nat /\ delivered \subseteq Nat
  /\ turns \subseteq Turn
  /\ count \in [Events -> Nat]
  /\ WorkingHasTurn

\* A key nobody has an entry for.
LEMMA AbsentType == Absent \in Entry /\ ~Absent.working
  BY DEF Absent, Entry

\* Counting an event keeps the counters numbers.
LEMMA CountType ==
  ASSUME count \in [Events -> Nat], NEW event \in Events, Count(event)
  PROVE  count' \in [Events -> Nat]
  BY DEF Count, Events

\* A step of a call keeps the rest: only a started turn makes a key working.
LEMMA CallRest ==
  ASSUME Inv, NEW k \in Tasks,
         OwnStep(k) \/ AgentStep(k) \/ \E kind \in Kinds : Call(k, kind)
  PROVE  Rest'
  <1>t. task[k] \in CallRec /\ Rest
    BY DEF Inv, TypeOK, Rest
  <1>1. CASE UNCHANGED <<place, saved, entry, procs, delivered, turns, count>>
    BY <1>1, <1>t DEF Rest, WorkingHasTurn, procs
  <1>2. CASE Connect(k)
    <2>1. /\ entry' \in Entry /\ entry'.working = entry.working
          /\ UNCHANGED <<place, saved, conns, closed, sids, delivered, turns, count>>
      BY <1>2, <1>t DEF Connect, Rest, Entry, procs
    <2> QED BY <1>t, <2>1 DEF Rest, WorkingHasTurn
  <1>3. CASE Initialize(k)
    <2>1. conns' \in Nat /\ UNCHANGED <<place, saved, closed, sids, delivered, turns, count>>
      BY <1>3, <1>t DEF Initialize, Rest
    <2>2. entry' \in Entry /\ (entry'.working => entry.working)
      <3> DEFINE fresh == [Absent EXCEPT !.there = TRUE, !.conn = conns',
                             !.prefixed = task[k].prefixed]
      <3>1. fresh \in Entry /\ ~fresh.working
        BY <1>t, <2>1 DEF Absent, Entry, CallRec
      <3>2. entry' \in {fresh, entry, [entry EXCEPT !.conn = conns']}
        BY <1>3 DEF Initialize
      <3> HIDE DEF fresh
      <3> QED BY <1>t, <2>1, <3>1, <3>2 DEF Entry, Rest
    <2> QED BY <1>t, <2>1, <2>2 DEF Rest, WorkingHasTurn
  <1>4. CASE OpenSession(k)
    BY <1>4, <1>t DEF OpenSession, Rest, WorkingHasTurn
  <1>5. CASE Insert(k)
    <2>1. /\ entry' \in Entry /\ ~entry'.working
          /\ UNCHANGED <<place, saved, conns, closed, sids, delivered, turns, count>>
      BY <1>5, <1>t DEF Insert, Rest, Entry, CallRec, procs
    <2> QED BY <1>t, <2>1 DEF Rest, WorkingHasTurn
  <1>6. CASE Record(k) \/ Heal(k)
    <2>1. /\ saved' \in Nat
          /\ UNCHANGED <<place, entry, conns, closed, sids, delivered, turns, count>>
      BY <1>6, <1>t DEF Record, Heal, CallRec, procs
    <2> QED BY <1>t, <2>1 DEF Rest, WorkingHasTurn
  <1>7. CASE Adopt(k)
    <2>1. /\ entry' \in Entry /\ entry'.working = entry.working
          /\ UNCHANGED <<place, saved, conns, closed, sids, delivered, turns, count>>
      BY <1>7, <1>t DEF Adopt, Rest, Entry, CallRec, procs
    <2> QED BY <1>t, <2>1 DEF Rest, WorkingHasTurn
  <1>8. CASE ClaimPrefix(k)
    <2>1. /\ entry' \in Entry /\ entry'.working = entry.working
          /\ UNCHANGED <<place, saved, conns, closed, sids, delivered, turns, count>>
      BY <1>8, <1>t DEF ClaimPrefix, Rest, Entry, procs
    <2> QED BY <1>t, <2>1 DEF Rest, WorkingHasTurn
  <1>9. CASE StartTurn(k)
    <2>1. CASE entry.working
      BY <1>9, <1>t, <2>1 DEF StartTurn, Rest, WorkingHasTurn, procs
    <2>2. CASE ~entry.working
      <3> DEFINE turn == [n |-> count.turns, conn |-> task[k].conn, sid |-> task[k].sid,
                          stopped |-> FALSE]
      <3>1. turn \in Turn
        BY <1>t DEF Turn, CallRec, Rest, Events
      <3>2. turns' = turns \cup {turn} /\ Count("turns")
            /\ UNCHANGED <<place, saved, conns, closed, sids>>
        BY <1>9, <2>2 DEF StartTurn, procs
      <3> HIDE DEF turn
      <3>3. entry' \in Entry
        BY <1>9, <1>t, <2>2 DEF StartTurn, Rest, Entry, CallRec
      <3>4. delivered' \subseteq Nat
        BY <1>9, <1>t, <2>2 DEF StartTurn, Rest, CallRec
      <3>5. count' \in [Events -> Nat]
        BY <1>t, <3>2, CountType DEF Rest, Events
      <3> QED BY <1>t, <3>1, <3>2, <3>3, <3>4, <3>5 DEF Rest, WorkingHasTurn
    <2> QED BY <2>1, <2>2
  <1>10. ASSUME NEW kind \in Kinds, Call(k, kind)
         PROVE  Rest'
    <2>1. count' \in [Events -> Nat]
      BY <1>10, <1>t, CountType DEF Call, Rest, Events
    <2> QED BY <1>10, <1>t, <2>1 DEF Call, Rest, WorkingHasTurn, procs
  <1> QED
    BY <1>1, <1>2, <1>3, <1>4, <1>5, <1>6, <1>7, <1>8, <1>9, <1>10
    DEF OwnStep, AgentStep, WarmCheck, ClaimWarm, WaitForHistory, EnsureLive, WaitForLive,
        LetWarmSettle, Timeout, ClaimHistory, Resolve, CheckPlan, Ready, Load

\* Every step of a call is one of those whose effect is known.
LEMMA CallEffect ==
  ASSUME Inv, NEW k \in Tasks,
         OwnStep(k) \/ AgentStep(k) \/ \E kind \in Kinds : Call(k, kind)
  PROVE  Effect(k)
  BY WaitEffects, SpawnEffects DEF OwnStep, AgentStep

\* The agent's answers, cancels, drops, moves, deaths and reopens leave the
\* calls alone and keep the rest.
Outside ==
  \/ \E t \in turns : EndTurn(t)
  \/ CancelTurn \/ DropLive \/ Reopen
  \/ \E to \in {"here", "queued", "gone", "finished"} : MovePlan(to)
  \/ \E c \in 1..conns : CloseConn(c)

LEMMA OutsideRest ==
  ASSUME Inv, Outside
  PROVE  /\ Rest' /\ UNCHANGED task
         /\ \/ UNCHANGED claims
            \/ Reopen
  <1>t. Rest
    BY DEF Inv, TypeOK, Rest
  <1>1. ASSUME NEW t \in turns, EndTurn(t)
        PROVE  Rest' /\ UNCHANGED task /\ UNCHANGED claims
    <2>1. /\ entry' \in Entry /\ ~entry'.working /\ turns' \subseteq turns
          /\ UNCHANGED <<place, saved, conns, closed, sids, delivered, count, task, claims>>
      BY <1>1, <1>t DEF EndTurn, Rest, Entry, procs
    <2> QED BY <1>t, <2>1 DEF Rest, WorkingHasTurn
  <1>2. ASSUME CancelTurn
        PROVE  Rest' /\ UNCHANGED task /\ UNCHANGED claims
    <2>1. /\ entry' \in Entry /\ ~entry'.working
          /\ UNCHANGED <<place, saved, conns, closed, sids, delivered, task, claims>>
      BY <1>2, <1>t DEF CancelTurn, Rest, Entry, procs
    <2>2. turns' \subseteq Turn
      BY <1>2, <1>t DEF CancelTurn, Rest, Turn
    <2>3. count' \in [Events -> Nat]
      BY <1>2, <1>t, CountType DEF CancelTurn, Rest, Events
    <2> QED BY <1>t, <2>1, <2>2, <2>3 DEF Rest, WorkingHasTurn
  <1>3. ASSUME DropLive \/ Reopen
        PROVE  Rest' /\ UNCHANGED task /\ (UNCHANGED claims \/ Reopen)
    <2>1. entry' \in Entry /\ ~entry'.working
      BY <1>3, AbsentType DEF DropLive, Reopen
    <2>2. count' \in [Events -> Nat]
      BY <1>3, <1>t, CountType DEF DropLive, Reopen, Rest, Events
    <2> QED BY <1>3, <1>t, <2>1, <2>2 DEF DropLive, Reopen, Rest, WorkingHasTurn, procs
  <1>4. ASSUME NEW to \in {"here", "queued", "gone", "finished"}, MovePlan(to)
        PROVE  Rest' /\ UNCHANGED task /\ UNCHANGED claims
    <2>1. count' \in [Events -> Nat]
      BY <1>4, <1>t, CountType DEF MovePlan, Rest, Events
    <2> QED BY <1>4, <1>t, <2>1 DEF MovePlan, Rest, WorkingHasTurn, procs
  <1>5. ASSUME NEW c \in 1..conns, CloseConn(c)
        PROVE  Rest' /\ UNCHANGED task /\ UNCHANGED claims
    <2>1. count' \in [Events -> Nat]
      BY <1>5, <1>t, CountType DEF CloseConn, Rest, Events
    <2> QED BY <1>5, <1>t, <2>1 DEF CloseConn, Rest, WorkingHasTurn
  <1> QED BY <1>1, <1>2, <1>3, <1>4, <1>5 DEF Outside

-----------------------------------------------------------------------------
(* Theorems *)

\* Every step keeps the invariant.
LEMMA InvStep ==
  ASSUME Inv, [Next]_vars
  PROVE  Inv'
  <1>1. ASSUME NEW k \in Tasks,
               OwnStep(k) \/ AgentStep(k) \/ \E kind \in Kinds : Call(k, kind)
        PROVE  Inv'
    <2>1. Rest'
      BY <1>1, CallRest
    <2>2. PICK u \in CallRec :
            /\ Become(k, u) /\ Claimed(u)
            /\ warming' \in BOOLEAN /\ loading' \in BOOLEAN /\ loaded' \in BOOLEAN
      BY <1>1, CallEffect DEF Effect
    <2>3. task' \in [Tasks -> CallRec] /\ \A j \in Tasks : Claimed(task'[j])
      BY <2>2 DEF Become, Inv, TypeOK
    <2> QED BY <2>1, <2>2, <2>3 DEF Inv, TypeOK, Rest, Claimed
  <1>2. CASE Outside
    <2>1. Rest' /\ UNCHANGED task /\ (UNCHANGED claims \/ Reopen)
      BY <1>2, OutsideRest
    <2>2. warming' \in BOOLEAN /\ loading' \in BOOLEAN /\ loaded' \in BOOLEAN
      BY <2>1 DEF Reopen, claims, Inv, TypeOK
    <2> QED BY <2>1, <2>2 DEF Inv, TypeOK, Rest, Claimed
  <1>3. CASE UNCHANGED vars
    BY <1>3 DEF vars, claims, procs, Inv, TypeOK, Claimed, WorkingHasTurn
  <1> QED BY <1>1, <1>2, <1>3 DEF Next, Outside

\* The invariant holds when the application starts.
LEMMA InvInit ==
  ASSUME Init
  PROVE  Inv
  <1>1. place \in {"here", "queued", "gone", "finished"}
    BY SessionStartAssumption DEF Init
  <1>2. entry \in Entry /\ ~entry.working
    BY AbsentType DEF Init
  <1>3. task \in [Tasks -> CallRec] /\ \A k \in Tasks : Claimed(task[k])
    BY NoCallType DEF Init
  <1>4. saved \in Nat /\ delivered \subseteq Nat
    BY DEF Init
  <1>5. count \in [Events -> Nat]
    BY DEF Init
  <1> QED BY <1>1, <1>2, <1>3, <1>4, <1>5 DEF Init, Inv, TypeOK, WorkingHasTurn

\* The invariant holds always.
THEOREM InvHolds == Spec => []Inv
  <1>1. Inv /\ [Next]_vars => Inv'
    BY InvStep
  <1> QED BY InvInit, <1>1, PTL DEF Spec

\* Every variable keeps its type, whatever the calls, bounds and faults.
THEOREM TypesHold == Spec => []TypeOK
  <1>1. Inv => TypeOK
    BY DEF Inv
  <1> QED BY InvHolds, <1>1, PTL

\* A key that reads working has a turn that will clear it (State.working,
\* turns.rs), however calls, deaths, drops, cancels and reopens interleave.
THEOREM WorkingIsBacked == Spec => []WorkingHasTurn
  <1>1. Inv => WorkingHasTurn
    BY DEF Inv
  <1> QED BY InvHolds, <1>1, PTL

\* Only a reopen counts one: whoever counted none before has counted none.
LEMMA ReopensCount ==
  ASSUME Inv, [Next]_vars, count'.reopens = 0
  PROVE  ~Reopen /\ count.reopens = 0
  <1>t. count \in [Events -> Nat]
    BY DEF Inv, TypeOK
  <1>1. ~Reopen
    BY <1>t DEF Reopen, Count, Events
  <1>2. ASSUME NEW event \in Events \ {"reopens"}, Count(event)
        PROVE  count'.reopens = count.reopens
    BY <1>2, <1>t DEF Count, Events
  <1>3. ASSUME NEW k \in Tasks,
               OwnStep(k) \/ AgentStep(k) \/ \E kind \in Kinds : Call(k, kind)
        PROVE  count' = count \/ Count("turns") \/ Count("calls")
    BY <1>3 DEF OwnStep, AgentStep, WarmCheck, ClaimWarm, WaitForHistory, EnsureLive,
        WaitForLive, LetWarmSettle, Timeout, ClaimHistory, Resolve, CheckPlan, Connect,
        Ready, Insert, Record, Adopt, Heal, ClaimPrefix, StartTurn, Initialize,
        OpenSession, Load, Call
  <1>4. CASE Outside
    BY <1>1, <1>2, <1>4 DEF Outside, EndTurn, CancelTurn, DropLive, MovePlan, CloseConn, Events
  <1>5. CASE UNCHANGED vars
    BY <1>1, <1>5 DEF vars
  <1> QED BY <1>1, <1>2, <1>3, <1>4, <1>5 DEF Next, Outside, Events

\* As long as no repository is opened again, the claims of start.rs are held
\* by exactly one call each: every way a call may return gives up what it
\* holds and nothing else.
THEOREM ClaimsAreOwned == Spec => []ClaimsOwned
  <1>1. Init => ClaimsOwned
    BY DEF Init, ClaimsOwned, NoCall
  <1>2. Inv /\ ClaimsOwned /\ [Next]_vars => ClaimsOwned'
    <2> SUFFICES ASSUME Inv, ClaimsOwned, [Next]_vars, count'.reopens = 0
                 PROVE  ClaimsOwned'
      BY DEF ClaimsOwned
    <2>0. ~Reopen /\ count.reopens = 0
      BY ReopensCount
    <2>1. ASSUME NEW k \in Tasks,
                 OwnStep(k) \/ AgentStep(k) \/ \E kind \in Kinds : Call(k, kind)
          PROVE  ClaimsOwned'
      <3>1. PICK u \in CallRec :
              /\ Become(k, u) /\ warming' \in BOOLEAN /\ loading' \in BOOLEAN
              /\ Moved(warming, warming', task[k].warm, u.warm)
              /\ Moved(loading, loading', task[k].hist, u.hist)
        BY <2>1, CallEffect DEF Effect
      <3>2. task'[k] = u /\ \A j \in Tasks \ {k} : task'[j] = task[j]
        BY <3>1 DEF Become, Inv, TypeOK
      <3>3. /\ warming' <=> \E j \in Tasks : task'[j].warm
            /\ \A i, j \in Tasks : task'[i].warm /\ task'[j].warm => i = j
        BY <2>0, <3>1, <3>2 DEF ClaimsOwned, Moved
      <3>4. /\ loading' <=> \E j \in Tasks : task'[j].hist
            /\ \A i, j \in Tasks : task'[i].hist /\ task'[j].hist => i = j
        BY <2>0, <3>1, <3>2 DEF ClaimsOwned, Moved
      <3> QED BY <3>3, <3>4 DEF ClaimsOwned
    <2>2. CASE Outside
      <3>1. UNCHANGED <<task, claims>>
        BY <2>0, <2>2, OutsideRest
      <3> QED BY <2>0, <3>1 DEF ClaimsOwned, claims
    <2>3. CASE UNCHANGED vars
      BY <2>0, <2>3 DEF vars, claims, ClaimsOwned
    <2> QED BY <2>1, <2>2, <2>3 DEF Next, Outside
  <1> QED BY <1>1, <1>2, InvHolds, PTL DEF Spec

=============================================================================
