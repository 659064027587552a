---------------------------- MODULE QueueProofs ----------------------------
(***************************************************************************)
(* Machine-checked theorems about Queue for every set of calls and every   *)
(* MaxSize: its types, that every accepted item is delivered once and      *)
(* counted right, that Join waits, and that no wakeup is lost.             *)
(***************************************************************************)
EXTENDS Queue, FiniteSetTheorems, TLAPS

(* Waking workers and moving one keeps worker a function to WorkerPC. *)
LEMMA WakeType ==
  ASSUME worker \in [Calls -> WorkerPC], NEW W
  PROVE  WakeAll(W) \in [Calls -> WorkerPC]
BY DEF WakeAll, WorkerPC

(* A worker that moves and wakes others leaves each at a place of the code. *)
LEMMA MoveType ==
  ASSUME worker \in [Calls -> WorkerPC], NEW c \in Calls, NEW pc \in WorkerPC, NEW W
  PROVE  MoveAndWake(c, pc, W) \in [Calls -> WorkerPC]
BY WakeType DEF MoveAndWake

(* The types of what a worker's completed critical section writes. *)
LEMMA CompleteType ==
  ASSUME TypeOK, NEW c \in Calls, ~MustWait(c), Complete(c)
  PROVE  /\ items' \in Seq(PutCalls) /\ unfinished' \in Nat /\ closed' \in BOOLEAN
         /\ worker' \in [Calls -> WorkerPC]
         /\ done' \in [Calls -> Answers \cup {"none"}]
         /\ got' \in [GetCalls -> PutCalls \cup {NoItem}]
<1> USE DEF TypeOK, Answers
<1>w. "exited" \in WorkerPC
  BY DEF WorkerPC
<1>1. CASE c \in PutCalls /\ putItem(c)
  <2>1. worker' \in [Calls -> WorkerPC]
    BY <1>1, <1>w, MoveType DEF putItem
  <2> QED
    BY <1>1, <2>1 DEF putItem
<1>2. CASE c \in GetCalls /\ getItem(c)
  <2>1. worker' \in [Calls -> WorkerPC]
    BY <1>2, <1>w, MoveType DEF getItem
  <2>2. items # <<>>
    BY <1>2 DEF MustWait, IsEmpty
  <2>3. Head(items) \in PutCalls /\ Tail(items) \in Seq(PutCalls)
    BY <2>2
  <2> QED
    BY <1>2, <2>1, <2>3 DEF getItem
<1>3. CASE c \in JoinCalls /\ Answer(c, "nil")
  BY <1>3, <1>w DEF Answer, queueVars
<1> QED
  BY <1>1, <1>2, <1>3 DEF Complete

(* A worker's step keeps the types. *)
LEMMA WorkerStepType ==
  ASSUME TypeOK, NEW c \in Calls, WorkerStep(c)
  PROVE  TypeOK'
<1> DEFINE T == /\ items' \in Seq(PutCalls) /\ unfinished' \in Nat /\ closed' \in BOOLEAN
                /\ worker' \in [Calls -> WorkerPC]
                /\ done' \in [Calls -> Answers \cup {"none"}]
                /\ got' \in [GetCalls -> PutCalls \cup {NoItem}]
<1>1. ASSUME NEW a \in Answers, Answer(c, a) PROVE T
  BY <1>1 DEF TypeOK, Answer, queueVars, WorkerPC
<1>2. ASSUME NEW pc \in WorkerPC, Goto(c, pc) PROVE T
  BY <1>2 DEF TypeOK, Goto, queueVars
<1>3. ASSUME LoopTest(c) PROVE T
  <2>1. CASE MustWait(c)
    BY <1>2, <1>3, <2>1 DEF LoopTest, WorkerPC
  <2>2. CASE ~MustWait(c)
    BY <1>3, <2>2, CompleteType DEF LoopTest
  <2> QED
    BY <2>1, <2>2
<1>4. ASSUME WorkerLock(c) PROVE T
  BY <1>1, <1>3, <1>4 DEF WorkerLock, Answers
<1>5. ASSUME WorkerCheck(c) PROVE T
  BY <1>1, <1>2, <1>5 DEF WorkerCheck, Answers, WorkerPC
<1>6. ASSUME WorkerRelock(c) PROVE T
  <2>1. CASE Complete(c) /\ ~MustWait(c)
    BY <2>1, CompleteType
  <2> QED
    BY <1>1, <1>2, <1>6, <2>1 DEF WorkerRelock, Answers, WorkerPC
<1>7. ASSUME WorkerWoken(c) PROVE T
  BY <1>3, <1>7 DEF WorkerWoken
<1>8. T
  BY <1>4, <1>5, <1>6, <1>7 DEF WorkerStep
<1> HIDE DEF T
<1>9. UNCHANGED <<call, result, clientVars>>
  BY DEF WorkerStep
<1> QED
  BY <1>8, <1>9 DEF TypeOK, T, clientVars

(* A caller's step keeps the types. *)
LEMMA CallerStepType ==
  ASSUME TypeOK, NEW c \in Calls, CallerStep(c)
  PROVE  TypeOK'
<1> USE DEF TypeOK, queueVars, clientVars
<1>1. ASSUME NEW r \in Answers, Receive(c, r) PROVE TypeOK'
  BY <1>1 DEF Receive, CallerPC
<1>2. CASE SelectDone(c)
  BY <1>1, <1>2 DEF SelectDone, Receive
<1>3. CASE SelectCancelled(c)
  BY <1>3 DEF SelectCancelled, CallerPC
<1>4. CASE CancelBroadcast(c)
  BY <1>4, WakeType DEF CancelBroadcast, CallerPC
<1>5. CASE Drain(c)
  <2>1. "ctx" \in Answers
    BY DEF Answers
  <2> QED
    BY <1>1, <1>5, <2>1 DEF Drain, Receive
<1> QED
  BY <1>2, <1>3, <1>4, <1>5 DEF CallerStep

(* What was accepted is a set of put calls. *)
LEMMA AcceptedType ==
  ASSUME TypeOK
  PROVE  Accepted \subseteq PutCalls
<1>1. \A i \in DOMAIN items : items[i] \in PutCalls
  BY DEF TypeOK
<1> QED
  BY <1>1 DEF TypeOK, Accepted, Occupants

(* A fresh queue has its type. *)
LEMMA InitType == Init => TypeOK
<1> SUFFICES ASSUME Init PROVE TypeOK
  OBVIOUS
<1>1. items \in Seq(PutCalls) /\ unfinished \in Nat /\ closed \in BOOLEAN
  <2>1. <<>> \in Seq(PutCalls)
    OBVIOUS
  <2> QED
    BY <2>1 DEF Init
<1>2. call \in [Calls -> CallerPC] /\ worker \in [Calls -> WorkerPC]
  BY DEF Init, CallerPC, WorkerPC
<1>3. /\ done \in [Calls -> Answers \cup {"none"}]
      /\ result \in [Calls -> Answers \cup {"none"}]
      /\ got \in [GetCalls -> PutCalls \cup {NoItem}]
  BY DEF Init
<1>4. ctxDone \in SUBSET Calls /\ processed \in SUBSET GetCalls
  BY DEF Init
<1>5. mustFinish \in [JoinCalls -> SUBSET PutCalls]
  BY DEF Init
<1> QED
  BY <1>1, <1>2, <1>3, <1>4, <1>5 DEF TypeOK

(* Every step of a client or a worker keeps the type. *)
LEMMA NextType == TypeOK /\ [Next]_vars => TypeOK'
<1> SUFFICES ASSUME TypeOK, [Next]_vars PROVE TypeOK'
  OBVIOUS
<1>1. ASSUME NEW c \in Calls, Start(c) PROVE TypeOK'
  <2>1. mustFinish' \in [JoinCalls -> SUBSET PutCalls]
    BY <1>1, AcceptedType DEF Start, TypeOK
  <2>2. worker' \in [Calls -> WorkerPC] /\ call' \in [Calls -> CallerPC]
    BY <1>1 DEF Start, TypeOK, CallerPC, WorkerPC
  <2> QED
    BY <1>1, <2>1, <2>2 DEF Start, TypeOK, queueVars
<1>2. ASSUME NEW c \in Calls, CancelContext(c) PROVE TypeOK'
  BY <1>2 DEF CancelContext, TypeOK, queueVars
<1>3. ASSUME NEW p \in PutCalls, PutNowait(p) PROVE TypeOK'
  <2>1. worker' \in [Calls -> WorkerPC]
    BY <1>3, WakeType DEF PutNowait, Refuse, TypeOK
  <2>2. items' \in Seq(PutCalls) /\ unfinished' \in Nat
    BY <1>3, SMTT(30) DEF PutNowait, Refuse, TypeOK, queueVars
  <2>3. UNCHANGED <<closed, got, done, clientVars>>
    BY <1>3 DEF PutNowait, Refuse, queueVars
  <2>4. result' \in [Calls -> Answers \cup {"none"}] /\ call' \in [Calls -> CallerPC]
    BY <1>3 DEF PutNowait, Refuse, TypeOK, Calls, Answers, CallerPC
  <2> QED
    BY <2>1, <2>2, <2>3, <2>4 DEF TypeOK, clientVars
<1>4. ASSUME NEW g \in GetCalls, GetNowait(g) PROVE TypeOK'
  <2>1. worker' \in [Calls -> WorkerPC]
    BY <1>4, WakeType DEF GetNowait, Refuse, TypeOK
  <2>2. /\ items' \in Seq(PutCalls)
        /\ got' \in [GetCalls -> PutCalls \cup {NoItem}]
    <3>1. CASE IsEmpty
      BY <1>4, <3>1 DEF GetNowait, Refuse, TypeOK, queueVars
    <3>2. CASE ~IsEmpty
      <4>1. Head(items) \in PutCalls /\ Tail(items) \in Seq(PutCalls)
        BY <3>2 DEF IsEmpty, TypeOK
      <4> QED
        BY <1>4, <3>2, <4>1 DEF GetNowait, TypeOK
    <3> QED
      BY <3>1, <3>2
  <2>3. UNCHANGED <<unfinished, closed, done, clientVars>>
    BY <1>4 DEF GetNowait, Refuse, queueVars
  <2>4. result' \in [Calls -> Answers \cup {"none"}] /\ call' \in [Calls -> CallerPC]
    <3>1. \E r \in Answers : result' = [result EXCEPT ![g] = r]
      BY <1>4 DEF GetNowait, Refuse, Answers
    <3> QED
      BY <1>4, <3>1 DEF GetNowait, TypeOK, Calls, CallerPC
  <2> QED
    BY <2>1, <2>2, <2>3, <2>4 DEF TypeOK, clientVars
<1>5. ASSUME NEW g \in GetCalls, TaskDone(g) PROVE TypeOK'
  <2>1. worker' \in [Calls -> WorkerPC]
    BY <1>5, WakeType DEF TaskDone, TypeOK
  <2> QED
    BY <1>5, <2>1 DEF TaskDone, TypeOK
<1>6. CASE Close
  BY <1>6, WakeType DEF Close, TypeOK, clientVars
<1>7. CASE UNCHANGED vars
  BY <1>7 DEF vars, TypeOK
<1> QED
  BY <1>1, <1>2, <1>3, <1>4, <1>5, <1>6, <1>7, WorkerStepType, CallerStepType DEF Next

(* The state of the queue stays well typed: in particular Get and GetNowait *)
(* take the head of a non-empty sequence only.                              *)
THEOREM TypeCorrect == Spec => []TypeOK
  BY InitType, NextType, PTL DEF Spec

-----------------------------------------------------------------------------
(* The queue delivers every accepted item once and counts them right.      *)
(*                                                                         *)
(* The argument: a step of the queue has one of four effects on the items, *)
(* the gets and the count (Enqueue, Dequeue, Finish, or none), a call has  *)
(* its effect once, when it settles, and settled calls stay settled.       *)

\* A settled call has been made and has no worker that could still act.
Settled(c) == call[c] # "idle" /\ worker[c] \in {"exited", "none"}

Lifecycle ==
  /\ \A c \in Calls : call[c] = "idle" => worker[c] = "none"
  /\ \A p \in Accepted : Settled(p)
  /\ \A g \in GetCalls : got[g] # NoItem => Settled(g)
  /\ \A g \in GetCalls : done[g] = "nil" \/ result[g] = "nil" => got[g] # NoItem
  /\ \A g \in processed : got[g] # NoItem

Enqueue(p) ==
  /\ p \in PutCalls /\ ~Settled(p) /\ Settled(p)'
  /\ ~IsFull
  /\ items' = Append(items, p) /\ unfinished' = unfinished + 1
  /\ UNCHANGED <<got, processed>>

Dequeue(g) ==
  /\ g \in GetCalls /\ ~Settled(g) /\ Settled(g)'
  /\ items # <<>>
  /\ items' = Tail(items) /\ got' = [got EXCEPT ![g] = Head(items)]
  /\ UNCHANGED <<unfinished, processed>>

Finish(g) ==
  /\ g \in GetCalls /\ got[g] # NoItem /\ g \notin processed
  /\ unfinished > 0
  /\ unfinished' = unfinished - 1 /\ processed' = processed \cup {g}
  /\ UNCHANGED <<items, got>>

NoEffect == UNCHANGED <<items, got, unfinished, processed>>

Effect ==
  \/ \E p \in PutCalls : Enqueue(p)
  \/ \E g \in GetCalls : Dequeue(g)
  \/ \E g \in GetCalls : Finish(g)
  \/ NoEffect

(* What the lifecycle needs of a step besides its effect: settled calls stay  *)
(* settled, an idle call has no worker, and a get succeeds only with an item. *)
Progress ==
  /\ \A c \in Calls : Settled(c) => Settled(c)'
  /\ \A c \in Calls : call'[c] = "idle" => worker'[c] = "none"
  /\ \A g \in GetCalls :
       done'[g] = "nil" \/ result'[g] = "nil" =>
         done[g] = "nil" \/ result[g] = "nil" \/ got'[g] # NoItem

-----------------------------------------------------------------------------
(* Waking up sleepers settles and unsettles nobody. *)
LEMMA WakeUnsettled ==
  ASSUME TypeOK, NEW W, NEW S, W \in Signal(S) \/ W = Broadcast(S), NEW c \in Calls
  PROVE  worker[c] \in {"exited", "none"} => WakeAll(W)[c] = worker[c]
<1>1. W \subseteq Sleeping(S)
  BY DEF Signal, Broadcast
<1>2. c \in W => worker[c] = "wait"
  BY <1>1 DEF Sleeping
<1> QED
  BY <1>2 DEF WakeAll

(* A completed worker has its call's effect. *)
LEMMA CompleteEffect ==
  ASSUME TypeOK, Lifecycle, NEW c \in Calls, ~MustWait(c), Complete(c),
         worker[c] \notin {"exited", "none"}, UNCHANGED <<call, result, clientVars>>
  PROVE  Effect /\ Progress
<1>c. call[c] # "idle" /\ ~Settled(c)
  BY DEF Lifecycle, Settled
<1>d. PutCalls \cap GetCalls = {} /\ (PutCalls \cup GetCalls) \cap JoinCalls = {}
  BY CallsAssumption
<1>1. CASE c \in PutCalls /\ putItem(c)
  <2>1. PICK W \in Signal(GetCalls) : worker' = MoveAndWake(c, "exited", W)
    BY <1>1 DEF putItem
  <2>2. worker'[c] = "exited"
    BY <2>1 DEF MoveAndWake, WakeAll
  <2>3. ASSUME NEW d \in Calls, d # c PROVE worker'[d] = WakeAll(W)[d]
    BY <2>1, <2>3 DEF MoveAndWake, WakeAll
  <2>4. Enqueue(c)
    BY <1>1, <1>c, <2>2 DEF putItem, Enqueue, Settled, clientVars, MustWait
  <2>5. Progress
    <3>1. \A d \in Calls : Settled(d) => Settled(d)'
      BY <1>c, <2>3, WakeUnsettled DEF Settled
    <3>2. \A d \in Calls : call'[d] = "idle" => worker'[d] = "none"
      BY <1>c, <2>3, WakeUnsettled DEF Lifecycle
    <3>3. \A g \in GetCalls : done'[g] = done[g] /\ result'[g] = result[g]
      BY <1>1, <1>d DEF putItem, TypeOK, Calls
    <3> QED
      BY <3>1, <3>2, <3>3 DEF Progress
  <2> QED
    BY <1>1, <2>4, <2>5 DEF Effect
<1>2. CASE c \in GetCalls /\ getItem(c)
  <2>1. PICK W \in Signal(PutCalls) : worker' = MoveAndWake(c, "exited", W)
    BY <1>2 DEF getItem
  <2>2. worker'[c] = "exited"
    BY <2>1 DEF MoveAndWake, WakeAll
  <2>3. ASSUME NEW d \in Calls, d # c PROVE worker'[d] = WakeAll(W)[d]
    BY <2>1, <2>3 DEF MoveAndWake, WakeAll
  <2>4. Dequeue(c)
    BY <1>2, <1>c, <2>2 DEF getItem, Dequeue, Settled, clientVars, MustWait, IsEmpty
  <2>5. Progress
    <3>1. \A d \in Calls : Settled(d) => Settled(d)'
      BY <1>c, <2>3, WakeUnsettled DEF Settled
    <3>2. \A d \in Calls : call'[d] = "idle" => worker'[d] = "none"
      BY <1>c, <2>3, WakeUnsettled DEF Lifecycle
    <3>3. \A g \in GetCalls : result'[g] = result[g] /\ (g # c => done'[g] = done[g])
      BY <1>2 DEF getItem, TypeOK, Calls
    <3>4. got'[c] # NoItem
      <4>1. Head(items) \in PutCalls
        BY <2>4 DEF Dequeue, TypeOK
      <4> QED
        BY <1>2, <4>1, NoItemAssumption DEF getItem, TypeOK
    <3> QED
      BY <3>1, <3>2, <3>3, <3>4 DEF Progress
  <2> QED
    BY <1>2, <2>4, <2>5 DEF Effect
<1>3. CASE c \in JoinCalls /\ Answer(c, "nil")
  <2>1. NoEffect
    BY <1>3 DEF Answer, queueVars, clientVars, NoEffect
  <2>2. \A d \in Calls : worker'[d] = IF d = c THEN "exited" ELSE worker[d]
    BY <1>3 DEF Answer, TypeOK
  <2>3. \A g \in GetCalls : done'[g] = done[g] /\ result'[g] = result[g]
    BY <1>3, <1>d DEF Answer, TypeOK, Calls
  <2>4. Progress
    BY <1>c, <2>2, <2>3 DEF Progress, Settled, Lifecycle
  <2> QED
    BY <2>1, <2>4 DEF Effect
<1> QED
  BY <1>1, <1>2, <1>3 DEF Complete

(* A worker step that completes nothing moves its own worker only. *)
LEMMA MoveEffect ==
  ASSUME TypeOK, Lifecycle, NEW c \in Calls, worker[c] \notin {"exited", "none"},
         NEW pc \in WorkerPC \ {"none"}, worker' = [worker EXCEPT ![c] = pc],
         NoEffect, UNCHANGED <<call, result>>,
         \A g \in GetCalls : done'[g] = "nil" => done[g] = "nil"
  PROVE  Effect /\ Progress
<1>1. call[c] # "idle" /\ ~Settled(c)
  BY DEF Lifecycle, Settled
<1>2. \A d \in Calls : worker'[d] = IF d = c THEN pc ELSE worker[d]
  BY DEF TypeOK
<1> QED
  BY <1>1, <1>2 DEF Effect, Progress, Settled, Lifecycle

(* What a worker's step may do to the items and to the other calls. *)
LEMMA WorkerStepEffect ==
  ASSUME TypeOK, Lifecycle, NEW c \in Calls, WorkerStep(c)
  PROVE  Effect /\ Progress
<1>f. UNCHANGED <<call, result, clientVars>>
  BY DEF WorkerStep
<1>w. worker[c] \notin {"exited", "none"}
  BY DEF WorkerStep, WorkerLock, WorkerCheck, WorkerRelock, WorkerWoken
<1>1. ASSUME NEW a \in {"closed", "ctx"}, Answer(c, a) PROVE Effect /\ Progress
  <2>1. NoEffect /\ "exited" \in WorkerPC \ {"none"}
    BY <1>1, <1>f DEF Answer, queueVars, clientVars, NoEffect, WorkerPC
  <2>2. \A g \in GetCalls : done'[g] = "nil" => done[g] = "nil"
    BY <1>1 DEF Answer, TypeOK
  <2>3. worker' = [worker EXCEPT ![c] = "exited"]
    BY <1>1 DEF Answer
  <2> QED
    BY <2>1, <2>2, <2>3, <1>f, <1>w, MoveEffect
<1>2. ASSUME NEW pc \in WorkerPC \ {"none"}, Goto(c, pc) PROVE Effect /\ Progress
  <2>1. NoEffect /\ UNCHANGED done /\ worker' = [worker EXCEPT ![c] = pc]
    BY <1>2, <1>f DEF Goto, queueVars, clientVars, NoEffect
  <2> QED
    BY <2>1, <1>f, <1>w, MoveEffect
<1>3. ASSUME Complete(c), ~MustWait(c) PROVE Effect /\ Progress
  BY <1>3, <1>f, <1>w, CompleteEffect
<1>4. ASSUME LoopTest(c) PROVE Effect /\ Progress
  BY <1>2, <1>3, <1>4 DEF LoopTest, WorkerPC
<1>5. ASSUME WorkerLock(c) PROVE Effect /\ Progress
  BY <1>1, <1>4, <1>5 DEF WorkerLock
<1>6. ASSUME WorkerCheck(c) PROVE Effect /\ Progress
  BY <1>1, <1>2, <1>6 DEF WorkerCheck, WorkerPC
<1>7. ASSUME WorkerRelock(c) PROVE Effect /\ Progress
  BY <1>1, <1>2, <1>3, <1>7 DEF WorkerRelock, WorkerPC
<1>8. ASSUME WorkerWoken(c) PROVE Effect /\ Progress
  BY <1>4, <1>8 DEF WorkerWoken
<1> QED
  BY <1>5, <1>6, <1>7, <1>8 DEF WorkerStep

(* What a caller's step may do to them. *)
LEMMA CallerStepEffect ==
  ASSUME TypeOK, Lifecycle, NEW c \in Calls, CallerStep(c)
  PROVE  Effect /\ Progress
<1>1. NoEffect
  BY DEF CallerStep, SelectDone, SelectCancelled, CancelBroadcast, Drain, Receive,
         queueVars, clientVars, NoEffect
<1>2. /\ call[c] # "idle" /\ call'[c] # "idle"
      /\ \A d \in Calls : d # c => call'[d] = call[d]
  BY DEF CallerStep, SelectDone, SelectCancelled, CancelBroadcast, Drain, Receive, TypeOK
<1>3. \A d \in Calls : worker[d] \in {"exited", "none"} => worker'[d] = worker[d]
  <2>1. CASE CancelBroadcast(c)
    BY <2>1, WakeUnsettled DEF CancelBroadcast
  <2>2. CASE UNCHANGED worker
    BY <2>2
  <2> QED
    BY <2>1, <2>2 DEF CallerStep, SelectDone, SelectCancelled, Drain, Receive
<1>4. \A g \in GetCalls : done'[g] = "nil" \/ result'[g] = "nil" => done[g] = "nil" \/ result[g] = "nil"
  <2>1. CASE UNCHANGED <<done, result>>
    BY <2>1
  <2>2. ASSUME NEW r, r = "ctx" \/ r = done[c], Receive(c, r)
        PROVE \A g \in GetCalls :
                done'[g] = "nil" \/ result'[g] = "nil" => done[g] = "nil" \/ result[g] = "nil"
    BY <2>2 DEF Receive, TypeOK, Calls
  <2> QED
    BY <2>1, <2>2 DEF CallerStep, SelectDone, SelectCancelled, CancelBroadcast, Drain
<1>5. \A d \in Calls : Settled(d) => Settled(d)'
  BY <1>2, <1>3 DEF Settled
<1>6. \A d \in Calls : call'[d] = "idle" => worker'[d] = "none"
  BY <1>2, <1>3 DEF Lifecycle
<1> QED
  BY <1>1, <1>4, <1>5, <1>6 DEF Effect, Progress

(* The calls of clients, Close, and the end of a context. *)
LEMMA ClientStepEffect ==
  ASSUME TypeOK, Lifecycle,
         \/ \E c \in Calls : Start(c) \/ CancelContext(c)
         \/ \E p \in PutCalls : PutNowait(p)
         \/ \E g \in GetCalls : GetNowait(g) \/ TaskDone(g)
         \/ Close
  PROVE  Effect /\ Progress
<1>d. PutCalls \cap GetCalls = {}
  BY CallsAssumption
<1>1. ASSUME NEW c \in Calls, Start(c) PROVE Effect /\ Progress
  <2>1. NoEffect
    BY <1>1 DEF Start, queueVars, NoEffect
  <2>2. \A d \in Calls : d # c => call'[d] = call[d] /\ worker'[d] = worker[d]
    BY <1>1 DEF Start, TypeOK
  <2>3. call[c] = "idle" /\ call'[c] = "select"
    BY <1>1 DEF Start, TypeOK
  <2>4. UNCHANGED <<done, result>>
    BY <1>1 DEF Start
  <2>5. \A d \in Calls : Settled(d) => Settled(d)'
    BY <2>2, <2>3 DEF Settled
  <2>6. \A d \in Calls : call'[d] = "idle" => worker'[d] = "none"
    BY <2>2, <2>3 DEF Lifecycle
  <2> QED
    BY <2>1, <2>4, <2>5, <2>6 DEF Effect, Progress
<1>2. ASSUME NEW c \in Calls, CancelContext(c) PROVE Effect /\ Progress
  BY <1>2 DEF CancelContext, queueVars, NoEffect, Effect, Progress, Settled, Lifecycle
<1>3. ASSUME NEW c \in Calls, NEW S, NEW W, W \in Signal(S),
             call[c] = "idle", call' = [call EXCEPT ![c] = "returned"], worker' = WakeAll(W)
      PROVE  /\ ~Settled(c) /\ Settled(c)'
             /\ \A d \in Calls : Settled(d) => Settled(d)'
             /\ \A d \in Calls : call'[d] = "idle" => worker'[d] = "none"
  <2>1. \A d \in Calls : worker[d] \in {"exited", "none"} => worker'[d] = worker[d]
    BY <1>3, WakeUnsettled
  <2>2. /\ call'[c] = "returned"
        /\ \A d \in Calls : d # c => call'[d] = call[d]
    BY <1>3 DEF TypeOK
  <2> QED
    BY <1>3, <2>1, <2>2 DEF Settled, Lifecycle
<1>4. ASSUME NEW c \in Calls, NEW r, r # "nil", Refuse(c, r), UNCHANGED <<done, clientVars>>,
             call[c] = "idle", call' = [call EXCEPT ![c] = "returned"]
      PROVE  Effect /\ Progress
  <2>1. NoEffect
    BY <1>4 DEF Refuse, queueVars, clientVars, NoEffect
  <2>2. /\ call'[c] = "returned" /\ UNCHANGED <<worker, done>>
        /\ \A d \in Calls : d # c => call'[d] = call[d]
    BY <1>4 DEF Refuse, TypeOK
  <2>3. \A g \in GetCalls : result'[g] = "nil" => result[g] = "nil"
    BY <1>4 DEF Refuse, TypeOK
  <2>4. \A d \in Calls : Settled(d) => Settled(d)'
    BY <1>4, <2>2 DEF Settled
  <2>5. \A d \in Calls : call'[d] = "idle" => worker'[d] = "none"
    BY <2>2 DEF Lifecycle
  <2> QED
    BY <2>1, <2>2, <2>3, <2>4, <2>5 DEF Effect, Progress
<1>5. ASSUME NEW p \in PutCalls, PutNowait(p) PROVE Effect /\ Progress
  <2>1. CASE closed \/ IsFull
    BY <1>4, <1>5, <2>1 DEF PutNowait, Calls
  <2>2. CASE ~closed /\ ~IsFull
    <3>1. PICK W \in Signal(GetCalls) : worker' = WakeAll(W)
      BY <1>5, <2>2 DEF PutNowait
    <3>2. /\ ~Settled(p) /\ Settled(p)'
          /\ \A d \in Calls : Settled(d) => Settled(d)'
          /\ \A d \in Calls : call'[d] = "idle" => worker'[d] = "none"
      BY <1>3, <1>5, <3>1 DEF PutNowait, Calls
    <3>3. Enqueue(p)
      BY <1>5, <2>2, <3>2 DEF PutNowait, Enqueue, clientVars
    <3>4. \A g \in GetCalls : done'[g] = done[g] /\ result'[g] = result[g]
      BY <1>5, <2>2, <1>d DEF PutNowait, TypeOK, Calls
    <3> QED
      BY <3>2, <3>3, <3>4 DEF Effect, Progress
  <2> QED
    BY <2>1, <2>2
<1>6. ASSUME NEW g \in GetCalls, GetNowait(g) PROVE Effect /\ Progress
  <2>1. CASE IsEmpty
    BY <1>4, <1>6, <2>1 DEF GetNowait, Calls
  <2>2. CASE ~IsEmpty
    <3>1. PICK W \in Signal(PutCalls) : worker' = WakeAll(W)
      BY <1>6, <2>2 DEF GetNowait
    <3>2. /\ ~Settled(g) /\ Settled(g)'
          /\ \A d \in Calls : Settled(d) => Settled(d)'
          /\ \A d \in Calls : call'[d] = "idle" => worker'[d] = "none"
      BY <1>3, <1>6, <3>1 DEF GetNowait, Calls
    <3>3. Dequeue(g)
      BY <1>6, <2>2, <3>2 DEF GetNowait, Dequeue, clientVars, IsEmpty
    <3>4. got'[g] # NoItem
      <4>1. Head(items) \in PutCalls
        BY <3>3 DEF Dequeue, TypeOK
      <4> QED
        BY <3>3, <4>1, NoItemAssumption DEF Dequeue, TypeOK
    <3>5. \A h \in GetCalls : done'[h] = done[h] /\ (h # g => result'[h] = result[h])
      BY <1>6, <2>2 DEF GetNowait, TypeOK, Calls
    <3> QED
      BY <3>2, <3>3, <3>4, <3>5 DEF Effect, Progress
  <2> QED
    BY <2>1, <2>2
<1>7. ASSUME NEW W, NEW S, W = Broadcast(S), worker' = WakeAll(W), UNCHANGED <<call, done, result>>
      PROVE  Progress
  <2>1. \A d \in Calls : worker[d] \in {"exited", "none"} => worker'[d] = worker[d]
    BY <1>7, WakeUnsettled
  <2> QED
    BY <1>7, <2>1 DEF Progress, Settled, Lifecycle
<1>8. ASSUME NEW g \in GetCalls, TaskDone(g) PROVE Effect /\ Progress
  <2>1. got[g] # NoItem
    BY <1>8 DEF TaskDone, Lifecycle
  <2>2. CASE unfinished <= 0
    BY <1>8, <2>2 DEF TaskDone, NoEffect, Effect, Progress, Settled, Lifecycle
  <2>3. CASE ~(unfinished <= 0)
    <3>1. unfinished > 0
      BY <2>3 DEF TypeOK
    <3>2. Finish(g)
      BY <1>8, <2>1, <2>3, <3>1 DEF TaskDone, Finish
    <3>3. Broadcast({}) = {}
      BY DEF Broadcast, Sleeping
    <3>4. \E S : worker' = WakeAll(Broadcast(S))
      BY <1>8, <2>3, <3>3 DEF TaskDone
    <3>5. Progress
      BY <1>7, <1>8, <3>4 DEF TaskDone
    <3> QED
      BY <3>2, <3>5 DEF Effect
  <2> QED
    BY <2>2, <2>3
<1>9. ASSUME Close PROVE Effect /\ Progress
  <2>1. NoEffect
    BY <1>9 DEF Close, clientVars, NoEffect
  <2> QED
    BY <1>7, <1>9, <2>1 DEF Close, Effect
<1> QED
  BY <1>1, <1>2, <1>5, <1>6, <1>8, <1>9

(* Every step of the queue. *)
LEMMA StepEffect ==
  ASSUME TypeOK, Lifecycle, [Next]_vars
  PROVE  Effect /\ Progress
<1>1. CASE UNCHANGED vars
  BY <1>1 DEF vars, NoEffect, Effect, Progress, Settled, Lifecycle
<1> QED
  BY <1>1, WorkerStepEffect, CallerStepEffect, ClientStepEffect DEF Next

-----------------------------------------------------------------------------
(* The items after an enqueue and after a dequeue. *)
LEMMA AppendItems ==
  ASSUME TypeOK, NEW p \in PutCalls, items' = Append(items, p)
  PROVE  /\ Len(items') = Len(items) + 1 /\ DOMAIN items' = 1..(Len(items) + 1)
         /\ \A i \in DOMAIN items : i \in DOMAIN items' /\ items'[i] = items[i]
         /\ items'[Len(items) + 1] = p
         /\ DOMAIN items = 1..Len(items) /\ Len(items) \in Nat
         /\ \A i \in DOMAIN items' : i \in DOMAIN items \/ i = Len(items) + 1
  BY DEF TypeOK

(* What taking the first item leaves. *)
LEMMA TailItems ==
  ASSUME TypeOK, items # <<>>, items' = Tail(items)
  PROVE  /\ Len(items') = Len(items) - 1 /\ Len(items) \in Nat
         /\ Head(items) = items[1] /\ 1 \in DOMAIN items /\ Head(items) \in PutCalls
         /\ \A i \in DOMAIN items' : i \in Nat \ {0} /\ i + 1 \in DOMAIN items /\ items'[i] = items[i + 1]
  BY DEF TypeOK

(* The lifecycle and the single delivery are inductive, given the types. *)
LEMMA LifecycleStep ==
  ASSUME TypeOK, TypeOK', Lifecycle, [Next]_vars
  PROVE  Lifecycle'
<1>1. Effect /\ Progress
  BY StepEffect
<1>2. \A c \in Calls : call'[c] = "idle" => worker'[c] = "none"
  BY <1>1 DEF Progress
<1>3. PutCalls \subseteq Calls /\ GetCalls \subseteq Calls
  BY DEF Calls
<1>4. \A q \in Accepted' : q \in Accepted \/ (q \in PutCalls /\ Settled(q)')
  <2>1. ASSUME NEW p \in PutCalls, Enqueue(p)
        PROVE \A q \in Accepted' : q \in Accepted \/ (q \in PutCalls /\ Settled(q)')
    <3>1. \A i \in DOMAIN items' : items'[i] \in Occupants \/ items'[i] = p
      BY <2>1, AppendItems DEF Enqueue, Occupants
    <3> QED
      BY <2>1, <3>1 DEF Enqueue, Accepted, Occupants
  <2>2. ASSUME NEW g \in GetCalls, Dequeue(g)
        PROVE \A q \in Accepted' : q \in Accepted
    <3>1. \A i \in DOMAIN items' : items'[i] \in Occupants
      BY <2>2, TailItems DEF Dequeue, Occupants
    <3>2. Head(items) \in Occupants
      BY <2>2, TailItems DEF Dequeue, Occupants
    <3>3. \A h \in GetCalls : got'[h] = got[h] \/ got'[h] = Head(items)
      BY <2>2 DEF Dequeue, TypeOK
    <3> QED
      BY <3>1, <3>2, <3>3 DEF Accepted, Occupants
  <2>3. CASE UNCHANGED <<items, got>>
    BY <2>3 DEF Accepted, Occupants
  <2> QED
    BY <1>1, <2>1, <2>2, <2>3 DEF Effect, Finish, NoEffect
<1>5. \A p \in Accepted' : Settled(p)'
  BY <1>1, <1>3, <1>4, AcceptedType DEF Progress, Lifecycle
<1>6. \A g \in GetCalls : got'[g] = got[g] \/ Settled(g)'
  BY <1>1 DEF Effect, Enqueue, Dequeue, Finish, NoEffect, TypeOK
<1>7. \A g \in GetCalls : got'[g] # NoItem => Settled(g)'
  BY <1>1, <1>3, <1>6 DEF Progress, Lifecycle
<1>8. \A g \in GetCalls : got[g] # NoItem => got'[g] # NoItem
  <2>1. ASSUME NEW g \in GetCalls, Dequeue(g) PROVE \A h \in GetCalls : got[h] # NoItem => got'[h] # NoItem
    BY <2>1, TailItems, NoItemAssumption DEF Dequeue, TypeOK
  <2> QED
    BY <1>1, <2>1 DEF Effect, Enqueue, Finish, NoEffect
<1>9. \A g \in GetCalls : done'[g] = "nil" \/ result'[g] = "nil" => got'[g] # NoItem
  BY <1>1, <1>8 DEF Progress, Lifecycle
<1>10. \A g \in processed' : got'[g] # NoItem
  BY <1>1, <1>8 DEF Effect, Enqueue, Dequeue, Finish, NoEffect, Lifecycle, TypeOK
<1> QED
  BY <1>2, <1>5, <1>7, <1>9, <1>10 DEF Lifecycle

(* Every step keeps an accepted item in one place. *)
LEMMA DeliveredOnceStep ==
  ASSUME TypeOK, Lifecycle, DeliveredOnce, [Next]_vars
  PROVE  DeliveredOnce'
<1>1. Effect
  BY StepEffect
<1>2. ASSUME NEW p \in PutCalls, Enqueue(p) PROVE DeliveredOnce'
  <2>1. p \notin Accepted /\ p # NoItem
    BY <1>2, NoItemAssumption DEF Enqueue, Lifecycle
  <2>2. /\ \A i \in DOMAIN items : items[i] # p
        /\ \A g \in GetCalls : got[g] # p
    BY <2>1 DEF Accepted, Occupants
  <2>3. \A i, k \in DOMAIN items' : items'[i] = items'[k] => i = k
    BY <1>2, <2>2, AppendItems DEF Enqueue, DeliveredOnce
  <2>4. \A g \in GetCalls : got'[g] \notin Occupants'
    <3>1. \A i \in DOMAIN items' : items'[i] \in Occupants \/ items'[i] = p
      BY <1>2, AppendItems DEF Enqueue, Occupants
    <3> QED
      BY <1>2, <2>2, <3>1 DEF Enqueue, DeliveredOnce, Occupants
  <2>5. UNCHANGED got
    BY <1>2 DEF Enqueue
  <2> QED
    BY <2>3, <2>4, <2>5 DEF DeliveredOnce
<1>3. ASSUME NEW g \in GetCalls, Dequeue(g) PROVE DeliveredOnce'
  <2>1. \A i \in DOMAIN items' : items'[i] \in Occupants /\ items'[i] # Head(items)
    <3>1. \A i \in DOMAIN items' : i + 1 # 1
      BY <1>3, TailItems DEF Dequeue
    <3> QED
      BY <1>3, <3>1, TailItems DEF Dequeue, Occupants, DeliveredOnce
  <2>2. \A i, k \in DOMAIN items' : items'[i] = items'[k] => i = k
    <3>1. \A i, k \in DOMAIN items' : i + 1 = k + 1 => i = k
      BY <1>3, TailItems DEF Dequeue
    <3> QED
      BY <1>3, <3>1, TailItems DEF Dequeue, DeliveredOnce
  <2>3. Head(items) \in Occupants
    BY <1>3, TailItems DEF Dequeue, Occupants
  <2>4. \A h \in GetCalls : got'[h] = IF h = g THEN Head(items) ELSE got[h]
    BY <1>3 DEF Dequeue, TypeOK
  <2>5. \A h \in GetCalls : got'[h] \notin Occupants'
    BY <2>1, <2>4 DEF DeliveredOnce, Occupants
  <2>6. \A h, k \in GetCalls : got'[h] = got'[k] /\ got'[h] # NoItem => h = k
    BY <2>3, <2>4 DEF DeliveredOnce
  <2> QED
    BY <2>2, <2>5, <2>6 DEF DeliveredOnce
<1>4. CASE UNCHANGED <<items, got>>
  BY <1>4 DEF DeliveredOnce, Occupants
<1> QED
  BY <1>1, <1>2, <1>3, <1>4 DEF Effect, Finish, NoEffect

Taken == {g \in GetCalls : got[g] # NoItem} \ processed

(* Every step keeps the unfinished count. *)
LEMMA AccountingStep ==
  ASSUME TypeOK, Lifecycle, Accounting, [Next]_vars
  PROVE  Accounting'
<1>1. Effect
  BY StepEffect
<1>2. IsFiniteSet(GetCalls) /\ Taken \subseteq GetCalls
  BY CallsAssumption DEF Taken
<1>3. IsFiniteSet(Taken) /\ Cardinality(Taken) \in Nat
  BY <1>2, FS_Subset, FS_CardinalityType
<1>4. /\ unfinished = Len(items) + Cardinality(Taken)
      /\ MaxSize > 0 => Len(items) <= MaxSize
  BY DEF Accounting, Taken
<1>5. SUFFICES /\ unfinished' = Len(items') + Cardinality(Taken')
               /\ MaxSize > 0 => Len(items') <= MaxSize
  BY DEF Accounting, Taken
<1>6. ASSUME NEW p \in PutCalls, Enqueue(p)
      PROVE  /\ unfinished' = Len(items') + Cardinality(Taken')
             /\ MaxSize > 0 => Len(items') <= MaxSize
  <2>1. Taken' = Taken
    BY <1>6 DEF Enqueue, Taken
  <2>2. Len(items') = Len(items) + 1 /\ Len(items) \in Nat
    BY <1>6, AppendItems DEF Enqueue
  <2>3. MaxSize > 0 => ~(Len(items) >= MaxSize)
    BY <1>6 DEF Enqueue, IsFull
  <2>4. unfinished' = unfinished + 1
    BY <1>6 DEF Enqueue
  <2> QED
    BY <1>3, <1>4, <2>1, <2>2, <2>3, <2>4, MaxSizeAssumption
<1>7. ASSUME NEW g \in GetCalls, Dequeue(g)
      PROVE  /\ unfinished' = Len(items') + Cardinality(Taken')
             /\ MaxSize > 0 => Len(items') <= MaxSize
  <2>1. got[g] = NoItem /\ g \notin Taken
    BY <1>7 DEF Dequeue, Lifecycle, Taken
  <2>2. Taken' = Taken \cup {g}
    <3>1. Head(items) # NoItem
      BY <1>7, TailItems, NoItemAssumption DEF Dequeue
    <3>2. g \notin processed
      BY <2>1 DEF Lifecycle
    <3> QED
      BY <1>7, <3>1, <3>2 DEF Dequeue, Taken, TypeOK
  <2>3. Len(items') = Len(items) - 1 /\ Len(items) \in Nat
    BY <1>7, TailItems DEF Dequeue
  <2>4. Cardinality(Taken') = Cardinality(Taken) + 1
    BY <1>3, <2>1, <2>2, FS_AddElement
  <2>5. unfinished' = unfinished
    BY <1>7 DEF Dequeue
  <2> QED
    BY <1>3, <1>4, <2>3, <2>4, <2>5, MaxSizeAssumption
<1>8. ASSUME NEW g \in GetCalls, Finish(g)
      PROVE  /\ unfinished' = Len(items') + Cardinality(Taken')
             /\ MaxSize > 0 => Len(items') <= MaxSize
  <2>1. g \in Taken /\ Taken' = Taken \ {g}
    BY <1>8 DEF Finish, Taken
  <2>2. Cardinality(Taken') = Cardinality(Taken) - 1
    BY <1>3, <2>1, FS_RemoveElement
  <2>3. items' = items /\ unfinished' = unfinished - 1 /\ Len(items) \in Nat
    BY <1>8 DEF Finish, TypeOK
  <2> QED
    BY <1>3, <1>4, <2>2, <2>3
<1>9. CASE NoEffect
  BY <1>4, <1>9 DEF NoEffect, Taken
<1> QED
  BY <1>1, <1>6, <1>7, <1>8, <1>9 DEF Effect

-----------------------------------------------------------------------------
IInv == TypeOK /\ Lifecycle /\ DeliveredOnce /\ Accounting

(* A fresh queue satisfies the inductive invariant. *)
LEMMA InitIInv == Init => IInv
<1> SUFFICES ASSUME Init PROVE IInv
  OBVIOUS
<1>1. TypeOK
  BY InitType
<1>2. \A g \in GetCalls : got[g] = NoItem
  BY DEF Init
<1>3. items = <<>> /\ DOMAIN items = {} /\ Len(items) = 0 /\ unfinished = 0 /\ processed = {}
  BY DEF Init
<1>4. Accepted = {} /\ Occupants = {}
  BY <1>2, <1>3 DEF Accepted, Occupants
<1>5. Lifecycle
  BY <1>2, <1>3, <1>4 DEF Init, Lifecycle, Calls
<1>6. DeliveredOnce
  BY <1>2, <1>3, <1>4 DEF DeliveredOnce
<1>7. {g \in GetCalls : got[g] # NoItem} \ processed = {}
  BY <1>2
<1>8. Accounting
  BY <1>3, <1>7, FS_EmptySet, MaxSizeAssumption DEF Accounting
<1> QED
  BY <1>1, <1>5, <1>6, <1>8 DEF IInv

(* Every step keeps it. *)
LEMMA NextIInv == IInv /\ [Next]_vars => IInv'
<1> SUFFICES ASSUME IInv, [Next]_vars PROVE IInv'
  OBVIOUS
<1>1. TypeOK'
  BY NextType DEF IInv
<1> QED
  BY <1>1, LifecycleStep, DeliveredOnceStep, AccountingStep DEF IInv

(* The inductive invariant of queue.go holds in every reachable state. *)
THEOREM InvariantCorrect == Spec => []IInv
  BY InitIInv, NextIInv, PTL DEF Spec

(* For any clients and any size, an accepted item is in the queue once or was *)
(* handed to one get, never both.                                             *)
THEOREM DeliveryCorrect == Spec => []DeliveredOnce
<1>1. IInv => DeliveredOnce
  BY DEF IInv
<1> QED
  BY <1>1, InvariantCorrect, PTL

(* For any clients and any size, unfinished counts the items enqueued and the *)
(* items taken whose TaskDone is to come, and a bounded queue keeps its bound. *)
THEOREM AccountingCorrect == Spec => []Accounting
<1>1. IInv => Accounting
  BY DEF IInv
<1> QED
  BY <1>1, InvariantCorrect, PTL

-----------------------------------------------------------------------------
(* Join.  A join that has its answer, and what it must wait for. *)
Answered(j) == done[j] = "nil" \/ result[j] = "nil"

JoinInv ==
  /\ \A j \in JoinCalls : call[j] = "idle" => ~Answered(j)
  /\ \A j \in JoinCalls : mustFinish[j] \subseteq Accepted
  /\ \A j \in JoinCalls : Answered(j) => mustFinish[j] \subseteq Finished

(* A step lets a join be called, which fixes what it waits for, or answers a *)
(* called one when nothing is unfinished.                                    *)
JoinProgress ==
  \A j \in JoinCalls :
    /\ call'[j] = "idle" => call[j] = "idle"
    /\ \/ mustFinish'[j] = mustFinish[j]
       \/ call[j] = "idle" /\ mustFinish'[j] = Accepted
    /\ \/ Answered(j)' => Answered(j)
       \/ call[j] # "idle" /\ unfinished = 0 /\ UNCHANGED <<items, got, processed, mustFinish>>
    /\ call'[j] = "idle" => (Answered(j)' => Answered(j))

(* What a completed critical section does to a join that waits. *)
LEMMA JoinCompletes ==
  ASSUME TypeOK, Lifecycle, NEW c \in Calls, ~MustWait(c), Complete(c),
         call[c] # "idle", UNCHANGED <<call, result, clientVars>>
  PROVE  JoinProgress
<1>d. (PutCalls \cup GetCalls) \cap JoinCalls = {}
  BY CallsAssumption
<1>1. CASE c \in PutCalls \cup GetCalls
  <2>1. \A j \in JoinCalls : done'[j] = done[j] /\ result'[j] = result[j]
    BY <1>1, <1>d DEF Complete, putItem, getItem, TypeOK, Calls
  <2> QED
    BY <2>1 DEF JoinProgress, Answered, clientVars
<1>2. CASE c \in JoinCalls /\ Answer(c, "nil")
  <2>1. unfinished = 0
    BY <1>2 DEF MustWait, TypeOK
  <2>2. \A j \in JoinCalls : j # c => done'[j] = done[j]
    BY <1>2 DEF Answer, TypeOK
  <2> QED
    BY <1>2, <2>1, <2>2 DEF JoinProgress, Answered, Answer, queueVars, clientVars
<1> QED
  BY <1>1, <1>2 DEF Complete

(* What any step does to it. *)
LEMMA JoinStep ==
  ASSUME TypeOK, Lifecycle, [Next]_vars
  PROVE  JoinProgress
<1>d. (PutCalls \cup GetCalls) \cap JoinCalls = {} /\ JoinCalls \subseteq Calls
  BY CallsAssumption DEF Calls
<1>0. ASSUME UNCHANGED <<call, mustFinish>>,
             \A j \in JoinCalls : Answered(j)' => Answered(j)
      PROVE  JoinProgress
  BY <1>0 DEF JoinProgress
<1>1. ASSUME NEW c \in Calls, WorkerStep(c) PROVE JoinProgress
  <2>f. UNCHANGED <<call, result, clientVars>>
    BY <1>1 DEF WorkerStep
  <2>w. call[c] # "idle"
    BY <1>1 DEF Lifecycle, WorkerStep, WorkerLock, WorkerCheck, WorkerRelock, WorkerWoken
  <2>1. ASSUME NEW a \in {"closed", "ctx"}, Answer(c, a) PROVE JoinProgress
    <3>1. \A j \in JoinCalls : done'[j] = "nil" => done[j] = "nil"
      BY <2>1 DEF Answer, TypeOK
    <3> QED
      BY <1>0, <2>f, <3>1 DEF Answered, clientVars
  <2>2. ASSUME NEW pc, Goto(c, pc) PROVE JoinProgress
    BY <1>0, <2>2, <2>f DEF Goto, Answered, clientVars
  <2>3. ASSUME Complete(c), ~MustWait(c) PROVE JoinProgress
    BY <2>3, <2>f, <2>w, JoinCompletes
  <2> QED
    BY <1>1, <2>1, <2>2, <2>3
    DEF WorkerStep, WorkerLock, WorkerCheck, WorkerRelock, WorkerWoken, LoopTest
<1>2. ASSUME NEW c \in Calls, CallerStep(c) PROVE JoinProgress
  <2>1. \A j \in JoinCalls : call'[j] = "idle" => call[j] = "idle"
    <3>1. \E pc \in {"returned", "broadcast", "drain"} : call' = [call EXCEPT ![c] = pc]
      BY <1>2 DEF CallerStep, SelectDone, SelectCancelled, CancelBroadcast, Drain, Receive
    <3> QED
      BY <3>1, <1>d DEF TypeOK
  <2>2. UNCHANGED mustFinish
    BY <1>2 DEF CallerStep, SelectDone, SelectCancelled, CancelBroadcast, Drain, Receive, clientVars
  <2>3. \A j \in JoinCalls : Answered(j)' => Answered(j)
    <3>1. ASSUME NEW r, r = "ctx" \/ r = done[c], Receive(c, r)
          PROVE \A j \in JoinCalls : Answered(j)' => Answered(j)
      BY <3>1, <1>d DEF Receive, TypeOK, Answered
    <3> QED
      BY <1>2, <3>1 DEF CallerStep, SelectDone, SelectCancelled, CancelBroadcast, Drain, Answered
  <2> QED
    BY <2>1, <2>2, <2>3 DEF JoinProgress
<1>3. ASSUME NEW c \in Calls, Start(c) PROVE JoinProgress
  <2>1. \A j \in JoinCalls : mustFinish'[j] = IF j = c THEN Accepted ELSE mustFinish[j]
    BY <1>3 DEF Start
  <2>2. call[c] = "idle" /\ \A j \in JoinCalls : call'[j] = "idle" => call[j] = "idle"
    BY <1>3, <1>d DEF Start, TypeOK
  <2> QED
    BY <1>3, <2>1, <2>2 DEF Start, JoinProgress, Answered
<1>4. ASSUME NEW c \in Calls, CancelContext(c) PROVE JoinProgress
  BY <1>0, <1>4 DEF CancelContext, Answered
<1>5. ASSUME NEW c \in PutCalls \cup GetCalls, call' = [call EXCEPT ![c] = "returned"],
             UNCHANGED <<done, clientVars>>,
             \A j \in JoinCalls : result'[j] = result[j]
      PROVE  JoinProgress
  <2>1. \A j \in JoinCalls : call'[j] = call[j]
    BY <1>5, <1>d DEF TypeOK
  <2> QED
    BY <1>5, <2>1 DEF JoinProgress, Answered, clientVars
<1>6. ASSUME NEW p \in PutCalls, PutNowait(p) PROVE JoinProgress
  <2>1. \A j \in JoinCalls : result'[j] = result[j]
    BY <1>6, <1>d DEF PutNowait, Refuse, TypeOK
  <2> QED
    BY <1>5, <1>6, <2>1 DEF PutNowait
<1>7. ASSUME NEW g \in GetCalls, GetNowait(g) PROVE JoinProgress
  <2>1. \A j \in JoinCalls : result'[j] = result[j]
    BY <1>7, <1>d DEF GetNowait, Refuse, TypeOK
  <2> QED
    BY <1>5, <1>7, <2>1 DEF GetNowait
<1>8. ASSUME NEW g \in GetCalls, TaskDone(g) PROVE JoinProgress
  BY <1>0, <1>8 DEF TaskDone, Answered
<1>9. CASE Close
  BY <1>0, <1>9 DEF Close, Answered, clientVars
<1>10. CASE UNCHANGED vars
  BY <1>0, <1>10 DEF vars, Answered
<1> QED
  BY <1>1, <1>2, <1>3, <1>4, <1>6, <1>7, <1>8, <1>9, <1>10 DEF Next

(* Nothing accepted is forgotten and nothing finished is undone. *)
LEMMA HistoryGrows ==
  ASSUME TypeOK, Lifecycle, [Next]_vars
  PROVE  Accepted \subseteq Accepted' /\ Finished \subseteq Finished'
<1>1. Effect
  BY StepEffect
<1>2. ASSUME NEW p \in PutCalls, Enqueue(p) PROVE Accepted \subseteq Accepted' /\ Finished \subseteq Finished'
  <2>1. Occupants \subseteq Occupants'
    BY <1>2, AppendItems DEF Enqueue, Occupants
  <2> QED
    BY <1>2, <2>1 DEF Enqueue, Accepted, Finished
<1>3. ASSUME NEW g \in GetCalls, Dequeue(g) PROVE Accepted \subseteq Accepted' /\ Finished \subseteq Finished'
  <2>1. got[g] = NoItem /\ g \notin processed
    BY <1>3 DEF Dequeue, Lifecycle
  <2>2. \A h \in GetCalls : got'[h] = IF h = g THEN Head(items) ELSE got[h]
    BY <1>3 DEF Dequeue, TypeOK
  <2>3. Head(items) # NoItem /\ Head(items) \in Accepted'
    BY <1>3, <2>2, TailItems, NoItemAssumption DEF Dequeue, Accepted
  <2>4. \A i \in DOMAIN items : items[i] = Head(items) \/ items[i] \in Occupants'
    <3>1. ASSUME NEW i \in DOMAIN items, i # 1 PROVE items[i] \in Occupants'
      <4>1. i - 1 \in DOMAIN items' /\ items'[i - 1] = items[i]
        BY <1>3, <3>1 DEF Dequeue, TypeOK
      <4> QED
        BY <4>1 DEF Occupants
    <3> QED
      BY <1>3, <3>1, TailItems DEF Dequeue
  <2>5. Accepted \subseteq Accepted'
    BY <2>1, <2>2, <2>3, <2>4 DEF Accepted, Occupants
  <2>6. Finished \subseteq Finished'
    BY <1>3, <2>1, <2>2 DEF Dequeue, Finished, TypeOK
  <2> QED
    BY <2>5, <2>6
<1>4. CASE UNCHANGED <<items, got>> /\ processed \subseteq processed'
  BY <1>4 DEF Accepted, Occupants, Finished
<1> QED
  BY <1>1, <1>2, <1>3, <1>4 DEF Effect, Finish, NoEffect

(* A join that waits keeps its account of accepted items. *)
LEMMA JoinInvStep ==
  ASSUME IInv, JoinInv, [Next]_vars
  PROVE  JoinInv'
<1>1. JoinProgress /\ Accepted \subseteq Accepted' /\ Finished \subseteq Finished'
  BY JoinStep, HistoryGrows DEF IInv
<1>2. unfinished = 0 => Accepted \subseteq Finished
  <2> SUFFICES ASSUME unfinished = 0 PROVE Accepted \subseteq Finished
    OBVIOUS
  <2>1. IsFiniteSet(Taken) /\ Cardinality(Taken) \in Nat
    BY CallsAssumption, FS_Subset, FS_CardinalityType DEF Taken
  <2>2. Len(items) = 0 /\ Cardinality(Taken) = 0
    BY <2>1 DEF IInv, Accounting, TypeOK, Taken
  <2>3. Taken = {} /\ DOMAIN items = {}
    BY <2>1, <2>2, FS_EmptySet DEF IInv, TypeOK
  <2> QED
    BY <2>3 DEF Taken, Accepted, Occupants, Finished
<1>3. \A j \in JoinCalls : call'[j] = "idle" => ~Answered(j)'
  BY <1>1 DEF JoinInv, JoinProgress
<1>4. \A j \in JoinCalls : mustFinish'[j] \subseteq Accepted'
  BY <1>1 DEF JoinInv, JoinProgress
<1>5. ASSUME NEW j \in JoinCalls, Answered(j)' PROVE mustFinish'[j] \subseteq Finished'
  BY <1>1, <1>2, <1>5 DEF JoinInv, JoinProgress
<1> QED
  BY <1>3, <1>4, <1>5 DEF JoinInv

(* For any clients, a Join returns nil only when TaskDone was called for every *)
(* item accepted before the Join was called.                                   *)
THEOREM JoinCorrect == Spec => []JoinWaitsForAll
<1>1. Init => JoinInv
  BY DEF Init, JoinInv, Answered, Calls
<1>2. IInv /\ JoinInv /\ [Next]_vars => JoinInv'
  BY JoinInvStep
<1>3. JoinInv => JoinWaitsForAll
  BY DEF JoinInv, JoinWaitsForAll, Answered
<1> QED
  BY <1>1, <1>2, <1>3, InvariantCorrect, PTL DEF Spec

-----------------------------------------------------------------------------
(* The queue loses no wakeup.                                              *)
(*                                                                         *)
(* The argument, for one condition variable: what a sleeper could be       *)
(* served with (items, or free slots) is covered by the woken workers.  A  *)
(* unit gained comes with a Signal; a woken worker takes a unit or finds   *)
(* none; nobody goes to sleep while there is one.                          *)

Covered(S, n) == Sleeping(S) # {} => Cardinality(Woken(S)) >= n
CoveredNext(S, n) == Sleeping(S)' # {} => Cardinality(Woken(S)') >= n

(* The workers of a class are finitely many. *)
LEMMA WokenFinite ==
  ASSUME NEW S, IsFiniteSet(S)
  PROVE  IsFiniteSet(Woken(S)) /\ Cardinality(Woken(S)) \in Nat
<1>1. Woken(S) \subseteq S
  BY DEF Woken
<1> QED
  BY <1>1, FS_Subset, FS_CardinalityType

(* One more unit to be served with, and one sleeper signalled for it. *)
LEMMA Gain ==
  ASSUME NEW S, IsFiniteSet(S), NEW n \in Int, Covered(S, n),
         NEW W \in Signal(S), Woken(S) \cup W \subseteq Woken(S)', Woken(S)' \subseteq S,
         Sleeping(S)' \subseteq Sleeping(S) \ W
  PROVE  CoveredNext(S, n + 1)
<1> SUFFICES ASSUME Sleeping(S)' # {} PROVE Cardinality(Woken(S)') >= n + 1
  BY DEF CoveredNext
<1>1. PICK d \in Sleeping(S) : W = {d}
  BY DEF Signal
<1>2. d \notin Woken(S)
  BY <1>1 DEF Sleeping, Woken
<1>3. IsFiniteSet(Woken(S) \cup {d}) /\ Cardinality(Woken(S) \cup {d}) = Cardinality(Woken(S)) + 1
  BY <1>2, WokenFinite, FS_AddElement
<1>4. IsFiniteSet(Woken(S)')
  BY FS_Subset
<1>5. Cardinality(Woken(S) \cup {d}) <= Cardinality(Woken(S)') /\ Cardinality(Woken(S)') \in Nat
  BY <1>1, <1>4, FS_Subset, FS_CardinalityType
<1>6. Cardinality(Woken(S)) >= n
  BY <1>1 DEF Covered
<1> QED
  BY <1>3, <1>5, <1>6, WokenFinite

(* A woken worker leaves, and takes a unit with it. *)
LEMMA Leave ==
  ASSUME NEW S, IsFiniteSet(S), NEW n \in Int, Covered(S, n), NEW c,
         Woken(S) \ {c} \subseteq Woken(S)', Woken(S)' \subseteq S,
         Sleeping(S)' \subseteq Sleeping(S)
  PROVE  CoveredNext(S, n - 1)
<1> SUFFICES ASSUME Sleeping(S)' # {} PROVE Cardinality(Woken(S)') >= n - 1
  BY DEF CoveredNext
<1>1. IsFiniteSet(Woken(S)') /\ Cardinality(Woken(S)') \in Nat
  BY FS_Subset, FS_CardinalityType
<1>2. Cardinality(Woken(S) \ {c}) >= Cardinality(Woken(S)) - 1
  BY WokenFinite, FS_RemoveElement
<1>3. Cardinality(Woken(S) \ {c}) <= Cardinality(Woken(S)')
  BY <1>1, FS_Subset
<1>4. Cardinality(Woken(S) \ {c}) \in Nat
  BY <1>1, FS_Subset, FS_CardinalityType
<1>5. Cardinality(Woken(S)) >= n
  BY DEF Covered
<1> QED
  BY <1>1, <1>2, <1>3, <1>4, <1>5, WokenFinite

(* Nobody of the class leaves or goes to sleep. *)
LEMMA Keep ==
  ASSUME NEW S, IsFiniteSet(S), NEW n \in Int, Covered(S, n),
         Woken(S) \subseteq Woken(S)', Woken(S)' \subseteq S,
         Sleeping(S)' \subseteq Sleeping(S)
  PROVE  CoveredNext(S, n)
<1>1. Cardinality(Woken(S)) <= Cardinality(Woken(S)') /\ Cardinality(Woken(S)') \in Nat
  BY FS_Subset, FS_CardinalityType
<1> QED
  BY <1>1, WokenFinite DEF Covered, CoveredNext

(* With nothing to be served with, any class is covered. *)
LEMMA NothingToCover ==
  ASSUME NEW S, IsFiniteSet(S), Woken(S)' \subseteq S, NEW n \in Int, n <= 0
  PROVE  CoveredNext(S, n)
<1>1. Cardinality(Woken(S)') \in Nat
  BY FS_Subset, FS_CardinalityType
<1> QED
  BY <1>1 DEF CoveredNext

-----------------------------------------------------------------------------
(* How a step changes who sleeps and who is woken. *)

(* The workers of W wake. *)
LEMMA Waking ==
  ASSUME TypeOK, NEW S, S \subseteq Calls, NEW W, W \subseteq Sleeping(Calls),
         worker' = WakeAll(W)
  PROVE  /\ Woken(S)' = Woken(S) \cup (W \cap S)
         /\ Sleeping(S)' = Sleeping(S) \ W
BY DEF TypeOK, WakeAll, Woken, Sleeping

(* They do, and an awake worker c goes to pc. *)
LEMMA MovingAndWaking ==
  ASSUME TypeOK, NEW S, S \subseteq Calls, NEW W, W \subseteq Sleeping(Calls),
         NEW c \in Calls, worker[c] # "wait", NEW pc \in WorkerPC \ {"wait", "woken"},
         worker' = MoveAndWake(c, pc, W)
  PROVE  /\ Woken(S)' = (Woken(S) \ {c}) \cup (W \cap S)
         /\ Sleeping(S)' = Sleeping(S) \ W
BY DEF TypeOK, MoveAndWake, WakeAll, Woken, Sleeping

(* A signal wakes sleepers of the class it is for. *)
LEMMA SignalSleeping ==
  ASSUME NEW S, S \subseteq Calls, NEW W \in Signal(S)
  PROVE  W \subseteq Sleeping(Calls) /\ W \subseteq S
BY DEF Signal, Sleeping

(* The three conditions, each covered by the woken workers of its own class. *)
GetsCovered == Covered(GetCalls, Len(items))
PutsCovered == MaxSize > 0 => Covered(PutCalls, MaxSize - Len(items))
JoinsCovered == Sleeping(JoinCalls) # {} => unfinished > 0

(* The property, class by class. *)
LEMMA NoLostWakeupIsCover ==
  NoLostWakeup <=> GetsCovered /\ PutsCovered /\ JoinsCovered
BY DEF NoLostWakeup, GetsCovered, PutsCovered, JoinsCovered, Covered

(* The lengths compared are numbers. *)
LEMMA LenItems ==
  ASSUME TypeOK
  PROVE  Len(items) \in Nat /\ MaxSize \in Int /\ unfinished \in Nat
BY MaxSizeAssumption DEF TypeOK

(* Getters, putters and joiners are different calls. *)
LEMMA Classes ==
  /\ GetCalls \subseteq Calls /\ PutCalls \subseteq Calls /\ JoinCalls \subseteq Calls
  /\ IsFiniteSet(GetCalls) /\ IsFiniteSet(PutCalls)
  /\ GetCalls \cap PutCalls = {} /\ GetCalls \cap JoinCalls = {} /\ PutCalls \cap JoinCalls = {}
BY CallsAssumption DEF Calls

(* An item is enqueued with one getter signalled, by a put that may itself *)
(* have been woken.                                                        *)
LEMMA EnqueueCovers ==
  ASSUME TypeOK, NoLostWakeup, NEW p \in PutCalls, NEW W \in Signal(GetCalls),
         Len(items') = Len(items) + 1, unfinished' = unfinished + 1,
         Woken(GetCalls)' = (Woken(GetCalls) \ {p}) \cup (W \cap GetCalls),
         Woken(PutCalls) \ {p} \subseteq Woken(PutCalls)',
         \A S \in {GetCalls, PutCalls, JoinCalls} : Sleeping(S)' = Sleeping(S) \ W
  PROVE  NoLostWakeup'
<1>0. GetsCovered /\ PutsCovered /\ JoinsCovered
  BY NoLostWakeupIsCover
<1>a. Woken(GetCalls)' \subseteq GetCalls /\ Woken(PutCalls)' \subseteq PutCalls
  BY DEF Woken
<1>1. GetsCovered'
  <2>1. Woken(GetCalls) \cup W \subseteq Woken(GetCalls)'
    BY Classes, SignalSleeping DEF Woken
  <2>2. CoveredNext(GetCalls, Len(items) + 1)
    BY <1>0, <1>a, <2>1, Gain, LenItems, Classes DEF GetsCovered
  <2> QED
    BY <2>2 DEF GetsCovered, Covered, CoveredNext
<1>2. PutsCovered'
  <2> SUFFICES ASSUME MaxSize > 0 PROVE Covered(PutCalls, MaxSize - Len(items))'
    BY DEF PutsCovered
  <2>1. Covered(PutCalls, MaxSize - Len(items)) /\ MaxSize - Len(items) \in Int
    BY <1>0, LenItems DEF PutsCovered
  <2>2. Sleeping(PutCalls)' \subseteq Sleeping(PutCalls)
    OBVIOUS
  <2>3. CoveredNext(PutCalls, (MaxSize - Len(items)) - 1)
    BY <1>a, <2>1, <2>2, Leave, Classes
  <2> QED
    BY <2>3, LenItems DEF Covered, CoveredNext
<1>3. JoinsCovered'
  BY LenItems DEF JoinsCovered
<1> QED
  BY <1>1, <1>2, <1>3, NoLostWakeupIsCover, PTL

(* An item is dequeued with one putter signalled. *)
LEMMA DequeueCovers ==
  ASSUME TypeOK, NoLostWakeup, NEW g \in GetCalls, NEW W \in Signal(PutCalls),
         Len(items') = Len(items) - 1, UNCHANGED unfinished,
         Woken(PutCalls)' = (Woken(PutCalls) \ {g}) \cup (W \cap PutCalls),
         Woken(GetCalls) \ {g} \subseteq Woken(GetCalls)',
         \A S \in {GetCalls, PutCalls, JoinCalls} : Sleeping(S)' = Sleeping(S) \ W
  PROVE  NoLostWakeup'
<1>0. GetsCovered /\ PutsCovered /\ JoinsCovered
  BY NoLostWakeupIsCover
<1>a. Woken(GetCalls)' \subseteq GetCalls /\ Woken(PutCalls)' \subseteq PutCalls
  BY DEF Woken
<1>1. GetsCovered'
  <2>1. CoveredNext(GetCalls, Len(items) - 1)
    BY <1>0, <1>a, Leave, LenItems, Classes DEF GetsCovered
  <2> QED
    BY <2>1 DEF GetsCovered, Covered, CoveredNext
<1>2. PutsCovered'
  <2> SUFFICES ASSUME MaxSize > 0 PROVE Covered(PutCalls, MaxSize - Len(items))'
    BY DEF PutsCovered
  <2>1. Woken(PutCalls) \cup W \subseteq Woken(PutCalls)'
    BY Classes, SignalSleeping DEF Woken
  <2>2. CoveredNext(PutCalls, (MaxSize - Len(items)) + 1)
    BY <1>0, <1>a, <2>1, Gain, LenItems, Classes DEF PutsCovered
  <2> QED
    BY <2>2, LenItems DEF Covered, CoveredNext
<1>3. JoinsCovered'
  BY <1>0 DEF JoinsCovered
<1> QED
  BY <1>1, <1>2, <1>3, NoLostWakeupIsCover, PTL

(* Nothing is enqueued or dequeued, and nobody of a class that has something *)
(* to be served with leaves it or goes to sleep.                             *)
LEMMA IdleCovers ==
  ASSUME TypeOK, NoLostWakeup, UNCHANGED items,
         \A S \in {GetCalls, PutCalls} :
           Woken(S) \subseteq Woken(S)' /\ Sleeping(S)' \subseteq Sleeping(S),
         Sleeping(JoinCalls)' # {} => unfinished' > 0
  PROVE  NoLostWakeup'
<1>0. GetsCovered /\ PutsCovered
  BY NoLostWakeupIsCover
<1>a. Woken(GetCalls)' \subseteq GetCalls /\ Woken(PutCalls)' \subseteq PutCalls
  BY DEF Woken
<1>1. GetsCovered'
  <2>1. CoveredNext(GetCalls, Len(items))
    BY <1>0, <1>a, Keep, LenItems, Classes DEF GetsCovered
  <2> QED
    BY <2>1 DEF GetsCovered, Covered, CoveredNext
<1>2. PutsCovered'
  <2> SUFFICES ASSUME MaxSize > 0 PROVE Covered(PutCalls, MaxSize - Len(items))'
    BY DEF PutsCovered
  <2>1. Covered(PutCalls, MaxSize - Len(items)) /\ MaxSize - Len(items) \in Int
    BY <1>0, LenItems DEF PutsCovered
  <2>2. CoveredNext(PutCalls, MaxSize - Len(items))
    BY <1>a, <2>1, Keep, Classes
  <2> QED
    BY <2>2 DEF Covered, CoveredNext
<1>3. JoinsCovered'
  BY DEF JoinsCovered
<1> QED
  BY <1>1, <1>2, <1>3, NoLostWakeupIsCover, PTL

(* A worker moves on without completing its call: if it was woken or goes to *)
(* sleep, there is nothing for it; a join may also leave.                    *)
LEMMA MoveCovers ==
  ASSUME TypeOK, NoLostWakeup, UNCHANGED <<items, unfinished>>,
         NEW c \in Calls, worker[c] # "wait", NEW pc \in WorkerPC \ {"woken"},
         worker' = [worker EXCEPT ![c] = pc],
         \/ worker[c] # "woken" /\ pc # "wait"
         \/ MustWait(c)
         \/ c \in JoinCalls /\ pc # "wait"
  PROVE  NoLostWakeup'
<1>1. \A S \in {GetCalls, PutCalls, JoinCalls} : c \notin S =>
        Woken(S)' = Woken(S) /\ Sleeping(S)' = Sleeping(S)
  BY Classes DEF TypeOK, Woken, Sleeping
<1>a. Woken(GetCalls)' \subseteq GetCalls /\ Woken(PutCalls)' \subseteq PutCalls
  BY DEF Woken
<1>0. GetsCovered /\ PutsCovered /\ JoinsCovered
  BY NoLostWakeupIsCover
<1>2. CASE pc # "wait" /\ (worker[c] # "woken" \/ c \in JoinCalls)
  <2>1. \A S \in {GetCalls, PutCalls} : Woken(S)' = Woken(S) /\ Sleeping(S)' = Sleeping(S)
    BY <1>2, Classes DEF TypeOK, Woken, Sleeping
  <2>2. Sleeping(JoinCalls)' \subseteq Sleeping(JoinCalls)
    BY <1>2, Classes DEF TypeOK, Sleeping
  <2> QED
    BY <1>0, <2>1, <2>2, IdleCovers DEF JoinsCovered
<1>3. CASE c \in JoinCalls /\ MustWait(c)
  <2>1. unfinished > 0
    BY <1>3, Classes DEF MustWait
  <2> QED
    BY <1>1, <1>3, <2>1, Classes, IdleCovers
<1>4. CASE c \in GetCalls /\ MustWait(c)
  <2>1. Len(items) = 0 /\ Len(items)' = 0
    BY <1>4, Classes DEF MustWait, IsEmpty, TypeOK
  <2>2. GetsCovered'
    <3>1. CoveredNext(GetCalls, 0)
      BY <1>a, NothingToCover, Classes
    <3> QED
      BY <2>1, <3>1 DEF GetsCovered, Covered, CoveredNext
  <2>3. PutsCovered' /\ JoinsCovered'
    BY <1>0, <1>1, <1>4, Classes DEF PutsCovered, JoinsCovered, Covered
  <2> QED
    BY <2>2, <2>3, NoLostWakeupIsCover, PTL
<1>5. CASE c \in PutCalls /\ MustWait(c)
  <2>1. MaxSize - Len(items) \in Int /\ MaxSize - Len(items) <= 0
    BY <1>5, Classes, LenItems DEF MustWait, IsFull
  <2>2. PutsCovered'
    <3>1. CoveredNext(PutCalls, MaxSize - Len(items))
      BY <1>a, <2>1, NothingToCover, Classes
    <3> QED
      BY <3>1 DEF PutsCovered, Covered, CoveredNext
  <2>3. GetsCovered' /\ JoinsCovered'
    BY <1>0, <1>1, <1>5, Classes DEF GetsCovered, JoinsCovered, Covered
  <2> QED
    BY <2>2, <2>3, NoLostWakeupIsCover, PTL
<1> QED
  BY <1>2, <1>3, <1>4, <1>5 DEF Calls

-----------------------------------------------------------------------------
(* The actions. *)

(* A completed worker. *)
LEMMA CompleteCovers ==
  ASSUME TypeOK, NoLostWakeup, NEW c \in Calls, ~MustWait(c), Complete(c),
         worker[c] # "wait"
  PROVE  NoLostWakeup'
<1>e. "exited" \in WorkerPC \ {"wait", "woken"}
  BY DEF WorkerPC
<1>1. CASE c \in PutCalls /\ putItem(c)
  <2>1. PICK W \in Signal(GetCalls) : worker' = MoveAndWake(c, "exited", W)
    BY <1>1 DEF putItem
  <2>2. W \subseteq Sleeping(Calls) /\ W \subseteq GetCalls
    BY SignalSleeping, Classes
  <2>3. \A S \in {GetCalls, PutCalls, JoinCalls} :
          /\ Woken(S)' = (Woken(S) \ {c}) \cup (W \cap S)
          /\ Sleeping(S)' = Sleeping(S) \ W
    BY <1>e, <2>1, <2>2, MovingAndWaking, Classes
  <2>4. Len(items') = Len(items) + 1 /\ unfinished' = unfinished + 1
    BY <1>1 DEF putItem, TypeOK
  <2> QED
    BY <1>1, <2>3, <2>4, EnqueueCovers
<1>2. CASE c \in GetCalls /\ getItem(c)
  <2>1. PICK W \in Signal(PutCalls) : worker' = MoveAndWake(c, "exited", W)
    BY <1>2 DEF getItem
  <2>2. W \subseteq Sleeping(Calls) /\ W \subseteq PutCalls
    BY SignalSleeping, Classes
  <2>3. \A S \in {GetCalls, PutCalls, JoinCalls} :
          /\ Woken(S)' = (Woken(S) \ {c}) \cup (W \cap S)
          /\ Sleeping(S)' = Sleeping(S) \ W
    BY <1>e, <2>1, <2>2, MovingAndWaking, Classes
  <2>4. Len(items') = Len(items) - 1 /\ unfinished' = unfinished
    <3>1. items # <<>>
      BY <1>2 DEF MustWait, IsEmpty
    <3> QED
      BY <1>2, <3>1 DEF getItem, TypeOK
  <2> QED
    BY <1>2, <2>3, <2>4, DequeueCovers
<1>3. CASE c \in JoinCalls /\ Answer(c, "nil")
  BY <1>3, <1>e, MoveCovers DEF Answer, queueVars
<1> QED
  BY <1>1, <1>2, <1>3 DEF Complete

(* A worker's step keeps every sleeper covered. *)
LEMMA WorkerStepCovers ==
  ASSUME TypeOK, NoLostWakeup, NEW c \in Calls, WorkerStep(c)
  PROVE  NoLostWakeup'
<1>0. worker[c] # "wait"
  BY DEF WorkerStep, WorkerLock, WorkerCheck, WorkerRelock, WorkerWoken
<1>1. ASSUME NEW a, Answer(c, a), worker[c] # "woken" PROVE NoLostWakeup'
  BY <1>0, <1>1, MoveCovers DEF Answer, queueVars, WorkerPC
<1>2. ASSUME NEW pc \in {"check", "relock"}, Goto(c, pc), worker[c] # "woken" \/ MustWait(c)
      PROVE  NoLostWakeup'
  BY <1>0, <1>2, MoveCovers DEF Goto, queueVars, WorkerPC
<1>3. ASSUME Goto(c, "wait"), MustWait(c) PROVE NoLostWakeup'
  BY <1>0, <1>3, MoveCovers DEF Goto, queueVars, WorkerPC
<1>4. ASSUME LoopTest(c) PROVE NoLostWakeup'
  BY <1>0, <1>2, <1>4, CompleteCovers DEF LoopTest
<1>5. CASE WorkerLock(c)
  BY <1>1, <1>4, <1>5 DEF WorkerLock
<1>6. CASE WorkerCheck(c)
  BY <1>1, <1>2, <1>6 DEF WorkerCheck
<1>7. CASE WorkerRelock(c)
  BY <1>0, <1>1, <1>3, <1>7, CompleteCovers DEF WorkerRelock
<1>8. CASE WorkerWoken(c)
  BY <1>4, <1>8 DEF WorkerWoken
<1> QED
  BY <1>5, <1>6, <1>7, <1>8 DEF WorkerStep

(* A broadcast that leaves the items alone. *)
LEMMA BroadcastCovers ==
  ASSUME TypeOK, NoLostWakeup, NEW S, S \subseteq Calls,
         worker' = WakeAll(Broadcast(S)), UNCHANGED items,
         unfinished' > 0 \/ unfinished' = unfinished \/ JoinCalls \subseteq S
  PROVE  NoLostWakeup'
<1>1. Broadcast(S) \subseteq Sleeping(Calls)
  BY DEF Broadcast, Sleeping
<1>2. \A T \in {GetCalls, PutCalls, JoinCalls} :
        Woken(T) \subseteq Woken(T)' /\ Sleeping(T)' = Sleeping(T) \ Broadcast(S)
  BY <1>1, Waking, Classes
<1>3. Sleeping(JoinCalls)' # {} => unfinished' > 0
  <2>1. JoinCalls \subseteq S => Sleeping(JoinCalls)' = {}
    BY <1>2 DEF Broadcast, Sleeping
  <2> QED
    BY <1>2, <2>1, NoLostWakeupIsCover DEF JoinsCovered
<1> QED
  BY <1>2, <1>3, IdleCovers

(* A step that leaves workers and items alone. *)
LEMMA StutterCovers ==
  ASSUME NoLostWakeup, UNCHANGED <<worker, items, unfinished>>
  PROVE  NoLostWakeup'
BY DEF NoLostWakeup, Woken, Sleeping

(* So does the start of a call, *)
LEMMA StartCovers ==
  ASSUME TypeOK, NoLostWakeup, NEW c \in Calls, worker[c] = "none", Start(c)
  PROVE  NoLostWakeup'
BY MoveCovers DEF Start, queueVars, WorkerPC

(* PutNowait, *)
LEMMA PutNowaitCovers ==
  ASSUME TypeOK, NoLostWakeup, NEW p \in PutCalls, PutNowait(p)
  PROVE  NoLostWakeup'
<1>1. CASE closed \/ IsFull
  BY <1>1, StutterCovers DEF PutNowait, Refuse, queueVars
<1>2. CASE ~closed /\ ~IsFull
  <2>1. PICK W \in Signal(GetCalls) : worker' = WakeAll(W)
    BY <1>2 DEF PutNowait
  <2>2. W \subseteq Sleeping(Calls) /\ W \subseteq GetCalls
    BY SignalSleeping, Classes
  <2>3. \A S \in {GetCalls, PutCalls, JoinCalls} :
          Woken(S)' = Woken(S) \cup (W \cap S) /\ Sleeping(S)' = Sleeping(S) \ W
    BY <2>1, <2>2, Waking, Classes
  <2>4. Len(items') = Len(items) + 1 /\ unfinished' = unfinished + 1
    BY <1>2 DEF PutNowait, TypeOK
  <2>5. Woken(GetCalls)' = (Woken(GetCalls) \ {p}) \cup (W \cap GetCalls)
    BY <2>3, Classes DEF Woken
  <2>6. Woken(PutCalls) \ {p} \subseteq Woken(PutCalls)'
    BY <2>3
  <2> QED
    BY <2>3, <2>4, <2>5, <2>6, EnqueueCovers
<1> QED
  BY <1>1, <1>2

(* GetNowait *)
LEMMA GetNowaitCovers ==
  ASSUME TypeOK, NoLostWakeup, NEW g \in GetCalls, GetNowait(g)
  PROVE  NoLostWakeup'
<1>1. CASE IsEmpty
  BY <1>1, StutterCovers DEF GetNowait, Refuse, queueVars
<1>2. CASE ~IsEmpty
  <2>1. PICK W \in Signal(PutCalls) : worker' = WakeAll(W)
    BY <1>2 DEF GetNowait
  <2>2. W \subseteq Sleeping(Calls) /\ W \subseteq PutCalls
    BY SignalSleeping, Classes
  <2>3. \A S \in {GetCalls, PutCalls, JoinCalls} :
          Woken(S)' = Woken(S) \cup (W \cap S) /\ Sleeping(S)' = Sleeping(S) \ W
    BY <2>1, <2>2, Waking, Classes
  <2>4. Len(items') = Len(items) - 1 /\ unfinished' = unfinished
    BY <1>2 DEF GetNowait, TypeOK, IsEmpty
  <2>5. Woken(PutCalls)' = (Woken(PutCalls) \ {g}) \cup (W \cap PutCalls)
    BY <2>3, Classes DEF Woken
  <2>6. Woken(GetCalls) \ {g} \subseteq Woken(GetCalls)'
    BY <2>3
  <2> QED
    BY <2>3, <2>4, <2>5, <2>6, DequeueCovers
<1> QED
  BY <1>1, <1>2

(* and TaskDone. *)
LEMMA TaskDoneCovers ==
  ASSUME TypeOK, NoLostWakeup, NEW g \in GetCalls, TaskDone(g)
  PROVE  NoLostWakeup'
<1>1. CASE unfinished <= 0
  BY <1>1, StutterCovers DEF TaskDone
<1>2. CASE ~(unfinished <= 0) /\ unfinished' = 0
  BY <1>2, BroadcastCovers, Classes DEF TaskDone
<1>3. CASE ~(unfinished <= 0) /\ unfinished' # 0
  <2>1. unfinished' > 0
    BY <1>3, LenItems DEF TaskDone
  <2>2. Broadcast({}) = {}
    BY DEF Broadcast, Sleeping
  <2> QED
    BY <1>3, <2>1, <2>2, BroadcastCovers DEF TaskDone
<1> QED
  BY <1>1, <1>2, <1>3

-----------------------------------------------------------------------------
(* Every step; Start needs that an idle call has no worker yet (Lifecycle). *)
LEMMA NextCovers ==
  ASSUME TypeOK, Lifecycle, NoLostWakeup, [Next]_vars
  PROVE  NoLostWakeup'
<1>1. ASSUME NEW c \in Calls, CallerStep(c) PROVE NoLostWakeup'
  <2>1. CASE CancelBroadcast(c)
    BY <2>1, BroadcastCovers, Classes DEF CancelBroadcast, CondOf, queueVars
  <2>2. CASE UNCHANGED <<worker, items, unfinished>>
    BY <2>2, StutterCovers
  <2> QED
    BY <1>1, <2>1, <2>2 DEF CallerStep, SelectDone, SelectCancelled, Drain, Receive, queueVars
<1>2. ASSUME NEW c \in Calls, Start(c) PROVE NoLostWakeup'
  BY <1>2, StartCovers DEF Lifecycle, Start
<1>3. ASSUME NEW c \in Calls, CancelContext(c) PROVE NoLostWakeup'
  BY <1>3, StutterCovers DEF CancelContext, queueVars
<1>4. ASSUME Close PROVE NoLostWakeup'
  BY <1>4, BroadcastCovers, Classes DEF Close
<1>5. CASE UNCHANGED vars
  BY <1>5, StutterCovers DEF vars
<1> QED
  BY <1>1, <1>2, <1>3, <1>4, <1>5, WorkerStepCovers, PutNowaitCovers, GetNowaitCovers,
     TaskDoneCovers DEF Next

(* For any clients and any size: while a getter (putter) sleeps, each item      *)
(* (free slot) has a woken getter (putter) on its way to it, and a join sleeps   *)
(* only while items are unfinished: queue.go's one Signal per change is enough.  *)
THEOREM WakeupCorrect == Spec => []NoLostWakeup
<1>1. Init => NoLostWakeup
  <2> SUFFICES ASSUME Init PROVE NoLostWakeup
    OBVIOUS
  <2>1. Sleeping(GetCalls) = {} /\ Sleeping(PutCalls) = {} /\ Sleeping(JoinCalls) = {}
    BY Classes DEF Init, Sleeping
  <2> QED
    BY <2>1 DEF NoLostWakeup
<1>2. IInv /\ NoLostWakeup /\ [Next]_vars => NoLostWakeup'
  BY NextCovers DEF IInv
<1> QED
  BY <1>1, <1>2, InvariantCorrect, PTL DEF Spec
=============================================================================
