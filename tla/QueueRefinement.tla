--------------------------- MODULE QueueRefinement ---------------------------
(***************************************************************************)
(* The queue of queue.go implements FifoQueue for every set of calls and   *)
(* every MaxSize: each of its steps is a step of the abstract queue or     *)
(* invisible in it.                                                        *)
(***************************************************************************)
EXTENDS QueueProofs

\* What a client has or will have as the answer of a call.
Reply(c) == IF call[c] = "returned" THEN result[c] ELSE done[c]

\* A worker acts only while its caller is in the call and has no answer; a call
\* that nobody made is untouched; a caller leaves the select for its context.
CallOK(c) ==
  /\ worker[c] \notin {"none", "exited"} =>
       done[c] = "none" /\ call[c] \in {"select", "broadcast", "drain"}
  /\ call[c] = "idle" => done[c] = "none" /\ worker[c] = "none"
  /\ call[c] \in {"broadcast", "drain"} => c \in ctxDone
  /\ result[c] # "none" => call[c] = "returned"

CallInv == \A c \in Calls : CallOK(c)

Simulated == Fifo!FNext \/ UNCHANGED Fifo!fvars

\* What a step does to the calls it is not about: at most it wakes them.
Apart(d) ==
  /\ call'[d] = call[d] /\ done'[d] = done[d] /\ result'[d] = result[d]
  /\ \/ worker'[d] = worker[d]
     \/ worker[d] = "wait" /\ worker'[d] = "woken"

\* In the abstract queue the step is call c's alone.
Only(c) == \A d \in Calls : d # c => Phase(d)' = Phase(d) /\ Reply(d)' = Reply(d)

-----------------------------------------------------------------------------
(* A call that is at most woken looks the same. *)
LEMMA ApartSame ==
  ASSUME NEW d \in Calls, Apart(d)
  PROVE  Phase(d)' = Phase(d) /\ Reply(d)' = Reply(d)
BY DEF Apart, Phase, Reply

(* It keeps its account, too. *)
LEMMA ApartOK ==
  ASSUME NEW d \in Calls, Apart(d), CallOK(d), ctxDone \subseteq ctxDone'
  PROVE  CallOK(d)'
BY DEF Apart, CallOK

(* A step about one call is judged by that call. *)
LEMMA OneCall ==
  ASSUME CallInv, NEW c \in Calls, \A d \in Calls : d # c => Apart(d),
         ctxDone \subseteq ctxDone', CallOK(c)'
  PROVE  CallInv' /\ Only(c)
<1>1. ASSUME NEW d \in Calls PROVE CallOK(d)'
  <2>1. CASE d = c
    BY <2>1
  <2>2. CASE d # c
    BY <2>2, ApartOK DEF CallInv
  <2> QED
    BY <2>1, <2>2
<1>2. Only(c)
  BY ApartSame DEF Only
<1> QED
  BY <1>1, <1>2 DEF CallInv

(* Waking workers leaves all calls apart. *)
LEMMA WokenApart ==
  ASSUME TypeOK, NEW W, NEW S, W \in Signal(S) \/ W = Broadcast(S) \/ W = {}, NEW d \in Calls
  PROVE  WakeAll(W)[d] = worker[d] \/ (worker[d] = "wait" /\ WakeAll(W)[d] = "woken")
<1>1. W \subseteq Sleeping(S)
  BY DEF Signal, Broadcast
<1> QED
  BY <1>1 DEF WakeAll, Sleeping

(* What a running worker's call looks like to the client. *)
LEMMA WorkingPhase ==
  ASSUME NEW c \in Calls, CallOK(c), worker[c] \notin {"none", "exited"}
  PROVE  Phase(c) = (IF worker[c] = "lock" THEN "invoked" ELSE "blocked") /\ call[c] # "returned"
BY DEF CallOK, Phase

(* The worker of a call, or a nowait call, answers it. *)
LEMMA IsAnswered ==
  ASSUME NEW c \in Calls, Only(c), NEW a, Reply(c)' = a,
         \/ Phase(c) \in {"invoked", "blocked"} /\ Phase(c)' = "effected"
         \/ Phase(c) = "idle" /\ Phase(c)' = "returned"
  PROVE  Fifo!Answered(c, a) \/ Fifo!AnsweredNowait(c, a)
BY DEF Only, Reply, Fifo!Answered, Fifo!AnsweredNowait

(* A queue that is not full has room for the abstract queue. *)
LEMMA RoomIsNotFull ==
  ASSUME TypeOK
  PROVE  Fifo!HasRoom <=> ~IsFull
<1>1. Len(items) \in Nat /\ MaxSize \in Int
  BY MaxSizeAssumption DEF TypeOK
<1> QED
  BY <1>1 DEF Fifo!HasRoom, IsFull

(* Calls of one kind are calls. *)
LEMMA KindsOfCalls ==
  /\ PutCalls \subseteq Calls /\ GetCalls \subseteq Calls /\ JoinCalls \subseteq Calls
  /\ Calls = Fifo!Calls
  /\ PutCalls \cap GetCalls = {} /\ (PutCalls \cup GetCalls) \cap JoinCalls = {}
BY CallsAssumption DEF Calls, Fifo!Calls

-----------------------------------------------------------------------------
(* A worker that answers, with its queue's consent. *)
LEMMA WorkerAnswers ==
  ASSUME TypeOK, CallInv, NEW c \in Calls, worker[c] \notin {"none", "exited"},
         UNCHANGED <<call, result, clientVars>>, NEW a \in Answers, done' = [done EXCEPT ![c] = a],
         NEW W, NEW S, W \in Signal(S) \/ W = {}, worker' = MoveAndWake(c, "exited", W)
  PROVE  CallInv' /\ Only(c) /\ Phase(c)' = "effected" /\ Reply(c)' = a
<1>1. /\ worker'[c] = "exited" /\ done'[c] = a /\ a # "none" /\ call'[c] = call[c]
      /\ result'[c] = result[c] /\ ctxDone' = ctxDone
  BY DEF MoveAndWake, WakeAll, TypeOK, Answers, clientVars
<1>2. CallOK(c) /\ call[c] \in {"select", "broadcast", "drain"}
  BY DEF CallInv, CallOK
<1>3. CallOK(c)'
  BY <1>1, <1>2 DEF CallOK
<1>4. ASSUME NEW d \in Calls, d # c PROVE Apart(d)
  <2>1. worker'[d] = WakeAll(W)[d]
    BY <1>4 DEF MoveAndWake, WakeAll
  <2> QED
    BY <1>4, <2>1, WokenApart DEF Apart, TypeOK
<1>5. CallInv' /\ Only(c)
  BY <1>1, <1>3, <1>4, OneCall
<1>6. Phase(c)' = "effected" /\ Reply(c)' = a
  BY <1>1, <1>2 DEF Phase, Reply
<1> QED
  BY <1>5, <1>6

(* A worker that moves on. *)
LEMMA WorkerGoes ==
  ASSUME TypeOK, CallInv, NEW c \in Calls, worker[c] \notin {"none", "exited"},
         UNCHANGED <<call, result, clientVars>>, NEW pc \in {"check", "relock", "wait"}, Goto(c, pc)
  PROVE  CallInv' /\ Only(c) /\ Phase(c)' = "blocked" /\ Reply(c)' = Reply(c)
<1>1. /\ worker'[c] = pc /\ UNCHANGED <<call, result, done, ctxDone>>
  BY DEF Goto, TypeOK, clientVars
<1>2. CallOK(c) /\ call[c] \in {"select", "broadcast", "drain"} /\ done[c] = "none"
  BY DEF CallInv, CallOK
<1>3. CallOK(c)'
  BY <1>1, <1>2 DEF CallOK
<1>4. ASSUME NEW d \in Calls, d # c PROVE Apart(d)
  BY <1>1, <1>4 DEF Apart, Goto, TypeOK
<1>5. CallInv' /\ Only(c)
  BY <1>1, <1>3, <1>4, OneCall
<1>6. Phase(c)' = "blocked" /\ Reply(c)' = Reply(c)
  BY <1>1, <1>2 DEF Phase, Reply
<1> QED
  BY <1>5, <1>6

(* Past the loop: the item is accepted or delivered, or the join released. *)
LEMMA CompleteSimulates ==
  ASSUME TypeOK, CallInv, NEW c \in Calls, worker[c] \notin {"none", "exited"},
         UNCHANGED <<call, result, clientVars>>, ~MustWait(c), Complete(c),
         c \in PutCalls /\ closed => worker[c] # "lock"
  PROVE  CallInv' /\ Simulated
<1>0. "nil" \in Answers /\ Phase(c) \in {"invoked", "blocked"} /\ UNCHANGED <<ctxDone, processed>>
      /\ (worker[c] # "lock" => Phase(c) = "blocked")
  BY WorkingPhase DEF CallInv, Answers, clientVars
<1>1. ASSUME c \in PutCalls, putItem(c) PROVE CallInv' /\ Simulated
  <2>1. PICK W \in Signal(GetCalls) : worker' = MoveAndWake(c, "exited", W)
    BY <1>1 DEF putItem
  <2>2. CallInv' /\ Only(c) /\ Phase(c)' = "effected" /\ Reply(c)' = "nil"
    BY <1>0, <1>1, <2>1, WorkerAnswers DEF putItem
  <2>3. Fifo!Answered(c, "nil") \/ Fifo!AnsweredNowait(c, "nil")
    BY <1>0, <2>2, IsAnswered
  <2>4. Fifo!HasRoom
    BY <1>1, RoomIsNotFull DEF MustWait
  <2>5. closed => [d \in Calls |-> Phase(d)][c] = "blocked"
    BY <1>0, <1>1
  <2>6. Fifo!Accept(c)
    BY <1>0, <1>1, <2>3, <2>4, <2>5 DEF Fifo!Accept, putItem
  <2> QED
    BY <1>1, <2>2, <2>6 DEF Simulated, Fifo!FNext
<1>2. ASSUME c \in GetCalls, getItem(c) PROVE CallInv' /\ Simulated
  <2>1. PICK W \in Signal(PutCalls) : worker' = MoveAndWake(c, "exited", W)
    BY <1>2 DEF getItem
  <2>2. CallInv' /\ Only(c) /\ Phase(c)' = "effected" /\ Reply(c)' = "nil"
    BY <1>0, <1>2, <2>1, WorkerAnswers DEF getItem
  <2>3. Fifo!Answered(c, "nil") \/ Fifo!AnsweredNowait(c, "nil")
    BY <1>0, <2>2, IsAnswered
  <2>4. Fifo!Deliver(c)
    BY <1>0, <1>2, <2>3 DEF Fifo!Deliver, getItem, MustWait, IsEmpty
  <2> QED
    BY <1>2, <2>2, <2>4 DEF Simulated, Fifo!FNext
<1>3. ASSUME c \in JoinCalls, Answer(c, "nil") PROVE CallInv' /\ Simulated
  <2>1. worker' = MoveAndWake(c, "exited", {})
    BY <1>3 DEF Answer, MoveAndWake, WakeAll, TypeOK
  <2>2. CallInv' /\ Only(c) /\ Phase(c)' = "effected" /\ Reply(c)' = "nil"
    BY <1>0, <1>3, <2>1, WorkerAnswers DEF Answer
  <2>3. Fifo!Answered(c, "nil") \/ Fifo!AnsweredNowait(c, "nil")
    BY <1>0, <2>2, IsAnswered
  <2>4. unfinished = 0
    BY <1>3 DEF MustWait, TypeOK
  <2>5. Fifo!Answered(c, "nil")
    BY <1>0, <2>3 DEF Fifo!AnsweredNowait
  <2>6. Fifo!Release(c)
    BY <1>0, <1>3, <2>4, <2>5 DEF Fifo!Release, Answer, queueVars
  <2> QED
    BY <1>3, <2>2, <2>6 DEF Simulated, Fifo!FNext
<1> QED
  BY <1>1, <1>2, <1>3 DEF Complete

(* A worker that refuses its call: the queue is closed or the caller left. *)
LEMMA RefusalSimulates ==
  ASSUME TypeOK, CallInv, NEW c \in Calls, worker[c] \notin {"none", "exited"},
         UNCHANGED <<call, result, clientVars>>, NEW a \in {"closed", "ctx"}, Answer(c, a),
         a = "closed" => c \in PutCalls /\ closed,
         a = "ctx" => worker[c] # "lock" /\ call[c] \in {"broadcast", "drain"}
  PROVE  CallInv' /\ Simulated
<1>0. /\ a \in Answers /\ Phase(c) \in {"invoked", "blocked"} /\ UNCHANGED <<ctxDone, processed>>
      /\ (worker[c] # "lock" => Phase(c) = "blocked")
  BY WorkingPhase DEF CallInv, Answers, clientVars
<1>1. worker' = MoveAndWake(c, "exited", {})
  BY DEF Answer, MoveAndWake, WakeAll, TypeOK
<1>2. CallInv' /\ Only(c) /\ Phase(c)' = "effected" /\ Reply(c)' = a
  BY <1>0, <1>1, WorkerAnswers DEF Answer
<1>3. Fifo!Answered(c, a) \/ Fifo!AnsweredNowait(c, a)
  BY <1>0, <1>2, IsAnswered
<1>4. UNCHANGED <<items, unfinished, closed, got, processed, ctxDone>>
  BY <1>0 DEF Answer, queueVars
<1>5. ASSUME a = "closed" PROVE Simulated
  <2>1. Fifo!RefuseClosed(c)
    BY <1>3, <1>4, <1>5 DEF Fifo!RefuseClosed
  <2> QED
    BY <1>5, <2>1 DEF Simulated, Fifo!FNext
<1>6. ASSUME a = "ctx" PROVE Simulated
  <2>1. c \in ctxDone /\ Phase(c) = "blocked"
    BY <1>0, <1>6 DEF CallInv, CallOK
  <2>2. Fifo!Answered(c, "ctx")
    BY <1>3, <1>6, <2>1 DEF Fifo!AnsweredNowait
  <2>3. Fifo!GiveUp(c)
    BY <1>4, <2>1, <2>2 DEF Fifo!GiveUp
  <2> QED
    BY <2>3, KindsOfCalls DEF Simulated, Fifo!FNext
<1> QED
  BY <1>2, <1>5, <1>6

(* A worker that looks at the cancellation for the first time has blocked; *)
(* the client does not see where it goes from there.                       *)
LEMMA GoingSimulates ==
  ASSUME TypeOK, CallInv, NEW c \in Calls, worker[c] \notin {"none", "exited"},
         UNCHANGED <<call, result, clientVars>>, NEW pc \in {"check", "relock", "wait"}, Goto(c, pc),
         worker[c] = "lock" => MustWait(c) /\ ~(c \in PutCalls /\ closed)
  PROVE  CallInv' /\ Simulated
<1>1. CallInv' /\ Only(c) /\ Phase(c)' = "blocked" /\ Reply(c)' = Reply(c)
  BY WorkerGoes
<1>2. Phase(c) = (IF worker[c] = "lock" THEN "invoked" ELSE "blocked")
  BY WorkingPhase DEF CallInv
<1>3. UNCHANGED <<items, unfinished, closed, got, processed, ctxDone>>
  BY DEF Goto, queueVars, clientVars
<1>4. \A d \in Calls : Reply(d)' = Reply(d)
  BY <1>1 DEF Only
<1>5. CASE worker[c] # "lock"
  <2>1. \A d \in Calls : Phase(d)' = Phase(d)
    BY <1>1, <1>2, <1>5 DEF Only
  <2>2. UNCHANGED Fifo!fvars
    BY <1>3, <1>4, <2>1 DEF Fifo!fvars, Reply
  <2> QED
    BY <1>1, <2>2 DEF Simulated
<1>6. CASE worker[c] = "lock"
  <2>1. /\ c \in PutCalls => ~closed /\ ~Fifo!HasRoom
        /\ c \in GetCalls => items = <<>>
        /\ c \in JoinCalls => unfinished > 0
    BY <1>6, RoomIsNotFull, KindsOfCalls DEF MustWait, IsEmpty
  <2>2. [d \in Calls |-> Phase(d)'] = [[d \in Calls |-> Phase(d)] EXCEPT ![c] = "blocked"]
    BY <1>1 DEF Only
  <2>3. Fifo!Block(c)
    BY <1>2, <1>3, <1>4, <1>6, <2>1, <2>2 DEF Fifo!Block, Reply
  <2> QED
    BY <1>1, <2>3, KindsOfCalls DEF Simulated, Fifo!FNext
<1> QED
  BY <1>5, <1>6

(* Every step of a worker is a step of its call or invisible. *)
LEMMA WorkerSimulates ==
  ASSUME TypeOK, CallInv, NEW c \in Calls, WorkerStep(c)
  PROVE  CallInv' /\ Simulated
<1>0. worker[c] \notin {"none", "exited"} /\ UNCHANGED <<call, result, clientVars>>
  BY DEF WorkerStep, WorkerLock, WorkerCheck, WorkerRelock, WorkerWoken
<1>1. CASE WorkerLock(c)
  <2>1. CASE c \in PutCalls /\ closed
    BY <1>0, <1>1, <2>1, RefusalSimulates DEF WorkerLock
  <2>2. CASE ~(c \in PutCalls /\ closed) /\ MustWait(c)
    BY <1>0, <1>1, <2>2, GoingSimulates DEF WorkerLock, LoopTest
  <2>3. CASE ~(c \in PutCalls /\ closed) /\ ~MustWait(c)
    BY <1>0, <1>1, <2>3, CompleteSimulates DEF WorkerLock, LoopTest
  <2> QED
    BY <2>1, <2>2, <2>3
<1>2. CASE WorkerCheck(c)
  <2>1. CASE Cancelled(c)
    BY <1>0, <1>2, <2>1, RefusalSimulates DEF WorkerCheck, Cancelled
  <2>2. CASE ~Cancelled(c)
    BY <1>0, <1>2, <2>2, GoingSimulates DEF WorkerCheck
  <2> QED
    BY <2>1, <2>2
<1>3. CASE WorkerRelock(c)
  <2>1. CASE c \in PutCalls /\ closed
    BY <1>0, <1>3, <2>1, RefusalSimulates DEF WorkerRelock
  <2>2. CASE ~(c \in PutCalls /\ closed) /\ MustWait(c)
    BY <1>0, <1>3, <2>2, GoingSimulates DEF WorkerRelock
  <2>3. CASE ~(c \in PutCalls /\ closed) /\ ~MustWait(c)
    BY <1>0, <1>3, <2>3, CompleteSimulates DEF WorkerRelock
  <2> QED
    BY <2>1, <2>2, <2>3
<1>4. CASE WorkerWoken(c)
  <2>1. CASE MustWait(c)
    BY <1>0, <1>4, <2>1, GoingSimulates DEF WorkerWoken, LoopTest
  <2>2. CASE ~MustWait(c)
    BY <1>0, <1>4, <2>2, CompleteSimulates DEF WorkerWoken, LoopTest
  <2> QED
    BY <2>1, <2>2
<1> QED
  BY <1>1, <1>2, <1>3, <1>4 DEF WorkerStep

-----------------------------------------------------------------------------
(* A step that leaves every call's looks alone is invisible, if it leaves  *)
(* the queue alone.                                                        *)
LEMMA Invisible ==
  ASSUME UNCHANGED <<items, unfinished, closed, got, processed, ctxDone>>,
         \A d \in Calls : Phase(d)' = Phase(d) /\ Reply(d)' = Reply(d)
  PROVE  Simulated
BY DEF Simulated, Fifo!fvars, Reply

(* The caller's select, its cancellation and its return. *)
LEMMA CallerSimulates ==
  ASSUME TypeOK, CallInv, NEW c \in Calls, CallerStep(c)
  PROVE  CallInv' /\ Simulated
<1>0. CallOK(c)
  BY DEF CallInv
<1>1. ASSUME NEW r, call[c] \in {"select", "drain"}, Receive(c, r),
             r = done[c] \/ (c \notin GetCalls /\ c \in ctxDone /\ r = "ctx")
      PROVE  CallInv' /\ Simulated
  <2>1. /\ done[c] # "none" /\ done'[c] = "none" /\ result'[c] = r /\ call'[c] = "returned"
        /\ UNCHANGED <<items, unfinished, closed, worker, got, processed, ctxDone>>
    BY <1>1 DEF Receive, TypeOK, queueVars, clientVars
  <2>2. CallOK(c)'
    BY <1>0, <2>1 DEF CallOK
  <2>3. ASSUME NEW d \in Calls, d # c PROVE Apart(d)
    BY <1>1, <2>3 DEF Apart, Receive, TypeOK, queueVars
  <2>4. CallInv' /\ Only(c)
    BY <2>1, <2>2, <2>3, OneCall
  <2>5. Phase(c) = "effected" /\ Reply(c) = done[c] /\ Phase(c)' = "returned" /\ Reply(c)' = r
    BY <1>1, <2>1 DEF Phase, Reply
  <2>6. /\ [d \in Calls |-> Phase(d)'] = [[d \in Calls |-> Phase(d)] EXCEPT ![c] = "returned"]
        /\ [d \in Calls |-> Reply(d)'] = [[d \in Calls |-> Reply(d)] EXCEPT ![c] = r]
    BY <2>4, <2>5 DEF Only
  <2>7. Fifo!Return(c)
    BY <1>1, <2>1, <2>5, <2>6 DEF Fifo!Return, Reply
  <2> QED
    BY <2>4, <2>7, KindsOfCalls DEF Simulated, Fifo!FNext
<1>2. ASSUME SelectDone(c) \/ Drain(c) PROVE CallInv' /\ Simulated
  <2>1. call[c] = "drain" => c \in ctxDone
    BY <1>0 DEF CallOK
  <2> QED
    BY <1>1, <1>2, <2>1 DEF SelectDone, Drain
<1>3. ASSUME SelectCancelled(c) \/ CancelBroadcast(c) PROVE CallInv' /\ Simulated
  <2>1. /\ call[c] \in {"select", "broadcast"} /\ call'[c] \in {"broadcast", "drain"}
        /\ c \in ctxDone
        /\ UNCHANGED <<items, unfinished, closed, done, got, result, processed, ctxDone>>
    BY <1>0, <1>3 DEF SelectCancelled, CancelBroadcast, CallOK, TypeOK, queueVars, clientVars
  <2>2. \A d \in Calls : \/ worker'[d] = worker[d]
                         \/ worker[d] = "wait" /\ worker'[d] = "woken"
    <3>1. CASE SelectCancelled(c)
      BY <3>1 DEF SelectCancelled
    <3>2. CASE CancelBroadcast(c)
      <4>1. PICK S : S = CondOf(c)
        OBVIOUS
      <4>2. worker' = WakeAll(Broadcast(S))
        BY <3>2, <4>1 DEF CancelBroadcast
      <4> QED
        BY <4>2, WokenApart
    <3> QED
      BY <1>3, <3>1, <3>2
  <2>3. CallOK(c)'
    BY <1>0, <2>1, <2>2 DEF CallOK
  <2>4. ASSUME NEW d \in Calls, d # c PROVE Apart(d)
    BY <1>3, <2>1, <2>2, <2>4 DEF Apart, SelectCancelled, CancelBroadcast, TypeOK
  <2>5. CallInv' /\ Only(c)
    BY <2>1, <2>3, <2>4, OneCall
  <2>6. Phase(c)' = Phase(c) /\ Reply(c)' = Reply(c)
    BY <2>1, <2>2 DEF Phase, Reply
  <2> QED
    BY <2>1, <2>5, <2>6, Invisible DEF Only
<1> QED
  BY <1>2, <1>3 DEF CallerStep

(* A call that was never made has no answer. *)
LEMMA IdleCall ==
  ASSUME NEW c \in Calls, CallOK(c), call[c] = "idle"
  PROVE  Phase(c) = "idle" /\ Reply(c) = "none" /\ done[c] = "none" /\ worker[c] = "none"
         /\ result[c] = "none"
BY DEF CallOK, Phase, Reply

(* A blocking call starts. *)
LEMMA StartSimulates ==
  ASSUME TypeOK, CallInv, NEW c \in Calls, Start(c)
  PROVE  CallInv' /\ Simulated
<1>1. /\ call'[c] = "select" /\ worker'[c] = "lock" /\ call[c] = "idle"
      /\ UNCHANGED <<items, unfinished, closed, done, got, result, processed, ctxDone>>
  BY DEF Start, TypeOK, queueVars
<1>2. Phase(c) = "idle" /\ Reply(c) = "none" /\ done[c] = "none" /\ result[c] = "none"
  BY <1>1, IdleCall DEF CallInv
<1>3. CallOK(c)'
  BY <1>1, <1>2 DEF CallOK
<1>4. ASSUME NEW d \in Calls, d # c PROVE Apart(d)
  BY <1>4 DEF Apart, Start, TypeOK
<1>5. CallInv' /\ Only(c)
  BY <1>1, <1>3, <1>4, OneCall
<1>6. Phase(c)' = "invoked" /\ Reply(c)' = Reply(c)
  BY <1>1, <1>2 DEF Phase, Reply
<1>7. /\ [d \in Calls |-> Phase(d)'] = [[d \in Calls |-> Phase(d)] EXCEPT ![c] = "invoked"]
      /\ \A d \in Calls : Reply(d)' = Reply(d)
  BY <1>5, <1>6 DEF Only
<1>8. Fifo!Invoke(c)
  BY <1>1, <1>2, <1>7 DEF Fifo!Invoke, Reply
<1> QED
  BY <1>5, <1>8, KindsOfCalls DEF Simulated, Fifo!FNext

(* A nowait call is made and returns r in one step. *)
LEMMA NowaitReturns ==
  ASSUME TypeOK, CallInv, NEW c \in Calls, call[c] = "idle", NEW r \in Answers,
         call' = [call EXCEPT ![c] = "returned"], result' = [result EXCEPT ![c] = r],
         UNCHANGED <<done, clientVars>>,
         worker' = worker \/ \E S, W : W \in Signal(S) /\ worker' = WakeAll(W)
  PROVE  CallInv' /\ (Fifo!Answered(c, r) \/ Fifo!AnsweredNowait(c, r)) /\ Fifo!AnsweredNowait(c, r)
<1>1. Phase(c) = "idle" /\ done[c] = "none" /\ worker[c] = "none"
  BY IdleCall DEF CallInv
<1>2. \A d \in Calls : \/ worker'[d] = worker[d]
                       \/ worker[d] = "wait" /\ worker'[d] = "woken"
  BY WokenApart
<1>3. call'[c] = "returned" /\ result'[c] = r /\ done'[c] = "none" /\ worker'[c] = "none"
      /\ ctxDone' = ctxDone
  BY <1>1, <1>2 DEF TypeOK, clientVars
<1>4. CallOK(c)'
  BY <1>3 DEF CallOK
<1>5. ASSUME NEW d \in Calls, d # c PROVE Apart(d)
  BY <1>2, <1>5 DEF Apart, TypeOK
<1>6. CallInv' /\ Only(c)
  BY <1>3, <1>4, <1>5, OneCall
<1>7. Phase(c)' = "returned" /\ Reply(c)' = r
  BY <1>3 DEF Phase, Reply
<1>8. Fifo!Answered(c, r) \/ Fifo!AnsweredNowait(c, r)
  BY <1>1, <1>6, <1>7, IsAnswered
<1>9. Fifo!AnsweredNowait(c, r)
  BY <1>1, <1>8 DEF Fifo!Answered
<1> QED
  BY <1>6, <1>8, <1>9

(* PutNowait and GetNowait. *)
LEMMA NowaitSimulates ==
  ASSUME TypeOK, CallInv, NEW c \in Calls,
         (c \in PutCalls /\ PutNowait(c)) \/ (c \in GetCalls /\ GetNowait(c))
  PROVE  CallInv' /\ Simulated
<1>0. {"nil", "closed", "full", "empty"} \subseteq Answers
  BY DEF Answers
<1>1. ASSUME NEW r \in {"closed", "full", "empty"}, Refuse(c, r),
             call[c] = "idle", call' = [call EXCEPT ![c] = "returned"], UNCHANGED <<done, clientVars>>,
             \/ r = "closed" /\ c \in PutCalls /\ closed
             \/ r = "full" /\ c \in PutCalls /\ ~closed /\ IsFull
             \/ r = "empty" /\ c \in GetCalls /\ IsEmpty
      PROVE  CallInv' /\ Simulated
  <2>1. CallInv' /\ (Fifo!Answered(c, r) \/ Fifo!AnsweredNowait(c, r)) /\ Fifo!AnsweredNowait(c, r)
    BY <1>0, <1>1, NowaitReturns DEF Refuse
  <2>2. UNCHANGED <<items, unfinished, closed, got, processed, ctxDone>>
    BY <1>1 DEF Refuse, queueVars, clientVars
  <2>3. CASE r = "closed"
    <3>1. Fifo!RefuseClosed(c) /\ c \in PutCalls
      BY <1>1, <2>1, <2>2, <2>3 DEF Fifo!RefuseClosed
    <3> QED
      BY <2>1, <3>1 DEF Simulated, Fifo!FNext
  <2>4. CASE r # "closed"
    <3>1. Fifo!RefuseNowait(c)
      BY <1>1, <2>1, <2>2, <2>4, RoomIsNotFull DEF Fifo!RefuseNowait, IsEmpty
    <3> QED
      BY <2>1, <3>1, KindsOfCalls DEF Simulated, Fifo!FNext
  <2> QED
    BY <2>3, <2>4
<1>2. ASSUME c \in PutCalls, PutNowait(c) PROVE CallInv' /\ Simulated
  <2>1. call[c] = "idle" /\ call' = [call EXCEPT ![c] = "returned"] /\ UNCHANGED <<done, clientVars>>
    BY <1>2 DEF PutNowait
  <2>2. CASE closed \/ IsFull
    BY <1>1, <1>2, <2>1, <2>2 DEF PutNowait
  <2>3. CASE ~closed /\ ~IsFull
    <3>1. /\ result' = [result EXCEPT ![c] = "nil"] /\ items' = Append(items, c)
          /\ unfinished' = unfinished + 1 /\ UNCHANGED <<closed, got>>
          /\ \E W \in Signal(GetCalls) : worker' = WakeAll(W)
      BY <1>2, <2>3 DEF PutNowait
    <3>2. CallInv' /\ (Fifo!Answered(c, "nil") \/ Fifo!AnsweredNowait(c, "nil"))
      BY <1>0, <2>1, <3>1, NowaitReturns
    <3>3. Fifo!Accept(c)
      BY <2>1, <2>3, <3>1, <3>2, RoomIsNotFull DEF Fifo!Accept, clientVars
    <3> QED
      BY <1>2, <3>2, <3>3 DEF Simulated, Fifo!FNext
  <2> QED
    BY <2>2, <2>3
<1>3. ASSUME c \in GetCalls, GetNowait(c) PROVE CallInv' /\ Simulated
  <2>1. call[c] = "idle" /\ call' = [call EXCEPT ![c] = "returned"] /\ UNCHANGED <<done, clientVars>>
    BY <1>3 DEF GetNowait
  <2>2. CASE IsEmpty
    BY <1>1, <1>3, <2>1, <2>2 DEF GetNowait
  <2>3. CASE ~IsEmpty
    <3>1. /\ result' = [result EXCEPT ![c] = "nil"] /\ items' = Tail(items)
          /\ got' = [got EXCEPT ![c] = Head(items)] /\ UNCHANGED <<closed, unfinished>>
          /\ \E W \in Signal(PutCalls) : worker' = WakeAll(W)
      BY <1>3, <2>3 DEF GetNowait
    <3>2. CallInv' /\ (Fifo!Answered(c, "nil") \/ Fifo!AnsweredNowait(c, "nil"))
      BY <1>0, <2>1, <3>1, NowaitReturns
    <3>3. Fifo!Deliver(c)
      BY <2>1, <2>3, <3>1, <3>2 DEF Fifo!Deliver, IsEmpty, clientVars
    <3> QED
      BY <1>3, <3>2, <3>3 DEF Simulated, Fifo!FNext
  <2> QED
    BY <2>2, <2>3
<1> QED
  BY <1>2, <1>3

(* TaskDone, Close and the end of a context leave every call as it was. *)
LEMMA ClientSimulates ==
  ASSUME TypeOK, CallInv,
         (\E g \in GetCalls : TaskDone(g)) \/ Close \/ (\E c \in Calls : CancelContext(c))
  PROVE  CallInv' /\ Simulated
<1>1. /\ UNCHANGED <<items, call, done, got, result>> /\ ctxDone \subseteq ctxDone'
      /\ \A d \in Calls : \/ worker'[d] = worker[d]
                          \/ worker[d] = "wait" /\ worker'[d] = "woken"
  <2>1. ASSUME NEW g \in GetCalls, TaskDone(g)
        PROVE  \A d \in Calls : \/ worker'[d] = worker[d]
                                \/ worker[d] = "wait" /\ worker'[d] = "woken"
    <3>1. worker' = worker \/ worker' = WakeAll(Broadcast(JoinCalls)) \/ worker' = WakeAll({})
      BY <2>1 DEF TaskDone
    <3> QED
      BY <3>1, WokenApart
  <2>2. ASSUME Close PROVE \A d \in Calls : \/ worker'[d] = worker[d]
                                            \/ worker[d] = "wait" /\ worker'[d] = "woken"
    BY <2>2, WokenApart DEF Close
  <2> QED
    BY <2>1, <2>2 DEF TaskDone, Close, CancelContext, queueVars, clientVars
<1>2. \A d \in Calls : Apart(d)
  BY <1>1 DEF Apart
<1>3. CallInv'
  BY <1>1, <1>2, ApartOK DEF CallInv
<1>4. \A d \in Calls : Phase(d)' = Phase(d) /\ Reply(d)' = Reply(d)
  BY <1>2, ApartSame
<1>5. ASSUME NEW g \in GetCalls, TaskDone(g) PROVE Simulated
  <2>1. CASE unfinished <= 0
    BY <1>1, <1>4, <1>5, <2>1, Invisible DEF TaskDone
  <2>2. CASE ~(unfinished <= 0)
    <3>1. /\ result[g] = "nil" /\ g \notin processed /\ unfinished' = unfinished - 1
          /\ processed' = processed \cup {g} /\ UNCHANGED <<closed, ctxDone>>
      BY <1>5, <2>2 DEF TaskDone
    <3>2. call[g] = "returned" /\ g \in Calls
      BY <3>1, KindsOfCalls DEF CallInv, CallOK
    <3>3. Phase(g) = "returned" /\ Reply(g) = "nil"
      BY <3>1, <3>2 DEF Phase, Reply
    <3>4. Fifo!Report(g)
      BY <1>1, <1>4, <3>1, <3>2, <3>3 DEF Fifo!Report, Reply
    <3> QED
      BY <3>4 DEF Simulated, Fifo!FNext
  <2> QED
    BY <2>1, <2>2
<1>6. ASSUME Close PROVE Simulated
  <2>1. Fifo!Shut
    BY <1>1, <1>4, <1>6 DEF Fifo!Shut, Close, clientVars, Reply
  <2> QED
    BY <2>1 DEF Simulated, Fifo!FNext
<1>7. ASSUME NEW c \in Calls, CancelContext(c) PROVE Simulated
  <2>1. /\ call[c] = "select" /\ ctxDone' = ctxDone \cup {c}
        /\ UNCHANGED <<unfinished, closed, processed>>
    BY <1>7 DEF CancelContext, queueVars
  <2>2. Phase(c) \in {"invoked", "blocked", "effected"}
    BY <2>1 DEF Phase
  <2>3. Fifo!Withdraw(c)
    BY <1>1, <1>4, <2>1, <2>2 DEF Fifo!Withdraw, Reply
  <2> QED
    BY <2>3, KindsOfCalls DEF Simulated, Fifo!FNext
<1> QED
  BY <1>3, <1>5, <1>6, <1>7

-----------------------------------------------------------------------------
(* Every step of the queue is a step of the abstract queue or invisible. *)
LEMMA StepSimulation == TypeOK /\ CallInv /\ [Next]_vars => CallInv' /\ Simulated
<1> SUFFICES ASSUME TypeOK, CallInv, [Next]_vars PROVE CallInv' /\ Simulated
  OBVIOUS
<1>1. ASSUME NEW c \in Calls, WorkerStep(c) \/ CallerStep(c) \/ Start(c) PROVE CallInv' /\ Simulated
  BY <1>1, WorkerSimulates, CallerSimulates, StartSimulates
<1>2. ASSUME NEW c \in Calls,
             (c \in PutCalls /\ PutNowait(c)) \/ (c \in GetCalls /\ GetNowait(c))
      PROVE  CallInv' /\ Simulated
  BY <1>2, NowaitSimulates
<1>3. ASSUME (\E g \in GetCalls : TaskDone(g)) \/ Close \/ (\E c \in Calls : CancelContext(c))
      PROVE  CallInv' /\ Simulated
  BY <1>3, ClientSimulates
<1>4. ASSUME UNCHANGED vars PROVE CallInv' /\ Simulated
  <2>1. UNCHANGED <<items, unfinished, closed, call, worker, done, got, result, ctxDone, processed>>
    BY <1>4 DEF vars
  <2>2. \A d \in Calls : Apart(d)
    BY <2>1 DEF Apart
  <2>3. CallInv'
    BY <2>1, <2>2, ApartOK DEF CallInv
  <2>4. \A d \in Calls : Phase(d)' = Phase(d) /\ Reply(d)' = Reply(d)
    BY <2>2, ApartSame
  <2> QED
    BY <2>1, <2>3, <2>4, Invisible
<1> QED
  BY <1>1, <1>2, <1>3, <1>4, KindsOfCalls DEF Next

(* A fresh queue is a fresh abstract queue. *)
LEMMA InitSimulation == Init => CallInv /\ Fifo!FInit
<1> SUFFICES ASSUME Init PROVE CallInv /\ Fifo!FInit
  OBVIOUS
<1>1. CallInv
  BY DEF Init, CallInv, CallOK
<1>2. /\ [c \in Calls |-> Phase(c)] = [c \in Calls |-> "idle"]
      /\ [c \in Calls |-> IF call[c] = "returned" THEN result[c] ELSE done[c]] = [c \in Calls |-> "none"]
  BY DEF Init, Phase
<1>3. Fifo!FInit
  BY <1>2, KindsOfCalls DEF Init, Fifo!FInit
<1> QED
  BY <1>1, <1>3

(* queue.go looks to its clients like an atomic FIFO queue: each call takes *)
(* effect at one instant between its start and its return, items leave in  *)
(* the order they were accepted, and mutex, condition variables and worker *)
(* goroutines cannot be seen.                                              *)
THEOREM RefinementCorrect == Spec => ImplementsFifo
<1>1. Init => CallInv /\ Fifo!FInit
  BY InitSimulation
<1>2. TypeOK /\ CallInv /\ [Next]_vars => CallInv' /\ [Fifo!FNext]_(Fifo!fvars)
  BY StepSimulation DEF Simulated
<1> QED
  BY <1>1, <1>2, TypeCorrect, PTL DEF Spec, ImplementsFifo, Fifo!FSpec
=============================================================================
