------------------------------- MODULE Queue -------------------------------
(***************************************************************************)
(* pkg/py/pyasyncio/queue.go: the asyncio-style queue of one mutex, three  *)
(* condition variables and, for every blocking call, one worker goroutine  *)
(* and a caller that selects on the worker's answer and on its context.    *)
(*                                                                         *)
(* A step of this specification is one critical section of q.mu, or one    *)
(* channel or condition-variable operation outside of it.  (The Broadcast  *)
(* of a cancelling caller runs without the mutex; it commutes with a       *)
(* critical section, whose only wait registration is its last action.)     *)
(*                                                                         *)
(* Calls are one-shot and known by identity; a put's item is its identity. *)
(***************************************************************************)
EXTENDS Integers, Sequences, FiniteSets

CONSTANTS PutCalls, GetCalls, JoinCalls,  \* the calls clients may make
          NowaitCalls,                    \* those made with PutNowait or GetNowait
          CancellableCalls,               \* those whose context may be cancelled
          MaxSize,                        \* maxsize: zero or negative is unlimited
          NoItem                          \* the zero value a get returns with an error

ASSUME CallsAssumption ==
  /\ IsFiniteSet(PutCalls) /\ IsFiniteSet(GetCalls) /\ IsFiniteSet(JoinCalls)
  /\ PutCalls \cap GetCalls = {}
  /\ (PutCalls \cup GetCalls) \cap JoinCalls = {}

ASSUME MaxSizeAssumption == MaxSize \in Int
ASSUME NoItemAssumption == NoItem \notin PutCalls

VARIABLES
  items, unfinished, closed,  \* the fields of queue[T]; mu is implicit
  call,       \* the calling goroutine of each call
  worker,     \* the worker goroutine of each call
  done,       \* content of the call's done channel ("none": empty)
  got,        \* the item carried with a get's answer
  result,     \* what the call returned ("none": it has not)
  ctxDone,    \* calls whose context is cancelled
  processed,  \* gets whose client called TaskDone
  mustFinish  \* history: what was accepted before each join was called

vars == <<items, unfinished, closed, call, worker, done, got, result,
          ctxDone, processed, mustFinish>>
queueVars == <<items, unfinished, closed>>
clientVars == <<ctxDone, processed, mustFinish>>

Calls == PutCalls \cup GetCalls \cup JoinCalls
Answers == {"nil", "closed", "ctx", "full", "empty"}
CallerPC == {"idle", "select", "broadcast", "drain", "returned"}
WorkerPC == {"none", "lock", "check", "relock", "wait", "woken", "exited"}

TypeOK ==
  /\ items \in Seq(PutCalls)
  /\ unfinished \in Nat
  /\ closed \in BOOLEAN
  /\ call \in [Calls -> CallerPC]
  /\ worker \in [Calls -> WorkerPC]
  /\ done \in [Calls -> Answers \cup {"none"}]
  /\ got \in [GetCalls -> PutCalls \cup {NoItem}]
  /\ result \in [Calls -> Answers \cup {"none"}]
  /\ ctxDone \in SUBSET Calls
  /\ processed \in SUBSET GetCalls
  /\ mustFinish \in [JoinCalls -> SUBSET PutCalls]

Init ==
  /\ items = <<>> /\ unfinished = 0 /\ closed = FALSE
  /\ call = [c \in Calls |-> "idle"]
  /\ worker = [c \in Calls |-> "none"]
  /\ done = [c \in Calls |-> "none"]
  /\ got = [g \in GetCalls |-> NoItem]
  /\ result = [c \in Calls |-> "none"]
  /\ ctxDone = {} /\ processed = {}
  /\ mustFinish = [j \in JoinCalls |-> {}]

-----------------------------------------------------------------------------
(* What the code tests. *)

IsFullOffByOne == MaxSize > 0 /\ Len(items) > MaxSize   \* Mutation
IsFull == MaxSize > 0 /\ Len(items) >= MaxSize
IsEmpty == items = <<>>
Cancelled(c) == call[c] \in {"broadcast", "drain"}   \* channel cancelled is closed

\* Each kind of call waits on a condition variable of its own, in a loop.
MustWait(c) ==
  \/ c \in PutCalls /\ IsFull
  \/ c \in GetCalls /\ IsEmpty
  \/ c \in JoinCalls /\ unfinished > 0

(* Condition variables: notFull, notEmpty and allTasksDone are the sets of  *)
(* put, get and join workers asleep.                                        *)
Sleeping(S) == {c \in S : worker[c] = "wait"}
SignalNobody(S) == {{}}   \* Mutation
Signal(S) == IF Sleeping(S) = {} THEN {{}} ELSE {{c} : c \in Sleeping(S)}
Broadcast(S) == Sleeping(S)

\* The workers of W wake; the worker of c goes to pc.
WakeAll(W) == [c \in Calls |-> IF c \in W THEN "woken" ELSE worker[c]]
MoveAndWake(c, pc, W) == [WakeAll(W) EXCEPT ![c] = pc]

Occupants == {items[i] : i \in DOMAIN items}
Finished == {got[g] : g \in processed}
Accepted == Occupants \cup ({got[g] : g \in GetCalls} \ {NoItem})

-----------------------------------------------------------------------------
(* The worker goroutine. *)

\* The worker sends a on done and, its critical section over, exits.
Answer(c, a) ==
  /\ worker' = [worker EXCEPT ![c] = "exited"]
  /\ done' = [done EXCEPT ![c] = a]
  /\ UNCHANGED <<queueVars, got>>

\* putItem (getItem), then the answer: the item is enqueued (dequeued) and one
\* sleeping getter (putter) is signalled.
putItem(p) ==
  /\ items' = Append(items, p)
  /\ unfinished' = unfinished + 1
  /\ done' = [done EXCEPT ![p] = "nil"]
  /\ \E W \in Signal(GetCalls) : worker' = MoveAndWake(p, "exited", W)
  /\ UNCHANGED <<closed, got>>

\* Mutation: the item is read and not removed.
getItemPeek(g) ==
  /\ got' = [got EXCEPT ![g] = Head(items)]
  /\ done' = [done EXCEPT ![g] = "nil"]
  /\ \E W \in Signal(PutCalls) : worker' = MoveAndWake(g, "exited", W)
  /\ UNCHANGED <<items, unfinished, closed>>

\* Mutation: no putter is signalled.
getItemSilent(g) ==
  /\ items' = Tail(items)
  /\ got' = [got EXCEPT ![g] = Head(items)]
  /\ done' = [done EXCEPT ![g] = "nil"]
  /\ worker' = [worker EXCEPT ![g] = "exited"]
  /\ UNCHANGED <<unfinished, closed>>

getItem(g) ==
  /\ items' = Tail(items)
  /\ got' = [got EXCEPT ![g] = Head(items)]
  /\ done' = [done EXCEPT ![g] = "nil"]
  /\ \E W \in Signal(PutCalls) : worker' = MoveAndWake(g, "exited", W)
  /\ UNCHANGED <<unfinished, closed>>

\* Past the loop: what the call is for.
Complete(c) ==
  \/ c \in PutCalls /\ putItem(c)
  \/ c \in GetCalls /\ getItem(c)
  \/ c \in JoinCalls /\ Answer(c, "nil")

Goto(c, pc) ==
  /\ worker' = [worker EXCEPT ![c] = pc]
  /\ UNCHANGED <<queueVars, done, got>>

\* The loop's test: leave the loop, or unlock and look at the cancellation.
LoopTest(c) == IF MustWait(c) THEN Goto(c, "check") ELSE Complete(c)

\* The first critical section; only Put looks at closed.
WorkerLock(c) ==
  /\ worker[c] = "lock"
  /\ IF c \in PutCalls /\ closed THEN Answer(c, "closed") ELSE LoopTest(c)

\* Unlocked: poll the cancelled channel.
WorkerCheck(c) ==
  /\ worker[c] = "check"
  /\ IF Cancelled(c) THEN Answer(c, "ctx") ELSE Goto(c, "relock")

\* Locked again: sleep if the condition still does not hold.
WorkerRelock(c) ==
  /\ worker[c] = "relock"
  /\ IF c \in PutCalls /\ closed THEN Answer(c, "closed")
     ELSE IF MustWait(c) THEN Goto(c, "wait") ELSE Complete(c)

\* Mutation: a woken Join does not test again.
WorkerWokenJoinReturns(c) ==
  /\ worker[c] = "woken"
  /\ IF c \in JoinCalls THEN Complete(c) ELSE LoopTest(c)

\* Wait returns with the mutex held, straight to the loop's test.
WorkerWoken(c) == worker[c] = "woken" /\ LoopTest(c)

WorkerStep(c) ==
  /\ WorkerLock(c) \/ WorkerCheck(c) \/ WorkerRelock(c) \/ WorkerWoken(c)
  /\ UNCHANGED <<call, result, clientVars>>

-----------------------------------------------------------------------------
(* The calling goroutine. *)

\* Put, Get or Join: make the channels, start the worker, go to the select.
Start(c) ==
  /\ call[c] = "idle" /\ c \notin NowaitCalls
  /\ call' = [call EXCEPT ![c] = "select"]
  /\ worker' = [worker EXCEPT ![c] = "lock"]
  /\ mustFinish' = [j \in JoinCalls |-> IF j = c THEN Accepted ELSE mustFinish[j]]
  /\ UNCHANGED <<queueVars, done, got, result, ctxDone, processed>>

\* The answer is received from done and the call returns r.
Receive(c, r) ==
  /\ done[c] # "none"
  /\ done' = [done EXCEPT ![c] = "none"]
  /\ result' = [result EXCEPT ![c] = r]
  /\ call' = [call EXCEPT ![c] = "returned"]
  /\ UNCHANGED <<queueVars, worker, got, clientVars>>

SelectDone(c) == call[c] = "select" /\ Receive(c, done[c])

\* select takes ctx.Done (also when done is ready): close(cancelled).
SelectCancelled(c) ==
  /\ call[c] = "select" /\ c \in ctxDone
  /\ call' = [call EXCEPT ![c] = "broadcast"]
  /\ UNCHANGED <<queueVars, worker, done, got, result, clientVars>>

\* The caller broadcasts, without q.mu, on the condition its worker waits for.
CondOf(c) == IF c \in PutCalls THEN PutCalls ELSE IF c \in GetCalls THEN GetCalls ELSE JoinCalls

CancelBroadcast(c) ==
  /\ call[c] = "broadcast"
  /\ call' = [call EXCEPT ![c] = "drain"]
  /\ worker' = WakeAll(Broadcast(CondOf(c)))
  /\ UNCHANGED <<queueVars, done, got, result, clientVars>>

\* Mutation: a cancelled Get drops what its worker took.
DrainDropsItem(c) == call[c] = "drain" /\ Receive(c, "ctx")

\* Get returns what the worker sent; Put and Join drop it for ctx.Err().
Drain(c) ==
  /\ call[c] = "drain"
  /\ Receive(c, IF c \in GetCalls THEN done[c] ELSE "ctx")

CallerStep(c) == SelectDone(c) \/ SelectCancelled(c) \/ CancelBroadcast(c) \/ Drain(c)

-----------------------------------------------------------------------------
(* Calls that never block: one critical section each. *)

\* The nowait call c returns r without touching the queue.
Refuse(c, r) ==
  /\ result' = [result EXCEPT ![c] = r]
  /\ UNCHANGED <<queueVars, worker, got>>

PutNowait(p) ==
  /\ call[p] = "idle" /\ p \in NowaitCalls
  /\ call' = [call EXCEPT ![p] = "returned"]
  /\ IF closed THEN Refuse(p, "closed")
     ELSE IF IsFull THEN Refuse(p, "full")
     ELSE /\ result' = [result EXCEPT ![p] = "nil"]
          /\ items' = Append(items, p)
          /\ unfinished' = unfinished + 1
          /\ \E W \in Signal(GetCalls) : worker' = WakeAll(W)
          /\ UNCHANGED <<closed, got>>
  /\ UNCHANGED <<done, clientVars>>

GetNowait(g) ==
  /\ call[g] = "idle" /\ g \in NowaitCalls
  /\ call' = [call EXCEPT ![g] = "returned"]
  /\ IF IsEmpty THEN Refuse(g, "empty")
     ELSE /\ result' = [result EXCEPT ![g] = "nil"]
          /\ items' = Tail(items)
          /\ got' = [got EXCEPT ![g] = Head(items)]
          /\ \E W \in Signal(PutCalls) : worker' = WakeAll(W)
          /\ UNCHANGED <<unfinished, closed>>
  /\ UNCHANGED <<done, clientVars>>

\* Mutation: the count is taken below zero.
TaskDoneUnchecked(g) ==
  /\ result[g] = "nil" /\ (g \notin processed \/ unfinished <= 0)
  /\ processed' = processed \cup {g}
  /\ unfinished' = unfinished - 1
  /\ worker' = WakeAll(IF unfinished' = 0 THEN Broadcast(JoinCalls) ELSE {})
  /\ UNCHANGED <<items, closed, call, done, got, result, ctxDone, mustFinish>>

\* The documented use is one TaskDone for each successful get; a client that
\* calls again once everything is finished gets an error.
TaskDone(g) ==
  /\ result[g] = "nil" /\ (g \notin processed \/ unfinished <= 0)
  /\ IF unfinished <= 0 THEN UNCHANGED <<unfinished, worker, processed>>
     ELSE /\ unfinished' = unfinished - 1
          /\ processed' = processed \cup {g}
          /\ worker' = WakeAll(IF unfinished' = 0 THEN Broadcast(JoinCalls) ELSE {})
  /\ UNCHANGED <<items, closed, call, done, got, result, ctxDone, mustFinish>>

Close ==
  /\ closed' = TRUE
  /\ worker' = WakeAll(Broadcast(Calls))
  /\ UNCHANGED <<items, unfinished, call, done, got, result, clientVars>>

\* A client's context is cancelled or times out.
CancelContext(c) ==
  /\ c \in CancellableCalls /\ call[c] = "select" /\ c \notin ctxDone
  /\ ctxDone' = ctxDone \cup {c}
  /\ UNCHANGED <<queueVars, call, worker, done, got, result, processed, mustFinish>>

Next ==
  \/ \E c \in Calls : WorkerStep(c) \/ CallerStep(c) \/ Start(c) \/ CancelContext(c)
  \/ \E p \in PutCalls : PutNowait(p)
  \/ \E g \in GetCalls : GetNowait(g) \/ TaskDone(g)
  \/ Close

Spec == Init /\ [][Next]_vars

\* The Go scheduler runs every runnable goroutine, and sync.Mutex does not
\* starve a waiter: a worker or caller that can step eventually does.  Nothing
\* makes a client start a call, cancel a context, call TaskDone or Close.
Fairness == \A c \in Calls : WF_vars(WorkerStep(c)) /\ WF_vars(CallerStep(c))
FairSpec == Spec /\ Fairness

-----------------------------------------------------------------------------
(* Properties. *)

Woken(S) == {c \in S : worker[c] = "woken"}

\* No lost wakeup: while a getter (putter) sleeps, there is a woken getter
\* (putter) for each item (each free slot) in the queue, and a joiner sleeps only
\* while items are unfinished.  putItem, getItem and TaskDone signal one worker
\* per change, and nowait calls and cancellations take what was signalled for.
NoLostWakeup ==
  /\ Sleeping(GetCalls) # {} => Cardinality(Woken(GetCalls)) >= Len(items)
  /\ MaxSize > 0 /\ Sleeping(PutCalls) # {} =>
       Cardinality(Woken(PutCalls)) >= MaxSize - Len(items)
  /\ Sleeping(JoinCalls) # {} => unfinished > 0

\* The counter unfinished is the items in the queue and the items taken whose
\* TaskDone is still to come, including those in transit to a caller that may
\* be cancelling; and a bounded queue is never over its bound.
Accounting ==
  /\ unfinished = Len(items) + Cardinality({g \in GetCalls : got[g] # NoItem} \ processed)
  /\ MaxSize > 0 => Len(items) <= MaxSize

\* An accepted item is in the queue once or was handed to one get, never both,
\* however Put, PutNowait, Get, GetNowait and cancellations interleave.
DeliveredOnce ==
  /\ \A i, k \in DOMAIN items : items[i] = items[k] => i = k
  /\ \A g \in GetCalls : got[g] \notin Occupants
  /\ \A g, h \in GetCalls : got[g] = got[h] /\ got[g] # NoItem => g = h

\* A Join that returns nil returns after TaskDone was called for every item
\* accepted before the Join was called.
JoinWaitsForAll ==
  \A j \in JoinCalls : result[j] = "nil" => mustFinish[j] \subseteq Finished

\* A blocked call is served when it can be: if the queue stays non-full, non-empty
\* or finished for good, every put, get or join then waiting has its answer.
\* Cancelled calls of others must not swallow the wakeups meant for it.
ServedWhenPossible ==
  \A c \in Calls : <>[](~MustWait(c)) => (call[c] = "select" ~> call[c] = "returned")

\* What a caller of queue.go sees is an atomic FIFO queue.
Phase(c) ==
  CASE call[c] \in {"idle", "returned"} -> call[c]
    [] OTHER -> IF done[c] # "none" THEN "effected"
                ELSE IF worker[c] = "lock" THEN "invoked" ELSE "blocked"

Fifo == INSTANCE FifoQueue WITH
  queue <- items, shut <- closed, taken <- got, reported <- processed,
  withdrawn <- ctxDone,
  phase <- [c \in Calls |-> Phase(c)],
  answer <- [c \in Calls |-> IF call[c] = "returned" THEN result[c] ELSE done[c]]

\* The queue implements the abstract FIFO queue: mutex, condition variables and
\* worker goroutines are invisible to a client.
ImplementsFifo == Fifo!FSpec

\* queue.go:210 "The operation can be cancelled through the context": a call
\* whose caller saw the cancellation returns.
CancelledCallReturns == \A c \in Calls : call[c] = "drain" ~> call[c] = "returned"
=============================================================================
