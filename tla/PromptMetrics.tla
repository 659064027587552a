---------------------------- MODULE PromptMetrics ----------------------------
(***************************************************************************)
(* MetricsCollector (metrics.go): counters behind a sync.RWMutex.  An      *)
(* operation is the sequence of its lock operations.  GetPerformanceMetrics*)
(* and GetAllMetrics call other readers while they hold the read lock;     *)
(* GetSnapshot calls two of the operations here, and holds none.           *)
(*                                                                         *)
(* sync.RWMutex: a writer that called Lock keeps new readers out, then     *)
(* waits for the readers that are in; RLock is not aware of who calls it.  *)
(***************************************************************************)
EXTENDS Naturals, Sequences, FiniteSets

CONSTANTS Users, \* goroutines that use the collector, one operation each
          None   \* no goroutine, and not one of Users

VARIABLES
  todo,     \* todo[u]: the lock operations u has yet to do
  started,  \* started[u]: the operation u chose, or "none"
  depth,    \* depth[u]: read locks u holds
  writer,   \* the goroutine in Lock or past it, or None
  writing,  \* that goroutine holds the lock
  recorded, \* operationCount
  failures, \* validationErrors, templateErrors and cloudErrors together
  parted    \* history: who had recorded, and not counted its error, at the last Reset

vars == <<todo, started, depth, writer, writing, recorded, failures, parted>>

(* Mutation: the map is read in a method that locks for itself.            *)
NestedOperationMetrics == <<"RLock", "RLock", "RUnlock", "RUnlock">>

GetOperationMetrics == <<"RLock", "RUnlock">>

(* Mutation: it unlocks by hand and again when it returns.                 *)
TwiceUnlockedLatency == <<"RLock", "RUnlock", "RUnlock">>

GetAverageLatency == <<"RLock", "RUnlock">>

GetPerformanceMetrics ==
  <<"RLock">> \o GetAverageLatency \o GetAverageLatency \o <<"RUnlock">>

GetAllMetrics ==
  <<"RLock">> \o GetOperationMetrics \o GetOperationMetrics
              \o GetPerformanceMetrics \o <<"RUnlock">>

IncrementPromptCreated == <<"Lock", "Unlock">>
RecordOperationLatency == <<"Lock", "record", "Unlock">>
IncrementCloudError == <<"Lock", "fail", "Unlock">>
Reset == <<"Lock", "reset", "Unlock">>

(* An operation of the service that succeeds runs the deferred Finish.     *)
Finish == RecordOperationLatency

(* One that fails has run FinishWithError, and then the deferred Finish.   *)
FinishWithError == RecordOperationLatency \o IncrementCloudError \o Finish

Operation ==
  [count |-> IncrementPromptCreated, succeed |-> Finish, fail |-> FinishWithError, reset |-> Reset,
   read |-> GetOperationMetrics, performance |-> GetPerformanceMetrics, all |-> GetAllMetrics]

Init ==
  /\ todo = [u \in Users |-> <<>>]
  /\ started = [u \in Users |-> "none"]
  /\ depth = [u \in Users |-> 0]
  /\ writer = None
  /\ writing = FALSE
  /\ recorded = 0
  /\ failures = 0
  /\ parted = {}

Start(u, op) ==
  /\ started[u] = "none"
  /\ started' = [started EXCEPT ![u] = op]
  /\ todo' = [todo EXCEPT ![u] = Operation[op]]
  /\ UNCHANGED <<depth, writer, writing, recorded, failures, parted>>

At(u, step) == todo[u] # <<>> /\ Head(todo[u]) = step
Done(u) == todo' = [todo EXCEPT ![u] = Tail(@)]

RLock(u) ==
  /\ At(u, "RLock")
  /\ writer = None
  /\ depth' = [depth EXCEPT ![u] = @ + 1]
  /\ Done(u)
  /\ UNCHANGED <<started, writer, writing, recorded, failures, parted>>

RUnlock(u) ==
  /\ At(u, "RUnlock")
  /\ depth' = [depth EXCEPT ![u] = @ - 1]
  /\ Done(u)
  /\ UNCHANGED <<started, writer, writing, recorded, failures, parted>>

(* The first half of Lock: the writer announces itself to the readers.     *)
Announce(u) ==
  /\ At(u, "Lock")
  /\ writer = None
  /\ writer' = u
  /\ UNCHANGED <<todo, started, depth, writing, recorded, failures, parted>>

(* The second half: the readers that were in have left.                    *)
Lock(u) ==
  /\ At(u, "Lock")
  /\ writer = u
  /\ \A v \in Users : depth[v] = 0
  /\ writing' = TRUE
  /\ Done(u)
  /\ UNCHANGED <<started, depth, writer, recorded, failures, parted>>

Write(u) ==
  /\ todo[u] # <<>> /\ Head(todo[u]) \in {"record", "fail"}
  /\ recorded' = recorded + (IF Head(todo[u]) = "record" THEN 1 ELSE 0)
  /\ failures' = failures + (IF Head(todo[u]) = "fail" THEN 1 ELSE 0)
  /\ Done(u)
  /\ UNCHANGED <<started, depth, writer, writing, parted>>

(* The operations that recorded their latency, and have yet to count the   *)
(* error they end with; and those that have yet to record it again.        *)
Ahead == {u \in Users : started[u] = "fail" /\ Len(todo[u]) \in 5 .. 7}
Behind == {u \in Users : started[u] = "fail" /\ Len(todo[u]) \in 2 .. 4}

(* Reset sets the counters to zero, whatever the operations are doing.     *)
Zero(u) ==
  /\ At(u, "reset")
  /\ recorded' = 0
  /\ failures' = 0
  /\ parted' = Ahead
  /\ Done(u)
  /\ UNCHANGED <<started, depth, writer, writing>>

Unlock(u) ==
  /\ At(u, "Unlock")
  /\ writer' = None
  /\ writing' = FALSE
  /\ Done(u)
  /\ UNCHANGED <<started, depth, recorded, failures, parted>>

Step(u) == RLock(u) \/ RUnlock(u) \/ Announce(u) \/ Lock(u) \/ Write(u) \/ Zero(u) \/ Unlock(u)

Next == \E u \in Users : Step(u) \/ \E op \in DOMAIN Operation : Start(u, op)

Spec == Init /\ [][Next]_vars
-----------------------------------------------------------------------------
TypeOK ==
  /\ todo \in [Users -> Seq({"RLock", "RUnlock", "Lock", "record", "fail", "reset", "Unlock"})]
  /\ started \in [Users -> {"none"} \cup DOMAIN Operation]
  /\ depth \in [Users -> 0 .. 3]
  /\ writer \in Users \cup {None} /\ writing \in BOOLEAN
  /\ recorded \in Nat /\ failures \in Nat /\ parted \subseteq Users

(* No reader is in while a writer writes.                                  *)
Exclusion == writing => \A u \in Users : depth[u] = 0

(* The collector stops for one reason only: a reader of metrics asks for   *)
(* the read lock it already holds, behind a writer that waits for it.      *)
Waits(u) ==
  \/ At(u, "RLock") /\ writer # None
  \/ At(u, "Lock") /\ (IF writer = u THEN \E v \in Users : depth[v] > 0 ELSE writer # None)

Stopped == \A u \in Users : todo[u] = <<>> \/ Waits(u)

StopsOnlyOnNestedRead ==
  Stopped /\ (\E u \in Users : todo[u] # <<>>) =>
    /\ writer # None /\ ~writing
    /\ \E u \in Users : depth[u] > 0 /\ At(u, "RLock") /\ started[u] \in {"performance", "all"}

(* When nothing runs, an operation that failed was recorded twice, so that *)
(* the error rate is at most one half, but for the operations whose first  *)
(* record the last Reset took from their error.                            *)
FailuresCountTwice ==
  (\A u \in Users : todo[u] = <<>>) => recorded + Cardinality(parted) >= 2 * failures

(* Why these hold: a goroutine is so far with its operation, and holds the *)
(* read locks that it holds there; the writer is inside Lock and Unlock;   *)
(* an operation that fails counts before its error does, or owes to.       *)
Held ==
  [count |-> <<0, 0, 0>>, succeed |-> <<0, 0, 0, 0>>, fail |-> <<0, 0, 0, 0, 0, 0, 0, 0, 0, 0>>,
   reset |-> <<0, 0, 0, 0>>, read |-> <<0, 1, 0>>,
   performance |-> <<0, 1, 2, 1, 2, 1, 0>>, all |-> <<0, 1, 2, 1, 2, 1, 2, 3, 2, 3, 2, 1, 0>>]

Progress ==
  \A u \in Users :
    IF started[u] = "none" THEN todo[u] = <<>> /\ depth[u] = 0
    ELSE LET steps == Operation[started[u]]
         IN \E k \in 0 .. Len(steps) :
              todo[u] = SubSeq(steps, k + 1, Len(steps)) /\ depth[u] = Held[started[u]][k + 1]

Inside(u) == todo[u] # <<>> /\ Head(todo[u]) \in {"record", "fail", "reset", "Unlock"}
WriterInside ==
  /\ writing => writer # None
  /\ \A u \in Users : Inside(u) => writer = u /\ writing
  /\ \A u \in Users : writer = u => IF writing THEN Inside(u) ELSE At(u, "Lock")

FailuresCounted ==
  recorded + Cardinality(Behind) + Cardinality(parted) >= 2 * failures + Cardinality(Ahead)
=============================================================================
