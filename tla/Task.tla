-------------------------------- MODULE Task --------------------------------
(***************************************************************************)
(* pkg/py/pyasyncio/task.go: a Task runs one function in a goroutine of    *)
(* its own under a cancellable context, publishes the outcome under its    *)
(* mutex, runs its callbacks and closes its done channel, in that order.   *)
(*                                                                         *)
(* The module defines the state and the actions of a set of tasks that     *)
(* share one parent context; TaskGroup and WaitFor compose them with the   *)
(* goroutines that create the tasks and wait for them.                     *)
(***************************************************************************)
EXTENDS Naturals

CONSTANTS Tasks,      \* the tasks that may be created
          Callbacks,  \* the callbacks clients may register
          CancellableTasks,  \* those some client calls Cancel on
          NoTask

ASSUME NoTaskAssumption == NoTask \notin Tasks /\ CancellableTasks \subseteq Tasks

VARIABLES
  run,         \* the task's goroutine: where run() is
  state,       \* the atomic state word
  returned,    \* what fn returned: "none", "ok" or "err"
  outcome,     \* the result and err fields: "unset", "ok", "err" or "cancelled"
  cancelCalled,\* tasks whose cancel function was called
  parentDone,  \* the context the tasks derive theirs from is done
  registered,  \* the task whose AddCallback each callback was given to
  pendingCbs,  \* per task, the callbacks field
  cbRuns,      \* how many times each callback was started
  cancelling   \* tasks for which a Cancel call read a non-final state

taskVars == <<run, state, returned, outcome, cancelCalled, parentDone,
              registered, pendingCbs, cbRuns, cancelling>>
callbackVars == <<registered, pendingCbs, cbRuns>>

RunPC == {"absent", "pending", "fn", "finish", "callbacks", "close", "ended"}
States == {"none", "pending", "running", "done", "cancelled"}

TaskTypeOK ==
  /\ run \in [Tasks -> RunPC] /\ state \in [Tasks -> States]
  /\ returned \in [Tasks -> {"none", "ok", "err"}]
  /\ outcome \in [Tasks -> {"unset", "ok", "err", "cancelled"}]
  /\ cancelCalled \in SUBSET Tasks /\ cancelling \in SUBSET Tasks
  /\ parentDone \in BOOLEAN
  /\ registered \in [Callbacks -> Tasks \cup {NoTask}]
  /\ pendingCbs \in [Tasks -> SUBSET Callbacks]
  /\ cbRuns \in [Callbacks -> Nat]

TaskInit ==
  /\ run = [t \in Tasks |-> "absent"] /\ state = [t \in Tasks |-> "none"]
  /\ returned = [t \in Tasks |-> "none"] /\ outcome = [t \in Tasks |-> "unset"]
  /\ cancelCalled = {} /\ cancelling = {} /\ parentDone = FALSE
  /\ registered = [k \in Callbacks |-> NoTask]
  /\ pendingCbs = [t \in Tasks |-> {}] /\ cbRuns = [k \in Callbacks |-> 0]

-----------------------------------------------------------------------------
Created == {t \in Tasks : run[t] # "absent"}
Done(t) == state[t] \in {"done", "cancelled"}
DoneClosed(t) == run[t] = "ended"              \* the done channel is closed
CtxDone(t) == parentDone \/ t \in cancelCalled

\* CreateNamedTask: the task starts pending, its goroutine runs run().
StartTask(t) ==
  /\ run[t] = "absent"
  /\ run' = [run EXCEPT ![t] = "pending"]
  /\ state' = [state EXCEPT ![t] = "pending"]
  /\ UNCHANGED <<returned, outcome, cancelCalled, callbackVars, cancelling>>

RunStart(t) ==
  /\ run[t] = "pending"
  /\ run' = [run EXCEPT ![t] = "fn"]
  /\ state' = [state EXCEPT ![t] = "running"]
  /\ UNCHANGED <<returned, outcome, cancelCalled, callbackVars, cancelling>>

\* The client's function returns, at any time and with either outcome.
FnReturns(t, r) ==
  /\ run[t] = "fn"
  /\ run' = [run EXCEPT ![t] = "finish"]
  /\ returned' = [returned EXCEPT ![t] = r]
  /\ UNCHANGED <<state, outcome, cancelCalled, callbackVars, cancelling>>

\* The last critical section of run(): a context done by now makes the task
\* cancelled whatever fn returned.
RunFinish(t) ==
  /\ run[t] = "finish"
  /\ run' = [run EXCEPT ![t] = "callbacks"]
  /\ state' = [state EXCEPT ![t] = IF CtxDone(t) THEN "cancelled" ELSE "done"]
  /\ outcome' = [outcome EXCEPT ![t] = IF CtxDone(t) THEN "cancelled" ELSE returned[t]]
  /\ UNCHANGED <<returned, cancelCalled, callbackVars, cancelling>>

\* executeCallbacks (deferred): a snapshot under the read lock, one goroutine each.
ExecuteCallbacks(t) ==
  /\ run[t] = "callbacks"
  /\ run' = [run EXCEPT ![t] = "close"]
  /\ cbRuns' = [k \in Callbacks |-> IF k \in pendingCbs[t] THEN cbRuns[k] + 1 ELSE cbRuns[k]]
  /\ UNCHANGED <<state, returned, outcome, cancelCalled, registered, pendingCbs, cancelling>>

\* close(t.done) (deferred first, so last).
CloseDone(t) ==
  /\ run[t] = "close"
  /\ run' = [run EXCEPT ![t] = "ended"]
  /\ UNCHANGED <<state, returned, outcome, cancelCalled, callbackVars, cancelling>>

RunStep(t) ==
  /\ RunStart(t) \/ RunFinish(t) \/ ExecuteCallbacks(t) \/ CloseDone(t)
  /\ UNCHANGED parentDone

-----------------------------------------------------------------------------
\* Mutation: the test is on the done channel, closed after the callbacks ran.
AddCallbackLate(t, k) ==
  /\ t \in Created /\ registered[k] = NoTask
  /\ registered' = [registered EXCEPT ![k] = t]
  /\ IF DoneClosed(t)
     THEN cbRuns' = [cbRuns EXCEPT ![k] = @ + 1] /\ UNCHANGED pendingCbs
     ELSE pendingCbs' = [pendingCbs EXCEPT ![t] = @ \cup {k}] /\ UNCHANGED cbRuns
  /\ UNCHANGED <<run, state, returned, outcome, cancelCalled, parentDone, cancelling>>

\* AddCallback, one critical section: a finished task's callback starts at once.
AddCallback(t, k) ==
  /\ t \in Created /\ registered[k] = NoTask
  /\ registered' = [registered EXCEPT ![k] = t]
  /\ IF Done(t)
     THEN cbRuns' = [cbRuns EXCEPT ![k] = @ + 1] /\ UNCHANGED pendingCbs
     ELSE pendingCbs' = [pendingCbs EXCEPT ![t] = @ \cup {k}] /\ UNCHANGED cbRuns
  /\ UNCHANGED <<run, state, returned, outcome, cancelCalled, parentDone, cancelling>>

\* Cancel reads the state without the lock (a final one: it returns false and
\* changes nothing) and then calls the cancel function: two steps.
CancelRead(t) ==
  /\ t \in (Created \cap CancellableTasks) \ (cancelling \cup cancelCalled) /\ ~Done(t)
  /\ cancelling' = cancelling \cup {t}
  /\ UNCHANGED <<run, state, returned, outcome, cancelCalled, parentDone, callbackVars>>

CancelCall(t) ==
  /\ t \in cancelling
  /\ cancelling' = cancelling \ {t}
  /\ cancelCalled' = cancelCalled \cup {t}
  /\ UNCHANGED <<run, state, returned, outcome, parentDone, callbackVars>>

\* Result, Exception: what they return once Done, "unset" before.
Result(t) == IF Done(t) THEN outcome[t] ELSE "unset"

-----------------------------------------------------------------------------
\* Each callback runs exactly once however AddCallback races with the end of
\* the task: none twice, and none of those registered is missing once the task's
\* goroutine has closed done.
CallbacksRunOnce ==
  \A k \in Callbacks :
    /\ cbRuns[k] <= 1
    /\ \A t \in Tasks : registered[k] = t /\ DoneClosed(t) => cbRuns[k] = 1
=============================================================================
