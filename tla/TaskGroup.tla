----------------------------- MODULE TaskGroup -----------------------------
(***************************************************************************)
(* pkg/py/pyasyncio/task_group.go: a TaskGroup runs tasks under one group  *)
(* context, watches each with a monitor goroutine, cancels the group on    *)
(* the first failure and closes its done channel when no task is active.   *)
(***************************************************************************)
EXTENDS Task, FiniteSets

VARIABLES
  active,     \* activeCount
  finished,   \* the finished flag
  closes,     \* how many times tg.done was closed (Go panics at 2)
  errors,     \* tasks whose error was collected
  results,    \* tasks whose result was collected
  monitor,    \* the monitor goroutine of each task
  refused,    \* tasks CreateNamedTask refused to create
  waiter,     \* a goroutine in tg.Wait: "idle", "select" or "returned"
  waitResult, \* what Wait returned
  waitSaw     \* the results Wait returned

groupVars == <<active, finished, closes, errors, results, monitor, refused>>
waitVars == <<waiter, waitResult, waitSaw>>
allVars == <<taskVars, groupVars, waitVars>>

GroupTypeOK ==
  /\ TaskTypeOK
  /\ active \in Nat /\ finished \in BOOLEAN /\ closes \in Nat
  /\ errors \in SUBSET Tasks /\ results \in SUBSET Tasks /\ refused \in SUBSET Tasks
  /\ monitor \in [Tasks -> {"absent", "waiting", "ended"}]
  /\ waiter \in {"idle", "select", "returned"}
  /\ waitResult \in {"none", "ok", "errors", "ctx", "empty"}
  /\ waitSaw \in SUBSET Tasks

GroupInit ==
  /\ TaskInit
  /\ active = 0 /\ finished = FALSE /\ closes = 0
  /\ errors = {} /\ results = {} /\ refused = {}
  /\ monitor = [t \in Tasks |-> "absent"]
  /\ waiter = "idle" /\ waitResult = "none" /\ waitSaw = {}

-----------------------------------------------------------------------------
\* Mutation: the finished flag is not looked at.
CreateInFinishedGroup(t) ==
  /\ t \notin refused
  /\ StartTask(t)
  /\ active' = active + 1
  /\ monitor' = [monitor EXCEPT ![t] = "waiting"]
  /\ UNCHANGED <<parentDone, finished, closes, errors, results, refused>>

\* Mutation: the new task is not counted as active.
CreateUncounted(t) ==
  /\ t \notin refused /\ ~finished
  /\ StartTask(t)
  /\ monitor' = [monitor EXCEPT ![t] = "waiting"]
  /\ UNCHANGED <<parentDone, active, finished, closes, errors, results, refused>>

\* CreateNamedTask of a group, one critical section of tg.mu.
CreateGroupTask(t) ==
  /\ t \notin refused
  /\ IF finished
     THEN /\ run[t] = "absent"
          /\ refused' = refused \cup {t}
          /\ UNCHANGED <<taskVars, active, monitor>>
     ELSE /\ StartTask(t)
          /\ active' = active + 1
          /\ monitor' = [monitor EXCEPT ![t] = "waiting"]
          /\ UNCHANGED <<parentDone, refused>>
  /\ UNCHANGED <<finished, closes, errors, results>>

\* Mutation: the failing task's siblings are not cancelled.
MonitorWithoutCancel(t) ==
  /\ monitor[t] = "waiting" /\ DoneClosed(t)
  /\ monitor' = [monitor EXCEPT ![t] = "ended"]
  /\ active' = active - 1
  /\ IF Result(t) = "ok"
     THEN results' = results \cup {t} /\ UNCHANGED errors
     ELSE errors' = errors \cup {t} /\ UNCHANGED results
  /\ IF active' = 0 THEN finished' = TRUE /\ closes' = closes + 1
                    ELSE UNCHANGED <<finished, closes>>
  /\ UNCHANGED <<taskVars, refused>>

\* Mutation: the monitor does not wait for done.
MonitorTooEarly(t) ==
  /\ monitor[t] = "waiting"
  /\ monitor' = [monitor EXCEPT ![t] = "ended"]
  /\ active' = active - 1
  /\ IF Result(t) = "ok"
     THEN results' = results \cup {t} /\ UNCHANGED <<errors, parentDone>>
     ELSE errors' = errors \cup {t} /\ parentDone' = TRUE /\ UNCHANGED results
  /\ IF active' = 0 THEN finished' = TRUE /\ closes' = closes + 1
                    ELSE UNCHANGED <<finished, closes>>
  /\ UNCHANGED <<run, state, returned, outcome, cancelCalled, callbackVars, cancelling, refused>>

\* monitorTask, once the task's done is closed: one critical section of tg.mu.
\* A failure cancels the group context; the last task closes tg.done.
Monitor(t) ==
  /\ monitor[t] = "waiting" /\ DoneClosed(t)
  /\ monitor' = [monitor EXCEPT ![t] = "ended"]
  /\ active' = active - 1
  /\ IF Result(t) = "ok"
     THEN results' = results \cup {t} /\ UNCHANGED <<errors, parentDone>>
     ELSE errors' = errors \cup {t} /\ parentDone' = TRUE /\ UNCHANGED results
  /\ IF active' = 0 THEN finished' = TRUE /\ closes' = closes + 1
                    ELSE UNCHANGED <<finished, closes>>
  /\ UNCHANGED <<run, state, returned, outcome, cancelCalled, callbackVars, cancelling, refused>>

\* Cancel, Close, or the end of the context the group was made with.
CancelGroup ==
  /\ parentDone' = TRUE
  /\ UNCHANGED <<run, state, returned, outcome, cancelCalled, callbackVars, cancelling, groupVars>>

-----------------------------------------------------------------------------
(* tg.Wait(ctx) in a client goroutine. *)

WaitCall ==
  /\ waiter = "idle"
  /\ IF Created = {} THEN waiter' = "returned" /\ waitResult' = "empty"
                     ELSE waiter' = "select" /\ UNCHANGED waitResult
  /\ UNCHANGED <<taskVars, groupVars, waitSaw>>

WaitDone ==
  /\ waiter = "select" /\ closes > 0
  /\ waiter' = "returned" /\ waitSaw' = results
  /\ waitResult' = IF errors # {} THEN "errors" ELSE "ok"
  /\ UNCHANGED <<taskVars, groupVars>>

WaitCtxDone ==
  /\ waiter = "select"
  /\ waiter' = "returned" /\ waitResult' = "ctx"
  /\ UNCHANGED <<taskVars, groupVars, waitSaw>>

-----------------------------------------------------------------------------
Next ==
  \/ \E t \in Tasks :
       \/ CreateGroupTask(t) /\ UNCHANGED waitVars
       \/ RunStep(t) /\ UNCHANGED <<groupVars, waitVars>>
       \/ \E r \in {"ok", "err"} :
            FnReturns(t, r) /\ UNCHANGED <<parentDone, groupVars, waitVars>>
       \/ Monitor(t) /\ UNCHANGED waitVars
       \/ CancelRead(t) /\ UNCHANGED <<groupVars, waitVars>>
       \/ CancelCall(t) /\ UNCHANGED <<groupVars, waitVars>>
       \/ \E k \in Callbacks : AddCallback(t, k) /\ UNCHANGED <<groupVars, waitVars>>
  \/ CancelGroup /\ UNCHANGED waitVars
  \/ WaitCall \/ WaitDone \/ WaitCtxDone

Spec == GroupInit /\ [][Next]_allVars

\* Goroutines of the package run on; a function that is told to stop by its
\* context returns (task.go:205: tasks are cancelled cooperatively).  Clients
\* need not do anything.
Fairness ==
  /\ \A t \in Tasks :
       /\ WF_allVars(RunStep(t) /\ UNCHANGED <<groupVars, waitVars>>)
       /\ WF_allVars(Monitor(t) /\ UNCHANGED waitVars)
       /\ WF_allVars(CtxDone(t) /\ FnReturns(t, "err") /\ UNCHANGED <<parentDone, groupVars, waitVars>>)
  /\ WF_allVars(WaitDone)

FairSpec == Spec /\ Fairness

-----------------------------------------------------------------------------
\* tg.done is closed at most once (a second close panics), and only when every
\* task ever created has been collected, though tasks may be created while others
\* finish: active reaching zero is final.
ClosedOnceAtTheEnd ==
  /\ closes <= 1
  /\ finished <=> closes = 1
  /\ finished => \A t \in Created : t \in errors \cup results

\* The active count is the number of tasks not yet collected; a collected task
\* is either an error or a result, as its outcome says.
GroupAccounting ==
  /\ active = Cardinality({t \in Tasks : monitor[t] = "waiting"})
  /\ errors \cap results = {}
  /\ \A t \in results : outcome[t] = "ok"
  /\ \A t \in errors : outcome[t] \in {"err", "cancelled"}

\* A Wait that was released by done returned everything: no task of the group
\* ends later, and "ok" means no task failed.
WaitReturnsAll ==
  waitResult \in {"ok", "errors"} =>
    /\ waitSaw = results /\ Created \subseteq errors \cup results
    /\ waitResult = "ok" <=> errors = {}

\* One failure ends the group: the siblings are cancelled, collected, and a
\* waiting Wait returns.
FailureEndsGroup ==
  /\ errors # {} ~> finished
  /\ (errors # {} /\ waiter = "select") ~> waiter = "returned"
=============================================================================
