------------------------------ MODULE WaitFor ------------------------------
(***************************************************************************)
(* pkg/py/pyasyncio/wait_for.go and Gather of task_group.go: one call that *)
(* starts functions as tasks, waits for them under a deadline and returns. *)
(* The functions and the end of the context are the environment's; nothing *)
(* here assumes that a function ever returns.                              *)
(***************************************************************************)
EXTENDS TaskGroup, Sequences

CONSTANTS Fns   \* the functions of the call, as the tasks that run them, in order

ASSUME FnsAssumption ==
  /\ Fns \in Seq(Tasks) /\ Fns # <<>>
  /\ \A i, j \in DOMAIN Fns : Fns[i] = Fns[j] => i = j

VARIABLES
  mode,    \* which call it is
  pc,      \* the calling goroutine
  next,    \* how many functions the creation loop has passed
  tctx,    \* the call's context: "live", or what ended it first
  waited,  \* what Task.Wait or Gather answered, before it is mapped
  poller,  \* WaitForAny's polling goroutine
  resultCh,\* the content of its channel
  result   \* what the call returned

callVars == <<mode, pc, next, tctx, waited, poller, resultCh, result>>
vars == <<allVars, callVars>>

Modes == {"WaitFor", "WaitForTask", "WaitForAny", "WaitForAll", "Gather"}
Single == {"WaitFor", "WaitForTask"}
Timed == Modes \ {"Gather"}
first == Fns[1]

CallTypeOK ==
  /\ GroupTypeOK
  /\ mode \in Modes /\ next \in 0..Len(Fns)
  /\ pc \in {"create", "wait", "map", "returned"}
  /\ tctx \in {"live", "deadline", "canceled", "closed"}
  /\ waited \in {"none", "ok", "err", "ctx", "createfailed"}
  /\ poller \in {"off", "check", "scan", "failed", "exited"}
  /\ resultCh \in {"none", "ok", "timeout", "allfailed"}
  /\ result \in {"none", "ok", "err", "ctx", "timeout", "allfailed", "createfailed"}

Init ==
  /\ GroupInit
  /\ mode \in Modes /\ pc = "create" /\ next = 0 /\ tctx = "live"
  /\ waited = "none" /\ poller = "off" /\ resultCh = "none" /\ result = "none"

-----------------------------------------------------------------------------
(* The deferred calls: tg.Close() and the timeout context's cancel().  Only   *)
(* the tasks of WaitForTask do not live under the call's context.             *)
OwnsTasks == mode # "WaitForTask"

\* Mutation: without the deferred calls.
ReturnOnly(r) ==
  /\ pc' = "returned" /\ result' = r
  /\ UNCHANGED <<tctx, parentDone>>

Return(r) ==
  /\ pc' = "returned" /\ result' = r
  /\ tctx' = IF tctx = "live" THEN "closed" ELSE tctx
  /\ parentDone' = (parentDone \/ OwnsTasks)

\* taskVars but parentDone
taskFields == <<run, state, returned, outcome, cancelCalled, callbackVars, cancelling>>

-----------------------------------------------------------------------------
(* WaitFor and WaitForTask: CreateTask, Task.Wait, and the mapping of errors. *)

CreateSingle ==
  /\ mode \in Single /\ pc = "create"
  /\ StartTask(first)
  /\ pc' = "wait" /\ next' = 1
  /\ UNCHANGED <<parentDone, groupVars, waitVars, mode, tctx, waited, poller, resultCh, result>>

\* Task.Wait selects on the task's done channel and on the call's context.
TaskWait ==
  /\ mode \in Single /\ pc = "wait"
  /\ \/ DoneClosed(first) /\ waited' = IF outcome[first] = "ok" THEN "ok" ELSE "err"
     \/ tctx # "live" /\ waited' = "ctx"
  /\ pc' = "map"
  /\ UNCHANGED <<taskVars, groupVars, waitVars, mode, next, tctx, poller, resultCh, result>>

\* An error together with an expired deadline, whichever came first, is a timeout.
MapSingle ==
  /\ mode \in Single /\ pc = "map"
  /\ LET timeout == waited # "ok" /\ tctx = "deadline"
     IN /\ Return(IF timeout THEN "timeout" ELSE waited)
        /\ cancelCalled' = IF timeout /\ ~Done(first) THEN cancelCalled \cup {first} ELSE cancelCalled
  /\ UNCHANGED <<run, state, returned, outcome, callbackVars, cancelling, groupVars, waitVars,
                 mode, next, waited, poller, resultCh>>

-----------------------------------------------------------------------------
(* Gather, WaitForAll and WaitForAny: one task group for all functions. *)

\* The creation loop; the first refusal ends it.
CreateNext ==
  /\ mode \notin Single /\ pc = "create" /\ next < Len(Fns)
  /\ CreateGroupTask(Fns[next + 1])
  /\ next' = next + 1
  /\ IF Fns[next + 1] \in refused' THEN pc' = "map" /\ waited' = "createfailed"
                                   ELSE UNCHANGED <<pc, waited>>
  /\ UNCHANGED <<waitVars, mode, tctx, poller, resultCh, result>>

AllCreated ==
  /\ mode \notin Single /\ pc = "create" /\ next = Len(Fns)
  /\ pc' = "wait"
  /\ poller' = IF mode = "WaitForAny" THEN "check" ELSE poller
  /\ UNCHANGED <<taskVars, groupVars, waitVars, mode, next, tctx, waited, resultCh, result>>

\* Mutation: Gather waits for its tasks only.
GatherWaitTasks ==
  /\ mode \in {"Gather", "WaitForAll"} /\ pc = "wait"
  /\ closes > 0 /\ waited' = IF errors = {} THEN "ok" ELSE "err"
  /\ pc' = "map" /\ parentDone' = TRUE
  /\ UNCHANGED <<taskFields, groupVars, waitVars, mode, next, tctx, poller, resultCh, result>>

\* Gather's tg.Wait(ctx), and its deferred tg.Close().
GatherWait ==
  /\ mode \in {"Gather", "WaitForAll"} /\ pc = "wait"
  /\ \/ closes > 0 /\ waited' = IF errors = {} THEN "ok" ELSE "err"
     \/ tctx # "live" /\ waited' = "ctx"
  /\ pc' = "map" /\ parentDone' = TRUE
  /\ UNCHANGED <<taskFields, groupVars, waitVars, mode, next, tctx, poller, resultCh, result>>

\* WaitForAll reports an ended context as a timeout; the others return what they have.
MapGroup ==
  /\ mode \notin Single /\ pc = "map"
  /\ Return(IF mode = "WaitForAll" /\ tctx # "live" THEN "timeout" ELSE waited)
  /\ UNCHANGED <<taskFields, groupVars, waitVars, mode, next, waited, poller, resultCh>>

-----------------------------------------------------------------------------
(* WaitForAny's polling goroutine and the caller's select. *)

PollCheck ==
  /\ poller = "check"
  /\ poller' = IF parentDone THEN "failed" ELSE "scan"     \* tg.Cancelled()
  /\ UNCHANGED <<allVars, mode, pc, next, tctx, waited, resultCh, result>>

\* Mutation: any finished task counts as a success.
PollScanFirstDone ==
  /\ poller = "scan"
  /\ IF \E t \in Created : Done(t)
     THEN poller' = "exited" /\ resultCh' = "ok"
     ELSE poller' = "check" /\ UNCHANGED resultCh
  /\ UNCHANGED <<allVars, mode, pc, next, tctx, waited, result>>

PollScan ==
  /\ poller = "scan"
  /\ IF \E t \in Created : Result(t) = "ok"
     THEN poller' = "exited" /\ resultCh' = "ok"
     ELSE poller' = "check" /\ UNCHANGED resultCh
  /\ UNCHANGED <<allVars, mode, pc, next, tctx, waited, result>>

PollFailed ==
  /\ poller = "failed"
  /\ poller' = "exited"
  /\ resultCh' = IF tctx # "live" THEN "timeout" ELSE "allfailed"
  /\ UNCHANGED <<allVars, mode, pc, next, tctx, waited, result>>

AnySelect ==
  /\ mode = "WaitForAny" /\ pc = "wait"
  /\ \/ resultCh # "none" /\ Return(resultCh) /\ resultCh' = "none"
     \/ tctx # "live" /\ Return("timeout") /\ UNCHANGED resultCh
  /\ UNCHANGED <<taskFields, groupVars, waitVars, mode, next, waited, poller>>

-----------------------------------------------------------------------------
\* The deadline passes, or the caller's context is cancelled; contexts derived
\* from the call's are done with it.
EndContext(why) ==
  /\ tctx = "live" /\ (why = "deadline" => mode \in Timed)
  /\ tctx' = why
  /\ parentDone' = (parentDone \/ OwnsTasks)
  /\ UNCHANGED <<taskFields, groupVars, waitVars, mode, pc, next, waited, poller, resultCh, result>>

CallStep ==
  \/ CreateSingle \/ TaskWait \/ MapSingle
  \/ CreateNext \/ AllCreated \/ GatherWait \/ MapGroup \/ AnySelect

PollStep == PollCheck \/ PollScan \/ PollFailed

TaskStep(t) ==
  \/ RunStep(t) /\ UNCHANGED <<groupVars, waitVars, callVars>>
  \/ Monitor(t) /\ UNCHANGED <<waitVars, callVars>>

CallNext ==
  \/ CallStep \/ PollStep
  \/ \E t \in Tasks :
       \/ TaskStep(t)
       \/ \E r \in {"ok", "err"} :
            FnReturns(t, r) /\ UNCHANGED <<parentDone, groupVars, waitVars, callVars>>
  \/ \E why \in {"deadline", "canceled"} : EndContext(why)

\* Goroutines run on and deadlines pass; functions need not return, and nobody
\* need cancel.
CallFairness ==
  /\ WF_vars(CallStep) /\ WF_vars(PollStep) /\ WF_vars(EndContext("deadline"))
  /\ \A t \in Tasks : WF_vars(TaskStep(t))

CallSpec == Init /\ [][CallNext]_vars /\ CallFairness

-----------------------------------------------------------------------------
\* What a returned call says is so: a success is a success of the functions it
\* speaks of, a timeout means the context ended before the call returned.
AnswerIsTrue ==
  /\ result = "ok" =>
       IF mode \in {"Gather", "WaitForAll"}
       THEN \A i \in DOMAIN Fns : outcome[Fns[i]] = "ok"
       ELSE \E t \in Created : outcome[t] = "ok"
  /\ result = "timeout" => tctx \in {"deadline", "canceled"}

\* No function runs on unaware that the call is over: on return every task that
\* has not ended has a done context (WaitForTask: if the deadline has passed).
ReturnStopsTasks ==
  pc = "returned" /\ (OwnsTasks \/ result = "timeout") =>
    \A t \in Created : Done(t) \/ CtxDone(t)

\* A call with a timeout returns, though its functions ignore their context, and
\* WaitForAny's polling goroutine does not outlive the call for ever.
TimedCallReturns ==
  (mode \in Timed) ~> (pc = "returned" /\ poller \in {"off", "exited"})

\* task_group.go:306: Gather "creates all tasks at once and waits for completion
\* before returning"; it fails only because a function failed or its context did.
FailureHasACause ==
  result = "createfailed" => tctx \in {"deadline", "canceled"} \/ \E t \in Created : Result(t) \in {"err", "cancelled"}
=============================================================================
