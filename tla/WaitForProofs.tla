---------------------------- MODULE WaitForProofs ----------------------------
(***************************************************************************)
(* Machine-checked theorems about WaitFor for any functions, in any order  *)
(* of their outcomes and of the end of the call's context.  A call of      *)
(* WaitFor or WaitForTask has no group; the others rest on the account     *)
(* TaskGroupProofs gives of theirs.                                        *)
(***************************************************************************)
EXTENDS WaitFor, TaskGroupProofs

CallTypes ==
  /\ mode \in Modes /\ next \in 0..Len(Fns)
  /\ pc \in {"create", "wait", "map", "returned"}
  /\ tctx \in {"live", "deadline", "canceled", "closed"}
  /\ waited \in {"none", "ok", "err", "ctx", "createfailed"}
  /\ poller \in {"off", "check", "scan", "failed", "exited"}
  /\ resultCh \in {"none", "ok", "timeout", "allfailed"}
  /\ result \in {"none", "ok", "err", "ctx", "timeout", "allfailed", "createfailed"}

\* A call with one task leaves the group unused; no client waits on a group.
GroupIdle ==
  /\ active = 0 /\ finished = FALSE /\ closes = 0
  /\ errors = {} /\ results = {} /\ refused = {}
  /\ monitor \in [Tasks -> {"absent"}]

WaitIdle == waiter = "idle" /\ waitResult = "none" /\ waitSaw = {}

BaseInv ==
  /\ RunInv /\ CallbackInv /\ WaitIdle
  /\ mode \in Single => GroupIdle
  /\ mode \notin Single => GroupInv

Succeeded(t) == run[t] \in Past /\ outcome[t] = "ok"

\* What the call has created.
CreatedInv ==
  /\ mode \in Single => \A t \in Tasks : t # first => run[t] = "absent"
  /\ mode \notin Single /\ pc \in {"create", "wait"} => \A i \in 1..next : run[Fns[i]] # "absent"
  /\ mode \notin Single /\ pc = "wait" => next = Len(Fns)

\* A success the call has seen is there to stay.
AnswerInv ==
  /\ mode \in {"Gather", "WaitForAll"} /\ waited = "ok" => \A i \in DOMAIN Fns : Succeeded(Fns[i])
  /\ mode \in Single /\ waited = "ok" => Succeeded(first)
  /\ mode = "WaitForAny" => waited # "ok"
  /\ mode = "WaitForAny" /\ "ok" \in {resultCh, result} => \E t \in Tasks : Succeeded(t)
  /\ mode # "WaitForAny" /\ result = "ok" => waited = "ok"

\* Only the return closes the call's context; before it, an end has a cause.
ContextInv ==
  /\ pc # "returned" => tctx # "closed" /\ result = "none"
  /\ pc # "returned" /\ resultCh = "timeout" => tctx \in {"deadline", "canceled"}
  /\ result = "timeout" => tctx \in {"deadline", "canceled"}

\* What a return has stopped.
StoppedInv ==
  /\ pc = "returned" /\ OwnsTasks => parentDone
  /\ mode = "WaitForTask" /\ result = "timeout" => run[first] \in Past \/ first \in cancelCalled

CallInv == CallTypes /\ CreatedInv /\ AnswerInv /\ ContextInv /\ StoppedInv

-----------------------------------------------------------------------------
(* The functions of a call are tasks, and there is at least one. *)
LEMMA FnsFacts ==
  /\ Len(Fns) \in Nat /\ Len(Fns) >= 1 /\ DOMAIN Fns = 1..Len(Fns)
  /\ \A i \in 1..Len(Fns) : Fns[i] \in Tasks
  /\ first \in Tasks
<1>1. Fns \in Seq(Tasks) /\ Fns # <<>>
  BY FnsAssumption
<1> QED
  BY <1>1 DEF first

(* Nothing undoes a success, the end of a task or a cancellation. *)
Settled ==
  /\ \A t \in Tasks : run[t] \in Past => run'[t] \in Past /\ outcome'[t] = outcome[t]
  /\ \A t \in Tasks : run[t] # "absent" => run'[t] # "absent"
  /\ cancelCalled \subseteq cancelCalled'
  /\ parentDone => parentDone'

(* A call starts with every part of the invariant. *)
LEMMA CallInit == Init => BaseInv /\ CallInv
<1> SUFFICES ASSUME Init PROVE BaseInv /\ CallInv
  OBVIOUS
<1>1. RunInv /\ CallbackInv /\ GroupInv
  BY GroupStart DEF Init, Inv
<1>2. BaseInv
  BY <1>1 DEF Init, GroupInit, BaseInv, WaitIdle, GroupIdle
<1>3. \A t \in Tasks : run[t] = "absent"
  BY DEF Init, GroupInit, TaskInit
<1>4. CallTypes
  BY FnsFacts DEF Init, CallTypes
<1>5. CreatedInv
  BY <1>3, FnsFacts DEF Init, CreatedInv
<1>6. AnswerInv /\ ContextInv /\ StoppedInv
  BY DEF Init, AnswerInv, ContextInv, StoppedInv, Modes, Single
<1> QED
  BY <1>2, <1>4, <1>5, <1>6 DEF CallInv

-----------------------------------------------------------------------------
(* The steps of tasks and of monitors keep what the call relies on. *)
LEMMA MoveKeeps ==
  ASSUME BaseInv, NEW t \in Tasks, TaskMove(t), UNCHANGED <<groupVars, waitVars, mode>>
  PROVE  BaseInv' /\ Settled /\ \A u \in Tasks : run[u] = "absent" => run'[u] = "absent"
<1>1. RunInv' /\ Keeps /\ CallbackInv'
  BY TaskStepRun, TaskStepCallbacks DEF BaseInv
<1>2. mode \notin Single => GroupInv'
  BY <1>1, GroupKept DEF BaseInv
<1>3. mode \in Single => GroupIdle'
  BY DEF BaseInv, GroupIdle, groupVars
<1>4. WaitIdle'
  BY DEF BaseInv, WaitIdle, waitVars
<1>5. cancelCalled \subseteq cancelCalled' /\ (parentDone => parentDone')
  BY DEF TaskMove, RunStep, RunStart, RunFinish, ExecuteCallbacks, CloseDone, FnReturns,
         CancelRead, CancelCall, AddCallback
<1> QED
  BY <1>1, <1>2, <1>3, <1>4, <1>5 DEF BaseInv, Settled, Keeps

(* The steps of monitors do so, too. *)
LEMMA CollectKeeps ==
  ASSUME BaseInv, NEW t \in Tasks, Monitor(t), UNCHANGED <<waitVars, mode>>
  PROVE  BaseInv' /\ Settled /\ \A u \in Tasks : run[u] = "absent" => run'[u] = "absent"
<1>1. mode \notin Single
  BY DEF BaseInv, GroupIdle, Monitor
<1>2. RunInv' /\ CallbackInv' /\ GroupInv'
  BY <1>1, MonitorKeeps DEF BaseInv
<1>3. WaitIdle'
  BY DEF BaseInv, WaitIdle, waitVars
<1>4. Settled /\ \A u \in Tasks : run[u] = "absent" => run'[u] = "absent"
  BY DEF Monitor, Settled
<1> QED
  BY <1>1, <1>2, <1>3, <1>4 DEF BaseInv

(* The call keeps its account while it does not move itself. *)
LEMMA CallKept ==
  ASSUME CallInv, BaseInv, Settled, UNCHANGED callVars,
         \A u \in Tasks : run[u] = "absent" => run'[u] = "absent"
  PROVE  CallInv'
<1> USE DEF CallInv, callVars
<1>1. CallTypes' /\ ContextInv'
  BY DEF CallTypes, ContextInv
<1>2. CreatedInv'
  <2>1. next \in 0..Len(Fns) /\ \A i \in 1..next : Fns[i] \in Tasks
    BY FnsFacts DEF CallTypes
  <2>2. mode \in Single => \A u \in Tasks : u # first => run'[u] = "absent"
    BY DEF CreatedInv
  <2>3. mode \notin Single /\ pc \in {"create", "wait"} => \A i \in 1..next : run'[Fns[i]] # "absent"
    BY <2>1 DEF CreatedInv, Settled
  <2> QED
    BY <2>2, <2>3 DEF CreatedInv
<1>3. AnswerInv'
  <2>1. \A u \in Tasks : Succeeded(u) => Succeeded(u)'
    BY DEF Settled, Succeeded
  <2> QED
    BY <2>1, FnsFacts DEF AnswerInv
<1>4. StoppedInv'
  BY FnsFacts DEF StoppedInv, Settled, OwnsTasks
<1> QED
  BY <1>1, <1>2, <1>3, <1>4

(* A step of the call that leaves its tasks alone, but for the context     *)
(* they live under and the cancel functions it calls.                      *)
Outside ==
  /\ UNCHANGED <<run, state, returned, outcome, callbackVars, cancelling, groupVars, waitVars, mode>>
  /\ cancelCalled \subseteq cancelCalled' /\ cancelCalled' \in SUBSET Tasks
  /\ parentDone' \in BOOLEAN /\ (parentDone => parentDone')

(* Such a step keeps the account of tasks and group. *)
LEMMA OutsideKeeps ==
  ASSUME BaseInv, Outside
  PROVE  BaseInv'
<1>1. RunInv' /\ CallbackInv'
  BY DEF BaseInv, Outside, RunInv, TaskTypeOK, CallbackInv, Done, callbackVars
<1>2. GroupInv => GroupInv'
  BY GroupKept DEF Outside, Keeps
<1>3. GroupIdle => GroupIdle'
  BY DEF Outside, GroupIdle, groupVars
<1>4. WaitIdle'
  BY DEF BaseInv, Outside, WaitIdle, waitVars
<1> QED
  BY <1>1, <1>2, <1>3, <1>4 DEF BaseInv, Outside

(* All steps of the call but the creation of tasks are of this kind. *)
LEMMA CallOutside ==
  ASSUME BaseInv,
         \/ TaskWait \/ MapSingle \/ AllCreated \/ GatherWait \/ MapGroup \/ AnySelect
         \/ PollCheck \/ PollScan \/ PollFailed
         \/ \E why \in {"deadline", "canceled"} : EndContext(why)
  PROVE  Outside
<1>1. parentDone \in BOOLEAN /\ cancelCalled \in SUBSET Tasks /\ OwnsTasks \in BOOLEAN
  BY DEF BaseInv, RunInv, TaskTypeOK, OwnsTasks
<1>2. ASSUME TaskWait \/ AllCreated PROVE Outside
  BY <1>1, <1>2 DEF TaskWait, AllCreated, Outside, taskVars, callbackVars
<1>3. ASSUME PollCheck \/ PollScan \/ PollFailed PROVE Outside
  BY <1>1, <1>3 DEF PollCheck, PollScan, PollFailed, Outside, allVars, taskVars, callbackVars
<1>4. ASSUME MapSingle PROVE Outside
  BY <1>1, <1>4, FnsFacts DEF MapSingle, Outside, Return
<1>5. ASSUME GatherWait \/ MapGroup PROVE Outside
  BY <1>1, <1>5 DEF GatherWait, MapGroup, Outside, Return, taskFields
<1>6. ASSUME AnySelect PROVE Outside
  BY <1>1, <1>6 DEF AnySelect, Outside, Return, taskFields
<1>7. ASSUME NEW why \in {"deadline", "canceled"}, EndContext(why) PROVE Outside
  BY <1>1, <1>7 DEF EndContext, Outside, taskFields
<1> QED
  BY <1>2, <1>3, <1>4, <1>5, <1>6, <1>7

(* What a step outside the tasks leaves to be shown of the call. *)
LEMMA OutsideCall ==
  ASSUME Outside, CreatedInv
  PROVE  /\ \A u \in Tasks : Succeeded(u)' <=> Succeeded(u)
         /\ OwnsTasks' = OwnsTasks
         /\ mode \in Single => \A t \in Tasks : t # first => run'[t] = "absent"
BY DEF Outside, Succeeded, OwnsTasks, CreatedInv

-----------------------------------------------------------------------------
(* CreateTask of WaitFor and WaitForTask. *)
LEMMA CreateSingleKeeps ==
  ASSUME BaseInv, CallInv, CreateSingle
  PROVE  BaseInv' /\ CallInv'
<1>0. mode \in Single /\ mode' = mode /\ StartTask(first) /\ UNCHANGED <<parentDone, groupVars, waitVars>>
  BY DEF CreateSingle
<1>1. RunInv' /\ CallbackInv'
  BY <1>0, FnsFacts, StartKeeps DEF BaseInv
<1>2. BaseInv'
  BY <1>0, <1>1 DEF BaseInv, GroupIdle, WaitIdle, groupVars, waitVars
<1>3. Settled /\ \A t \in Tasks : t # first => run'[t] = run[t]
  BY <1>0, FnsFacts DEF Settled, StartTask, Past, BaseInv, RunInv, TaskTypeOK
<1>4. CallTypes' /\ CreatedInv'
  BY <1>0, <1>3, FnsFacts DEF CreateSingle, CallInv, CallTypes, CreatedInv
<1>5. AnswerInv'
  <2>1. \A u \in Tasks : Succeeded(u) => Succeeded(u)'
    BY <1>3 DEF Settled, Succeeded
  <2> QED
    BY <1>0, <2>1, FnsFacts DEF CreateSingle, CallInv, AnswerInv, Single
<1>6. ContextInv' /\ StoppedInv'
  BY <1>0, <1>3, FnsFacts DEF CreateSingle, CallInv, ContextInv, StoppedInv, Settled, OwnsTasks
<1> QED
  BY <1>2, <1>4, <1>5, <1>6 DEF CallInv

(* The creation loop of the others. *)
LEMMA CreateNextKeeps ==
  ASSUME BaseInv, CallInv, CreateNext
  PROVE  BaseInv' /\ CallInv'
<1> DEFINE f == Fns[next + 1]
<1>0. /\ mode \notin Single /\ mode' = mode /\ pc = "create" /\ next < Len(Fns)
      /\ next \in 0..Len(Fns) /\ next' = next + 1 /\ CreateGroupTask(f)
      /\ UNCHANGED <<waitVars, tctx, poller, resultCh, result>>
      /\ \/ f \in refused' /\ pc' = "map" /\ waited' = "createfailed"
         \/ f \notin refused' /\ UNCHANGED <<pc, waited>>
  BY DEF CreateNext, CallInv, CallTypes
<1>a. next + 1 \in 1..Len(Fns) /\ f \in Tasks
  BY <1>0, FnsFacts
<1>1. RunInv' /\ CallbackInv' /\ GroupInv'
  BY <1>0, <1>a, CreateKeeps DEF BaseInv
<1>2. BaseInv'
  BY <1>0, <1>1 DEF BaseInv, WaitIdle, waitVars
<1>3. \/ run' = run /\ f \in refused' /\ UNCHANGED <<outcome, cancelCalled, parentDone>>
      \/ run[f] = "absent" /\ run' = [run EXCEPT ![f] = "pending"]
         /\ UNCHANGED <<outcome, cancelCalled, parentDone>>
  BY <1>0 DEF CreateGroupTask, StartTask, taskVars
<1>4. Settled /\ (f \notin refused' => run'[f] # "absent")
  BY <1>a, <1>3 DEF Settled, Past, BaseInv, RunInv, TaskTypeOK
<1>5. CallTypes'
  BY <1>0, <1>a DEF CallInv, CallTypes
<1>6. CreatedInv'
  <2>1. ASSUME pc' \in {"create", "wait"}, NEW i \in 1..next' PROVE run'[Fns[i]] # "absent"
    <3>1. f \notin refused' /\ i \in 1..Len(Fns) /\ Fns[i] \in Tasks
      BY <1>0, <1>a, <2>1, FnsFacts
    <3>2. CASE i = next + 1
      BY <1>4, <3>1, <3>2
    <3>3. CASE i # next + 1
      <4>1. i \in 1..next
        BY <1>0, <3>3
      <4>2. run[Fns[i]] # "absent"
        BY <1>0, <4>1 DEF CallInv, CreatedInv
      <4> QED
        BY <1>4, <3>1, <4>2 DEF Settled
    <3> QED
      BY <3>2, <3>3
  <2> QED
    BY <1>0, <2>1 DEF CreatedInv
<1>7. AnswerInv'
  <2>1. \A u \in Tasks : Succeeded(u) => Succeeded(u)'
    BY <1>4 DEF Settled, Succeeded
  <2>2. result = "none"
    BY <1>0 DEF CallInv, ContextInv
  <2> QED
    BY <1>0, <2>1, <2>2, FnsFacts DEF CallInv, AnswerInv
<1>8. ContextInv' /\ StoppedInv'
  BY <1>0, <1>4, FnsFacts DEF CallInv, ContextInv, StoppedInv, Settled, OwnsTasks, Single
<1> QED
  BY <1>2, <1>5, <1>6, <1>7, <1>8 DEF CallInv

-----------------------------------------------------------------------------
(* Task.Wait and the mapping of what it answered. *)
LEMMA SingleKeeps ==
  ASSUME BaseInv, CallInv, TaskWait \/ MapSingle, Outside
  PROVE  CallInv'
<1> USE DEF CallInv
<1>0. mode \in Single /\ mode # "WaitForAny" /\ mode' = mode /\ pc # "returned"
  BY DEF TaskWait, MapSingle, Single
<1>1. CallTypes'
  BY DEF TaskWait, MapSingle, CallTypes, Return
<1>2. CreatedInv'
  BY <1>0, OutsideCall DEF CreatedInv
<1>3. ASSUME TaskWait PROVE AnswerInv' /\ ContextInv' /\ StoppedInv'
  <2>1. waited' = "ok" => Succeeded(first)
    BY <1>3 DEF TaskWait, DoneClosed, Succeeded, Past
  <2>2. Succeeded(first)' <=> Succeeded(first)
    BY OutsideCall, FnsFacts
  <2>3. result' = "none"
    BY <1>3 DEF TaskWait, ContextInv
  <2>4. AnswerInv'
    BY <1>0, <2>1, <2>2, <2>3 DEF AnswerInv, Single
  <2>5. ContextInv' /\ StoppedInv'
    BY <1>3, <2>3 DEF TaskWait, ContextInv, StoppedInv
  <2> QED
    BY <2>4, <2>5
<1>4. ASSUME MapSingle PROVE AnswerInv' /\ ContextInv' /\ StoppedInv'
  <2>1. /\ pc' = "returned" /\ waited' = waited /\ tctx' = (IF tctx = "live" THEN "closed" ELSE tctx)
        /\ OwnsTasks => parentDone'
        /\ \/ result' = "timeout" /\ waited # "ok" /\ tctx = "deadline"
              /\ (~Done(first) => first \in cancelCalled')
           \/ result' = waited /\ waited \in {"none", "ok", "err", "ctx", "createfailed"}
    BY <1>4 DEF MapSingle, Return, CallTypes
  <2>2. Succeeded(first)' <=> Succeeded(first)
    BY OutsideCall, FnsFacts
  <2>3. AnswerInv'
    BY <1>0, <2>1, <2>2 DEF AnswerInv, Single
  <2>4. ContextInv'
    BY <2>1 DEF ContextInv
  <2>5. Done(first) => run'[first] \in Past
    BY FnsFacts DEF Outside, BaseInv, RunInv
  <2>6. StoppedInv'
    BY <1>0, <2>1, <2>5 DEF StoppedInv, OwnsTasks
  <2> QED
    BY <2>3, <2>4, <2>6
<1> QED
  BY <1>1, <1>2, <1>3, <1>4

(* A finished group whose creation loop is over has seen every function. *)
LEMMA GatheredAll ==
  ASSUME BaseInv, CallInv, mode \notin Single, pc = "wait", closes > 0, errors = {}
  PROVE  \A i \in DOMAIN Fns : Succeeded(Fns[i])
<1>1. GroupInv /\ next = Len(Fns)
  BY DEF BaseInv, CallInv, CreatedInv
<1>2. finished /\ Waiting = {}
  BY <1>1 DEF GroupInv
<1> SUFFICES ASSUME NEW i \in 1..Len(Fns) PROVE Succeeded(Fns[i])
  BY FnsFacts
<1>3. Fns[i] \in Tasks /\ run[Fns[i]] # "absent"
  BY <1>1, FnsFacts DEF CallInv, CreatedInv
<1>4. monitor[Fns[i]] = "ended"
  BY <1>1, <1>2, <1>3 DEF GroupInv, GroupTypes, Waiting
<1> QED
  BY <1>1, <1>3, <1>4 DEF GroupInv, Succeeded, Past

(* The steps of Gather, WaitForAll and WaitForAny after the creation. *)
LEMMA GroupCallKeeps ==
  ASSUME BaseInv, CallInv, AllCreated \/ GatherWait \/ MapGroup \/ AnySelect, Outside
  PROVE  CallInv'
<1> USE DEF CallInv
<1>0. mode \notin Single /\ mode' = mode /\ pc # "returned" /\ mode # "WaitForTask"
      /\ OwnsTasks /\ OwnsTasks'
  BY DEF AllCreated, GatherWait, MapGroup, AnySelect, Single, OwnsTasks
<1>a. /\ DOMAIN Fns = 1..Len(Fns) /\ \A i \in 1..Len(Fns) : Fns[i] \in Tasks
      /\ next \in 0..Len(Fns)
      /\ \A u \in Tasks : Succeeded(u)' <=> Succeeded(u)
  BY FnsFacts, OutsideCall DEF CallTypes
<1>1. CallTypes'
  BY DEF AllCreated, GatherWait, MapGroup, AnySelect, CallTypes, Return
<1>2. ASSUME AllCreated PROVE CallInv'
  <2>1. /\ pc = "create" /\ pc' = "wait" /\ next' = next /\ next = Len(Fns) /\ run' = run
        /\ UNCHANGED <<tctx, waited, resultCh, result, parentDone>>
    BY <1>2 DEF AllCreated, taskVars
  <2>2. CreatedInv'
    BY <1>0, <2>1 DEF CreatedInv
  <2>3. AnswerInv'
    BY <1>0, <1>a, <2>1 DEF AnswerInv
  <2>4. ContextInv' /\ StoppedInv'
    BY <1>0, <2>1 DEF ContextInv, StoppedInv
  <2> QED
    BY <1>1, <2>2, <2>3, <2>4
<1>3. ASSUME GatherWait PROVE CallInv'
  <2>1. /\ mode \in {"Gather", "WaitForAll"} /\ pc = "wait" /\ pc' = "map" /\ next' = next
        /\ UNCHANGED <<tctx, resultCh, result>>
        /\ waited' = "ok" => closes > 0 /\ errors = {}
    BY <1>3 DEF GatherWait
  <2>2. CreatedInv'
    BY <1>0, <2>1 DEF CreatedInv
  <2>3. waited' = "ok" => \A i \in 1..Len(Fns) : Succeeded(Fns[i])
    BY <1>0, <1>a, <2>1, GatheredAll
  <2>4. AnswerInv'
    BY <1>0, <1>a, <2>1, <2>3 DEF AnswerInv, ContextInv
  <2>5. ContextInv' /\ StoppedInv'
    BY <1>0, <2>1 DEF ContextInv, StoppedInv
  <2> QED
    BY <1>1, <2>2, <2>4, <2>5
<1>4. ASSUME MapGroup PROVE CallInv'
  <2>1. /\ pc = "map" /\ pc' = "returned" /\ next' = next /\ parentDone'
        /\ UNCHANGED <<waited, resultCh>> /\ tctx' = (IF tctx = "live" THEN "closed" ELSE tctx)
        /\ \/ result' = "timeout" /\ tctx # "live"
           \/ result' = waited /\ waited \in {"none", "ok", "err", "ctx", "createfailed"}
    BY <1>0, <1>4 DEF MapGroup, Return, CallTypes
  <2>2. CreatedInv'
    BY <1>0, <2>1 DEF CreatedInv
  <2>3. AnswerInv'
    BY <1>0, <1>a, <2>1 DEF AnswerInv
  <2>4. ContextInv' /\ StoppedInv'
    BY <1>0, <2>1 DEF ContextInv, StoppedInv, CallTypes
  <2> QED
    BY <1>1, <2>2, <2>3, <2>4
<1>5. ASSUME AnySelect PROVE CallInv'
  <2>1. /\ mode = "WaitForAny" /\ pc = "wait" /\ pc' = "returned" /\ next' = next /\ parentDone'
        /\ waited' = waited /\ tctx' = (IF tctx = "live" THEN "closed" ELSE tctx)
        /\ \/ result' = resultCh /\ resultCh' = "none"
           \/ result' = "timeout" /\ tctx # "live" /\ resultCh' = resultCh
    BY <1>0, <1>5 DEF AnySelect, Return
  <2>2. CreatedInv'
    BY <1>0, <2>1 DEF CreatedInv
  <2>3. AnswerInv'
    BY <1>0, <1>a, <2>1 DEF AnswerInv
  <2>4. ContextInv' /\ StoppedInv'
    BY <1>0, <2>1 DEF ContextInv, StoppedInv, CallTypes
  <2> QED
    BY <1>1, <2>2, <2>3, <2>4
<1> QED
  BY <1>2, <1>3, <1>4, <1>5

(* The polling goroutine, and the end of the call's context. *)
LEMMA PollKeeps ==
  ASSUME BaseInv, CallInv, Outside,
         PollCheck \/ PollScan \/ PollFailed \/ \E why \in {"deadline", "canceled"} : EndContext(why)
  PROVE  CallInv'
<1> USE DEF CallInv
<1>0. UNCHANGED <<mode, pc, next, waited, result>>
  BY DEF PollCheck, PollScan, PollFailed, EndContext
<1>a. /\ DOMAIN Fns = 1..Len(Fns) /\ \A i \in 1..Len(Fns) : Fns[i] \in Tasks
      /\ first \in Tasks /\ \A u \in Tasks : Succeeded(u)' <=> Succeeded(u)
  BY FnsFacts, OutsideCall
<1>1. CallTypes'
  BY DEF PollCheck, PollScan, PollFailed, EndContext, CallTypes
<1>2. CreatedInv'
  BY <1>0 DEF CreatedInv, Outside
<1>3. resultCh' \in {resultCh, "timeout", "allfailed"} \/ \E t \in Tasks : Succeeded(t)
  <2>1. ASSUME NEW t \in Created, Result(t) = "ok" PROVE t \in Tasks /\ Succeeded(t)
    BY <2>1 DEF Created, Result, Succeeded, BaseInv, RunInv
  <2> QED
    BY <2>1 DEF PollCheck, PollScan, PollFailed, EndContext
<1>4. AnswerInv'
  BY <1>0, <1>a, <1>3 DEF AnswerInv
<1>5. ContextInv'
  <2>1. ASSUME PollCheck \/ PollScan PROVE ContextInv'
    BY <1>0, <2>1 DEF PollCheck, PollScan, ContextInv
  <2>2. ASSUME PollFailed PROVE ContextInv'
    BY <1>0, <2>2 DEF PollFailed, ContextInv, CallTypes
  <2>3. ASSUME NEW why \in {"deadline", "canceled"}, EndContext(why) PROVE ContextInv'
    BY <1>0, <2>3 DEF EndContext, ContextInv
  <2> QED
    BY <2>1, <2>2, <2>3
<1>6. StoppedInv'
  BY <1>0, <1>a DEF StoppedInv, Outside, OwnsTasks
<1> QED
  BY <1>1, <1>2, <1>4, <1>5, <1>6

-----------------------------------------------------------------------------
(* Every step of a call keeps both accounts. *)
LEMMA CallStepInv == BaseInv /\ CallInv /\ [CallNext]_vars => BaseInv' /\ CallInv'
<1> SUFFICES ASSUME BaseInv, CallInv, [CallNext]_vars PROVE BaseInv' /\ CallInv'
  OBVIOUS
<1>1. ASSUME NEW t \in Tasks, TaskMove(t), UNCHANGED <<groupVars, waitVars, callVars>>
      PROVE  BaseInv' /\ CallInv'
  <2>1. mode' = mode
    BY <1>1 DEF callVars
  <2>2. BaseInv' /\ Settled /\ \A u \in Tasks : run[u] = "absent" => run'[u] = "absent"
    BY <1>1, <2>1, MoveKeeps
  <2> QED
    BY <1>1, <2>2, CallKept
<1>2. ASSUME NEW t \in Tasks, Monitor(t), UNCHANGED <<waitVars, callVars>>
      PROVE  BaseInv' /\ CallInv'
  <2>1. mode' = mode
    BY <1>2 DEF callVars
  <2>2. BaseInv' /\ Settled /\ \A u \in Tasks : run[u] = "absent" => run'[u] = "absent"
    BY <1>2, <2>1, CollectKeeps
  <2> QED
    BY <1>2, <2>2, CallKept
<1>3. ASSUME CreateSingle \/ CreateNext PROVE BaseInv' /\ CallInv'
  BY <1>3, CreateSingleKeeps, CreateNextKeeps
<1>4. ASSUME TaskWait \/ MapSingle PROVE BaseInv' /\ CallInv'
  BY <1>4, CallOutside, OutsideKeeps, SingleKeeps
<1>5. ASSUME AllCreated \/ GatherWait \/ MapGroup \/ AnySelect PROVE BaseInv' /\ CallInv'
  BY <1>5, CallOutside, OutsideKeeps, GroupCallKeeps
<1>6. ASSUME PollCheck \/ PollScan \/ PollFailed \/ \E why \in {"deadline", "canceled"} : EndContext(why)
      PROVE  BaseInv' /\ CallInv'
  <2>1. Outside
    BY <1>6, CallOutside
  <2> QED
    BY <1>6, <2>1, OutsideKeeps, PollKeeps
<1>7. ASSUME UNCHANGED vars PROVE BaseInv' /\ CallInv'
  <2>1. parentDone \in BOOLEAN /\ cancelCalled \in SUBSET Tasks
    BY DEF BaseInv, RunInv, TaskTypeOK
  <2>2. Outside /\ UNCHANGED callVars
    BY <1>7, <2>1 DEF vars, allVars, taskVars, callbackVars, callVars, Outside
  <2>3. Settled /\ \A u \in Tasks : run[u] = "absent" => run'[u] = "absent"
    BY <2>2 DEF Outside, Settled
  <2> QED
    BY <2>2, <2>3, OutsideKeeps, CallKept
<1> QED
  BY <1>1, <1>2, <1>3, <1>4, <1>5, <1>6, <1>7
     DEF CallNext, CallStep, PollStep, TaskStep, TaskMove

(* They hold in every reachable state of a call. *)
LEMMA CallInvariant == CallSpec => [](BaseInv /\ CallInv)
<1> QED
  BY CallInit, CallStepInv, PTL DEF CallSpec

(* Every reachable state of a call has its type. *)
THEOREM CallTypeCorrect == CallSpec => []CallTypeOK
<1>1. BaseInv /\ CallInv => CallTypeOK
  <2> SUFFICES ASSUME BaseInv, CallInv PROVE CallTypeOK
    OBVIOUS
  <2>1. CallTypes /\ TaskTypeOK
    BY DEF CallInv, BaseInv, RunInv
  <2>2. GroupTypes
    <3>1. CASE mode \in Single
      <4>1. GroupIdle
        BY <3>1 DEF BaseInv
      <4>2. monitor \in [Tasks -> {"absent", "waiting", "ended"}]
        BY <4>1 DEF GroupIdle
      <4>3. active \in Nat /\ finished \in BOOLEAN /\ closes \in Nat
        BY <4>1 DEF GroupIdle
      <4>4. errors \in SUBSET Tasks /\ results \in SUBSET Tasks /\ refused \in SUBSET Tasks
        BY <4>1 DEF GroupIdle
      <4> QED
        BY <4>2, <4>3, <4>4 DEF GroupTypes
    <3>2. CASE mode \notin Single
      BY <3>2 DEF BaseInv, GroupInv
    <3> QED
      BY <3>1, <3>2
  <2>3. waiter = "idle" /\ waitResult = "none" /\ waitSaw = {}
    BY DEF BaseInv, WaitIdle
  <2>4. GroupTypeOK
    BY <2>1, <2>2, <2>3 DEF GroupTypes, GroupTypeOK
  <2> QED
    BY <2>1, <2>4 DEF CallTypes, CallTypeOK
<1> QED
  BY <1>1, CallInvariant, PTL

(* wait_for.go: a call that reports success reports one that happened, of  *)
(* all functions or of some; one that reports a timeout had its context end *)
(* first.                                                                  *)
THEOREM AnswerCorrect == CallSpec => []AnswerIsTrue
<1>1. BaseInv /\ CallInv => AnswerIsTrue
  <2> SUFFICES ASSUME BaseInv, CallInv PROVE AnswerIsTrue
    OBVIOUS
  <2>1. ASSUME result = "ok", mode \in {"Gather", "WaitForAll"}, NEW i \in DOMAIN Fns
        PROVE  outcome[Fns[i]] = "ok"
    BY <2>1 DEF CallInv, AnswerInv, Succeeded
  <2>2. ASSUME result = "ok", mode \notin {"Gather", "WaitForAll"}
        PROVE  \E t \in Created : outcome[t] = "ok"
    <3>1. mode \in Single \/ mode = "WaitForAny"
      BY <2>2 DEF CallInv, CallTypes, Modes, Single
    <3>2. \E t \in Tasks : Succeeded(t)
      BY <2>2, <3>1, FnsFacts DEF CallInv, AnswerInv, Single
    <3> QED
      BY <3>2 DEF Succeeded, Past, Created
  <2>3. result = "timeout" => tctx \in {"deadline", "canceled"}
    BY DEF CallInv, ContextInv
  <2> QED
    BY <2>1, <2>2, <2>3 DEF AnswerIsTrue
<1> QED
  BY <1>1, CallInvariant, PTL

(* wait_for.go: whatever made a call return, the tasks it started that have *)
(* not ended are under a context that is done.                             *)
THEOREM ReturnCorrect == CallSpec => []ReturnStopsTasks
<1>1. BaseInv /\ CallInv => ReturnStopsTasks
  <2> SUFFICES ASSUME BaseInv, CallInv, pc = "returned", OwnsTasks \/ result = "timeout",
                      NEW t \in Created
               PROVE  Done(t) \/ CtxDone(t)
    BY DEF ReturnStopsTasks
  <2>1. CASE OwnsTasks
    BY <2>1 DEF CallInv, StoppedInv, CtxDone
  <2>2. CASE ~OwnsTasks
    <3>1. mode = "WaitForTask" /\ result = "timeout" /\ t \in Tasks /\ run[t] # "absent"
      BY <2>2 DEF OwnsTasks, Created
    <3>2. t = first
      BY <3>1 DEF CallInv, CreatedInv, Single
    <3> QED
      BY <3>1, <3>2 DEF CallInv, StoppedInv, CtxDone, BaseInv, RunInv
  <2> QED
    BY <2>1, <2>2
<1> QED
  BY <1>1, CallInvariant, PTL
=============================================================================
