--------------------------- MODULE TaskGroupProofs ---------------------------
(***************************************************************************)
(* Machine-checked theorems about Task and TaskGroup for any tasks and     *)
(* callbacks, finitely many or not.                                        *)
(***************************************************************************)
EXTENDS TaskGroup, FiniteSetTheorems, TLAPS

(* Where run() is once the outcome is published. *)
Past == {"callbacks", "close", "ended"}

(* What the goroutine of a task has written where it is. *)
RunInv ==
  /\ TaskTypeOK
  /\ \A t \in Tasks : run[t] = "finish" => returned[t] \in {"ok", "err"}
  /\ \A t \in Tasks : Done(t) <=> run[t] \in Past
  /\ \A t \in Tasks : Done(t) => outcome[t] \in {"ok", "err", "cancelled"}

(* A callback that waits has not run unless the snapshot was taken; one    *)
(* that does not wait has run.                                             *)
CallbackInv ==
  /\ \A k \in Callbacks : registered[k] = NoTask => cbRuns[k] = 0
  /\ \A t \in Tasks : \A k \in pendingCbs[t] : registered[k] = t
  /\ \A k \in Callbacks, t \in Tasks : registered[k] = t =>
       cbRuns[k] = IF k \in pendingCbs[t] /\ run[t] \notin {"close", "ended"} THEN 0 ELSE 1

(* What other goroutines may rely on when task t's step is taken.          *)
Keeps ==
  /\ \A t \in Tasks : run'[t] = "absent" <=> run[t] = "absent"
  /\ \A t \in Tasks : run[t] = "ended" => run'[t] = "ended"
  /\ \A t \in Tasks : run[t] \in Past => run'[t] \in Past /\ outcome'[t] = outcome[t]

(* The steps of a task's goroutine and of its clients. *)
TaskMove(t) ==
  \/ RunStep(t)
  \/ \E r \in {"ok", "err"} : FnReturns(t, r) /\ UNCHANGED parentDone
  \/ CancelRead(t) \/ CancelCall(t)
  \/ \E k \in Callbacks : AddCallback(t, k)

(* A step of a task keeps the types of tasks. *)
LEMMA TaskStepType ==
  ASSUME RunInv, NEW t \in Tasks, TaskMove(t)
  PROVE  TaskTypeOK'
<1> USE DEF RunInv, TaskTypeOK, RunPC, States, callbackVars
<1>1. ASSUME RunStart(t), UNCHANGED parentDone PROVE TaskTypeOK'
  BY <1>1 DEF RunStart
<1>2. ASSUME RunFinish(t), UNCHANGED parentDone PROVE TaskTypeOK'
  BY <1>2 DEF RunFinish
<1>3. ASSUME ExecuteCallbacks(t), UNCHANGED parentDone PROVE TaskTypeOK'
  <2>1. cbRuns' \in [Callbacks -> Nat]
    BY <1>3 DEF ExecuteCallbacks
  <2> QED
    BY <1>3, <2>1 DEF ExecuteCallbacks
<1>4. ASSUME CloseDone(t), UNCHANGED parentDone PROVE TaskTypeOK'
  BY <1>4 DEF CloseDone
<1>5. ASSUME NEW r \in {"ok", "err"}, FnReturns(t, r), UNCHANGED parentDone PROVE TaskTypeOK'
  BY <1>5 DEF FnReturns
<1>6. ASSUME CancelRead(t) PROVE TaskTypeOK'
  BY <1>6 DEF CancelRead
<1>7. ASSUME CancelCall(t) PROVE TaskTypeOK'
  BY <1>7 DEF CancelCall
<1>8. ASSUME NEW k \in Callbacks, AddCallback(t, k) PROVE TaskTypeOK'
  <2>1. registered' \in [Callbacks -> Tasks \cup {NoTask}]
    BY <1>8 DEF AddCallback
  <2>2. cbRuns' \in [Callbacks -> Nat]
    BY <1>8 DEF AddCallback
  <2>3. pendingCbs' \in [Tasks -> SUBSET Callbacks]
    BY <1>8 DEF AddCallback
  <2> QED
    BY <1>8, <2>1, <2>2, <2>3 DEF AddCallback
<1> QED
  BY <1>1, <1>2, <1>3, <1>4, <1>5, <1>6, <1>7, <1>8 DEF TaskMove, RunStep

(* A step of a task keeps what its goroutine has written. *)
LEMMA TaskStepRun ==
  ASSUME RunInv, NEW t \in Tasks, TaskMove(t)
  PROVE  RunInv' /\ Keeps
<1>0. TaskTypeOK'
  BY TaskStepType
<1>a. /\ run \in [Tasks -> RunPC] /\ state \in [Tasks -> States]
      /\ returned \in [Tasks -> {"none", "ok", "err"}]
      /\ outcome \in [Tasks -> {"unset", "ok", "err", "cancelled"}]
      /\ \A u \in Tasks : run[u] = "finish" => returned[u] \in {"ok", "err"}
      /\ \A u \in Tasks : state[u] \in {"done", "cancelled"} <=> run[u] \in Past
      /\ \A u \in Tasks :
           state[u] \in {"done", "cancelled"} => outcome[u] \in {"ok", "err", "cancelled"}
  BY DEF RunInv, TaskTypeOK, Done
<1> DEFINE P ==
      /\ \A u \in Tasks : run'[u] = "finish" => returned'[u] \in {"ok", "err"}
      /\ \A u \in Tasks : state'[u] \in {"done", "cancelled"} <=> run'[u] \in Past
      /\ \A u \in Tasks :
           state'[u] \in {"done", "cancelled"} => outcome'[u] \in {"ok", "err", "cancelled"}
      /\ Keeps
<1>1. ASSUME RunStart(t) PROVE P
  BY <1>1, <1>a DEF RunStart, Keeps, Past
<1>2. ASSUME RunFinish(t) PROVE P
  BY <1>2, <1>a DEF RunFinish, Keeps, Past
<1>3. ASSUME ExecuteCallbacks(t) PROVE P
  BY <1>3, <1>a DEF ExecuteCallbacks, Keeps, Past
<1>4. ASSUME CloseDone(t) PROVE P
  BY <1>4, <1>a DEF CloseDone, Keeps, Past
<1>5. ASSUME NEW r \in {"ok", "err"}, FnReturns(t, r) PROVE P
  BY <1>5, <1>a DEF FnReturns, Keeps, Past
<1>6. ASSUME UNCHANGED <<run, state, returned, outcome>> PROVE P
  BY <1>6, <1>a DEF Keeps
<1>7. P
  BY <1>1, <1>2, <1>3, <1>4, <1>5, <1>6
     DEF TaskMove, RunStep, CancelRead, CancelCall, AddCallback
<1> QED
  BY <1>0, <1>7 DEF RunInv, Done

(* A step of a task keeps the account of its callbacks. *)
LEMMA TaskStepCallbacks ==
  ASSUME RunInv, CallbackInv, NEW t \in Tasks, TaskMove(t)
  PROVE  CallbackInv'
<1>a. /\ run \in [Tasks -> RunPC] /\ registered \in [Callbacks -> Tasks \cup {NoTask}]
      /\ pendingCbs \in [Tasks -> SUBSET Callbacks] /\ cbRuns \in [Callbacks -> Nat]
      /\ NoTask \notin Tasks
      /\ \A u \in Tasks : state[u] \in {"done", "cancelled"} <=> run[u] \in Past
  BY NoTaskAssumption DEF RunInv, TaskTypeOK, Done
<1>1. ASSUME NEW pc \in {"fn", "finish", "callbacks", "ended"}, run' = [run EXCEPT ![t] = pc],
             run[t] \notin {"close", "ended"} \/ pc = "ended",
             run[t] = "close" \/ pc # "ended",
             UNCHANGED callbackVars
      PROVE  CallbackInv'
  BY <1>1, <1>a DEF CallbackInv, callbackVars
<1>2. ASSUME ExecuteCallbacks(t) PROVE CallbackInv'
  <2>1. /\ registered' = registered /\ pendingCbs' = pendingCbs
        /\ \A u \in Tasks : u # t => run'[u] = run[u]
        /\ run[t] = "callbacks" /\ run'[t] = "close"
        /\ \A k \in Callbacks : cbRuns'[k] = IF k \in pendingCbs[t] THEN cbRuns[k] + 1 ELSE cbRuns[k]
    BY <1>2, <1>a DEF ExecuteCallbacks
  <2>2. ASSUME NEW k \in Callbacks, registered[k] = NoTask PROVE cbRuns'[k] = 0
    BY <1>a, <2>1, <2>2 DEF CallbackInv
  <2>3. ASSUME NEW k \in Callbacks, NEW u \in Tasks, registered[k] = u
        PROVE  cbRuns'[k] = IF k \in pendingCbs[u] /\ run'[u] \notin {"close", "ended"} THEN 0 ELSE 1
    BY <1>a, <2>1, <2>3 DEF CallbackInv
  <2> QED
    BY <2>1, <2>2, <2>3 DEF CallbackInv
<1>3. ASSUME NEW k \in Callbacks, AddCallback(t, k) PROVE CallbackInv'
  <2>1. /\ registered[k] = NoTask /\ registered' = [registered EXCEPT ![k] = t] /\ run' = run
        /\ cbRuns[k] = 0 /\ k \notin pendingCbs[t]
        /\ \A u \in Tasks : k \notin pendingCbs[u]
    BY <1>3, <1>a DEF AddCallback, CallbackInv
  <2>2. CASE Done(t)
    <3>1. cbRuns' = [cbRuns EXCEPT ![k] = @ + 1] /\ pendingCbs' = pendingCbs
      BY <1>3, <2>2 DEF AddCallback
    <3> QED
      BY <1>a, <2>1, <3>1 DEF CallbackInv
  <2>3. CASE ~Done(t)
    <3>1. pendingCbs' = [pendingCbs EXCEPT ![t] = @ \cup {k}] /\ cbRuns' = cbRuns
      BY <1>3, <2>3 DEF AddCallback
    <3>2. run[t] \notin {"close", "ended"}
      BY <1>a, <2>3 DEF Done, Past
    <3>3. \A u \in Tasks : pendingCbs'[u] = IF u = t THEN pendingCbs[t] \cup {k} ELSE pendingCbs[u]
      BY <1>a, <3>1
    <3>4. \A j \in Callbacks : registered'[j] = IF j = k THEN t ELSE registered[j]
      BY <1>a, <2>1
    <3>5. ASSUME NEW j \in Callbacks, registered'[j] = NoTask PROVE cbRuns'[j] = 0
      BY <1>a, <3>1, <3>4, <3>5 DEF CallbackInv
    <3>6. ASSUME NEW u \in Tasks, NEW j \in pendingCbs'[u] PROVE registered'[j] = u
      <4>1. CASE j = k
        <5>1. u = t
          BY <2>1, <3>3, <3>6, <4>1
        <5> QED
          BY <3>4, <4>1, <5>1
      <4>2. CASE j # k
        <5>1. j \in pendingCbs[u] /\ j \in Callbacks
          BY <1>a, <3>3, <3>6, <4>2
        <5> QED
          BY <3>4, <4>2, <5>1 DEF CallbackInv
      <4> QED
        BY <4>1, <4>2
    <3>7. ASSUME NEW j \in Callbacks, NEW u \in Tasks, registered'[j] = u
          PROVE  cbRuns'[j] = IF j \in pendingCbs'[u] /\ run'[u] \notin {"close", "ended"} THEN 0 ELSE 1
      <4>1. CASE j = k
        BY <2>1, <3>1, <3>2, <3>3, <3>4, <3>7, <4>1
      <4>2. CASE j # k
        BY <2>1, <3>1, <3>3, <3>4, <3>7, <4>2 DEF CallbackInv
      <4> QED
        BY <4>1, <4>2
    <3> QED
      BY <3>5, <3>6, <3>7 DEF CallbackInv
  <2> QED
    BY <2>2, <2>3
<1>4. ASSUME UNCHANGED <<run, callbackVars>> PROVE CallbackInv'
  BY <1>4 DEF CallbackInv, callbackVars
<1>5. ASSUME RunStart(t) PROVE CallbackInv'
  BY <1>1, <1>5 DEF RunStart
<1>6. ASSUME RunFinish(t) PROVE CallbackInv'
  BY <1>1, <1>6 DEF RunFinish
<1>7. ASSUME CloseDone(t) PROVE CallbackInv'
  BY <1>1, <1>7 DEF CloseDone
<1>8. ASSUME NEW r \in {"ok", "err"}, FnReturns(t, r) PROVE CallbackInv'
  BY <1>1, <1>8 DEF FnReturns
<1> QED
  BY <1>2, <1>3, <1>4, <1>5, <1>6, <1>7, <1>8 DEF TaskMove, RunStep, CancelRead, CancelCall

-----------------------------------------------------------------------------
Waiting == {t \in Tasks : monitor[t] = "waiting"}

(* The variables of a group and of its waiter have their types. *)
GroupTypes ==
  /\ active \in Nat /\ finished \in BOOLEAN /\ closes \in Nat
  /\ errors \in SUBSET Tasks /\ results \in SUBSET Tasks /\ refused \in SUBSET Tasks
  /\ monitor \in [Tasks -> {"absent", "waiting", "ended"}]

WaitTypes ==
  /\ waiter \in {"idle", "select", "returned"}
  /\ waitResult \in {"none", "ok", "errors", "ctx", "empty"}
  /\ waitSaw \in SUBSET Tasks

(* A task has a monitor from its creation on; the monitor has ended when   *)
(* the outcome is collected, and the group is finished when none waits.    *)
GroupInv ==
  /\ GroupTypes
  /\ IsFiniteSet(Waiting) /\ active = Cardinality(Waiting)
  /\ \A t \in Tasks : monitor[t] = "absent" <=> run[t] = "absent"
  /\ \A t \in Tasks : monitor[t] = "ended" <=> t \in errors \cup results
  /\ \A t \in Tasks : monitor[t] = "ended" => run[t] = "ended"
  /\ errors \cap results = {}
  /\ \A t \in results : outcome[t] = "ok"
  /\ \A t \in errors : outcome[t] \in {"err", "cancelled"}
  /\ closes = IF finished THEN 1 ELSE 0
  /\ finished => Waiting = {}

(* A Wait that done released has seen a finished group. *)
WaitInv ==
  /\ WaitTypes
  /\ waitResult \in {"ok", "errors"} =>
       finished /\ waitSaw = results /\ (waitResult = "ok" <=> errors = {})

Inv == RunInv /\ CallbackInv /\ GroupInv /\ WaitInv

(* Steps that leave the group alone keep its account. *)
LEMMA GroupKept ==
  ASSUME GroupInv, Keeps, UNCHANGED groupVars
  PROVE  GroupInv'
<1>1. Waiting' = Waiting
  BY DEF Waiting, groupVars
<1>2. GroupTypes'
  BY DEF GroupInv, GroupTypes, groupVars
<1>3. \A t \in Tasks : t \in errors \cup results => run[t] = "ended"
  BY DEF GroupInv
<1>4. /\ \A t \in Tasks : monitor'[t] = "absent" <=> run'[t] = "absent"
      /\ \A t \in Tasks : monitor'[t] = "ended" <=> t \in errors' \cup results'
      /\ \A t \in Tasks : monitor'[t] = "ended" => run'[t] = "ended"
  BY DEF GroupInv, Keeps, groupVars
<1>5. /\ errors' \cap results' = {} /\ closes' = IF finished' THEN 1 ELSE 0
      /\ active' = active /\ finished' = finished
  BY DEF GroupInv, groupVars
<1>6. /\ \A t \in results' : outcome'[t] = "ok"
      /\ \A t \in errors' : outcome'[t] \in {"err", "cancelled"}
  BY <1>3 DEF GroupInv, GroupTypes, Keeps, groupVars, Past
<1> QED
  BY <1>1, <1>2, <1>4, <1>5, <1>6 DEF GroupInv

(* A new task keeps what the goroutines of the others have written. *)
LEMMA StartKeeps ==
  ASSUME RunInv, CallbackInv, NEW t \in Tasks, StartTask(t), UNCHANGED parentDone
  PROVE  RunInv' /\ CallbackInv'
<1>1. TaskTypeOK'
  BY DEF RunInv, TaskTypeOK, StartTask, callbackVars, RunPC, States
<1>2. \A u \in Tasks : run'[u] = "finish" => returned'[u] \in {"ok", "err"}
  BY DEF RunInv, TaskTypeOK, StartTask
<1>3. \A u \in Tasks : Done(u)' <=> run'[u] \in Past
  BY DEF RunInv, TaskTypeOK, StartTask, Done, Past
<1>4. \A u \in Tasks : Done(u)' => outcome'[u] \in {"ok", "err", "cancelled"}
  BY DEF RunInv, TaskTypeOK, StartTask, Done, Past
<1>5. CallbackInv'
  BY DEF RunInv, TaskTypeOK, CallbackInv, StartTask, callbackVars
<1> QED
  BY <1>1, <1>2, <1>3, <1>4, <1>5 DEF RunInv, Done

(* A group that is not finished gets one more task. *)
LEMMA CreateKeeps ==
  ASSUME RunInv, CallbackInv, GroupInv, NEW t \in Tasks, CreateGroupTask(t)
  PROVE  RunInv' /\ CallbackInv' /\ GroupInv' /\ (finished => UNCHANGED <<errors, results>>)
<1>1. CASE finished
  <2>1. UNCHANGED <<taskVars, active, monitor, finished, closes, errors, results>>
        /\ refused' = refused \cup {t}
    BY <1>1 DEF CreateGroupTask
  <2>2. RunInv' /\ CallbackInv'
    BY <2>1 DEF RunInv, TaskTypeOK, CallbackInv, Done, taskVars
  <2>3. Waiting' = Waiting
    BY <2>1 DEF Waiting
  <2>4. GroupInv'
    BY <2>1, <2>3 DEF GroupInv, GroupTypes, taskVars
  <2> QED
    BY <2>1, <2>2, <2>4
<1>2. CASE ~finished
  <2>1. StartTask(t) /\ UNCHANGED parentDone /\ run[t] = "absent"
    BY <1>2 DEF CreateGroupTask, StartTask
  <2>2. RunInv' /\ CallbackInv'
    BY <2>1, StartKeeps
  <2>4. /\ run' = [run EXCEPT ![t] = "pending"] /\ outcome' = outcome
        /\ monitor' = [monitor EXCEPT ![t] = "waiting"] /\ active' = active + 1
        /\ UNCHANGED <<finished, closes, errors, results, refused>>
    BY <1>2 DEF CreateGroupTask, StartTask
  <2>5. monitor[t] = "absent" /\ t \notin errors \cup results
    BY <2>1 DEF GroupInv
  <2>6. Waiting' = Waiting \cup {t} /\ t \notin Waiting
    BY <2>4, <2>5 DEF Waiting, GroupInv, GroupTypes
  <2>7. IsFiniteSet(Waiting') /\ Cardinality(Waiting') = Cardinality(Waiting) + 1
    BY <2>6, FS_AddElement DEF GroupInv
  <2>8. GroupTypes'
    BY <2>4 DEF GroupInv, GroupTypes
  <2>9. /\ \A u \in Tasks : monitor'[u] = "absent" <=> run'[u] = "absent"
        /\ \A u \in Tasks : monitor'[u] = "ended" <=> u \in errors' \cup results'
        /\ \A u \in Tasks : monitor'[u] = "ended" => run'[u] = "ended"
    BY <2>4, <2>5 DEF GroupInv, GroupTypes, RunInv, TaskTypeOK
  <2>10. GroupInv'
    BY <1>2, <2>4, <2>7, <2>8, <2>9 DEF GroupInv
  <2> QED
    BY <1>2, <2>2, <2>10
<1> QED
  BY <1>1, <1>2 DEF GroupInv, GroupTypes

(* A monitor collects the outcome of a task that has ended. *)
LEMMA MonitorKeeps ==
  ASSUME RunInv, CallbackInv, GroupInv, NEW t \in Tasks, Monitor(t)
  PROVE  RunInv' /\ CallbackInv' /\ GroupInv' /\ ~finished
<1>1. /\ monitor[t] = "waiting" /\ run[t] = "ended" /\ active' = active - 1
      /\ monitor' = [monitor EXCEPT ![t] = "ended"]
      /\ UNCHANGED <<run, state, returned, outcome, cancelCalled, callbackVars, cancelling, refused>>
  BY DEF Monitor, DoneClosed
<1>2. parentDone' \in BOOLEAN
  BY DEF Monitor, RunInv, TaskTypeOK
<1>3. RunInv' /\ CallbackInv'
  BY <1>1, <1>2 DEF RunInv, TaskTypeOK, CallbackInv, Done, callbackVars
<1>4. t \in Waiting /\ Waiting' = Waiting \ {t}
  BY <1>1 DEF Waiting, GroupInv, GroupTypes
<1>5. /\ IsFiniteSet(Waiting') /\ Cardinality(Waiting') = Cardinality(Waiting) - 1
      /\ active' = Cardinality(Waiting') /\ active' \in Nat
  <2>1. IsFiniteSet(Waiting') /\ Cardinality(Waiting') = Cardinality(Waiting) - 1
    BY <1>4, FS_RemoveElement DEF GroupInv
  <2>2. Cardinality(Waiting') \in Nat
    BY <2>1, FS_CardinalityType
  <2> QED
    BY <1>1, <2>1, <2>2 DEF GroupInv
<1>6. ~finished /\ closes = 0 /\ t \notin errors \cup results
  BY <1>1, <1>4 DEF GroupInv
<1>7. /\ finished' \in BOOLEAN /\ closes' = (IF finished' THEN 1 ELSE 0)
      /\ finished' => active' = 0
  <2>1. CASE active' = 0
    <3>1. finished' = TRUE /\ closes' = closes + 1
      BY <2>1 DEF Monitor
    <3> QED
      BY <2>1, <3>1, <1>6
  <2>2. CASE active' # 0
    <3>1. finished' = finished /\ closes' = closes
      BY <2>2 DEF Monitor
    <3>2. finished' = FALSE
      BY <3>1, <1>6 DEF GroupInv, GroupTypes
    <3> QED
      BY <3>1, <3>2, <1>6
  <2> QED
    BY <2>1, <2>2
<1>8. finished' => Waiting' = {}
  BY <1>5, <1>7, FS_EmptySet
<1>9. Done(t) /\ Result(t) = outcome[t] /\ outcome[t] \in {"ok", "err", "cancelled"}
  BY <1>1 DEF RunInv, Past, Result
<1>10. \/ outcome[t] = "ok" /\ results' = results \cup {t} /\ errors' = errors
       \/ outcome[t] \in {"err", "cancelled"} /\ errors' = errors \cup {t} /\ results' = results
  BY <1>9 DEF Monitor
<1>11. GroupTypes'
  BY <1>1, <1>5, <1>7, <1>10 DEF GroupInv, GroupTypes
<1>12. /\ \A u \in Tasks : monitor'[u] = "absent" <=> run'[u] = "absent"
       /\ \A u \in Tasks : monitor'[u] = "ended" => run'[u] = "ended"
  BY <1>1 DEF GroupInv, GroupTypes
<1>13. \A u \in Tasks : monitor'[u] = "ended" <=> u \in errors' \cup results'
  BY <1>1, <1>10 DEF GroupInv, GroupTypes
<1>14. /\ errors' \cap results' = {}
       /\ \A u \in results' : outcome'[u] = "ok"
       /\ \A u \in errors' : outcome'[u] \in {"err", "cancelled"}
  BY <1>1, <1>6, <1>10 DEF GroupInv
<1>15. GroupInv'
  BY <1>5, <1>7, <1>8, <1>11, <1>12, <1>13, <1>14 DEF GroupInv
<1> QED
  BY <1>3, <1>6, <1>15

(* The waiter keeps its account when the group it saw is left as it was. *)
LEMMA WaitKept ==
  ASSUME WaitInv, UNCHANGED waitVars, finished => UNCHANGED <<finished, errors, results>>
  PROVE  WaitInv'
BY DEF WaitInv, WaitTypes, waitVars

(* The steps of the group's caller and of a goroutine in Wait. *)
LEMMA ClientKeeps ==
  ASSUME Inv, (CancelGroup /\ UNCHANGED waitVars) \/ WaitCall \/ WaitDone \/ WaitCtxDone
  PROVE  Inv'
<1>1. /\ UNCHANGED <<run, state, returned, outcome, cancelCalled, callbackVars, cancelling, groupVars>>
      /\ parentDone' \in BOOLEAN
  BY DEF CancelGroup, WaitCall, WaitDone, WaitCtxDone, taskVars, callbackVars, Inv, RunInv, TaskTypeOK
<1>2. RunInv' /\ CallbackInv'
  BY <1>1 DEF Inv, RunInv, TaskTypeOK, CallbackInv, Done, callbackVars
<1>3. GroupInv'
  BY <1>1, GroupKept DEF Inv, Keeps
<1>4. ASSUME CancelGroup /\ UNCHANGED waitVars PROVE WaitInv'
  BY <1>1, <1>4, WaitKept DEF Inv, groupVars
<1>5. ASSUME WaitCall PROVE WaitInv'
  BY <1>1, <1>5 DEF Inv, WaitCall, WaitInv, WaitTypes, groupVars
<1>6. ASSUME WaitDone PROVE WaitInv'
  <2>1. finished /\ results \in SUBSET Tasks
    BY <1>6 DEF WaitDone, Inv, GroupInv, GroupTypes
  <2> QED
    BY <1>1, <1>6, <2>1 DEF Inv, WaitDone, WaitInv, WaitTypes, groupVars
<1>7. ASSUME WaitCtxDone PROVE WaitInv'
  BY <1>1, <1>7 DEF Inv, WaitCtxDone, WaitInv, WaitTypes, groupVars
<1> QED
  BY <1>2, <1>3, <1>4, <1>5, <1>6, <1>7 DEF Inv

(* Every step keeps the invariant. *)
LEMMA GroupStep == Inv /\ [Next]_allVars => Inv'
<1> SUFFICES ASSUME Inv, [Next]_allVars PROVE Inv'
  OBVIOUS
<1>1. ASSUME NEW t \in Tasks, TaskMove(t), UNCHANGED <<groupVars, waitVars>> PROVE Inv'
  <2>1. RunInv' /\ Keeps /\ CallbackInv'
    BY <1>1, TaskStepRun, TaskStepCallbacks DEF Inv
  <2>2. GroupInv'
    BY <1>1, <2>1, GroupKept DEF Inv
  <2>3. WaitInv'
    BY <1>1, WaitKept DEF Inv, groupVars
  <2> QED
    BY <2>1, <2>2, <2>3 DEF Inv
<1>2. ASSUME NEW t \in Tasks, CreateGroupTask(t), UNCHANGED waitVars PROVE Inv'
  <2>1. finished' = finished
    BY <1>2 DEF CreateGroupTask
  <2> QED
    BY <1>2, <2>1, CreateKeeps, WaitKept DEF Inv
<1>3. ASSUME NEW t \in Tasks, Monitor(t), UNCHANGED waitVars PROVE Inv'
  BY <1>3, MonitorKeeps, WaitKept DEF Inv
<1>4. ASSUME (CancelGroup /\ UNCHANGED waitVars) \/ WaitCall \/ WaitDone \/ WaitCtxDone PROVE Inv'
  BY <1>4, ClientKeeps
<1>5. ASSUME UNCHANGED allVars PROVE Inv'
  <2>1. RunInv' /\ CallbackInv'
    BY <1>5 DEF allVars, taskVars, Inv, RunInv, TaskTypeOK, CallbackInv, Done
  <2>2. GroupInv'
    BY <1>5, GroupKept DEF Inv, Keeps, allVars, taskVars
  <2>3. WaitInv'
    BY <1>5, WaitKept DEF Inv, allVars, groupVars
  <2> QED
    BY <2>1, <2>2, <2>3 DEF Inv
<1> QED
  BY <1>1, <1>2, <1>3, <1>4, <1>5 DEF Next, TaskMove

(* A group starts with the invariant. *)
LEMMA GroupStart == GroupInit => Inv
<1> SUFFICES ASSUME GroupInit PROVE Inv
  OBVIOUS
<1>1. TaskTypeOK
  BY DEF GroupInit, TaskInit, TaskTypeOK, RunPC, States
<1>2. \A t \in Tasks : run[t] = "absent" /\ state[t] = "none" /\ pendingCbs[t] = {}
  BY DEF GroupInit, TaskInit
<1>3. \A k \in Callbacks : registered[k] = NoTask /\ cbRuns[k] = 0
  BY DEF GroupInit, TaskInit
<1>4. RunInv
  BY <1>1, <1>2 DEF RunInv, Done, Past
<1>5. CallbackInv
  BY <1>2, <1>3, NoTaskAssumption DEF CallbackInv
<1>6. RunInv /\ CallbackInv
  BY <1>4, <1>5
<1>7. Waiting = {} /\ IsFiniteSet({}) /\ Cardinality({}) = 0
  BY FS_EmptySet DEF GroupInit, Waiting
<1>8. GroupInv
  BY <1>7 DEF GroupInit, TaskInit, GroupInv, GroupTypes
<1>9. WaitInv
  BY DEF GroupInit, WaitInv, WaitTypes
<1> QED
  BY <1>6, <1>8, <1>9 DEF Inv

(* It holds in every reachable state. *)
LEMMA GroupInvariant == Spec => []Inv
<1> QED
  BY GroupStart, GroupStep, PTL DEF Spec

(* Every reachable state of a group has its type: in particular the active *)
(* count never goes below zero.                                            *)
THEOREM GroupTypeCorrect == Spec => []GroupTypeOK
<1>1. Inv => GroupTypeOK
  BY DEF Inv, RunInv, GroupInv, GroupTypes, WaitInv, WaitTypes, GroupTypeOK
<1> QED
  BY <1>1, GroupInvariant, PTL

(* task.go: however AddCallback races with the end of its task, a callback *)
(* runs once, and has been started when the task is seen done.             *)
THEOREM CallbacksCorrect == Spec => []CallbacksRunOnce
<1>1. Inv => CallbacksRunOnce
  <2> SUFFICES ASSUME Inv, NEW k \in Callbacks
               PROVE  /\ cbRuns[k] <= 1
                      /\ \A t \in Tasks : registered[k] = t /\ DoneClosed(t) => cbRuns[k] = 1
    BY DEF CallbacksRunOnce
  <2>1. registered[k] \in Tasks \/ registered[k] = NoTask
    BY DEF Inv, RunInv, TaskTypeOK
  <2>2. cbRuns[k] \in {0, 1}
    BY <2>1 DEF Inv, CallbackInv
  <2>3. \A t \in Tasks : registered[k] = t /\ DoneClosed(t) => cbRuns[k] = 1
    BY DEF Inv, CallbackInv, DoneClosed
  <2> QED
    BY <2>2, <2>3
<1> QED
  BY <1>1, GroupInvariant, PTL

(* task_group.go: done is closed once, when the last task was collected,   *)
(* whatever tasks are created while others end: no second close panics.    *)
THEOREM CloseCorrect == Spec => []ClosedOnceAtTheEnd
<1>1. Inv => ClosedOnceAtTheEnd
  <2> SUFFICES ASSUME Inv PROVE ClosedOnceAtTheEnd
    OBVIOUS
  <2>1. closes = (IF finished THEN 1 ELSE 0) /\ finished \in BOOLEAN
    BY DEF Inv, GroupInv, GroupTypes
  <2>2. ASSUME finished, NEW t \in Created PROVE t \in errors \cup results
    BY <2>2 DEF Inv, GroupInv, GroupTypes, Waiting, Created
  <2> QED
    BY <2>1, <2>2 DEF ClosedOnceAtTheEnd
<1> QED
  BY <1>1, GroupInvariant, PTL

(* task_group.go: the active count is the number of tasks not collected,   *)
(* and each collected task is one error or one result, as its outcome says.*)
THEOREM GroupAccountCorrect == Spec => []GroupAccounting
<1>1. Inv => GroupAccounting
  BY DEF Inv, GroupInv, Waiting, GroupAccounting
<1> QED
  BY <1>1, GroupInvariant, PTL

(* task_group.go: a Wait that done released has every outcome of the group *)
(* and fails exactly when a task did.                                      *)
THEOREM WaitCorrect == Spec => []WaitReturnsAll
<1>1. Inv => WaitReturnsAll
  <2> SUFFICES ASSUME Inv, waitResult \in {"ok", "errors"}
               PROVE  /\ waitSaw = results /\ Created \subseteq errors \cup results
                      /\ waitResult = "ok" <=> errors = {}
    BY DEF WaitReturnsAll
  <2>1. finished /\ waitSaw = results /\ (waitResult = "ok" <=> errors = {})
    BY DEF Inv, WaitInv
  <2>2. Created \subseteq errors \cup results
    BY <2>1 DEF Inv, GroupInv, GroupTypes, Waiting, Created
  <2> QED
    BY <2>1, <2>2
<1> QED
  BY <1>1, GroupInvariant, PTL
=============================================================================
