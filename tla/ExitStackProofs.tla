--------------------------- MODULE ExitStackProofs ---------------------------
(***************************************************************************)
(* Machine-checked theorems about AsyncExitStack for any managers, exit    *)
(* functions, callbacks and closers, and any number of stacks.             *)
(***************************************************************************)
EXTENDS AsyncExitStack, FiniteSetTheorems, TLAPS

(* A registration goes to a stack that was made. *)
TargetsMade == \A i \in Items : target[i] <= made

TypeInv == TypeOK /\ TargetsMade

(* Settling an outcome keeps the type of a call. *)
LEMMA SettleType ==
  ASSUME NEW u \in Calls, NEW i \in Items, NEW o \in Outcomes
  PROVE  /\ Settle(u, i, o) \in Calls
         /\ Settle(u, i, o).pc = u.pc /\ Settle(u, i, o).list = u.list
         /\ Settle(u, i, o).err = u.err
BY DEF Settle, Calls, Outcomes

(* Without its last item a list is one of items still. *)
LEMMA FrontType ==
  ASSUME NEW S, NEW s \in Seq(S), s # <<>>
  PROVE  /\ Front(s) \in Seq(S) /\ Last(s) \in S
         /\ Len(s) \in Nat \ {0} /\ Len(Front(s)) = Len(s) - 1 /\ Last(s) = s[Len(s)]
         /\ DOMAIN Front(s) = 1 .. Len(s) - 1
         /\ \A x \in 1 .. Len(s) - 1 : Front(s)[x] = s[x]
<1>1. Len(s) \in Nat /\ Len(s) # 0
  OBVIOUS
<1>2. Front(s) = SubSeq(s, 1, Len(s) - 1)
  BY DEF Front
<1>3. \A x \in 1 .. Len(s) - 1 : x \in 1 .. Len(s) /\ s[x] \in S
  BY <1>1
<1>4. SubSeq(s, 1, Len(s) - 1) = [x \in 1 .. Len(s) - 1 |-> s[x]]
  BY <1>1
<1>5. Len(s) - 1 \in Nat /\ Len(s) \in 1 .. Len(s) /\ s[Len(s)] \in S
  BY <1>1
<1>6. [x \in 1 .. Len(s) - 1 |-> s[x]] \in Seq(S)
  BY <1>3, <1>5
<1>7. Len([x \in 1 .. Len(s) - 1 |-> s[x]]) = Len(s) - 1
  BY <1>5
<1>8. Last(s) = s[Len(s)]
  BY DEF Last
<1> QED
  BY <1>1, <1>2, <1>4, <1>5, <1>6, <1>7, <1>8

(* Every initial state is typed. *)
LEMMA InitType == Init => TypeInv
<1> SUFFICES ASSUME Init PROVE TypeInv
  OBVIOUS
<1>1. 1 \in Stacks
  BY MaxStacksAssumption DEF Stacks
<1>2. IdleCall \in Calls
  BY DEF IdleCall, Calls
<1>3. <<>> \in Seq(Items) /\ <<>> \in Seq(Records)
  OBVIOUS
<1> QED
  BY <1>1, <1>2, <1>3 DEF Init, TypeInv, TypeOK, TargetsMade, ItemStates, IdleCall

(* Every step keeps the types. *)
LEMMA StepType == TypeInv /\ [Next]_vars => TypeInv'
<1> SUFFICES ASSUME TypeInv, [Next]_vars PROVE TypeInv'
  OBVIOUS
<1> USE DEF TypeInv, TypeOK, TargetsMade
<1>0. /\ <<>> \in Seq(Items) /\ Stacks \subseteq Nat
      /\ Managers \subseteq Items /\ Exits \subseteq Items /\ Plain \subseteq Items
  BY DEF Stacks, Items
<1>1. ASSUME NEW s \in Stacks, AEnter(s) PROVE TypeInv'
  BY <1>1 DEF AEnter
<1>2. ASSUME NEW s \in Stacks, PopAll(s) PROVE TypeInv'
  <2>a. made \in Stacks /\ s \in Stacks
    OBVIOUS
  <2>b. made < MaxStacks /\ s <= made
    BY <1>2 DEF PopAll
  <2>0. made \in Nat /\ made >= 1 /\ made < MaxStacks /\ s <= made /\ s \in Nat
    BY <2>a, <2>b, MaxStacksAssumption DEF Stacks
  <2>1. made + 1 \in Stacks /\ made' = made + 1 /\ made \in Nat /\ s <= made /\ s \in Nat
    BY <1>2, <2>0, MaxStacksAssumption DEF PopAll, Stacks
  <2>2. callbacks' \in [Stacks -> Seq(Items)]
    BY <1>0, <1>2, <2>1 DEF PopAll
  <2>3. \A t \in Stacks : t > made' => callbacks'[t] = <<>> /\ ~closed'[t]
    <3> SUFFICES ASSUME NEW t \in Stacks, t > made' PROVE callbacks'[t] = <<>> /\ ~closed'[t]
      OBVIOUS
    <3>1. t \in Nat /\ t > made /\ t # made + 1 /\ t # s
      BY <1>0, <2>1
    <3>2. callbacks'[t] = callbacks[t] /\ closed'[t] = closed[t]
      BY <1>2, <3>1 DEF PopAll
    <3> QED
      BY <3>1, <3>2
  <2>4. \A i \in Items : target'[i] <= made'
    <3>1. target' = target
      BY <1>2 DEF PopAll
    <3>2. \A i \in Items : target[i] \in Nat /\ target[i] <= made
      BY <1>0
    <3> QED
      BY <2>1, <3>1, <3>2
  <2>5. UNCHANGED <<closed, entered, state, target, scheduled, unwind, log>>
    BY <1>2 DEF PopAll
  <2> QED
    BY <2>1, <2>2, <2>3, <2>4, <2>5
<1>3. ASSUME NEW i \in Items, NEW s \in Stacks, Schedule(s, i), s <= made, made' = made,
             closed' = closed, entered' = entered, target' \in [Items -> Stacks],
             \A j \in Items : target'[j] <= made, unwind' = unwind, log' = log
      PROVE TypeInv'
  <2>1. callbacks' \in [Stacks -> Seq(Items)] /\ scheduled' \in Seq(Items)
    BY <1>3 DEF Schedule
  <2>2. state' \in [Items -> ItemStates]
    BY <1>3 DEF Schedule, Become, ItemStates
  <2>3. \A t \in Stacks : t > made' => callbacks'[t] = <<>> /\ ~closed'[t]
    BY <1>0, <1>3 DEF Schedule
  <2> QED
    BY <1>3, <2>1, <2>2, <2>3
<1>4. ASSUME NEW m \in Managers, NEW s \in Stacks, EnterCheck(m, s) PROVE TypeInv'
  <2>1. state' \in [Items -> ItemStates] /\ target' \in [Items -> Stacks]
    BY <1>0, <1>4 DEF EnterCheck, Become, ItemStates
  <2>2. \A i \in Items : target'[i] <= made'
    BY <1>0, <1>4 DEF EnterCheck, stack
  <2> QED
    BY <1>4, <2>1, <2>2 DEF EnterCheck, stack
<1>5. ASSUME NEW m \in Managers, EnterManager(m) PROVE TypeInv'
  <2>1. state' \in [Items -> ItemStates]
    BY <1>0, <1>5 DEF EnterManager, Become, ItemStates
  <2> QED
    BY <1>5, <2>1 DEF EnterManager, stack
<1>6. ASSUME NEW m \in Managers, EnterSchedule(m) PROVE TypeInv'
  BY <1>0, <1>3, <1>6 DEF EnterSchedule
<1>7. ASSUME NEW i \in Exits \cup Plain, NEW s \in Stacks, Push(i, s) PROVE TypeInv'
  <2>1. i \in Items /\ s <= made
    BY <1>0, <1>7 DEF Push
  <2>2. target' \in [Items -> Stacks] /\ \A j \in Items : target'[j] <= made
    BY <1>7, <2>1 DEF Push
  <2>3. ASSUME closed[s] PROVE TypeInv'
    <3>1. state' \in [Items -> ItemStates]
      BY <1>7, <2>1, <2>3 DEF Push, Become, ItemStates
    <3> QED
      BY <1>7, <2>2, <2>3, <3>1 DEF Push
  <2>4. ASSUME ~closed[s] PROVE TypeInv'
    BY <1>3, <1>7, <2>1, <2>2, <2>4 DEF Push
  <2> QED
    BY <2>3, <2>4
<1>8. ASSUME NEW c \in Closers, NEW s \in Stacks, UnwindStart(c, s) PROVE TypeInv'
  <2>1. PICK err \in {Nil, Orig} : unwind' = [unwind EXCEPT ![c] =
          IF closed[s] THEN [@ EXCEPT !.pc = "returned"]
          ELSE [@ EXCEPT !.pc = "unwinding", !.list = callbacks[s], !.err = err, !.pending = err]]
    BY <1>8 DEF UnwindStart
  <2>2. unwind' \in [Closers -> Calls]
    <3>1. unwind[c] \in Calls /\ callbacks[s] \in Seq(Items)
      OBVIOUS
    <3>2. [unwind[c] EXCEPT !.pc = "returned"] \in Calls
      BY <3>1 DEF Calls
    <3>3. [unwind[c] EXCEPT !.pc = "unwinding", !.list = callbacks[s], !.err = err, !.pending = err]
            \in Calls
      BY <3>1 DEF Calls
    <3> QED
      BY <2>1, <3>2, <3>3
  <2>3. \A d \in Closers : unwind'[d].pc # "unwinding" => unwind'[d].list = <<>>
    BY <1>8, <2>1 DEF UnwindStart, Calls
  <2>4. closed' \in [Stacks -> BOOLEAN] /\ callbacks' \in [Stacks -> Seq(Items)]
    BY <1>0, <1>8 DEF UnwindStart
  <2>5. \A t \in Stacks : t > made' => callbacks'[t] = <<>> /\ ~closed'[t]
    BY <1>0, <1>8 DEF UnwindStart
  <2> QED
    BY <1>8, <2>2, <2>3, <2>4, <2>5 DEF UnwindStart
<1>9. ASSUME NEW c \in Closers, UnwindNext(c) PROVE TypeInv'
  <2> DEFINE i == Last(unwind[c].list)
  <2>1. unwind[c] \in Calls /\ unwind[c].pc = "unwinding" /\ unwind[c].list \in Seq(Items)
        /\ unwind[c].list # <<>>
    BY <1>9 DEF UnwindNext, Calls
  <2>2. i \in Items /\ Front(unwind[c].list) \in Seq(Items)
    BY <2>1, FrontType
  <2>3. PICK o \in Outcomes :
          /\ unwind' = [unwind EXCEPT ![c] = [Settle(unwind[c], i, o) EXCEPT !.list = Front(@)]]
          /\ log' = [log EXCEPT ![c] = Append(@, [item |-> i, outcome |-> o])]
    BY <1>9 DEF UnwindNext
  <2>4. Settle(unwind[c], i, o) \in Calls /\ Settle(unwind[c], i, o).pc = "unwinding"
        /\ Settle(unwind[c], i, o).list = unwind[c].list
    BY <2>1, <2>2, SettleType
  <2> HIDE DEF i
  <2>5. [Settle(unwind[c], i, o) EXCEPT !.list = Front(@)] \in Calls
        /\ [Settle(unwind[c], i, o) EXCEPT !.list = Front(@)].pc = "unwinding"
    BY <2>2, <2>4 DEF Calls
  <2>6. unwind' \in [Closers -> Calls]
        /\ \A d \in Closers : unwind'[d].pc # "unwinding" => unwind'[d].list = <<>>
    BY <2>3, <2>5
  <2>7. log' \in [Closers -> Seq(Records)]
    <3> DEFINE r == [item |-> i, outcome |-> o]
    <3>1. r \in Records
      BY <2>2 DEF Records
    <3> HIDE DEF r
    <3>2. Append(log[c], r) \in Seq(Records)
      BY <3>1
    <3>3. log' = [log EXCEPT ![c] = Append(@, r)]
      BY <2>3 DEF r
    <3> QED
      BY <3>2, <3>3
  <2> QED
    BY <1>9, <2>6, <2>7 DEF UnwindNext, stack
<1>10. ASSUME NEW c \in Closers, UnwindReturn(c) PROVE TypeInv'
  <2>1. unwind' \in [Closers -> Calls]
    BY <1>10, ZenonT(40) DEF UnwindReturn, Calls
  <2>2. \A d \in Closers : unwind'[d].pc # "unwinding" => unwind'[d].list = <<>>
    BY <1>10 DEF UnwindReturn, Calls
  <2> QED
    BY <1>10, <2>1, <2>2 DEF UnwindReturn, stack
<1>11. ASSUME UNCHANGED vars PROVE TypeInv'
  BY <1>11 DEF vars, stack
<1> QED
  BY <1>1, <1>2, <1>4, <1>5, <1>6, <1>7, <1>8, <1>9, <1>10, <1>11 DEF Next

(* Every reachable state has its type: stacks that were not made are       *)
(* empty and open, and only a call that unwinds holds callbacks to run.    *)
THEOREM StackTypeCorrect == Spec => []TypeOK
<1>1. Spec => []TypeInv
  BY InitType, StepType, PTL DEF Spec
<1>2. TypeInv => TypeOK
  BY DEF TypeInv
<1> QED
  BY <1>1, <1>2, PTL

-----------------------------------------------------------------------------
(* A call that has not begun has no error and has run no exit. *)
Fresh ==
  \A c \in Closers : unwind[c].pc = "idle" =>
    unwind[c].err = Nil /\ unwind[c].pending = Nil /\ unwind[c].list = <<>> /\ log[c] = <<>>

(* Only the steps of closers touch their calls and what they have run. *)
LEMMA StepKinds ==
  ASSUME [Next]_vars
  PROVE  \/ UNCHANGED <<unwind, log>>
         \/ \E c \in Closers, s \in Stacks : UnwindStart(c, s)
         \/ \E c \in Closers : UnwindNext(c)
         \/ \E c \in Closers : UnwindReturn(c)
BY DEF Next, vars, stack, AEnter, PopAll, EnterCheck, EnterManager, EnterSchedule, Push

(* What a closer that starts has after it. *)
LEMMA StartEffect ==
  ASSUME TypeInv, NEW c \in Closers, NEW s \in Stacks, UnwindStart(c, s)
  PROVE  /\ log' = log /\ unwind[c].pc = "idle"
         /\ \A d \in Closers : d # c => unwind'[d] = unwind[d]
         /\ unwind'[c].pc \in {"returned", "unwinding"}
         /\ unwind'[c].pc = "returned" =>
              /\ closed[s] /\ callbacks' = callbacks
              /\ unwind'[c].err = unwind[c].err /\ unwind'[c].pending = unwind[c].pending
              /\ unwind'[c].list = unwind[c].list
         /\ unwind'[c].pc = "unwinding" =>
              /\ ~closed[s] /\ callbacks' = [callbacks EXCEPT ![s] = <<>>]
              /\ unwind'[c].err \in {Nil, Orig} /\ unwind'[c].pending = unwind'[c].err
              /\ unwind'[c].list = callbacks[s]
<1>1. PICK err \in {Nil, Orig} : unwind' = [unwind EXCEPT ![c] =
          IF closed[s] THEN [@ EXCEPT !.pc = "returned"]
          ELSE [@ EXCEPT !.pc = "unwinding", !.list = callbacks[s], !.err = err, !.pending = err]]
  BY DEF UnwindStart
<1>2. unwind[c] \in Calls /\ unwind \in [Closers -> Calls]
  BY DEF TypeInv, TypeOK
<1>3. unwind'[c] = IF closed[s] THEN [unwind[c] EXCEPT !.pc = "returned"]
        ELSE [unwind[c] EXCEPT !.pc = "unwinding", !.list = callbacks[s], !.err = err,
                               !.pending = err]
  BY <1>1, <1>2
<1>4. \A d \in Closers : d # c => unwind'[d] = unwind[d]
  BY <1>1, <1>2
<1>5. log' = log /\ unwind[c].pc = "idle"
      /\ callbacks' = IF closed[s] THEN callbacks ELSE [callbacks EXCEPT ![s] = <<>>]
  BY DEF UnwindStart
<1>6. CASE closed[s]
  BY <1>2, <1>3, <1>4, <1>5, <1>6 DEF Calls
<1>7. CASE ~closed[s]
  BY <1>2, <1>3, <1>4, <1>5, <1>7 DEF Calls
<1> QED
  BY <1>6, <1>7

(* What a closer that runs its last exit has after it. *)
LEMMA NextEffect ==
  ASSUME TypeInv, NEW c \in Closers, UnwindNext(c)
  PROVE  \E o \in Outcomes :
           LET u == unwind[c]
               i == Last(u.list)
           IN /\ i \in Items /\ u.list # <<>> /\ u.pc = "unwinding"
              /\ i \notin ExitFns => o # "suppress"
              /\ unwind'[c].list = Front(u.list)
              /\ unwind'[c].pending = Settle(u, i, o).pending
              /\ unwind'[c].err = u.err /\ unwind'[c].pc = u.pc
              /\ log'[c] = Append(log[c], [item |-> i, outcome |-> o])
              /\ \A d \in Closers : d # c => unwind'[d] = unwind[d] /\ log'[d] = log[d]
              /\ UNCHANGED <<stack, state, target, scheduled>>
<1> DEFINE i == Last(unwind[c].list)
<1>1. PICK o \in IF i \in ExitFns THEN Outcomes ELSE Outcomes \ {"suppress"} :
        /\ unwind' = [unwind EXCEPT ![c] = [Settle(unwind[c], i, o) EXCEPT !.list = Front(@)]]
        /\ log' = [log EXCEPT ![c] = Append(@, [item |-> i, outcome |-> o])]
  BY DEF UnwindNext
<1>2. unwind[c].pc = "unwinding" /\ unwind[c].list # <<>>
      /\ UNCHANGED <<stack, state, target, scheduled>>
  BY DEF UnwindNext
<1>3. unwind[c] \in Calls /\ unwind \in [Closers -> Calls] /\ log \in [Closers -> Seq(Records)]
  BY DEF TypeInv, TypeOK
<1>4. unwind[c].list \in Seq(Items)
  BY <1>3 DEF Calls
<1>5. i \in Items
  BY <1>2, <1>4, FrontType
<1>6. o \in Outcomes /\ (i \notin ExitFns => o # "suppress")
  BY <1>1
<1> HIDE DEF i
<1>7. /\ Settle(unwind[c], i, o) \in Calls
      /\ Settle(unwind[c], i, o).pc = unwind[c].pc
      /\ Settle(unwind[c], i, o).list = unwind[c].list
      /\ Settle(unwind[c], i, o).err = unwind[c].err
  BY <1>3, <1>5, <1>6, SettleType
<1>8. unwind'[c] = [Settle(unwind[c], i, o) EXCEPT !.list = Front(@)]
  BY <1>1, <1>3
<1>9. /\ unwind'[c].list = Front(unwind[c].list)
      /\ unwind'[c].pending = Settle(unwind[c], i, o).pending
      /\ unwind'[c].err = unwind[c].err /\ unwind'[c].pc = unwind[c].pc
  BY <1>7, <1>8 DEF Calls
<1>10. log'[c] = Append(log[c], [item |-> i, outcome |-> o])
       /\ \A d \in Closers : d # c => unwind'[d] = unwind[d] /\ log'[d] = log[d]
  BY <1>1, <1>3
<1> QED
  BY <1>2, <1>5, <1>6, <1>9, <1>10 DEF i

(* What a closer that returns has after it. *)
LEMMA ReturnEffect ==
  ASSUME TypeInv, NEW c \in Closers, UnwindReturn(c)
  PROVE  /\ log' = log /\ UNCHANGED <<stack, state, target, scheduled>>
         /\ \A d \in Closers : d # c => unwind'[d] = unwind[d]
         /\ unwind'[c].err = unwind[c].err /\ unwind'[c].pending = unwind[c].pending
         /\ unwind'[c].list = unwind[c].list /\ unwind'[c].pc = "returned"
         /\ unwind[c].pc = "unwinding"
<1>1. unwind[c] \in Calls /\ unwind \in [Closers -> Calls]
  BY DEF TypeInv, TypeOK
<1> QED
  BY <1>1 DEF UnwindReturn, Calls

(* Calls that have not begun stay fresh. *)
LEMMA FreshStep == TypeInv /\ Fresh /\ [Next]_vars => Fresh'
<1> SUFFICES ASSUME TypeInv, Fresh, [Next]_vars PROVE Fresh'
  OBVIOUS
<1>1. ASSUME UNCHANGED <<unwind, log>> PROVE Fresh'
  BY <1>1 DEF Fresh
<1>2. ASSUME NEW c \in Closers, NEW s \in Stacks, UnwindStart(c, s) PROVE Fresh'
  BY <1>2, StartEffect DEF Fresh
<1>3. ASSUME NEW c \in Closers, UnwindNext(c) PROVE Fresh'
  BY <1>3, NextEffect DEF Fresh
<1>4. ASSUME NEW c \in Closers, UnwindReturn(c) PROVE Fresh'
  BY <1>4, ReturnEffect DEF Fresh
<1> QED
  BY <1>1, <1>2, <1>3, <1>4, StepKinds

-----------------------------------------------------------------------------
(* The positions of the errors that count after an outcome at position n+1. *)
LEMMA LiveStep ==
  ASSUME TypeInv, NEW c \in Closers, NEW i \in Items, NEW o \in Outcomes,
         log'[c] = Append(log[c], [item |-> i, outcome |-> o]), unwind'[c].err = unwind[c].err
  PROVE  LET n == Len(log[c]) + 1
         IN /\ n \in Nat /\ log'[c][n].item = i
            /\ Len(log'[c]) = n
            /\ \A x \in 1 .. n - 1 : log'[c][x] = log[c][x]
            /\ o = "suppress" => Live(c)' = {}
            /\ o = "ok" => Live(c)' = Live(c)
            /\ o = "error" => Live(c)' = Live(c) \cup {n}
            /\ \A x \in Live(c) : x \in Nat /\ x < n
<1> DEFINE n == Len(log[c]) + 1
<1> DEFINE r == [item |-> i, outcome |-> o]
<1>1. log[c] \in Seq(Records) /\ r \in Records
  BY DEF TypeInv, TypeOK, Records
<1>2. r.item = i /\ r.outcome = o
  OBVIOUS
<1>3. log'[c] = Append(log[c], r)
  OBVIOUS
<1> HIDE DEF r
<1>4. /\ n \in Nat /\ n >= 1 /\ Len(log[c]) = n - 1 /\ Len(log'[c]) = n /\ log'[c][n] = r
      /\ DOMAIN log[c] = 1 .. n - 1 /\ DOMAIN log'[c] = 1 .. n
      /\ \A x \in 1 .. n - 1 : log'[c][x] = log[c][x]
  BY <1>1, <1>3
<1>5. Live(c)' = {x \in 0 .. n :
        /\ IF x = 0 THEN unwind[c].err = Orig ELSE log'[c][x].outcome = "error"
        /\ \A y \in 1 .. n : y > x => log'[c][y].outcome # "suppress"}
  BY <1>4 DEF Live
<1>6. Live(c) = {x \in 0 .. n - 1 :
        /\ IF x = 0 THEN unwind[c].err = Orig ELSE log[c][x].outcome = "error"
        /\ \A y \in 1 .. n - 1 : y > x => log[c][y].outcome # "suppress"}
  BY <1>4 DEF Live
<1> HIDE DEF n
<1>7. ASSUME o = "suppress" PROVE Live(c)' = {}
  BY <1>2, <1>4, <1>5, <1>7
<1>8. ASSUME o # "suppress", NEW x \in 0 .. n - 1 PROVE x \in Live(c)' <=> x \in Live(c)
  <2>1. x \in Nat /\ x <= n - 1 /\ x \in 0 .. n
    BY <1>4
  <2>2. (\A y \in 1 .. n : y > x => log'[c][y].outcome # "suppress")
          <=> (\A y \in 1 .. n - 1 : y > x => log[c][y].outcome # "suppress")
    <3>1. \A y \in 1 .. n : y = n \/ y \in 1 .. n - 1
      BY <1>4
    <3>2. \A y \in 1 .. n - 1 : y \in 1 .. n
      BY <1>4
    <3> QED
      BY <1>2, <1>4, <1>8, <3>1, <3>2
  <2>3. x # 0 => log'[c][x] = log[c][x]
    BY <1>4, <2>1
  <2> QED
    BY <1>5, <1>6, <2>1, <2>2, <2>3
<1>9. ASSUME o = "ok" PROVE n \notin Live(c)'
  BY <1>2, <1>4, <1>5, <1>9
<1>10. ASSUME o = "error" PROVE n \in Live(c)'
  BY <1>2, <1>4, <1>5, <1>10
<1>11. Live(c)' \subseteq 0 .. n /\ Live(c) \subseteq 0 .. n - 1
  BY <1>5, <1>6
<1>12. \A x \in 0 .. n : x = n \/ x \in 0 .. n - 1
  BY <1>4
<1>13. \A x \in 0 .. n - 1 : x # n /\ x \in Nat /\ x < n
  BY <1>4
<1>14. ASSUME o = "ok" PROVE Live(c)' = Live(c)
  <2>1. o # "suppress"
    BY <1>14
  <2> QED
    BY <1>8, <1>9, <1>11, <1>12, <1>13, <1>14, <2>1
<1>15. ASSUME o = "error" PROVE Live(c)' = Live(c) \cup {n}
  <2>1. o # "suppress"
    BY <1>15
  <2> QED
    BY <1>8, <1>10, <1>11, <1>12, <1>13, <1>15, <2>1
<1> QED
  BY <1>2, <1>4, <1>7, <1>11, <1>13, <1>14, <1>15 DEF n

(* ErrorsAccounted says this of each closer. *)
Accounted(c) ==
  IF Live(c) = {} THEN unwind[c].pending = Nil
  ELSE \E x \in Live(c) :
         /\ unwind[c].pending = IF x = 0 THEN Orig ELSE log[c][x].item
         /\ \A y \in Live(c) : y > x => log[c][y].item \in Plain

(* A closer whose error, pending error and exits stay the same keeps its account. *)
LEMMA AccountedSame ==
  ASSUME NEW c \in Closers, Accounted(c), log'[c] = log[c], unwind'[c].err = unwind[c].err,
         unwind'[c].pending = unwind[c].pending
  PROVE  Accounted(c)'
<1>1. Live(c)' = Live(c)
  BY DEF Live
<1> QED
  BY <1>1 DEF Accounted

(* An exit that runs keeps the account. *)
LEMMA AccountedNext ==
  ASSUME TypeInv, NEW c \in Closers, Accounted(c), UnwindNext(c)
  PROVE  Accounted(c)'
<1> DEFINE i == Last(unwind[c].list)
<1> DEFINE n == Len(log[c]) + 1
<1>1. PICK o \in Outcomes :
        /\ i \in Items /\ (i \notin ExitFns => o # "suppress")
        /\ unwind'[c].pending = Settle(unwind[c], i, o).pending
        /\ unwind'[c].err = unwind[c].err
        /\ log'[c] = Append(log[c], [item |-> i, outcome |-> o])
  BY NextEffect
<1> HIDE DEF i
<1>2. /\ n \in Nat /\ log'[c][n].item = i /\ Len(log'[c]) = n
      /\ \A x \in 1 .. n - 1 : log'[c][x] = log[c][x]
      /\ o = "suppress" => Live(c)' = {}
      /\ o = "ok" => Live(c)' = Live(c)
      /\ o = "error" => Live(c)' = Live(c) \cup {n}
      /\ \A x \in Live(c) : x \in Nat /\ x < n
  BY <1>1, LiveStep
<1>3. n >= 1 /\ n # 0
  BY DEF TypeInv, TypeOK
<1> HIDE DEF n
<1>4. unwind[c] \in Calls
  BY DEF TypeInv, TypeOK
<1>5. unwind'[c].pending =
        CASE o = "error" /\ (i \in ExitFns \/ unwind[c].pending = Nil) -> i
          [] o = "suppress" /\ unwind[c].pending # Nil -> Nil
          [] OTHER -> unwind[c].pending
  BY <1>1, <1>4 DEF Settle, Calls
<1>6. \A x \in Live(c) : x # 0 => log'[c][x] = log[c][x]
  BY <1>2
<1>7. CASE o = "suppress"
  BY <1>2, <1>5, <1>7 DEF Accounted
<1>8. CASE o = "ok"
  <2>1. unwind'[c].pending = unwind[c].pending /\ Live(c)' = Live(c)
    BY <1>2, <1>5, <1>8
  <2>2. \A x, y \in Live(c) : y > x => y # 0
    BY <1>2
  <2> QED
    BY <1>6, <2>1, <2>2 DEF Accounted
<1>9. CASE o = "error" /\ (i \in ExitFns \/ unwind[c].pending = Nil)
  <2>1. unwind'[c].pending = i /\ Live(c)' = Live(c) \cup {n}
    BY <1>2, <1>5, <1>9
  <2>2. \A y \in Live(c)' : ~(y > n)
    BY <1>2, <2>1
  <2> QED
    BY <1>2, <1>3, <2>1, <2>2 DEF Accounted
<1>10. CASE o = "error" /\ i \notin ExitFns /\ unwind[c].pending # Nil
  <2>1. unwind'[c].pending = unwind[c].pending /\ Live(c)' = Live(c) \cup {n}
    BY <1>2, <1>5, <1>10
  <2>2. i \in Plain
    BY <1>1, <1>10 DEF Items, ExitFns
  <2>3. PICK x \in Live(c) :
          /\ unwind[c].pending = IF x = 0 THEN Orig ELSE log[c][x].item
          /\ \A y \in Live(c) : y > x => log[c][y].item \in Plain
    BY <1>10 DEF Accounted
  <2>4. unwind'[c].pending = IF x = 0 THEN Orig ELSE log'[c][x].item
    BY <1>6, <2>1, <2>3
  <2>5. \A y \in Live(c)' : y > x => log'[c][y].item \in Plain
    <3>1. ASSUME NEW y \in Live(c), y > x PROVE log'[c][y].item \in Plain
      BY <1>2, <1>6, <2>3, <3>1
    <3> QED
      BY <1>2, <2>1, <2>2, <3>1
  <2> QED
    BY <2>1, <2>3, <2>4, <2>5 DEF Accounted
<1> QED
  BY <1>1, <1>7, <1>8, <1>9, <1>10 DEF Outcomes

(* The account of errors with what it rests on. *)
ErrorsInv == TypeInv /\ Fresh /\ \A c \in Closers : Accounted(c)

(* Every step keeps the account of errors. *)
LEMMA ErrorsStep == ErrorsInv /\ [Next]_vars => ErrorsInv'
<1> SUFFICES ASSUME ErrorsInv, [Next]_vars PROVE ErrorsInv'
  OBVIOUS
<1>1. TypeInv /\ Fresh /\ TypeInv' /\ Fresh'
  BY StepType, FreshStep DEF ErrorsInv
<1> SUFFICES ASSUME NEW d \in Closers PROVE Accounted(d)'
  BY <1>1 DEF ErrorsInv
<1>2. Accounted(d)
  BY DEF ErrorsInv
<1>3. ASSUME UNCHANGED <<unwind, log>> PROVE Accounted(d)'
  BY <1>2, <1>3, AccountedSame
<1>4. ASSUME NEW c \in Closers, NEW s \in Stacks, UnwindStart(c, s) PROVE Accounted(d)'
  <2>1. ASSUME d # c PROVE Accounted(d)'
    BY <1>1, <1>2, <1>4, <2>1, StartEffect, AccountedSame
  <2>2. ASSUME d = c, unwind'[d].pc = "returned" PROVE Accounted(d)'
    BY <1>1, <1>2, <1>4, <2>2, StartEffect, AccountedSame
  <2>3. ASSUME d = c, unwind'[d].pc = "unwinding" PROVE Accounted(d)'
    <3>1. log'[d] = <<>> /\ unwind'[d].err \in {Nil, Orig}
          /\ unwind'[d].pending = unwind'[d].err
      BY <1>1, <1>4, <2>3, StartEffect DEF Fresh
    <3>2. Live(d)' = IF unwind'[d].err = Orig THEN {0} ELSE {}
      BY <3>1 DEF Live
    <3> QED
      BY <3>1, <3>2 DEF Accounted, Nil, Orig
  <2> QED
    BY <1>1, <1>4, <2>1, <2>2, <2>3, StartEffect
<1>5. ASSUME NEW c \in Closers, UnwindNext(c) PROVE Accounted(d)'
  <2>1. ASSUME d # c PROVE Accounted(d)'
    BY <1>1, <1>2, <1>5, <2>1, NextEffect, AccountedSame
  <2>2. ASSUME d = c PROVE Accounted(d)'
    BY <1>1, <1>2, <1>5, <2>2, AccountedNext
  <2> QED
    BY <2>1, <2>2
<1>6. ASSUME NEW c \in Closers, UnwindReturn(c) PROVE Accounted(d)'
  <2>1. log'[d] = log[d] /\ unwind'[d].err = unwind[d].err
        /\ unwind'[d].pending = unwind[d].pending
    BY <1>1, <1>6, ReturnEffect
  <2> QED
    BY <1>2, <2>1, AccountedSame
<1> QED
  BY <1>3, <1>4, <1>5, <1>6, StepKinds

(* contextlib.go, unwindStack: for any exits with any outcomes, moved to   *)
(* any stacks and closed by any number of closers, no error is reported    *)
(* exactly when each was suppressed by an exit that ran later, and what is *)
(* reported is the last that no exit function has replaced.                *)
THEOREM ErrorsCorrect == Spec => []ErrorsAccounted
<1>1. Init => ErrorsInv
  <2> SUFFICES ASSUME Init PROVE ErrorsInv
    OBVIOUS
  <2>1. TypeInv
    BY InitType
  <2>2. Fresh /\ \A c \in Closers : Live(c) = {} /\ unwind[c].pending = Nil
    BY DEF Init, Fresh, Live, IdleCall, Nil, Orig
  <2> QED
    BY <2>1, <2>2 DEF ErrorsInv, Accounted
<1>2. Spec => []ErrorsInv
  BY <1>1, ErrorsStep, PTL DEF Spec
<1>3. ErrorsInv => ErrorsAccounted
  BY DEF ErrorsInv, Accounted, ErrorsAccounted
<1> QED
  BY <1>2, <1>3, PTL

-----------------------------------------------------------------------------
(* What Before says of an order in which things were scheduled. *)
Earlier(sch, a, b) == \E x, y \in DOMAIN sch : x < y /\ sch[x] = a /\ sch[y] = b

(* The items of a list were scheduled, and in the order of the list. *)
Sorted(sch, list) ==
  /\ \A x \in DOMAIN list : \E k \in DOMAIN sch : sch[k] = list[x]
  /\ \A x, y \in DOMAIN list : x < y => Earlier(sch, list[x], list[y])

(* What a closer c has to run was scheduled before all it has run. *)
LaterRan(c) ==
  \A x \in DOMAIN unwind[c].list, y \in DOMAIN log[c] :
    Earlier(scheduled, unwind[c].list[x], log[c][y].item)

Reversed(c) ==
  \A x, y \in DOMAIN log[c] : x < y => Earlier(scheduled, log[c][y].item, log[c][x].item)

OrderInv ==
  /\ TypeInv /\ Fresh
  /\ \A s \in Stacks : Sorted(scheduled, callbacks[s])
  /\ \A c \in Closers : Sorted(scheduled, unwind[c].list) /\ LaterRan(c) /\ Reversed(c)

(* What was scheduled stays so when more is. *)
LEMMA EarlierGrows ==
  ASSUME NEW sch \in Seq(Items), NEW i \in Items
  PROVE  /\ \A a, b : Earlier(sch, a, b) => Earlier(Append(sch, i), a, b)
         /\ \A a : (\E k \in DOMAIN sch : sch[k] = a)
              => /\ \E k \in DOMAIN Append(sch, i) : Append(sch, i)[k] = a
                 /\ Earlier(Append(sch, i), a, i)
         /\ \E k \in DOMAIN Append(sch, i) : Append(sch, i)[k] = i
<1> DEFINE more == Append(sch, i)
<1> DEFINE n == Len(sch) + 1
<1>1. /\ n \in Nat /\ n >= 1 /\ DOMAIN sch = 1 .. n - 1 /\ DOMAIN more = 1 .. n
      /\ \A k \in 1 .. n - 1 : more[k] = sch[k]
      /\ more[n] = i
  OBVIOUS
<1> HIDE DEF n, more
<1>2. n \in 1 .. n /\ \A k \in 1 .. n - 1 : k \in 1 .. n /\ k < n
  BY <1>1
<1>3. /\ \A a, b : Earlier(sch, a, b) => Earlier(more, a, b)
      /\ \A a : (\E k \in DOMAIN sch : sch[k] = a)
           => (\E k \in DOMAIN more : more[k] = a) /\ Earlier(more, a, i)
      /\ \E k \in DOMAIN more : more[k] = i
  BY <1>1, <1>2 DEF Earlier
<1> QED
  BY <1>3 DEF more

(* An order stays one when more is scheduled. *)
LEMMA SortedGrows ==
  ASSUME NEW sch \in Seq(Items), NEW i \in Items, NEW list, Sorted(sch, list)
  PROVE  Sorted(Append(sch, i), list)
BY EarlierGrows DEF Sorted

(* It stays one when what is scheduled is also put at the end of the list. *)
LEMMA SortedAppend ==
  ASSUME NEW sch \in Seq(Items), NEW i \in Items, NEW list \in Seq(Items), Sorted(sch, list)
  PROVE  Sorted(Append(sch, i), Append(list, i))
<1> DEFINE long == Append(list, i)
<1> DEFINE more == Append(sch, i)
<1> DEFINE n == Len(list) + 1
<1>1. /\ n \in Nat /\ n >= 1 /\ DOMAIN list = 1 .. n - 1 /\ DOMAIN long = 1 .. n
      /\ \A k \in 1 .. n - 1 : long[k] = list[k]
      /\ long[n] = i
  OBVIOUS
<1>2. Sorted(more, list)
  BY SortedGrows
<1>3. /\ \A x \in DOMAIN list : Earlier(more, list[x], i)
      /\ \E k \in DOMAIN more : more[k] = i
  BY EarlierGrows DEF Sorted
<1> HIDE DEF n, long, more
<1>4. /\ \A x \in 1 .. n : x = n \/ x \in 1 .. n - 1
      /\ \A x, y \in 1 .. n : x < y => x \in 1 .. n - 1
  BY <1>1
<1>5. Sorted(more, long)
  BY <1>1, <1>2, <1>3, <1>4 DEF Sorted
<1> QED
  BY <1>5 DEF long, more

(* Steps that schedule, or take nothing from a closer, keep each closer's order. *)
LEMMA ClosersKeep ==
  ASSUME OrderInv, unwind' = unwind, log' = log,
         \/ scheduled' = scheduled
         \/ \E i \in Items : scheduled' = Append(scheduled, i)
  PROVE  \A c \in Closers : Sorted(scheduled, unwind[c].list)' /\ LaterRan(c)' /\ Reversed(c)'
<1> SUFFICES ASSUME NEW c \in Closers
             PROVE  Sorted(scheduled, unwind[c].list)' /\ LaterRan(c)' /\ Reversed(c)'
  OBVIOUS
<1>1. Sorted(scheduled, unwind[c].list) /\ LaterRan(c) /\ Reversed(c) /\ scheduled \in Seq(Items)
  BY DEF OrderInv, TypeInv, TypeOK
<1>2. ASSUME scheduled' = scheduled
      PROVE  Sorted(scheduled, unwind[c].list)' /\ LaterRan(c)' /\ Reversed(c)'
  BY <1>1, <1>2 DEF Sorted, LaterRan, Reversed
<1>3. ASSUME NEW i \in Items, scheduled' = Append(scheduled, i)
      PROVE  Sorted(scheduled, unwind[c].list)' /\ LaterRan(c)' /\ Reversed(c)'
  <2>1. \A a, b : Earlier(scheduled, a, b) => Earlier(scheduled', a, b)
    BY <1>1, <1>3, EarlierGrows
  <2>2. Sorted(scheduled, unwind[c].list)'
    BY <1>1, <1>3, SortedGrows
  <2>3. LaterRan(c)' /\ Reversed(c)'
    BY <1>1, <2>1 DEF LaterRan, Reversed
  <2> QED
    BY <2>2, <2>3
<1> QED
  BY <1>2, <1>3

(* Scheduling an item on a stack keeps the order. *)
LEMMA ScheduleOrder ==
  ASSUME OrderInv, NEW i \in Items, NEW s \in Stacks, Schedule(s, i), unwind' = unwind, log' = log,
         TypeInv', Fresh'
  PROVE  OrderInv'
<1>1. scheduled \in Seq(Items) /\ scheduled' = Append(scheduled, i)
      /\ callbacks \in [Stacks -> Seq(Items)] /\ callbacks' = [callbacks EXCEPT ![s] = Append(@, i)]
  BY DEF OrderInv, TypeInv, TypeOK, Schedule
<1>2. \A c \in Closers : Sorted(scheduled, unwind[c].list)' /\ LaterRan(c)' /\ Reversed(c)'
  BY <1>1, ClosersKeep
<1>3. ASSUME NEW t \in Stacks PROVE Sorted(scheduled, callbacks[t])'
  <2>0. Sorted(scheduled, callbacks[t])
    BY DEF OrderInv
  <2>1. CASE t # s
    BY <1>1, <2>0, <2>1, SortedGrows
  <2>2. CASE t = s
    BY <1>1, <2>0, <2>2, SortedAppend
  <2> QED
    BY <2>1, <2>2
<1> QED
  BY <1>2, <1>3 DEF OrderInv

(* Nothing is scheduled, and what stacks hold is held by stacks before. *)
LEMMA MoveOrder ==
  ASSUME OrderInv, scheduled' = scheduled, unwind' = unwind, log' = log, TypeInv', Fresh',
         \A t \in Stacks : callbacks'[t] = <<>> \/ \E s \in Stacks : callbacks'[t] = callbacks[s]
  PROVE  OrderInv'
<1>1. \A c \in Closers : Sorted(scheduled, unwind[c].list)' /\ LaterRan(c)' /\ Reversed(c)'
  BY ClosersKeep
<1>2. ASSUME NEW t \in Stacks PROVE Sorted(scheduled, callbacks[t])'
  BY DEF OrderInv, Sorted
<1> QED
  BY <1>1, <1>2 DEF OrderInv

(* A closer that starts takes an ordered list and has run nothing. *)
LEMMA StartOrder ==
  ASSUME OrderInv, NEW c \in Closers, NEW s \in Stacks, UnwindStart(c, s), TypeInv', Fresh'
  PROVE  OrderInv'
<1>0. TypeInv /\ Fresh /\ callbacks \in [Stacks -> Seq(Items)]
  BY DEF OrderInv, TypeInv, TypeOK
<1>1. scheduled' = scheduled /\ log' = log /\ log[c] = <<>>
  BY <1>0, StartEffect DEF UnwindStart, Fresh
<1>2. \A t \in Stacks : callbacks'[t] = <<>> \/ callbacks'[t] = callbacks[t]
  BY <1>0, StartEffect
<1>3. \A t \in Stacks : Sorted(scheduled, callbacks[t])'
  BY <1>1, <1>2 DEF OrderInv, Sorted
<1>4. \A d \in Closers : unwind'[d].list = unwind[d].list \/ (d = c /\ unwind'[d].list = callbacks[s])
  BY <1>0, StartEffect
<1>5. \A d \in Closers : Sorted(scheduled, unwind[d].list)'
  BY <1>1, <1>4 DEF OrderInv, Sorted
<1>6. \A d \in Closers : LaterRan(d)'
  BY <1>1, <1>4 DEF OrderInv, LaterRan
<1>7. \A d \in Closers : Reversed(d)'
  BY <1>1 DEF OrderInv, Reversed
<1> QED
  BY <1>3, <1>5, <1>6, <1>7 DEF OrderInv

(* The last exit of the list is after the rest of it and before all that has run. *)
LEMMA NextOrder ==
  ASSUME OrderInv, NEW c \in Closers, UnwindNext(c), TypeInv', Fresh'
  PROVE  OrderInv'
<1> DEFINE l == unwind[c].list
<1> DEFINE m == Len(unwind[c].list)
<1> DEFINE n == Len(log[c]) + 1
<1>0. TypeInv /\ log[c] \in Seq(Records) /\ l \in Seq(Items)
  BY DEF OrderInv, TypeInv, TypeOK, Calls
<1>1. PICK o \in Outcomes :
        /\ Last(l) \in Items /\ l # <<>> /\ unwind'[c].list = Front(l)
        /\ log'[c] = Append(log[c], [item |-> Last(l), outcome |-> o])
        /\ \A d \in Closers : d # c => unwind'[d] = unwind[d] /\ log'[d] = log[d]
        /\ UNCHANGED <<stack, state, target, scheduled>>
  BY <1>0, NextEffect
<1>2. /\ m \in Nat \ {0} /\ Last(l) = l[m] /\ DOMAIN unwind'[c].list = 1 .. m - 1
      /\ DOMAIN l = 1 .. m
      /\ \A x \in 1 .. m - 1 : unwind'[c].list[x] = l[x]
  BY <1>0, <1>1, FrontType
<1>3. /\ n \in Nat \ {0} /\ DOMAIN log[c] = 1 .. n - 1 /\ DOMAIN log'[c] = 1 .. n
      /\ \A y \in 1 .. n - 1 : log'[c][y] = log[c][y]
      /\ log'[c][n].item = l[m]
  <2> DEFINE r == [item |-> Last(l), outcome |-> o]
  <2>1. r \in Records /\ r.item = l[m]
    BY <1>1, <1>2 DEF Records
  <2> HIDE DEF r, l, m
  <2>2. log'[c] = Append(log[c], r)
    BY <1>1 DEF r
  <2> QED
    BY <1>0, <2>1, <2>2
<1>4. Sorted(scheduled, l) /\ LaterRan(c) /\ Reversed(c) /\ scheduled' = scheduled /\ callbacks' = callbacks
  BY <1>1 DEF OrderInv, stack
<1>5. /\ \A x \in 1 .. m : \E k \in DOMAIN scheduled : scheduled[k] = l[x]
      /\ \A x, y \in 1 .. m : x < y => Earlier(scheduled, l[x], l[y])
      /\ \A x \in 1 .. m, y \in 1 .. n - 1 : Earlier(scheduled, l[x], log[c][y].item)
      /\ \A x, y \in 1 .. n - 1 :
           x < y => Earlier(scheduled, log[c][y].item, log[c][x].item)
  BY <1>2, <1>3, <1>4 DEF Sorted, LaterRan, Reversed
<1> HIDE DEF l, m, n
<1>7. m \in 1 .. m /\ \A x \in 1 .. m - 1 : x \in 1 .. m /\ x < m
  BY <1>2
<1>8. \A y \in 1 .. n : y = n \/ y \in 1 .. n - 1
  BY <1>3
<1>9. Sorted(scheduled, unwind[c].list)'
  BY <1>2, <1>4, <1>5, <1>7 DEF Sorted
<1>10. \A x \in 1 .. m - 1, y \in 1 .. n :
         Earlier(scheduled, unwind'[c].list[x], log'[c][y].item)
  <2> SUFFICES ASSUME NEW x \in 1 .. m - 1, NEW y \in 1 .. n
               PROVE  Earlier(scheduled, unwind'[c].list[x], log'[c][y].item)
    OBVIOUS
  <2>1. unwind'[c].list[x] = l[x] /\ x \in 1 .. m /\ m \in 1 .. m /\ x < m
    BY <1>2, <1>7
  <2>2. CASE y = n
    BY <1>3, <1>5, <2>1, <2>2
  <2>3. CASE y \in 1 .. n - 1
    BY <1>3, <1>5, <2>1, <2>3
  <2> QED
    BY <1>8, <2>2, <2>3
<1>11. \A x, y \in 1 .. n :
         x < y => Earlier(scheduled, log'[c][y].item, log'[c][x].item)
  <2> SUFFICES ASSUME NEW x \in 1 .. n, NEW y \in 1 .. n, x < y
               PROVE  Earlier(scheduled, log'[c][y].item, log'[c][x].item)
    OBVIOUS
  <2>1. x \in 1 .. n - 1
    BY <1>3
  <2>2. CASE y = n
    BY <1>3, <1>5, <1>7, <2>1, <2>2
  <2>3. CASE y \in 1 .. n - 1
    BY <1>3, <1>5, <2>1, <2>3
  <2> QED
    BY <1>8, <2>2, <2>3
<1>14. LaterRan(c)' /\ Reversed(c)'
  BY <1>2, <1>3, <1>4, <1>10, <1>11 DEF LaterRan, Reversed
<1>12. \A d \in Closers : d # c => Sorted(scheduled, unwind[d].list)' /\ LaterRan(d)' /\ Reversed(d)'
  BY <1>1, <1>4 DEF OrderInv, Sorted, LaterRan, Reversed
<1>13. \A t \in Stacks : Sorted(scheduled, callbacks[t])'
  BY <1>4 DEF OrderInv, Sorted
<1> QED
  BY <1>9, <1>12, <1>13, <1>14 DEF OrderInv

(* Every step keeps the order of registration. *)
LEMMA OrderStep == OrderInv /\ [Next]_vars => OrderInv'
<1> SUFFICES ASSUME OrderInv, [Next]_vars PROVE OrderInv'
  OBVIOUS
<1>0. TypeInv /\ TypeInv' /\ Fresh'
  BY StepType, FreshStep DEF OrderInv
<1>a. callbacks \in [Stacks -> Seq(Items)] /\ target \in [Items -> Stacks]
      /\ Managers \subseteq Items /\ Exits \subseteq Items /\ Plain \subseteq Items
  BY <1>0 DEF TypeInv, TypeOK, Items
<1>1. ASSUME UNCHANGED <<callbacks, scheduled, unwind, log>> PROVE OrderInv'
  BY <1>0, <1>1, MoveOrder
<1>2. ASSUME NEW s \in Stacks, PopAll(s) PROVE OrderInv'
  BY <1>0, <1>2, <1>a, MoveOrder DEF PopAll
<1>3. ASSUME NEW m \in Managers, EnterSchedule(m) PROVE OrderInv'
  BY <1>0, <1>3, <1>a, ScheduleOrder DEF EnterSchedule
<1>4. ASSUME NEW i \in Exits \cup Plain, NEW s \in Stacks, Push(i, s) PROVE OrderInv'
  BY <1>0, <1>1, <1>4, <1>a, ScheduleOrder DEF Push
<1>5. ASSUME NEW c \in Closers, NEW s \in Stacks, UnwindStart(c, s) PROVE OrderInv'
  BY <1>0, <1>5, StartOrder
<1>6. ASSUME NEW c \in Closers, UnwindNext(c) PROVE OrderInv'
  BY <1>0, <1>6, NextOrder
<1>7. ASSUME NEW c \in Closers, UnwindReturn(c) PROVE OrderInv'
  <2>1. \A d \in Closers : unwind'[d].list = unwind[d].list
    BY <1>0, <1>7, ReturnEffect
  <2>2. log' = log /\ scheduled' = scheduled /\ callbacks' = callbacks
    BY <1>0, <1>7, ReturnEffect DEF stack
  <2> QED
    BY <1>0, <2>1, <2>2 DEF OrderInv, Sorted, LaterRan, Reversed
<1>8. ASSUME NEW s \in Stacks, AEnter(s) PROVE OrderInv'
  BY <1>1, <1>8 DEF AEnter
<1>9. ASSUME NEW m \in Managers, (\E s \in Stacks : EnterCheck(m, s)) \/ EnterManager(m) PROVE OrderInv'
  BY <1>1, <1>9 DEF EnterCheck, EnterManager, stack
<1>10. ASSUME UNCHANGED vars PROVE OrderInv'
  BY <1>1, <1>10 DEF vars, stack
<1> QED
  BY <1>2, <1>3, <1>4, <1>5, <1>6, <1>7, <1>8, <1>9, <1>10 DEF Next

(* "unwindStack calls all callbacks in reverse order (LIFO)": for any      *)
(* exits, stacks and closers, what a closer runs is in the reverse of the  *)
(* order of registration, through any moves and races with registrations.  *)
THEOREM OrderCorrect == Spec => []LastInFirstOut
<1>1. Init => OrderInv
  <2> SUFFICES ASSUME Init PROVE OrderInv
    OBVIOUS
  <2>1. TypeInv
    BY InitType
  <2> QED
    BY <2>1 DEF Init, OrderInv, Fresh, Sorted, LaterRan, Reversed, IdleCall
<1>2. Spec => []OrderInv
  BY <1>1, OrderStep, PTL DEF Spec
<1>3. OrderInv => LastInFirstOut
  BY DEF OrderInv, Reversed, LastInFirstOut, Before, Earlier
<1> QED
  BY <1>2, <1>3, PTL

-----------------------------------------------------------------------------
(* An item is nowhere in a family of sequences, or at one place of it. *)
Nowhere(f, i) == \A k \in DOMAIN f : \A x \in DOMAIN f[k] : f[k][x] # i
Once(f, i) ==
  \E k \in DOMAIN f : \E x \in DOMAIN f[k] :
    /\ f[k][x] = i
    /\ \A h \in DOMAIN f : \A y \in DOMAIN f[h] : f[h][y] = i => h = k /\ y = x

(* What that says of the number of its places. *)
LEMMA NowhereCount ==
  ASSUME NEW f, NEW i, Nowhere(f, i)
  PROVE  Cardinality(At(f, i)) = 0
<1>1. At(f, i) = {}
  BY DEF At, Nowhere
<1> QED
  BY <1>1, FS_EmptySet

(* And of an item that is at one place. *)
LEMMA OnceCount ==
  ASSUME NEW f, NEW i, Once(f, i)
  PROVE  Cardinality(At(f, i)) = 1
<1>1. PICK k \in DOMAIN f : \E x \in DOMAIN f[k] :
        /\ f[k][x] = i
        /\ \A h \in DOMAIN f : \A y \in DOMAIN f[h] : f[h][y] = i => h = k /\ y = x
  BY DEF Once
<1>2. PICK x \in DOMAIN f[k] :
        /\ f[k][x] = i
        /\ \A h \in DOMAIN f : \A y \in DOMAIN f[h] : f[h][y] = i => h = k /\ y = x
  BY <1>1
<1>3. At(f, i) = {<<k, x>>}
  BY <1>2 DEF At
<1> QED
  BY <1>3, FS_Singleton

(* An item put at the end of one sequence is there once; the others stay. *)
LEMMA PutOne ==
  ASSUME NEW f, f \in [DOMAIN f -> Seq(Items)], NEW k \in DOMAIN f, NEW i \in Items,
         NEW g, DOMAIN g = DOMAIN f, g[k] = Append(f[k], i), \A h \in DOMAIN f : h # k => g[h] = f[h]
  PROVE  /\ Nowhere(f, i) => Once(g, i)
         /\ \A j \in Items : j # i /\ Nowhere(f, j) => Nowhere(g, j)
         /\ \A j \in Items : j # i /\ Once(f, j) => Once(g, j)
<1> DEFINE D == DOMAIN f
<1> DEFINE n == Len(f[k]) + 1
<1>1. /\ n \in Nat \ {0} /\ DOMAIN f[k] = 1 .. n - 1 /\ DOMAIN g[k] = 1 .. n
      /\ g[k][n] = i
      /\ \A x \in 1 .. n - 1 : g[k][x] = f[k][x]
      /\ DOMAIN f = D /\ DOMAIN g = D
      /\ \A h \in D : h # k => g[h] = f[h]
  <2>1. f[k] \in Seq(Items) /\ g[k] = Append(f[k], i)
    OBVIOUS
  <2> QED
    BY <2>1
<1> HIDE DEF n
<1>2. \A x \in 1 .. n : x = n \/ x \in 1 .. n - 1
  BY <1>1
<1>3. n \in 1 .. n /\ \A x \in 1 .. n - 1 : x \in 1 .. n /\ x # n
  BY <1>1
<1>4. ASSUME Nowhere(f, i) PROVE Once(g, i)
  <2>1. \A h \in D : \A y \in DOMAIN g[h] : g[h][y] = i => h = k /\ y = n
    BY <1>1, <1>2, <1>4 DEF Nowhere
  <2> QED
    BY <1>1, <1>3, <2>1 DEF Once
<1>5. ASSUME NEW j \in Items, j # i, Nowhere(f, j) PROVE Nowhere(g, j)
  BY <1>1, <1>2, <1>5 DEF Nowhere
<1>6. ASSUME NEW j \in Items, j # i, Once(f, j) PROVE Once(g, j)
  <2>1. PICK h \in D : \E x \in DOMAIN f[h] : f[h][x] = j
          /\ \A e \in D : \A y \in DOMAIN f[e] : f[e][y] = j => e = h /\ y = x
    BY <1>1, <1>6 DEF Once
  <2>2. PICK x \in DOMAIN f[h] : f[h][x] = j
          /\ \A e \in D : \A y \in DOMAIN f[e] : f[e][y] = j => e = h /\ y = x
    BY <2>1
  <2>3. x \in DOMAIN g[h] /\ g[h][x] = j
    BY <1>1, <1>3, <2>2
  <2>4. \A e \in D : \A y \in DOMAIN g[e] : g[e][y] = j => y \in DOMAIN f[e] /\ f[e][y] = j
    BY <1>1, <1>2, <1>6
  <2>5. \A e \in D : \A y \in DOMAIN g[e] : g[e][y] = j => e = h /\ y = x
    BY <2>2, <2>4
  <2> QED
    BY <1>1, <2>3, <2>5 DEF Once
<1> QED
  BY <1>4, <1>5, <1>6

(* The last item of one sequence is taken away; the others stay. *)
LEMMA TakeLast ==
  ASSUME NEW f, f \in [DOMAIN f -> Seq(Items)], NEW k \in DOMAIN f, f[k] # <<>>,
         NEW g, DOMAIN g = DOMAIN f, g[k] = Front(f[k]), \A h \in DOMAIN f : h # k => g[h] = f[h]
  PROVE  /\ ~Nowhere(f, Last(f[k]))
         /\ Once(f, Last(f[k])) => Nowhere(g, Last(f[k]))
         /\ \A j \in Items : j # Last(f[k]) /\ Nowhere(f, j) => Nowhere(g, j)
         /\ \A j \in Items : j # Last(f[k]) /\ Once(f, j) => Once(g, j)
<1> DEFINE D == DOMAIN f
<1> DEFINE n == Len(f[k])
<1> DEFINE i == Last(f[k])
<1>1. /\ n \in Nat \ {0} /\ DOMAIN f[k] = 1 .. n /\ DOMAIN g[k] = 1 .. n - 1
      /\ f[k][n] = i
      /\ \A x \in 1 .. n - 1 : g[k][x] = f[k][x]
      /\ DOMAIN f = D /\ DOMAIN g = D
      /\ \A h \in D : h # k => g[h] = f[h]
  <2>1. f[k] \in Seq(Items) /\ g[k] = Front(f[k])
    OBVIOUS
  <2>2. /\ Len(f[k]) \in Nat \ {0} /\ Last(f[k]) = f[k][Len(f[k])]
        /\ DOMAIN Front(f[k]) = 1 .. Len(f[k]) - 1
        /\ \A x \in 1 .. Len(f[k]) - 1 : Front(f[k])[x] = f[k][x]
    BY <2>1, FrontType
  <2>3. DOMAIN f[k] = 1 .. Len(f[k])
    BY <2>1
  <2> QED
    BY <2>1, <2>2, <2>3
<1> HIDE DEF n, i
<1>2. \A x \in 1 .. n : x = n \/ x \in 1 .. n - 1
  BY <1>1
<1>3. n \in 1 .. n /\ \A x \in 1 .. n - 1 : x \in 1 .. n /\ x # n
  BY <1>1
<1>4. ~Nowhere(f, i)
  BY <1>1, <1>3 DEF Nowhere
<1>5. ASSUME Once(f, i) PROVE Nowhere(g, i)
  <2>1. \A h \in D : \A y \in DOMAIN f[h] : f[h][y] = i => h = k /\ y = n
    BY <1>1, <1>3, <1>5 DEF Once
  <2> QED
    BY <1>1, <1>3, <2>1 DEF Nowhere
<1>6. ASSUME NEW j \in Items, Nowhere(f, j) PROVE Nowhere(g, j)
  BY <1>1, <1>3, <1>6 DEF Nowhere
<1>7. ASSUME NEW j \in Items, j # i, Once(f, j) PROVE Once(g, j)
  <2>1. PICK h \in D : \E x \in DOMAIN f[h] : f[h][x] = j
          /\ \A e \in D : \A y \in DOMAIN f[e] : f[e][y] = j => e = h /\ y = x
    BY <1>1, <1>7 DEF Once
  <2>2. PICK x \in DOMAIN f[h] : f[h][x] = j
          /\ \A e \in D : \A y \in DOMAIN f[e] : f[e][y] = j => e = h /\ y = x
    BY <2>1
  <2>3. x \in DOMAIN g[h] /\ g[h][x] = j
    BY <1>1, <1>2, <1>7, <2>2
  <2>4. \A e \in D : \A y \in DOMAIN g[e] : g[e][y] = j => e = h /\ y = x
    BY <1>1, <1>3, <2>2, ZenonT(40)
  <2> QED
    BY <1>1, <2>3, <2>4 DEF Once
<1> QED
  BY <1>4, <1>5, <1>6, <1>7 DEF i

(* A sequence goes from place k of one family to the empty place c of another. *)
Moved(f, k, f2, e, c, e2) ==
  /\ k \in DOMAIN f /\ DOMAIN f2 = DOMAIN f /\ f2[k] = <<>>
  /\ \A h \in DOMAIN f : h # k => f2[h] = f[h]
  /\ c \in DOMAIN e /\ DOMAIN e2 = DOMAIN e /\ e[c] = <<>> /\ e2[c] = f[k]
  /\ \A h \in DOMAIN e : h # c => e2[h] = e[h]

(* The counting of one entry that moves between two families of sequences. *)
LEMMA MoveToOther ==
  ASSUME NEW f, NEW k, NEW f2, NEW e, NEW c, NEW e2, NEW j, Moved(f, k, f2, e, c, e2)
  PROVE  /\ Nowhere(f, j) /\ Nowhere(e, j) => Nowhere(f2, j) /\ Nowhere(e2, j)
         /\ Nowhere(f, j) /\ Once(e, j) => Nowhere(f2, j) /\ Once(e2, j)
         /\ Once(f, j) /\ Nowhere(e, j) =>
              \/ Once(f2, j) /\ Nowhere(e2, j)
              \/ Nowhere(f2, j) /\ Once(e2, j)
<1> DEFINE D == DOMAIN f
<1> DEFINE E == DOMAIN e
<1>1. /\ DOMAIN f = D /\ DOMAIN f2 = D /\ DOMAIN e = E /\ DOMAIN e2 = E
      /\ k \in D /\ c \in E /\ f2[k] = <<>> /\ e2[c] = f[k]
      /\ \A h \in D : h # k => f2[h] = f[h]
      /\ \A d \in E : d # c => e2[d] = e[d]
      /\ DOMAIN f2[k] = {} /\ DOMAIN e[c] = {}
  BY DEF Moved
<1>2. ASSUME Nowhere(f, j) PROVE Nowhere(f2, j)
  BY <1>1, <1>2 DEF Nowhere
<1>3. ASSUME Nowhere(f, j), Nowhere(e, j) PROVE Nowhere(e2, j)
  BY <1>1, <1>3 DEF Nowhere
<1>4. ASSUME Nowhere(f, j), Once(e, j) PROVE Once(e2, j)
  <2>1. PICK h \in E : \E x \in DOMAIN e[h] : e[h][x] = j
          /\ \A d \in E : \A y \in DOMAIN e[d] : e[d][y] = j => d = h /\ y = x
    BY <1>1, <1>4 DEF Once
  <2>2. PICK x \in DOMAIN e[h] : e[h][x] = j
          /\ \A d \in E : \A y \in DOMAIN e[d] : e[d][y] = j => d = h /\ y = x
    BY <2>1
  <2>3. h # c /\ e2[h] = e[h]
    BY <1>1, <2>2
  <2>4. \A d \in E : \A y \in DOMAIN e2[d] : e2[d][y] = j => d # c /\ e2[d] = e[d]
    BY <1>1, <1>4 DEF Nowhere
  <2>5. \A d \in E : \A y \in DOMAIN e2[d] : e2[d][y] = j => d = h /\ y = x
    BY <2>2, <2>4
  <2> QED
    BY <1>1, <2>2, <2>3, <2>5 DEF Once
<1>5. ASSUME Once(f, j), Nowhere(e, j)
      PROVE  \/ Once(f2, j) /\ Nowhere(e2, j)
             \/ Nowhere(f2, j) /\ Once(e2, j)
  <2>1. PICK h \in D : \E x \in DOMAIN f[h] : f[h][x] = j
          /\ \A d \in D : \A y \in DOMAIN f[d] : f[d][y] = j => d = h /\ y = x
    BY <1>1, <1>5 DEF Once
  <2>2. PICK x \in DOMAIN f[h] : f[h][x] = j
          /\ \A d \in D : \A y \in DOMAIN f[d] : f[d][y] = j => d = h /\ y = x
    BY <2>1
  <2>3. ASSUME h = k PROVE Nowhere(f2, j) /\ Once(e2, j)
    <3>1. Nowhere(f2, j)
      BY <1>1, <2>2, <2>3 DEF Nowhere
    <3>2. \A d \in E : \A y \in DOMAIN e2[d] : e2[d][y] = j => d = c /\ y = x
      BY <1>1, <1>5, <2>2, <2>3 DEF Nowhere
    <3> QED
      BY <1>1, <2>2, <2>3, <3>1, <3>2 DEF Once
  <2>4. ASSUME h # k PROVE Once(f2, j) /\ Nowhere(e2, j)
    <3>3. \A y \in DOMAIN f[k] : f[k][y] # j
      BY <1>1, <2>2, <2>4
    <3>4. \A d \in E : \A y \in DOMAIN e[d] : e[d][y] # j
      BY <1>5 DEF Nowhere
    <3>5. \A d \in E : \A y \in DOMAIN e2[d] : e2[d][y] # j
      BY <1>1, <3>3, <3>4
    <3>1. Nowhere(e2, j)
      BY <1>1, <3>5 DEF Nowhere
    <3>2. \A d \in D : \A y \in DOMAIN f2[d] : f2[d][y] = j => d = h /\ y = x
      BY <1>1, <2>2
    <3> QED
      BY <1>1, <2>2, <2>4, <3>1, <3>2 DEF Once
  <2> QED
    BY <2>3, <2>4
<1> QED
  BY <1>2, <1>3, <1>4, <1>5

(* A sequence goes to an empty place of the same family. *)
LEMMA MoveWithin ==
  ASSUME NEW f, f \in [DOMAIN f -> Seq(Items)], NEW k \in DOMAIN f, NEW t \in DOMAIN f,
         t # k, f[t] = <<>>,
         NEW j, NEW g, DOMAIN g = DOMAIN f, g[t] = f[k], g[k] = <<>>,
         \A h \in DOMAIN f : h # k /\ h # t => g[h] = f[h]
  PROVE  /\ Nowhere(f, j) => Nowhere(g, j)
         /\ Once(f, j) => Once(g, j)
<1> DEFINE D == DOMAIN f
<1>1. /\ DOMAIN f = D /\ DOMAIN g = D /\ g[k] = <<>> /\ g[t] = f[k]
      /\ \A h \in D : h # k /\ h # t => g[h] = f[h]
      /\ DOMAIN g[k] = {} /\ DOMAIN f[t] = {}
  OBVIOUS
<1>2. ASSUME Nowhere(f, j) PROVE Nowhere(g, j)
  BY <1>1, <1>2 DEF Nowhere
<1>3. ASSUME Once(f, j) PROVE Once(g, j)
  <2>1. PICK h \in D : \E x \in DOMAIN f[h] : f[h][x] = j
          /\ \A d \in D : \A y \in DOMAIN f[d] : f[d][y] = j => d = h /\ y = x
    BY <1>1, <1>3 DEF Once
  <2>2. PICK x \in DOMAIN f[h] : f[h][x] = j
          /\ \A d \in D : \A y \in DOMAIN f[d] : f[d][y] = j => d = h /\ y = x
    BY <2>1
  <2>3. h # t
    BY <1>1, <2>2
  <2>4. ASSUME h = k PROVE Once(g, j)
    <3>1. \A d \in D : \A y \in DOMAIN g[d] : g[d][y] = j => d = t /\ y = x
      BY <1>1, <2>2, <2>4
    <3> QED
      BY <1>1, <2>2, <2>4, <3>1 DEF Once
  <2>5. ASSUME h # k PROVE Once(g, j)
    <3>1. \A d \in D : \A y \in DOMAIN g[d] : g[d][y] = j => d = h /\ y = x
      BY <1>1, <2>2, <2>5
    <3> QED
      BY <1>1, <2>2, <2>3, <2>5, <3>1 DEF Once
  <2> QED
    BY <2>4, <2>5
<1> QED
  BY <1>2, <1>3

-----------------------------------------------------------------------------
(* What closers have to run and what they have run, by closer. *)
ToRun == [c \in Closers |-> unwind[c].list]
HasRun == [c \in Closers |-> [x \in DOMAIN log[c] |-> log[c][x].item]]

(* An item is nowhere, or registered and at one place of one family. *)
Placed(i) ==
  IF state[i] = "scheduled"
  THEN \/ Once(callbacks, i) /\ Nowhere(ToRun, i) /\ Nowhere(HasRun, i)
       \/ Nowhere(callbacks, i) /\ Once(ToRun, i) /\ Nowhere(HasRun, i)
       \/ Nowhere(callbacks, i) /\ Nowhere(ToRun, i) /\ Once(HasRun, i)
  ELSE Nowhere(callbacks, i) /\ Nowhere(ToRun, i) /\ Nowhere(HasRun, i)

PlacedInv == TypeInv /\ Fresh /\ \A i \in Items : Placed(i)

(* The families are families of sequences of items. *)
LEMMA FamilyType ==
  ASSUME TypeInv
  PROVE  /\ callbacks \in [Stacks -> Seq(Items)] /\ ToRun \in [Closers -> Seq(Items)]
         /\ HasRun \in [Closers -> Seq(Items)]
<1>1. \A c \in Closers : unwind[c].list \in Seq(Items) /\ log[c] \in Seq(Records)
  BY DEF TypeInv, TypeOK, Calls
<1>2. ASSUME NEW c \in Closers PROVE [x \in DOMAIN log[c] |-> log[c][x].item] \in Seq(Items)
  <2>1. Len(log[c]) \in Nat /\ DOMAIN log[c] = 1 .. Len(log[c])
        /\ log[c] \in [1 .. Len(log[c]) -> Records]
    BY <1>1
  <2>2. \A x \in 1 .. Len(log[c]) : log[c][x].item \in Items
    BY <2>1 DEF Records
  <2> QED
    BY <2>1, <2>2
<1> QED
  BY <1>1, <1>2 DEF TypeInv, TypeOK, ToRun, HasRun

(* Families that stay the same keep every place. *)
LEMMA PlacedSame ==
  ASSUME PlacedInv, UNCHANGED <<callbacks, unwind, log>>, NEW i \in Items,
         state'[i] = "scheduled" <=> state[i] = "scheduled"
  PROVE  Placed(i)'
<1>1. Placed(i) /\ ToRun' = ToRun /\ HasRun' = HasRun /\ callbacks' = callbacks
  BY DEF PlacedInv, ToRun, HasRun
<1> QED
  BY <1>1 DEF Placed

(* An item that was not registered is registered on one stack. *)
LEMMA PlacedSchedule ==
  ASSUME PlacedInv, NEW i \in Items, NEW s \in Stacks, Schedule(s, i), state[i] # "scheduled",
         unwind' = unwind, log' = log, NEW j \in Items
  PROVE  Placed(j)'
<1>1. ToRun' = ToRun /\ HasRun' = HasRun /\ callbacks \in [Stacks -> Seq(Items)]
  BY FamilyType DEF PlacedInv, ToRun, HasRun
<1>2. callbacks' = [callbacks EXCEPT ![s] = Append(@, i)]
      /\ state'[i] = "scheduled" /\ (j # i => state'[j] = state[j])
  BY DEF Schedule, Become, PlacedInv, TypeInv, TypeOK
<1>3. Placed(i) /\ Placed(j)
  BY DEF PlacedInv
<1>4. /\ Nowhere(callbacks, i) => Once(callbacks', i)
      /\ j # i /\ Nowhere(callbacks, j) => Nowhere(callbacks', j)
      /\ j # i /\ Once(callbacks, j) => Once(callbacks', j)
  <2>1. callbacks \in [DOMAIN callbacks -> Seq(Items)] /\ s \in DOMAIN callbacks
        /\ DOMAIN callbacks' = DOMAIN callbacks /\ callbacks'[s] = Append(callbacks[s], i)
        /\ \A h \in DOMAIN callbacks : h # s => callbacks'[h] = callbacks[h]
    BY <1>1, <1>2
  <2> QED
    BY <2>1, PutOne
<1> QED
  BY <1>1, <1>2, <1>3, <1>4 DEF Placed

(* PopAll moves the places of one stack to a stack that was not made. *)
LEMMA PlacedPopAll ==
  ASSUME PlacedInv, NEW s \in Stacks, PopAll(s), NEW j \in Items
  PROVE  Placed(j)'
<1>1. ToRun' = ToRun /\ HasRun' = HasRun /\ callbacks \in [Stacks -> Seq(Items)] /\ state' = state
  BY FamilyType DEF PlacedInv, ToRun, HasRun, PopAll
<1>2. made \in Nat /\ made >= 1 /\ made < MaxStacks /\ s <= made /\ s \in Nat
  <2>1. made \in Stacks /\ s \in Stacks /\ made < MaxStacks /\ s <= made
    BY DEF PlacedInv, TypeInv, TypeOK, PopAll
  <2> QED
    BY <2>1, MaxStacksAssumption DEF Stacks
<1>3. made + 1 \in Stacks /\ made + 1 # s /\ made + 1 > made
  BY <1>2, MaxStacksAssumption DEF Stacks
<1>4. callbacks[made + 1] = <<>>
  BY <1>3 DEF PlacedInv, TypeInv, TypeOK
<1>5. callbacks' = [callbacks EXCEPT ![made + 1] = callbacks[s], ![s] = <<>>]
  BY DEF PopAll
<1>6. /\ Nowhere(callbacks, j) => Nowhere(callbacks', j)
      /\ Once(callbacks, j) => Once(callbacks', j)
  <2>1. callbacks \in [DOMAIN callbacks -> Seq(Items)]
        /\ s \in DOMAIN callbacks /\ made + 1 \in DOMAIN callbacks
        /\ DOMAIN callbacks' = DOMAIN callbacks
        /\ callbacks'[made + 1] = callbacks[s] /\ callbacks'[s] = <<>>
        /\ \A h \in DOMAIN callbacks : h # s /\ h # made + 1 => callbacks'[h] = callbacks[h]
    BY <1>1, <1>3, <1>5
  <2> QED
    BY <1>3, <1>4, <2>1, MoveWithin
<1>7. Placed(j)
  BY DEF PlacedInv
<1> QED
  BY <1>1, <1>6, <1>7 DEF Placed

(* A closer takes what a stack holds, unless it is closed. *)
LEMMA PlacedStart ==
  ASSUME PlacedInv, NEW c \in Closers, NEW s \in Stacks, UnwindStart(c, s), NEW j \in Items
  PROVE  Placed(j)'
<1>0. TypeInv /\ Placed(j) /\ Fresh
  BY DEF PlacedInv
<1>1. HasRun' = HasRun /\ state' = state /\ callbacks \in [Stacks -> Seq(Items)]
      /\ ToRun \in [Closers -> Seq(Items)]
  BY <1>0, FamilyType DEF HasRun, UnwindStart
<1>2. ToRun[c] = <<>>
  BY <1>0, StartEffect DEF Fresh, ToRun
<1>3. ASSUME unwind'[c].pc = "returned" PROVE Placed(j)'
  <2>1. ToRun' = ToRun /\ callbacks' = callbacks
    BY <1>0, <1>3, StartEffect DEF ToRun
  <2> QED
    BY <1>0, <1>1, <2>1 DEF Placed
<1>4. ASSUME unwind'[c].pc = "unwinding" PROVE Placed(j)'
  <2>1. \A d \in Closers : unwind'[d].list = IF d = c THEN callbacks[s] ELSE unwind[d].list
    BY <1>0, <1>4, StartEffect
  <2>2. ToRun' = [ToRun EXCEPT ![c] = callbacks[s]]
    BY <2>1 DEF ToRun
  <2>3. callbacks' = [callbacks EXCEPT ![s] = <<>>]
    BY <1>0, <1>4, StartEffect
  <2>4. /\ Nowhere(callbacks, j) /\ Nowhere(ToRun, j) => Nowhere(callbacks', j) /\ Nowhere(ToRun', j)
        /\ Nowhere(callbacks, j) /\ Once(ToRun, j) => Nowhere(callbacks', j) /\ Once(ToRun', j)
        /\ Once(callbacks, j) /\ Nowhere(ToRun, j) =>
              \/ Once(callbacks', j) /\ Nowhere(ToRun', j)
              \/ Nowhere(callbacks', j) /\ Once(ToRun', j)
    <3>1. Moved(callbacks, s, callbacks', ToRun, c, ToRun')
      BY <1>1, <1>2, <2>2, <2>3 DEF Moved
    <3> QED
      BY <3>1, MoveToOther
  <2> QED
    BY <1>0, <1>1, <2>4 DEF Placed
<1> QED
  BY <1>0, <1>3, <1>4, StartEffect

(* An exit that runs goes from what is to run to what has run. *)
LEMMA PlacedNext ==
  ASSUME PlacedInv, NEW c \in Closers, UnwindNext(c), NEW j \in Items
  PROVE  Placed(j)'
<1> DEFINE i == Last(unwind[c].list)
<1>0. TypeInv /\ Placed(j)
  BY DEF PlacedInv
<1>1. PICK o \in Outcomes :
        /\ i \in Items /\ unwind[c].list # <<>> /\ unwind'[c].list = Front(unwind[c].list)
        /\ log'[c] = Append(log[c], [item |-> i, outcome |-> o])
        /\ \A d \in Closers : d # c => unwind'[d] = unwind[d] /\ log'[d] = log[d]
        /\ UNCHANGED <<stack, state, target, scheduled>>
  BY <1>0, NextEffect
<1>2. callbacks' = callbacks /\ state' = state
  BY <1>1 DEF stack
<1>3. ToRun \in [Closers -> Seq(Items)] /\ HasRun \in [Closers -> Seq(Items)]
  BY <1>0, FamilyType
<1>4. ToRun' = [ToRun EXCEPT ![c] = Front(@)] /\ ToRun[c] # <<>> /\ i = Last(ToRun[c])
  BY <1>1 DEF ToRun
<1>5. HasRun' = [HasRun EXCEPT ![c] = Append(@, i)]
  <2> DEFINE n == Len(log[c]) + 1
  <2>1. log[c] \in Seq(Records) /\ [item |-> i, outcome |-> o] \in Records
    BY <1>0, <1>1 DEF TypeInv, TypeOK, Records
  <2>2. /\ n \in Nat \ {0} /\ DOMAIN log[c] = 1 .. n - 1 /\ DOMAIN log'[c] = 1 .. n
        /\ log'[c][n] = [item |-> i, outcome |-> o]
        /\ \A x \in 1 .. n - 1 : log'[c][x] = log[c][x]
    BY <1>1, <2>1
  <2> HIDE DEF i, n
  <2>3. HasRun[c] \in Seq(Items) /\ HasRun[c] = [x \in 1 .. n - 1 |-> log[c][x].item]
    BY <1>3, <2>2 DEF HasRun
  <2>4. Len(HasRun[c]) = n - 1
    BY <2>2, <2>3
  <2>5. Append(HasRun[c], i) = [x \in 1 .. n |-> IF x = n THEN i ELSE HasRun[c][x]]
    BY <1>1, <2>2, <2>3, <2>4
  <2>6. [x \in DOMAIN log'[c] |-> log'[c][x].item] = Append(HasRun[c], i)
    <3>1. \A x \in 1 .. n : x = n \/ x \in 1 .. n - 1
      BY <2>2
    <3>2. \A x \in 1 .. n : log'[c][x].item = IF x = n THEN i ELSE HasRun[c][x]
      BY <2>2, <2>3, <3>1
    <3> QED
      BY <2>2, <2>5, <3>2
  <2>7. \A d \in Closers : HasRun'[d] = IF d = c THEN Append(HasRun[c], i) ELSE HasRun[d]
    BY <1>1, <2>6 DEF HasRun
  <2>8. HasRun' = [d \in Closers |-> HasRun'[d]]
    BY DEF HasRun
  <2> QED
    BY <1>3, <2>7, <2>8
<1> HIDE DEF i
<1>6. /\ ~Nowhere(ToRun, i)
      /\ Once(ToRun, i) => Nowhere(ToRun', i)
      /\ j # i /\ Nowhere(ToRun, j) => Nowhere(ToRun', j)
      /\ j # i /\ Once(ToRun, j) => Once(ToRun', j)
  <2>1. ToRun \in [DOMAIN ToRun -> Seq(Items)] /\ c \in DOMAIN ToRun
        /\ DOMAIN ToRun' = DOMAIN ToRun /\ ToRun'[c] = Front(ToRun[c])
        /\ \A h \in DOMAIN ToRun : h # c => ToRun'[h] = ToRun[h]
    BY <1>3, <1>4
  <2> QED
    BY <1>4, <2>1, TakeLast, ZenonT(40)
<1>7. /\ Nowhere(HasRun, i) => Once(HasRun', i)
      /\ j # i /\ Nowhere(HasRun, j) => Nowhere(HasRun', j)
      /\ j # i /\ Once(HasRun, j) => Once(HasRun', j)
  <2>1. HasRun \in [DOMAIN HasRun -> Seq(Items)] /\ c \in DOMAIN HasRun
        /\ DOMAIN HasRun' = DOMAIN HasRun /\ HasRun'[c] = Append(HasRun[c], i)
        /\ \A h \in DOMAIN HasRun : h # c => HasRun'[h] = HasRun[h]
    BY <1>3, <1>5
  <2> QED
    BY <1>1, <2>1, PutOne
<1>8. Placed(i)
  BY <1>1 DEF PlacedInv
<1>9. CASE j = i
  <2>1. state[i] = "scheduled" /\ Nowhere(callbacks, i) /\ Once(ToRun, i) /\ Nowhere(HasRun, i)
    BY <1>6, <1>8 DEF Placed
  <2> QED
    BY <1>2, <1>6, <1>7, <1>9, <2>1 DEF Placed
<1>10. CASE j # i
  BY <1>0, <1>2, <1>6, <1>7, <1>10 DEF Placed
<1> QED
  BY <1>9, <1>10

(* Every step keeps every item in its place. *)
LEMMA PlacedStep == PlacedInv /\ [Next]_vars => PlacedInv'
<1> SUFFICES ASSUME PlacedInv, [Next]_vars PROVE PlacedInv'
  OBVIOUS
<1>0. TypeInv /\ TypeInv' /\ Fresh'
  BY StepType, FreshStep DEF PlacedInv
<1> SUFFICES ASSUME NEW j \in Items PROVE Placed(j)'
  BY <1>0 DEF PlacedInv
<1>a. target \in [Items -> Stacks] /\ state \in [Items -> ItemStates]
      /\ Managers \subseteq Items /\ Exits \subseteq Items /\ Plain \subseteq Items
  BY <1>0 DEF TypeInv, TypeOK, Items
<1>1. ASSUME NEW s \in Stacks, AEnter(s) PROVE Placed(j)'
  BY <1>1, PlacedSame DEF AEnter
<1>2. ASSUME NEW s \in Stacks, PopAll(s) PROVE Placed(j)'
  BY <1>2, PlacedPopAll
<1>3. ASSUME NEW m \in Managers, NEW s \in Stacks, EnterCheck(m, s) PROVE Placed(j)'
  <2>1. state'[j] = "scheduled" <=> state[j] = "scheduled"
    BY <1>3, <1>a DEF EnterCheck, Become
  <2> QED
    BY <1>3, <2>1, PlacedSame DEF EnterCheck, stack
<1>4. ASSUME NEW m \in Managers, EnterManager(m) PROVE Placed(j)'
  <2>1. state'[j] = "scheduled" <=> state[j] = "scheduled"
    BY <1>4, <1>a DEF EnterManager, Become
  <2> QED
    BY <1>4, <2>1, PlacedSame DEF EnterManager, stack
<1>5. ASSUME NEW m \in Managers, EnterSchedule(m) PROVE Placed(j)'
  BY <1>5, <1>a, PlacedSchedule DEF EnterSchedule
<1>6. ASSUME NEW i \in Exits \cup Plain, NEW s \in Stacks, Push(i, s) PROVE Placed(j)'
  <2>1. ASSUME closed[s] PROVE Placed(j)'
    <3>1. state'[j] = "scheduled" <=> state[j] = "scheduled"
      BY <1>6, <1>a, <2>1 DEF Push, Become
    <3> QED
      BY <1>6, <2>1, <3>1, PlacedSame DEF Push
  <2>2. ASSUME ~closed[s] PROVE Placed(j)'
    BY <1>6, <1>a, <2>2, PlacedSchedule DEF Push
  <2> QED
    BY <2>1, <2>2
<1>7. ASSUME NEW c \in Closers, NEW s \in Stacks, UnwindStart(c, s) PROVE Placed(j)'
  BY <1>7, PlacedStart
<1>8. ASSUME NEW c \in Closers, UnwindNext(c) PROVE Placed(j)'
  BY <1>8, PlacedNext
<1>9. ASSUME NEW c \in Closers, UnwindReturn(c) PROVE Placed(j)'
  <2>1. \A d \in Closers : unwind'[d].list = unwind[d].list
    BY <1>0, <1>9, ReturnEffect
  <2>2. ToRun' = ToRun /\ HasRun' = HasRun /\ callbacks' = callbacks /\ state' = state
    BY <1>0, <1>9, <2>1, ReturnEffect DEF ToRun, HasRun, stack
  <2> QED
    BY <2>2 DEF Placed, PlacedInv
<1>10. ASSUME UNCHANGED vars PROVE Placed(j)'
  BY <1>10, PlacedSame DEF vars, stack
<1> QED
  BY <1>1, <1>2, <1>3, <1>4, <1>5, <1>6, <1>7, <1>8, <1>9, <1>10 DEF Next

(* contextlib.go: for any exits, stacks and closers, through pushes, moves *)
(* and closes in any order, a registered exit waits on one stack, is in    *)
(* the hands of one closer, or has run once: none is lost or runs twice.   *)
THEOREM ConservationCorrect == Spec => []Conservation
<1>1. Init => PlacedInv
  <2> SUFFICES ASSUME Init PROVE PlacedInv
    OBVIOUS
  <2>1. TypeInv
    BY InitType
  <2> QED
    BY <2>1 DEF Init, PlacedInv, Fresh, Placed, Nowhere, ToRun, HasRun, IdleCall
<1>2. Spec => []PlacedInv
  BY <1>1, PlacedStep, PTL DEF Spec
<1>3. PlacedInv => Conservation
  <2> SUFFICES ASSUME PlacedInv, NEW i \in Items
               PROVE  Cardinality(At(callbacks, i)) + Cardinality(At(ToRun, i))
                        + Cardinality(At(HasRun, i)) = IF state[i] = "scheduled" THEN 1 ELSE 0
    BY DEF Conservation, ToRun, HasRun
  <2>1. Placed(i)
    BY DEF PlacedInv
  <2>2. \A f \in {callbacks, ToRun, HasRun} :
          /\ Nowhere(f, i) => Cardinality(At(f, i)) = 0
          /\ Once(f, i) => Cardinality(At(f, i)) = 1
    BY NowhereCount, OnceCount
  <2> QED
    BY <2>1, <2>2 DEF Placed
<1> QED
  BY <1>2, <1>3, PTL
=============================================================================
