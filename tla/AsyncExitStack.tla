--------------------------- MODULE AsyncExitStack ---------------------------
(***************************************************************************)
(* pkg/py/pyasyncio/contextlib.go: the AsyncExitStack, its context         *)
(* managers, and the goroutines that enter contexts, push exits, move the  *)
(* callbacks to a new stack (PopAll) and unwind it (AExit, AClose).        *)
(*                                                                         *)
(* A registered exit is named by its manager or function: async and sync   *)
(* variants, with or without arguments, do the same to the stack.  Of what *)
(* an exit does, its outcome is kept: it returns nothing, an error, or     *)
(* (an exit function) true, to suppress the error it was given.            *)
(***************************************************************************)
EXTENDS Naturals, SequencesExt

CONSTANTS Managers,   \* context managers to enter
          Exits,      \* exit functions pushed as such
          Plain,      \* plain callbacks
          Closers,    \* goroutines that call AExit or AClose
          MaxStacks   \* bound: stacks made, PopAll's included

ASSUME DisjointAssumption ==
  Managers \cap Exits = {} /\ Managers \cap Plain = {} /\ Exits \cap Plain = {}
ASSUME MaxStacksAssumption == MaxStacks \in Nat \ {0}

Items == Managers \cup Exits \cup Plain
ExitFns == Managers \cup Exits      \* isExitFn
Stacks == 1..MaxStacks
Nil == "nil"
Orig == "orig"                      \* the error AExit is called with
Outcomes == {"ok", "error", "suppress"}
Records == [item : Items, outcome : Outcomes]

VARIABLES
  made,        \* stacks made so far: 1..made
  callbacks, closed, entered,   \* the fields of each stack
  state,       \* of each item: what became of the call that registers it
  target,      \* the stack it is registered with
  scheduled,   \* history: the items, in the order they were appended
  unwind,      \* each closer: its call of unwindStack
  log          \* history: the exits each closer has run, with their outcomes

stack == <<made, callbacks, closed, entered>>
vars == <<stack, state, target, scheduled, unwind, log>>

ItemStates == {"idle", "entering", "entered", "scheduled", "refused"}
Calls == [pc : {"idle", "unwinding", "returned"}, list : Seq(Items),
          err : {Nil, Orig}, pending : Items \cup {Nil, Orig}, suppressed : BOOLEAN]
IdleCall == [pc |-> "idle", list |-> <<>>, err |-> Nil, pending |-> Nil, suppressed |-> FALSE]

Init ==
  /\ made = 1
  /\ callbacks = [s \in Stacks |-> <<>>]
  /\ closed = [s \in Stacks |-> FALSE] /\ entered = [s \in Stacks |-> FALSE]
  /\ state = [i \in Items |-> "idle"] /\ target = [i \in Items |-> 1]
  /\ scheduled = <<>>
  /\ unwind = [c \in Closers |-> IdleCall] /\ log = [c \in Closers |-> <<>>]

Become(i, st) == state' = [state EXCEPT ![i] = st]

Schedule(s, i) ==
  /\ callbacks' = [callbacks EXCEPT ![s] = Append(@, i)]
  /\ scheduled' = Append(scheduled, i)
  /\ Become(i, "scheduled")

-----------------------------------------------------------------------------
\* AEnter succeeds once.  (Nothing else looks at entered.)
AEnter(s) ==
  /\ s <= made /\ ~entered[s]
  /\ entered' = [entered EXCEPT ![s] = TRUE]
  /\ UNCHANGED <<made, callbacks, closed, state, target, scheduled, unwind, log>>

\* EnterAsyncContext and EnterContext: closed is looked at in one critical section,
\* the manager is entered without the lock, its exit appended in another.
EnterCheck(m, s) ==
  /\ state[m] = "idle" /\ s <= made
  /\ target' = [target EXCEPT ![m] = s]
  /\ Become(m, IF closed[s] THEN "refused" ELSE "entering")
  /\ UNCHANGED <<stack, scheduled, unwind, log>>

EnterManager(m) ==
  /\ state[m] = "entering"
  /\ \E st \in {"entered", "refused"} : Become(m, st)
  /\ UNCHANGED <<stack, target, scheduled, unwind, log>>

EnterSchedule(m) ==
  /\ state[m] = "entered"
  /\ Schedule(target[m], m)
  /\ UNCHANGED <<made, closed, entered, target, unwind, log>>

\* Push, PushAsyncExit, Callback, ...: on a closed stack, silently nothing.
Push(i, s) ==
  /\ state[i] = "idle" /\ s <= made
  /\ target' = [target EXCEPT ![i] = s]
  /\ IF closed[s] THEN Become(i, "refused") /\ UNCHANGED <<callbacks, scheduled>>
     ELSE Schedule(s, i)
  /\ UNCHANGED <<made, closed, entered, unwind, log>>

\* Mutation: the old stack keeps its callbacks.
PopAllKeeps(s) ==
  /\ s <= made /\ made < MaxStacks
  /\ made' = made + 1
  /\ callbacks' = [callbacks EXCEPT ![made + 1] = callbacks[s]]
  /\ UNCHANGED <<closed, entered, state, target, scheduled, unwind, log>>

\* PopAll moves the callbacks to a new, open stack.
PopAll(s) ==
  /\ s <= made /\ made < MaxStacks
  /\ made' = made + 1
  /\ callbacks' = [callbacks EXCEPT ![made + 1] = callbacks[s], ![s] = <<>>]
  /\ UNCHANGED <<closed, entered, state, target, scheduled, unwind, log>>

-----------------------------------------------------------------------------
(* unwindStack.  AClose calls it with no error, AExit with any. *)

\* A closed stack: (false, nil) at once.  Otherwise close it and take its callbacks.
UnwindStart(c, s) ==
  /\ unwind[c].pc = "idle" /\ s <= made
  /\ \E err \in {Nil, Orig} :
       unwind' = [unwind EXCEPT ![c] =
         IF closed[s] THEN [@ EXCEPT !.pc = "returned"]
         ELSE [@ EXCEPT !.pc = "unwinding", !.list = callbacks[s], !.err = err, !.pending = err]]
  /\ closed' = [closed EXCEPT ![s] = TRUE]
  /\ callbacks' = IF closed[s] THEN callbacks ELSE [callbacks EXCEPT ![s] = <<>>]
  /\ UNCHANGED <<made, entered, state, target, scheduled, log>>

\* Mutation: the suppressed error stays pending.
SettleKeepsPending(u, i, o) ==
  CASE o = "error" /\ (i \in ExitFns \/ u.pending = Nil) -> [u EXCEPT !.pending = i]
    [] o = "suppress" /\ u.pending # Nil -> [u EXCEPT !.suppressed = TRUE]
    [] OTHER -> u

\* What the loop's body makes of the outcome o of item i: an exit function's error
\* replaces the pending one, a plain callback's only fills an empty place, and true
\* suppresses a pending one.
Settle(u, i, o) ==
  CASE o = "error" /\ (i \in ExitFns \/ u.pending = Nil) -> [u EXCEPT !.pending = i]
    [] o = "suppress" /\ u.pending # Nil -> [u EXCEPT !.pending = Nil, !.suppressed = TRUE]
    [] OTHER -> u

\* Mutation: callbacks run in the order they were registered.
UnwindNextFifo(c) ==
  LET u == unwind[c]
      i == Head(u.list)
  IN /\ u.pc = "unwinding" /\ u.list # <<>>
     /\ \E o \in IF i \in ExitFns THEN Outcomes ELSE Outcomes \ {"suppress"} :
          /\ unwind' = [unwind EXCEPT ![c] = [Settle(u, i, o) EXCEPT !.list = Tail(@)]]
          /\ log' = [log EXCEPT ![c] = Append(@, [item |-> i, outcome |-> o])]
     /\ UNCHANGED <<stack, state, target, scheduled>>

\* The last callback runs.
UnwindNext(c) ==
  LET u == unwind[c]
      i == Last(u.list)
  IN /\ u.pc = "unwinding" /\ u.list # <<>>
     /\ \E o \in IF i \in ExitFns THEN Outcomes ELSE Outcomes \ {"suppress"} :
          /\ unwind' = [unwind EXCEPT ![c] = [Settle(u, i, o) EXCEPT !.list = Front(@)]]
          /\ log' = [log EXCEPT ![c] = Append(@, [item |-> i, outcome |-> o])]
     /\ UNCHANGED <<stack, state, target, scheduled>>

\* Mutation: the loop stops before callback 0.
UnwindReturnOffByOne(c) ==
  /\ unwind[c].pc = "unwinding" /\ Len(unwind[c].list) <= 1
  /\ unwind' = [unwind EXCEPT ![c].pc = "returned"]
  /\ UNCHANGED <<stack, state, target, scheduled, log>>

UnwindReturn(c) ==
  /\ unwind[c].pc = "unwinding" /\ unwind[c].list = <<>>
  /\ unwind' = [unwind EXCEPT ![c].pc = "returned"]
  /\ UNCHANGED <<stack, state, target, scheduled, log>>

-----------------------------------------------------------------------------
Next ==
  \/ \E s \in Stacks : AEnter(s) \/ PopAll(s)
  \/ \E m \in Managers : (\E s \in Stacks : EnterCheck(m, s)) \/ EnterManager(m) \/ EnterSchedule(m)
  \/ \E i \in Exits \cup Plain, s \in Stacks : Push(i, s)
  \/ \E c \in Closers : (\E s \in Stacks : UnwindStart(c, s)) \/ UnwindNext(c) \/ UnwindReturn(c)

Spec == Init /\ [][Next]_vars

-----------------------------------------------------------------------------
\* The type invariant; stacks not yet made are empty, and only a call that is
\* unwinding still holds callbacks to run.
TypeOK ==
  /\ made \in Stacks
  /\ callbacks \in [Stacks -> Seq(Items)]
  /\ closed \in [Stacks -> BOOLEAN] /\ entered \in [Stacks -> BOOLEAN]
  /\ state \in [Items -> ItemStates] /\ target \in [Items -> Stacks]
  /\ scheduled \in Seq(Items)
  /\ unwind \in [Closers -> Calls]
  /\ log \in [Closers -> Seq(Records)]
  /\ \A s \in Stacks : s > made => callbacks[s] = <<>> /\ ~closed[s]
  /\ \A c \in Closers : unwind[c].pc # "unwinding" => unwind[c].list = <<>>

\* Where item i is in a family of sequences.
At(family, i) ==
  UNION {{<<k, x>> : x \in {y \in DOMAIN family[k] : family[k][y] = i}} : k \in DOMAIN family}

\* Through pushes, moves to new stacks and concurrent closes, a registered exit is
\* waiting on one stack, in the hands of one closer, or has run: no two of these,
\* and no exit runs twice or before it is registered.
Conservation ==
  LET toRun == [c \in Closers |-> unwind[c].list]
      run == [c \in Closers |-> [x \in DOMAIN log[c] |-> log[c][x].item]]
  IN \A i \in Items :
       Cardinality(At(callbacks, i)) + Cardinality(At(toRun, i)) + Cardinality(At(run, i))
         = IF state[i] = "scheduled" THEN 1 ELSE 0

Before(i, j) == \E x, y \in DOMAIN scheduled : x < y /\ scheduled[x] = i /\ scheduled[y] = j

\* "unwindStack calls all callbacks in reverse order (LIFO)": of the registration,
\* over any number of PopAll moves.
LastInFirstOut ==
  \A c \in Closers : \A x, y \in DOMAIN log[c] :
    x < y => Before(log[c][y].item, log[c][x].item)

\* The errors of closer c's unwinding that no later exit suppressed, by position:
\* 0 is the one AExit was called with.
Live(c) ==
  {x \in 0..Len(log[c]) :
     /\ IF x = 0 THEN unwind[c].err = Orig ELSE log[c][x].outcome = "error"
     /\ \A y \in DOMAIN log[c] : y > x => log[c][y].outcome # "suppress"}

\* unwindStack reports no error exactly when every error has been suppressed by an
\* exit run later, and never one that an exit function's own error has replaced.
ErrorsAccounted ==
  \A c \in Closers :
    IF Live(c) = {} THEN unwind[c].pending = Nil
    ELSE \E x \in Live(c) :
           /\ unwind[c].pending = IF x = 0 THEN Orig ELSE log[c][x].item
           /\ \A y \in Live(c) : y > x => log[c][y].item \in Plain
=============================================================================
