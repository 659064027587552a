---------------------------- MODULE AgentRunProofs ----------------------------
(***************************************************************************)
(* Machine-checked theorems about AgentRun for any sub-agents, any bound   *)
(* of the loop and any number of events.                                   *)
(***************************************************************************)
EXTENDS AgentRun, FiniteSetTheorems, TLAPS

ConsumerPC == {"ready", "busy", "stopped", "ended", "panicked"}

\* TypeOK without its last conjunct, in parts a step is proved to keep.
GenTypes ==
  /\ gen \in [Agents -> GenPC] /\ readBranch \in [Agents -> SUBSET Agents]
  /\ before \in [Agents -> BOOLEAN] /\ events \in [Agents -> 0..MaxEvents]
  /\ out \in [Agents -> SUBSET Events] /\ made \in [Agents -> Nat]
  /\ branch \in SUBSET Agents /\ endInvocation \in BOOLEAN

SideTypes ==
  /\ kind \in Kinds /\ consumer \in ConsumerPC
  /\ serving \in SUBSET Agents /\ Cardinality(serving) <= 1
  /\ ctxDone \in BOOLEAN /\ outerDone \in BOOLEAN /\ chClosed \in BOOLEAN
  /\ got \in [Agents -> Nat] /\ index \in 1..N /\ looped \in Nat
  /\ runs \in [Agents -> Nat]

Held == \A a \in Agents : out[a] # {} => gen[a] \in Yielding

\* Nested loops run one sub-agent at a time; while the consumer holds an
\* event, that sub-agent is at its yield.
OneAtATime ==
  Direct => /\ \A a \in Agents : a # current => gen[a] \in {"idle", "done"}
            /\ consumer = "busy" => gen[current] \in Yielding

\* What was yielded is what was received and what is at a yield.
Pending(a) == IF gen[a] \in Yielding THEN 1 ELSE 0

MergeInv ==
  kind = "parallel" =>
    /\ chClosed => \A a \in Agents : gen[a] = "done"
    /\ ~ctxDone => \A a \in Agents : made[a] = got[a] + Pending(a)
    /\ ctxDone /\ ~outerDone => consumer \in {"stopped", "ended"}
    /\ consumer = "ended" => chClosed
    /\ consumer = "ended" /\ ~outerDone => \A a \in Agents : got[a] = made[a]

\* The rounds all sub-agents have completed, and where timesLooped is in one.
rounds == runs[SubAgents[N]]

InRound ==
  /\ \A j \in 1..N : runs[SubAgents[j]] = rounds + (IF j < index THEN 1 ELSE 0)
  /\ looped = IF kind = "loop" THEN rounds * N + index - 1 ELSE 0
  /\ rounds = 0 \/ (kind = "loop" /\ rounds * N < MaxIterations)

RoundsOver ==
  /\ consumer = "ended" /\ rounds > 0
  /\ \A j \in 1..N : runs[SubAgents[j]] = rounds
  /\ looped = IF kind = "loop" THEN rounds * N ELSE 0
  /\ (rounds - 1) * N < MaxIterations

Inv == GenTypes /\ SideTypes /\ Held /\ OneAtATime /\ MergeInv /\ (InRound \/ RoundsOver)

-----------------------------------------------------------------------------
(* The sub-agents are a non-empty sequence, each at one place. *)
LEMMA SequenceFacts ==
  /\ N \in Nat /\ N >= 1 /\ DOMAIN SubAgents = 1..N
  /\ \A i \in 1..N : SubAgents[i] \in Agents
  /\ \A a \in Agents : \E i \in 1..N : a = SubAgents[i]
  /\ \A i, j \in 1..N : SubAgents[i] = SubAgents[j] => i = j
<1>1. /\ SubAgents \in Seq(Agents) /\ SubAgents # <<>>
      /\ \A i, j \in DOMAIN SubAgents : SubAgents[i] = SubAgents[j] => i = j
  BY SubAgentsAssumption DEF Agents
<1>2. N \in Nat /\ N >= 1 /\ DOMAIN SubAgents = 1..N
  BY <1>1 DEF N
<1> QED
  BY <1>1, <1>2 DEF Agents

(* A run starts with every part of the invariant. *)
LEMMA InitInv == Init => Inv
<1> SUFFICES ASSUME Init PROVE Inv
  OBVIOUS
<1>1. GenTypes
  <2>1. gen \in [Agents -> GenPC]
    BY DEF Init, GenPC
  <2>2. 0 \in 0..MaxEvents
    BY BoundsAssumption
  <2>3. events \in [Agents -> 0..MaxEvents]
    BY <2>2 DEF Init
  <2>4. out \in [Agents -> SUBSET Events]
    BY DEF Init
  <2>5. readBranch \in [Agents -> SUBSET Agents]
    BY DEF Init
  <2>6. before \in [Agents -> BOOLEAN] /\ made \in [Agents -> Nat]
    BY DEF Init
  <2>7. branch \in SUBSET Agents /\ endInvocation \in BOOLEAN
    BY DEF Init
  <2>8. gen \in [Agents -> GenPC] /\ readBranch \in [Agents -> SUBSET Agents]
    BY <2>1, <2>5
  <2>9. before \in [Agents -> BOOLEAN] /\ events \in [Agents -> 0..MaxEvents]
    BY <2>3, <2>6
  <2>10. out \in [Agents -> SUBSET Events] /\ made \in [Agents -> Nat]
    BY <2>4, <2>6
  <2> QED
    BY <2>7, <2>8, <2>9, <2>10 DEF GenTypes
<1>2. SideTypes
  <2>1. Cardinality({}) = 0
    BY FS_EmptySet
  <2>2. index \in 1..N /\ looped \in Nat
    BY SequenceFacts DEF Init
  <2>3. serving \in SUBSET Agents /\ Cardinality(serving) <= 1
    BY <2>1 DEF Init
  <2>4. kind \in Kinds /\ consumer \in ConsumerPC
    BY DEF Init, ConsumerPC
  <2>5. ctxDone \in BOOLEAN /\ outerDone \in BOOLEAN /\ chClosed \in BOOLEAN
    BY DEF Init
  <2>6. got \in [Agents -> Nat]
    BY DEF Init
  <2>7. runs \in [Agents -> Nat]
    BY DEF Init
  <2> QED
    BY <2>2, <2>3, <2>4, <2>5, <2>6, <2>7 DEF SideTypes
<1>3. Held
  BY DEF Init, Held
<1>4. OneAtATime
  BY SequenceFacts DEF Init, OneAtATime, Direct, current
<1>5. MergeInv
  BY DEF Init, MergeInv, Pending, Yielding
<1>6. InRound
  <2>1. rounds = 0 /\ \A j \in 1..N : runs[SubAgents[j]] = 0
    BY SequenceFacts DEF Init, rounds
  <2>2. 0 * N = 0
    BY SequenceFacts
  <2> QED
    BY <2>1, <2>2, SequenceFacts DEF Init, InRound
<1> QED
  BY <1>1, <1>2, <1>3, <1>4, <1>5, <1>6 DEF Inv

-----------------------------------------------------------------------------
(* A step of a sub-agent's generator keeps the types. *)
LEMMA GenStepTypes ==
  ASSUME Inv, NEW a \in Agents, GenStep(a)
  PROVE  GenTypes'
<1> USE DEF Inv, GenTypes, GenPC, Goto
<1>e. \A esc \in BOOLEAN : Event(a, esc) \in SUBSET Events
  BY DEF Event, Events
<1>y. ASSUME NEW pc \in Yielding, NEW e \in SUBSET Events, Yield(a, pc, e)
      PROVE  /\ gen' \in [Agents -> GenPC] /\ out' \in [Agents -> SUBSET Events]
             /\ made' \in [Agents -> Nat]
  BY <1>y DEF Yield, Yielding
<1>1. ASSUME ReadBranch(a) PROVE GenTypes'
  BY <1>1 DEF ReadBranch, ictx
<1>2. ASSUME AppendBranch(a) PROVE GenTypes'
  BY <1>2 DEF AppendBranch, own
<1>3. ASSUME BeforeCallbacks(a) PROVE GenTypes'
  <2>1. ASSUME NEW pc \in {"done", "execute"}, Goto(a, pc), UNCHANGED <<endInvocation, own, made, branch>>
        PROVE  GenTypes'
    BY <2>1 DEF own
  <2>2. ASSUME NEW content \in BOOLEAN, endInvocation' = (endInvocation \/ content),
               before' = [before EXCEPT ![a] = TRUE], Yield(a, "yieldBefore", Event(a, FALSE)),
               UNCHANGED <<readBranch, events, branch>>
        PROVE  GenTypes'
    BY <2>2, <1>e, <1>y DEF Yielding
  <2> QED
    BY <1>3, <2>1, <2>2 DEF BeforeCallbacks
<1>4. ASSUME Execute(a) PROVE GenTypes'
  <2>1. ASSUME NEW pc \in {"done", "after"}, Goto(a, pc), UNCHANGED <<own, made, ictx>>
        PROVE  GenTypes'
    BY <2>1 DEF own, ictx
  <2>2. ASSUME events[a] < MaxEvents, events' = [events EXCEPT ![a] = @ + 1],
               NEW esc \in BOOLEAN, Yield(a, "yieldExec", Event(a, esc)),
               UNCHANGED <<readBranch, before, ictx>>
        PROVE  GenTypes'
    <3>1. events' \in [Agents -> 0..MaxEvents]
      BY <2>2, BoundsAssumption
    <3> QED
      BY <2>2, <3>1, <1>e, <1>y DEF Yielding, ictx
  <2> QED
    BY <1>4, <2>1, <2>2 DEF Execute
<1>5. ASSUME AfterCallbacks(a) PROVE GenTypes'
  <2>1. ASSUME Goto(a, "done"), UNCHANGED <<own, made, ictx>> PROVE GenTypes'
    BY <2>1 DEF own, ictx
  <2>2. ASSUME NEW e \in {{}, Event(a, FALSE)}, Yield(a, "yieldAfter", e),
               UNCHANGED <<readBranch, before, events, ictx>>
        PROVE  GenTypes'
    BY <2>2, <1>e, <1>y DEF Yielding, ictx
  <2> QED
    BY <1>5, <2>1, <2>2 DEF AfterCallbacks
<1> QED
  BY <1>1, <1>2, <1>3, <1>4, <1>5 DEF GenStep

(* Such a step moves one generator that was not at a yield; if it is at   *)
(* one now, it has made one more event.                                    *)
LEMMA GenStepMoves ==
  ASSUME Inv, NEW a \in Agents, GenStep(a)
  PROVE  /\ gen[a] \notin Yielding \cup {"idle", "done"}
         /\ \A b \in Agents : b # a => gen'[b] = gen[b] /\ out'[b] = out[b] /\ made'[b] = made[b]
         /\ IF gen'[a] \in Yielding THEN made'[a] = made[a] + 1
                                    ELSE made'[a] = made[a] /\ out'[a] = out[a]
<1> USE DEF Inv, GenTypes, GenPC, Goto, Yielding
<1>y. ASSUME NEW pc \in Yielding, NEW e, Yield(a, pc, e)
      PROVE  /\ gen'[a] = pc /\ made'[a] = made[a] + 1
             /\ \A b \in Agents : b # a => gen'[b] = gen[b] /\ out'[b] = out[b] /\ made'[b] = made[b]
  BY <1>y DEF Yield
<1>n. ASSUME NEW pc \in GenPC \ Yielding, Goto(a, pc), UNCHANGED <<out, made>>
      PROVE  /\ gen'[a] = pc /\ made'[a] = made[a] /\ out'[a] = out[a]
             /\ \A b \in Agents : b # a => gen'[b] = gen[b] /\ out'[b] = out[b] /\ made'[b] = made[b]
  BY <1>n
<1>1. ASSUME ReadBranch(a) \/ AppendBranch(a)
      PROVE  \E pc \in GenPC \ Yielding : Goto(a, pc) /\ UNCHANGED <<out, made>>
  BY <1>1 DEF ReadBranch, AppendBranch, own
<1>2. ASSUME BeforeCallbacks(a) \/ Execute(a) \/ AfterCallbacks(a)
      PROVE  \/ \E pc \in GenPC \ Yielding : Goto(a, pc) /\ UNCHANGED <<out, made>>
             \/ \E pc \in Yielding : \E e \in {{}} \cup {Event(a, esc) : esc \in BOOLEAN} : Yield(a, pc, e)
  BY <1>2 DEF BeforeCallbacks, Execute, AfterCallbacks, own
<1>3. gen[a] \notin Yielding \cup {"idle", "done"}
  BY DEF GenStep, ReadBranch, AppendBranch, BeforeCallbacks, Execute, AfterCallbacks
<1>4. \/ \E pc \in GenPC \ Yielding : Goto(a, pc) /\ UNCHANGED <<out, made>>
      \/ \E pc \in Yielding : \E e \in {{}} \cup {Event(a, esc) : esc \in BOOLEAN} : Yield(a, pc, e)
  BY <1>1, <1>2 DEF GenStep
<1> QED
  BY <1>3, <1>4, <1>y, <1>n

(* A step of a sub-agent's generator keeps the invariant. *)
LEMMA GenStepKeeps ==
  ASSUME Inv, NEW a \in Agents, GenStep(a)
  PROVE  Inv'
<1>0. UNCHANGED <<kind, consumer, serving, ctxDone, outerDone, chClosed, got, index, looped, runs>>
  BY DEF GenStep, side, order
<1>1. GenTypes'
  BY GenStepTypes
<1>2. SideTypes'
  BY <1>0 DEF Inv, SideTypes
<1>3. Held'
  <2>1. ASSUME NEW b \in Agents, out'[b] # {} PROVE gen'[b] \in Yielding
    <3>1. CASE b # a
      BY <2>1, <3>1, GenStepMoves DEF Inv, Held
    <3>2. CASE b = a
      BY <2>1, <3>2, GenStepMoves DEF Inv, Held
    <3> QED
      BY <3>1, <3>2
  <2> QED
    BY <2>1 DEF Held
<1>4. OneAtATime'
  <2>1. current' = current /\ Direct' = Direct
    BY <1>0 DEF current, Direct
  <2>2. Direct => a = current
    BY GenStepMoves DEF Inv, OneAtATime
  <2>3. Direct => consumer # "busy"
    BY <2>2, GenStepMoves DEF Inv, OneAtATime
  <2> QED
    BY <1>0, <2>1, <2>2, <2>3, GenStepMoves DEF Inv, OneAtATime
<1>5. MergeInv'
  <2>1. kind = "parallel" => ~chClosed /\ consumer # "ended"
    BY GenStepMoves DEF Inv, MergeInv
  <2>2. ASSUME kind = "parallel", ~ctxDone, NEW b \in Agents
        PROVE  made'[b] = got[b] + Pending(b)'
    <3>1. made[b] = got[b] + Pending(b)
      BY <2>2 DEF Inv, MergeInv
    <3>2. CASE b # a
      BY <3>1, <3>2, GenStepMoves DEF Pending
    <3>3. CASE b = a
      <4>1. made[a] = got[a] /\ got[a] \in Nat
        BY <3>1, <3>3, GenStepMoves DEF Pending, Inv, SideTypes
      <4> QED
        BY <4>1, <3>3, GenStepMoves DEF Pending
    <3> QED
      BY <3>2, <3>3
  <2> QED
    BY <1>0, <2>1, <2>2 DEF Inv, MergeInv
<1>6. (InRound \/ RoundsOver)'
  BY <1>0 DEF Inv, InRound, RoundsOver, rounds
<1> QED
  BY <1>1, <1>2, <1>3, <1>4, <1>5, <1>6 DEF Inv

-----------------------------------------------------------------------------
(* The steps of MergeAgentRun, its consumer and its caller. *)
MergeStep ==
  \/ \E a \in Agents : Deliver(a) \/ Abandon(a)
  \/ CloseChannel \/ MergeEnds \/ MergeStop \/ MergeContinue \/ CallerCancels

(* Where a generator resumes it is not at a yield. *)
LEMMA ResumeType ==
  ASSUME NEW a \in Agents, gen[a] \in Yielding
  PROVE  Resume(a) \in {"done", "execute"}
BY DEF Resume, Yielding

(* A set of one sub-agent is a set the consumer may serve. *)
LEMMA OneServed ==
  ASSUME NEW a \in Agents
  PROVE  {a} \in SUBSET Agents /\ Cardinality({a}) <= 1
<1>1. Cardinality({a}) = 1
  BY FS_Singleton
<1> QED
  BY <1>1

(* Such steps keep the types. *)
LEMMA MergeStepTypes ==
  ASSUME Inv, MergeStep
  PROVE  GenTypes' /\ SideTypes' /\ Held'
<1> USE DEF Inv
<1>0. Cardinality({}) = 0
  BY FS_EmptySet
<1>1. ASSUME NEW a \in Agents, Deliver(a) PROVE GenTypes' /\ SideTypes' /\ Held'
  <2>1. Resume(a) \in {"done", "execute"}
    BY <1>1, ResumeType DEF Deliver
  <2>2. GenTypes'
    BY <1>1, <2>1 DEF Deliver, GenTypes, GenPC, Goto, ictx
  <2>3. SideTypes'
    BY <1>1, OneServed DEF Deliver, SideTypes, ConsumerPC, order
  <2>4. Held'
    BY <1>1, <2>1 DEF Deliver, Held, Goto, GenTypes
  <2> QED
    BY <2>2, <2>3, <2>4
<1>2. ASSUME NEW a \in Agents, Abandon(a) PROVE GenTypes' /\ SideTypes' /\ Held'
  <2>1. GenTypes'
    BY <1>2 DEF Abandon, GenTypes, GenPC, Goto, ictx
  <2>2. SideTypes'
    BY <1>2 DEF Abandon, SideTypes, side, order
  <2>3. Held'
    BY <1>2 DEF Abandon, Held, Goto, GenTypes
  <2> QED
    BY <2>1, <2>2, <2>3
<1>3. ASSUME CloseChannel \/ MergeEnds \/ MergeStop \/ MergeContinue \/ CallerCancels
      PROVE  GenTypes' /\ SideTypes' /\ Held'
  <2>1. UNCHANGED <<kind, ictx, gen, own, got, made, order>>
    BY <1>3 DEF CloseChannel, MergeEnds, MergeStop, MergeContinue, CallerCancels
  <2>2. GenTypes' /\ Held'
    BY <2>1 DEF GenTypes, Held, ictx, own
  <2>3. /\ serving' \in {serving, {}} /\ consumer' \in ConsumerPC
        /\ ctxDone' \in BOOLEAN /\ outerDone' \in BOOLEAN /\ chClosed' \in BOOLEAN
    BY <1>3 DEF CloseChannel, MergeEnds, MergeStop, MergeContinue, CallerCancels, SideTypes, ConsumerPC
  <2> QED
    BY <2>1, <2>2, <2>3, <1>0 DEF SideTypes, order
<1> QED
  BY <1>1, <1>2, <1>3 DEF MergeStep

(* They account for every event: one is dropped only once the context is  *)
(* done, which only a stop or the caller can cause before the end.         *)
LEMMA MergeStepAccount ==
  ASSUME Inv, MergeStep
  PROVE  MergeInv'
<1> USE DEF Inv, MergeInv
<1>0. gen \in [Agents -> GenPC] /\ got \in [Agents -> Nat] /\ made \in [Agents -> Nat]
  BY DEF GenTypes, SideTypes
<1>1. ASSUME NEW a \in Agents, Deliver(a) PROVE MergeInv'
  <2>1. Resume(a) \in {"done", "execute"}
    BY <1>1, ResumeType DEF Deliver
  <2>2. ~chClosed /\ consumer = "ready" /\ consumer' = "busy"
        /\ UNCHANGED <<kind, ctxDone, outerDone, chClosed, made>>
    BY <1>1 DEF Deliver, Yielding
  <2>3. ASSUME ~ctxDone, NEW b \in Agents PROVE made[b] = got'[b] + Pending(b)'
    <3>1. made[b] = got[b] + Pending(b)
      BY <1>1, <2>3 DEF Deliver
    <3>2. CASE b = a
      <4>1. gen'[a] = Resume(a) /\ got'[a] = got[a] + 1
        BY <1>1, <1>0 DEF Deliver, Goto
      <4>2. Pending(a) = 1 /\ Pending(a)' = 0
        BY <1>1, <2>1, <4>1 DEF Deliver, Pending, Yielding
      <4> QED
        BY <3>1, <3>2, <4>1, <4>2, <1>0
    <3>3. CASE b # a
      <4>1. gen'[b] = gen[b] /\ got'[b] = got[b]
        BY <1>1, <1>0, <3>3 DEF Deliver, Goto
      <4> QED
        BY <3>1, <4>1 DEF Pending
    <3> QED
      BY <3>2, <3>3
  <2> QED
    BY <2>2, <2>3
<1>2. ASSUME NEW a \in Agents, Abandon(a) PROVE MergeInv'
  <2>1. ctxDone /\ ~chClosed /\ UNCHANGED <<kind, side, made>>
    BY <1>2 DEF Abandon, Yielding
  <2> QED
    BY <2>1 DEF side
<1>3. ASSUME CloseChannel \/ MergeStop \/ MergeContinue \/ CallerCancels PROVE MergeInv'
  BY <1>3 DEF CloseChannel, MergeStop, MergeContinue, CallerCancels, Pending
<1>4. ASSUME MergeEnds PROVE MergeInv'
  <2>1. ~outerDone => \A a \in Agents : got[a] = made[a]
    <3> SUFFICES ASSUME ~outerDone, NEW a \in Agents PROVE got[a] = made[a]
      OBVIOUS
    <3>1. ~ctxDone /\ gen[a] = "done"
      BY <1>4 DEF MergeEnds, SideTypes
    <3>2. made[a] = got[a] + Pending(a) /\ Pending(a) = 0
      BY <1>4, <3>1 DEF MergeEnds, Pending, Yielding
    <3> QED
      BY <3>2, <1>0
  <2> QED
    BY <1>4, <2>1 DEF MergeEnds
<1> QED
  BY <1>1, <1>2, <1>3, <1>4 DEF MergeStep

(* They keep the invariant. *)
LEMMA MergeStepKeeps ==
  ASSUME Inv, MergeStep
  PROVE  Inv'
<1>1. UNCHANGED <<kind, index, looped, runs>> /\ ~Direct
  BY DEF MergeStep, Deliver, Abandon, CloseChannel, MergeEnds, MergeStop, MergeContinue,
         CallerCancels, order, Direct
<1>2. consumer = "ended" => consumer' = "ended"
  BY DEF MergeStep, Deliver, Abandon, CloseChannel, MergeEnds, MergeStop, MergeContinue,
         CallerCancels, side
<1>3. OneAtATime'
  BY <1>1 DEF OneAtATime, Direct
<1>4. (InRound \/ RoundsOver)'
  BY <1>1, <1>2 DEF Inv, InRound, RoundsOver, rounds
<1> QED
  BY <1>3, <1>4, MergeStepTypes, MergeStepAccount DEF Inv

-----------------------------------------------------------------------------
(* The consumer of a Sequential or Loop agent takes an event, and stops or *)
(* goes on.                                                                *)
LEMMA TakeKeeps ==
  ASSUME Inv, Take \/ TakenStop \/ TakenContinue
  PROVE  Inv'
<1> USE DEF Inv
<1>0. /\ Cardinality({}) = 0 /\ current \in Agents /\ Direct
      /\ UNCHANGED <<kind, index, looped, runs, ctxDone, outerDone, chClosed>>
  BY FS_EmptySet, SequenceFacts DEF SideTypes, current, Take, TakenStop, TakenContinue, order
<1>a. current' = current /\ Direct' /\ MergeInv'
  BY <1>0 DEF current, Direct, MergeInv
<1>1. consumer # "ended"
  BY DEF Take, TakenStop, TakenContinue
<1>2. (InRound \/ RoundsOver)'
  BY <1>0, <1>1 DEF InRound, RoundsOver, rounds
<1>3. ASSUME Take PROVE Inv'
  <2>1. UNCHANGED <<gen, out, made, ictx, own>> /\ gen[current] \in Yielding
    BY <1>3 DEF Take, own
  <2>2. GenTypes' /\ Held'
    BY <2>1 DEF GenTypes, Held, ictx, own
  <2>3. SideTypes'
    BY <1>0, <1>3, OneServed DEF Take, SideTypes, ConsumerPC
  <2>4. OneAtATime'
    BY <1>0, <1>a, <2>1 DEF OneAtATime
  <2> QED
    BY <1>2, <1>a, <2>2, <2>3, <2>4
<1>4. ASSUME TakenStop \/ TakenContinue PROVE Inv'
  <2>1. Resume(current) \in {"done", "execute"}
    BY <1>0, <1>4, ResumeType DEF OneAtATime, TakenStop, TakenContinue
  <2>2. PICK pc \in {"done", "execute"} : gen' = [gen EXCEPT ![current] = pc]
    BY <1>4, <2>1 DEF TakenStop, TakenContinue, Goto
  <2>3. /\ out' = [out EXCEPT ![current] = {}] /\ serving' = {}
        /\ UNCHANGED <<ictx, readBranch, before, events, got, made>>
        /\ consumer' \in ConsumerPC \ {"busy"}
    BY <1>4 DEF TakenStop, TakenContinue, ConsumerPC
  <2>4. GenTypes'
    BY <1>0, <2>2, <2>3 DEF GenTypes, GenPC, ictx
  <2>5. SideTypes'
    BY <1>0, <2>3 DEF SideTypes
  <2>6. Held'
    BY <1>0, <2>2, <2>3 DEF Held, GenTypes
  <2>7. OneAtATime'
    BY <1>0, <1>a, <2>2, <2>3 DEF OneAtATime, GenTypes
  <2> QED
    BY <1>2, <1>a, <2>4, <2>5, <2>6, <2>7
<1> QED
  BY <1>3, <1>4

(* The next sub-agent's run starts, or the rounds are over. *)
LEMMA NextKeeps ==
  ASSUME Inv, NextSubAgent
  PROVE  Inv'
<1> USE DEF Inv
<1>0. /\ current \in Agents /\ Direct /\ consumer = "ready" /\ gen[current] = "done"
      /\ UNCHANGED <<kind, ictx, readBranch, out, serving, ctxDone, outerDone, chClosed, got, made>>
      /\ index \in 1..N /\ N \in Nat /\ N >= 1 /\ index \in Nat
      /\ runs' = [runs EXCEPT ![current] = @ + 1]
      /\ looped' = IF kind = "loop" THEN looped + 1 ELSE 0
  BY SequenceFacts DEF SideTypes, current, NextSubAgent
<1>1. InRound
  BY <1>0 DEF RoundsOver
<1>a. Direct' /\ MergeInv'
  BY <1>0 DEF Direct, MergeInv
<1>b. rounds \in Nat /\ MaxIterations \in Nat /\ MaxIterations >= 1 /\ looped \in Nat
  BY <1>0, SequenceFacts, BoundsAssumption DEF rounds, SideTypes
<1>c. /\ runs'[current] = runs[current] + 1
      /\ \A j \in 1..N : j # index => runs'[SubAgents[j]] = runs[SubAgents[j]]
      /\ runs' \in [Agents -> Nat]
  BY <1>0, SequenceFacts DEF current, SideTypes
<1>2. ASSUME NEW i \in 1..N, StartRun(i), UNCHANGED consumer
      PROVE  GenTypes' /\ SideTypes' /\ Held' /\ OneAtATime'
  <2>1. SubAgents[i] \in Agents /\ current' = SubAgents[i]
    BY <1>2, SequenceFacts DEF StartRun, current
  <2>2. gen[SubAgents[i]] \notin Yielding
    BY <1>0, <2>1 DEF OneAtATime, Yielding
  <2>3. 0 \in 0..MaxEvents
    BY BoundsAssumption
  <2>4. GenTypes'
    BY <1>0, <1>2, <2>1, <2>3 DEF GenTypes, GenPC, StartRun, ictx
  <2>5. SideTypes'
    BY <1>0, <1>2, <1>b, <1>c DEF SideTypes, StartRun
  <2>6. Held'
    BY <1>0, <1>2, <2>1, <2>2 DEF Held, StartRun, GenTypes
  <2>7. OneAtATime'
    BY <1>0, <1>2, <1>a, <2>1 DEF OneAtATime, StartRun, GenTypes
  <2> QED
    BY <2>4, <2>5, <2>6, <2>7
<1>3. ASSUME index < N, StartRun(index + 1), UNCHANGED consumer PROVE Inv'
  <2>1. index + 1 \in 1..N /\ index' = index + 1
    BY <1>0, <1>3 DEF StartRun
  <2>2. rounds' = rounds
    BY <1>0, <1>3, <1>c DEF rounds
  <2>3. InRound'
    <3>1. \A j \in 1..N : runs'[SubAgents[j]] = rounds + (IF j < index + 1 THEN 1 ELSE 0)
      BY <1>0, <1>1, <1>b, <1>c DEF InRound, current
    <3>2. rounds * N \in Nat
      BY <1>0, <1>b
    <3>3. looped' = IF kind = "loop" THEN rounds * N + (index + 1) - 1 ELSE 0
      BY <1>0, <1>1, <3>2 DEF InRound
    <3> QED
      BY <1>0, <1>1, <2>1, <2>2, <3>1, <3>3 DEF InRound
  <2> QED
    BY <1>2, <1>3, <1>a, <2>1, <2>3
<1>4. ASSUME ~(index < N)
      PROVE  /\ index = N /\ rounds' = rounds + 1
             /\ \A j \in 1..N : runs'[SubAgents[j]] = rounds'
             /\ looped' = IF kind = "loop" THEN rounds' * N ELSE 0
             /\ rounds * N < MaxIterations
  <2>1. index = N
    BY <1>0, <1>4
  <2>2. rounds' = rounds + 1
    BY <2>1, <1>c DEF rounds, current
  <2>3. \A j \in 1..N : runs'[SubAgents[j]] = rounds + 1
    BY <2>1, <1>0, <1>1, <1>b, <1>c DEF InRound, current
  <2>4. rounds * N \in Nat /\ (rounds + 1) * N = rounds * N + N
    BY <1>0, <1>b
  <2>5. rounds * N < MaxIterations
    BY <1>0, <1>1, <1>b DEF InRound
  <2>6. looped' = IF kind = "loop" THEN (rounds + 1) * N ELSE 0
    BY <1>0, <1>1, <2>1, <2>4 DEF InRound
  <2> QED
    BY <2>1, <2>2, <2>3, <2>5, <2>6
<1>5. ASSUME ~(index < N), kind = "loop", looped' < MaxIterations, StartRun(1), UNCHANGED consumer
      PROVE  Inv'
  <2>1. 1 \in 1..N /\ index' = 1
    BY <1>0, <1>5 DEF StartRun
  <2>2. rounds' * N \in Nat /\ rounds' \in Nat
    BY <1>0, <1>b, <1>4, <1>5
  <2>3. InRound'
    BY <1>0, <1>4, <1>5, <2>1, <2>2 DEF InRound
  <2> QED
    BY <1>2, <1>5, <1>a, <2>1, <2>3
<1>6. ASSUME ~(index < N), consumer' = "ended", UNCHANGED <<index, gen, before, events>> PROVE Inv'
  <2>1. RoundsOver'
    <3>1. rounds' > 0 /\ rounds' - 1 = rounds
      BY <1>4, <1>6, <1>b
    <3> QED
      BY <1>0, <1>4, <1>6, <3>1 DEF RoundsOver
  <2>2. GenTypes' /\ Held'
    BY <1>0, <1>6 DEF GenTypes, Held, ictx
  <2>3. SideTypes'
    BY <1>0, <1>6, <1>b, <1>c DEF SideTypes, ConsumerPC
  <2>4. OneAtATime'
    <3>1. current' = current /\ gen' = gen /\ consumer' # "busy"
      BY <1>6 DEF current
    <3> QED
      BY <1>0, <3>1 DEF OneAtATime
  <2> QED
    BY <1>a, <2>1, <2>2, <2>3, <2>4
<1> QED
  BY <1>3, <1>5, <1>6 DEF NextSubAgent

-----------------------------------------------------------------------------
(* Every step keeps the invariant. *)
LEMMA StepInv == Inv /\ [Next]_vars => Inv'
<1> SUFFICES ASSUME Inv, [Next]_vars PROVE Inv'
  OBVIOUS
<1>1. ASSUME NEW a \in Agents, GenStep(a) PROVE Inv'
  BY <1>1, GenStepKeeps
<1>2. ASSUME MergeStep PROVE Inv'
  BY <1>2, MergeStepKeeps
<1>3. ASSUME Take \/ TakenStop \/ TakenContinue PROVE Inv'
  BY <1>3, TakeKeeps
<1>4. ASSUME NextSubAgent PROVE Inv'
  BY <1>4, NextKeeps
<1>5. ASSUME UNCHANGED vars PROVE Inv'
  <2>1. UNCHANGED <<kind, ictx, gen, own, side, made, order>>
    BY <1>5 DEF vars
  <2>2. (GenTypes /\ Held)'
    BY <2>1 DEF Inv, GenTypes, Held, ictx, own
  <2>3. SideTypes'
    BY <2>1 DEF Inv, SideTypes, side, order
  <2>4. OneAtATime'
    BY <2>1 DEF Inv, OneAtATime, Direct, current, side, order
  <2>5. MergeInv'
    BY <2>1 DEF Inv, MergeInv, Pending, side
  <2>6. (InRound \/ RoundsOver)'
    BY <2>1 DEF Inv, InRound, RoundsOver, rounds, order, side
  <2> QED
    BY <2>2, <2>3, <2>4, <2>5, <2>6 DEF Inv
<1> QED
  BY <1>1, <1>2, <1>3, <1>4, <1>5 DEF Next, MergeStep

(* It holds in every reachable state. *)
LEMMA RunInvariant == Spec => []Inv
<1> QED
  BY InitInv, StepInv, PTL DEF Spec

(* Every reachable state of a workflow agent has its type, and an event is *)
(* held only by a generator that is at a yield.                            *)
THEOREM RunTypeCorrect == Spec => []TypeOK
<1>1. Inv => TypeOK
  BY DEF Inv, GenTypes, SideTypes, Held, ConsumerPC, TypeOK
<1> QED
  BY <1>1, RunInvariant, PTL

(* parallel_agents.go: a merge that ends by itself has handed over every   *)
(* event its sub-agents yielded, whatever the order of their goroutines.   *)
THEOREM MergeCorrect == Spec => []NothingLost
<1>1. Inv => NothingLost
  BY DEF Inv, MergeInv, NothingLost
<1> QED
  BY <1>1, RunInvariant, PTL

(* loop_agents.go: no sub-agent is run in a round that starts after        *)
(* MaxIterations sub-agent runs, for any bound and any sub-agents.         *)
THEOREM LoopCorrect == Spec => []LoopBound
<1>1. Inv => LoopBound
  <2> SUFFICES ASSUME Inv PROVE LoopBound
    OBVIOUS
  <2>0. /\ N \in Nat /\ N >= 1 /\ rounds \in Nat /\ index \in 1..N
        /\ MaxIterations \in Nat /\ MaxIterations >= 1
    BY SequenceFacts, BoundsAssumption DEF Inv, SideTypes, rounds
  <2>1. /\ rounds * N \in Nat /\ (rounds + 1) * N = rounds * N + N
        /\ (rounds - 1) * N = rounds * N - N
    BY <2>0
  <2>2. looped < MaxIterations + N
    BY <2>0, <2>1 DEF Inv, InRound, RoundsOver
  <2>3. ASSUME NEW a \in Agents PROVE runs[a] * N < MaxIterations + N
    <3>1. PICK j \in 1..N : a = SubAgents[j]
      BY SequenceFacts
    <3>2. CASE InRound
      <4>1. runs[a] = rounds \/ runs[a] = rounds + 1
        BY <2>0, <3>1, <3>2 DEF InRound
      <4>2. rounds * N < MaxIterations
        BY <2>0, <3>2 DEF InRound
      <4> QED
        BY <2>0, <2>1, <4>1, <4>2
    <3>3. CASE RoundsOver
      BY <2>0, <2>1, <3>1, <3>3 DEF RoundsOver
    <3> QED
      BY <3>2, <3>3 DEF Inv
  <2> QED
    BY <2>2, <2>3 DEF LoopBound
<1> QED
  BY <1>1, RunInvariant, PTL
=============================================================================
