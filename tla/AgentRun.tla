------------------------------ MODULE AgentRun ------------------------------
(***************************************************************************)
(* A workflow agent and its sub-agents: types/agent_base.go (BaseAgent.Run)*)
(* under agent/sequential_agents.go, loop_agents.go or parallel_agents.go. *)
(*                                                                         *)
(* A run is a generator: it pushes events to its consumer with yield and   *)
(* stops when yield returns false.  Sequential and Loop agents run one     *)
(* sub-agent at a time in the consumer's goroutine.  A Parallel agent runs *)
(* MergeAgentRun: a goroutine per sub-agent, an unbuffered channel, and a  *)
(* closer.  All sub-agents share one *InvocationContext.                   *)
(*                                                                         *)
(* What a sub-agent's own Execute does, and what its callbacks return, is  *)
(* the environment's choice; of an event only its author, the branch it    *)
(* was stamped with and whether it escalates are kept.                     *)
(***************************************************************************)
EXTENDS Naturals, Sequences, FiniteSets

CONSTANTS SubAgents,      \* the sub-agents, a sequence of names
          Kinds,          \* the workflow agents considered
          MaxIterations,  \* of the loop agent
          MaxEvents       \* bound: events one Execute yields

ASSUME SubAgentsAssumption ==
  /\ SubAgents \in Seq({SubAgents[i] : i \in DOMAIN SubAgents}) /\ SubAgents # <<>>
  /\ \A i, j \in DOMAIN SubAgents : SubAgents[i] = SubAgents[j] => i = j
ASSUME BoundsAssumption == MaxIterations \in Nat \ {0} /\ MaxEvents \in Nat
ASSUME KindsAssumption == Kinds \subseteq {"sequential", "loop", "parallel"}

Agents == {SubAgents[i] : i \in DOMAIN SubAgents}
Events == [author : Agents, branch : SUBSET Agents, escalate : BOOLEAN]

VARIABLES
  kind,
  branch, endInvocation,   \* of the shared invocation context; branch as a set of names
  gen,         \* each sub-agent's generator
  readBranch,  \* what its createInvocationContext read
  before,      \* it yielded an event before Execute
  events,      \* events its Execute has produced in this run
  out,         \* the events being yielded: a set of at most one; {} is a nil event
  consumer,    \* the goroutine that ranges over the workflow agent's events
  serving,     \* whose event it holds
  ctxDone,     \* MergeAgentRun's context is done
  outerDone,   \* and it was the caller that ended it
  chClosed,    \* eventCh is closed
  made, got,   \* history: events yielded by, and received from, each sub-agent
  index, looped, \* sequential and loop: the sub-agent running, timesLooped
  runs         \* history: completed runs of each sub-agent

ictx == <<branch, endInvocation>>
own == <<readBranch, before, events, out>>
side == <<consumer, serving, ctxDone, outerDone, chClosed, got>>
order == <<index, looped, runs>>
vars == <<kind, ictx, gen, own, side, made, order>>

GenPC == {"idle", "read", "append", "before", "execute", "after", "done",
          "yieldBefore", "yieldExec", "yieldAfter"}
Yielding == {"yieldBefore", "yieldExec", "yieldAfter"}
N == Len(SubAgents)
current == SubAgents[index]

\* The type invariant; an event is held only by a generator that is at a yield.
TypeOK ==
  /\ kind \in Kinds /\ branch \in SUBSET Agents /\ endInvocation \in BOOLEAN
  /\ gen \in [Agents -> GenPC] /\ readBranch \in [Agents -> SUBSET Agents]
  /\ before \in [Agents -> BOOLEAN] /\ events \in [Agents -> 0..MaxEvents]
  /\ out \in [Agents -> SUBSET Events]
  /\ consumer \in {"ready", "busy", "stopped", "ended", "panicked"}
  /\ serving \in SUBSET Agents /\ Cardinality(serving) <= 1
  /\ ctxDone \in BOOLEAN /\ outerDone \in BOOLEAN /\ chClosed \in BOOLEAN
  /\ made \in [Agents -> Nat] /\ got \in [Agents -> Nat]
  /\ index \in 1..N /\ looped \in Nat /\ runs \in [Agents -> Nat]
  /\ \A a \in Agents : out[a] # {} => gen[a] \in Yielding

Init ==
  /\ kind \in Kinds
  /\ branch = {} /\ endInvocation = FALSE
  /\ gen = [a \in Agents |-> IF kind = "parallel" \/ a = SubAgents[1] THEN "read" ELSE "idle"]
  /\ readBranch = [a \in Agents |-> {}] /\ before = [a \in Agents |-> FALSE]
  /\ events = [a \in Agents |-> 0] /\ out = [a \in Agents |-> {}]
  /\ consumer = "ready" /\ serving = {}
  /\ ctxDone = FALSE /\ outerDone = FALSE /\ chClosed = FALSE
  /\ made = [a \in Agents |-> 0] /\ got = [a \in Agents |-> 0]
  /\ index = 1 /\ looped = 0 /\ runs = [a \in Agents |-> 0]

-----------------------------------------------------------------------------
(* BaseAgent.Run, the generator of one sub-agent. *)

Goto(a, pc) == gen' = [gen EXCEPT ![a] = pc]

\* yield(e): the generator is at the yield until its consumer takes the event.
Yield(a, pc, e) ==
  /\ Goto(a, pc)
  /\ out' = [out EXCEPT ![a] = e]
  /\ made' = [made EXCEPT ![a] = @ + 1]

Event(a, esc) == {[author |-> a, branch |-> branch, escalate |-> esc]}

\* createInvocationContext appends the agent's name to the shared Branch: a read
\* and a write, which MergeAgentRun's goroutines do without synchronisation.  (A
\* workflow agent has set the branch: it is not the empty string.)
ReadBranch(a) ==
  /\ gen[a] = "read" /\ Goto(a, "append")
  /\ readBranch' = [readBranch EXCEPT ![a] = branch]
  /\ UNCHANGED <<ictx, before, events, out, made>>

AppendBranch(a) ==
  /\ gen[a] = "append" /\ Goto(a, "before")
  /\ branch' = readBranch[a] \cup {a}
  /\ UNCHANGED <<endInvocation, own, made>>

\* handleBeforeAgentCallbacks: an error ends the run (and is dropped); a content
\* ends the invocation after its event; a state change makes an event too.
BeforeCallbacks(a) ==
  /\ gen[a] = "before"
  /\ \/ Goto(a, "done") /\ UNCHANGED <<endInvocation, own, made>>
     \/ Goto(a, "execute") /\ UNCHANGED <<endInvocation, own, made>>
     \/ \E content \in BOOLEAN :
          /\ endInvocation' = (endInvocation \/ content)
          /\ before' = [before EXCEPT ![a] = TRUE]
          /\ Yield(a, "yieldBefore", Event(a, FALSE))
          /\ UNCHANGED <<readBranch, events>>
  /\ UNCHANGED branch

\* The agent's Execute yields an event, or ends, or fails (the error is dropped).
Execute(a) ==
  /\ gen[a] = "execute"
  /\ \/ /\ events[a] < MaxEvents
        /\ events' = [events EXCEPT ![a] = @ + 1]
        /\ \E esc \in BOOLEAN : Yield(a, "yieldExec", Event(a, esc))
        /\ UNCHANGED <<readBranch, before>>
     \/ Goto(a, IF endInvocation THEN "done" ELSE "after") /\ UNCHANGED <<own, made>>
     \/ Goto(a, "done") /\ UNCHANGED <<own, made>>
  /\ UNCHANGED ictx

\* handleAfterAgentCallback: its event, or the nil event when there is none, is
\* yielded if there was an event before; without one it is dropped.
AfterCallbacks(a) ==
  /\ gen[a] = "after"
  /\ \/ /\ before[a]
        /\ \E e \in {{}, Event(a, FALSE)} : Yield(a, "yieldAfter", e)
        /\ UNCHANGED <<readBranch, before, events>>
     \/ Goto(a, "done") /\ UNCHANGED <<own, made>>
  /\ UNCHANGED ictx

GenStep(a) ==
  /\ ReadBranch(a) \/ AppendBranch(a) \/ BeforeCallbacks(a) \/ Execute(a) \/ AfterCallbacks(a)
  /\ UNCHANGED <<kind, side, order>>

\* Where the generator goes on when yield returns true; false ends it.
Resume(a) == CASE gen[a] = "yieldBefore" -> IF endInvocation THEN "done" ELSE "execute"
               [] gen[a] = "yieldExec"   -> "execute"
               [] gen[a] = "yieldAfter"  -> "done"

-----------------------------------------------------------------------------
(* MergeAgentRun. *)

\* The event crosses the unbuffered channel: the sub-agent's goroutine resumes
\* its generator at once, the consumer starts on the event.
Deliver(a) ==
  /\ kind = "parallel" /\ gen[a] \in Yielding /\ consumer = "ready"
  /\ Goto(a, Resume(a))
  /\ consumer' = "busy" /\ serving' = {a}
  /\ got' = [got EXCEPT ![a] = @ + 1]
  /\ out' = [out EXCEPT ![a] = {}]
  /\ UNCHANGED <<kind, ictx, readBranch, before, events, ctxDone, outerDone, chClosed, made, order>>

\* Mutation: the lost event stays with its generator.
AbandonKeepsEvent(a) ==
  /\ kind = "parallel" /\ gen[a] \in Yielding /\ ctxDone
  /\ Goto(a, "done")
  /\ UNCHANGED <<kind, ictx, own, side, made, order>>

\* The goroutine's select takes ctx.Done: it leaves its range, the event is lost.
Abandon(a) ==
  /\ kind = "parallel" /\ gen[a] \in Yielding /\ ctxDone
  /\ Goto(a, "done")
  /\ out' = [out EXCEPT ![a] = {}]
  /\ UNCHANGED <<kind, ictx, readBranch, before, events, side, made, order>>

\* Mutation: the closer does not wait for all goroutines.
CloseChannelEarly ==
  /\ kind = "parallel" /\ ~chClosed /\ \E a \in Agents : gen[a] = "done"
  /\ chClosed' = TRUE
  /\ UNCHANGED <<kind, ictx, gen, own, consumer, serving, ctxDone, outerDone, got, made, order>>

\* wg.Wait, then close(eventCh).
CloseChannel ==
  /\ kind = "parallel" /\ ~chClosed /\ \A a \in Agents : gen[a] = "done"
  /\ chClosed' = TRUE
  /\ UNCHANGED <<kind, ictx, gen, own, consumer, serving, ctxDone, outerDone, got, made, order>>

MergeEnds ==
  /\ kind = "parallel" /\ consumer = "ready" /\ chClosed
  /\ consumer' = "ended" /\ ctxDone' = TRUE
  /\ UNCHANGED <<kind, ictx, gen, own, serving, outerDone, chClosed, got, made, order>>

\* Mutation: the consumer stops and the context is not cancelled.
StopWithoutCancel ==
  /\ kind = "parallel" /\ consumer = "busy"
  /\ serving' = {} /\ consumer' = "stopped" /\ UNCHANGED ctxDone
  /\ UNCHANGED <<kind, ictx, gen, own, outerDone, chClosed, got, made, order>>

\* The consumer is done with an event and asks for the next, or stops: the
\* deferred cancel tells the goroutines.
MergeStop ==
  /\ kind = "parallel" /\ consumer = "busy"
  /\ serving' = {} /\ consumer' = "stopped" /\ ctxDone' = TRUE
  /\ UNCHANGED <<kind, ictx, gen, own, outerDone, chClosed, got, made, order>>

MergeContinue ==
  /\ kind = "parallel" /\ consumer = "busy"
  /\ serving' = {} /\ consumer' = "ready"
  /\ UNCHANGED <<kind, ictx, gen, own, ctxDone, outerDone, chClosed, got, made, order>>

CallerCancels ==
  /\ kind = "parallel" /\ ~ctxDone
  /\ ctxDone' = TRUE /\ outerDone' = TRUE
  /\ UNCHANGED <<kind, ictx, gen, own, consumer, serving, chClosed, got, made, order>>

-----------------------------------------------------------------------------
(* SequentialAgent and LoopAgent: nested range loops in one goroutine. *)

Direct == kind # "parallel"

Take ==
  /\ Direct /\ gen[current] \in Yielding /\ consumer = "ready"
  /\ consumer' = "busy" /\ serving' = {current}
  /\ got' = [got EXCEPT ![current] = @ + 1]
  /\ UNCHANGED <<kind, ictx, gen, own, ctxDone, outerDone, chClosed, made, order>>

Escalates(e) == \E x \in e : x.escalate

\* The consumer's body returns: it stops, or the sub-agent goes on.  The loop
\* agent then reads the event's Actions: an escalation ends the loop, a nil event
\* is a nil dereference.
TakenStop ==
  /\ Direct /\ consumer = "busy"
  /\ Goto(current, "done") /\ out' = [out EXCEPT ![current] = {}]
  /\ consumer' = "stopped" /\ serving' = {}
  /\ UNCHANGED <<kind, ictx, readBranch, before, events, ctxDone, outerDone, chClosed, got, made, order>>

TakenContinue ==
  /\ Direct /\ consumer = "busy"
  /\ out' = [out EXCEPT ![current] = {}] /\ serving' = {}
  /\ IF kind = "loop" /\ out[current] = {} THEN consumer' = "panicked" /\ Goto(current, "done")
     ELSE IF kind = "loop" /\ Escalates(out[current])
     THEN consumer' = "ended" /\ Goto(current, "done")
     ELSE consumer' = "ready" /\ Goto(current, Resume(current))
  /\ UNCHANGED <<kind, ictx, readBranch, before, events, ctxDone, outerDone, chClosed, got, made, order>>

\* The next sub-agent starts a run of its own.
StartRun(i) ==
  /\ index' = i
  /\ gen' = [gen EXCEPT ![SubAgents[i]] = "read"]
  /\ before' = [before EXCEPT ![SubAgents[i]] = FALSE]
  /\ events' = [events EXCEPT ![SubAgents[i]] = 0]

\* Mutation: one round too many.
NextSubAgentInclusive ==
  /\ Direct /\ consumer = "ready" /\ gen[current] = "done"
  /\ runs' = [runs EXCEPT ![current] = @ + 1]
  /\ looped' = IF kind = "loop" THEN looped + 1 ELSE 0
  /\ IF index < N THEN StartRun(index + 1) /\ UNCHANGED consumer
     ELSE IF kind = "loop" /\ looped' <= MaxIterations THEN StartRun(1) /\ UNCHANGED consumer
     ELSE consumer' = "ended" /\ UNCHANGED <<index, gen, before, events>>
  /\ UNCHANGED <<kind, ictx, readBranch, out, serving, ctxDone, outerDone, chClosed, got, made>>

\* A sub-agent's run is over (whatever ended it).  timesLooped counts sub-agent
\* runs, and is compared with the bound only where a round starts.
NextSubAgent ==
  /\ Direct /\ consumer = "ready" /\ gen[current] = "done"
  /\ runs' = [runs EXCEPT ![current] = @ + 1]
  /\ looped' = IF kind = "loop" THEN looped + 1 ELSE 0
  /\ IF index < N THEN StartRun(index + 1) /\ UNCHANGED consumer
     ELSE IF kind = "loop" /\ looped' < MaxIterations THEN StartRun(1) /\ UNCHANGED consumer
     ELSE consumer' = "ended" /\ UNCHANGED <<index, gen, before, events>>
  /\ UNCHANGED <<kind, ictx, readBranch, out, serving, ctxDone, outerDone, chClosed, got, made>>

-----------------------------------------------------------------------------
Next ==
  \/ \E a \in Agents : GenStep(a) \/ Deliver(a) \/ Abandon(a)
  \/ CloseChannel \/ MergeEnds \/ MergeStop \/ MergeContinue \/ CallerCancels
  \/ Take \/ TakenStop \/ TakenContinue \/ NextSubAgent

Spec == Init /\ [][Next]_vars

\* Goroutines run on: a sub-agent's code comes to its next yield or its end.
\* The consumer and the caller need not do anything.
Fairness ==
  /\ \A a \in Agents : WF_vars(GenStep(a)) /\ WF_vars(Abandon(a))
  /\ WF_vars(CloseChannel)

FairSpec == Spec /\ Fairness

-----------------------------------------------------------------------------
\* A merge that ends by itself has handed over every event that any sub-agent
\* yielded; only a stop or a cancellation drops events.
NothingLost ==
  consumer = "ended" /\ kind = "parallel" /\ ~outerDone =>
    \A a \in Agents : got[a] = made[a]

\* A consumer that stops, or a cancelled context, leaks no goroutine: each
\* sub-agent's ends and so does the closer.
NoLeak ==
  (kind = "parallel" /\ (ctxDone \/ consumer = "stopped")) ~> (chClosed /\ \A a \in Agents : gen[a] = "done")

\* timesLooped counts sub-agent runs, so the loop makes the rounds it takes to
\* reach MaxIterations sub-agent runs and no sub-agent is run once more.
LoopBound ==
  /\ looped < MaxIterations + N
  /\ \A a \in Agents : runs[a] * N < MaxIterations + N

\* types/agent_invocation_context.go:101 "Branch is used when multiple sub-agents
\* shouldn't see their peer agents' conversation history": an event of a parallel
\* sub-agent is not stamped with a peer's branch.
BranchIsolation ==
  kind = "parallel" => \A a \in Agents : \A e \in out[a] : e.branch \subseteq {a}
=============================================================================
