-------------------------------- MODULE LlmSteps --------------------------------
(***************************************************************************)
(* Runs of an LLM agent (agent/llm_agent.go) and of its flow               *)
(* (flow/llmflow/llm_flow.go): a run is steps, a step runs the request     *)
(* processors; and the call of the model with its callbacks, which no step *)
(* makes yet (runOneStep ends before it) and which is modelled by itself.  *)
(*                                                                         *)
(* An agent's own flow begins with a processor that panics, so what runs   *)
(* further is a flow with other processors.  An event is "final" or "open" *)
(* as IsFinalResponse says, or "bare": one without actions, on which       *)
(* IsFinalResponse panics.                                                 *)
(***************************************************************************)
EXTENDS Naturals, Sequences, FiniteSets

CONSTANTS
  Processors,  \* number of request processors of the flow
  Callbacks,   \* number of callbacks before the model is called
  MaxSteps, MaxEvents, MaxResponses  \* bounds of this model

VARIABLES
  agent,   \* the agent's settings: [schema, tools, transfer, model], and what its flow is
  at,      \* where the run or the call is
  i,       \* the processor, callback or response it has come to
  last,    \* the last event of the step: "nil" before there is one
  endInvocation,
  steps,   \* number of steps begun
  yielded, \* what the consumer was given, in order
  calls    \* number of calls of the model that were counted

vars == <<agent, at, i, last, endInvocation, steps, yielded, calls>>

Settings == [schema : BOOLEAN, tools : BOOLEAN, transfer : BOOLEAN,
             model : {"model", "name", "none"}, flow : {"own", "built", "call"},
             mode : {"cfc", "stream", "plain"}]

Init ==
  /\ agent \in {s \in Settings : s.flow # "call" => s.mode = "plain"}
  /\ at = "new"
  /\ i = 1
  /\ last = "nil"
  /\ endInvocation = FALSE
  /\ steps = 0
  /\ yielded = <<>>
  /\ calls = 0

Yield(what) == yielded' = Append(yielded, what)
Stopped == at' = "stopped"
-----------------------------------------------------------------------------
(* An agent with a schema for its output gives up transfers, and is        *)
(* refused with tools: an option for tools counts even without any.        *)
NewLLMAgent ==
  /\ at = "new"
  /\ IF agent.schema /\ agent.tools
     THEN at' = "invalid" /\ UNCHANGED agent
     ELSE /\ agent' = [agent EXCEPT !.transfer = @ /\ ~agent.schema]
          /\ at' = "ready"
  /\ UNCHANGED <<i, last, endInvocation, steps, yielded, calls>>

(* A model that is named is not taken from the registry; an agent has no   *)
(* parent, and looking for its ancestors panics.                           *)
CanonicalModel == IF agent.model = "model" THEN "model" ELSE "panic"

(* Tools are kept as a list in a list and none of them is recognised.      *)
CanonicalTool == {}

(* Execute runs the flow of the agent, the single one without transfers;   *)
(* the first processor of either panics for want of a live configuration.  *)
Execute ==
  /\ at = "ready" /\ agent.flow = "built"
  /\ at' = "panic"
  /\ UNCHANGED <<agent, i, last, endInvocation, steps, yielded, calls>>

(* A run of a flow with processors of its own, or one call of the model.   *)
Run ==
  /\ at = "ready" /\ agent.flow = "own"
  /\ at' = "step"
  /\ steps' = 1
  /\ UNCHANGED <<agent, i, last, endInvocation, yielded, calls>>

(* The next processor: it yields an event, an error that ends the run and  *)
(* that nobody hears of, or nothing more; it may end the invocation.  The  *)
(* consumer may stop after an event.                                       *)
Process ==
  /\ at = "step" /\ i <= Processors
  /\ \/ \E event \in {"final", "open", "bare"} :
          /\ Len(yielded) < MaxEvents
          /\ Yield(event)
          /\ last' = event
          /\ at' \in {"step", "stopped"}
          /\ UNCHANGED <<i, endInvocation>>
     \/ /\ at' = "failed"
        /\ UNCHANGED <<i, last, endInvocation, yielded>>
     \/ /\ i' = i + 1
        /\ endInvocation' \in {endInvocation, TRUE}
        /\ UNCHANGED <<at, last, yielded>>
  /\ UNCHANGED <<agent, steps, calls>>

(* Mutation: a final event does not end the run.                           *)
EndsOnNothing == last = "nil"
EndsRun == last \in {"nil", "final"}

(* After the processors the tools would add to the request.  The run goes  *)
(* on with a step unless the last event was final or there was none; that  *)
(* the invocation was ended is not asked.                                  *)
runOneStep ==
  /\ at = "step" /\ i > Processors
  /\ IF last = "bare" THEN at' = "panic" /\ UNCHANGED <<i, last, steps>>
     ELSE IF EndsRun THEN at' = "ended" /\ UNCHANGED <<i, last, steps>>
     ELSE /\ steps < MaxSteps
          /\ steps' = steps + 1
          /\ i' = 1
          /\ last' = "nil"
          /\ UNCHANGED at
  /\ UNCHANGED <<agent, endInvocation, yielded, calls>>
-----------------------------------------------------------------------------
Call ==
  /\ at = "ready" /\ agent.flow = "call"
  /\ at' = "before"
  /\ UNCHANGED <<agent, i, last, endInvocation, steps, yielded, calls>>

(* The callbacks before the model, up to the first that fails or answers.  *)
(* Either is yielded, and the model is called all the same.                *)
handleBeforeModelCallback ==
  /\ at = "before"
  /\ \/ /\ i <= Callbacks
        /\ \/ i' = i + 1 /\ UNCHANGED <<at, yielded>>
           \/ \E what \in {"error", "answer"} :
                Yield(what) /\ at' \in {"call", "stopped"} /\ i' = 1
     \/ i > Callbacks /\ at' = "call" /\ i' = 1 /\ UNCHANGED yielded
  /\ UNCHANGED <<agent, last, endInvocation, steps, calls>>

(* A call is counted, and the error of one too many is not looked at.      *)
IncrementLLMCallCount ==
  /\ at = "call"
  /\ IF agent.mode = "cfc"
     THEN at' = "responses" /\ UNCHANGED calls
     ELSE /\ calls' = calls + 1
          /\ at' = CASE CanonicalModel = "panic" -> "panic"
                     [] CanonicalModel # "panic" /\ agent.mode = "stream" -> "responses"
                     [] OTHER -> "ended"
  /\ UNCHANGED <<agent, i, last, endInvocation, steps, yielded>>

(* Every response goes to the callbacks after the model, whose answer      *)
(* takes its place: in a stream.  Of a live run the events are yielded as  *)
(* they are, whatever the callbacks answer, and going on after the         *)
(* consumer stopped panics.                                                *)
handleAfterModelCallback ==
  /\ at \in {"responses", "deaf"} /\ i <= MaxResponses
  /\ i' = i + 1
  /\ IF at = "deaf" THEN at' = "panic" /\ UNCHANGED yielded
     ELSE /\ \E what \in IF agent.mode = "stream" THEN {"response", "altered", "error"} ELSE {"response"} :
               IF what = "error"
               THEN \/ yielded' = yielded \o <<"error", "nil">> /\ UNCHANGED at
                    \/ yielded' = yielded \o <<"error", "altered">> /\ UNCHANGED at
                    \/ Yield("error") /\ Stopped
               ELSE Yield(what) /\ at' \in {"responses", IF agent.mode = "stream" THEN "stopped" ELSE "deaf"}
  /\ UNCHANGED <<agent, last, endInvocation, steps, calls>>

callLLM ==
  /\ at \in {"responses", "deaf"}
  /\ at' = "ended"
  /\ UNCHANGED <<agent, i, last, endInvocation, steps, yielded, calls>>

Next ==
  \/ NewLLMAgent \/ Execute \/ Run \/ Process \/ runOneStep
  \/ Call \/ handleBeforeModelCallback \/ IncrementLLMCallCount \/ handleAfterModelCallback \/ callLLM

Spec == Init /\ [][Next]_vars
-----------------------------------------------------------------------------
TypeOK ==
  /\ agent \in Settings
  /\ at \in {"new", "invalid", "ready", "panic", "step", "stopped", "failed", "ended",
             "before", "call", "responses", "deaf"}
  /\ i \in Nat \ {0}
  /\ last \in {"nil", "final", "open", "bare"}
  /\ endInvocation \in BOOLEAN
  /\ steps \in 0 .. MaxSteps
  /\ yielded \in Seq({"final", "open", "bare", "error", "answer", "response", "altered", "nil"})
  /\ calls \in Nat

Heard(kinds) == {n \in DOMAIN yielded : yielded[n] \in kinds}

(* llm_flow.go:304: a run has another step only after an open event; so a  *)
(* run of several steps has heard one for each but the last, whether the   *)
(* invocation was ended or not.                                            *)
StepsFollowOpenEvents ==
  Cardinality(Heard({"open"})) + 1 >= steps

(* llm_flow.go:548: a call counts once whatever comes of it, and a         *)
(* consumer that answered before it was made hears the model all the same; *)
(* of the model it hears at most as much as it answered.                   *)
ModelIsHeardOnce ==
  agent.flow = "call" =>
    /\ calls <= 1
    /\ Cardinality(Heard({"response", "altered", "nil"})) < i \/ at = "before"

(* Why these hold: the step that follows an open event has heard it, and   *)
(* nothing is heard of the model, nor counted, before it is called.        *)
OpenEventHeard == last = "open" => Cardinality(Heard({"open"})) >= steps
CalledOnce ==
  /\ at \in {"new", "ready", "invalid", "before", "call"} => calls = 0
  /\ at \in {"new", "ready", "invalid"} => yielded = <<>> /\ last = "nil"
  /\ at \in {"step", "failed"} => agent.flow # "call"
  /\ agent.flow = "call" =>
       /\ calls <= 1
       /\ at \in {"before", "call"} => Heard({"response", "altered", "nil"}) = {}
=============================================================================
