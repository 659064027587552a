---------------------------- MODULE FunctionCalls ----------------------------
(***************************************************************************)
(* HandleFunctionCalls (flow/llmflow/functions.go): a goroutine works      *)
(* through the function calls of an event and sends the merged response    *)
(* event, or the first error, to the caller, who waits for either or for   *)
(* the end of the context.                                                 *)
(*                                                                         *)
(* A response is empty or full; which of the two a callback or a tool      *)
(* answers is any.  A response event is kept as the index of its call.     *)
(***************************************************************************)
EXTENDS Naturals, Sequences, SequencesExt

CONSTANTS MaxCalls,   \* function calls of the event
          MaxCallbacks, \* callbacks of a kind an agent has
          Known,      \* indices of the calls whose tool is in toolsDict
          LongRunning \* indices of the calls of long-running tools

VARIABLES
  filters,   \* indices of the calls whose ids the caller asks for
  before,    \* number of before-tool callbacks
  after,     \* number of after-tool callbacks
  worker,    \* the goroutine: [at, call, callback, full, bare]
  responses, \* the calls of funcResponseEvents, in order
  errCh,     \* errors sent
  resultCh,  \* the merged events sent
  cancelled, \* the context ended
  waiter     \* the caller: "wait", "result", "error" or "cancelled"

vars == <<filters, before, after, worker, responses, errCh, resultCh, cancelled, waiter>>

Calls == 1 .. MaxCalls

Init ==
  /\ filters \in SUBSET Calls
  /\ before \in 0 .. MaxCallbacks
  /\ after \in 0 .. MaxCallbacks
  /\ worker = [at |-> "next", call |-> 0, callback |-> 0, full |-> FALSE, bare |-> FALSE]
  /\ responses = <<>>
  /\ errCh = 0
  /\ resultCh = <<>>
  /\ cancelled = FALSE
  /\ waiter = "wait"

inputs == <<filters, before, after>>

Goes(at) == worker' = [worker EXCEPT !.at = at]

(* Mutation: the goroutine gives up without a word.                        *)
FailSilently ==
  /\ Goes("gone")
  /\ UNCHANGED <<inputs, responses, errCh, resultCh, cancelled, waiter>>

Fail ==
  /\ errCh' = errCh + 1
  /\ Goes("gone")
  /\ UNCHANGED <<inputs, responses, resultCh, cancelled, waiter>>

(* Calls the filters do not name are skipped; the tool is looked up.       *)
NextCall ==
  /\ worker.at = "next"
  /\ LET rest == {i \in filters : i > worker.call}
         i == CHOOSE i \in rest : \A j \in rest : i <= j
     IN IF rest = {}
        THEN Goes("merge") /\ UNCHANGED errCh
        ELSE IF i \notin Known
        THEN errCh' = errCh + 1 /\ Goes("gone")
        ELSE /\ worker' = [worker EXCEPT !.at = "before", !.call = i, !.callback = 0, !.full = FALSE]
             /\ UNCHANGED errCh
  /\ UNCHANGED <<inputs, responses, resultCh, cancelled, waiter>>

(* The callbacks run until one answers nothing; the last answer counts.    *)
BeforeToolCallback ==
  /\ worker.at = "before"
  /\ worker.callback < before
  /\ \/ \E full \in BOOLEAN :
          /\ worker' = [worker EXCEPT !.callback = IF full THEN @ + 1 ELSE before, !.full = full]
          /\ UNCHANGED <<inputs, responses, errCh, resultCh, cancelled, waiter>>
     \/ Fail

(* The tool runs unless the callbacks answered.                            *)
CallTool ==
  /\ worker.at = "before"
  /\ worker.callback = before
  /\ \/ \E full \in BOOLEAN :
          /\ worker.full => full
          /\ worker' = [worker EXCEPT !.at = "after", !.callback = 0, !.full = full]
          /\ UNCHANGED <<inputs, responses, errCh, resultCh, cancelled, waiter>>
     \/ ~worker.full /\ Fail

(* An answer replaces the response and ends the callbacks.  Each callback  *)
(* that answers nothing builds a response event, but for a long-running    *)
(* call with an empty response.  The event is bare, without actions,       *)
(* unless the tool or a callback gave the tool context some.               *)
AfterToolCallback ==
  /\ worker.at = "after"
  /\ worker.callback < after
  /\ \/ \E replaces, bare \in BOOLEAN :
          /\ worker' = [worker EXCEPT !.callback = IF replaces THEN after ELSE @ + 1,
                                      !.full = @ \/ replaces, !.bare = @ \/ bare]
          /\ responses' = IF replaces \/ (worker.call \in LongRunning /\ ~worker.full)
                          THEN responses ELSE Append(responses, worker.call)
          /\ UNCHANGED <<inputs, errCh, resultCh, cancelled, waiter>>
     \/ Fail

EndOfCall ==
  /\ worker.at = "after"
  /\ worker.callback = after
  /\ Goes("next")
  /\ UNCHANGED <<inputs, responses, errCh, resultCh, cancelled, waiter>>

(* Without a response event nothing is sent.  Merging reads the actions of *)
(* every event when there is more than one: without them it panics.        *)
Merge ==
  /\ worker.at = "merge"
  /\ IF responses = <<>> THEN Goes("gone") /\ UNCHANGED resultCh
     ELSE IF Len(responses) > 1 /\ worker.bare THEN Goes("panicked") /\ UNCHANGED resultCh
     ELSE Goes("gone") /\ resultCh' = Append(resultCh, responses)
  /\ UNCHANGED <<inputs, responses, errCh, cancelled, waiter>>

Cancel ==
  /\ worker.at # "panicked"
  /\ ~cancelled
  /\ cancelled' = TRUE
  /\ UNCHANGED <<inputs, worker, responses, errCh, resultCh, waiter>>

Receive ==
  /\ worker.at # "panicked"
  /\ waiter = "wait"
  /\ \/ cancelled /\ waiter' = "cancelled"
     \/ errCh > 0 /\ waiter' = "error"
     \/ resultCh # <<>> /\ waiter' = "result"
  /\ UNCHANGED <<inputs, worker, responses, errCh, resultCh, cancelled>>

Work == NextCall \/ BeforeToolCallback \/ CallTool \/ AfterToolCallback \/ EndOfCall \/ Merge

Next == Work \/ Cancel \/ Receive

(* Callbacks and tools return; the scheduler runs both goroutines.         *)
Spec == Init /\ [][Next]_vars /\ WF_vars(Work) /\ WF_vars(Receive)
-----------------------------------------------------------------------------
Workers == [at : {"next", "before", "after", "merge", "gone", "panicked"},
            call : 0 .. MaxCalls, callback : Nat, full : BOOLEAN, bare : BOOLEAN]

TypeOK ==
  /\ filters \subseteq Calls /\ before \in 0 .. MaxCallbacks /\ after \in 0 .. MaxCallbacks
  /\ worker \in Workers
  /\ responses \in Seq(Calls)
  /\ errCh \in 0 .. 1 /\ resultCh \in Seq(Seq(Calls)) /\ Len(resultCh) <= 1
  /\ cancelled \in BOOLEAN
  /\ waiter \in {"wait", "result", "error", "cancelled"}

(* The merged event answers only calls that were asked for, in the order   *)
(* of the calls, and no event goes with an error.                          *)
AnswersInOrder ==
  /\ ToSet(responses) \subseteq filters \cap Known
  /\ \A i, j \in DOMAIN responses : i < j => responses[i] <= responses[j]
  /\ errCh = 0 \/ resultCh = <<>>

(* Why it holds: the goroutine goes through the calls upwards, answers the *)
(* one it is at, and is gone once it has sent something.                   *)
WorksUpwards ==
  /\ worker.at \in {"before", "after"} => worker.call \in filters \cap Known
  /\ \A i \in DOMAIN responses : responses[i] <= worker.call
  /\ worker.at \notin {"gone", "panicked"} => errCh = 0 /\ resultCh = <<>>

(* The caller waits; and heard of the outcome, unless no response event    *)
(* was built (empty filters, no after-tool callback, or all responses      *)
(* replaced).                                                              *)
Waiting == waiter = "wait"
Heard ==
  waiter # "wait" \/ worker.at = "panicked" \/ (worker.at = "gone" /\ responses = <<>> /\ errCh = 0)
=============================================================================
