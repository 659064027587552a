-------------------------------- MODULE Flows --------------------------------
(***************************************************************************)
(* The flows of one invocation, side by side in one specification: part    *)
(* says which one a behaviour is about, and w1 to w12 are its variables.   *)
(***************************************************************************)
EXTENDS Naturals

CONSTANTS
  QueueSize, ResponseSize, MaxRequests, MaxStream,  \* of the live connection
  MaxCalls, MaxCallbacks, Known, LongRunning,       \* of the function calls
  Executions, MaxRetries, Nothing,                   \* of the code executions
  PartKinds, MaxTurns, MaxChunks,                    \* of the models
  CallIds,                                           \* of the contents of a request
  MaxEvents                                          \* of a stream and of a session

ASSUME FlowsAssumption ==
  /\ {QueueSize, ResponseSize, MaxRequests, MaxStream} \subseteq Nat
  /\ {MaxCalls, MaxCallbacks, MaxRetries} \subseteq Nat
  /\ {MaxTurns, MaxChunks, MaxEvents} \subseteq Nat

VARIABLES part, w1, w2, w3, w4, w5, w6, w7, w8, w9, w10, w11, w12

vars == <<part, w1, w2, w3, w4, w5, w6, w7, w8, w9, w10, w11, w12>>

Live == INSTANCE LiveFlow WITH
  queue <- w1, accepted <- w2, requests <- w3, ctx <- w4, sender <- w5, mu <- w6, closed <- w7,
  history <- w8, buffered <- w9, gens <- w10, caller <- w11, misused <- w12

Functions == INSTANCE FunctionCalls WITH
  filters <- w1, before <- w2, after <- w3, worker <- w4, responses <- w5, errCh <- w6,
  resultCh <- w7, cancelled <- w8, waiter <- w9

Code == INSTANCE CodeExecution WITH Calls <- Executions,
  executor <- w1, process <- w2, pc <- w3, input <- w4, attempt <- w5, disk <- w6, ran <- w7,
  disturbed <- w8, containers <- w9, failures <- w10

Content == INSTANCE Contents WITH events <- w1, branch <- w2, contents <- w3, outcome <- w4

Model == INSTANCE Models WITH Kinds <- PartKinds,
  model <- w1, history <- w2, sent <- w3, phase <- w4, message <- w5, received <- w6,
  finish <- w7, yielded <- w8

Init ==
  \/ part = "live" /\ Live!Init
  \/ part = "functions" /\ Functions!Init /\ w10 = 0 /\ w11 = 0 /\ w12 = 0
  \/ part = "code" /\ Code!Init /\ w11 = 0 /\ w12 = 0
  \/ /\ part = "contents" /\ Content!Init
     /\ w5 = 0 /\ w6 = 0 /\ w7 = 0 /\ w8 = 0 /\ w9 = 0 /\ w10 = 0 /\ w11 = 0 /\ w12 = 0
  \/ part = "models" /\ Model!Init /\ w9 = 0 /\ w10 = 0 /\ w11 = 0 /\ w12 = 0

(* A step of a flow leaves the variables it has no use for alone.          *)
OfLive == part = "live" /\ UNCHANGED part
OfFunctions == part = "functions" /\ UNCHANGED <<part, w10, w11, w12>>
OfCode == part = "code" /\ UNCHANGED <<part, w11, w12>>
OfContents == part = "contents" /\ UNCHANGED <<part, w5, w6, w7, w8, w9, w10, w11, w12>>
OfModels == part = "models" /\ UNCHANGED <<part, w9, w10, w11, w12>>

LiveStep == OfLive /\ Live!Next
FunctionsStep == OfFunctions /\ Functions!Next
CodeStep == OfCode /\ Code!Next
ContentsStep == OfContents /\ Content!Next
ModelsStep == OfModels /\ Model!Next

Next == LiveStep \/ FunctionsStep \/ CodeStep \/ ContentsStep \/ ModelsStep

(* The fairness of LiveFlow and of FunctionCalls.                          *)
Fairness ==
  /\ WF_vars(OfLive /\ Live!Get) /\ WF_vars(OfLive /\ Live!Check)
  /\ WF_vars(OfLive /\ Live!SendRealtime)
  /\ SF_vars(OfLive /\ Live!SendContent) /\ SF_vars(OfLive /\ Live!Close)
  /\ SF_vars(OfLive /\ Live!Generate)
  /\ WF_vars(OfFunctions /\ Functions!Work) /\ WF_vars(OfFunctions /\ Functions!Receive)

Spec == Init /\ [][Next]_vars /\ Fairness
-----------------------------------------------------------------------------
(* The variables of each flow have their types.                            *)
FlowsTypeOK ==
  /\ part = "live" => Live!TypeOK
  /\ part = "functions" => Functions!TypeOK
  /\ part = "code" => Code!TypeOK
  /\ part = "contents" => Content!TypeOK
  /\ part = "models" => Model!TypeOK

(* gemini_connection.go, functions.go: contents reach the connection in    *)
(* the order they were accepted, no response is sent on a closed channel,  *)
(* and functions are answered in the order of their calls.  contents.go: a *)
(* response follows its call, and other events keep their order.           *)
(* google_llm.go, anthropic.go: the text of a stream is collected once,    *)
(* its last response is whole, and answers are sent back.                  *)
DeliversInOrder ==
  /\ part = "live" => Live!SentIsPrefix /\ Live!NoSendOnClosed
  /\ part = "functions" => Functions!AnswersInOrder
  /\ part = "contents" => Content!ResponsesFollowCalls
  /\ part = "models" =>
       Model!TextIsCollectedOnce /\ Model!LastResponseIsWhole /\ Model!AnswersAreSentBack

(* local.go, container.go: a call runs its own code, and only failures     *)
(* leave containers behind.                                                *)
ExecutionSound == part = "code" => Code!RunsOwnCode /\ Code!OnlyFailuresLeak

(* llm_flow.go: the sender ends once it took a close request, unless       *)
(* responses nobody reads block it.                                        *)
CloseEndsSender == (part = "live" /\ Live!Closing) ~> (part # "live" \/ Live!CloseSettled)

(* functions.go: the caller of HandleFunctionCalls hears of the outcome,   *)
(* unless there is no response event.                                      *)
CallerHears == (part = "functions" /\ Functions!Waiting) ~> (part # "functions" \/ Functions!Heard)
=============================================================================
