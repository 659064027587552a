------------------------------- MODULE LiveFlow -------------------------------
(***************************************************************************)
(* LLMFlow.RunLive over a GeminiConnection: clients put requests into the  *)
(* LiveRequestQueue, a task sends them to the connection, and the caller   *)
(* receives.  Each user content starts a goroutine that generates          *)
(* responses into responseCh, which nothing reads; it sends them while it  *)
(* holds the mutex of the connection.                                      *)
(*                                                                         *)
(* The connection is made and its session open when the model starts.      *)
(* Responses the session delivers end in a nil dereference                 *)
(* (finalizeModelResponseEvent reads the content of an event that has no   *)
(* response), which ends the process.                                      *)
(***************************************************************************)
EXTENDS Naturals, Sequences, SequencesExt

CONSTANTS QueueSize,    \* size of the LiveRequestQueue: 100 in the code
          ResponseSize, \* size of responseCh: 10 in the code
          MaxRequests,  \* bound on the requests of the clients
          MaxStream     \* bound on the responses of one generation

VARIABLES
  queue,    \* the LiveRequestQueue
  accepted, \* history: the contents the queue took, in order
  requests, \* requests made so far
  ctx,      \* the caller's context: "live", "cancelled" or "deadline"
  sender,   \* the send task: [at, req]
  mu,       \* the goroutine that holds the mutex of the connection, or 0
  closed,   \* the connection is closed
  history,  \* contents sent to the connection
  buffered, \* responses in responseCh
  gens,     \* gens[n]: where the goroutine of the n-th content is
  caller,   \* RunLive: "receive", "process", "returned" or "panicked"
  misused   \* a response was sent on the closed responseCh

vars == <<queue, accepted, requests, ctx, sender, mu, closed, history, buffered, gens, caller, misused>>
clientVars == <<accepted, requests>>
connVars == <<mu, closed, history, buffered, gens, misused>>

None == [kind |-> "none", n |-> 0]
Kinds == {"content", "blob", "close"}

Init ==
  /\ queue = <<>>
  /\ accepted = <<>>
  /\ requests = 0
  /\ ctx = "live"
  /\ sender = [at |-> "get", req |-> None]
  /\ mu = 0
  /\ closed = FALSE
  /\ history = <<>>
  /\ buffered = 0
  /\ gens = <<>>
  /\ caller = "receive"
  /\ misused = FALSE

Running == caller # "panicked"

(* A request is named by the contents accepted up to it, which it counts   *)
(* when it is one.                                                         *)
Counts(kind) == IF kind = "content" THEN 1 ELSE 0
Request(kind) == [kind |-> kind, n |-> Len(accepted) + Counts(kind)]

Accept(kind) == accepted' = IF kind = "content" THEN Append(accepted, Request(kind)) ELSE accepted

(* Mutation: the queue takes what it has no room for.                      *)
PutUnbounded(kind) ==
  /\ Running
  /\ requests < MaxRequests
  /\ requests' = requests + 1
  /\ queue' = Append(queue, Request(kind)) /\ Accept(kind)
  /\ UNCHANGED <<ctx, sender, caller>> /\ UNCHANGED connVars

(* SendContent, SendRealtime and Close of the queue: the error of          *)
(* PutNowait on a full queue is dropped, and the request with it.          *)
Put(kind) ==
  /\ Running
  /\ requests < MaxRequests
  /\ requests' = requests + 1
  /\ IF Len(queue) < QueueSize
     THEN queue' = Append(queue, Request(kind)) /\ Accept(kind)
     ELSE UNCHANGED <<queue, accepted>>
  /\ UNCHANGED <<ctx, sender, caller>> /\ UNCHANGED connVars

EndContext(how) ==
  /\ Running
  /\ ctx = "live"
  /\ ctx' = how
  /\ UNCHANGED <<queue, sender, caller>> /\ UNCHANGED clientVars /\ UNCHANGED connVars

SenderGoes(at, req) == sender' = [at |-> at, req |-> req]

(* An ended context fails Get; past a deadline the loop tries again and    *)
(* never looks at the context.                                             *)
Get ==
  /\ Running
  /\ sender.at = "get"
  /\ \/ /\ queue # <<>>
        /\ queue' = Tail(queue)
        /\ SenderGoes("check", Head(queue))
     \/ /\ ctx = "cancelled"
        /\ SenderGoes("check", None)
        /\ UNCHANGED queue
  /\ UNCHANGED <<ctx, caller>> /\ UNCHANGED clientVars /\ UNCHANGED connVars

(* With the context ended the request is dropped.                          *)
Check ==
  /\ Running
  /\ sender.at = "check"
  /\ IF ctx # "live" THEN SenderGoes("done", None) ELSE SenderGoes(sender.req.kind, sender.req)
  /\ UNCHANGED <<queue, ctx, caller>> /\ UNCHANGED clientVars /\ UNCHANGED connVars

(* SendRealtime of the Gemini connection is an error, which ends the task. *)
SendRealtime ==
  /\ Running
  /\ sender.at = "blob"
  /\ SenderGoes("done", None)
  /\ UNCHANGED <<queue, ctx, caller>> /\ UNCHANGED clientVars /\ UNCHANGED connVars

(* Mutation: the request stays with the sender and is sent again.          *)
SendTwice ==
  /\ Running
  /\ sender.at = "content"
  /\ mu = 0
  /\ history' = Append(history, sender.req)
  /\ gens' = Append(gens, [at |-> "stream", left |-> MaxStream])
  /\ \/ SenderGoes("get", None)
     \/ Len(history) < 3 /\ UNCHANGED sender
  /\ UNCHANGED <<queue, ctx, caller, mu, closed, buffered, misused>> /\ UNCHANGED clientVars

SendContent ==
  /\ Running
  /\ sender.at = "content"
  /\ mu = 0
  /\ IF closed
     THEN SenderGoes("done", None) /\ UNCHANGED <<history, gens>>
     ELSE /\ SenderGoes("get", None)
          /\ history' = Append(history, sender.req)
          /\ gens' = Append(gens, [at |-> "stream", left |-> MaxStream])
  /\ UNCHANGED <<queue, ctx, caller, mu, closed, buffered, misused>> /\ UNCHANGED clientVars

(* Mutation: the sender goes on to listen to the queue.                    *)
CloseOnly ==
  /\ Running
  /\ sender.at = "close"
  /\ mu = 0
  /\ closed' = TRUE
  /\ SenderGoes("get", None)
  /\ UNCHANGED <<queue, ctx, caller, mu, history, buffered, gens, misused>> /\ UNCHANGED clientVars

(* Mutation: the connection is closed without its mutex.                   *)
CloseUnlocked ==
  /\ Running
  /\ sender.at = "close"
  /\ closed' = TRUE
  /\ SenderGoes("done", None)
  /\ UNCHANGED <<queue, ctx, caller, mu, history, buffered, gens, misused>> /\ UNCHANGED clientVars

Close ==
  /\ Running
  /\ sender.at = "close"
  /\ mu = 0
  /\ closed' = TRUE
  /\ SenderGoes("done", None)
  /\ UNCHANGED <<queue, ctx, caller, mu, history, buffered, gens, misused>> /\ UNCHANGED clientVars

(* processStream: the next response, the last one or the one that reports  *)
(* an error, is sent with the mutex held, unless the connection is closed. *)
Lock(g) ==
  /\ Running
  /\ gens[g].at = "stream"
  /\ mu = 0
  /\ mu' = IF closed THEN 0 ELSE g
  /\ \E last \in BOOLEAN :
       /\ gens[g].left = 0 => last
       /\ gens' = [gens EXCEPT ![g] =
            [at |-> IF closed THEN (IF last THEN "done" ELSE "stream")
                    ELSE (IF last THEN "sendLast" ELSE "send"),
             left |-> IF last THEN 0 ELSE @.left - 1]]
  /\ UNCHANGED <<queue, ctx, sender, caller, closed, history, buffered, misused>>
  /\ UNCHANGED clientVars

(* On a full channel the goroutine waits with the mutex in its hands.      *)
Respond(g) ==
  /\ Running
  /\ gens[g].at \in {"send", "sendLast"}
  /\ buffered < ResponseSize /\ buffered' = buffered + 1
  /\ misused' = (misused \/ closed)
  /\ mu' = 0
  /\ gens' = [gens EXCEPT ![g].at = IF @ = "sendLast" THEN "done" ELSE "stream"]
  /\ UNCHANGED <<queue, ctx, sender, caller, closed, history>> /\ UNCHANGED clientVars

(* The loop of the receiver, when there was nothing to yield.              *)
Again == IF ctx = "live" THEN "receive" ELSE "wait"

(* Receive takes the mutex to begin with.  An error of the session and a   *)
(* message without content yield nothing, and the loop goes on unless the  *)
(* context ended.                                                          *)
Receive ==
  /\ caller = "receive"
  /\ mu = 0
  /\ caller' \in {"process", Again}
  /\ UNCHANGED <<queue, ctx, sender>> /\ UNCHANGED clientVars /\ UNCHANGED connVars

(* An event of a response processor goes to the consumer, who may stop;    *)
(* the send task goes on.  Then the event of the model is finalized.       *)
Process ==
  /\ caller = "process"
  /\ caller' \in {"returned", "panicked"}
  /\ UNCHANGED <<queue, ctx, sender>> /\ UNCHANGED clientVars /\ UNCHANGED connVars

(* After the loop the send task is cancelled and waited for, which the     *)
(* ended context ends.                                                     *)
Wait ==
  /\ caller = "wait"
  /\ caller' = "returned"
  /\ UNCHANGED <<queue, ctx, sender>> /\ UNCHANGED clientVars /\ UNCHANGED connVars

SendStep == Get \/ Check \/ SendRealtime \/ SendContent \/ Close
Generate == \E g \in DOMAIN gens : Lock(g) \/ Respond(g)

Next ==
  \/ \E kind \in Kinds : Put(kind)
  \/ \E how \in {"cancelled", "deadline"} : EndContext(how)
  \/ SendStep
  \/ Generate
  \/ Receive \/ Process \/ Wait

(* The scheduler runs every goroutine that can run; a mutex that is freed  *)
(* again and again is won at last (starvation mode of sync.Mutex).         *)
Fairness == WF_vars(Get) /\ WF_vars(Check) /\ WF_vars(SendRealtime)
            /\ SF_vars(SendContent) /\ SF_vars(Close) /\ SF_vars(Generate)

Spec == Init /\ [][Next]_vars /\ Fairness
-----------------------------------------------------------------------------
Requests == [kind : Kinds, n : Nat]
Senders == [at : Kinds \cup {"get", "check", "done"}, req : Requests \cup {None}]
Generations == [at : {"stream", "send", "sendLast", "done"}, left : 0 .. MaxStream]

TypeOK ==
  /\ queue \in Seq(Requests) /\ Len(queue) <= QueueSize
  /\ accepted \in Seq(Requests) /\ requests \in 0 .. MaxRequests
  /\ ctx \in {"live", "cancelled", "deadline"}
  /\ sender \in Senders
  /\ mu \in 0 .. Len(gens) /\ closed \in BOOLEAN /\ misused \in BOOLEAN
  /\ history \in Seq(Requests) /\ buffered \in 0 .. ResponseSize
  /\ gens \in Seq(Generations)
  /\ caller \in {"receive", "process", "wait", "returned", "panicked"}

(* The connection gets the contents the queue accepted, in their order and *)
(* each once; what is dropped is a tail.                                   *)
SentIsPrefix == IsPrefix(history, accepted)

(* No response is sent on the closed channel, which would end the process. *)
NoSendOnClosed == ~misused

(* Why the two hold.  What the sender has in hand is the content that the  *)
(* connection lacks first, and the queue goes on from there to the last    *)
(* one accepted.                                                           *)
InHand == sender.at \in {"check", "content"} /\ sender.req.kind = "content"
Given == Len(history) + (IF InHand THEN 1 ELSE 0)
Named(req) == req.kind = "content" => req.n \in DOMAIN accepted /\ accepted[req.n] = req

QueueInOrder ==
  /\ IF queue = <<>> THEN Len(accepted) = Given
     ELSE queue[1].n = Given + Counts(queue[1].kind) /\ queue[Len(queue)].n = Len(accepted)
  /\ \A k \in DOMAIN queue :
       k > 1 => queue[k].n = queue[k - 1].n + Counts(queue[k].kind)
  /\ \A k \in DOMAIN queue : Named(queue[k])

InOrder ==
  /\ \A k \in DOMAIN history : k \in DOMAIN accepted /\ history[k] = accepted[k]
  /\ sender.at = "content" => sender.req.kind = "content"
  /\ sender.at = "check" /\ ctx = "live" => sender.req \in Requests
  /\ sender.at # "done" =>
       (InHand => sender.req.n = Given /\ Named(sender.req)) /\ QueueInOrder

(* Only the goroutine that holds the mutex is about to send, and it found  *)
(* the connection open.                                                    *)
SendersHoldMutex ==
  /\ \A g \in DOMAIN gens : gens[g].at \in {"send", "sendLast"} <=> mu = g
  /\ closed => mu = 0

(* A goroutine waits for room in responseCh with the mutex held.           *)
Jammed == buffered = ResponseSize /\ ~closed /\ mu # 0

(* The sender took a close request; and ended, unless responses nobody     *)
(* reads have filled responseCh.                                           *)
Closing == sender.at = "close"
CloseSettled == sender.at = "done" \/ Jammed \/ ~Running
=============================================================================
