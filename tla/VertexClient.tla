------------------------------ MODULE VertexClient ------------------------------
(***************************************************************************)
(* The client of internal/vertexai/client.go: it builds ten services one   *)
(* after the other, gives them out, and closes them in the same order up   *)
(* to the first that fails.  Each service has one or two connections,      *)
(* modelled from how they are used: one that is closed already refuses to  *)
(* be closed again.  Some services remember that they were closed.         *)
(***************************************************************************)
EXTENDS Naturals, Sequences, FiniteSets

CONSTANTS Closers, Regions

VARIABLES
  region,  \* where the client is built
  stage,   \* "building", "failed" (the caller has no client) or "ready"
  built,   \* number of services built
  open,    \* the connections that are open: pairs <<service, connection>>
  closing, \* closing[c]: number of the service that c closes next, 0 if it closes nothing
  failedAt \* failedAt[c]: the service at which the last Close of c failed, 0 if none

vars == <<region, stage, built, open, closing, failedAt>>

Services == <<"cache", "exampleStore", "generative", "modelGarden", "extension", "prompts",
              "rag", "evaluation", "reasoningengine", "tuning">>
All == DOMAIN Services
Connections(s) == IF Services[s] \in {"extension", "prompts", "rag"} THEN {1, 2} ELSE {1}
OpenOf(s) == open \cap ({s} \X Connections(s))

Init ==
  /\ region \in Regions
  /\ stage = "building"
  /\ built = 0
  /\ open = {}
  /\ closing = [c \in Closers |-> 0]
  /\ failedAt = [c \in Closers |-> 0]
-----------------------------------------------------------------------------
(* The next service is built: its connections are opened in order, and the *)
(* first one that cannot be leaves the others open for ever.  Extensions   *)
(* are there in one region only.                                           *)
NewClient ==
  /\ stage = "building"
  /\ LET s == built + 1
     IN \/ /\ Services[s] = "extension" => region = "us-central1"
           /\ open' = open \cup ({s} \X Connections(s))
           /\ built' = s
           /\ stage' = IF s = Len(Services) THEN "ready" ELSE stage
        \/ /\ \E made \in {{}, {<<s, 1>>}} :
                 /\ Cardinality(made) < Cardinality(Connections(s))
                 /\ Services[s] = "extension" /\ region # "us-central1" => made = {}
                 /\ open' = open \cup made
           /\ stage' = "failed"
           /\ UNCHANGED built
  /\ UNCHANGED <<region, closing, failedAt>>

(* Some services close once and then do nothing; the one for RAG closes    *)
(* nothing; the others close their connection, which fails when it is      *)
(* closed already.                                                         *)
ClosesTwice(s) == Services[s] \in {"extension", "prompts", "rag"}
Refuses(s) == ~ClosesTwice(s) /\ OpenOf(s) = {}
(* Mutation: the second connection stays open.                             *)
ClosedFirst(s) == open \ {<<s, 1>>}
Closed(s) == IF Services[s] = "rag" THEN open ELSE open \ OpenOf(s)

(* A user of the client closes a service that the client gave out.         *)
CloseService(s) ==
  /\ stage = "ready"
  /\ ~Refuses(s)
  /\ open' = Closed(s)
  /\ UNCHANGED <<region, stage, built, closing, failedAt>>

Close(c) ==
  /\ stage = "ready"
  /\ closing[c] = 0
  /\ closing' = [closing EXCEPT ![c] = 1]
  /\ failedAt' = [failedAt EXCEPT ![c] = 0]
  /\ UNCHANGED <<region, stage, built, open>>

CloseNext(c) ==
  /\ closing[c] > 0
  /\ LET s == closing[c]
     IN IF Refuses(s)
        THEN /\ closing' = [closing EXCEPT ![c] = 0]
             /\ failedAt' = [failedAt EXCEPT ![c] = s]
             /\ UNCHANGED open
        ELSE /\ open' = Closed(s)
             /\ closing' = [closing EXCEPT ![c] = IF s = Len(Services) THEN 0 ELSE s + 1]
             /\ UNCHANGED failedAt
  /\ UNCHANGED <<region, stage, built>>

(* The checks ask whether a service was built, and not whether it is open. *)
HealthCheck == stage = "ready" /\ \A s \in All : s <= built
GetServiceStatus ==
  {Services[s] : s \in {t \in All : t <= built}}

Next ==
  \/ NewClient
  \/ \E s \in All : CloseService(s)
  \/ \E c \in Closers : Close(c) \/ CloseNext(c)

Spec == Init /\ [][Next]_vars
-----------------------------------------------------------------------------
TypeOK ==
  /\ region \in Regions /\ stage \in {"building", "failed", "ready"}
  /\ built \in 0 .. Len(Services)
  /\ open \subseteq All \X {1, 2} /\ \A p \in open : p[2] \in Connections(p[1])
  /\ closing \in [Closers -> 0 .. Len(Services)]
  /\ failedAt \in [Closers -> 0 .. Len(Services)]

(* client.go:262: whatever a Close has passed is closed, the connections   *)
(* for RAG excepted, and stays so; where one failed, everything before is  *)
(* closed.  So a Close that succeeds leaves nothing else open.             *)
ClosedInOrder ==
  \A c \in Closers :
    LET passed == IF closing[c] > 0 THEN closing[c] ELSE failedAt[c]
    IN \A s \in 1 .. passed - 1 : Services[s] # "rag" => OpenOf(s) = {}

(* The connections for RAG outlive every Close, and a client that cannot   *)
(* be built keeps those of the services before the one that failed.        *)
LeaksWhatItLeaves ==
  /\ stage = "ready" => OpenOf(7) # {}
  /\ \A s \in 1 .. built : stage # "ready" => OpenOf(s) # {}

(* A client is healthy even when all of it is closed; outside of the one   *)
(* region with extensions there is none.                                   *)
HealthIsBeingBuilt ==
  HealthCheck => region = "us-central1" /\ GetServiceStatus = {Services[s] : s \in All}

(* Why these hold: what was built is open while the client is built, and   *)
(* closed only once it is ready.                                           *)
BuiltInOrder ==
  /\ stage # "ready" => \A s \in 1 .. built : {s} \X Connections(s) \subseteq open
  /\ stage = "building" => built < Len(Services)
  /\ stage = "ready" => built = Len(Services) /\ {7} \X Connections(7) \subseteq open
  /\ built >= 5 => region = "us-central1"
  /\ \A c \in Closers :
       /\ stage # "ready" => closing[c] = 0 /\ failedAt[c] = 0
       /\ closing[c] > 0 => failedAt[c] = 0
=============================================================================
