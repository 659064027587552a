------------------------------ MODULE Services ------------------------------
(***************************************************************************)
(* The services that keep state, side by side in one specification: they   *)
(* share nothing.  part says which one a behaviour is about, and v1 to v9  *)
(* are its variables.                                                      *)
(***************************************************************************)
EXTENDS Integers, Sequences, FiniteSets

CONSTANTS
  Nil,                           \* no goroutine, creator or configuration
  Callers,                       \* goroutines that use a service
  Readers,                       \* goroutines that use the collector of metrics
  Users, UserOf,                 \* users, and whose call one of a credential is
  PromptNames, PromptIds, VersionIds,
  SessionIds, MaxEvents, MaxSessions,
  FileSessions, Files, UserFiles, FileContents, MaxSaves,
  ModelNames, Patterns, Matching, Creators, CacheSize,
  Types, Configured, MaxExtensions,
  CorpusConfigs, MaxFiles, MaxPending,
  Corpora, MaxDocuments,
  Regions,
  MaxObjects, MaxContent,
  Contexts, ToolContexts, Prepared, StateKeys, MaxValues,
  Processors, Callbacks, MaxSteps, MaxYields, MaxResponses

ASSUME MetricsAssumption == Nil \notin Readers /\ IsFiniteSet(Readers)
ASSUME PromptsAssumption == "" \in PromptNames
ASSUME SessionsAssumption == MaxEvents \in Nat /\ MaxSessions \in Nat
ASSUME ArtifactsAssumption == MaxSaves \in Nat
ASSUME RegistryAssumption ==
  Nil \notin Creators /\ CacheSize \in Nat \ {0} /\ IsFiniteSet(ModelNames)
ASSUME CredentialsAssumption == UserOf \in [Callers -> Users]
ASSUME ExtensionsAssumption ==
  Nil \notin Callers /\ "none" \notin Types /\ MaxExtensions \in Nat
ASSUME RagAssumption == "nobody" \notin Callers /\ MaxFiles \in Nat
ASSUME RetrievalAssumption == MaxDocuments \in Nat
ASSUME PoolsAssumption == MaxObjects \in Nat /\ MaxContent \in Nat
ASSUME StatesAssumption == MaxValues \in Nat
ASSUME StepsAssumption == MaxSteps \in Nat \ {0}

VARIABLES part, v1, v2, v3, v4, v5, v6, v7, v8, v9

vars == <<part, v1, v2, v3, v4, v5, v6, v7, v8, v9>>

Metrics == INSTANCE PromptMetrics WITH
  Users <- Readers, None <- Nil,
  todo <- v1, started <- v2, depth <- v3, writer <- v4, writing <- v5, recorded <- v6, failures <- v7,
  parted <- v8

Prompt == INSTANCE Prompts WITH
  PromptCalls <- Callers, Names <- PromptNames, NoName <- "", Ids <- PromptIds, NoId <- "",
  promptCache <- v1, versionCache <- v2, call <- v3, known <- v4, overlaps <- v5

Session == INSTANCE Sessions WITH
  Clients <- Callers,
  sessions <- v1, appState <- v2, userState <- v3, handle <- v4, appended <- v5, created <- v6,
  panicked <- v7

Artifact == INSTANCE Artifacts WITH
  Sessions <- FileSessions, Contents <- FileContents,
  artifacts <- v1, blobs <- v2, pending <- v3, promised <- v4, saves <- v5, answer <- v6

Registry == INSTANCE ModelRegistry WITH
  Resolvers <- Callers,
  registry <- v1, modelCache <- v2, resolving <- v3, replaced <- v4

Credential == INSTANCE Credentials WITH
  Calls <- Callers,
  setup <- v1, exchanged <- v2, saved <- v3, oauth <- v4, codeUsed <- v5, step <- v6, token <- v7,
  refused <- v8, early <- v9

Extension == INSTANCE Extensions WITH
  NoConfig <- Nil,
  extensions <- v1, hub <- v2, resourceName <- v3, cached <- v4, specMu <- v5, initialized <- v6, call <- v7

Rag == INSTANCE RagMemory WITH
  Configs <- CorpusConfigs,
  corpus <- v1, files <- v2, made <- v3, pending <- v4, call <- v5

Retrieve == INSTANCE Retrieval WITH
  documents <- v1, uploads <- v2, request <- v3, response <- v4, memories <- v5

Vertex == INSTANCE VertexClient WITH
  Closers <- Callers,
  region <- v1, stage <- v2, built <- v3, open <- v4, closing <- v5, failedAt <- v6

Pool == INSTANCE BufferPool WITH
  pooled <- v1, made <- v2, call <- v3, output <- v4, bytes <- v5

Auth == INSTANCE AuthRequests WITH
  config <- v1, requested <- v2, stored <- v3, answer <- v4, outcome <- v5

State == INSTANCE StateContexts WITH
  Actors <- Callers, Keys <- StateKeys,
  shared <- v1, delta <- v2, values <- v3, busy <- v4, written <- v5, saved <- v6, crashed <- v7

Llm == INSTANCE LlmSteps WITH
  MaxEvents <- MaxYields,
  agent <- v1, at <- v2, i <- v3, last <- v4, endInvocation <- v5, steps <- v6, yielded <- v7, calls <- v8

Init ==
  \/ part = "metrics" /\ Metrics!Init /\ v9 = 0
  \/ part = "prompts" /\ Prompt!Init /\ v6 = 0 /\ v7 = 0 /\ v8 = 0 /\ v9 = 0
  \/ part = "sessions" /\ Session!Init /\ v8 = 0 /\ v9 = 0
  \/ part = "artifacts" /\ Artifact!Init /\ v7 = 0 /\ v8 = 0 /\ v9 = 0
  \/ part = "registry" /\ Registry!Init /\ v5 = 0 /\ v6 = 0 /\ v7 = 0 /\ v8 = 0 /\ v9 = 0
  \/ part = "credentials" /\ Credential!Init
  \/ part = "extensions" /\ Extension!Init /\ v8 = 0 /\ v9 = 0
  \/ part = "rag" /\ Rag!Init /\ v6 = 0 /\ v7 = 0 /\ v8 = 0 /\ v9 = 0
  \/ part = "retrieval" /\ Retrieve!Init /\ v6 = 0 /\ v7 = 0 /\ v8 = 0 /\ v9 = 0
  \/ part = "client" /\ Vertex!Init /\ v7 = 0 /\ v8 = 0 /\ v9 = 0
  \/ part = "pools" /\ Pool!Init /\ v6 = 0 /\ v7 = 0 /\ v8 = 0 /\ v9 = 0
  \/ part = "auth" /\ Auth!Init /\ v6 = 0 /\ v7 = 0 /\ v8 = 0 /\ v9 = 0
  \/ part = "states" /\ State!Init /\ v8 = 0 /\ v9 = 0
  \/ part = "steps" /\ Llm!Init /\ v9 = 0

MetricsStep == part = "metrics" /\ Metrics!Next /\ UNCHANGED <<part, v9>>
PromptStep == part = "prompts" /\ Prompt!Next /\ UNCHANGED <<part, v6, v7, v8, v9>>
SessionStep == part = "sessions" /\ Session!Next /\ UNCHANGED <<part, v8, v9>>
ArtifactStep == part = "artifacts" /\ Artifact!Next /\ UNCHANGED <<part, v7, v8, v9>>
RegistryStep == part = "registry" /\ Registry!Next /\ UNCHANGED <<part, v5, v6, v7, v8, v9>>
CredentialStep == part = "credentials" /\ Credential!Next /\ UNCHANGED part
ExtensionStep == part = "extensions" /\ Extension!Next /\ UNCHANGED <<part, v8, v9>>
RagStep == part = "rag" /\ Rag!Next /\ UNCHANGED <<part, v6, v7, v8, v9>>
RetrieveStep == part = "retrieval" /\ Retrieve!Next /\ UNCHANGED <<part, v6, v7, v8, v9>>
VertexStep == part = "client" /\ Vertex!Next /\ UNCHANGED <<part, v7, v8, v9>>
PoolStep == part = "pools" /\ Pool!Next /\ UNCHANGED <<part, v6, v7, v8, v9>>
AuthStep == part = "auth" /\ Auth!Next /\ UNCHANGED <<part, v6, v7, v8, v9>>
StateStep == part = "states" /\ State!Next /\ UNCHANGED <<part, v8, v9>>
LlmStep == part = "steps" /\ Llm!Next /\ UNCHANGED <<part, v9>>

Next ==
  \/ MetricsStep \/ PromptStep \/ SessionStep \/ ArtifactStep \/ RegistryStep \/ CredentialStep
  \/ ExtensionStep \/ RagStep \/ RetrieveStep \/ VertexStep
  \/ PoolStep \/ AuthStep \/ StateStep \/ LlmStep

Spec == Init /\ [][Next]_vars
-----------------------------------------------------------------------------
(* The variables of each service have their types.                         *)
ServicesTypeOK ==
  /\ part = "metrics" => Metrics!TypeOK
  /\ part = "prompts" => Prompt!TypeOK
  /\ part = "sessions" => Session!TypeOK
  /\ part = "artifacts" => Artifact!TypeOK
  /\ part = "registry" => Registry!TypeOK
  /\ part = "credentials" => Credential!TypeOK
  /\ part = "extensions" => Extension!TypeOK
  /\ part = "rag" => Rag!TypeOK
  /\ part = "retrieval" => Retrieve!TypeOK
  /\ part = "client" => Vertex!TypeOK
  /\ part = "pools" => Pool!TypeOK
  /\ part = "auth" => Auth!TypeOK
  /\ part = "states" => State!TypeOK
  /\ part = "steps" => Llm!TypeOK

(* metrics.go: a collector stops only on its own nested read lock, and     *)
(* counts a failed operation twice.                                        *)
MetricsSound ==
  part = "metrics" =>
    Metrics!Exclusion /\ Metrics!StopsOnlyOnNestedRead /\ Metrics!FailuresCountTwice

(* service.go: names of prompts clash only by a race of creations, and     *)
(* versions are versions of a prompt.                                      *)
PromptsSound == part = "prompts" => Prompt!NamesClashOnlyByRace /\ Prompt!VersionsHaveAPrompt

(* in_memory_service.go, session_state.go: copies show parts of one         *)
(* history, and the shared state is that of the last event; two callers    *)
(* touch the map of a session at once only through different contexts, and *)
(* what is pending in a context is what it last set.                       *)
SessionsSound ==
  /\ part = "sessions" => Session!CopiesAreSubsequences /\ Session!SharedStateIsCurrent
  /\ part = "states" => State!ClashesBetweenContexts /\ State!PendingIsLastSet

(* in_memory_service.go: no two saves of an artifact answer the same       *)
(* version, loads answer what the latest stored, and listings what saves   *)
(* answered.  A batch on a RAG corpus stops at its first failure with the  *)
(* files before it done and no operation is started twice; memories are    *)
(* those of documents.                                                     *)
ArtifactsKept ==
  /\ part = "artifacts" =>
       /\ Artifact!SavesMakeNewVersions("memory")
       /\ Artifact!LoadsGiveTheLatest /\ Artifact!ListingsAreComplete
  /\ part = "rag" => Rag!BatchesDeleteInOrder /\ Rag!BatchesImportOnce /\ Rag!WaitedForIsPending
  /\ part = "retrieval" => Retrieve!MemoriesOfDocuments

(* "Each save operation creates a new version" (artifact/doc.go:30): no    *)
(* two saves of the GCS service answer the same version.                   *)
BlobSavesMakeNewVersions == part = "artifacts" => Artifact!SavesMakeNewVersions("gcs")

(* registry.go: the cache is bounded and answers what the registry would.  *)
(* extension/service.go: a cached specification is that of its extension,  *)
(* and callers who do not share a configuration do not see each other's.   *)
(* client.go: services close in order, a failure leaves open what it has   *)
(* not reached, and health is asked of services that are being built.      *)
RegistrySound ==
  /\ part = "registry" => Registry!CacheBounded /\ Registry!CacheIsCurrentOrReplaced
  /\ part = "extensions" => Extension!CachedSpecBelongs /\ Extension!ConfigsKeptApart
  /\ part = "client" =>
       Vertex!ClosedInOrder /\ Vertex!LeaksWhatItLeaves /\ Vertex!HealthIsBeingBuilt

(* The code is sent once, and an expired token is used only when the       *)
(* server refused to renew it.  A request for credentials carries no new   *)
(* URI, and what was answered is stored.  A pooled object has one owner,   *)
(* its dirt is that of calls that did not reset it, and the output of a    *)
(* call ends with its own.                                                 *)
CredentialsSound ==
  /\ part = "credentials" => Credential!CodeSentOnce /\ Credential!ExpiredOnlyUnrefreshed
  /\ part = "auth" => Auth!RequestsHaveNoNewURI /\ Auth!StoredAsAnswered
  /\ part = "pools" => Pool!OneOwner /\ Pool!DirtIsLeft /\ Pool!OutputEndsWithOwn

(* llm_flow.go: a step follows only events that left the run open, and the *)
(* answer of the model is heard once.                                      *)
StepsInOrder == part = "steps" => Llm!StepsFollowOpenEvents /\ Llm!ModelIsHeardOnce
=============================================================================
