# A TLA+ verification of adk-go

This directory is a TLA+ model of `adk-go`: its concurrent core, the flow of an agent,
and the services and models it talks to, with TLC configurations that check it on small
instances and TLAPS proofs of the properties that matter most. Every definition is translated from the source under `src/`;
`PROJECT.json` maps each one to the lines it stands for.

- [1. The system](#1-the-system): its parts, their state, how they interact
- [2. Plan](#2-plan): modules, order, what is left
- [3. Modules](#3-modules): how each corresponds to the code
- [4. Runs](#4-runs): what TLC checks, on which bounds, and what it shows
- [5. Fairness](#5-fairness)
- [6. Proofs](#6-proofs)
- [7. Where code and documents disagree](#7-where-code-and-documents-disagree)
- [8. What is not modelled, and what is only model-checked](#8-what-is-not-modelled)

## 1. The system

adk-go is a Go port of an agent development kit. An *agent* is a generator of
*events*; a *flow* drives a language model and its tool calls; *services* keep
sessions, artifacts and memories. Under it lies `pkg/py/pyasyncio`, a port of Python's
asyncio primitives, on which the live (streaming) flow is built.

| Component | State it keeps | Operations | Talks to |
|---|---|---|---|
| `pyasyncio.Queue` (`queue.go`) | a mutex, three condition variables, `items`, `unfinished`, `closed`; per blocking call a worker goroutine, a `done` and a `cancelled` channel | Put, Get, PutNowait, GetNowait, TaskDone, Join, Close | the live request queue |
| `pyasyncio.Task` (`task.go`) | atomic state, result, error, callbacks, `done` channel, a context and its cancel | CreateTask, run, Cancel, AddCallback, Wait, Result | TaskGroup, WaitFor |
| `pyasyncio.TaskGroup` (`task_group.go`) | tasks, `activeCount`, `finished`, collected errors and results, `done` channel, a group context | CreateTask, monitorTask, Wait, Cancel, Close, Gather | Task |
| `pyasyncio.WaitFor*` (`wait_for.go`) | one call: a timeout context, a task or a group, a polling goroutine | WaitFor, WaitForTask, WaitForAny, WaitForAll | Task, TaskGroup |
| `pyasyncio.AsyncExitStack` (`contextlib.go`) | `callbacks`, `closed`, `entered` under a mutex | EnterAsyncContext, EnterContext, Push*, Callback*, PopAll, AClose, AExit | clients' managers and exits |
| `types.BaseAgent` (`agent_base.go`) | none of its own; writes `Branch`, `Agent`, `EndInvocation` of the *shared* invocation context | Run, before and after callbacks, Execute | every agent |
| workflow agents (`agent/*_agents.go`) | loop counter; MergeAgentRun: a cancellable context, an unbuffered channel, a wait group | Execute, MergeAgentRun | BaseAgent |
| LLM flow (`llm_flow.go`, `contents.go`, `functions.go`) | model connection, live queue, call counter, pending function calls | Run, RunLive, sendToModel, receiveFromModel, contents of a request, HandleFunctionCalls | models, tools, queue |
| LLM agent (`llm_agent.go`) | its settings and callbacks | construction, Execute, canonical lookups | LLM flow |
| authentication (`types/auth_*.go`, `llmflow/auth.go`, `auth/`) | one AuthConfig with an OAuth2 object per tool, stored credentials | GetAuthCredential, exchange, refresh, save; requests for credentials and their answers | tools, session state |
| session service and `State` (`in_memory_service.go`, `session_state.go`) | sessions by app, user and id; app and user state; per context a delta | Create, Get, List, Delete, AppendEvent; State Get, Set, Update | flow, callbacks |
| artifact services (`artifact/`) | versions per file, in a slice or as blobs | Save, Load, List, Delete | tools, callbacks |
| memory services (`memory/`) | events per session, or documents of a RAG corpus | AddSessionToMemory, SearchMemory | tools, RAG |
| model registry (`registry.go`) | patterns with creators, a bounded cache | RegisterLLM, NewLLM, ResolveLLM | flow |
| models (`google_llm.go`, `anthropic.go`, `gemini_connection.go`) | per stream the text so far; per connection history, a response channel, a mutex | GenerateContent, streams, SendContent, SendRealtime, Close | remote models |
| code executors (`codeexecutor/`) | files in a directory, containers, error counts in session state | ExecuteCode, retries, Close | code execution tool |
| Vertex AI clients (`internal/vertexai`) | prompt caches and metrics behind RWMutexes, extension specification, RAG corpora, ten services | Create, Update, versions, restore, templates; import, delete, query; Close | remote services |
| tools (`tool/tools`) | none | declarations of Go functions, schemas for Gemini, validation | models |
| conversions (`types/aiconv`) | none | genai messages to AI Platform messages and back | models |
| `internal/pool` | buffers and string builders in `sync.Pool`s | Get, Put, by twelve users | the above |

What is hard here is what Go lets happen between two lines: workers that outlive
their callers, locks released to poll a channel, condition variables signalled once
per change, contexts that end at any moment, a channel closed by one goroutine while
others send, one mutable invocation context for all parallel sub-agents, events that
are dropped when a consumer stops. `PROJECT.json` lists these hazards line by line
with the properties that would catch them going wrong.

What would make each part correct:

- **Queue**: linearizable as a FIFO queue; nothing lost or delivered twice; counts
  right; no wakeup lost; Join waits for what was accepted; blocked calls are served.
- **Task, TaskGroup**: callbacks run exactly once; `done` is closed once and only
  when everything is collected; a failure ends the group; results are reported truly.
- **WaitFor**: a timed call returns though functions do not; its answer is a task's
  answer; no task is left unaware that the call is over.
- **AsyncExitStack**: every registered exit runs exactly once, in reverse order;
  the reported error is one nobody suppressed.
- **Agents**: a merge loses no event, leaks no goroutine, and keeps its peers'
  branches apart; loops keep their bound.
- **LLM flow**: contents reach a live model in order and once; a close ends the sender;
  responses of functions follow their calls; whoever waits for function calls hears of
  them; an answer of the model is heard once.
- **Services**: a copy of a session shows a part of one history; a save makes a new version
  of an artifact, and a load answers what a save stored; caches answer what they cache;
  credentials are fetched once and renewed.
- **Data**: what was read from a model can be sent to it again; nothing a stream brought
  is lost or doubled; a schema that is generated is valid.

## 2. Plan

The order is by how much of the rest depends on the part and how hard it is to test. All
steps are done:

1. `FifoQueue` (what a queue promises), `Queue` (implements it), proofs `QueueProofs`,
   `QueueRefinement`.
2. `Task`, composed by `TaskGroup`, composed by `WaitFor`; proofs `TaskGroupProofs`,
   `WaitForProofs`.
3. `AgentRun`: BaseAgent.Run under a sequential, loop or parallel agent; `AgentRunProofs`.
4. `AsyncExitStack`; `ExitStackProofs`.
5. `Flows`: the flows of an invocation (`LiveFlow`, `FunctionCalls`, `CodeExecution`,
   `Contents`, `Models`), each a module, side by side in one specification; `FlowProofs`.
6. `Services`: fourteen services and parts of a step, side by side in one specification;
   `ServiceProofs`. `MCServices` adds three modules about data, which TLC alone checks:
   `Conversions`, `Schemas`, `PromptTemplates`.

What is left, in order of what it would add: the live variant of HandleFunctionCalls with
its streaming tools, composed with `LiveFlow`; ExecuteLive of the workflow agents; a
composition of `StateContexts` with `Sessions`, so that deltas reach the stored session.

## 3. Modules

**`Queue`** - `queue.go`. One action is one critical section of `q.mu`, or one channel
or condition-variable operation outside it. Calls are one-shot and known by identity;
a put's item is its own identity, so that delivery can be followed.

| in the code | in the model |
|---|---|
| `Put`, `Get`, `Join` up to the `select` | `Start` |
| the worker: first lock, poll of `cancelled`, second lock, loop after `Wait` | `WorkerLock`, `WorkerCheck`, `WorkerRelock`, `WorkerWoken` |
| `putItem`, `getItem` and the send on `done` | `putItem`, `getItem`, `Answer` |
| `case <-done`, `case <-ctx.Done()` with `close(cancelled)`, `Broadcast`, `<-done` | `SelectDone`, `SelectCancelled`, `CancelBroadcast`, `Drain` |
| `Signal`, `Broadcast`, `Wait` | which `worker[c] = "wait"` becomes `"woken"` |
| `PutNowait`, `GetNowait`, `TaskDone`, `Close` | one action each |

`Signal` wakes an arbitrary sleeper (Go promises no order that clients may rely on).
A woken worker holds no lock yet and competes for it, so nowait calls may run first.

**`FifoQueue`** - the abstract queue: every call is invoked, takes effect at one
instant and returns. `Queue!Fifo` maps the detailed queue to it: the phase of a call
is read off its caller and its worker.

**`Task`, `TaskGroup`, `WaitFor`** - `task.go`, `task_group.go`, `wait_for.go`. `Task`
defines the goroutine of a task step by step (`RunStart`, the function's return,
`RunFinish`, `ExecuteCallbacks`, `CloseDone`), `AddCallback` and the two steps of
`Cancel`. `TaskGroup` adds the creation, the monitor goroutine, the group context and
a `Wait`. `WaitFor` adds one caller in one of five modes, its timeout context
(`tctx`), the deferred `Close` and `cancel` of its return, and the goroutine with
which WaitForAny polls. The functions are the environment: they return at any time, or
never, with either outcome.

**`AgentRun`** - `agent_base.go`, `sequential_agents.go`, `loop_agents.go`,
`parallel_agents.go`. A range-over-func generator is modelled by its program counter:
`gen[a] = "yieldExec"` is "inside `yield`". Under a sequential or loop agent the
generator and its consumer are one goroutine (`Take`, `TakenContinue`, `TakenStop`);
under MergeAgentRun each has its own and an event crosses a channel (`Deliver`,
`Abandon`), with a closer (`CloseChannel`). Of an event the model keeps its author, the
branch it carries and whether it escalates. `createInvocationContext` is a read and a
write of the one shared `Branch`, as in the code. A workflow agent is modelled at its
`Execute`. A sub-agent whose before-callback, Execute or after-callback fails just ends
(the code builds the error and drops it).

**`AsyncExitStack`** - `contextlib.go`. Entering a manager is three steps (test of
`closed` under the lock, the manager's own enter without it, the append under it);
pushes, `PopAll` and the start of an unwinding are one critical section each; the
unwinding runs one exit a step, outside the lock.

**`LiveFlow`** - `RunLive`, `sendToModel` and `receiveFromModel` of `llm_flow.go`,
`agent_live_request_queue.go` and `gemini_connection.go`, composed: clients put requests,
close requests and activity signals into the bounded queue (`Put` fails silently when it
is full), the sending task takes one (`Get`, `Check`) and sends it (`SendContent`,
`SendRealtime`, `Close`), each under the connection's mutex; a content starts a goroutine
that generates responses into `responseCh` with the mutex held (`Generate`); the caller
receives and processes (`Receive`, `Process`, `Wait`). The context ends by a deadline or
a cancellation (`EndContext`), which the code tells apart by accident.

**`FunctionCalls`** - `HandleFunctionCalls`: one action per step of its goroutine
(`NextCall`, `BeforeToolCallback`, `CallTool`, `AfterToolCallback`, the merge and the
send), the two buffered channels, and the caller's select (`Receive`). What callbacks and
tools answer is any outcome.

**`LlmSteps`** - `llm_agent.go` and the unary half of `llm_flow.go`: construction and its
checks, Execute, Run with its loop of steps, the request processors, and the call of the
model with its callbacks and the count of calls. In the code no step makes that call
(`runOneStep` ends before it), so it is modelled beside the run.

**`Contents`** - `contents.go`: which events of a session become contents and in which
order: filters by branch, author and credentials, and the two rearrangements that put the
responses of functions behind their calls.

**`Sessions`**, **`StateContexts`** - `in_memory_service.go` (one action per operation, one
critical section each; clients hold copies) and `session_state.go` with the callback and
tool contexts (a read or write of a map is a step with a begin and an end, so that two can
overlap; Go may or may not notice that they do).

**`Artifacts`**, **`RagMemory`**, **`Retrieval`** - the artifact services, the RAG
corpora with long-running operations and batches, and queries with the memories made of
their answers. Every operation of the memory service of artifacts is one step under its mutex;
what LoadArtifact, ListVersions and ListArtifactKey answer is kept in `answer`, and compared with
what saves answered (`promised`), not with the slice. Of the GCS service every request to storage
is a step and may fail; an object exists from the close of its writer on.

**`ModelRegistry`**, **`Models`** - the three critical sections of ResolveLLM, and the two
models: what of a history is sent, how the chunks of a stream are collected and yielded,
and what of the response goes back into the history.

**`Credentials`**, **`AuthRequests`**, **`BufferPool`** - the credential manager, step by
step for concurrent calls that share one OAuth2 object, with a server that accepts a code
once, tokens that expire, and the two credential services; the requests made of an
AuthConfig and the answers read from events; the pools with each of their users, who
finds in a buffer what the last one left.

**`Prompts`**, **`PromptMetrics`**, **`PromptTemplates`**, **`Extensions`**,
**`VertexClient`** - `internal/vertexai`: operations on the prompt caches as sequences of
critical sections, of the metrics as sequences of lock operations on a writer-preferring
RWMutex (Reset is the step `Zero`, between any two steps of an operation that fails; GetSnapshot
is GetUptime and GetAllMetrics, two operations with no lock around them), the simple template engine, the extension service with its cached specification,
and the client that builds and closes ten services.

**`CodeExecution`** - `local.go`, `container.go`, `context.go` and the tool: concurrent
calls with retries, one work directory, one container an attempt, Close at any time.

**`Conversions`**, **`Schemas`** - `aiconv.go` and the schema utilities as operators from
a message, or a schema, to the set of its results (none when the code panics), checked
over all messages of a bounded shape. A history begins with a message of the program, that is
sent and read back, or with one of the model, that is read: its texts may be empty, and its data
have video metadata beside them, which the program's cannot.

**`Flows`, `Services`** - side by side what shares nothing: each instantiates its modules
over the same few variables, `part` says which module a behaviour is about, a step is a
step of that module, and a property is a conjunction of the modules' own.

`MCQueue`, `MCTaskGroup`, `MCWaitFor`, `MCAgentRun`, `MCAsyncExitStack`, `MCFlows` name the
model values and sequences the configurations use; `MCServices` does, and extends
`Services` by the three modules about data as further parts.

## 4. Runs

| run | instance | distinct states | what it shows |
|---|---|---|---|
| `queue` | size 1; two blocking and one nowait put; a cancellable and a nowait get; a join; Close | 482 000 | `TypeOK`, `NoLostWakeup`, `Accounting`, `DeliveredOnce`, `JoinWaitsForAll`; the detailed queue refines `FifoQueue` |
| `queue_live` | size 1; two puts, one cancellable; a blocking and a nowait get; a join | 88 000 | a call that could be served for good is served, though cancelled and nowait calls take signals |
| `queue_cancel` | same | - | a cancelled Put may never return (section 7) |
| `task_group` | three tasks, one cancellable; one callback; a waiter | 803 000 | callbacks run once; done closed once at the end; counts and collected outcomes agree; Wait returns everything; one failure ends the group |
| `wait_for` | three functions, all five modes | 316 000 | answers are true, a return stops the tasks, timed calls return |
| `wait_for_cause` | same | - | Gather fails though nothing failed (section 7) |
| `agents` | two sub-agents, two events each, all three workflow agents, a loop of 4 | 98 000 | a merge loses nothing, leaks nothing; loop bound |
| `agents_branch` | parallel only | - | a sub-agent's event carries its peer's branch (section 7) |
| `exit_stack` | a manager, an exit function, a callback; two closers; one PopAll | 400 000 | each exit waits, is in hand or has run, exactly one of these; LIFO; errors accounted |
| `flows` | `LiveFlow` with a queue and a response channel of 2, 3 requests; 3 function calls, 2 callbacks of a kind; 2 code executions, 1 retry; `Contents` of 3 events with 2 call ids; `Models` over 2 turns of 2 chunks | 790 000 | contents and responses in order, no send on a closed channel, a close ends the sender, whoever waits for function calls hears; calls run their own code; a response is sent behind its call, the rest in its order; the chunks of a stream are collected once, and what a model answered is sent back to it |
| `services` | see below | 2 041 000 | the services' and conversions' properties |
| `artifact_versions` | as `services`, but one caller, and 3 saves | - | two saves of the GCS service answer the same version, one after the other (section 7) |

The properties of `services`, by part:

| property | parts | what it says |
|---|---|---|
| `ServicesTypeOK` | all | types |
| `MetricsSound` | metrics (3 goroutines) | readers and a writer exclude each other; a stop has one cause, a nested read lock; a failure counts twice, unless a Reset parted its record from its error |
| `PromptsSound` | prompts (2 calls, 2 ids, 1 version) | two prompts have one name only by a race or an update; a version has a prompt |
| `SessionsSound` | sessions (2 clients, 2 users, 3 events), states (2 goroutines, 4 contexts) | a copy is a part of the stored history; shared state is not older than its events; only different contexts clash in a map; what is pending was set last |
| `ArtifactsKept` | artifacts (2 callers, 2 saves), rag (2 callers, 2 files), retrieval (2 corpora, 2 documents) | saves of the memory service make new versions, loads answer the latest, listings are complete; a batch stops at its first failure with the rest done; memories are those of documents |
| `RegistrySound` | registry (2 resolvers, 3 names, cache of 2), extensions (2 callers), client (2 closers, 2 regions) | the cache is bounded and current but for replaced creators; a cached specification belongs to its extension but for named races; services close in order |
| `CredentialsSound` | credentials (2 calls, 2 users), auth, pools (2 callers, 2 objects) | a code is exchanged once; an expired token is used only when it could not be renewed; a buffer has one owner and what it holds has a known origin |
| `StepsInOrder` | steps (3 steps, 4 events) | a step follows an open event; the model is heard once |
| `HistoryCanBeResent` | messages (two round trips, from the program or from the model) | what was read converts again and comes back the same, but for empty texts, which panic, and video metadata beside a datum, which is lost; a response loses none of its counts, ratings and reasons |
| `SchemasSound` | schemas, templates (3 pieces, 2 letters) | what is generated passes the validator; snake case is stable; replacing variables one by one is replacing them at once |

Why the bounds are enough to be interesting. *Queue*: with size 1 and two puts a put
sleeps, with a nowait get its signal can be stolen, with three puts a put can be woken
into a full queue, the cancellable get can take an item its caller no longer awaits.
*Groups*: with three tasks the group can finish between two creations, two monitors can
race for the last place, and a failure can meet a task that is still being created.
*WaitFor*: three functions let one succeed, one fail and one run for ever. *Agents*:
two sub-agents are enough for a race on the branch and for two senders at the closing of
a channel; two events each let one be abandoned after another was delivered. *Loop*: 4
is more than one round of 2 and a round ends exactly at the bound; the off-by-one
variant of the code is caught. *Stack*: two closers race for one stack or close two; the
three items are one of each kind the loop of `unwindStack` distinguishes.

*Flows*: with a queue and a channel of 2 and 3 requests both fill, a close is lost, and
the mutex is held by a goroutine that waits; 3 calls, one of an unknown and one of a
long-running tool, meet every branch of the loop; 3 events and 2 ids let a
response come late, twice, or for two calls; 2 turns send a streamed answer back, and 2 chunks
can be collected apart or together. *Services*: two callers are enough for
every pair of steps to interleave; two users or sessions show what is shared between
them; each cache is small enough to be full. *Conversions*: every kind of part alone, every
combination of optional fields that one branch of the code tells apart; in messages of the model
also the empty text, the empty part, and metadata beside any datum. *Artifact versions*: the first
save of a file cannot succeed (section 7), so that it takes three saves for two to be promised.

Deadlock checking is off in every run: clients make finitely many calls (each call is
one-shot) and may then all have returned, so a stop is legitimate; goroutines
that are stuck when they should not be are the liveness properties' business.

Each property of a passing run is paired in `PROJECT.json` with a *mutant*, a variant
of one definition with a plausible bug (a dropped signal, an off-by-one, a missing
cancel), under which TLC finds that property violated. The variants stand next to the
definitions they vary, marked `Mutation`.

## 5. Fairness

Weak fairness is assumed of goroutines of the package, nothing else: the Go scheduler
runs each runnable goroutine, and `sync.Mutex` hands itself to a waiter that starves.

- `Queue!Fairness`: each call's worker and caller step. No fairness for starting a
  call, cancelling, TaskDone or Close.
- `TaskGroup!Fairness`: run(), monitors and the released Wait step; a function whose
  context is done returns (`task.go` documents cancellation as cooperative).
- `WaitFor!CallFairness`: caller, poller, task goroutines and the passing of the
  deadline; the functions are *not* assumed to return, even when cancelled.
- `AgentRun!Fairness`: sub-agents run to their next yield or end, a sender whose
  context is done leaves, the closer closes. The consumer may stop for ever.
- `LiveFlow!Fairness` and the fairness of `FunctionCalls!Spec` (both in `Flows!Fairness`): the
  sending task, the generating goroutines and the worker of HandleFunctionCalls run. Steps
  that need the connection's mutex are strongly fair: a mutex that is freed again and
  again is won at last (the starvation mode of `sync.Mutex`). Callbacks and tools of
  function calls return; clients owe nothing, and remote answers need not come.

## 6. Proofs

Eight modules, 32 theorems that a reader should know of; every safety invariant the runs
check is among them but the two about data (section 8). Each is about every value of the
constants; what is assumed of them is named where they are declared:

- the queue: `CallsAssumption` (finitely many calls, of one kind each),
  `MaxSizeAssumption`, `NoItemAssumption`;
- tasks and groups: `NoTaskAssumption`; timed calls: `FnsAssumption` (the functions of a
  call are a non-empty sequence without repetition); the stack: `DisjointAssumption`,
  `MaxStacksAssumption`; workflow agents: `SubAgentsAssumption` (a workflow agent has a
  sub-agent, and none twice), `BoundsAssumption`, `KindsAssumption`;
- the flows: `FlowsAssumption` (sizes and bounds, those of the models and of a session
  included, are natural numbers; nothing is assumed of the kinds of part and the call ids);
- the services, one for each part, so that a proof shows what it rests on:
  `MetricsAssumption` and `RegistryAssumption` (finitely many goroutines, or model names,
  and a null that is none of them; a cache has room for an entry), `PromptsAssumption`
  (a request may come without a name), `CredentialsAssumption` (a caller acts for a user),
  `ExtensionsAssumption`, `RagAssumption` (placeholders are not callers),
  `SessionsAssumption`, `ArtifactsAssumption`, `RetrievalAssumption`, `PoolsAssumption`,
  `StatesAssumption`, `StepsAssumption` (bounds are natural numbers).

The proofs about the task group, the wait calls, the exit stack and the workflow agents do
not assume that anything is finite but the number of sub-agents; of the flows and services
only the metrics and the registry assume it, of what they count.

| theorem | statement |
|---|---|
| `QueueProofs!TypeCorrect` | `Spec => []TypeOK`; in particular `unfinished` never goes below zero |
| `QueueProofs!DeliveryCorrect` | `Spec => []DeliveredOnce` |
| `QueueProofs!AccountingCorrect` | `Spec => []Accounting` |
| `QueueProofs!JoinCorrect` | `Spec => []JoinWaitsForAll` |
| `QueueProofs!WakeupCorrect` | `Spec => []NoLostWakeup` |
| `QueueRefinement!RefinementCorrect` | `Spec => ImplementsFifo` |
| `ExitStackProofs!StackTypeCorrect` | `Spec => []TypeOK` |
| `ExitStackProofs!ErrorsCorrect` | `Spec => []ErrorsAccounted` |
| `ExitStackProofs!OrderCorrect` | `Spec => []LastInFirstOut` |
| `ExitStackProofs!ConservationCorrect` | `Spec => []Conservation` |
| `TaskGroupProofs!GroupTypeCorrect` | `Spec => []GroupTypeOK` |
| `TaskGroupProofs!CallbacksCorrect` | `Spec => []CallbacksRunOnce` |
| `TaskGroupProofs!CloseCorrect` | `Spec => []ClosedOnceAtTheEnd` |
| `TaskGroupProofs!GroupAccountCorrect` | `Spec => []GroupAccounting` |
| `TaskGroupProofs!WaitCorrect` | `Spec => []WaitReturnsAll` |
| `WaitForProofs!CallTypeCorrect` | `CallSpec => []CallTypeOK` |
| `WaitForProofs!AnswerCorrect` | `CallSpec => []AnswerIsTrue` |
| `WaitForProofs!ReturnCorrect` | `CallSpec => []ReturnStopsTasks` |
| `AgentRunProofs!RunTypeCorrect` | `Spec => []TypeOK` |
| `AgentRunProofs!MergeCorrect` | `Spec => []NothingLost` |
| `AgentRunProofs!LoopCorrect` | `Spec => []LoopBound` |
| `FlowProofs!FlowsAreTyped` | `Spec => []FlowsTypeOK` |
| `FlowProofs!FlowsDeliver` | `Spec => []DeliversInOrder` |
| `FlowProofs!FlowsExecute` | `Spec => []ExecutionSound` |
| `ServiceProofs!ServicesAreTyped` | `Spec => []ServicesTypeOK` |
| `ServiceProofs!MetricsAreSound` | `Spec => []MetricsSound` |
| `ServiceProofs!PromptsAreSound` | `Spec => []PromptsSound` |
| `ServiceProofs!SessionsAreSound` | `Spec => []SessionsSound` |
| `ServiceProofs!ArtifactsAreKept` | `Spec => []ArtifactsKept` |
| `ServiceProofs!RegistryIsSound` | `Spec => []RegistrySound` |
| `ServiceProofs!CredentialsAreSound` | `Spec => []CredentialsSound` |
| `ServiceProofs!StepsAreInOrder` | `Spec => []StepsInOrder` |

**Queue: types.** One lemma for the workers, one for the callers, and a step for each client
operation; the worker's lemma turns on `CompleteType`, what a finished critical
section writes.

**Queue: delivery and accounting.** Neither is inductive: a step could enqueue a put twice if
its worker could run after it had answered. The strengthening is `IInv == TypeOK /\
Lifecycle /\ DeliveredOnce /\ Accounting`. `Lifecycle` says that a call is *settled*
(made, and without a worker that could act) from the moment it has had its effect: the
put of an accepted item and the get that holds one are settled. The argument has two
halves. `StepEffect` shows, action by action, that a step of the queue does one of four
things to what the properties speak of: it enqueues the item of an unsettled put,
dequeues for an unsettled get, finishes a taken item, or leaves all that alone; and
that settled calls stay settled (`Progress`). The rest (`LifecycleStep`,
`DeliveredOnceStep`, `AccountingStep`) never looks at an action again, only at the four
effects. The count is a cardinality: each effect adds or removes one element of a set
that is shown to have lacked or had it.

**Queue: join.** `JoinInv` ties a join's answer to its history variable: while the call is
idle it has no answer, what it waits for was accepted, and once it is answered that was
all finished. A join is answered only with `unfinished = 0`, and then by `Accounting`
the queue is empty and every taken item is finished; `HistoryGrows` carries it on.

**Queue: wakeups.** `NoLostWakeup` is inductive next to `TypeOK` and `Lifecycle` (an idle call
has no worker). It is one statement, `Covered(S, n)`, about each class of workers: while
one of S sleeps, at least n of S are woken, where n is the number of items for getters
and of free slots for putters. `Gain`, `Leave`, `Keep` and `NothingToCover` say how it
survives a signalled unit, a woken worker that takes one, an idle step, and a worker that
goes back to sleep because there is nothing; each action is one of these for each class.

**Queue: refinement.** `RefinementCorrect` needs, besides `IInv`, the account `CallInv` of
each call: a worker runs only while its caller is in the call and has no answer, and a
caller leaves its select only for a context that is done. What a step does to other calls
is at most to wake their workers (`Apart`), which the mapping does not see (`ApartSame`).
So each action is a lemma about one call: its `Phase` and `Reply` before and after make it
`Invoke`, `Return`, a blocked wait, one of the effects, or, for the steps of a
cancellation, nothing (`Invisible`). The abstract queue is served in the order of `items`,
so the effect of a worker, or of a nowait call, is that of the abstract queue on the same
items.

**Exit stack.** `LastInFirstOut` needs that items are scheduled in the order in which each
stack, and each list in the hands of a closer, holds them (`OrderInv`); PopAll and the
start of an unwinding move a whole list, which keeps its order, and an unwinding takes the
last. `Conservation` counts, over the family of all stacks and all closers' lists, the
places that hold an item (`At`): an append adds one place (`PutOne`), an unwinding takes
one away (`TakeLast`), a move keeps the number (`MoveToOther`, `MoveWithin`), and `PlacedInv`
says what the number is in each state of the item. `ErrorsAccounted` follows the error of
an unwinding from one exit to the next (`LiveStep`): what is reported is the last error
not suppressed since.

**Tasks and groups.** The invariant has four parts. `RunInv`: what a task's goroutine has
written where it is. `CallbackInv`: a registered callback has run unless it is in the list
that the goroutine has not yet copied. `GroupInv`: the tasks that are counted are those
whose monitor waits, and once none is left, `done` is closed and no task is added. `WaitInv`:
what a Wait saw. A step of a task keeps all that others rely on (`Keeps`), so tasks,
monitors, creations and clients are judged one at a time.

**Timed calls.** `WaitForProofs` uses the lemmas of `TaskGroupProofs` for the tasks and the
group of a call (`BaseInv`; a call with a single task has no group, `GroupIdle`). `CallInv`
adds what the call has created, that a success it has seen is one (a task that succeeded
does not change, `Succeeded`), that only the return closes its context, and what a return has
stopped.

**Workflow agents.** `NothingLost` is the sum `made = got + pending` for each sub-agent of a
merge while its context lives, with the channel closed only when all are done (`MergeInv`).
`LoopBound` needs to know where in a round the loop is: `InRound` says that the sub-agents
before `index` have run once more than the others, `RoundsOver` that a finished loop ended with
a round.

**Flows.** What is sent to the model is a prefix of what the queue accepted because of
`InOrder`: what was sent, then the request in the sender's hand, then the queue are numbered
as they were accepted, so a Put appends the last number and a Get takes the next. No
response is sent on a closed channel because only the goroutine that holds the
connection's mutex sends, and Close needs it (`SendersHoldMutex`). Responses follow their
calls because the goroutine of HandleFunctionCalls goes upwards and answers the call it is at
(`WorksUpwards`; that a next call exists is `LeastExists`). A call runs the code it wrote, unless a call with the same file was in
progress with it: what is open is told apart by `Placed`.

**Contents of a request.** `ContentsInv` adds to the property only that the events of a session
are numbered as they came (`Numbered`), for what is built is built in one step. Which events are
chosen keeps their numbers rising (`ChosenRise`), and turning a foreign event into a user's
keeps its number (`ConvertIs`). The rearrangement flattens one short list per event: a plain
event alone, a call with the response picked for it, for a response nothing. `RearrangeIs` says
of the contents made of the first n events that each response in them stands behind a call it
answers, and that the rest rise (`Followed`, `Rest`); event n adds a plain event, later than all before
(`PlainComesLast`), and perhaps the answer to it (`AnswerComesLast`).

**Models.** `HistoryInv`: what a model answered is in the history as texts only, so that nothing
of it is left out when it is sent again; with `Answered` (what was sent is the request made of the
history, as long as the stream lasts) this is `AnswersAreSentBack`. `GeminiInv`: the texts
collected so far, followed by the text still kept, are the chunks 1 to `received`, and while no
text is kept every partial text was collected (`Closed`); `AggregatesGrow` and `OrderGrows` say
what one more response does to these. `ClaudeInv`: between blocks, and at the end, what was
yielded last has the texts of all blocks, for closing a block passes them on; an open block may
have no text yet, but once a chunk came some block has (`HasText`), so that something is passed on.

**Lists without recursion.** These two modules use no RECURSIVE operator: what they
select and convert is a `FlattenSeq` of lists, which the community modules define by a recursive
function. `FlattenIs` gives its equation for every list of lists: `CollectsExists` and `Upwards0`
go from each length to the next by the least number for which a statement fails
(`LeastExists`, from the well-foundedness of finite sets under inclusion), which takes the place of the library's
induction. `FlattenAppend` (one more list) and `FlattenSingles` (one item each) follow from it.

**Services.** Each part has an invariant of its own, `<Part>Inv`: its types, its properties,
and the strengthening its module defines last, under "why these hold". `ServicesInv` joins
the fourteen by `part`, which no step changes. Where the property was not inductive:

- *metrics*: a goroutine is some number of steps into the lock sequence of its operation and
  holds there what `Held` says (`Progress`); so a reader and a writer exclude each other, and
  who waits for ever waits behind its own nested read lock. The sequences are computed
  once (`PlansAre`), and each step is one lock operation or one count. `FailuresCounted` is a
  sum over the failing operations: each records before it counts, or owes a record; a Reset
  makes the sum anew, and those it found between record and count are its `parted`.
- *artifacts*: each version of the slice is what one save answered (`PromisesHeld`,
  `VersionsPromised`), and an answer is that of the slice as it is (`AnswerIsPresent`), since every
  step makes it anew or takes it back.
- *prompts*: who may still take a name has run together with whoever took it since
  (`NamesTakenTogether`), for calls that are in progress together are recorded (`Together`);
  a version is added only to what is known (`StoredAreKnown`).
- *sessions*: sessions and events are numbered as they are made (`Numbered`), which makes a
  copy that is older than its session a part of it, and tells a session that was deleted and
  made again from the one that was copied.
- *rag*: a batch is done up to the file it is at (`Progress`), and the server runs exactly
  the operation its caller waits for (`PendingOfCalls`).
- *registry*: what a resolver found on its way to the cache stays the first match of its
  name, or was replaced (`FoundIsCurrent`); *extensions*: who fetches holds `specMu`, and
  while a creation has cleared the caches whatever is cached was raced (`FetchesInOrder`);
  *client*: what was built is open (`BuiltInOrder`).
- *credentials*: once the code is sent there is a token, and it stays (`AnsweredWithToken`);
  *pools*: bytes that alias a buffer stay in it, for it is never reset (`BytesInBuffers`).
- *steps*: a step that follows an open event has heard it (`OpenEventHeard`), and nothing
  is heard of the model before it is called (`CalledOnce`); both count what was yielded.

Each strengthening was checked with TLC on the instances of section 4 first.

## 7. Where code and documents disagree

Four runs check what a comment of the code says and find it violated by what the code
does; `PROJECT.json` quotes the lines.

- `queue_cancel`: a cancelled Put's Broadcast, made without the lock, can fall between
  its worker's look at `cancelled` and its Wait. The caller then waits for a sleeper.
- `wait_for_cause`: a group finishes whenever its count is zero, so a first function
  that returns at once makes Gather fail at its second.
- `agents_branch`: `createInvocationContext` changes the shared context.
- `artifact_versions`: the GCS service numbers a new version like the last one. A file's first
  save fails at Update, for its object is committed by the deferred Close only; the second
  answers version 0, and the third answers version 0 again and overwrites it. The error of the
  Close is dropped, so a save may also answer a version it did not store.

The other modules follow the code where it departs from what its comments or tests say;
a reader who changes the code will want to know:

- *Artifacts*: `artifact/doc.go:32` says that loads support version-specific access; LoadArtifact
  of the memory service replaces every version from 0 on by the latest, so that earlier versions
  can be listed and not loaded, and a negative one is an index that panics
  (`in_memory_service.go:68-72`).
- *Conversions*: `types/aiconv/doc.go:270-276` promises round trips. An empty text of a model
  (`aiconv.go:152-153`) panics when it is sent again (`135-136`); video metadata beside a datum
  (`178-181`) is not sent (`98-133`), and alone is sent as a part that panics when it is read
  (`173-174`); of a part with several data the first is sent; ids of function calls and
  responses are lost, and whole numbers in arguments come back as floating point.
- *Metrics*: `FinishWithError` counts an error after the latency it belongs to, in another
  critical section; a Reset between the two (`metrics.go:260-290`) leaves an error without it,
  so the error rate may exceed one half, where it is otherwise too low, a failed operation being
  recorded twice.
- *Timed calls*: the group of WaitForAny cancels its tasks at the first failure, and the poller then
  answers that all functions failed (`wait_for.go:253`), though the rest were only told to stop.
- *Queue, stack*: Get does not look at `closed`; Close wakes it and it sleeps again
  (`queue.go:430`). A context entered while the stack is closed is appended to it and
  never exited (`contextlib.go:118`).
- *Flow*: `runOneStep` never calls the model. EndInvocation does not end Run, although
  `agent_invocation_context.go:116` says it does. The error of the call limit is dropped, though
  the comment above it says that execution is stopped (`llm_flow.go:590-593`); the count has no
  other reader, so no limit is in the model and no property speaks of one. Tools given as options are kept as a
  list in a list and recognised by nothing. A received live response ends in a nil
  dereference. The state delta of a callback context never reaches an event.
- *Models*: of Claude's requests, function calls with a name are left out, a system content
  becomes an empty message, replies that use tools are dropped, or end in a panic when
  they are streamed, every event of a stream is yielded as if it were complete, and only the first tool
  is sent. A final chunk of Gemini without text becomes an error.
- *Authentication*: GenerateAuthRequest never makes a URI, ExchangeAuthToken never
  exchanges, and ConvertToAuthConfig dereferences nil, so that the auth processor never
  resumes a tool.
- *Pools*: `internal/pool/doc.go` says that a buffer is reset before it is put back; most
  users do not, so keys of credentials, ToJSON and others depend on who used the buffer
  before. Scopes are written in the order of a map's iteration.
- *Memory, RAG*: AddSessionToMemory uploads no text; Search drops its filters, so that memories
  of other users are found; a document with several events cannot be read, and its author is
  unknown; UpdateCorpus ignores its mask; imports drop the sizes of chunks; Close of the RAG client closes
  nothing. The Vertex client can be built in one region only, and reports health after Close.
- *Executors*: IncrementErrorCount takes a read lock under its own write lock and never returns.
- *Workflow agents*: a sub-agent that failed looks like one that is done; a LoopAgent
  without sub-agents does not end; WaitForCompletion of a group without tasks does not return.

## 8. What is not modelled

Only model-checked, on the instances of section 4:

- all liveness (`ServedWhenPossible`, `FailureEndsGroup`, `TimedCallReturns`, `NoLeak`,
  `CloseEndsSender`, `CallerHears`): fairness and ENABLED are beyond the prover;
- `HistoryCanBeResent` and `SchemasSound`: `Conversions` and `Schemas` compute with nested
  messages and schemas by recursive operators, which a module with proofs cannot reach.
  `PromptTemplates` has none, but replaces one variable after the other in a text whose places
  move each time; that this is replacing all at once has no proof here;
- the four violations of section 7, each a behaviour TLC finds.

Modelled in part (`PROJECT.json` says what of each): `BaseAgent` without lookups and the
parent tree; `wait_for.go` without its argument checks; the workflow agents without their
constructors and ExecuteLive; the live variant of function calls; the options of model
requests; chunks of Gemini with several parts, of which the first decides and is collected
(`google_llm.go:215`, `269-272`); ListArtifactKey of the GCS service; filters and pages of
listings. Clients of the queue call TaskDone once for each item they took, or once more when
nothing is unfinished; functions of a task group return when their context is done, which those of
`WaitFor` need not. Timeouts are events that may happen at any time; no
clock is modelled. The memory model of Go is not: a data race is a choice of outcomes
where the code has one (`StateContexts`), and not considered where noted in a module
(`Credentials`).

Not modelled: request processors that add instruction text; the generative model, caching and
evaluation clients of Vertex AI, which are mocks or thin wrappers of remote calls; tools that
adapt a user function or a service; planners, examples, logging, iterators and runtime hooks.
Remote services are modelled from how the code uses them.
