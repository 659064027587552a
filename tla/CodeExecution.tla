--------------------------- MODULE CodeExecution ---------------------------
(***************************************************************************)
(* codeexecutor: ExecuteCode of the local and of the container executor,   *)
(* called by the code execution tool, with the retries, the shared work    *)
(* directory, the containers and the context the results are kept in.      *)
(*                                                                         *)
(* The context is nil without an invocation or a session.  A panic is not  *)
(* recovered: it ends the process.  A program that fails is a result, not  *)
(* an error.  The input's code is named by its call.                       *)
(***************************************************************************)
EXTENDS Integers, FiniteSets

CONSTANTS Calls, MaxRetries, Nothing

VARIABLES
    executor,    \* "local" or "container"
    process,     \* "up" or "crashed"
    pc,          \* where each call is
    input,       \* its language, invocation, input files and work directory
    attempt,     \* the retry loop's counter
    disk,        \* whose code each code file holds
    ran,         \* whose code the last command of a call ran
    disturbed,   \* history: calls whose code file was open to others
    containers,  \* the containers that exist: <<call, attempt>>
    failures     \* history: attempts that failed or could not be cleaned up

codeVars == <<executor, process, pc, input, attempt, disk, ran, disturbed, containers, failures>>

Languages == {"python", "javascript", "bash"}
Inputs == [language : Languages, ictx : {"none", "no_session", "session"},
           files : BOOLEAN, dir : {"work"} \cup Calls]

-----------------------------------------------------------------------------
(* The files of the local executor.                                        *)

FileName(language) == IF language = "javascript" THEN "code.js" ELSE "code.py"
File(c) == <<input[c].dir, FileName(input[c].language)>>
Files == ({"work"} \cup Calls) \X {"code.py", "code.js"}

Open(c) == pc[c] \in {"written", "ran"}
Alike(c, d) == input[c].dir = input[d].dir /\ input[c].language = input[d].language

-----------------------------------------------------------------------------
Init == /\ executor \in {"local", "container"} /\ process = "up"
        /\ pc = [c \in Calls |-> "idle"] /\ input = [c \in Calls |-> Nothing]
        /\ attempt = [c \in Calls |-> 0] /\ disk = [f \in Files |-> Nothing]
        /\ ran = [c \in Calls |-> Nothing] /\ disturbed = {}
        /\ containers = {} /\ failures = {}

Goto(c, there) == pc' = [pc EXCEPT ![c] = there]
Panic(c) == process' = "crashed" /\ Goto(c, "panicked")

Run(c) ==
    /\ process = "up" /\ pc[c] = "idle"
    /\ \E i \in Inputs : /\ i.dir \in {"work", c}
                         /\ executor = "container" => i.dir = "work"
                         /\ input' = [input EXCEPT ![c] = i]
    /\ Goto(c, "attempt")
    /\ UNCHANGED <<executor, process, attempt, disk, ran, disturbed, containers, failures>>

\* A failed attempt is counted in the context: without one the counter is a nil
\* receiver; with one it is either asserted to be a map, which it is not, or the
\* count is read under the lock that is already held.
Failed(c) ==
    /\ failures' = failures \cup {<<c, attempt[c]>>}
    /\ \/ /\ input[c].ictx = "none"
          /\ Goto(c, IF attempt[c] < MaxRetries THEN "delay" ELSE "failed")
          /\ UNCHANGED process
       \/ /\ input[c].ictx # "none" /\ Panic(c)
       \/ /\ input[c].ictx = "session" /\ Goto(c, "hung")
          /\ UNCHANGED process

Delay(c) ==
    /\ process = "up" /\ pc[c] = "delay"
    /\ \/ attempt' = [attempt EXCEPT ![c] = @ + 1] /\ Goto(c, "attempt")
       \/ Goto(c, "cancelled") /\ UNCHANGED attempt
    /\ UNCHANGED <<executor, process, input, disk, ran, disturbed, containers, failures>>

\* The result list is created under the key of the error counts, so that the
\* list itself is missing when the result is appended.
AddExecutionResult(c) ==
    /\ process = "up" /\ pc[c] = "succeeded"
    /\ Panic(c)
    /\ UNCHANGED <<executor, input, attempt, disk, ran, disturbed, containers, failures>>

-----------------------------------------------------------------------------
(* The local executor.  The names of the input files are kept in the       *)
(* context; bash reads its code from its input, the others from a file.    *)

WriteFails(c) ==
    /\ process = "up" /\ executor = "local" /\ pc[c] = "attempt"
    /\ Failed(c)
    /\ UNCHANGED <<executor, input, attempt, disk, ran, disturbed, containers>>

AddProcessedFileNames(c) ==
    /\ process = "up" /\ executor = "local" /\ pc[c] = "attempt"
    /\ input[c].files /\ input[c].ictx # "session"
    /\ Panic(c)
    /\ UNCHANGED <<executor, input, attempt, disk, ran, disturbed, containers, failures>>

Write(c) ==
    /\ process = "up" /\ executor = "local" /\ pc[c] = "attempt"
    /\ ~(input[c].files /\ input[c].ictx # "session")
    /\ \/ /\ input[c].language = "bash"
          /\ ran' = [ran EXCEPT ![c] = c] /\ Goto(c, "succeeded")
          /\ UNCHANGED <<disk, disturbed>>
       \/ /\ input[c].language # "bash"
          /\ disk' = [disk EXCEPT ![File(c)] = c] /\ Goto(c, "written")
          /\ LET others == {d \in Calls \ {c} : Open(d) /\ Alike(c, d)}
             IN  disturbed' = disturbed \cup others \cup (IF others = {} THEN {} ELSE {c})
          /\ UNCHANGED ran
    /\ UNCHANGED <<executor, process, input, attempt, containers, failures>>

ExecuteCommand(c) ==
    /\ process = "up" /\ pc[c] = "written"
    /\ ran' = [ran EXCEPT ![c] = disk[File(c)]]
    /\ Goto(c, "ran")
    /\ UNCHANGED <<executor, process, input, attempt, disk, disturbed, containers, failures>>

Remove(c) ==
    /\ process = "up" /\ pc[c] = "ran"
    /\ disk' = [disk EXCEPT ![File(c)] = Nothing]
    /\ Goto(c, "succeeded")
    /\ UNCHANGED <<executor, process, input, attempt, ran, disturbed, containers, failures>>

\* Close removes the work directory, whatever is running in it.
Close ==
    /\ process = "up" /\ executor = "local"
    /\ disk' = [f \in Files |-> IF f[1] = "work" THEN Nothing ELSE disk[f]]
    /\ disturbed' = disturbed \cup {c \in Calls : Open(c) /\ input[c].dir = "work"}
    /\ UNCHANGED <<executor, process, pc, input, attempt, ran, containers, failures>>

-----------------------------------------------------------------------------
(* The container executor is never stateful: every attempt has a container *)
(* of its own, which only a success removes.  One that was started may end *)
(* by itself and be removed by the engine.                                 *)

Mine(c) == <<c, attempt[c]>>

CreateFails(c) ==
    /\ process = "up" /\ executor = "container" /\ pc[c] = "attempt"
    /\ containers' \in {containers, containers \cup {Mine(c)}}   \* not created, or not started
    /\ Failed(c)
    /\ UNCHANGED <<executor, input, attempt, disk, ran, disturbed>>

CreateContainer(c) ==
    /\ process = "up" /\ executor = "container" /\ pc[c] = "attempt"
    /\ containers' = containers \cup {Mine(c)}
    /\ Goto(c, "created")
    /\ UNCHANGED <<executor, process, input, attempt, disk, ran, disturbed, failures>>

ContainerExits(c) ==
    /\ pc[c] = "created" /\ containers' = containers \ {Mine(c)}
    /\ UNCHANGED <<executor, process, pc, input, attempt, disk, ran, disturbed, failures>>

RunFails(c) ==
    /\ process = "up" /\ pc[c] = "created"
    /\ Failed(c)
    /\ UNCHANGED <<executor, input, attempt, disk, ran, disturbed, containers>>

\* A variation: the container is kept.
RunKept(c) ==
    /\ process = "up" /\ pc[c] = "created" /\ Mine(c) \in containers
    /\ Goto(c, "succeeded") /\ ran' = [ran EXCEPT ![c] = c]
    /\ UNCHANGED <<executor, process, input, attempt, disk, disturbed, containers, failures>>
RunInContainer(c) ==
    /\ process = "up" /\ pc[c] = "created" /\ Mine(c) \in containers
    /\ Goto(c, "succeeded") /\ ran' = [ran EXCEPT ![c] = c]
    /\ \/ containers' = containers \ {Mine(c)} /\ UNCHANGED failures
       \/ UNCHANGED containers /\ failures' = failures \cup {Mine(c)}
    /\ UNCHANGED <<executor, process, input, attempt, disk, disturbed>>

-----------------------------------------------------------------------------
Next == \/ \E c \in Calls : \/ Run(c) \/ Delay(c) \/ AddExecutionResult(c)
                            \/ WriteFails(c) \/ AddProcessedFileNames(c) \/ Write(c)
                            \/ ExecuteCommand(c) \/ Remove(c)
                            \/ CreateFails(c) \/ CreateContainer(c) \/ ContainerExits(c)
                            \/ RunFails(c) \/ RunInContainer(c)
        \/ Close

Spec == Init /\ [][Next]_codeVars

-----------------------------------------------------------------------------
TypeOK ==
    /\ executor \in {"local", "container"} /\ process \in {"up", "crashed"}
    /\ pc \in [Calls -> {"idle", "attempt", "delay", "written", "ran", "created", "succeeded",
                         "failed", "cancelled", "hung", "panicked"}]
    /\ input \in [Calls -> Inputs \cup {Nothing}] /\ attempt \in [Calls -> 0..MaxRetries]
    /\ disk \in [Files -> Calls \cup {Nothing}] /\ ran \in [Calls -> Calls \cup {Nothing}]
    /\ disturbed \subseteq Calls
    /\ containers \subseteq Calls \X (0..MaxRetries) /\ failures \subseteq Calls \X (0..MaxRetries)

\* local.go:242: a call runs the code it was given, unless another call of the
\* same language in the same directory, or Close, came between its file being
\* written and run.
RunsOwnCode ==
    \A c \in Calls \ disturbed : pc[c] \in {"ran", "succeeded"} => ran[c] = c

\* container.go:265: while the process is up, a container outlives its attempt
\* only when the attempt failed or its removal did.
OnlyFailuresLeak ==
    process = "up" =>
        \A x \in containers \ failures : x = Mine(x[1]) /\ pc[x[1]] = "created"

\* Why the first holds: a call that was not disturbed finds its own code in its
\* file, which no other call has open that was not disturbed.
Placed ==
    /\ \A c \in Calls : pc[c] # "idle" => input[c] \in Inputs
    /\ \A c \in Calls : pc[c] = "delay" => attempt[c] < MaxRetries
    /\ \A c \in Calls : Open(c) => input[c].language # "bash"
    /\ \A c, d \in Calls : Open(c) /\ Open(d) /\ Alike(c, d) => c = d \/ {c, d} \subseteq disturbed
    /\ \A c \in Calls \ disturbed : pc[c] = "written" => disk[File(c)] = c
=============================================================================
