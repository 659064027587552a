------------------------------ MODULE StateContexts ------------------------------
(***************************************************************************)
(* The state of a session as callbacks and tools see it                    *)
(* (types/session_state.go, agent_callback_context.go, tool_context.go).   *)
(* Every context has a State of its own, with a lock and pending changes   *)
(* of its own, around the one map of the session: the locks of two         *)
(* contexts do not exclude each other.  Go's maps end the program when     *)
(* they notice that one is written while it is used; they need not notice. *)
(*                                                                         *)
(* Actors are the goroutines that work with contexts.  Values are numbered *)
(* as they are set; 0 is no value.                                         *)
(***************************************************************************)
EXTENDS Naturals, FiniteSets

CONSTANTS
  Actors, Contexts,
  ToolContexts, \* the contexts made for tools, which have no State
  Prepared,     \* those given the actions of an event, with maps to write to
  Keys,         \* app:, user:, temp: and other keys
  MaxValues     \* bound of this model: values ever set

VARIABLES
  shared,  \* the map of the session
  delta,   \* delta[x]: the pending changes of the State of x
  values,  \* number of values set
  busy,    \* busy[a]: what a does with a State, under its lock
  written, \* written[x]: the last values set through x (ghost)
  saved,   \* the contexts through which an artifact was saved or a credential requested
  crashed  \* "no", or why the program ended

vars == <<shared, delta, values, busy, written, saved, crashed>>

Nothing == [k \in Keys |-> 0]
Using(what, x, key, got) == [what |-> what, context |-> x, key |-> key, got |-> got]
Idle == Using("idle", "none", "none", 0)

Init ==
  /\ shared = Nothing
  /\ delta = [x \in Contexts |-> Nothing]
  /\ values = 0
  /\ busy = [a \in Actors |-> Idle]
  /\ written = [x \in Contexts |-> Nothing]
  /\ saved = {}
  /\ crashed = "no"

Over(change, base) == [k \in Keys |-> IF change[k] # 0 THEN change[k] ELSE base[k]]

Reads == {"Get", "ToMap"}
Writes == {"Set", "ApplyDelta"}
Uses(a) == busy[a].what \in Reads \cup Writes
(* Mutation: no lock.                                                      *)
CanLockAlways(x, what) == TRUE
CanLock(x, what) ==
  \A b \in Actors : Uses(b) /\ busy[b].context = x => busy[b].what \in Reads /\ what \in Reads
-----------------------------------------------------------------------------

(* A takes the lock of x and starts to use the maps.                       *)
Begin(a, x, what, key) ==
  /\ crashed = "no" /\ busy[a] = Idle /\ x \notin ToolContexts
  /\ CanLock(x, what)
  /\ busy' = [busy EXCEPT ![a] = Using(what, x, key, 0)]
  /\ UNCHANGED <<shared, delta, values, written, saved, crashed>>

Clash == \E a, b \in Actors :
  a # b /\ Uses(a) /\ Uses(b) /\ (busy[a].what \in Writes \/ busy[b].what \in Writes)

(* A map notices that it is used while it is written.                      *)
Crash ==
  /\ crashed = "no" /\ Clash
  /\ crashed' = "map"
  /\ UNCHANGED <<shared, delta, values, busy, written, saved>>

(* Pending changes come before the values of the session.                  *)
Get(a) ==
  /\ crashed = "no" /\ busy[a].what = "Get"
  /\ LET x == busy[a].context
         k == busy[a].key
     IN busy' = [busy EXCEPT ![a] = Using("got", x, k, Over(delta[x], shared)[k])]
  /\ UNCHANGED <<shared, delta, values, written, saved, crashed>>

ToMap(a) ==
  /\ crashed = "no" /\ busy[a].what = "ToMap"
  /\ busy' = [busy EXCEPT ![a] = Idle]
  /\ UNCHANGED <<shared, delta, values, written, saved, crashed>>

(* The value goes to the session and to the pending changes (an Update is  *)
(* a Set of each key under one lock).                                      *)
Set(a) ==
  /\ crashed = "no" /\ busy[a].what = "Set" /\ values < MaxValues
  /\ LET x == busy[a].context
         k == busy[a].key
     IN /\ values' = values + 1
        /\ shared' = [shared EXCEPT ![k] = values']
        /\ delta' = [delta EXCEPT ![x][k] = values']
        /\ written' = [written EXCEPT ![x][k] = values']
  /\ busy' = [busy EXCEPT ![a] = Idle]
  /\ UNCHANGED <<saved, crashed>>

(* What is pending is written over what the session has by now.            *)
ApplyDelta(a) ==
  /\ crashed = "no" /\ busy[a].what = "ApplyDelta"
  /\ shared' = Over(delta[busy[a].context], shared)
  /\ delta' = [delta EXCEPT ![busy[a].context] = Nothing]
  /\ busy' = [busy EXCEPT ![a] = Idle]
  /\ UNCHANGED <<values, written, saved, crashed>>

ClearDelta(a, x) ==
  /\ crashed = "no" /\ busy[a] = Idle /\ x \notin ToolContexts
  /\ \A b \in Actors : ~(Uses(b) /\ busy[b].context = x)
  /\ delta' = [delta EXCEPT ![x] = Nothing]
  /\ UNCHANGED <<shared, values, busy, written, saved, crashed>>

Forget(a) ==
  /\ crashed = "no" /\ busy[a].what = "got"
  /\ busy' = [busy EXCEPT ![a] = Idle]
  /\ UNCHANGED <<shared, delta, values, written, saved, crashed>>
-----------------------------------------------------------------------------
(* SaveArtifact and RequestCredential note what they did in the maps of    *)
(* the actions, which a context that was not given an event's has not.     *)
SaveArtifact(a, x) ==
  /\ crashed = "no" /\ busy[a] = Idle
  /\ IF x \in Prepared THEN saved' = saved \cup {x} /\ UNCHANGED crashed
     ELSE crashed' = "actions" /\ UNCHANGED saved
  /\ UNCHANGED <<shared, delta, values, busy, written>>

RequestCredential(a, x, id) ==
  /\ crashed = "no" /\ busy[a] = Idle /\ x \in ToolContexts
  /\ CASE id = "" -> UNCHANGED <<saved, crashed>>
       [] id # "" /\ x \in Prepared -> saved' = saved \cup {x} /\ UNCHANGED crashed
       [] id # "" /\ x \notin Prepared -> crashed' = "actions" /\ UNCHANGED saved
  /\ UNCHANGED <<shared, delta, values, busy, written>>

(* The State of a tool's context is nil.                                   *)
GetAuthResponse(a, x) ==
  /\ crashed = "no" /\ busy[a] = Idle /\ x \in ToolContexts
  /\ crashed' = "state"
  /\ UNCHANGED <<shared, delta, values, busy, written, saved>>

Next ==
  \/ Crash
  \/ \E a \in Actors :
       \/ \E x \in Contexts :
            \/ \E k \in Keys : Begin(a, x, "Get", k) \/ Begin(a, x, "Set", k)
            \/ Begin(a, x, "ToMap", "none") \/ Begin(a, x, "ApplyDelta", "none")
            \/ ClearDelta(a, x) \/ SaveArtifact(a, x) \/ GetAuthResponse(a, x)
            \/ \E id \in {"", "id"} : RequestCredential(a, x, id)
       \/ Get(a) \/ ToMap(a) \/ Set(a) \/ ApplyDelta(a) \/ Forget(a)

Spec == Init /\ [][Next]_vars
-----------------------------------------------------------------------------
Work == [what : Reads \cup Writes \cup {"got"}, context : Contexts, key : Keys \cup {"none"},
         got : 0 .. MaxValues]

TypeOK ==
  /\ values \in 0 .. MaxValues
  /\ shared \in [Keys -> 0 .. values]
  /\ delta \in [Contexts -> [Keys -> 0 .. values]] /\ written \in [Contexts -> [Keys -> 0 .. values]]
  /\ busy \in [Actors -> Work \cup {Idle}]
  /\ \A a \in Actors : busy[a].got <= values /\ (busy[a].what \in {"Get", "Set", "got"} => busy[a].key \in Keys)
  /\ crashed \in {"no", "map", "actions", "state"}
  /\ saved \subseteq Prepared

(* session_state.go:50: the map is used and written at once only through   *)
(* two contexts; what goes through one is kept apart by its lock.          *)
ClashesBetweenContexts ==
  \A a, b \in Actors :
    a # b /\ Uses(a) /\ Uses(b) /\ busy[a].what \in Writes => busy[a].context # busy[b].context

(* session_state.go:74: a change that is still pending is what its context *)
(* set last, and a later value of another context is not read over it; a   *)
(* value of the session is the last that some context has set.             *)
PendingIsLastSet ==
  /\ \A x \in Contexts, k \in Keys : delta[x][k] \in {0, written[x][k]}
  /\ \A a \in Actors : LET x == busy[a].context  k == busy[a].key IN
       busy[a].what = "got" /\ delta[x][k] # 0 => busy[a].got <= delta[x][k]
  /\ \A k \in Keys : shared[k] = 0 \/ \E x \in Contexts : shared[k] = written[x][k]
=============================================================================
