------------------------------- MODULE Sessions -------------------------------
(***************************************************************************)
(* InMemoryService (session/in_memory_service.go) of one app: every        *)
(* operation is one critical section of mu.  Clients hold copies of        *)
(* sessions, which the service updates with the stored one when an event   *)
(* is appended through them.                                               *)
(*                                                                         *)
(* Events are numbered as they are appended, and an event may set one key: *)
(* of the app, of the user or of the session.  A value is the number of    *)
(* the event that set it, 0 when none did.                                 *)
(***************************************************************************)
EXTENDS Naturals, Sequences

CONSTANTS Clients,    \* users of the service, each with a session at hand
          Users,      \* user ids of the app
          SessionIds, \* session ids of a user
          MaxEvents,  \* bound on the events appended
          MaxSessions \* bound on the sessions created

VARIABLES
  sessions,  \* sessions[k]: the stored session of k, or NoSession
  appState,  \* the value of the app's key
  userState, \* userState[u]: the value of the user's key
  handle,    \* handle[c]: the copy c holds
  appended,  \* number of events appended
  created,   \* history: number of sessions created
  panicked   \* a type assertion failed and the process is gone

vars == <<sessions, appState, userState, handle, appended, created, panicked>>

Keys == Users \X SessionIds
Scopes == {"none", "app", "user", "session"}

SessionOf(key, born, events, app, user) ==
  [key |-> key, born |-> born, events |-> events, app |-> app, user |-> user, own |-> 0]
NoSession == SessionOf(<<>>, 0, <<>>, 0, 0)

Init ==
  /\ sessions = [k \in Keys |-> NoSession]
  /\ appState = 0
  /\ userState = [u \in Users |-> 0]
  /\ handle = [c \in Clients |-> NoSession]
  /\ appended = 0
  /\ created = 0
  /\ panicked = FALSE

(* copySession and mergeState.                                             *)
Merged(ses) == SessionOf(ses.key, ses.born, ses.events, appState, userState[ses.key[1]])

(* A session stored under the same key is replaced.                        *)
CreateSession(c, k) ==
  /\ ~panicked
  /\ created < MaxSessions
  /\ LET ses == SessionOf(k, created + 1, <<>>, 0, 0)
     IN /\ sessions' = [sessions EXCEPT ![k] = ses]
        /\ handle' = [handle EXCEPT ![c] = Merged(ses)]
  /\ created' = created + 1
  /\ UNCHANGED <<appState, userState, appended, panicked>>

(* The copy is a *session, asserted to be the service.                     *)
GetSession(k) ==
  /\ ~panicked
  /\ sessions[k] # NoSession
  /\ panicked' = TRUE
  /\ UNCHANGED <<sessions, appState, userState, handle, appended, created>>

(* The listed sessions are made anew, without events and without state.    *)
ListSessions(c, k) ==
  /\ ~panicked
  /\ sessions[k] # NoSession
  /\ handle' = [handle EXCEPT ![c] = SessionOf(k, sessions[k].born, <<>>, 0, 0)]
  /\ UNCHANGED <<sessions, appState, userState, appended, created, panicked>>

DeleteSession(k) ==
  /\ ~panicked
  /\ sessions' = [sessions EXCEPT ![k] = NoSession]
  /\ UNCHANGED <<appState, userState, handle, appended, created, panicked>>

(* Mutation: the stored session is updated for a state delta only.         *)
AppendEventDelta(c, scope) ==
  /\ ~panicked
  /\ appended < MaxEvents
  /\ handle[c] # NoSession
  /\ LET e == [n |-> appended + 1, scope |-> scope]
         k == handle[c].key
         stored == sessions[k] # NoSession
     IN /\ handle' = [handle EXCEPT ![c].events = Append(@, e)]
        /\ sessions' = IF stored /\ scope # "none" THEN [sessions EXCEPT ![k].events = Append(@, e)] ELSE sessions
        /\ appState' = IF stored /\ scope = "app" THEN e.n ELSE appState
        /\ userState' = IF stored /\ scope = "user" THEN [userState EXCEPT ![k[1]] = e.n] ELSE userState
  /\ appended' = appended + 1
  /\ UNCHANGED <<created, panicked>>

(* The session at hand gets the event in any case; the stored one, which   *)
(* may be a younger session of the same key, if there is one.  A key of    *)
(* the session itself is not set.                                          *)
AppendEvent(c, scope) ==
  /\ ~panicked
  /\ appended < MaxEvents
  /\ handle[c] # NoSession
  /\ LET e == [n |-> appended + 1, scope |-> scope]
         k == handle[c].key
         stored == sessions[k] # NoSession
     IN /\ handle' = [handle EXCEPT ![c].events = Append(@, e)]
        /\ sessions' = IF stored THEN [sessions EXCEPT ![k].events = Append(@, e)] ELSE sessions
        /\ appState' = IF stored /\ scope = "app" THEN e.n ELSE appState
        /\ userState' = IF stored /\ scope = "user" THEN [userState EXCEPT ![k[1]] = e.n] ELSE userState
  /\ appended' = appended + 1
  /\ UNCHANGED <<created, panicked>>

Next ==
  \/ \E c \in Clients, k \in Keys : CreateSession(c, k) \/ ListSessions(c, k)
  \/ \E k \in Keys : GetSession(k) \/ DeleteSession(k)
  \/ \E c \in Clients, scope \in Scopes : AppendEvent(c, scope)

Spec == Init /\ [][Next]_vars
-----------------------------------------------------------------------------
Events == [n : 1 .. MaxEvents, scope : Scopes]
Copies == [key : Keys, born : 1 .. MaxSessions, events : Seq(Events),
           app : 0 .. MaxEvents, user : 0 .. MaxEvents, own : {0}]

TypeOK ==
  /\ sessions \in [Keys -> Copies \cup {NoSession}] /\ handle \in [Clients -> Copies \cup {NoSession}]
  /\ \A k \in Keys : sessions[k] # NoSession => sessions[k].key = k
  /\ appended \in 0 .. MaxEvents /\ created \in 0 .. MaxSessions
  /\ appState \in 0 .. appended
  /\ userState \in [Users -> 0 .. appended]
  /\ panicked \in BOOLEAN

InOrder(es) == \A i, j \in DOMAIN es : i < j => es[i].n < es[j].n
Within(es, all) == \A i \in DOMAIN es : \E j \in DOMAIN all : all[j] = es[i]

(* As long as the session it was copied from is stored, a copy has events  *)
(* of that session only, in the stored order, which is that of appending:  *)
(* holders see parts of one history.                                       *)
CopiesAreSubsequences ==
  \A c \in Clients :
    LET copy == handle[c]
    IN copy # NoSession /\ sessions[copy.key].born = copy.born
       => /\ InOrder(copy.events) /\ InOrder(sessions[copy.key].events)
          /\ Within(copy.events, sessions[copy.key].events)

(* The state of the app and of a user is never older than an event of a    *)
(* stored session that set it, whichever copies the events came through.   *)
SharedStateIsCurrent ==
  \A k \in Keys : \A i \in DOMAIN sessions[k].events :
    LET e == sessions[k].events[i]
    IN /\ e.scope = "app" => appState >= e.n
       /\ e.scope = "user" => userState[k[1]] >= e.n

(* Why these hold: sessions and events have the numbers of their making.   *)
Numbered ==
  /\ \A k \in Keys : sessions[k].born <= created
  /\ \A c \in Clients : handle[c].born <= created
  /\ \A es \in {sessions[k].events : k \in Keys} \cup {handle[c].events : c \in Clients} :
       InOrder(es) /\ \A i \in DOMAIN es : es[i].n <= appended
=============================================================================
