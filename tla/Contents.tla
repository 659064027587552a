------------------------------- MODULE Contents -------------------------------
(***************************************************************************)
(* ContentLLMRequestProcessor (flow/llmflow/contents.go): which events of  *)
(* a session become contents of the next request to the model, and in      *)
(* which order.                                                            *)
(*                                                                         *)
(* Of an event the model keeps its author, its branch, whether its first   *)
(* part is a text, the calls and the responses among its other parts (by   *)
(* their ids), and whether they ask for credentials.  An event without     *)
(* content has none of them.                                               *)
(***************************************************************************)
EXTENDS Naturals, Sequences, SequencesExt

CONSTANTS CallIds,   \* ids of function calls
          MaxEvents  \* bound on the events of the session

VARIABLES
  events,   \* the session
  branch,   \* the branch of the invocation
  contents, \* the contents of the request, with the events they come from
  outcome   \* "none", "built" or "panicked"

contentVars == <<events, branch, contents, outcome>>

Branches == {"", "a", "ab"}      \* of invocations
EventBranches == {"", "a", "b"}  \* of events

\* strings.HasPrefix of two branches: the name of one agent may begin with the
\* name of another.
HasPrefix(whole, part) == part = whole \/ (whole = "ab" /\ part = "a")

Belongs(e) == branch = "" \/ e.branch = "" \/ HasPrefix(branch, e.branch)

\* An event that does not begin with a text is skipped, function calls and
\* function responses among them.
Kept(e) == e.text /\ Belongs(e) /\ ~e.auth

\* isOtherAgentReply and convertForeignEvent.  The name of the agent it is
\* given is the branch: on none, no event is foreign.
Convert(e) ==
  IF branch # "" /\ e.author \notin {branch, "user"}
  THEN [e EXCEPT !.author = "user", !.calls = {}, !.responses = {}]
  ELSE e

\* When the last event answers no call of the one before it, the call is looked
\* for in the events before, on past the first: an index that does not exist.
LatestResponseMatches(es) ==
  LET last == Last(es)
  IN es = <<>> \/ last.responses = {}
     \/ (Len(es) > 1 /\ es[Len(es) - 1].calls \cap last.responses # {})

Answers(es, i) == {j \in DOMAIN es : es[j].responses \cap es[i].calls # {}}

\* A variation: responses also stay where they are.
RearrangeKeeping(es, pick) ==
  FlattenSeq([i \in DOMAIN es |->
    IF es[i].calls # {} /\ Answers(es, i) # {} THEN <<es[i], es[pick[i]]>> ELSE <<es[i]>>])

\* Responses go behind their call.  Of several response events, which come in
\* any order, the merged one has the parts of the first.
Rearrange(es, pick) ==
  FlattenSeq([i \in DOMAIN es |->
    IF es[i].responses # {} THEN <<>>
    ELSE IF es[i].calls # {} /\ Answers(es, i) # {} THEN <<es[i], es[pick[i]]>>
    ELSE <<es[i]>>])

Init ==
  /\ events = <<>>
  /\ branch \in Branches
  /\ contents = <<>>
  /\ outcome = "none"

Event(author, on, text, calls, responses, auth) ==
  [n |-> Len(events) + 1, author |-> author, branch |-> on, text |-> text, calls |-> calls,
   responses |-> responses, auth |-> auth]

Add(e) ==
  /\ outcome = "none" /\ Len(events) < MaxEvents
  /\ events' = Append(events, e)
  /\ UNCHANGED <<branch, contents, outcome>>

Called == UNION {events[i].calls : i \in DOMAIN events}

Say == \E author \in {"user", "a", "b"}, on \in EventBranches, text \in BOOLEAN :
  Add(Event(author, on, text, {}, {}, FALSE))
Call == \E ids \in SUBSET (CallIds \ Called) \ {{}}, author \in {"a", "b"}, text, auth \in BOOLEAN :
  Add(Event(author, "", text, ids, {}, auth))
Respond == \E ids \in SUBSET Called \ {{}}, author \in {"user", "a"}, text \in BOOLEAN :
  Add(Event(author, "", text, {}, ids, FALSE))

\* getContents, for an agent that includes contents; the ids the flow made are
\* then taken out of the copies.
GetContents ==
  /\ outcome = "none"
  /\ LET es == FlattenSeq([i \in DOMAIN events |->
                 IF Kept(events[i]) THEN <<Convert(events[i])>> ELSE <<>>])
         answered == {i \in DOMAIN es : es[i].calls # {} /\ Answers(es, i) # {}}
     IN IF LatestResponseMatches(es)
        THEN /\ \E pick \in [answered -> DOMAIN es] :
                  /\ \A i \in answered : pick[i] \in Answers(es, i)
                  /\ contents' = Rearrange(es, pick)
             /\ outcome' = "built"
        ELSE outcome' = "panicked" /\ UNCHANGED contents
  /\ UNCHANGED <<events, branch>>

Next == Say \/ Call \/ Respond \/ GetContents

Spec == Init /\ [][Next]_contentVars
-----------------------------------------------------------------------------
Events ==
  [n : 1 .. MaxEvents, author : {"user", "a", "b"}, branch : EventBranches, text : BOOLEAN,
   calls : SUBSET CallIds, responses : SUBSET CallIds, auth : BOOLEAN]

TypeOK ==
  /\ events \in Seq(Events) /\ Len(events) <= MaxEvents /\ branch \in Branches
  /\ outcome \in {"none", "built", "panicked"}
  /\ contents \in Seq(Events) /\ (outcome # "built" => contents = <<>>)

\* contents.go:142: a response is sent right behind a call it answers, wherever
\* in the session it came, and nothing else leaves the order of the session.
ResponsesFollowCalls ==
  /\ \A i \in DOMAIN contents :
       contents[i].responses # {} =>
         i > 1 /\ contents[i].responses \cap contents[i - 1].calls # {}
  /\ \A i, j \in DOMAIN contents :
       i < j /\ contents[i].responses = {} /\ contents[j].responses = {}
         => contents[i].n < contents[j].n
=============================================================================
