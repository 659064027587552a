------------------------------- MODULE BufferPool -------------------------------
(***************************************************************************)
(* The pools of buffers and of string builders (internal/pool) and those   *)
(* who use them.  A pool gives out a new object or one that was put back,  *)
(* as it was left: most users put theirs back without a Reset.             *)
(*                                                                         *)
(* What a call writes is named for the call; the content of a buffer is    *)
(* the sequence of what was written into it.  A call is a Get, then what   *)
(* it writes, reads and puts back.                                         *)
(***************************************************************************)
EXTENDS Naturals, Sequences, FiniteSets

CONSTANTS
  Callers,
  MaxObjects, \* bound of this model: objects ever made
  MaxContent  \* bound of this model: writes a pooled object has accumulated

VARIABLES
  pooled, \* the objects in the pools: [id, content]
  made,   \* number of objects made
  call,   \* call[c]: the kind of call c is in and its object, "none" between calls
  output, \* what the last call that ended gave back: [of, data]
  bytes   \* bytes[c]: the object whose content c still uses: 0 if none, Lost if overwritten

vars == <<pooled, made, call, output, bytes>>

(* How each call uses its object.  Encoding and decoding a content write   *)
(* JSON and read all of it back; a credential key hashes the scheme, then  *)
(* resets and hashes the credential; the bytes of a file stay in its       *)
(* buffer while they are used; an event without requested configurations   *)
(* does nothing with its buffer.                                           *)
EncodeContent == [pool |-> "buffer", first |-> "append", then |-> "read"]
DecodeContent == [pool |-> "buffer", first |-> "append", then |-> "read"]
MarshalJSON == [pool |-> "buffer", first |-> "append", then |-> "alias"]
GetCredentialKey(scheme, credential) ==
  [pool |-> "buffer", first |-> IF scheme THEN "append" ELSE "nothing",
   then |-> IF credential THEN "rewrite" ELSE "leave"]
GenerateAuthEvent == [pool |-> "buffer", first |-> "nothing", then |-> "leave"]
ToJSON == [pool |-> "builder", first |-> "append", then |-> "leave"]
saveOutputToState == [pool |-> "builder", first |-> "append", then |-> "leave"]
appendArtifactsToLLMRequest == [pool |-> "builder", first |-> "append", then |-> "leave"]
ConvertExamplesToText(responses) ==
  [pool |-> "builder", first |-> IF responses THEN "reset" ELSE "nothing", then |-> "leave"]
AddSessionToMemory == [pool |-> "builder", first |-> "reset", then |-> "leave"]

Uses ==
  [encode |-> EncodeContent, decode |-> DecodeContent, file |-> MarshalJSON,
   fullKey |-> GetCredentialKey(TRUE, TRUE), schemeKey |-> GetCredentialKey(TRUE, FALSE),
   authEvent |-> GenerateAuthEvent, request |-> ToJSON, schema |-> saveOutputToState,
   artifacts |-> appendArtifactsToLLMRequest, examples |-> ConvertExamplesToText(TRUE),
   noExamples |-> ConvertExamplesToText(FALSE), session |-> AddSessionToMemory]

Kinds == DOMAIN Uses
Lost == MaxObjects + 1
NoCall == [of |-> "none", id |-> 0, pool |-> "buffer", content |-> <<>>]
NoOutput == [of |-> "none", data |-> <<>>]

Init ==
  /\ pooled = {}
  /\ made = 0
  /\ call = [c \in Callers |-> NoCall]
  /\ output = NoOutput
  /\ bytes = [c \in Callers |-> 0]
-----------------------------------------------------------------------------
Get(c, kind) ==
  /\ call[c] = NoCall
  /\ output' = NoOutput
  /\ bytes' = [bytes EXCEPT ![c] = 0]
  /\ \/ /\ made < MaxObjects
        /\ made' = made + 1
        /\ call' = [call EXCEPT ![c] = [of |-> kind, id |-> made', pool |-> Uses[kind].pool, content |-> <<>>]]
        /\ UNCHANGED pooled
     \/ \E object \in pooled :
          /\ object.pool = Uses[kind].pool
          /\ call' = [call EXCEPT ![c] = [of |-> kind, id |-> object.id, pool |-> object.pool,
                                          content |-> object.content]]
          /\ pooled' = pooled \ {object}
          /\ UNCHANGED made

Held(c) ==
  CASE Uses[call[c].of].first = "append" -> Append(call[c].content, call[c].of)
    [] Uses[call[c].of].first = "reset" -> <<call[c].of>>
    [] OTHER -> call[c].content

(* Mutation: whoever puts an object back resets it before.                 *)
PutReset(c, content) ==
  pooled' = pooled \cup {[id |-> call[c].id, pool |-> call[c].pool, content |-> <<>>]}
Put(c, content) ==
  pooled' = pooled \cup {[id |-> call[c].id, pool |-> call[c].pool, content |-> content]}

(* Bytes that are still in a buffer are lost when it is written anew.      *)
Overwrite(id) == [d \in Callers |-> IF bytes[d] = id THEN Lost ELSE bytes[d]]

(* Reading back takes the first of what is in the buffer and fails when    *)
(* there is more; the buffer of a call that fails is not put back.         *)
Use(c) ==
  /\ call[c] # NoCall
  /\ Len(Held(c)) <= MaxContent
  /\ LET then == Uses[call[c].of].then
         data == Held(c)
     IN /\ output' = [of |-> call[c].of, data |-> IF then = "read" /\ Len(data) > 1 THEN <<"error">> ELSE data]
        /\ CASE then = "read" -> IF Len(data) = 1 THEN Put(c, <<>>) ELSE UNCHANGED pooled
             [] then = "rewrite" -> Put(c, <<call[c].of>>)
             [] then \in {"leave", "alias"} -> Put(c, data)
        /\ bytes' = IF then = "rewrite" THEN Overwrite(call[c].id)
                    ELSE [bytes EXCEPT ![c] = IF then = "alias" THEN call[c].id ELSE 0]
  /\ call' = [call EXCEPT ![c] = NoCall]
  /\ UNCHANGED made

(* What is written cannot be marshalled: the object is not put back.       *)
Fail(c) ==
  /\ call[c] # NoCall
  /\ Uses[call[c].of].first # "nothing"
  /\ call[c].of \notin {"fullKey", "schemeKey"}
  /\ call' = [call EXCEPT ![c] = NoCall]
  /\ output' = [of |-> call[c].of, data |-> <<"error">>]
  /\ UNCHANGED <<pooled, made, bytes>>

Next == \E c \in Callers : (\E kind \in Kinds : Get(c, kind)) \/ Use(c) \/ Fail(c)

Spec == Init /\ [][Next]_vars
-----------------------------------------------------------------------------
Pools == {"buffer", "builder"}
Objects == [id : 1 .. MaxObjects, pool : Pools, content : Seq(Kinds)]
Calls == [of : Kinds, id : 1 .. MaxObjects, pool : Pools, content : Seq(Kinds)]

TypeOK ==
  /\ made \in 0 .. MaxObjects
  /\ pooled \subseteq Objects
  /\ \A object \in pooled : object.id <= made /\ Len(object.content) <= MaxContent
  /\ call \in [Callers -> Calls \cup {NoCall}]
  /\ bytes \in [Callers -> 0 .. Lost]
  /\ \A c \in Callers : call[c].id <= made /\ (bytes[c] <= made \/ bytes[c] = Lost)
  /\ output \in [of : Kinds \cup {"none"}, data : Seq(Kinds \cup {"error"})]

(* pool.go:33: an object is in a pool or held by one call, never both.     *)
OneOwner ==
  /\ \A x, y \in pooled : x.id = y.id => x = y
  /\ \A c, d \in Callers : call[c] # NoCall =>
       /\ \A x \in pooled : x.id # call[c].id
       /\ c # d => call[c].id # call[d].id

(* What a call finds in its object was left by a call that does not read   *)
(* it back: one that encodes or decodes leaves nothing, so it fails only   *)
(* because of another.                                                     *)
DirtIsLeft ==
  \A object \in pooled \cup {call[c] : c \in Callers} : \A i \in DOMAIN object.content :
    Uses[object.content[i]].then # "read"

HasFile(content) == \E i \in DOMAIN content : content[i] = "file"

(* auth_handler.go:190, codeexecutor.go:293: the output of a call ends     *)
(* with what the call wrote, whatever comes before; the bytes of a file    *)
(* are in an object that nobody else has written anew, or they are lost.   *)
OutputEndsWithOwn ==
  /\ output.of # "none" /\ output.data # <<"error">> /\ Uses[output.of].first # "nothing"
       => output.data[Len(output.data)] = output.of
  /\ \A c \in Callers : bytes[c] \notin {0, Lost} =>
       \A x \in pooled : x.id = bytes[c] => HasFile(x.content)

(* Why the bytes are there: they are in a buffer, which is never reset,    *)
(* and whoever reads a buffer back finds more in it than its own.          *)
BytesInBuffers ==
  /\ \A c \in Callers : call[c] # NoCall => call[c].pool = Uses[call[c].of].pool
  /\ \A c \in Callers : bytes[c] \notin {0, Lost} =>
       /\ \A x \in pooled : x.id = bytes[c] => x.pool = "buffer" /\ HasFile(x.content)
       /\ \A d \in Callers : call[d].id = bytes[c] => call[d].pool = "buffer" /\ HasFile(call[d].content)
=============================================================================
