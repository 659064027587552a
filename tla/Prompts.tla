------------------------------- MODULE Prompts -------------------------------
(***************************************************************************)
(* The prompt service of internal/vertexai/prompt: prompts and their       *)
(* versions, kept in two maps behind one RWMutex.  Cloud storage is a      *)
(* placeholder in the code (saves succeed, loads find nothing, lists are   *)
(* empty), so the maps are the only store, and DeleteVersions, which       *)
(* deletes the listed versions, deletes none.                              *)
(*                                                                         *)
(* A call is a sequence of steps, each one critical section of cacheMutex; *)
(* other calls run between them.  Operation gives the steps of each        *)
(* operation.  Of a prompt the model keeps its id, its name, the version   *)
(* it says it is at, and what wrote it; of a version its id.               *)
(* Ids are made from the time, which may stand still between two calls, so *)
(* a new id is any id.                                                     *)
(***************************************************************************)
EXTENDS FiniteSets

CONSTANTS PromptCalls, \* the calls clients make, each once
          Names,       \* names of prompts, NoName among them
          NoName,      \* the empty name
          Ids,         \* ids of prompts
          VersionIds,  \* ids of versions
          NoId         \* the empty id, of no prompt or version

VARIABLES
  promptCache,  \* promptCache[id]: the prompt stored under id, or None
  versionCache, \* versionCache[id]: the ids of the versions of prompt id
  call,         \* call[c]: the operation, its next step and its locals
  known,        \* history: ids a prompt was ever stored under
  overlaps      \* history: pairs of calls that were in progress together

vars == <<promptCache, versionCache, call, known, overlaps>>

None == [id |-> NoId, name |-> NoName, ver |-> NoId, by |-> "none", made |-> "none"]

(* The control flow of each operation: its first step, and the steps that  *)
(* may follow one, by the options of the request.  "refused" is an error   *)
(* of a validation, "done" the normal return.                              *)
CreatePrompt ==
  [first |-> {"unique"}, unique |-> {"identify"}, identify |-> {"done", "save", "put"},
   save |-> {"put"}, put |-> {"done"}]

GetPrompt == [first |-> {"find"}, find |-> {"done", "pick"}, pick |-> {"done"}]

UpdatePrompt ==
  [first |-> {"find"}, find |-> {"refused", "save", "put"}, save |-> {"put"}, put |-> {"done"}]

DeletePrompt == [first |-> {"find"}, find |-> {"refused", "drop"}, drop |-> {"done"}]

CreateVersion == [first |-> {"find"}, find |-> {"refused", "save"}, save |-> {"done"}]

GetVersion == [first |-> {"pick"}, pick |-> {"done"}]

RestoreVersion ==
  [first |-> {"pick"}, pick |-> {"save"}, save |-> {"find"}, find |-> {"put"}, put |-> {"done"}]

DeleteVersion == [first |-> {"pick"}, pick |-> {"dropVersion"}, dropVersion |-> {"done"}]

ApplyTemplate == [first |-> {"find"}, find |-> {"pick", "refused", "done"}, pick |-> {"refused", "done"}]

(* BatchCreatePrompts creates one prompt after the other; a failure ends   *)
(* it unless ContinueOnError.  ExportPrompts skips the prompts it misses.  *)
BatchCreatePrompts == [CreatePrompt EXCEPT !.identify = {"save", "put"}, !.put = {"done", "unique"}]

ExportPrompts == [first |-> {"find"}, find |-> {"done", "find"}]

Operation ==
  [create |-> CreatePrompt, get |-> GetPrompt, update |-> UpdatePrompt, delete |-> DeletePrompt,
   createVersion |-> CreateVersion, getVersion |-> GetVersion, restore |-> RestoreVersion,
   deleteVersion |-> DeleteVersion, apply |-> ApplyTemplate, batch |-> BatchCreatePrompts,
   export |-> ExportPrompts]

Idle == [op |-> "none", at |-> "idle", id |-> NoId, name |-> NoName, ver |-> NoId]

Init ==
  /\ promptCache = [i \in Ids |-> None]
  /\ versionCache = [i \in Ids |-> {}]
  /\ call = [c \in PromptCalls |-> Idle]
  /\ known = {}
  /\ overlaps = {}

Busy(c) == call[c].at \notin {"idle", "returned"}

(* The call returns; its answer, nil or an error, is the client's affair.  *)
Return(c) == call' = [call EXCEPT ![c] = [Idle EXCEPT !.at = "returned"]]

(* An error of a step ends the call; batch and export may go on.           *)
Fail(c) ==
  \/ Return(c)
  \/ /\ call[c].op \in {"batch", "export"}
     /\ \E step \in Operation[call[c].op].first : call' = [call EXCEPT ![c].at = step]

Proceed(c, id, name, ver) ==
  \E next \in Operation[call[c].op][call[c].at] :
    IF next \in {"done", "refused"}
    THEN Return(c)
    ELSE call' = [call EXCEPT ![c] = [op |-> @.op, at |-> next, id |-> id, name |-> name, ver |-> ver]]

Named(name) == {i \in Ids : promptCache[i] # None /\ promptCache[i].name = name}

(* A request that fails its first validation is not a call of the model.   *)
Start(c, op) ==
  /\ call[c].at = "idle"
  /\ \E step \in Operation[op].first : call' = [call EXCEPT ![c].op = op, ![c].at = step]
  /\ overlaps' = overlaps \cup {{c, d} : d \in {e \in PromptCalls : Busy(e)}}
  /\ UNCHANGED <<promptCache, versionCache, known>>

(* Mutation: prompts that are at a version are not looked at.              *)
UniqueUnversioned(c) ==
  /\ call[c].at = "unique"
  /\ \E name \in Names :
       IF name # NoName /\ (\E i \in Named(name) : promptCache[i].ver = NoId)
       THEN Fail(c)
       ELSE Proceed(c, NoId, name, NoId)
  /\ UNCHANGED <<promptCache, versionCache, known, overlaps>>

(* CreatePrompt looks whether the name is taken.                           *)
Unique(c) ==
  /\ call[c].at = "unique"
  /\ \E name \in Names :
       IF name # NoName /\ Named(name) # {}
       THEN Fail(c)
       ELSE Proceed(c, NoId, name, NoId)
  /\ UNCHANGED <<promptCache, versionCache, known, overlaps>>

(* The new prompt has the id it came with, which may be any, or one made   *)
(* from the time.  A dry run ends here.                                    *)
Identify(c) ==
  /\ call[c].at = "identify"
  /\ \E id \in Ids : Proceed(c, id, call[c].name, NoId)
  /\ UNCHANGED <<promptCache, versionCache, known, overlaps>>

(* GetPrompt's look into the cache; by name, a map is searched in any      *)
(* order.  Cloud storage has nothing that the cache has not.  Restore asks *)
(* by the id it has.                                                       *)
Find(c) ==
  /\ call[c].at = "find"
  /\ \/ \E i \in Ids :
          /\ promptCache[i] # None
          /\ call[c].op = "restore" => i = call[c].id
          /\ Proceed(c, i, NoName, promptCache[i].ver)
     \/ /\ \E i \in Ids : promptCache[i] = None /\ (call[c].op = "restore" => i = call[c].id)
        /\ Fail(c)
  /\ UNCHANGED <<promptCache, versionCache, known, overlaps>>

(* getPromptVersion.  GetPrompt, which has the prompt at hand, calls it    *)
(* for another version than the prompt is at.                              *)
Pick(c) ==
  /\ call[c].at = "pick"
  /\ LET ofGet == call[c].op \in {"get", "apply"}
     IN \E pid \in (IF ofGet THEN {call[c].id} ELSE Ids), v \in VersionIds :
          IF (ofGet /\ v = call[c].ver) \/ v \in versionCache[pid]
          THEN Proceed(c, pid, NoName, v)
          ELSE Fail(c)
  /\ UNCHANGED <<promptCache, versionCache, known, overlaps>>

(* createPromptVersion: the new version replaces one that has its id.      *)
Save(c) ==
  /\ call[c].at = "save"
  /\ \E v \in VersionIds :
       /\ versionCache' = [versionCache EXCEPT ![call[c].id] = @ \cup {v}]
       /\ Proceed(c, call[c].id, call[c].name, v)
  /\ UNCHANGED <<promptCache, known, overlaps>>

Maker(op) == IF op = "batch" THEN "create" ELSE op

(* cachePrompt at the end of CreatePrompt and UpdatePrompt.  An update     *)
(* replaces the prompt by the request's, under any name; a restore's       *)
(* request is a new Prompt with neither a name nor the version just made.  *)
Put(c) ==
  /\ call[c].at = "put"
  /\ \E name \in (CASE call[c].op \in {"create", "batch"} -> {call[c].name}
                     [] call[c].op = "update" -> Names
                     [] call[c].op = "restore" -> {NoName}) :
       promptCache' = [promptCache EXCEPT ![call[c].id] =
         [id |-> call[c].id, name |-> name, by |-> c, made |-> Maker(call[c].op),
          ver |-> IF call[c].op = "restore" THEN NoId ELSE call[c].ver]]
  /\ known' = known \cup {call[c].id}
  /\ Proceed(c, call[c].id, call[c].name, call[c].ver)
  /\ UNCHANGED <<versionCache, overlaps>>

Drop(c) ==
  /\ call[c].at = "drop"
  /\ promptCache' = [promptCache EXCEPT ![call[c].id] = None]
  /\ Proceed(c, call[c].id, NoName, NoId)
  /\ UNCHANGED <<versionCache, known, overlaps>>

DropVersion(c) ==
  /\ call[c].at = "dropVersion"
  /\ versionCache' = [versionCache EXCEPT ![call[c].id] = @ \ {call[c].ver}]
  /\ Proceed(c, call[c].id, NoName, NoId)
  /\ UNCHANGED <<promptCache, known, overlaps>>

(* ClearCache, and the end of Close.                                       *)
ClearCache ==
  /\ promptCache' = [i \in Ids |-> None]
  /\ versionCache' = [i \in Ids |-> {}]
  /\ UNCHANGED <<call, known, overlaps>>

Next ==
  \/ \E c \in PromptCalls :
       \/ \E op \in DOMAIN Operation : Start(c, op)
       \/ Unique(c) \/ Identify(c) \/ Find(c) \/ Pick(c) \/ Save(c)
       \/ Put(c) \/ Drop(c) \/ DropVersion(c)
  \/ ClearCache

Spec == Init /\ [][Next]_vars
-----------------------------------------------------------------------------
Stages(op) == DOMAIN Operation[op] \ {"first"}

Locals ==
  [op : {"none"} \cup DOMAIN Operation,
   at : {"idle", "returned", "unique", "identify", "find", "pick", "save", "put", "drop", "dropVersion"},
   id : Ids \cup {NoId}, name : Names, ver : VersionIds \cup {NoId}]

TypeOK ==
  /\ promptCache \in [Ids -> [id : Ids \cup {NoId}, name : Names, ver : VersionIds \cup {NoId},
                              by : PromptCalls \cup {"none"},
                              made : {"none", "create", "update", "restore"}]]
  /\ versionCache \in [Ids -> SUBSET VersionIds]
  /\ call \in [PromptCalls -> Locals]
  /\ \A c \in PromptCalls : Busy(c) => call[c].op \in DOMAIN Operation /\ call[c].at \in Stages(call[c].op)
  /\ known \subseteq Ids /\ overlaps \subseteq SUBSET PromptCalls

(* Two stored prompts have one name only because their creations were in   *)
(* progress together (the name is looked up in one critical section and    *)
(* taken in another) or because an update named one of them.               *)
NamesClashOnlyByRace ==
  \A i, j \in Ids :
    LET p == promptCache[i]
        q == promptCache[j]
    IN i # j /\ p # None /\ q # None /\ p.name = q.name /\ p.name # NoName
       => \/ "update" \in {p.made, q.made}
          \/ {p.by, q.by} \in overlaps

(* Versions belong to a prompt that was stored once, or to one that is     *)
(* being created: no operation makes a version of an unknown prompt, though *)
(* the prompt may be gone when the version arrives.                        *)
Creates(c) == call[c].op \in {"create", "batch"}
Known(i) == i \in known \/ \E c \in PromptCalls : Creates(c) /\ call[c].at = "put" /\ call[c].id = i

VersionsHaveAPrompt == \A i \in Ids : versionCache[i] # {} => Known(i)

(* Why these hold: a call that writes has an id; calls that are in         *)
(* progress together are recorded; who may still take a name ran together  *)
(* with whoever took it since; and what is stored is known, as is that to  *)
(* which a version is added.                                               *)
WritersHaveAnId == \A c \in PromptCalls : call[c].at \in {"save", "put"} => call[c].id \in Ids
Together == \A c, d \in PromptCalls : c # d /\ Busy(c) /\ Busy(d) => {c, d} \in overlaps
NamesTakenTogether ==
  \A c \in PromptCalls :
    Creates(c) /\ call[c].at \in {"identify", "save", "put"} /\ call[c].name # NoName =>
      \A i \in Ids : LET p == promptCache[i]
                     IN p # None /\ p.name = call[c].name => p.made = "update" \/ {c, p.by} \in overlaps
StoredAreKnown ==
  /\ \A i \in Ids : promptCache[i] # None => i \in known
  /\ \A c \in PromptCalls : call[c].at = "save" /\ ~Creates(c) => Known(call[c].id)
=============================================================================
