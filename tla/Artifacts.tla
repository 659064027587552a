------------------------------ MODULE Artifacts ------------------------------
(***************************************************************************)
(* The artifact services: InMemoryService keeps the versions of a file in  *)
(* a slice behind a mutex, which is one step for each operation;           *)
(* GCSService keeps a blob per version, and each operation is several      *)
(* requests to storage, any of which may fail or run between those of      *)
(* another call.  Storage commits an object when its writer is closed, and *)
(* updates the attributes of an object that exists.                        *)
(***************************************************************************)
EXTENDS Integers, Sequences, FiniteSets

CONSTANTS Callers,  \* clients of the services, with one call each at a time
          Sessions, \* session ids
          Files,    \* file names of a session
          UserFiles, \* file names with the prefix user:
          Contents, \* artifacts
          MaxSaves  \* bound on the saves of either service

VARIABLES
  artifacts, \* artifacts[p]: the versions of path p in memory
  blobs,     \* blobs[<<p, v>>]: the data of the blob, or NoBlob
  pending,   \* pending[c]: c's call of the GCS service
  promised,  \* history: saves that answered a version and were not deleted since
  saves,     \* number of saves begun
  answer     \* what the memory service has just been asked, and has answered

vars == <<artifacts, blobs, pending, promised, saves, answer>>

Paths == (Sessions \X Files) \cup ({"user"} \X UserFiles)
Versions == 0 .. MaxSaves
NoBlob == "none"
NoAnswer == [op |-> "none"]
Free == [op |-> "none", path |-> <<>>, data |-> "none", version |-> 0]

(* artifactPath, and getBlobName without the version: the files of the     *)
(* user are the same in every session.                                     *)
ArtifactPath(s, f) == IF f \in UserFiles THEN <<"user", f>> ELSE <<s, f>>

Init ==
  /\ artifacts = [p \in Paths |-> <<>>]
  /\ blobs = [b \in Paths \X Versions |-> NoBlob]
  /\ pending = [c \in Callers |-> Free]
  /\ promised = {}
  /\ saves = 0
  /\ answer = NoAnswer

Promise(svc, p, v, data) ==
  promised' = promised \cup {[svc |-> svc, path |-> p, version |-> v, data |-> data]}
Withdraw(svc, p) == promised' = {q \in promised : ~(q.svc = svc /\ q.path = p)}

(* Mutation: the last version is replaced, as GCSService does.             *)
SaveInPlace(p, data) ==
  /\ saves < MaxSaves
  /\ LET last == Len(artifacts[p])
     IN IF last = 0
        THEN artifacts' = [artifacts EXCEPT ![p] = <<data>>] /\ Promise("memory", p, 0, data)
        ELSE artifacts' = [artifacts EXCEPT ![p][last] = data] /\ Promise("memory", p, last - 1, data)
  /\ saves' = saves + 1
  /\ answer' = NoAnswer
  /\ UNCHANGED <<blobs, pending>>

SaveArtifact(p, data) ==
  /\ saves < MaxSaves
  /\ artifacts' = [artifacts EXCEPT ![p] = Append(@, data)]
  /\ Promise("memory", p, Len(artifacts[p]), data)
  /\ saves' = saves + 1
  /\ answer' = NoAnswer
  /\ UNCHANGED <<blobs, pending>>

DeleteArtifact(p) ==
  /\ artifacts' = [artifacts EXCEPT ![p] = <<>>]
  /\ Withdraw("memory", p)
  /\ answer' = NoAnswer
  /\ UNCHANGED <<blobs, pending, saves>>

Reads == UNCHANGED <<artifacts, blobs, pending, promised, saves>>

(* A version that is asked for is replaced by the last; a negative one is  *)
(* an index that panics.                                                   *)
Loaded(p, version) ==
  IF artifacts[p] = <<>> THEN NoBlob
  ELSE IF version >= 0 THEN artifacts[p][Len(artifacts[p])]
  ELSE "panic"

LoadArtifact(p, version) ==
  answer' = [op |-> "load", path |-> p, version |-> version, got |-> Loaded(p, version)] /\ Reads

Listed(p) == 0 .. Len(artifacts[p]) - 1
ListVersions(p) == answer' = [op |-> "versions", path |-> p, got |-> Listed(p)] /\ Reads

(* The files of the session, and those of the user.                        *)
Keys(s) == {f \in Files \cup UserFiles : artifacts[ArtifactPath(s, f)] # <<>>}
ListArtifactKey(s) == answer' = [op |-> "keys", session |-> s, got |-> Keys(s)] /\ Reads

(* ListVersions of GCSService: the blobs whose names begin with that of    *)
(* version 0.                                                              *)
BlobVersions(p) == {v \in Versions : v = 0 /\ blobs[<<p, v>>] # NoBlob}

At(c, op) == pending[c].op = op

(* The version a save writes.                                              *)
SaveVersion(versions) == IF versions = {} THEN 0 ELSE Cardinality(versions) - 1

(* A call begins by listing the versions; an error there ends it.          *)
BeginSave(c, p, data) ==
  /\ saves < MaxSaves
  /\ At(c, "none")
  /\ pending' = [pending EXCEPT ![c] =
       [op |-> "update", path |-> p, data |-> data, version |-> SaveVersion(BlobVersions(p))]]
  /\ saves' = saves + 1
  /\ answer' = NoAnswer
  /\ UNCHANGED <<artifacts, blobs, promised>>

(* The data is written to the writer, then the content type (left out of   *)
(* the model) to the object, which a first save has not made yet.  After   *)
(* an error the deferred close commits the data all the same.              *)
Update(c) ==
  /\ At(c, "update")
  /\ LET call == pending[c]
         b == <<call.path, call.version>>
     IN \/ blobs[b] # NoBlob /\ pending' = [pending EXCEPT ![c].op = "close"]
        \/ pending' = [pending EXCEPT ![c].op = "closeFailed"]
  /\ answer' = NoAnswer
  /\ UNCHANGED <<artifacts, blobs, promised, saves>>

(* The error of Close is dropped: the save answers what it would have.     *)
Close(c) ==
  /\ At(c, "close") \/ At(c, "closeFailed")
  /\ LET call == pending[c]
         b == <<call.path, call.version>>
     IN /\ \/ blobs' = [blobs EXCEPT ![b] = call.data]
           \/ UNCHANGED blobs
        /\ IF At(c, "close") THEN Promise("gcs", call.path, call.version, call.data)
           ELSE UNCHANGED promised
  /\ pending' = [pending EXCEPT ![c] = Free]
  /\ answer' = NoAnswer
  /\ UNCHANGED <<artifacts, saves>>

BeginDelete(c, p) ==
  /\ At(c, "none")
  /\ BlobVersions(p) # {}
  /\ pending' = [pending EXCEPT ![c] = [op |-> "delete", path |-> p, data |-> NoBlob, version |-> 0]]
  /\ answer' = NoAnswer
  /\ UNCHANGED <<artifacts, blobs, promised, saves>>

(* Deleting a blob that is gone is an error, like any other.               *)
Delete(c) ==
  /\ At(c, "delete")
  /\ LET p == pending[c].path
     IN \/ blobs' = [blobs EXCEPT ![<<p, 0>>] = NoBlob] /\ Withdraw("gcs", p)
        \/ UNCHANGED <<blobs, promised>>
  /\ pending' = [pending EXCEPT ![c] = Free]
  /\ answer' = NoAnswer
  /\ UNCHANGED <<artifacts, saves>>

(* LoadArtifact of GCSService opens a reader, then asks for the attributes *)
(* of what may be another object by then.                                  *)
Open(c, p) ==
  /\ At(c, "none")
  /\ blobs[<<p, 0>>] # NoBlob
  /\ pending' = [pending EXCEPT ![c] =
       [op |-> "attrs", path |-> p, data |-> blobs[<<p, 0>>], version |-> 0]]
  /\ answer' = NoAnswer
  /\ UNCHANGED <<artifacts, blobs, promised, saves>>

Attrs(c) ==
  /\ At(c, "attrs")
  /\ pending' = [pending EXCEPT ![c] = Free]
  /\ answer' = NoAnswer
  /\ UNCHANGED <<artifacts, blobs, promised, saves>>

Next ==
  \/ \E s \in Sessions, f \in Files \cup UserFiles :
       LET p == ArtifactPath(s, f)
       IN \/ DeleteArtifact(p) \/ ListVersions(p)
          \/ \E version \in {-1} \cup Versions : LoadArtifact(p, version)
          \/ \E data \in Contents : SaveArtifact(p, data)
          \/ \E c \in Callers, data \in Contents : BeginSave(c, p, data)
          \/ \E c \in Callers : BeginDelete(c, p) \/ Open(c, p)
  \/ \E s \in Sessions : ListArtifactKey(s)
  \/ \E c \in Callers : Update(c) \/ Close(c) \/ Delete(c) \/ Attrs(c)

Spec == Init /\ [][Next]_vars
-----------------------------------------------------------------------------
Calls == [op : {"update", "close", "closeFailed", "delete", "attrs"}, path : Paths,
          data : Contents \cup {NoBlob}, version : Versions]
Promises == [svc : {"memory", "gcs"}, path : Paths, version : Versions, data : Contents \cup {NoBlob}]
Answers ==
  {NoAnswer} \cup [op : {"versions"}, path : Paths, got : SUBSET Versions]
    \cup [op : {"keys"}, session : Sessions, got : SUBSET (Files \cup UserFiles)]
    \cup [op : {"load"}, path : Paths, version : {-1} \cup Versions, got : Contents \cup {NoBlob, "panic"}]

TypeOK ==
  /\ artifacts \in [Paths -> Seq(Contents)]
  /\ blobs \in [Paths \X Versions -> Contents \cup {NoBlob}]
  /\ pending \in [Callers -> Calls \cup {Free}]
  /\ promised \subseteq Promises
  /\ saves \in Versions /\ \A p \in Paths : Len(artifacts[p]) <= saves
  /\ answer \in Answers

(* "Each save operation creates a new version" (artifact/doc.go:30): no    *)
(* two saves of a path answer the same version, while it is not deleted.   *)
SavesMakeNewVersions(svc) ==
  \A q, r \in promised :
    q.svc = svc /\ r.svc = svc /\ q.path = r.path /\ q.version = r.version => q.data = r.data

(* What saves of path p answered to their callers, in any session.         *)
Saved(p) == {q \in promised : q.svc = "memory" /\ q.path = p}

(* A load from the memory service gives nothing for a file that was not    *)
(* saved, and else what the last save stored, whatever the version.        *)
LoadsGiveTheLatest ==
  answer.op = "load" /\ answer.version >= 0 =>
    \/ answer.got = NoBlob /\ Saved(answer.path) = {}
    \/ \E q \in Saved(answer.path) :
         answer.got = q.data /\ \A r \in Saved(answer.path) : r.version <= q.version

(* The memory service lists the versions that saves answered, and the      *)
(* files of a session and its user that have one.                          *)
ListingsAreComplete ==
  /\ answer.op = "versions" => answer.got = {q.version : q \in Saved(answer.path)}
  /\ answer.op = "keys" =>
       answer.got = {f \in Files \cup UserFiles : Saved(ArtifactPath(answer.session, f)) # {}}

(* Why these hold: a version of the slice is what one save promised, and   *)
(* an answer is that of the present state.                                 *)
PromisesHeld ==
  \A q \in promised : q.svc = "memory" =>
    q.version + 1 \in DOMAIN artifacts[q.path] /\ artifacts[q.path][q.version + 1] = q.data
VersionsPromised ==
  \A p \in Paths : \A i \in DOMAIN artifacts[p] : \E q \in Saved(p) : q.version + 1 = i
AnswerIsPresent ==
  /\ answer.op = "load" => answer.got = Loaded(answer.path, answer.version)
  /\ answer.op = "versions" => answer.got = Listed(answer.path)
  /\ answer.op = "keys" => answer.got = Keys(answer.session)
=============================================================================
