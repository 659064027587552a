------------------------------- MODULE RagMemory -------------------------------
(***************************************************************************)
(* The RAG service of internal/vertexai/preview/rag, and the memory        *)
(* service that stores sessions with it (memory/vertex_ai_rag.go).  Every  *)
(* operation is a remote call; deletions and imports are long-running: the *)
(* server performs them some time after it accepted them, and a caller     *)
(* that stops waiting (its context ended) leaves them to the server.       *)
(* Batches are a call for each member, up to the first one that fails.     *)
(*                                                                         *)
(* The service has one corpus here, whose files are numbered as the server *)
(* makes them.  The server, and what it refuses, is modelled from how the  *)
(* code uses it.  Listing, Search and Query read only; Close does nothing. *)
(***************************************************************************)
EXTENDS Naturals, Sequences, FiniteSets

CONSTANTS
  Callers,
  Configs,    \* the sets of backends that corpora are configured with
  MaxFiles,   \* bound of this model: files made
  MaxPending  \* bound of this model: operations under way at the server

VARIABLES
  corpus,  \* the corpus: [exists, backend, description]; a description names its writer
  files,   \* the numbers of the files in it
  made,    \* number of files ever made
  pending, \* operations the server accepted and has not performed yet
  call     \* call[c]: the step of c and its locals

vars == <<corpus, files, made, pending, call>>

Backends == {"managed", "weaviate", "pinecone", "vertex"}

(* The last backend that is configured is the one that is sent; what it is *)
(* configured with beyond its address is not sent at all.                  *)
convertVectorDbConfigToPb(config) ==
  CASE "vertex" \in config -> "vertex"
    [] "pinecone" \in config /\ "vertex" \notin config -> "pinecone"
    [] "weaviate" \in config /\ config \cap {"pinecone", "vertex"} = {} -> "weaviate"
    [] config = {"managed"} -> "managed"
    [] config = {} -> "none"

convertPbToVectorDbConfig(pb) == {pb} \cap Backends

Sources == {"gcs"}

Free == [at |-> "free", kind |-> "none", batch |-> <<>>, i |-> 0, result |-> "none",
         copy |-> <<>>, done |-> 0]

Init ==
  /\ corpus = [exists |-> FALSE, backend |-> {}, description |-> ""]
  /\ files = {}
  /\ made = 0
  /\ pending = {}
  /\ call = [c \in Callers |-> Free]

At(c, step) == call[c].at = step
Operation(c, kind, of) == [by |-> c, kind |-> kind, of |-> of]
Orphan(op) == [op EXCEPT !.by = "nobody"]
-----------------------------------------------------------------------------
CreateCorpus(c, config) ==
  /\ At(c, "free")
  /\ ~corpus.exists
  /\ corpus' = [exists |-> TRUE, description |-> "",
                backend |-> convertPbToVectorDbConfig(convertVectorDbConfigToPb(config))]
  /\ UNCHANGED <<files, made, pending, call>>

GetCorpus(c) ==
  /\ At(c, "free")
  /\ corpus.exists
  /\ call' = [call EXCEPT ![c].copy = <<corpus.description>>]
  /\ UNCHANGED <<corpus, files, made, pending>>

(* The whole corpus is sent: the mask of what has changed is dropped.      *)
UpdateCorpus(c, field) ==
  /\ At(c, "free")
  /\ call[c].copy # <<>>
  /\ corpus.exists
  /\ corpus' = [corpus EXCEPT !.description = IF field = "description" THEN c ELSE call[c].copy[1]]
  /\ call' = [call EXCEPT ![c].copy = <<>>]
  /\ UNCHANGED <<files, made, pending>>

(* AddSessionToMemory: a session with text becomes a file, of which only   *)
(* the description is sent: the text stays in a temporary file.            *)
UploadFile(c, hasText) ==
  /\ At(c, "free")
  /\ IF hasText
     THEN /\ corpus.exists
          /\ made < MaxFiles
          /\ made' = made + 1
          /\ files' = files \cup {made + 1}
     ELSE UNCHANGED <<files, made>>
  /\ UNCHANGED <<corpus, pending, call>>
-----------------------------------------------------------------------------
(* DeleteFile and ImportFiles are batches of one.                          *)
BatchDeleteFiles(c, batch) ==
  /\ At(c, "free")
  /\ call' = [call EXCEPT ![c] = [Free EXCEPT !.at = "send", !.kind = "delete", !.batch = batch, !.i = 1]]
  /\ UNCHANGED <<corpus, files, made, pending>>

BatchImportFiles(c, batch) ==
  /\ At(c, "free")
  /\ call' = [call EXCEPT ![c] = [Free EXCEPT !.at = "send", !.kind = "import", !.batch = batch, !.i = 1]]
  /\ UNCHANGED <<corpus, files, made, pending>>

DeleteCorpus(c, force) ==
  /\ At(c, "free")
  /\ corpus.exists
  /\ \/ call' = [call EXCEPT ![c] = [Free EXCEPT !.at = "failed"]] /\ UNCHANGED pending
     \/ /\ files # {} => force
        /\ Cardinality(pending) < MaxPending
        /\ call' = [call EXCEPT ![c] = [Free EXCEPT !.at = "wait", !.kind = "corpus",
                                          !.batch = <<0>>, !.i = 1]]
        /\ pending' = pending \cup {Operation(c, "corpus", 0)}
  /\ UNCHANGED <<corpus, files, made>>

(* The request for the next member: the server refuses what is not there,  *)
(* and whatever else it cannot do; a source of no known kind is not sent.    *)
Send(c) ==
  /\ At(c, "send")
  /\ LET of == call[c].batch[call[c].i]
     IN \/ call' = [call EXCEPT ![c].at = "failed"] /\ UNCHANGED pending
        \/ /\ corpus.exists
           /\ IF call[c].kind = "delete" THEN of \in files ELSE of \in Sources
           /\ Cardinality(pending) < MaxPending
           /\ pending' = pending \cup {Operation(c, call[c].kind, of)}
           /\ call' = [call EXCEPT ![c].at = "wait"]
  /\ UNCHANGED <<corpus, files, made>>

(* The server performs an operation, or finds it cannot any more.  Files   *)
(* that an import fails on are counted in its answer, for the log.         *)
Perform(op) ==
  /\ op \in pending
  /\ pending' = pending \ {op}
  /\ \/ /\ corpus.exists
        /\ CASE op.kind = "delete" ->
                  op.of \in files /\ files' = files \ {op.of} /\ UNCHANGED <<corpus, made>>
             [] op.kind = "import" ->
                  /\ \/ made < MaxFiles /\ made' = made + 1 /\ files' = files \cup {made + 1}
                     \/ UNCHANGED <<files, made>>
                  /\ UNCHANGED corpus
             [] op.kind = "corpus" ->
                  corpus' = [corpus EXCEPT !.exists = FALSE] /\ files' = {} /\ UNCHANGED made
        /\ call' = [c \in Callers |-> IF c = op.by THEN [call[c] EXCEPT !.result = "ok", !.done = @ + 1]
                                      ELSE call[c]]
     \/ /\ call' = [c \in Callers |-> IF c = op.by THEN [call[c] EXCEPT !.result = "error"] ELSE call[c]]
        /\ UNCHANGED <<corpus, files, made>>

(* Mutation: the answer is not waited for.                                 *)
WaitAccepted(c) ==
  /\ At(c, "wait")
  /\ pending' = {IF op.by = c THEN Orphan(op) ELSE op : op \in pending}
  /\ call' = [call EXCEPT ![c].at = IF call[c].i = Len(call[c].batch) THEN "done" ELSE "send",
                          ![c].i = @ + 1, ![c].result = "none"]
  /\ UNCHANGED <<corpus, files, made>>

Wait(c) ==
  /\ At(c, "wait")
  /\ \/ /\ call[c].result = "ok"
        /\ call' = [call EXCEPT ![c].at = IF call[c].i = Len(call[c].batch) THEN "done" ELSE "send",
                                ![c].i = @ + 1, ![c].result = "none"]
        /\ UNCHANGED pending
     \/ /\ call[c].result # "ok"
        /\ call' = [call EXCEPT ![c].at = "failed"]
        /\ pending' = {IF op.by = c THEN Orphan(op) ELSE op : op \in pending}
  /\ UNCHANGED <<corpus, files, made>>

Return(c) ==
  /\ call[c].at \in {"done", "failed"}
  /\ call' = [call EXCEPT ![c] = Free]
  /\ UNCHANGED <<corpus, files, made, pending>>

Batches(S) == {<<x>> : x \in S} \cup {<<x, y>> : x \in S, y \in S}

Next ==
  \/ \E c \in Callers :
       \/ \E config \in Configs : CreateCorpus(c, config)
       \/ GetCorpus(c)
       \/ \E field \in {"displayName", "description"} : UpdateCorpus(c, field)
       \/ \E hasText \in BOOLEAN : UploadFile(c, hasText)
       \/ \E batch \in Batches(1 .. made) : BatchDeleteFiles(c, batch)
       \/ \E batch \in Batches(Sources) : BatchImportFiles(c, batch)
       \/ \E force \in BOOLEAN : DeleteCorpus(c, force)
       \/ Send(c) \/ Wait(c) \/ Return(c)
  \/ \E op \in pending : Perform(op)

Spec == Init /\ [][Next]_vars
-----------------------------------------------------------------------------
Kinds == {"delete", "import", "corpus"}
Members(kind) == IF kind = "import" THEN Sources ELSE 0 .. MaxFiles
Calls(kind) == [at : {"free", "send", "wait", "done", "failed"}, kind : {kind}, batch : Seq(Members(kind)), i : Nat,
                result : {"none", "ok", "error"}, copy : Seq({""} \cup Callers), done : Nat]
Operations(kind) == [by : {"nobody"} \cup Callers, kind : {kind}, of : Members(kind)]

TypeOK ==
  /\ corpus \in [exists : BOOLEAN, backend : {{}} \cup {{b} : b \in Backends}, description : {""} \cup Callers]
  /\ made \in 0 .. MaxFiles /\ files \subseteq 1 .. made
  /\ \A op \in pending : op.kind \in Kinds /\ op \in Operations(op.kind)
  /\ DOMAIN call = Callers
  /\ \A c \in Callers : call[c].kind \in {"none"} \cup Kinds /\ call[c] \in Calls(call[c].kind)

(* client.go:287: of a batch of deletions, all are gone when it succeeds,  *)
(* and when it fails those before the one that failed.                     *)
BatchesDeleteInOrder ==
  \A c \in Callers : call[c].kind = "delete" =>
    \A i \in 1 .. call[c].i - 1 : call[c].batch[i] \notin files

(* client.go:310: of a batch of imports every source was imported once     *)
(* when it succeeds, and none after the one that failed.                   *)
BatchesImportOnce ==
  \A c \in Callers : call[c].kind = "import" =>
    /\ call[c].at \in {"done", "send"} => call[c].done = call[c].i - 1
    /\ call[c].at = "failed" => call[c].done <= call[c].i

(* An operation whose caller still waits for it is not lost.               *)
WaitedForIsPending ==
  \A c \in Callers : At(c, "wait") /\ call[c].result = "none" => \E op \in pending : op.by = c

(* Why these hold: how far a call is with its batch, of which it deletes   *)
(* files that were made; and the server has one operation of a caller, the *)
(* one it waits for.                                                       *)
Progress ==
  \A c \in Callers : LET k == call[c] IN
    /\ k.at = "free" => k.kind = "none"
    /\ k.at \in {"send", "wait"} => k.kind # "none" /\ k.i \in DOMAIN k.batch
    /\ k.at \in {"send", "done"} => k.done = k.i - 1
    /\ k.at = "send" => k.result = "none"
    /\ k.at = "wait" => k.done = IF k.result = "ok" THEN k.i ELSE k.i - 1
    /\ k.at = "failed" => k.done <= k.i
    /\ k.kind = "delete" =>
         /\ \A j \in DOMAIN k.batch : k.batch[j] \in 1 .. made
         /\ k.at \in {"send", "wait"} \/ k.i - 1 \in 0 .. Len(k.batch)
         /\ k.at = "wait" /\ k.result = "ok" => k.batch[k.i] \notin files
PendingOfCalls ==
  /\ \A op \in pending : op.by # "nobody" => LET k == call[op.by] IN
       k.at = "wait" /\ k.result = "none" /\ op = Operation(op.by, k.kind, k.batch[k.i])
  /\ \A c \in Callers : LET k == call[c] IN
       k.at = "wait" /\ k.result = "none" => Operation(c, k.kind, k.batch[k.i]) \in pending
=============================================================================
