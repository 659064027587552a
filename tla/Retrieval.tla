------------------------------- MODULE Retrieval -------------------------------
(***************************************************************************)
(* Queries of RAG corpora (internal/vertexai/preview/rag/retrieval.go) and *)
(* the search for memories that is built on them                           *)
(* (memory/vertex_ai_rag.go).  A document is a chunk of a file: lines of   *)
(* JSON, one for each event with text of a session, or any other text.     *)
(* The server is modelled from how it is used: it answers a query with at  *)
(* most topK documents of the named corpora.                               *)
(***************************************************************************)
EXTENDS Naturals, Sequences, FiniteSets

CONSTANTS
  Corpora, Users,
  MaxDocuments  \* bound of this model: documents there are

VARIABLES
  documents, \* sequence of [corpus, lines]: lines are events [author, text]
  uploads,   \* descriptions that the memory service sent, their texts left out
  request,   \* the query under way: [kind, corpora, topK], kind "none" at rest
  response,  \* the documents the server answered, by their numbers
  memories   \* what they become: [author, text], for SearchMemory

vars == <<documents, uploads, request, response, memories>>

Texts == {"hello", ""}
Events == [author : {"model", "unnamed"}, text : Texts]

(* A chunk of other text has no lines.                                     *)
Documents == [corpus : Corpora, lines : {<<>>} \cup {<<e>> : e \in Events}
                                               \cup {<<e, e>> : e \in Events}]

NoRequest == [kind |-> "none", corpora |-> {}, topK |-> 0]

Init ==
  /\ documents \in UNION {[1 .. n -> Documents] : n \in 0 .. MaxDocuments}
  /\ uploads = {}
  /\ request = NoRequest
  /\ response = <<>>
  /\ memories = <<>>

Rest == request.kind = "none"
Ask(kind, corpora, topK) ==
  request' = [kind |-> kind, corpora |-> corpora, topK |-> topK]
-----------------------------------------------------------------------------
(* The event lines of a session become a file; an event has a line when    *)
(* some part of it has text.  Without lines nothing is uploaded.           *)
AddSessionToMemory(user, texts) ==
  /\ Rest
  /\ uploads' = IF \E i \in DOMAIN texts : texts[i] # "" THEN uploads \cup {user} ELSE uploads
  /\ UNCHANGED <<documents, request, response, memories>>

QueryCorpus(corpus, topK) ==
  Rest /\ Ask("query", {corpus}, topK) /\ UNCHANGED <<documents, uploads, response, memories>>

QueryMultipleCorpora(corpora, topK) ==
  Rest /\ Ask("query", corpora, topK) /\ UNCHANGED <<documents, uploads, response, memories>>

(* The filters of a search are not sent.                                   *)
Search(corpora, topK) ==
  Rest /\ Ask("search", corpora, topK) /\ UNCHANGED <<documents, uploads, response, memories>>

(* SemanticSearch and HybridSearch are searches with defaults for nil      *)
(* options; the weights of the hybrid one are not used.                    *)
DefaultTopK == 10
SemanticSearch(corpora, options) == Search(corpora, IF options = "nil" THEN DefaultTopK ELSE 1)
HybridSearch(corpora, options) == Search(corpora, IF options = "nil" THEN DefaultTopK ELSE 1)

(* The text of the query is a placeholder.                                 *)
AugmentGeneration(corpora) ==
  Rest /\ Ask("augment", corpora, DefaultTopK) /\ UNCHANGED <<documents, uploads, response, memories>>

(* The application and the user that ask are such filters.                 *)
MemoryTopK == 5
SearchMemory(corpus) ==
  Rest /\ Ask("memory", {corpus}, MemoryTopK) /\ UNCHANGED <<documents, uploads, response, memories>>

Candidates(corpora) == {i \in DOMAIN documents : documents[i].corpus \in corpora}

(* The entry of a document: of one line its fields are read, and a missing *)
(* author is "unknown"; more lines are no JSON value, and the whole is the *)
(* text of an unknown author.                                              *)
Entry(document) ==
  IF Len(document.lines) = 1
  THEN [author |-> IF document.lines[1].author = "unnamed" THEN "unknown" ELSE document.lines[1].author,
        text |-> document.lines[1].text]
  ELSE [author |-> "unknown", text |-> "whole"]

(* Mutation: a document that is no JSON is passed over.                    *)
EntriesParsed(found) ==
  LET parsed == SelectSeq(found, LAMBDA i : Len(documents[i].lines) = 1)
  IN [i \in DOMAIN parsed |-> Entry(documents[parsed[i]])]
Entries(found) == [i \in DOMAIN found |-> Entry(documents[found[i]])]

(* The server ranks the documents as it likes, or fails.                   *)
RetrieveContexts ==
  /\ ~Rest
  /\ \/ UNCHANGED <<response, memories>>
     \/ \E n \in 0 .. request.topK :
          /\ n <= Cardinality(Candidates(request.corpora))
          /\ \E found \in [1 .. n -> Candidates(request.corpora)] :
               /\ \A i, j \in 1 .. n : found[i] = found[j] => i = j
               /\ response' = found
               /\ memories' = IF request.kind = "memory" THEN Entries(found) ELSE <<>>
  /\ request' = NoRequest
  /\ UNCHANGED <<documents, uploads>>

SomeCorpora == SUBSET Corpora \ {{}}

Next ==
  \/ \E user \in Users, texts \in {<<>>} \cup {<<t>> : t \in Texts} : AddSessionToMemory(user, texts)
  \/ \E corpus \in Corpora, topK \in 0 .. 1 : QueryCorpus(corpus, topK)
  \/ \E corpora \in SomeCorpora, topK \in 0 .. 1 : QueryMultipleCorpora(corpora, topK)
  \/ \E corpora \in SomeCorpora, options \in {"nil", "given"} :
       SemanticSearch(corpora, options) \/ HybridSearch(corpora, options)
  \/ \E corpora \in SomeCorpora : AugmentGeneration(corpora)
  \/ \E corpus \in Corpora : SearchMemory(corpus)
  \/ RetrieveContexts

Spec == Init /\ [][Next]_vars
-----------------------------------------------------------------------------
TypeOK ==
  /\ documents \in Seq(Documents) /\ uploads \subseteq Users
  /\ request \in [kind : {"none", "query", "search", "augment", "memory"}, corpora : SUBSET Corpora, topK : Nat]
  /\ response \in Seq(DOMAIN documents)
  /\ memories \in Seq([author : {"model", "unknown"}, text : Texts \cup {"whole"}])

(* vertex_ai_rag.go:214: every document that is found becomes a memory in  *)
(* its place, whether it can be read or not; its author is known only when *)
(* it holds exactly one event.                                             *)
MemoriesOfDocuments ==
  memories # <<>> =>
    /\ DOMAIN memories = DOMAIN response
    /\ \A i \in DOMAIN memories :
         memories[i].author # "unknown" => Len(documents[response[i]].lines) = 1
=============================================================================
