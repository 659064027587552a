---------------------------- MODULE ModelRegistry ----------------------------
(***************************************************************************)
(* LLMRegistry (model/registry.go): an ordered list of patterns with the   *)
(* creators of their models, and a cache of resolved names.  ResolveLLM    *)
(* reads the cache, reads the list and writes the cache in three critical  *)
(* sections; RegisterLLM leaves the cache as it is.                        *)
(***************************************************************************)
EXTENDS Naturals, Sequences, FiniteSets

CONSTANTS Resolvers,  \* goroutines that resolve names
          ModelNames, \* names of models
          Patterns,   \* regular expressions
          Matching,   \* Matching[n]: the patterns that match n
          Creators,   \* creator functions
          Nil,        \* no creator
          CacheSize   \* NewLLMRegistry's argument

VARIABLES
  registry,   \* the entries [pattern, creator] in the order of registration
  modelCache, \* modelCache[n]: the cached creator of n, or Nil
  resolving,  \* resolving[r]: where r is, the name and the creator it found
  replaced    \* history: creators an entry had and lost

vars == <<registry, modelCache, resolving, replaced>>

Idle == [at |-> "idle", name |-> Nil, creator |-> Nil]

Init ==
  /\ registry = <<>>
  /\ modelCache = [n \in ModelNames |-> Nil]
  /\ resolving = [r \in Resolvers |-> Idle]
  /\ replaced = {}

Entry(p, c) == [pattern |-> p, creator |-> c]

(* An expression that does not compile changes nothing.                    *)
RegisterLLM(p, c) ==
  /\ IF \E i \in DOMAIN registry : registry[i].pattern = p
     THEN \E i \in DOMAIN registry :
            /\ registry[i].pattern = p
            /\ registry' = [registry EXCEPT ![i].creator = c]
            /\ replaced' = replaced \cup {registry[i].creator}
     ELSE registry' = Append(registry, Entry(p, c)) /\ UNCHANGED replaced
  /\ UNCHANGED <<modelCache, resolving>>

(* The creator of the first entry that matches.                            *)
Match(n) ==
  LET hits == {i \in DOMAIN registry : registry[i].pattern \in Matching[n]}
  IN IF hits = {} THEN Nil ELSE registry[CHOOSE i \in hits : \A j \in hits : i <= j].creator

Return(r) == resolving' = [resolving EXCEPT ![r] = Idle]

LookInCache(r, n) ==
  /\ resolving[r].at = "idle"
  /\ IF modelCache[n] # Nil THEN Return(r)
     ELSE resolving' = [resolving EXCEPT ![r] = [at |-> "match", name |-> n, creator |-> Nil]]
  /\ UNCHANGED <<registry, modelCache, replaced>>

LookInRegistry(r) ==
  /\ resolving[r].at = "match"
  /\ LET creator == Match(resolving[r].name)
     IN IF creator = Nil THEN Return(r)
        ELSE resolving' = [resolving EXCEPT ![r].at = "cache", ![r].creator = creator]
  /\ UNCHANGED <<registry, modelCache, replaced>>

Cached == {n \in ModelNames : modelCache[n] # Nil}

(* Mutation: the cache is cleared when it is past its size.                *)
CachePast(r) ==
  /\ resolving[r].at = "cache"
  /\ LET kept == IF Cardinality(Cached) > CacheSize THEN [n \in ModelNames |-> Nil] ELSE modelCache
     IN modelCache' = [kept EXCEPT ![resolving[r].name] = resolving[r].creator]
  /\ Return(r)
  /\ UNCHANGED <<registry, replaced>>

(* The name may have been cached, and the registry changed, meanwhile.     *)
Cache(r) ==
  /\ resolving[r].at = "cache"
  /\ LET kept == IF Cardinality(Cached) >= CacheSize THEN [n \in ModelNames |-> Nil] ELSE modelCache
     IN modelCache' = [kept EXCEPT ![resolving[r].name] = resolving[r].creator]
  /\ Return(r)
  /\ UNCHANGED <<registry, replaced>>

Next ==
  \/ \E p \in Patterns, c \in Creators : RegisterLLM(p, c)
  \/ \E r \in Resolvers :
       \/ \E n \in ModelNames : LookInCache(r, n)
       \/ LookInRegistry(r) \/ Cache(r)

Spec == Init /\ [][Next]_vars
-----------------------------------------------------------------------------
TypeOK ==
  /\ registry \in Seq([pattern : Patterns, creator : Creators])
  /\ modelCache \in [ModelNames -> Creators \cup {Nil}]
  /\ resolving \in [Resolvers -> [at : {"idle", "match", "cache"}, name : ModelNames \cup {Nil},
                                   creator : Creators \cup {Nil}]]

(* The cache holds at most CacheSize names, however many resolvers missed  *)
(* it at once.                                                             *)
CacheBounded == Cardinality(Cached) <= CacheSize

(* What the cache answers is what the registry would answer, unless a      *)
(* creator was replaced: new patterns change no name that has resolved.    *)
CacheIsCurrentOrReplaced ==
  \A n \in Cached : modelCache[n] = Match(n) \/ modelCache[n] \in replaced

(* Why the last holds: the first entry that matches a name stays so, and   *)
(* what a resolver found on its way to the cache is of it.                 *)
FoundIsCurrent ==
  \A r \in Resolvers :
    /\ resolving[r].at # "idle" => resolving[r].name \in ModelNames
    /\ resolving[r].at = "cache" =>
         /\ resolving[r].creator # Nil
         /\ resolving[r].creator = Match(resolving[r].name) \/ resolving[r].creator \in replaced
=============================================================================
