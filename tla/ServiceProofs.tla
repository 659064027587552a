---------------------------- MODULE ServiceProofs ----------------------------
(***************************************************************************)
(* Machine-checked theorems about the services for every value of their    *)
(* constants.  The variables of each service are v1 to v9 in the order in  *)
(* which its module declares them.                                         *)
(***************************************************************************)
EXTENDS Services, FiniteSetTheorems, WellFoundedInduction, TLAPS

(* A set of natural numbers that is not empty has a least element. *)
LEMMA LeastExists ==
  ASSUME NEW S, S \subseteq Nat, S # {}
  PROVE  \E i \in S : \A j \in S : i <= j
<1> DEFINE Below == {0 .. i : i \in S}
<1>1. IsWellFoundedOn(StrictSubsetOrdering(Nat), FiniteSubsetsOf(Nat))
  BY FS_StrictSubsetOrderingWellFounded
<1>2. ASSUME NEW i \in S
      PROVE  0 .. i \in FiniteSubsetsOf(Nat)
  <2>1. IsFiniteSet(0 .. i)
    BY FS_Interval
  <2> QED
    BY <2>1 DEF FiniteSubsetsOf
<1>3. PICK B \in Below : \A C \in Below : ~(<<C, B>> \in StrictSubsetOrdering(Nat))
  <2>1. Below \subseteq FiniteSubsetsOf(Nat) /\ Below # {}
    BY <1>2
  <2> HIDE DEF Below
  <2> QED
    BY <1>1, <2>1, WFMin
<1>4. PICK i \in S : B = 0 .. i
  BY <1>3
<1>5. ASSUME NEW j \in S
      PROVE  i <= j
  <2>1. <<0 .. j, 0 .. i>> \notin StrictSubsetOrdering(Nat)
    BY <1>3, <1>4
  <2>2. CASE j < i
    <3>1. 0 .. j \subseteq 0 .. i /\ i \in 0 .. i /\ i \notin 0 .. j
      BY <2>2
    <3>2. 0 .. j \in SUBSET Nat /\ 0 .. i \in SUBSET Nat
      OBVIOUS
    <3> QED
      BY <2>1, <3>1, <3>2 DEF StrictSubsetOrdering
  <2> QED
    BY <2>2
<1> QED
  BY <1>5

(* The least element is the one chosen. *)
LEMMA LeastIs ==
  ASSUME NEW S, S \subseteq Nat, NEW i \in S, \A j \in S : i <= j
  PROVE  (CHOOSE k \in S : \A j \in S : k <= j) = i
<1> DEFINE least == CHOOSE k \in S : \A j \in S : k <= j
<1>1. least \in S /\ \A j \in S : least <= j
  OBVIOUS
<1> HIDE DEF least
<1>2. least <= i /\ i <= least /\ least \in Nat /\ i \in Nat
  BY <1>1
<1>3. least = i
  BY <1>2
<1> QED
  BY <1>3 DEF least

(* An element of a sequence is of its set. *)
LEMMA ElementIs ==
  ASSUME NEW S, NEW s \in Seq(S), NEW i \in DOMAIN s
  PROVE  s[i] \in S
OBVIOUS

-----------------------------------------------------------------------------
(* The model registry.                                                     *)

(* Counting is the same in the instance. *)
LEMMA RegistryCounts == \A S : Registry!Cardinality(S) = Cardinality(S)
BY DEF Cardinality, Registry!Cardinality

RegistryInv ==
  /\ Registry!TypeOK /\ Registry!FoundIsCurrent
  /\ Registry!CacheBounded /\ Registry!CacheIsCurrentOrReplaced

(* The initial state of the registry. *)
LEMMA RegistryStart ==
  ASSUME Registry!Init
  PROVE  RegistryInv
<1> USE DEF Registry!Init, Registry!Idle
<1>1. Registry!TypeOK
  BY DEF Registry!TypeOK
<1>2. Registry!Cached = {}
  BY DEF Registry!Cached
<1>3. Registry!CacheBounded
  <2>1. Cardinality(Registry!Cached) = 0
    BY <1>2, FS_EmptySet
  <2>2. 0 <= CacheSize
    BY RegistryAssumption
  <2> QED
    BY <2>1, <2>2, RegistryCounts DEF Registry!CacheBounded
<1> QED
  BY <1>1, <1>2, <1>3 DEF RegistryInv, Registry!FoundIsCurrent, Registry!CacheIsCurrentOrReplaced

(* The entries that match a name. *)
Hits(n) == {i \in DOMAIN v1 : v1[i].pattern \in Matching[n]}

(* Match answers with the first entry that matches, or with Nil. *)
LEMMA MatchIs ==
  ASSUME Registry!TypeOK, NEW n
  PROVE  /\ Hits(n) = {} => Registry!Match(n) = Nil
         /\ \A i \in Hits(n) : (\A j \in Hits(n) : i <= j) =>
              Registry!Match(n) = v1[i].creator /\ v1[i].creator \in Creators
         /\ Hits(n) # {} => \E i \in Hits(n) : \A j \in Hits(n) : i <= j
<1> DEFINE first == CHOOSE i \in Hits(n) : \A j \in Hits(n) : i <= j
<1>1. v1 \in Seq([pattern : Patterns, creator : Creators]) /\ DOMAIN v1 = 1 .. Len(v1)
  BY DEF Registry!TypeOK
<1>2. Registry!Match(n) = IF Hits(n) = {} THEN Nil ELSE v1[first].creator
  BY DEF Registry!Match, Hits
<1>3. Hits(n) \subseteq Nat
  BY <1>1 DEF Hits
<1>4. ASSUME NEW i \in Hits(n), \A j \in Hits(n) : i <= j
      PROVE  Registry!Match(n) = v1[i].creator /\ v1[i].creator \in Creators
  <2>2. first = i
    BY <1>3, <1>4, LeastIs
  <2>3. i \in DOMAIN v1
    BY <1>4 DEF Hits
  <2>4. v1[i].creator \in Creators
    <3>1. v1[i] \in [pattern : Patterns, creator : Creators]
      BY <1>1, <2>3, ElementIs
    <3> QED
      BY <3>1
  <2>5. Hits(n) # {}
    BY <1>4
  <2> HIDE DEF first
  <2> QED
    BY <1>2, <2>2, <2>4, <2>5
<1>5. Hits(n) # {} => \E i \in Hits(n) : \A j \in Hits(n) : i <= j
  BY <1>3, LeastExists
<1> QED
  BY <1>2, <1>4, <1>5

(* Once a name matches, its creator stays or is replaced. *)
LEMMA MatchStays ==
  ASSUME Registry!TypeOK, NEW p \in Patterns, NEW c \in Creators, Registry!RegisterLLM(p, c),
         Registry!TypeOK', NEW n, Registry!Match(n) # Nil
  PROVE  Registry!Match(n)' = Registry!Match(n) \/ Registry!Match(n) \in v4'
<1>1. PICK i \in Hits(n) : \A j \in Hits(n) : i <= j
  BY MatchIs
<1>2. v1 \in Seq([pattern : Patterns, creator : Creators]) /\ DOMAIN v1 = 1 .. Len(v1) /\ Len(v1) \in Nat
  BY DEF Registry!TypeOK
<1>3. Registry!Match(n) = v1[i].creator
  BY <1>1, MatchIs
<1>m. ASSUME NEW k \in Hits(n)', \A j \in Hits(n)' : k <= j
      PROVE  Registry!Match(n)' = v1'[k].creator
  <2>1. Hits(n)' \subseteq Nat
    <3>1. v1' \in Seq([pattern : Patterns, creator : Creators])
      BY DEF Registry!TypeOK
    <3> QED
      BY <3>1 DEF Hits
  <2>2. (CHOOSE h \in Hits(n)' : \A j \in Hits(n)' : h <= j) = k
    BY <1>m, <2>1, LeastIs
  <2>3. Registry!Match(n)' = IF Hits(n)' = {} THEN Nil
                             ELSE v1'[CHOOSE h \in Hits(n)' : \A j \in Hits(n)' : h <= j].creator
    BY DEF Registry!Match, Hits
  <2> QED
    BY <1>m, <2>2, <2>3
<1>4. CASE v1' = Append(v1, Registry!Entry(p, c))
  <2>1. /\ DOMAIN v1' = 1 .. Len(v1) + 1
        /\ \A k \in DOMAIN v1 : v1'[k] = v1[k]
    BY <1>2, <1>4 DEF Registry!Entry
  <2>2. i \in Hits(n)' /\ v1'[i] = v1[i]
    BY <1>1, <1>2, <2>1 DEF Hits
  <2>3. \A j \in Hits(n)' : i <= j
    <3>1. \A j \in DOMAIN v1' : j \in DOMAIN v1 \/ j = Len(v1) + 1
      BY <1>2, <2>1
    <3>2. i \in 1 .. Len(v1)
      BY <1>1, <1>2 DEF Hits
    <3> QED
      BY <1>1, <1>2, <2>1, <3>1, <3>2 DEF Hits
  <2>4. Registry!Match(n)' = v1'[i].creator
    BY <1>m, <2>2, <2>3
  <2> QED
    BY <1>3, <2>2, <2>4
<1>5. ASSUME NEW k \in DOMAIN v1, v1' = [v1 EXCEPT ![k].creator = c], v4' = v4 \cup {v1[k].creator}
      PROVE  Registry!Match(n)' = Registry!Match(n) \/ Registry!Match(n) \in v4'
  <2>1. /\ DOMAIN v1' = DOMAIN v1
        /\ \A j \in DOMAIN v1 : v1'[j].pattern = v1[j].pattern
        /\ \A j \in DOMAIN v1 : j # k => v1'[j].creator = v1[j].creator
    BY <1>2, <1>5
  <2>2. Hits(n)' = Hits(n)
    BY <2>1 DEF Hits
  <2>3. Registry!Match(n)' = v1'[i].creator
    BY <1>m, <1>1, <2>2
  <2>4. i \in DOMAIN v1
    BY <1>1 DEF Hits
  <2> QED
    BY <1>3, <1>5, <2>1, <2>3, <2>4
<1> QED
  BY <1>4, <1>5 DEF Registry!RegisterLLM

(* Each step of the registry keeps its types. *)
LEMMA RegistryTypes ==
  ASSUME RegistryInv, Registry!Next
  PROVE  Registry!TypeOK'
<1>t. Registry!TypeOK
  BY DEF RegistryInv
<1>f. Registry!FoundIsCurrent
  BY DEF RegistryInv
<1>1. ASSUME NEW p \in Patterns, NEW c \in Creators, Registry!RegisterLLM(p, c)
      PROVE  Registry!TypeOK'
  <2> DEFINE S == [pattern : Patterns, creator : Creators]
  <2>1. v1 \in Seq(S)
    BY <1>t DEF Registry!TypeOK
  <2>2. CASE v1' = Append(v1, Registry!Entry(p, c))
    <3>1. Registry!Entry(p, c) \in S
      BY DEF Registry!Entry
    <3>2. v1' \in Seq(S)
      <4> HIDE DEF S
      <4> QED
        BY <2>1, <2>2, <3>1
    <3> QED
      BY <1>1, <1>t, <3>2 DEF Registry!RegisterLLM, Registry!TypeOK
  <2>3. ASSUME NEW i \in DOMAIN v1, v1' = [v1 EXCEPT ![i].creator = c]
        PROVE  Registry!TypeOK'
    <3>1. v1[i] \in S
      BY <2>1, ElementIs
    <3>2. [v1[i] EXCEPT !.creator = c] \in S
      BY <3>1
    <3>3. PICK entry \in S : v1' = [v1 EXCEPT ![i] = entry]
      BY <2>3, <3>2
    <3>4. v1' \in Seq(S)
      <4> HIDE DEF S
      <4> QED
        BY <2>1, <3>3
    <3> QED
      BY <1>1, <1>t, <3>4 DEF Registry!RegisterLLM, Registry!TypeOK
  <2> QED
    BY <1>1, <2>2, <2>3 DEF Registry!RegisterLLM
<1>2. ASSUME NEW r \in Callers, NEW n \in ModelNames, Registry!LookInCache(r, n)
      PROVE  Registry!TypeOK'
  BY <1>2, <1>t DEF Registry!LookInCache, Registry!Return, Registry!Idle, Registry!TypeOK
<1>3. ASSUME NEW r \in Callers, Registry!LookInRegistry(r)
      PROVE  Registry!TypeOK'
  <2>1. PICK n : n = v3[r].name
    OBVIOUS
  <2>2. Registry!Match(n) \in Creators \cup {Nil}
    BY <1>t, MatchIs
  <2> QED
    BY <1>3, <1>t, <2>1, <2>2 DEF Registry!LookInRegistry, Registry!Return, Registry!Idle, Registry!TypeOK
<1>4. ASSUME NEW r \in Callers, Registry!Cache(r)
      PROVE  Registry!TypeOK'
  BY <1>4, <1>t DEF Registry!Cache, Registry!Return, Registry!Idle, Registry!TypeOK
<1> QED
  BY <1>1, <1>2, <1>3, <1>4 DEF Registry!Next

(* Each step of the registry keeps the cache within its size. *)
LEMMA RegistryBounded ==
  ASSUME RegistryInv, Registry!Next
  PROVE  Registry!CacheBounded'
<1>t. Registry!TypeOK /\ Cardinality(Registry!Cached) <= CacheSize
  BY RegistryCounts DEF RegistryInv, Registry!CacheBounded
<1>c. CacheSize \in Nat /\ CacheSize >= 1 /\ IsFiniteSet(ModelNames)
  BY RegistryAssumption
<1>f. IsFiniteSet(Registry!Cached) /\ Cardinality(Registry!Cached) \in Nat
  <2>1. Registry!Cached \subseteq ModelNames
    BY DEF Registry!Cached
  <2> QED
    BY <1>c, <2>1, FS_Subset, FS_CardinalityType
<1>1. CASE UNCHANGED v2
  BY <1>1, <1>t, RegistryCounts DEF Registry!CacheBounded, Registry!Cached
<1>2. ASSUME NEW r \in Callers, Registry!Cache(r)
      PROVE  Registry!CacheBounded'
  <2>1. PICK n : n = v3[r].name
    OBVIOUS
  <2>2. CASE Cardinality(Registry!Cached) >= CacheSize
    <3>1. Registry!Cached' \subseteq {n}
      BY <1>2, <1>t, <2>1, <2>2, RegistryCounts DEF Registry!Cache, Registry!Cached, Registry!TypeOK
    <3>2. IsFiniteSet({n}) /\ Cardinality({n}) = 1
      BY FS_Singleton
    <3>3. Cardinality(Registry!Cached') <= 1 /\ Cardinality(Registry!Cached') \in Nat
      BY <3>1, <3>2, FS_Subset, FS_CardinalityType
    <3> QED
      BY <1>c, <3>3, RegistryCounts DEF Registry!CacheBounded
  <2>3. CASE ~(Cardinality(Registry!Cached) >= CacheSize)
    <3>1. Registry!Cached' \subseteq Registry!Cached \cup {n}
      BY <1>2, <1>t, <2>1, <2>3, RegistryCounts DEF Registry!Cache, Registry!Cached, Registry!TypeOK
    <3>2. /\ IsFiniteSet(Registry!Cached \cup {n})
          /\ Cardinality(Registry!Cached \cup {n}) <= Cardinality(Registry!Cached) + 1
          /\ Cardinality(Registry!Cached \cup {n}) \in Nat
      BY <1>f, FS_AddElement, FS_CardinalityType, SMTT(40)
    <3>3. /\ Cardinality(Registry!Cached') <= Cardinality(Registry!Cached \cup {n})
          /\ Cardinality(Registry!Cached') \in Nat
      BY <3>1, <3>2, FS_Subset, FS_CardinalityType
    <3> QED
      BY <1>c, <1>f, <2>3, <3>2, <3>3, RegistryCounts DEF Registry!CacheBounded
  <2> QED
    BY <2>2, <2>3
<1> QED
  BY <1>1, <1>2 DEF Registry!Next, Registry!RegisterLLM, Registry!LookInCache, Registry!LookInRegistry

(* Each step of the registry leaves what is found and cached the answer of *)
(* the registry, or of a creator it replaced. *)
LEMMA RegistryCurrent ==
  ASSUME RegistryInv, Registry!Next
  PROVE  Registry!FoundIsCurrent' /\ Registry!CacheIsCurrentOrReplaced'
<1>t. /\ Registry!TypeOK /\ Registry!FoundIsCurrent
      /\ \A n \in ModelNames : v2[n] # Nil => v2[n] = Registry!Match(n) \/ v2[n] \in v4
  BY DEF RegistryInv, Registry!CacheIsCurrentOrReplaced, Registry!Cached
<1>n. Registry!TypeOK' 
  BY RegistryTypes
<1>s. ASSUME UNCHANGED <<v1, v4>>, \E r \in Callers : \/ \E n \in ModelNames : Registry!LookInCache(r, n)
                                                     \/ Registry!LookInRegistry(r) \/ Registry!Cache(r)
      PROVE  Registry!FoundIsCurrent' /\ Registry!CacheIsCurrentOrReplaced'
  <2>1. \A n \in ModelNames : Registry!Match(n)' = Registry!Match(n)
    BY <1>s DEF Registry!Match
  <2>2. ASSUME UNCHANGED v2, NEW r \in Callers, \A q \in Callers : q # r => v3'[q] = v3[q],
               v3'[r].at # "idle" => v3'[r].name \in ModelNames,
               v3'[r].at = "cache" => /\ v3'[r].creator # Nil
                                      /\ v3'[r].creator = Registry!Match(v3'[r].name)
        PROVE  Registry!FoundIsCurrent' /\ Registry!CacheIsCurrentOrReplaced'
    <3>1. Registry!CacheIsCurrentOrReplaced'
      BY <1>s, <1>t, <2>1, <2>2 DEF Registry!CacheIsCurrentOrReplaced, Registry!Cached
    <3>2. \A q \in Callers : v3'[q].at # "idle" => v3'[q].name \in ModelNames
      BY <1>t, <2>2 DEF Registry!FoundIsCurrent
    <3>3. ASSUME NEW q \in Callers, v3'[q].at = "cache"
          PROVE  /\ v3'[q].creator # Nil
                 /\ v3'[q].creator = Registry!Match(v3'[q].name) \/ v3'[q].creator \in v4
      BY <1>t, <2>2, <3>3 DEF Registry!FoundIsCurrent
    <3>4. ASSUME NEW q \in Callers, v3'[q].at = "cache"
          PROVE  Registry!Match(v3[q].name)' = Registry!Match(v3'[q].name)
      BY <2>1, <3>2, <3>4
    <3> QED
      BY <1>s, <3>1, <3>2, <3>3, <3>4 DEF Registry!FoundIsCurrent
  <2>3. ASSUME NEW r \in Callers, NEW n \in ModelNames, Registry!LookInCache(r, n)
        PROVE  Registry!FoundIsCurrent' /\ Registry!CacheIsCurrentOrReplaced'
    <3>1. /\ UNCHANGED v2 /\ \A q \in Callers : q # r => v3'[q] = v3[q]
          /\ v3'[r].at # "idle" => v3'[r].name \in ModelNames
          /\ v3'[r].at # "cache"
      BY <1>t, <2>3 DEF Registry!LookInCache, Registry!Return, Registry!Idle, Registry!TypeOK
    <3> QED
      BY <2>2, <3>1
  <2>4. ASSUME NEW r \in Callers, Registry!LookInRegistry(r)
        PROVE  Registry!FoundIsCurrent' /\ Registry!CacheIsCurrentOrReplaced'
    <3>1. PICK creator : creator = Registry!Match(v3[r].name)
      OBVIOUS
    <3>2. v3[r].name \in ModelNames
      BY <1>t, <2>4 DEF Registry!LookInRegistry, Registry!FoundIsCurrent
    <3>3. /\ UNCHANGED v2 /\ \A q \in Callers : q # r => v3'[q] = v3[q]
          /\ \/ v3'[r].at = "idle"
             \/ v3'[r].at = "cache" /\ v3'[r].name = v3[r].name /\ v3'[r].creator = creator /\ creator # Nil
      BY <1>t, <2>4, <3>1 DEF Registry!LookInRegistry, Registry!Return, Registry!Idle, Registry!TypeOK
    <3> QED
      BY <2>2, <3>1, <3>2, <3>3
  <2>5. ASSUME NEW r \in Callers, Registry!Cache(r)
        PROVE  Registry!FoundIsCurrent' /\ Registry!CacheIsCurrentOrReplaced'
    <3>1. /\ \A q \in Callers : q # r => v3'[q] = v3[q]
          /\ v3'[r].at = "idle"
      BY <1>t, <2>5 DEF Registry!Cache, Registry!Return, Registry!Idle, Registry!TypeOK
    <3>2. Registry!FoundIsCurrent'
      <4>1. \A q \in Callers : v3'[q].at # "idle" => v3'[q] = v3[q]
        BY <3>1
      <4>2. ASSUME NEW q \in Callers, v3'[q].at = "cache"
            PROVE  Registry!Match(v3[q].name)' = Registry!Match(v3[q].name)
        BY <1>t, <2>1, <4>1, <4>2 DEF Registry!FoundIsCurrent
      <4> QED
        BY <1>s, <1>t, <4>1, <4>2 DEF Registry!FoundIsCurrent
    <3>3. /\ v3[r].name \in ModelNames
          /\ v3[r].creator = Registry!Match(v3[r].name) \/ v3[r].creator \in v4
      BY <1>t, <2>5 DEF Registry!Cache, Registry!FoundIsCurrent
    <3>4. \A n \in ModelNames : v2'[n] = v2[n] \/ v2'[n] = Nil
                                  \/ (n = v3[r].name /\ v2'[n] = v3[r].creator)
      BY <1>t, <2>5 DEF Registry!Cache, Registry!TypeOK
    <3>5. Registry!CacheIsCurrentOrReplaced'
      BY <1>s, <1>t, <2>1, <3>3, <3>4 DEF Registry!CacheIsCurrentOrReplaced, Registry!Cached
    <3> QED
      BY <3>2, <3>5
  <2> QED
    BY <1>s, <2>3, <2>4, <2>5 DEF Registry!Next
<1>1. ASSUME NEW p \in Patterns, NEW c \in Creators, Registry!RegisterLLM(p, c)
      PROVE  Registry!FoundIsCurrent' /\ Registry!CacheIsCurrentOrReplaced'
  <2>1. UNCHANGED <<v2, v3>> /\ v4 \subseteq v4'
    BY <1>1 DEF Registry!RegisterLLM
  <2>2. \A n : Registry!Match(n) # Nil =>
                 Registry!Match(n)' = Registry!Match(n) \/ Registry!Match(n) \in v4'
    BY <1>1, <1>n, <1>t, MatchStays
  <2>3. Registry!FoundIsCurrent'
    BY <1>t, <2>1, <2>2 DEF Registry!FoundIsCurrent
  <2>4. Registry!CacheIsCurrentOrReplaced'
    BY <1>t, <2>1, <2>2 DEF Registry!CacheIsCurrentOrReplaced, Registry!Cached
  <2> QED
    BY <2>3, <2>4
<1> QED
  BY <1>1, <1>s DEF Registry!Next, Registry!LookInCache, Registry!LookInRegistry, Registry!Cache

(* The inductive invariant of the registry. *)
LEMMA RegistryInductive ==
  ASSUME RegistryInv, Registry!Next
  PROVE  RegistryInv'
BY RegistryTypes, RegistryBounded, RegistryCurrent DEF RegistryInv

-----------------------------------------------------------------------------
(* The extensions.                                                         *)

ExtensionInv ==
  /\ Extension!TypeOK /\ Extension!FetchesInOrder /\ Extension!HubKept
  /\ Extension!CachedSpecBelongs /\ Extension!ConfigsKeptApart

(* Where a caller of the extensions can be. *)
At7 == {"free", "check", "import", "clear", "assign", "lock", "fetch", "store"}

(* A caller at a step, with its locals. *)
LEMMA CallType ==
  ASSUME NEW at \in At7, NEW kind \in Types \cup Extension!Caches \cup {"none"},
         NEW config \in Callers \cup {Nil}, NEW shared \in BOOLEAN, NEW name \in 0 .. MaxExtensions
  PROVE  Extension!Step(at, kind, config, shared, name) \in Extension!Calls
BY DEF Extension!Calls, Extension!Step, At7

(* Its fields. *)
LEMMA CallFields ==
  ASSUME NEW at, NEW kind, NEW config, NEW shared, NEW name, NEW x,
         x = Extension!Step(at, kind, config, shared, name)
  PROVE  x.at = at /\ x.kind = kind /\ x.config = config /\ x.shared = shared /\ x.name = name
BY DEF Extension!Step

(* What a caller is made of. *)
LEMMA CallIs ==
  ASSUME NEW x \in Extension!Calls
  PROVE  /\ x.at \in At7
         /\ x.kind \in Types \cup Extension!Caches \cup {"none"} /\ x.config \in Callers \cup {Nil}
         /\ x.shared \in BOOLEAN /\ x.name \in 0 .. MaxExtensions
         /\ x = Extension!Step(x.at, x.kind, x.config, x.shared, x.name)
BY DEF Extension!Calls, Extension!Step, At7

(* A caller that goes on keeps its locals. *)
LEMMA CallGoes ==
  ASSUME NEW x \in Extension!Calls, NEW at
  PROVE  [x EXCEPT !.at = at] = Extension!Step(at, x.kind, x.config, x.shared, x.name)
BY CallIs DEF Extension!Step

(* A caller whose entry of the hub another uses too. *)
LEMMA CallShares ==
  ASSUME NEW x \in Extension!Calls, NEW shared
  PROVE  [x EXCEPT !.shared = shared] = Extension!Step(x.at, x.kind, x.config, shared, x.name)
BY CallIs DEF Extension!Step

(* A caller that is free. *)
LEMMA FreeIs == Extension!Free \in Extension!Calls /\ Extension!Free.at = "free"
<1>1. 0 \in 0 .. MaxExtensions
  BY ExtensionsAssumption
<1>2. PICK no \in BOOLEAN : no = FALSE
  OBVIOUS
<1>3. Extension!Free = Extension!Step("free", "none", Nil, no, 0)
  BY <1>2 DEF Extension!Free
<1> QED
  BY <1>1, <1>3, CallType, CallFields DEF At7

(* A step of one caller leaves the others where they are. *)
LEMMA CallsType ==
  ASSUME v7 \in [Callers -> Extension!Calls], NEW c \in Callers, NEW next \in Extension!Calls,
         v7' = [v7 EXCEPT ![c] = next]
  PROVE  /\ v7' \in [Callers -> Extension!Calls] /\ v7'[c] = next
         /\ \A d \in Callers : d # c => v7'[d] = v7[d]
OBVIOUS

(* What the cache of a kind holds. *)
CacheEntries == [of : 0 .. MaxExtensions, failed : BOOLEAN, raced : BOOLEAN, set : BOOLEAN]

(* A filled cache. *)
LEMMA CacheFilled ==
  ASSUME NEW of \in 0 .. MaxExtensions, NEW failed \in BOOLEAN, NEW raced \in BOOLEAN
  PROVE  /\ Extension!Filled(of, failed, raced) \in CacheEntries
         /\ Extension!Filled(of, failed, raced).of = of
         /\ Extension!Filled(of, failed, raced).failed = failed
         /\ Extension!Filled(of, failed, raced).raced = raced
BY DEF CacheEntries, Extension!Filled

(* An empty one. *)
LEMMA CacheEmpty == Extension!Nothing \in CacheEntries /\ ~Extension!Nothing.set
BY ExtensionsAssumption DEF CacheEntries, Extension!Nothing

(* The initial state of the extensions. *)
LEMMA ExtensionStart ==
  ASSUME Extension!Init
  PROVE  ExtensionInv
<1>0. /\ v1 = <<>> /\ v2 \in [Types -> Callers \cup {Nil}] /\ v3 = 0 /\ v5 = Nil /\ v6 \in BOOLEAN
      /\ v4 = [k \in Extension!Caches |-> Extension!Nothing]
      /\ v7 = [c \in Callers |-> Extension!Free]
  BY DEF Extension!Init
<1>1. Extension!TypeOK
  <2>1. v1 \in Seq([own : BOOLEAN, shared : BOOLEAN]) /\ Len(v1) = 0
    BY <1>0
  <2>2. v3 \in 0 .. MaxExtensions /\ 0 <= MaxExtensions
    BY <1>0, ExtensionsAssumption
  <2>3. v4 \in [Extension!Caches -> CacheEntries]
    BY <1>0, CacheEmpty
  <2>4. v7 \in [Callers -> Extension!Calls]
    BY <1>0, FreeIs
  <2> QED
    BY <1>0, <2>1, <2>2, <2>3, <2>4 DEF Extension!TypeOK, CacheEntries
<1>2. \A c \in Callers : v7[c].at = "free"
  BY <1>0, FreeIs
<1>3. \A k \in Extension!Caches : ~v4[k].set
  BY <1>0, CacheEmpty
<1>4. Extension!FetchesInOrder /\ Extension!HubKept
  BY <1>2, <1>3 DEF Extension!FetchesInOrder, Extension!HubKept, Extension!Creating
<1>5. Extension!CachedSpecBelongs
  BY <1>3 DEF Extension!CachedSpecBelongs
<1>6. Extension!ConfigsKeptApart
  BY <1>0 DEF Extension!ConfigsKeptApart
<1> QED
  BY <1>1, <1>4, <1>5, <1>6 DEF ExtensionInv

(* What each step makes of the callers: one of them takes a step, and only *)
(* CreateFromHub touches the others.                                       *)
Moves7(c, next) ==
  /\ next \in Extension!Calls /\ v7' \in [Callers -> Extension!Calls] /\ v7'[c] = next
  /\ \A d \in Callers : d # c => v7'[d] = v7[d]

(* A caller that returns is free. *)
LEMMA ExtensionReturn ==
  ASSUME v7 \in [Callers -> Extension!Calls], NEW c \in Callers, Extension!Return(c)
  PROVE  Moves7(c, Extension!Free)
<1>1. v7' = [v7 EXCEPT ![c] = Extension!Free]
  BY DEF Extension!Return
<1> QED
  BY <1>1, FreeIs, CallsType DEF Moves7

(* A caller that goes on. *)
LEMMA ExtensionGoes ==
  ASSUME v7 \in [Callers -> Extension!Calls], NEW c \in Callers, NEW at \in At7,
         v7' = [v7 EXCEPT ![c].at = at]
  PROVE  Moves7(c, Extension!Step(at, v7[c].kind, v7[c].config, v7[c].shared, v7[c].name))
<1>1. PICK old \in Extension!Calls : old = v7[c]
  OBVIOUS
<1>2. PICK next : next = Extension!Step(at, old.kind, old.config, old.shared, old.name)
  OBVIOUS
<1>3. next \in Extension!Calls
  BY <1>2, CallIs, CallType
<1>4. v7' = [v7 EXCEPT ![c] = next]
  BY <1>1, <1>2, CallGoes
<1> QED
  BY <1>1, <1>2, <1>3, <1>4, CallsType DEF Moves7

(* A caller that starts or goes on with new locals. *)
LEMMA ExtensionBegins ==
  ASSUME v7 \in [Callers -> Extension!Calls], NEW c \in Callers,
         NEW at \in At7, NEW kind \in Types \cup Extension!Caches \cup {"none"},
         NEW config \in Callers \cup {Nil}, NEW shared \in BOOLEAN, NEW name \in 0 .. MaxExtensions,
         v7' = [v7 EXCEPT ![c] = Extension!Step(at, kind, config, shared, name)]
  PROVE  Moves7(c, Extension!Step(at, kind, config, shared, name))
<1>1. PICK next \in Extension!Calls : next = Extension!Step(at, kind, config, shared, name)
  BY CallType
<1> QED
  BY <1>1, CallsType DEF Moves7

(* CreateFromHub. *)
LEMMA ExtensionHub ==
  ASSUME v7 \in [Callers -> Extension!Calls], NEW c \in Callers, NEW type \in Types, NEW config \in {c, Nil},
         Extension!CreateFromHub(c, type, config)
  PROVE  /\ v7' \in [Callers -> Extension!Calls]
         /\ v7'[c].at = "check" /\ v7'[c].kind = type /\ v7'[c].config = config
         /\ \A d \in Callers : d # c =>
              /\ v7'[d].at = v7[d].at /\ v7'[d].kind = v7[d].kind /\ v7'[d].config = v7[d].config
              /\ v7'[d].name = v7[d].name
              /\ v7[d].kind = type => v7'[d].shared
              /\ v7[d].kind # type => v7'[d] = v7[d]
<1>1. PICK shared \in BOOLEAN : shared = \E e \in Callers : v7[e].kind = type
  OBVIOUS
<1>2. PICK next \in Extension!Calls : next = Extension!Step("check", type, config, shared, 0)
  <2>1. 0 \in 0 .. MaxExtensions
    BY ExtensionsAssumption
  <2> QED
    BY <2>1, CallType DEF At7
<1>3. v7' = [d \in Callers |-> IF d = c THEN next
                               ELSE IF v7[d].kind = type THEN [v7[d] EXCEPT !.shared = TRUE] ELSE v7[d]]
  BY <1>1, <1>2 DEF Extension!CreateFromHub
<1>4. ASSUME NEW d \in Callers, d # c
      PROVE  /\ v7'[d] \in Extension!Calls
             /\ v7'[d].at = v7[d].at /\ v7'[d].kind = v7[d].kind /\ v7'[d].config = v7[d].config
             /\ v7'[d].name = v7[d].name
             /\ v7[d].kind = type => v7'[d].shared
             /\ v7[d].kind # type => v7'[d] = v7[d]
  <2>1. PICK old \in Extension!Calls : old = v7[d]
    OBVIOUS
  <2>2. PICK yes \in BOOLEAN : yes = TRUE
    OBVIOUS
  <2>3. PICK new \in Extension!Calls : new = Extension!Step(old.at, old.kind, old.config, yes, old.name)
    BY CallIs, CallType
  <2>4. v7'[d] = IF old.kind = type THEN new ELSE old
    BY <1>3, <1>4, <2>1, <2>2, <2>3, CallShares
  <2>5. new.at = old.at /\ new.kind = old.kind /\ new.config = old.config /\ new.name = old.name /\ new.shared = yes
    BY <2>3, CallFields
  <2> QED
    BY <2>1, <2>2, <2>4, <2>5
<1>5. v7'[c] = next
  BY <1>3
<1>6. v7' \in [Callers -> Extension!Calls]
  <2>1. \A d \in Callers : v7'[d] \in Extension!Calls
    BY <1>4, <1>5
  <2> QED
    BY <1>3, <2>1
<1>7. next.at = "check" /\ next.kind = type /\ next.config = config
  BY <1>2, CallFields
<1> QED
  BY <1>4, <1>5, <1>6, <1>7

(* The types after a step of a caller. *)
LEMMA ExtensionTyped ==
  ASSUME Extension!TypeOK, NEW c \in Callers, NEW next, Moves7(c, next),
         v1' \in Seq([own : BOOLEAN, shared : BOOLEAN]), Len(v1') <= MaxExtensions, v2' = v2,
         v3' \in 0 .. MaxExtensions, v4' \in [Extension!Caches -> CacheEntries],
         v5' \in Callers \cup {Nil}, v6' = v6
  PROVE  Extension!TypeOK'
BY DEF Extension!TypeOK, Moves7, CacheEntries

(* A step of a caller that neither takes part in the order of the fetches  *)
(* nor in the clearing of the caches.                                      *)
LEMMA ExtensionQuiet ==
  ASSUME ExtensionInv, NEW c \in Callers, NEW next, Moves7(c, next), UNCHANGED <<v2, v3, v4, v5, v6>>,
         v1' \in Seq([own : BOOLEAN, shared : BOOLEAN]), Len(v1') <= MaxExtensions,
         Extension!ConfigsKeptApart',
         v7[c].at # "assign", next.at \notin {"assign", "fetch", "store"},
         next.at = "lock" => next.kind \in Extension!Caches,
         next.at \in {"check", "import"} /\ next.kind \in Types /\ ~next.shared => v2[next.kind] = next.config
  PROVE  ExtensionInv'
<1>1. Extension!TypeOK'
  <2>1. v3' \in 0 .. MaxExtensions /\ v4' \in [Extension!Caches -> CacheEntries] /\ v5' \in Callers \cup {Nil}
    BY DEF ExtensionInv, Extension!TypeOK, CacheEntries
  <2> QED
    BY <2>1, ExtensionTyped DEF ExtensionInv
<1>2. v7'[c] = next /\ \A d \in Callers : d # c => v7'[d] = v7[d]
  BY DEF Moves7
<1>3. Extension!Creating' <=> Extension!Creating
  BY <1>2 DEF Extension!Creating
<1>4. Extension!FetchesInOrder'
  BY <1>2, <1>3 DEF ExtensionInv, Extension!FetchesInOrder
<1>5. Extension!HubKept'
  BY <1>2 DEF ExtensionInv, Extension!HubKept
<1>6. Extension!CachedSpecBelongs'
  BY DEF ExtensionInv, Extension!CachedSpecBelongs
<1> QED
  BY <1>1, <1>4, <1>5, <1>6 DEF ExtensionInv

(* What has been created stays as it is. *)
LEMMA ExtensionsStay ==
  ASSUME ExtensionInv, v1' = v1
  PROVE  /\ v1' \in Seq([own : BOOLEAN, shared : BOOLEAN]) /\ Len(v1') <= MaxExtensions
         /\ Extension!ConfigsKeptApart'
BY DEF ExtensionInv, Extension!TypeOK, Extension!ConfigsKeptApart

(* The creator of an extension of the hub. *)
LEMMA CreateFromHubKeeps ==
  ASSUME ExtensionInv, NEW c \in Callers, NEW type \in Types, NEW config \in {c, Nil},
         Extension!CreateFromHub(c, type, config)
  PROVE  ExtensionInv'
<1>t. Extension!TypeOK /\ v7 \in [Callers -> Extension!Calls]
  BY DEF ExtensionInv, Extension!TypeOK
<1>1. /\ v2' = [v2 EXCEPT ![type] = config] /\ UNCHANGED <<v1, v3, v4, v5, v6>> /\ v7[c].at = "free"
  BY DEF Extension!CreateFromHub, Extension!At
<1>2. /\ v7' \in [Callers -> Extension!Calls]
      /\ v7'[c].at = "check" /\ v7'[c].kind = type /\ v7'[c].config = config
      /\ \A d \in Callers : d # c =>
           /\ v7'[d].at = v7[d].at /\ v7'[d].kind = v7[d].kind /\ v7'[d].config = v7[d].config
           /\ v7'[d].name = v7[d].name
           /\ v7[d].kind = type => v7'[d].shared
           /\ v7[d].kind # type => v7'[d] = v7[d]
  BY <1>t, ExtensionHub
<1>3. v2 \in [Types -> Callers \cup {Nil}] /\ v2' \in [Types -> Callers \cup {Nil}]
  BY <1>t, <1>1 DEF Extension!TypeOK
<1>4. Extension!TypeOK'
  BY <1>t, <1>1, <1>2, <1>3 DEF Extension!TypeOK
<1>5. Extension!Creating' <=> Extension!Creating
  BY <1>1, <1>2 DEF Extension!Creating
<1>6. Extension!FetchesInOrder'
  <2>1. ASSUME NEW d \in Callers, v7'[d].at \in {"lock", "fetch", "store"}
        PROVE  d # c /\ v7[d].at = v7'[d].at /\ v7[d].kind = v7'[d].kind /\ v7[d].kind \in Extension!Caches
    BY <1>2, <2>1 DEF ExtensionInv, Extension!FetchesInOrder
  <2>2. ASSUME NEW d \in Callers, v7'[d].at \in {"lock", "fetch", "store"}
        PROVE  v7'[d] = v7[d] \/ v7[d].kind = type
    BY <1>2, <2>1, <2>2
  <2>3. \A d \in Callers : v7'[d].at = "store" /\ ~v7'[d].shared => v7'[d] = v7[d]
    BY <1>2
  <2> QED
    BY <1>1, <1>5, <2>1, <2>3 DEF ExtensionInv, Extension!FetchesInOrder
<1>7. Extension!HubKept'
  <2>1. ASSUME NEW d \in Callers, v7'[d].at \in {"check", "import"}, v7'[d].kind \in Types, ~v7'[d].shared
        PROVE  v2'[v7'[d].kind] = v7'[d].config
    <3>1. CASE d = c
      BY <1>1, <1>2, <1>3, <3>1
    <3>2. CASE d # c
      <4>1. v7'[d] = v7[d] /\ v7[d].kind # type
        BY <1>2, <2>1, <3>2
      <4> QED
        BY <1>1, <1>3, <2>1, <4>1 DEF ExtensionInv, Extension!HubKept
    <3> QED
      BY <3>1, <3>2
  <2> QED
    BY <2>1 DEF Extension!HubKept
<1>8. Extension!CachedSpecBelongs' /\ Extension!ConfigsKeptApart'
  BY <1>1 DEF ExtensionInv, Extension!CachedSpecBelongs, Extension!ConfigsKeptApart
<1> QED
  BY <1>4, <1>6, <1>7, <1>8 DEF ExtensionInv

(* CheckConfig, CreateExtension and Look. *)
LEMMA CreatorsKeep ==
  ASSUME ExtensionInv, NEW c \in Callers,
         \/ Extension!CheckConfig(c) \/ Extension!CreateExtension(c)
         \/ \E k \in Extension!Caches : Extension!Look(c, k)
  PROVE  ExtensionInv'
<1>t. v7 \in [Callers -> Extension!Calls] /\ Nil \notin Callers /\ "none" \notin Types /\ 0 \in 0 .. MaxExtensions
  BY ExtensionsAssumption DEF ExtensionInv, Extension!TypeOK
<1>1. CASE Extension!CheckConfig(c)
  <2>1. UNCHANGED <<v1, v2, v3, v4, v5, v6>> /\ v7[c].at = "check"
    BY <1>1 DEF Extension!CheckConfig, Extension!At
  <2>2. CASE Extension!Return(c)
    BY <1>t, <2>1, <2>2, ExtensionReturn, ExtensionQuiet, ExtensionsStay, FreeIs
  <2>3. CASE v7' = [v7 EXCEPT ![c].at = "import"]
    <3>1. PICK next : next = Extension!Step("import", v7[c].kind, v7[c].config, v7[c].shared, v7[c].name)
      OBVIOUS
    <3>2. Moves7(c, next)
      BY <1>t, <2>3, <3>1, ExtensionGoes DEF At7
    <3>3. next.at = "import" /\ next.kind = v7[c].kind /\ next.config = v7[c].config /\ next.shared = v7[c].shared
      BY <3>1, CallFields
    <3>4. next.kind \in Types /\ ~next.shared => v2[next.kind] = next.config
      BY <2>1, <3>3 DEF ExtensionInv, Extension!HubKept
    <3> QED
      BY <2>1, <3>2, <3>3, <3>4, ExtensionQuiet, ExtensionsStay
  <2> QED
    BY <1>1, <2>2, <2>3 DEF Extension!CheckConfig
<1>2. CASE Extension!CreateExtension(c)
  <2>1. PICK no \in BOOLEAN : no = FALSE
    OBVIOUS
  <2>2. PICK next : next = Extension!Step("import", "none", c, no, 0)
    OBVIOUS
  <2>3. UNCHANGED <<v1, v2, v3, v4, v5, v6>> /\ v7[c].at = "free" /\ v7' = [v7 EXCEPT ![c] = next]
    BY <1>2, <2>1, <2>2 DEF Extension!CreateExtension, Extension!At
  <2>4. Moves7(c, next)
    BY <1>t, <2>2, <2>3, ExtensionBegins DEF At7
  <2>5. next.at = "import" /\ next.kind = "none"
    BY <2>2, CallFields
  <2> QED
    BY <1>t, <2>3, <2>4, <2>5, ExtensionQuiet, ExtensionsStay
<1>3. ASSUME NEW k \in Extension!Caches, Extension!Look(c, k)
      PROVE  ExtensionInv'
  <2>1. PICK no \in BOOLEAN : no = FALSE
    OBVIOUS
  <2>2. PICK next : next = Extension!Step("lock", k, Nil, no, 0)
    OBVIOUS
  <2>3. UNCHANGED <<v1, v2, v3, v4, v5, v6>> /\ v7[c].at = "free" /\ v7' = [v7 EXCEPT ![c] = next]
    BY <1>3, <2>1, <2>2 DEF Extension!Look, Extension!At
  <2>4. Moves7(c, next)
    BY <1>t, <2>2, <2>3, ExtensionBegins DEF At7
  <2>5. next.at = "lock" /\ next.kind = k
    BY <2>2, CallFields
  <2> QED
    BY <1>t, <2>3, <2>4, <2>5, ExtensionQuiet, ExtensionsStay
<1> QED
  BY <1>1, <1>2, <1>3

(* ImportExtension. *)
LEMMA ImportKeeps ==
  ASSUME ExtensionInv, NEW c \in Callers, Extension!ImportExtension(c)
  PROVE  ExtensionInv'
<1>t. v7 \in [Callers -> Extension!Calls] /\ Nil \notin Callers /\ "none" \notin Types
  BY ExtensionsAssumption DEF ExtensionInv, Extension!TypeOK
<1>0. v7[c].at = "import" /\ UNCHANGED <<v2, v3, v4, v5, v6>>
  BY DEF Extension!ImportExtension, Extension!At
<1>1. CASE Extension!Return(c) /\ UNCHANGED v1
  BY <1>t, <1>0, <1>1, ExtensionReturn, ExtensionQuiet, ExtensionsStay, FreeIs
<1>2. CASE ~(Extension!Return(c) /\ UNCHANGED v1)
  <2>1. PICK own \in BOOLEAN : own = (v7[c].kind \in Types => v2[v7[c].kind] = v7[c].config)
    OBVIOUS
  <2>2. PICK no \in BOOLEAN : no = FALSE
    OBVIOUS
  <2>3. PICK next : next = Extension!Step("clear", "none", Nil, no, Len(v1) + 1)
    OBVIOUS
  <2>s. PICK shared \in BOOLEAN : shared = v7[c].shared
    BY <1>t, CallIs
  <2>4. /\ Len(v1) < MaxExtensions /\ v1' = Append(v1, [own |-> own, shared |-> shared])
        /\ v7' = [v7 EXCEPT ![c] = next]
    BY <1>2, <2>1, <2>2, <2>3, <2>s DEF Extension!ImportExtension
  <2> DEFINE E == [own : BOOLEAN, shared : BOOLEAN]
  <2>5. PICK e \in E : e = [own |-> own, shared |-> shared]
    OBVIOUS
  <2>6. v1 \in Seq(E) /\ Len(v1) \in Nat
    BY DEF ExtensionInv, Extension!TypeOK
  <2>7. e.own = own /\ e.shared = shared
    BY <2>5
  <2>8. e.shared \/ e.own
    BY <1>0, <2>1, <2>s, <2>7 DEF ExtensionInv, Extension!HubKept
  <2>9. v1' = Append(v1, e)
    BY <2>4, <2>5
  <2>10. Extension!ConfigsKeptApart'
    <3> HIDE DEF E
    <3>1. \A i \in DOMAIN v1 : v1[i].shared \/ v1[i].own
      BY DEF ExtensionInv, Extension!ConfigsKeptApart
    <3>2. \A i \in DOMAIN v1' : IF i = Len(v1) + 1 THEN v1'[i] = e ELSE i \in DOMAIN v1 /\ v1'[i] = v1[i]
      BY <2>6, <2>9
    <3>3. \A i \in DOMAIN v1' : v1'[i].shared \/ v1'[i].own
      BY <2>8, <3>1, <3>2
    <3> QED
      BY <3>3 DEF Extension!ConfigsKeptApart
  <2>11. v1' \in Seq(E) /\ Len(v1') <= MaxExtensions /\ Len(v1) + 1 \in 0 .. MaxExtensions
    <3> HIDE DEF E
    <3> QED
      BY <2>4, <2>6, <2>9, ExtensionsAssumption
  <2>12. Moves7(c, next)
    BY <1>t, <2>3, <2>4, <2>11, ExtensionBegins DEF At7
  <2>13. next.at = "clear"
    BY <2>3, CallFields
  <2> QED
    BY <1>0, <2>10, <2>11, <2>12, <2>13, ExtensionQuiet
<1> QED
  BY <1>1, <1>2

(* ClearCaches. *)
LEMMA ClearKeeps ==
  ASSUME ExtensionInv, NEW c \in Callers, Extension!ClearCaches(c)
  PROVE  ExtensionInv'
<1>t. v7 \in [Callers -> Extension!Calls] /\ Nil \notin Callers
  BY ExtensionsAssumption DEF ExtensionInv, Extension!TypeOK
<1>0. /\ v7[c].at = "clear" /\ v5 = Nil /\ v4' = [k \in Extension!Caches |-> Extension!Nothing]
      /\ v7' = [v7 EXCEPT ![c].at = "assign"] /\ UNCHANGED <<v1, v2, v3, v5, v6>>
  BY DEF Extension!ClearCaches, Extension!At
<1>1. PICK next : next = Extension!Step("assign", v7[c].kind, v7[c].config, v7[c].shared, v7[c].name)
  OBVIOUS
<1>g. Moves7(c, next)
  BY <1>t, <1>0, <1>1, ExtensionGoes DEF At7
<1>2. Moves7(c, next) /\ next.at = "assign"
  BY <1>g, <1>1, CallFields
<1>3. v7'[c] = next /\ \A d \in Callers : d # c => v7'[d] = v7[d]
  BY <1>2 DEF Moves7
<1>4. Extension!TypeOK'
  <2>1. v4' \in [Extension!Caches -> CacheEntries]
    BY <1>0, CacheEmpty
  <2>2. v3' \in 0 .. MaxExtensions /\ v5' \in Callers \cup {Nil}
    BY <1>0 DEF ExtensionInv, Extension!TypeOK
  <2> QED
    BY <1>0, <1>2, <2>1, <2>2, ExtensionTyped, ExtensionsStay DEF ExtensionInv
<1>5. \A k \in Extension!Caches : ~v4'[k].set
  BY <1>0, CacheEmpty
<1>6. \A d \in Callers : v7'[d].at \notin {"fetch", "store"}
  BY <1>t, <1>0, <1>2, <1>3 DEF ExtensionInv, Extension!FetchesInOrder
<1>7. Extension!FetchesInOrder'
  BY <1>2, <1>3, <1>5, <1>6 DEF ExtensionInv, Extension!FetchesInOrder
<1>8. Extension!HubKept'
  BY <1>0, <1>2, <1>3 DEF ExtensionInv, Extension!HubKept
<1>9. Extension!CachedSpecBelongs'
  BY <1>5 DEF Extension!CachedSpecBelongs
<1> QED
  BY <1>0, <1>4, <1>7, <1>8, <1>9, ExtensionsStay DEF ExtensionInv

(* SetResourceName. *)
LEMMA NameKeeps ==
  ASSUME ExtensionInv, NEW c \in Callers, Extension!SetResourceName(c)
  PROVE  ExtensionInv'
<1>t. v7 \in [Callers -> Extension!Calls]
  BY DEF ExtensionInv, Extension!TypeOK
<1>0. /\ v7[c].at = "assign" /\ v3' = v7[c].name /\ Extension!Return(c) /\ UNCHANGED <<v1, v2, v4, v5, v6>>
  BY DEF Extension!SetResourceName, Extension!At
<1>1. Moves7(c, Extension!Free)
  BY <1>t, <1>0, ExtensionReturn
<1>2. v7'[c].at = "free" /\ \A d \in Callers : d # c => v7'[d] = v7[d]
  BY <1>1, FreeIs DEF Moves7
<1>3. Extension!TypeOK'
  <2>1. v3' \in 0 .. MaxExtensions
    BY <1>t, <1>0, CallIs
  <2>2. v4' \in [Extension!Caches -> CacheEntries] /\ v5' \in Callers \cup {Nil}
    BY <1>0 DEF ExtensionInv, Extension!TypeOK, CacheEntries
  <2> QED
    BY <1>0, <1>1, <2>1, <2>2, ExtensionTyped, ExtensionsStay DEF ExtensionInv
<1>4. Extension!Creating
  BY <1>0 DEF Extension!Creating
<1>5. \A k \in Extension!Caches : v4[k].set => v4[k].failed \/ v4[k].raced
  BY <1>4 DEF ExtensionInv, Extension!FetchesInOrder
<1>6. Extension!FetchesInOrder'
  <2>1. ASSUME NEW d \in Callers, v7'[d].at = "store"
        PROVE  d # c /\ v7'[d] = v7[d] /\ v7'[d].shared
    BY <1>2, <1>4, <2>1 DEF ExtensionInv, Extension!FetchesInOrder
  <2> QED
    BY <1>0, <1>2, <1>5, <2>1 DEF ExtensionInv, Extension!FetchesInOrder
<1>7. Extension!HubKept'
  BY <1>0, <1>2 DEF ExtensionInv, Extension!HubKept
<1>8. Extension!CachedSpecBelongs'
  BY <1>0, <1>5 DEF Extension!CachedSpecBelongs
<1> QED
  BY <1>0, <1>3, <1>6, <1>7, <1>8, ExtensionsStay DEF ExtensionInv

(* One cache is filled and the caller returns. *)
LEMMA FillKeeps ==
  ASSUME ExtensionInv, NEW c \in Callers, v7[c].at # "assign", Extension!Return(c),
         NEW k \in Extension!Caches, NEW of \in 0 .. MaxExtensions, NEW failed \in BOOLEAN,
         NEW raced \in BOOLEAN, v4' = [v4 EXCEPT ![k] = Extension!Filled(of, failed, raced)],
         of = v3 \/ failed \/ raced, Extension!Creating => failed \/ raced,
         UNCHANGED <<v1, v2, v3, v6>>, v5' \in Callers \cup {Nil},
         \A d \in Callers : d # c /\ v7[d].at \in {"fetch", "store"} => v5' = d
  PROVE  ExtensionInv'
<1>t. v7 \in [Callers -> Extension!Calls] /\ v4 \in [Extension!Caches -> CacheEntries] /\ v3 \in 0 .. MaxExtensions
  BY DEF ExtensionInv, Extension!TypeOK, CacheEntries
<1>1. Moves7(c, Extension!Free)
  BY <1>t, ExtensionReturn
<1>2. v7'[c].at = "free" /\ \A d \in Callers : d # c => v7'[d] = v7[d]
  BY <1>1, FreeIs DEF Moves7
<1>3. PICK new \in CacheEntries : new = Extension!Filled(of, failed, raced)
  BY CacheFilled
<1>4. new.of = of /\ new.failed = failed /\ new.raced = raced
  BY <1>3, CacheFilled
<1>5. /\ v4' \in [Extension!Caches -> CacheEntries] /\ v4'[k] = new
      /\ \A l \in Extension!Caches : l # k => v4'[l] = v4[l]
  BY <1>t, <1>3
<1>6. Extension!TypeOK'
  BY <1>t, <1>1, <1>5, ExtensionTyped, ExtensionsStay DEF ExtensionInv
<1>7. Extension!Creating' <=> Extension!Creating
  BY <1>2 DEF Extension!Creating
<1>8. Extension!FetchesInOrder'
  <2>1. ASSUME NEW d \in Callers
        PROVE  /\ v7'[d].at \in {"fetch", "store"} => v5' = d /\ v7'[d].kind \in Extension!Caches
               /\ v7'[d].at = "lock" => v7'[d].kind \in Extension!Caches
               /\ v7'[d].at = "store" /\ ~v7'[d].shared => ~Extension!Creating /\ v7'[d].name = v3
    BY <1>2 DEF ExtensionInv, Extension!FetchesInOrder
  <2>2. Extension!Creating => \A l \in Extension!Caches : v4'[l].set => v4'[l].failed \/ v4'[l].raced
    BY <1>4, <1>5 DEF ExtensionInv, Extension!FetchesInOrder
  <2> QED
    BY <1>7, <2>1, <2>2 DEF Extension!FetchesInOrder
<1>9. Extension!HubKept'
  BY <1>2 DEF ExtensionInv, Extension!HubKept
<1>10. Extension!CachedSpecBelongs'
  BY <1>4, <1>5 DEF ExtensionInv, Extension!CachedSpecBelongs
<1> QED
  BY <1>6, <1>8, <1>9, <1>10, ExtensionsStay DEF ExtensionInv

(* LookAgain. *)
LEMMA LookAgainKeeps ==
  ASSUME ExtensionInv, NEW c \in Callers, Extension!LookAgain(c)
  PROVE  ExtensionInv'
<1>t. v7 \in [Callers -> Extension!Calls] /\ Nil \notin Callers /\ v3 \in 0 .. MaxExtensions
  BY ExtensionsAssumption DEF ExtensionInv, Extension!TypeOK
<1>0. v7[c].at = "lock" /\ v5 = Nil /\ UNCHANGED <<v1, v2, v3, v6>>
  BY DEF Extension!LookAgain, Extension!At
<1>k. PICK k \in Extension!Caches : k = v7[c].kind
  BY <1>0 DEF ExtensionInv, Extension!FetchesInOrder
<1>1. CASE Extension!Return(c) /\ UNCHANGED <<v4, v5>>
  BY <1>t, <1>0, <1>1, ExtensionReturn, ExtensionQuiet, ExtensionsStay, FreeIs
<1>2. CASE /\ v3 = 0 /\ v4' = [v4 EXCEPT ![k] = Extension!Filled(0, FALSE, Extension!Creating)]
           /\ Extension!Return(c) /\ UNCHANGED v5
  <2>1. PICK raced \in BOOLEAN : raced = Extension!Creating
    BY DEF Extension!Creating
  <2>2. PICK no \in BOOLEAN : no = FALSE
    OBVIOUS
  <2>3. PICK of \in 0 .. MaxExtensions : of = 0
    BY <1>t, <1>2
  <2>4. v4' = [v4 EXCEPT ![k] = Extension!Filled(of, no, raced)]
    BY <1>2, <2>1, <2>2, <2>3
  <2>5. \A d \in Callers : v7[d].at \notin {"fetch", "store"}
    BY <1>t, <1>0 DEF ExtensionInv, Extension!FetchesInOrder
  <2>6. v5' \in Callers \cup {Nil}
    BY <1>0, <1>2
  <2> QED
    BY <1>0, <1>2, <2>1, <2>3, <2>4, <2>5, <2>6, FillKeeps
<1>3. CASE v5' = c /\ v7' = [v7 EXCEPT ![c].at = "fetch"] /\ UNCHANGED v4
  <2>1. PICK next : next = Extension!Step("fetch", v7[c].kind, v7[c].config, v7[c].shared, v7[c].name)
    OBVIOUS
  <2>g. Moves7(c, next)
    BY <1>t, <1>3, <2>1, ExtensionGoes DEF At7
  <2>2. Moves7(c, next) /\ next.at = "fetch" /\ next.kind = k
    BY <1>k, <2>g, <2>1, CallFields
  <2>3. v7'[c] = next /\ \A d \in Callers : d # c => v7'[d] = v7[d]
    BY <2>2 DEF Moves7
  <2>4. Extension!TypeOK'
    <3>1. v3' \in 0 .. MaxExtensions /\ v4' \in [Extension!Caches -> CacheEntries] /\ v5' \in Callers \cup {Nil}
      BY <1>0, <1>3 DEF ExtensionInv, Extension!TypeOK, CacheEntries
    <3> QED
      BY <1>0, <2>2, <3>1, ExtensionTyped, ExtensionsStay DEF ExtensionInv
  <2>5. \A d \in Callers : d # c => v7'[d].at \notin {"fetch", "store"}
    BY <1>t, <1>0, <2>3 DEF ExtensionInv, Extension!FetchesInOrder
  <2>6. Extension!Creating' <=> Extension!Creating
    BY <1>0, <2>2, <2>3 DEF Extension!Creating
  <2>7. Extension!FetchesInOrder'
    BY <1>3, <2>2, <2>3, <2>5, <2>6 DEF ExtensionInv, Extension!FetchesInOrder
  <2>8. Extension!HubKept'
    BY <1>0, <2>2, <2>3 DEF ExtensionInv, Extension!HubKept
  <2>9. Extension!CachedSpecBelongs'
    BY <1>0, <1>3 DEF ExtensionInv, Extension!CachedSpecBelongs
  <2> QED
    BY <1>0, <2>4, <2>7, <2>8, <2>9, ExtensionsStay DEF ExtensionInv
<1> QED
  BY <1>k, <1>1, <1>2, <1>3 DEF Extension!LookAgain

(* GetExtensionSpec. *)
LEMMA FetchKeeps ==
  ASSUME ExtensionInv, NEW c \in Callers, Extension!GetExtensionSpec(c)
  PROVE  ExtensionInv'
<1>t. v7 \in [Callers -> Extension!Calls] /\ Nil \notin Callers /\ v3 \in 0 .. MaxExtensions
  BY ExtensionsAssumption DEF ExtensionInv, Extension!TypeOK
<1>1. PICK raced \in BOOLEAN : raced = Extension!Creating
  BY DEF Extension!Creating
<1>k. PICK k \in Extension!Caches : k = v7[c].kind
  BY DEF Extension!GetExtensionSpec, Extension!At, ExtensionInv, Extension!FetchesInOrder
<1>2. PICK next : next = Extension!Step("store", k, Nil, raced, v3)
  OBVIOUS
<1>0. v7[c].at = "fetch" /\ UNCHANGED <<v1, v2, v3, v4, v5, v6>> /\ v7' = [v7 EXCEPT ![c] = next]
  BY <1>1, <1>2, <1>k DEF Extension!GetExtensionSpec, Extension!At
<1>3. Moves7(c, next)
  BY <1>t, <1>0, <1>2, ExtensionBegins DEF At7
<1>4. next.at = "store" /\ next.kind = k /\ next.shared = raced /\ next.name = v3
  BY <1>2, CallFields
<1>5. v7'[c] = next /\ \A d \in Callers : d # c => v7'[d] = v7[d]
  BY <1>3 DEF Moves7
<1>6. Extension!TypeOK'
  <2>1. v3' \in 0 .. MaxExtensions /\ v4' \in [Extension!Caches -> CacheEntries] /\ v5' \in Callers \cup {Nil}
    BY <1>0 DEF ExtensionInv, Extension!TypeOK, CacheEntries
  <2> QED
    BY <1>0, <1>3, <2>1, ExtensionTyped, ExtensionsStay DEF ExtensionInv
<1>7. Extension!Creating' <=> Extension!Creating
  BY <1>0, <1>4, <1>5 DEF Extension!Creating
<1>8. v5 = c
  BY <1>0 DEF ExtensionInv, Extension!FetchesInOrder
<1>9. Extension!FetchesInOrder'
  BY <1>0, <1>1, <1>4, <1>5, <1>7, <1>8 DEF ExtensionInv, Extension!FetchesInOrder
<1>10. Extension!HubKept'
  BY <1>0, <1>4, <1>5 DEF ExtensionInv, Extension!HubKept
<1>11. Extension!CachedSpecBelongs'
  BY <1>0 DEF ExtensionInv, Extension!CachedSpecBelongs
<1> QED
  BY <1>0, <1>6, <1>9, <1>10, <1>11, ExtensionsStay DEF ExtensionInv

(* StoreSpec. *)
LEMMA StoreKeeps ==
  ASSUME ExtensionInv, NEW c \in Callers, Extension!StoreSpec(c)
  PROVE  ExtensionInv'
<1>t. v7 \in [Callers -> Extension!Calls] /\ 0 \in 0 .. MaxExtensions
  BY ExtensionsAssumption DEF ExtensionInv, Extension!TypeOK
<1>0. v7[c].at = "store" /\ v5' = Nil /\ Extension!Return(c) /\ UNCHANGED <<v1, v2, v3, v6>>
  BY DEF Extension!StoreSpec, Extension!At
<1>1. PICK k \in Extension!Caches : k = v7[c].kind
  BY <1>0 DEF ExtensionInv, Extension!FetchesInOrder
<1>2. PICK raced \in BOOLEAN : raced = v7[c].shared
  BY <1>t, CallIs
<1>3. PICK failed \in BOOLEAN :
        v4' = [v4 EXCEPT ![k] = Extension!Filled(IF failed THEN 0 ELSE v7[c].name, failed, v7[c].shared)]
  BY <1>1 DEF Extension!StoreSpec
<1>4. PICK of \in 0 .. MaxExtensions : of = IF failed THEN 0 ELSE v7[c].name
  BY <1>t, CallIs
<1>5. v4' = [v4 EXCEPT ![k] = Extension!Filled(of, failed, raced)]
  BY <1>2, <1>3, <1>4
<1>6. ~raced => ~Extension!Creating /\ v7[c].name = v3
  BY <1>0, <1>2 DEF ExtensionInv, Extension!FetchesInOrder
<1>7. \A d \in Callers : d # c => v7[d].at \notin {"fetch", "store"}
  BY <1>0 DEF ExtensionInv, Extension!FetchesInOrder
<1>8. of = v3 \/ failed \/ raced
  BY <1>4, <1>6
<1>9. v5' \in Callers \cup {Nil}
  BY <1>0
<1> QED
  BY <1>0, <1>5, <1>6, <1>7, <1>8, <1>9, FillKeeps

(* The inductive invariant of the extensions. *)
LEMMA ExtensionInductive ==
  ASSUME ExtensionInv, Extension!Next
  PROVE  ExtensionInv'
<1>1. ASSUME Extension!Close
      PROVE  ExtensionInv'
  <2>1. UNCHANGED <<v1, v2, v3, v4, v5, v7>> /\ v6' \in BOOLEAN
    BY <1>1 DEF Extension!Close
  <2>2. Extension!TypeOK'
    BY <2>1 DEF ExtensionInv, Extension!TypeOK
  <2>3. Extension!FetchesInOrder' /\ Extension!HubKept' /\ Extension!CachedSpecBelongs'
    BY <2>1 DEF ExtensionInv, Extension!FetchesInOrder, Extension!HubKept, Extension!CachedSpecBelongs,
                Extension!Creating
  <2> QED
    BY <2>1, <2>2, <2>3, ExtensionsStay DEF ExtensionInv
<1> QED
  BY <1>1, CreateFromHubKeeps, CreatorsKeep, ImportKeeps, ClearKeeps, NameKeeps, LookAgainKeeps, FetchKeeps,
     StoreKeeps DEF Extension!Next

-----------------------------------------------------------------------------
(* The client.                                                             *)

VertexInv ==
  /\ Vertex!TypeOK /\ Vertex!BuiltInOrder
  /\ Vertex!ClosedInOrder /\ Vertex!LeaksWhatItLeaves /\ Vertex!HealthIsBeingBuilt

(* The services of a client. *)
LEMMA ClientServices ==
  /\ Len(Vertex!Services) = 10 /\ Vertex!All = 1 .. 10
  /\ \A s \in 1 .. 10 : /\ Vertex!Services[s] = "extension" <=> s = 5
                        /\ Vertex!Services[s] = "rag" <=> s = 7
BY DEF Vertex!Services, Vertex!All

(* Each has a first connection, and at most two. *)
LEMMA ClientConnections ==
  \A s : Vertex!Connections(s) \in {{1}, {1, 2}}
BY DEF Vertex!Connections

(* What is closed of a service. *)
LEMMA ClientClosed ==
  ASSUME NEW s \in 1 .. 10
  PROVE  /\ Vertex!Closed(s) \subseteq v4
         /\ s # 7 => Vertex!Closed(s) = v4 \ ({s} \X Vertex!Connections(s))
         /\ s = 7 => Vertex!Closed(s) = v4
         /\ s # 7 /\ {7} \X Vertex!Connections(7) \subseteq v4
                => {7} \X Vertex!Connections(7) \subseteq Vertex!Closed(s)
BY ClientServices DEF Vertex!Closed, Vertex!OpenOf

(* The initial state of the client. *)
LEMMA VertexStart ==
  ASSUME Vertex!Init
  PROVE  VertexInv
<1> USE ClientServices DEF Vertex!Init
<1>1. Vertex!TypeOK
  BY DEF Vertex!TypeOK
<1>2. Vertex!BuiltInOrder
  BY DEF Vertex!BuiltInOrder
<1>3. Vertex!ClosedInOrder
  BY DEF Vertex!ClosedInOrder
<1>4. Vertex!LeaksWhatItLeaves
  BY DEF Vertex!LeaksWhatItLeaves
<1>5. Vertex!HealthIsBeingBuilt
  BY DEF Vertex!HealthIsBeingBuilt, Vertex!HealthCheck
<1> QED
  BY <1>1, <1>2, <1>3, <1>4, <1>5 DEF VertexInv

(* The building of a service. *)
LEMMA NewClientKeeps ==
  ASSUME VertexInv, Vertex!NewClient
  PROVE  Vertex!TypeOK' /\ Vertex!BuiltInOrder' /\ Vertex!ClosedInOrder'
<1>0. v2 = "building" /\ UNCHANGED <<v1, v5, v6>> /\ v3 \in 0 .. 9
  BY ClientServices DEF VertexInv, Vertex!TypeOK, Vertex!BuiltInOrder, Vertex!NewClient
<1>1. PICK s \in 1 .. 10 : s = v3 + 1
  BY <1>0
<1>c. Vertex!ClosedInOrder'
  <2>1. \A c \in Callers : v5'[c] = 0 /\ v6'[c] = 0
    BY <1>0 DEF VertexInv, Vertex!BuiltInOrder
  <2> QED
    BY <2>1 DEF Vertex!ClosedInOrder
<1>2. CASE /\ s = 5 => v1 = "us-central1"
           /\ v4' = v4 \cup ({s} \X Vertex!Connections(s)) /\ v3' = s
           /\ v2' = IF s = 10 THEN "ready" ELSE v2
  <2>1. \A p \in {s} \X Vertex!Connections(s) : p \in Vertex!All \X {1, 2} /\ p[2] \in Vertex!Connections(p[1])
    BY ClientServices, ClientConnections
  <2>2. Vertex!TypeOK'
    BY <1>0, <1>2, <2>1, ClientServices DEF VertexInv, Vertex!TypeOK
  <2>3. \A t \in 1 .. s : {t} \X Vertex!Connections(t) \subseteq v4'
    BY <1>0, <1>1, <1>2 DEF VertexInv, Vertex!BuiltInOrder
  <2>4. v3' >= 5 => v1' = "us-central1"
    BY <1>0, <1>1, <1>2 DEF VertexInv, Vertex!BuiltInOrder
  <2>5. s = 10 => {7} \X Vertex!Connections(7) \subseteq v4'
    BY <2>3
  <2> QED
    BY <1>0, <1>1, <1>c, <1>2, <2>2, <2>3, <2>4, <2>5, ClientServices DEF VertexInv, Vertex!BuiltInOrder
<1>3. CASE v2' = "failed" /\ v3' = v3 /\ \E made \in {{}, {<<s, 1>>}} : v4' = v4 \cup made
  <2>1. PICK made \in {{}, {<<s, 1>>}} : v4' = v4 \cup made
    BY <1>3
  <2>2. \A p \in made : p \in Vertex!All \X {1, 2} /\ p[2] \in Vertex!Connections(p[1])
    BY ClientServices, ClientConnections
  <2>3. Vertex!TypeOK'
    BY <1>0, <1>3, <2>1, <2>2, ClientServices DEF VertexInv, Vertex!TypeOK
  <2> QED
    BY <1>0, <1>c, <1>3, <2>1, <2>3 DEF VertexInv, Vertex!BuiltInOrder
<1>s. s = v3 + 1 /\ Vertex!Services[s] = "extension" <=> s = 5
  BY <1>1, ClientServices
<1> QED
  BY <1>1, <1>2, <1>3, ClientServices DEF Vertex!NewClient

(* The closing of a service. *)
LEMMA CloseKeeps ==
  ASSUME VertexInv, v2 = "ready", NEW s \in 1 .. 10, v4' = Vertex!Closed(s), UNCHANGED <<v1, v2, v3>>,
         v5' \in [Callers -> 0 .. 10], v6' \in [Callers -> 0 .. 10],
         \A c \in Callers : v5'[c] > 0 => v6'[c] = 0
  PROVE  Vertex!TypeOK' /\ Vertex!BuiltInOrder'
<1>1. v4' \subseteq v4 /\ {7} \X Vertex!Connections(7) \subseteq v4'
  BY ClientClosed DEF VertexInv, Vertex!BuiltInOrder
<1>2. Vertex!TypeOK'
  BY <1>1, ClientServices DEF VertexInv, Vertex!TypeOK
<1>3. Vertex!BuiltInOrder'
  BY <1>1 DEF VertexInv, Vertex!BuiltInOrder
<1> QED
  BY <1>2, <1>3

(* What the caller c has passed. *)
Passed(c) == IF v5[c] > 0 THEN v5[c] ELSE v6[c]

(* Close and the closing of a service outside of it. *)
LEMMA ClosingKeeps ==
  ASSUME VertexInv,
         \/ \E s \in Vertex!All : Vertex!CloseService(s)
         \/ \E c \in Callers : Vertex!Close(c) \/ Vertex!CloseNext(c)
  PROVE  Vertex!TypeOK' /\ Vertex!BuiltInOrder' /\ Vertex!ClosedInOrder'
<1>t. v5 \in [Callers -> 0 .. 10] /\ v6 \in [Callers -> 0 .. 10]
  BY ClientServices DEF VertexInv, Vertex!TypeOK
<1>k. \A c \in Callers : v5[c] > 0 => v6[c] = 0
  BY DEF VertexInv, Vertex!BuiltInOrder
<1>o. \A c \in Callers : \A t \in 1 .. Passed(c) - 1 : t # 7 => Vertex!OpenOf(t) = {}
  <2>1. ASSUME NEW c \in Callers, NEW t \in 1 .. Passed(c) - 1, t # 7
        PROVE  Vertex!OpenOf(t) = {}
    <3>1. t \in 1 .. 10
      BY <1>t DEF Passed
    <3> QED
      BY <2>1, <3>1, ClientServices DEF VertexInv, Vertex!ClosedInOrder, Passed
  <2> QED
    BY <2>1
<1>p. ASSUME v4' \subseteq v4, v5' \in [Callers -> 0 .. 10], v6' \in [Callers -> 0 .. 10],
             \A c \in Callers : \A t \in 1 .. Passed(c)' - 1 : t # 7 =>
               t <= Passed(c) - 1 \/ v4' \cap ({t} \X Vertex!Connections(t)) = {}
      PROVE  Vertex!ClosedInOrder'
  <2>1. ASSUME NEW c \in Callers, NEW t \in 1 .. Passed(c)' - 1, Vertex!Services[t] # "rag"
        PROVE  v4' \cap ({t} \X Vertex!Connections(t)) = {}
    <3>1. t \in 1 .. 10 /\ Passed(c) \in 0 .. 10
      BY <1>t, <1>p DEF Passed
    <3>2. t # 7
      BY <2>1, <3>1, ClientServices
    <3> QED
      BY <1>o, <1>p, <3>1, <3>2 DEF Vertex!OpenOf
  <2> QED
    BY <2>1 DEF Vertex!ClosedInOrder, Vertex!OpenOf, Passed
<1>1. ASSUME NEW s \in Vertex!All, Vertex!CloseService(s)
      PROVE  Vertex!TypeOK' /\ Vertex!BuiltInOrder' /\ Vertex!ClosedInOrder'
  <2>1. v2 = "ready" /\ v4' = Vertex!Closed(s) /\ UNCHANGED <<v1, v2, v3, v5, v6>> /\ s \in 1 .. 10
    BY <1>1, ClientServices DEF Vertex!CloseService
  <2>2. Vertex!TypeOK' /\ Vertex!BuiltInOrder'
    BY <1>k, <1>t, <2>1, CloseKeeps
  <2>3. \A c \in Callers : Passed(c)' = Passed(c) /\ Passed(c) \in 0 .. 10
    BY <1>t, <2>1 DEF Passed
  <2>4. v4' \subseteq v4
    BY <2>1, ClientClosed
  <2> QED
    BY <1>p, <1>t, <2>1, <2>2, <2>3, <2>4
<1>2. ASSUME NEW c \in Callers, Vertex!Close(c)
      PROVE  Vertex!TypeOK' /\ Vertex!BuiltInOrder' /\ Vertex!ClosedInOrder'
  <2>1. /\ v2 = "ready" /\ v5' = [v5 EXCEPT ![c] = 1] /\ v6' = [v6 EXCEPT ![c] = 0]
        /\ UNCHANGED <<v1, v2, v3, v4>>
    BY <1>2 DEF Vertex!Close
  <2>2. v5' \in [Callers -> 0 .. 10] /\ v6' \in [Callers -> 0 .. 10]
    BY <1>t, <2>1
  <2>3. Vertex!TypeOK'
    BY <2>1, <2>2, ClientServices DEF VertexInv, Vertex!TypeOK
  <2>4. Vertex!BuiltInOrder'
    BY <1>t, <2>1 DEF VertexInv, Vertex!BuiltInOrder
  <2>5. \A d \in Callers : IF d = c THEN Passed(d)' = 1 ELSE Passed(d)' = Passed(d) /\ Passed(d) \in 0 .. 10
    BY <1>t, <2>1 DEF Passed
  <2> QED
    BY <1>p, <2>1, <2>2, <2>3, <2>4, <2>5
<1>3. ASSUME NEW c \in Callers, Vertex!CloseNext(c)
      PROVE  Vertex!TypeOK' /\ Vertex!BuiltInOrder' /\ Vertex!ClosedInOrder'
  <2>1. PICK s \in 1 .. 10 : s = v5[c]
    BY <1>t, <1>3 DEF Vertex!CloseNext
  <2>2. v2 = "ready" /\ v6[c] = 0 /\ UNCHANGED <<v1, v2, v3>> /\ Passed(c) = s
    BY <1>3, <2>1 DEF VertexInv, Vertex!BuiltInOrder, Vertex!CloseNext, Passed
  <2>3. CASE Vertex!Refuses(s)
    <3>1. v5' = [v5 EXCEPT ![c] = 0] /\ v6' = [v6 EXCEPT ![c] = s] /\ UNCHANGED v4
      BY <1>3, <2>1, <2>3 DEF Vertex!CloseNext
    <3>2. v5' \in [Callers -> 0 .. 10] /\ v6' \in [Callers -> 0 .. 10]
      BY <1>t, <3>1
    <3>3. Vertex!TypeOK'
      BY <2>2, <3>1, <3>2, ClientServices DEF VertexInv, Vertex!TypeOK
    <3>4. Vertex!BuiltInOrder'
      BY <1>t, <2>2, <3>1 DEF VertexInv, Vertex!BuiltInOrder
    <3>5. \A d \in Callers : Passed(d)' = Passed(d) /\ Passed(d) \in 0 .. 10
      BY <1>t, <2>2, <3>1 DEF Passed
    <3> QED
      BY <1>p, <3>1, <3>2, <3>3, <3>4, <3>5
  <2>4. CASE ~Vertex!Refuses(s)
    <3>1. PICK n \in 0 .. 10 : n = IF s = 10 THEN 0 ELSE s + 1
      OBVIOUS
    <3>2. v5' = [v5 EXCEPT ![c] = n] /\ UNCHANGED v6 /\ v4' = Vertex!Closed(s)
      BY <1>3, <2>1, <2>4, <3>1, ClientServices DEF Vertex!CloseNext
    <3>3. v5' \in [Callers -> 0 .. 10]
      BY <1>t, <3>2
    <3>4. Vertex!TypeOK' /\ Vertex!BuiltInOrder'
      <4>1. v6' \in [Callers -> 0 .. 10] /\ \A d \in Callers : v5'[d] > 0 => v6'[d] = 0
        BY <1>k, <1>t, <2>2, <3>2
      <4> QED
        BY <2>2, <3>2, <3>3, <4>1, CloseKeeps
    <3>5. \A d \in Callers : d # c => Passed(d)' = Passed(d) /\ Passed(d) \in 0 .. 10
      BY <1>t, <3>2 DEF Passed
    <3>6. Passed(c)' \in {0, s + 1}
      BY <1>t, <2>2, <3>1, <3>2 DEF Passed
    <3>7. v4' \subseteq v4 /\ (s # 7 => v4' \cap ({s} \X Vertex!Connections(s)) = {})
      BY <3>2, ClientClosed
    <3>8. ASSUME NEW d \in Callers, NEW t \in 1 .. Passed(d)' - 1, t # 7
          PROVE  t <= Passed(d) - 1 \/ v4' \cap ({t} \X Vertex!Connections(t)) = {}
      <4>1. CASE d # c
        BY <3>5, <4>1
      <4>2. CASE d = c
        <5>1. t \in 1 .. s
          BY <3>6, <4>2
        <5> QED
          BY <2>2, <3>7, <3>8, <4>2, <5>1
      <4> QED
        BY <4>1, <4>2
    <3>9. v6' \in [Callers -> 0 .. 10]
      BY <1>t, <3>2
    <3> QED
      BY <1>p, <3>3, <3>4, <3>7, <3>8, <3>9
  <2> QED
    BY <2>3, <2>4
<1> QED
  BY <1>1, <1>2, <1>3

(* The inductive invariant of the client. *)
LEMMA VertexInductive ==
  ASSUME VertexInv, Vertex!Next
  PROVE  VertexInv'
<1>1. Vertex!TypeOK' /\ Vertex!BuiltInOrder' /\ Vertex!ClosedInOrder'
  BY NewClientKeeps, ClosingKeeps DEF Vertex!Next
<1>2. Vertex!LeaksWhatItLeaves' /\ Vertex!HealthIsBeingBuilt'
  <2>1. Vertex!LeaksWhatItLeaves'
    <3>1. ASSUME NEW s, {s} \X Vertex!Connections(s) \subseteq v4'
          PROVE  Vertex!OpenOf(s)' # {}
      <4>1. <<s, 1>> \in {s} \X Vertex!Connections(s)
        BY ClientConnections
      <4> QED
        BY <3>1, <4>1 DEF Vertex!OpenOf
    <3> QED
      BY <1>1, <3>1 DEF Vertex!BuiltInOrder, Vertex!LeaksWhatItLeaves
  <2>2. Vertex!HealthIsBeingBuilt'
    <3>1. ASSUME v2' = "ready"
          PROVE  v1' = "us-central1" /\ Vertex!GetServiceStatus' = {Vertex!Services[s] : s \in Vertex!All}
      <4>1. v3' = 10
        BY <1>1, <3>1, ClientServices DEF Vertex!BuiltInOrder
      <4>2. {t \in Vertex!All : t <= v3'} = Vertex!All
        BY <4>1, ClientServices
      <4> QED
        BY <1>1, <4>1, <4>2 DEF Vertex!BuiltInOrder, Vertex!GetServiceStatus
    <3> QED
      BY <3>1 DEF Vertex!HealthIsBeingBuilt, Vertex!HealthCheck
  <2> QED
    BY <2>1, <2>2
<1> QED
  BY <1>1, <1>2 DEF VertexInv

-----------------------------------------------------------------------------
(* Credentials.                                                            *)

CredentialInv ==
  /\ Credential!TypeOK /\ Credential!AnsweredWithToken
  /\ Credential!CodeSentOnce /\ Credential!ExpiredOnlyUnrefreshed

(* The initial state of a manager of credentials. *)
LEMMA CredentialStart ==
  ASSUME Credential!Init
  PROVE  CredentialInv
<1>1. Credential!TypeOK
  BY DEF Credential!Init, Credential!TypeOK
<1>2. Credential!AnsweredWithToken /\ Credential!CodeSentOnce /\ Credential!ExpiredOnlyUnrefreshed
  BY DEF Credential!Init, Credential!AnsweredWithToken, Credential!CodeSentOnce,
         Credential!ExpiredOnlyUnrefreshed
<1> QED
  BY <1>1, <1>2 DEF CredentialInv

(* A step of one call moves it on and may settle its token; what is known  *)
(* of the others stays.                                                    *)
LEMMA CredentialMoves ==
  ASSUME CredentialInv, NEW c \in Callers,
         NEW there \in {"idle", "ready", "loaded", "exchanging", "unexchanged", "refreshing",
                        "changed", "done", "panicked"},
         NEW t \in {"unsettled", "none", "live", "expired"},
         v1' = v1, v2' \in BOOLEAN, v3' \subseteq Users, v4' \in Credential!OAuth2s, v5' \in BOOLEAN,
         v6' = [v6 EXCEPT ![c] = there], v7' = [v7 EXCEPT ![c] = t],
         v8 \subseteq v8', v8' \subseteq Callers, v9' \subseteq Callers,
         v5' => v4'.access # "none",
         v5' => \A d \in Callers : (d # c /\ v6[d] = "exchanging") \/ (d = c /\ there = "exchanging")
                                   => d \in v9',
         t # v7[c] /\ t = "expired" => c \in v8' \/ ~v1.session \/ v1.exchanger
  PROVE  CredentialInv'
<1>1. Credential!TypeOK'
  BY DEF CredentialInv, Credential!TypeOK
<1>2. Credential!AnsweredWithToken'
  BY DEF Credential!AnsweredWithToken
<1>3. /\ v6'[c] = there /\ v7'[c] = t
      /\ \A d \in Callers : d # c => v6'[d] = v6[d] /\ v7'[d] = v7[d]
  BY DEF CredentialInv, Credential!TypeOK
<1>4. Credential!CodeSentOnce'
  BY <1>3 DEF Credential!CodeSentOnce
<1>5. Credential!ExpiredOnlyUnrefreshed'
  BY <1>3 DEF CredentialInv, Credential!ExpiredOnlyUnrefreshed
<1> QED
  BY <1>1, <1>2, <1>4, <1>5 DEF CredentialInv

(* The same of a call that leaves its token and everything else alone. *)
LEMMA CredentialGoes ==
  ASSUME CredentialInv, NEW c \in Callers,
         NEW there \in {"idle", "ready", "loaded", "exchanging", "unexchanged", "refreshing",
                        "changed", "done", "panicked"},
         UNCHANGED <<v1, v2, v3, v4, v5, v7, v8, v9>>,
         v6' = [v6 EXCEPT ![c] = there], there = "exchanging" => v4.access = "none"
  PROVE  CredentialInv'
<1>1. PICK t \in {"unsettled", "none", "live", "expired"} : t = v7[c]
  BY DEF CredentialInv, Credential!TypeOK
<1>2. v7' = [v7 EXCEPT ![c] = t]
  BY <1>1 DEF CredentialInv, Credential!TypeOK
<1>3. /\ v2' \in BOOLEAN /\ v3' \subseteq Users /\ v4' \in Credential!OAuth2s /\ v5' \in BOOLEAN
      /\ v8' \subseteq Callers /\ v9' \subseteq Callers
  BY DEF CredentialInv, Credential!TypeOK
<1>4. v5' => v4'.access # "none"
  BY DEF CredentialInv, Credential!AnsweredWithToken
<1>5. v5' => \A d \in Callers : (d # c /\ v6[d] = "exchanging") \/ (d = c /\ there = "exchanging") => d \in v9'
  BY <1>4 DEF CredentialInv, Credential!CodeSentOnce
<1> QED
  BY <1>1, <1>2, <1>3, <1>4, <1>5, CredentialMoves, ZenonT(40)

(* The same of a call that settles on a token that the object holds. *)
LEMMA CredentialSettles ==
  ASSUME CredentialInv, NEW c \in Callers, NEW there \in {"changed", "done"},
         NEW t \in {"none", "live", "expired"}, UNCHANGED <<v1, v2, v3, v4, v5, v9>>,
         Credential!Settle(c, there, t), v8' = v8 \/ v8' = v8 \cup {c},
         t = "expired" => c \in v8' \/ ~v1.session \/ v1.exchanger
  PROVE  CredentialInv'
<1>1. v6' = [v6 EXCEPT ![c] = there] /\ v7' = [v7 EXCEPT ![c] = t]
  BY DEF Credential!Settle, Credential!Goto
<1>2. /\ v2' \in BOOLEAN /\ v3' \subseteq Users /\ v4' \in Credential!OAuth2s /\ v5' \in BOOLEAN
      /\ v8 \subseteq v8' /\ v8' \subseteq Callers /\ v9' \subseteq Callers
  BY DEF CredentialInv, Credential!TypeOK
<1>3. v5' => v4'.access # "none"
  BY DEF CredentialInv, Credential!AnsweredWithToken
<1>4. v5' => \A d \in Callers : (d # c /\ v6[d] = "exchanging") \/ (d = c /\ there = "exchanging") => d \in v9'
  BY DEF CredentialInv, Credential!CodeSentOnce
<1> QED
  BY <1>1, <1>2, <1>3, <1>4, CredentialMoves, ZenonT(40)

(* The token of the object. *)
LEMMA CredentialToken ==
  ASSUME CredentialInv
  PROVE  v4 \in Credential!OAuth2s /\ v4.access \in {"none", "live", "expired"}
BY DEF CredentialInv, Credential!TypeOK, Credential!OAuth2s

(* ExchangeCode. *)
LEMMA ExchangeCodeKeeps ==
  ASSUME CredentialInv, NEW c \in Callers, Credential!ExchangeCode(c)
  PROVE  CredentialInv'
<1>1. CASE Credential!Goto(c, "unexchanged") /\ UNCHANGED <<v4, v5, v7, v9>>
  BY <1>1, CredentialGoes DEF Credential!ExchangeCode, Credential!Goto
<1>2. CASE ~(Credential!Goto(c, "unexchanged") /\ UNCHANGED <<v4, v5, v7, v9>>)
  <2>1. /\ v5' = TRUE /\ v9' = {d \in Callers : v6[d] = "exchanging"}
        /\ v6' = [v6 EXCEPT ![c] = "changed"] /\ v7' = [v7 EXCEPT ![c] = "live"]
        /\ UNCHANGED <<v1, v2, v3, v8>>
    BY <1>2 DEF Credential!ExchangeCode, Credential!Settle, Credential!Goto
  <2>2. PICK r \in BOOLEAN : v4' = [v4 EXCEPT !.access = "live", !.refresh = r]
    BY <1>2 DEF Credential!ExchangeCode
  <2>3. v4' \in Credential!OAuth2s /\ v4'.access = "live"
    BY <2>2, CredentialToken DEF Credential!OAuth2s
  <2>4. v2' \in BOOLEAN /\ v3' \subseteq Users /\ v5' \in BOOLEAN /\ v8' \subseteq Callers /\ v9' \subseteq Callers
    BY <2>1 DEF CredentialInv, Credential!TypeOK
  <2> QED
    BY <2>1, <2>3, <2>4, CredentialMoves
<1> QED
  BY <1>1, <1>2

(* Refresh. *)
LEMMA RefreshKeeps ==
  ASSUME CredentialInv, NEW c \in Callers, Credential!Refresh(c)
  PROVE  CredentialInv'
<1>1. CASE Credential!Settle(c, "done", v4.access) /\ v8' = v8 \cup {c} /\ UNCHANGED v4
  BY <1>1, CredentialToken, CredentialSettles DEF Credential!Refresh
<1>2. CASE ~(Credential!Settle(c, "done", v4.access) /\ v8' = v8 \cup {c} /\ UNCHANGED v4)
  <2>1. /\ v4' = [v4 EXCEPT !.access = "live"] /\ UNCHANGED <<v1, v2, v3, v5, v8, v9>>
        /\ v6' = [v6 EXCEPT ![c] = "changed"] /\ v7' = [v7 EXCEPT ![c] = "live"]
    BY <1>2 DEF Credential!Refresh, Credential!Settle, Credential!Goto
  <2>2. v4' \in Credential!OAuth2s /\ v4'.access = "live"
    BY <2>1, CredentialToken DEF Credential!OAuth2s
  <2>3. v2' \in BOOLEAN /\ v3' \subseteq Users /\ v5' \in BOOLEAN /\ v8' \subseteq Callers /\ v9' \subseteq Callers
    BY <2>1 DEF CredentialInv, Credential!TypeOK
  <2>4. v5' => \A d \in Callers : d # c /\ v6[d] = "exchanging" => d \in v9'
    BY <2>1 DEF CredentialInv, Credential!CodeSentOnce
  <2> QED
    BY <2>1, <2>2, <2>3, <2>4, CredentialMoves
<1> QED
  BY <1>1, <1>2

(* SaveCredential. *)
LEMMA SaveCredentialKeeps ==
  ASSUME CredentialInv, NEW c \in Callers, Credential!SaveCredential(c)
  PROVE  CredentialInv'
<1>1. v6' = [v6 EXCEPT ![c] = "done"] /\ UNCHANGED <<v1, v4, v5, v7, v8, v9>>
  BY DEF Credential!SaveCredential, Credential!Goto
<1>2. PICK t \in {"unsettled", "none", "live", "expired"} : t = v7[c]
  BY DEF CredentialInv, Credential!TypeOK
<1>3. v7' = [v7 EXCEPT ![c] = t]
  BY <1>1, <1>2 DEF CredentialInv, Credential!TypeOK
<1>4. v2' \in BOOLEAN /\ v3' \subseteq Users
  <2>1. v2 \in BOOLEAN /\ v3 \subseteq Users /\ UserOf[c] \in Users
    BY CredentialsAssumption DEF CredentialInv, Credential!TypeOK
  <2>2. \/ v2' = TRUE /\ v3' = v3 \cup {UserOf[c]}
        \/ v2' = v2 /\ v3' = v3
    BY DEF Credential!SaveCredential
  <2> QED
    BY <2>1, <2>2
<1>5. v4' \in Credential!OAuth2s /\ v5' \in BOOLEAN /\ v8' \subseteq Callers /\ v9' \subseteq Callers
  BY <1>1 DEF CredentialInv, Credential!TypeOK
<1>6. v5' => v4'.access # "none" /\ \A d \in Callers : d # c /\ v6[d] = "exchanging" => d \in v9'
  BY <1>1 DEF CredentialInv, Credential!AnsweredWithToken, Credential!CodeSentOnce
<1> QED
  BY <1>1, <1>2, <1>3, <1>4, <1>5, <1>6, CredentialMoves

(* The inductive invariant of a manager of credentials. *)
LEMMA CredentialInductive ==
  ASSUME CredentialInv, Credential!Next
  PROVE  CredentialInv'
<1>1. ASSUME NEW c \in Callers, Credential!LoadCredential(c)
      PROVE  CredentialInv'
  <2>1. PICK there \in {"ready", "panicked", "loaded"} : v6' = [v6 EXCEPT ![c] = there]
    BY <1>1 DEF Credential!LoadCredential, Credential!Goto
  <2> QED
    BY <1>1, <2>1, CredentialGoes DEF Credential!LoadCredential
<1>2. ASSUME NEW c \in Callers, Credential!Exchange(c)
      PROVE  CredentialInv'
  <2>1. CASE UNCHANGED v7 /\ v6' = [v6 EXCEPT ![c] = "unexchanged"]
    BY <1>2, <2>1, CredentialGoes DEF Credential!Exchange
  <2>2. CASE UNCHANGED v7 /\ v6' = [v6 EXCEPT ![c] = "exchanging"] /\ v4.access = "none"
    BY <1>2, <2>2, CredentialGoes DEF Credential!Exchange
  <2>3. CASE v1.exchanger /\ Credential!Settle(c, "changed", v4.access)
    BY <1>2, <2>3, CredentialSettles, CredentialToken DEF Credential!Exchange
  <2> QED
    BY <1>2, <2>1, <2>2, <2>3 DEF Credential!Exchange, Credential!Goto
<1>3. ASSUME NEW c \in Callers, Credential!IsRefreshNeeded(c)
      PROVE  CredentialInv'
  <2>1. CASE UNCHANGED v7 /\ v6' = [v6 EXCEPT ![c] = "refreshing"]
    BY <1>3, <2>1, CredentialGoes DEF Credential!IsRefreshNeeded
  <2>2. CASE v4.access = "live" /\ Credential!Settle(c, "done", v4.access)
    BY <1>3, <2>2, CredentialSettles, CredentialToken DEF Credential!IsRefreshNeeded
  <2>3. CASE ~v1.session /\ Credential!Settle(c, "changed", v4.access)
    BY <1>3, <2>3, CredentialSettles, CredentialToken DEF Credential!IsRefreshNeeded
  <2> QED
    BY <1>3, <2>1, <2>2, <2>3 DEF Credential!IsRefreshNeeded, Credential!Goto, Credential!Valid
<1>4. CASE Credential!Expire
  <2>1. v4' = [v4 EXCEPT !.access = "expired"] /\ UNCHANGED <<v1, v2, v3, v5, v6, v7, v8, v9>>
    BY <1>4 DEF Credential!Expire
  <2>2. v4' \in Credential!OAuth2s /\ v4'.access = "expired"
    BY <2>1, CredentialToken DEF Credential!OAuth2s
  <2>3. Credential!TypeOK'
    BY <2>1, <2>2 DEF CredentialInv, Credential!TypeOK
  <2> QED
    BY <2>1, <2>2, <2>3 DEF CredentialInv, Credential!AnsweredWithToken, Credential!CodeSentOnce,
                            Credential!ExpiredOnlyUnrefreshed
<1> QED
  BY <1>1, <1>2, <1>3, <1>4, ExchangeCodeKeeps, RefreshKeeps, SaveCredentialKeeps DEF Credential!Next

-----------------------------------------------------------------------------
(* Requests for credentials.                                               *)

AuthInv == Auth!TypeOK /\ Auth!RequestsHaveNoNewURI /\ Auth!StoredAsAnswered

(* The initial state of a configuration. *)
LEMMA AuthStart ==
  ASSUME Auth!Init
  PROVE  AuthInv
BY DEF AuthInv, Auth!Init, Auth!TypeOK, Auth!RequestsHaveNoNewURI, Auth!StoredAsAnswered

(* A scheme that is not copied has no endpoint for an authorization. *)
LEMMA OthersHaveNoURI ==
  ASSUME Auth!TypeOK, ~Auth!IsCopied
  PROVE  Auth!GenerateAuthURI = "error"
BY DEF Auth!IsCopied, Auth!IsOAuth, Auth!GenerateAuthURI

(* The request that is made of a configuration. *)
LEMMA RequestIsMade ==
  ASSUME Auth!TypeOK, Auth!GenerateAuthRequest
  PROVE  v2' \in {"copy", "copyOfExchanged", "error"} /\ UNCHANGED <<v1, v3, v4>>
<1>1. v1.raw \in Auth!Raws
  BY DEF Auth!TypeOK, Auth!Configs
<1>2. CASE Auth!IsCopied
  BY <1>2 DEF Auth!GenerateAuthRequest
<1>3. CASE ~Auth!IsCopied
  <2>1. Auth!GenerateAuthURI = "error"
    BY <1>3, OthersHaveNoURI
  <2>2. v1.raw \in {"uri", "noIds", "ids"} \/ ~Auth!HasOAuth2(v1.raw)
    BY <1>1 DEF Auth!Raws, Auth!HasOAuth2
  <2>3. v1.raw \in {"uri", "noIds", "ids"} => Auth!HasOAuth2(v1.raw)
    BY DEF Auth!HasOAuth2
  <2> QED
    BY <1>3, <2>1, <2>2, <2>3 DEF Auth!GenerateAuthRequest
<1> QED
  BY <1>2, <1>3

(* What is stored is what was answered. *)
LEMMA AnswerIsStored ==
  ASSUME Auth!TypeOK, Auth!ParseAndStoreAuthSesponse
  PROVE  v3' = v1.exchanged /\ UNCHANGED <<v1, v2, v4>>
<1>1. v1.scheme \in {"apiKey", "http"} => Auth!ExchangeAuthToken = v1.exchanged
  BY DEF Auth!ExchangeAuthToken
<1> QED
  BY <1>1 DEF Auth!ParseAndStoreAuthSesponse

(* The inductive invariant of requests for credentials. *)
LEMMA AuthInductive ==
  ASSUME AuthInv, Auth!Next
  PROVE  AuthInv'
<1>1. CASE Auth!GenerateAuthRequest
  BY <1>1, RequestIsMade DEF AuthInv, Auth!TypeOK, Auth!RequestsHaveNoNewURI, Auth!StoredAsAnswered
<1>2. CASE Auth!ParseAndStoreAuthSesponse
  <2>1. v1.exchanged \in Auth!Exchangeds
    BY DEF AuthInv, Auth!TypeOK, Auth!Configs
  <2> QED
    BY <1>2, <2>1, AnswerIsStored DEF AuthInv, Auth!TypeOK, Auth!RequestsHaveNoNewURI, Auth!StoredAsAnswered
<1>3. CASE UNCHANGED <<v1, v2, v3>> /\ v4' \in Auth!Answers
  BY <1>3 DEF AuthInv, Auth!TypeOK, Auth!RequestsHaveNoNewURI, Auth!StoredAsAnswered
<1>4. v4 \in Auth!Answers
  BY DEF AuthInv, Auth!TypeOK
<1> QED
  BY <1>1, <1>2, <1>3, <1>4 DEF Auth!Next, Auth!GetAuthResponse, Auth!RunProcessor, Auth!UserEvent

-----------------------------------------------------------------------------
(* Pools of buffers.                                                       *)

PoolInv ==
  /\ Pool!TypeOK /\ Pool!OneOwner /\ Pool!DirtIsLeft /\ Pool!OutputEndsWithOwn /\ Pool!BytesInBuffers

(* How the calls use their objects. *)
LEMMA UsesAre ==
  ASSUME NEW kind \in Pool!Kinds
  PROVE  /\ Pool!Uses[kind].pool \in Pool!Pools
         /\ Pool!Uses[kind].first \in {"append", "reset", "nothing"}
         /\ Pool!Uses[kind].then \in {"read", "alias", "rewrite", "leave"}
         /\ Pool!Uses[kind].first = "reset" => Pool!Uses[kind].pool = "builder"
         /\ Pool!Uses[kind].then \in {"read", "alias", "rewrite"} => Pool!Uses[kind].first = "append"
         /\ Pool!Uses[kind].then = "alias" => kind = "file" /\ Pool!Uses[kind].pool = "buffer"
         /\ kind # "none" /\ kind # "error"
BY DEF Pool!Kinds, Pool!Uses, Pool!Pools, Pool!EncodeContent, Pool!DecodeContent, Pool!MarshalJSON,
       Pool!GetCredentialKey, Pool!GenerateAuthEvent, Pool!ToJSON, Pool!saveOutputToState,
       Pool!appendArtifactsToLLMRequest, Pool!ConvertExamplesToText, Pool!AddSessionToMemory

(* The call that is none. *)
LEMMA NoCallIs ==
  /\ Pool!NoCall.id = 0 /\ Pool!NoCall.content = <<>>
  /\ \A x \in Pool!Calls : x # Pool!NoCall
BY DEF Pool!NoCall, Pool!Calls

(* What a call is made of. *)
LEMMA PoolCallIs ==
  ASSUME NEW x \in Pool!Calls
  PROVE  x.of \in Pool!Kinds /\ x.id \in 1 .. MaxObjects /\ x.pool \in Pool!Pools /\ x.content \in Seq(Pool!Kinds)
BY DEF Pool!Calls

(* A call. *)
LEMMA PoolCallType ==
  ASSUME NEW of \in Pool!Kinds, NEW id \in 1 .. MaxObjects, NEW pool \in Pool!Pools,
         NEW content \in Seq(Pool!Kinds), NEW x, x = [of |-> of, id |-> id, pool |-> pool, content |-> content]
  PROVE  x \in Pool!Calls /\ x.of = of /\ x.id = id /\ x.pool = pool /\ x.content = content
BY DEF Pool!Calls

(* An object. *)
LEMMA ObjectType ==
  ASSUME NEW id \in 1 .. MaxObjects, NEW pool \in Pool!Pools, NEW content \in Seq(Pool!Kinds),
         NEW x, x = [id |-> id, pool |-> pool, content |-> content]
  PROVE  x \in Pool!Objects /\ x.id = id /\ x.pool = pool /\ x.content = content
BY DEF Pool!Objects

(* What an object is made of. *)
LEMMA ObjectIs ==
  ASSUME NEW x \in Pool!Objects
  PROVE  x.id \in 1 .. MaxObjects /\ x.pool \in Pool!Pools /\ x.content \in Seq(Pool!Kinds)
BY DEF Pool!Objects

(* The initial state of the pools. *)
LEMMA PoolStart ==
  ASSUME Pool!Init
  PROVE  PoolInv
<1>1. /\ v1 = {} /\ v2 = 0 /\ v3 = [c \in Callers |-> Pool!NoCall] /\ v4 = Pool!NoOutput
      /\ v5 = [c \in Callers |-> 0]
  BY DEF Pool!Init
<1>2. v4 \in [of : Pool!Kinds \cup {"none"}, data : Seq(Pool!Kinds \cup {"error"})] /\ v4.of = "none"
  BY <1>1 DEF Pool!NoOutput
<1>3. v2 \in 0 .. MaxObjects /\ Pool!Lost \in Nat
  BY <1>1, PoolsAssumption DEF Pool!Lost
<1>4. Pool!TypeOK
  BY <1>1, <1>2, <1>3, NoCallIs DEF Pool!TypeOK
<1>5. Pool!OneOwner /\ Pool!OutputEndsWithOwn /\ Pool!BytesInBuffers
  BY <1>1, <1>2 DEF Pool!OneOwner, Pool!OutputEndsWithOwn, Pool!BytesInBuffers
<1>6. Pool!DirtIsLeft
  BY <1>1, NoCallIs DEF Pool!DirtIsLeft
<1> QED
  BY <1>4, <1>5, <1>6 DEF PoolInv

(* What an object may hold: what was not read back. *)
Clean(content) == \A i \in DOMAIN content : Pool!Uses[content[i]].then # "read"

(* A call takes an object that nobody else has. *)
LEMMA PoolTakes ==
  ASSUME PoolInv, NEW c \in Callers, v3[c] = Pool!NoCall, NEW next \in Pool!Calls,
         v3' = [v3 EXCEPT ![c] = next], v4' = Pool!NoOutput, v5' = [v5 EXCEPT ![c] = 0],
         v2' \in 0 .. MaxObjects, v2 <= v2', next.id <= v2', v1' \subseteq v1,
         next.pool = Pool!Uses[next.of].pool, Clean(next.content),
         \A x \in v1' : x.id # next.id,
         \A d \in Callers : v3[d].id # next.id,
         \A d \in Callers : v5[d] = next.id => next.pool = "buffer" /\ Pool!HasFile(next.content)
  PROVE  PoolInv'
<1>t. /\ v1 \subseteq Pool!Objects /\ v2 \in 0 .. MaxObjects /\ v3 \in [Callers -> Pool!Calls \cup {Pool!NoCall}]
      /\ v5 \in [Callers -> 0 .. Pool!Lost] /\ Pool!Lost \in Nat
  BY PoolsAssumption DEF PoolInv, Pool!TypeOK, Pool!Lost
<1>1. /\ v3'[c] = next /\ v5'[c] = 0
      /\ \A d \in Callers : d # c => v3'[d] = v3[d] /\ v5'[d] = v5[d]
  BY <1>t
<1>2. v4' \in [of : Pool!Kinds \cup {"none"}, data : Seq(Pool!Kinds \cup {"error"})] /\ v4'.of = "none"
  BY DEF Pool!NoOutput
<1>3. Pool!TypeOK'
  <2>1. v3' \in [Callers -> Pool!Calls \cup {Pool!NoCall}] /\ v5' \in [Callers -> 0 .. Pool!Lost]
    BY <1>t
  <2>2. \A x \in v1' : x.id <= v2' /\ Len(x.content) <= MaxContent
    <3>1. ASSUME NEW x \in v1'
          PROVE  x.id <= v2' /\ Len(x.content) <= MaxContent
      <4>1. x \in v1 /\ x.id \in Nat
        BY <1>t, ObjectIs
      <4> QED
        BY <1>t, <4>1 DEF PoolInv, Pool!TypeOK
    <3> QED
      BY <3>1
  <2>3. \A d \in Callers : v3'[d].id <= v2' /\ (v5'[d] <= v2' \/ v5'[d] = Pool!Lost)
    <3>1. ASSUME NEW d \in Callers
          PROVE  v3'[d].id <= v2' /\ (v5'[d] <= v2' \/ v5'[d] = Pool!Lost)
      <4>1. v3[d].id \in Nat /\ v5[d] \in Nat /\ v3[d].id <= v2 /\ (v5[d] <= v2 \/ v5[d] = Pool!Lost)
        BY <1>t, NoCallIs, PoolCallIs DEF PoolInv, Pool!TypeOK
      <4> QED
        BY <1>t, <1>1, <4>1
    <3> QED
      BY <3>1
  <2> QED
    BY <1>t, <1>2, <2>1, <2>2, <2>3 DEF Pool!TypeOK, Pool!Lost
<1>4. Pool!OneOwner'
  BY <1>1 DEF PoolInv, Pool!OneOwner
<1>5. Pool!DirtIsLeft'
  BY <1>1 DEF PoolInv, Pool!DirtIsLeft, Clean
<1>6. Pool!BytesInBuffers'
  <2>1. \A d \in Callers : v3'[d] # Pool!NoCall => v3'[d].pool = Pool!Uses[v3'[d].of].pool
    BY <1>1 DEF PoolInv, Pool!BytesInBuffers
  <2>2. ASSUME NEW d \in Callers, v5'[d] \notin {0, Pool!Lost}
        PROVE  /\ \A x \in v1' : x.id = v5'[d] => x.pool = "buffer" /\ Pool!HasFile(x.content)
               /\ \A e \in Callers : v3'[e].id = v5'[d] => v3'[e].pool = "buffer" /\ Pool!HasFile(v3'[e].content)
    <3>1. d # c /\ v5'[d] = v5[d]
      BY <1>1, <2>2
    <3> QED
      BY <1>1, <2>2, <3>1 DEF PoolInv, Pool!BytesInBuffers
  <2> QED
    BY <2>1, <2>2 DEF Pool!BytesInBuffers, Pool!Lost
<1>7. Pool!OutputEndsWithOwn'
  BY <1>2, <1>6 DEF Pool!OutputEndsWithOwn, Pool!BytesInBuffers
<1> QED
  BY <1>3, <1>4, <1>5, <1>6, <1>7 DEF PoolInv

(* A call that ends puts its object back, or loses it. *)
LEMMA PoolGives ==
  ASSUME PoolInv, NEW c \in Callers, v3[c] # Pool!NoCall,
         v3' = [v3 EXCEPT ![c] = Pool!NoCall], v2' = v2,
         v4' \in [of : Pool!Kinds \cup {"none"}, data : Seq(Pool!Kinds \cup {"error"})],
         v4'.data # <<"error">> /\ Pool!Uses[v4'.of].first # "nothing" => v4'.data[Len(v4'.data)] = v4'.of,
         NEW put \in SUBSET Pool!Objects, v1' = v1 \cup put, \A x, y \in put : x = y,
         \A x \in put : /\ x.id = v3[c].id /\ x.pool = v3[c].pool /\ Len(x.content) <= MaxContent
                        /\ Clean(x.content),
         v5' \in [Callers -> 0 .. Pool!Lost],
         \A d \in Callers : v5'[d] \in {0, Pool!Lost, v3[c].id, v5[d]},
         \A d \in Callers : v5'[d] = v3[c].id =>
           \A x \in put : x.pool = "buffer" /\ Pool!HasFile(x.content)
  PROVE  PoolInv'
<1>t. /\ v1 \subseteq Pool!Objects /\ v2 \in 0 .. MaxObjects /\ v3 \in [Callers -> Pool!Calls \cup {Pool!NoCall}]
      /\ v5 \in [Callers -> 0 .. Pool!Lost] /\ Pool!Lost \in Nat
  BY PoolsAssumption DEF PoolInv, Pool!TypeOK, Pool!Lost
<1>1. v3'[c] = Pool!NoCall /\ \A d \in Callers : d # c => v3'[d] = v3[d]
  BY <1>t
<1>2. v3[c].id \in 1 .. MaxObjects /\ v3[c].id <= v2 /\ Pool!NoCall.id = 0 /\ 0 <= v2
  BY <1>t, PoolCallIs, NoCallIs DEF PoolInv, Pool!TypeOK
<1>3. Pool!TypeOK'
  <2>1. v3' \in [Callers -> Pool!Calls \cup {Pool!NoCall}] /\ v1' \subseteq Pool!Objects
    BY <1>t
  <2>2. \A x \in v1' : x.id <= v2' /\ Len(x.content) <= MaxContent
    BY <1>2 DEF PoolInv, Pool!TypeOK
  <2>3. \A d \in Callers : v3'[d].id <= v2' /\ (v5'[d] <= v2' \/ v5'[d] = Pool!Lost)
    BY <1>t, <1>1, <1>2 DEF PoolInv, Pool!TypeOK
  <2> QED
    BY <1>t, <2>1, <2>2, <2>3 DEF Pool!TypeOK, Pool!Lost
<1>4. Pool!OneOwner'
  <2>1. \A x, y \in v1' : x.id = y.id => x = y
    BY DEF PoolInv, Pool!OneOwner
  <2>2. \A d \in Callers : v3'[d] # Pool!NoCall =>
          /\ d # c /\ v3'[d] = v3[d]
          /\ \A x \in v1' : x.id # v3'[d].id
          /\ \A e \in Callers : d # e => v3'[d].id # v3'[e].id
    <3>1. ASSUME NEW d \in Callers, v3'[d] # Pool!NoCall
          PROVE  /\ d # c /\ v3'[d] = v3[d]
                 /\ \A x \in v1' : x.id # v3'[d].id
                 /\ \A e \in Callers : d # e => v3'[d].id # v3'[e].id
      <4>1. d # c /\ v3'[d] = v3[d] /\ v3[d].id # 0
        BY <1>t, <1>1, <3>1, PoolCallIs
      <4>2. \A x \in v1' : x.id # v3[d].id
        BY <3>1, <4>1 DEF PoolInv, Pool!OneOwner
      <4>3. \A e \in Callers : d # e => v3[d].id # v3'[e].id
        BY <1>1, <1>2, <3>1, <4>1 DEF PoolInv, Pool!OneOwner
      <4> QED
        BY <4>1, <4>2, <4>3
    <3> QED
      BY <3>1
  <2> QED
    BY <2>1, <2>2 DEF Pool!OneOwner, Pool!NoCall
<1>5. Pool!DirtIsLeft'
  <2>1. ASSUME NEW x \in v1' \cup {v3'[d] : d \in Callers}
        PROVE  Clean(x.content)
    <3>1. CASE x \in v1
      BY <3>1 DEF PoolInv, Pool!DirtIsLeft, Clean
    <3>2. CASE x \in put
      BY <3>2
    <3>3. ASSUME NEW d \in Callers, x = v3'[d]
          PROVE  Clean(x.content)
      BY <1>1, <3>3, NoCallIs, SMTT(40) DEF PoolInv, Pool!DirtIsLeft, Clean
    <3> QED
      BY <2>1, <3>1, <3>2, <3>3
  <2> QED
    BY <2>1 DEF Pool!DirtIsLeft, Clean
<1>6. Pool!BytesInBuffers'
  <2>1. \A d \in Callers : v3'[d] # Pool!NoCall => v3'[d].pool = Pool!Uses[v3'[d].of].pool
    BY <1>1 DEF PoolInv, Pool!BytesInBuffers
  <2>2. ASSUME NEW d \in Callers, v5'[d] \notin {0, Pool!Lost}
        PROVE  /\ \A x \in v1' : x.id = v5'[d] => x.pool = "buffer" /\ Pool!HasFile(x.content)
               /\ \A e \in Callers : v3'[e].id = v5'[d] => v3'[e].pool = "buffer" /\ Pool!HasFile(v3'[e].content)
    <3>1. CASE v5'[d] = v3[c].id
      <4>1. \A x \in v1 : x.id # v5'[d]
        BY <3>1 DEF PoolInv, Pool!OneOwner
      <4>2. \A e \in Callers : v3'[e].id # v5'[d]
        BY <1>1, <1>2, <2>2, <3>1 DEF PoolInv, Pool!OneOwner
      <4> QED
        BY <3>1, <4>1, <4>2
    <3>2. CASE v5'[d] # v3[c].id
      <4>1. v5'[d] = v5[d]
        BY <2>2, <3>2
      <4>2. \A x \in v1' : x.id = v5'[d] => x \in v1
        BY <3>2
      <4>3. \A e \in Callers : v3'[e].id = v5'[d] => e # c /\ v3'[e] = v3[e]
        BY <1>1, <1>2, <2>2
      <4> QED
        BY <2>2, <4>1, <4>2, <4>3 DEF PoolInv, Pool!BytesInBuffers
    <3> QED
      BY <3>1, <3>2
  <2> QED
    BY <2>1, <2>2 DEF Pool!BytesInBuffers, Pool!Lost
<1>7. Pool!OutputEndsWithOwn'
  BY <1>6 DEF Pool!OutputEndsWithOwn, Pool!BytesInBuffers
<1> QED
  BY <1>3, <1>4, <1>5, <1>6, <1>7 DEF PoolInv

(* What a call has in its object when it is done with writing. *)
LEMMA HeldIs ==
  ASSUME PoolInv, NEW c \in Callers, v3[c] # Pool!NoCall,
         NEW held, held = Pool!Held(c), NEW of, of = v3[c].of
  PROVE  /\ of \in Pool!Kinds /\ held \in Seq(Pool!Kinds)
         /\ Pool!Uses[of].then # "read" => Clean(held)
         /\ Pool!Uses[of].first # "nothing" => Len(held) >= 1 /\ held[Len(held)] = of
         /\ v3[c].pool = "buffer" /\ Pool!HasFile(v3[c].content) =>
              /\ Pool!HasFile(held)
              /\ Pool!Uses[of].first = "append" => Len(held) > 1
<1>1. PICK x \in Pool!Calls : x = v3[c]
  BY DEF PoolInv, Pool!TypeOK
<1>2. of \in Pool!Kinds /\ x.content \in Seq(Pool!Kinds) /\ x.pool = Pool!Uses[of].pool
  BY <1>1, PoolCallIs DEF PoolInv, Pool!BytesInBuffers
<1>3. Clean(x.content)
  BY <1>1 DEF PoolInv, Pool!DirtIsLeft, Clean
<1>4. CASE Pool!Uses[of].first = "append"
  <2>1. held = Append(x.content, of)
    BY <1>1, <1>4 DEF Pool!Held
  <2>2. /\ held \in Seq(Pool!Kinds) /\ Len(held) = Len(x.content) + 1 /\ Len(x.content) \in Nat
        /\ held[Len(held)] = of
        /\ \A i \in DOMAIN x.content : i \in DOMAIN held /\ held[i] = x.content[i]
        /\ \A i \in DOMAIN held : held[i] = of \/ (i \in DOMAIN x.content /\ held[i] = x.content[i])
    BY <1>2, <2>1
  <2>3. Pool!Uses[of].then # "read" => Clean(held)
    BY <1>3, <2>2 DEF Clean
  <2>4. Pool!HasFile(x.content) => Pool!HasFile(held) /\ Len(x.content) # 0
    BY <1>2, <2>2 DEF Pool!HasFile
  <2> QED
    BY <1>1, <1>2, <2>2, <2>3, <2>4
<1>5. CASE Pool!Uses[of].first = "reset"
  <2>1. held = <<of>> /\ Pool!Uses[of].pool = "builder"
    BY <1>1, <1>2, <1>5, UsesAre DEF Pool!Held
  <2>2. Pool!Uses[of].then # "read" => Clean(held)
    BY <2>1 DEF Clean
  <2> QED
    BY <1>1, <1>2, <1>5, <2>1, <2>2
<1>6. CASE Pool!Uses[of].first = "nothing"
  <2>1. held = x.content
    BY <1>1, <1>6 DEF Pool!Held
  <2> QED
    BY <1>1, <1>2, <1>3, <1>6, <2>1
<1> QED
  BY <1>2, <1>4, <1>5, <1>6, UsesAre

(* A call that takes a new object, or one of the pool. *)
LEMMA GetKeeps ==
  ASSUME PoolInv, NEW c \in Callers, NEW kind \in Pool!Kinds, Pool!Get(c, kind)
  PROVE  PoolInv'
<1>0. v3[c] = Pool!NoCall /\ v4' = Pool!NoOutput /\ v5' = [v5 EXCEPT ![c] = 0]
  BY DEF Pool!Get
<1>p. PICK pool \in Pool!Pools : pool = Pool!Uses[kind].pool
  BY UsesAre
<1>t. /\ v1 \subseteq Pool!Objects /\ v2 \in 0 .. MaxObjects /\ MaxObjects \in Nat
      /\ \A x \in v1 : x.id <= v2
      /\ \A d \in Callers : v3[d].id <= v2 /\ (v5[d] <= v2 \/ v5[d] = Pool!Lost)
      /\ v5 \in [Callers -> 0 .. Pool!Lost] /\ Pool!Lost = MaxObjects + 1
  BY PoolsAssumption DEF PoolInv, Pool!TypeOK, Pool!Lost
<1>1. CASE /\ v2 < MaxObjects /\ v2' = v2 + 1 /\ UNCHANGED v1
           /\ v3' = [v3 EXCEPT ![c] = [of |-> kind, id |-> v2', pool |-> Pool!Uses[kind].pool, content |-> <<>>]]
  <2>1. PICK id \in 1 .. MaxObjects : id = v2 + 1
    BY <1>t, <1>1
  <2>e. <<>> \in Seq(Pool!Kinds)
    OBVIOUS
  <2>3. PICK empty \in Seq(Pool!Kinds) : empty = <<>>
    BY <2>e
  <2>2. PICK next : next = [of |-> kind, id |-> id, pool |-> pool, content |-> empty]
    OBVIOUS
  <2>4. next \in Pool!Calls /\ next.of = kind /\ next.id = id /\ next.pool = pool /\ next.content = empty
    BY <2>2, PoolCallType
  <2>5. v3' = [v3 EXCEPT ![c] = next]
    BY <1>1, <1>p, <2>1, <2>2, <2>3
  <2>6. Clean(next.content)
    BY <2>3, <2>4 DEF Clean
  <2>7. (\A x \in v1' : x.id # id) /\ (\A d \in Callers : v3[d].id # id /\ v5[d] # id)
    <3>1. \A x \in v1 : x.id \in Nat
      BY <1>t, ObjectIs
    <3>2. \A d \in Callers : v3[d].id \in Nat
      BY PoolCallIs, NoCallIs DEF PoolInv, Pool!TypeOK
    <3> QED
      BY <1>t, <1>1, <2>1, <3>1, <3>2
  <2>8. v2' \in 0 .. MaxObjects /\ v2 <= v2' /\ id <= v2' /\ v1' \subseteq v1
    BY <1>t, <1>1, <2>1
  <2> QED
    BY <1>0, <1>p, <2>4, <2>5, <2>6, <2>7, <2>8, PoolTakes
<1>2. ASSUME NEW object \in v1, object.pool = Pool!Uses[kind].pool, v1' = v1 \ {object}, UNCHANGED v2,
             v3' = [v3 EXCEPT ![c] = [of |-> kind, id |-> object.id, pool |-> object.pool,
                                      content |-> object.content]]
      PROVE  PoolInv'
  <2>1. object \in Pool!Objects /\ object.id \in 1 .. MaxObjects /\ object.content \in Seq(Pool!Kinds)
    BY <1>t, ObjectIs
  <2>2. PICK next : next = [of |-> kind, id |-> object.id, pool |-> pool, content |-> object.content]
    OBVIOUS
  <2>4. /\ next \in Pool!Calls /\ next.of = kind /\ next.id = object.id /\ next.pool = pool
        /\ next.content = object.content
    BY <2>1, <2>2, PoolCallType
  <2>5. v3' = [v3 EXCEPT ![c] = next]
    BY <1>p, <1>2, <2>2
  <2>6. Clean(next.content)
    BY <2>4 DEF PoolInv, Pool!DirtIsLeft, Clean
  <2>7. \A x \in v1' : x.id # object.id
    BY <1>2 DEF PoolInv, Pool!OneOwner
  <2>8. \A d \in Callers : v3[d].id # object.id
    BY <2>1, NoCallIs DEF PoolInv, Pool!OneOwner
  <2>9. \A d \in Callers : v5[d] = object.id => pool = "buffer" /\ Pool!HasFile(object.content)
    BY <1>p, <1>t, <1>2, <2>1 DEF PoolInv, Pool!BytesInBuffers
  <2>10. v2' \in 0 .. MaxObjects /\ v2 <= v2' /\ object.id <= v2' /\ v1' \subseteq v1
    BY <1>t, <1>2
  <2> QED
    BY <1>0, <1>p, <2>4, <2>5, <2>6, <2>7, <2>8, <2>9, <2>10, PoolTakes
<1> QED
  BY <1>1, <1>2 DEF Pool!Get

(* A call that has written, read and puts back. *)
LEMMA UseKeeps ==
  ASSUME PoolInv, NEW c \in Callers, Pool!Use(c)
  PROVE  PoolInv'
<1>1. PICK held : held = Pool!Held(c)
  OBVIOUS
<1>2. PICK of : of = v3[c].of
  OBVIOUS
<1>3. PICK id : id = v3[c].id
  OBVIOUS
<1>4. PICK pool : pool = v3[c].pool
  OBVIOUS
<1>0. /\ v3[c] # Pool!NoCall /\ Len(held) <= MaxContent
      /\ v4' = [of |-> of, data |-> IF Pool!Uses[of].then = "read" /\ Len(held) > 1 THEN <<"error">> ELSE held]
      /\ v3' = [v3 EXCEPT ![c] = Pool!NoCall] /\ v2' = v2
  BY <1>1, <1>2 DEF Pool!Use
<1>t. /\ v3[c] \in Pool!Calls /\ id \in 1 .. MaxObjects /\ pool \in Pool!Pools
      /\ v5 \in [Callers -> 0 .. Pool!Lost] /\ Pool!Lost = MaxObjects + 1 /\ MaxObjects \in Nat
  BY <1>0, <1>3, <1>4, PoolsAssumption, PoolCallIs DEF PoolInv, Pool!TypeOK, Pool!Lost
<1>h. /\ of \in Pool!Kinds /\ held \in Seq(Pool!Kinds)
      /\ Pool!Uses[of].then # "read" => Clean(held)
      /\ Pool!Uses[of].first # "nothing" => Len(held) >= 1 /\ held[Len(held)] = of
      /\ pool = "buffer" /\ Pool!HasFile(v3[c].content) =>
           Pool!HasFile(held) /\ (Pool!Uses[of].first = "append" => Len(held) > 1)
  BY <1>0, <1>1, <1>2, <1>4, HeldIs
<1>u. /\ Pool!Uses[of].first \in {"append", "reset", "nothing"}
      /\ Pool!Uses[of].then \in {"read", "alias", "rewrite", "leave"}
      /\ Pool!Uses[of].then \in {"read", "alias", "rewrite"} => Pool!Uses[of].first = "append"
      /\ Pool!Uses[of].then = "alias" => of = "file" /\ Pool!Uses[of].pool = "buffer"
  BY <1>h, UsesAre
<1>b. \A d \in Callers : v5[d] = id => pool = "buffer" /\ Pool!HasFile(v3[c].content)
  BY <1>t, <1>3, <1>4 DEF PoolInv, Pool!BytesInBuffers
<1>o. /\ v4' \in [of : Pool!Kinds \cup {"none"}, data : Seq(Pool!Kinds \cup {"error"})]
      /\ v4'.data # <<"error">> /\ Pool!Uses[v4'.of].first # "nothing" => v4'.data[Len(v4'.data)] = v4'.of
  <2>1. PICK data : data = IF Pool!Uses[of].then = "read" /\ Len(held) > 1 THEN <<"error">> ELSE held
    OBVIOUS
  <2>2. v4' = [of |-> of, data |-> data]
    BY <1>0, <2>1
  <2>3. <<"error">> \in Seq(Pool!Kinds \cup {"error"}) /\ held \in Seq(Pool!Kinds \cup {"error"})
    BY <1>h
  <2>4. data \in Seq(Pool!Kinds \cup {"error"})
    BY <2>1, <2>3
  <2>5. data = <<"error">> \/ data = held
    BY <2>1
  <2> QED
    BY <1>h, <2>2, <2>4, <2>5
<1>p. ASSUME NEW content \in Seq(Pool!Kinds), Len(content) <= MaxContent, Clean(content),
             v1' = v1 \cup {[id |-> id, pool |-> pool, content |-> content]},
             v5' \in [Callers -> 0 .. Pool!Lost],
             \A d \in Callers : v5'[d] \in {0, Pool!Lost, id, v5[d]},
             \A d \in Callers : v5'[d] = id => pool = "buffer" /\ Pool!HasFile(content)
      PROVE  PoolInv'
  <2>1. PICK x : x = [id |-> id, pool |-> pool, content |-> content]
    OBVIOUS
  <2>2. x \in Pool!Objects /\ x.id = id /\ x.pool = pool /\ x.content = content
    BY <1>t, <2>1, ObjectType
  <2>3. PICK put \in SUBSET Pool!Objects : put = {x}
    BY <2>2
  <2>4. /\ v1' = v1 \cup put /\ \A y, z \in put : y = z
        /\ \A y \in put : /\ y.id = v3[c].id /\ y.pool = v3[c].pool /\ Len(y.content) <= MaxContent
                          /\ Clean(y.content)
    BY <1>3, <1>4, <1>p, <2>1, <2>2, <2>3
  <2>5. \A d \in Callers : v5'[d] \in {0, Pool!Lost, v3[c].id, v5[d]}
    BY <1>3, <1>p
  <2>6. \A d \in Callers : v5'[d] = v3[c].id => \A y \in put : y.pool = "buffer" /\ Pool!HasFile(y.content)
    BY <1>3, <1>p, <2>2, <2>3
  <2> QED
    BY <1>0, <1>o, <1>p, <2>4, <2>5, <2>6, PoolGives
<1>5. CASE Pool!Uses[of].then = "read"
  <2>1. /\ v5' = [v5 EXCEPT ![c] = 0]
        /\ IF Len(held) = 1 THEN v1' = v1 \cup {[id |-> id, pool |-> pool, content |-> <<>>]} ELSE v1' = v1
    BY <1>1, <1>2, <1>3, <1>4, <1>5 DEF Pool!Use, Pool!Put
  <2>2. /\ v5' \in [Callers -> 0 .. Pool!Lost] /\ \A d \in Callers : v5'[d] \in {0, v5[d]}
    BY <1>t, <2>1
  <2>3. CASE Len(held) = 1
    <3>1. \A d \in Callers : v5'[d] # id
      BY <1>b, <1>h, <1>t, <1>u, <1>5, <2>2, <2>3
    <3>2. <<>> \in Seq(Pool!Kinds) /\ Len(<<>>) <= MaxContent /\ Clean(<<>>)
      BY PoolsAssumption DEF Clean
    <3> QED
      BY <1>p, <2>1, <2>2, <2>3, <3>1, <3>2
  <2>4. CASE Len(held) # 1
    <3>1. PICK put \in SUBSET Pool!Objects : put = {}
      OBVIOUS
    <3>2. v1' = v1 \cup put
      BY <2>1, <2>4, <3>1
    <3> QED
      BY <1>0, <1>o, <2>2, <3>1, <3>2, PoolGives
  <2> QED
    BY <2>3, <2>4
<1>6. CASE Pool!Uses[of].then = "rewrite"
  <2>1. /\ v1' = v1 \cup {[id |-> id, pool |-> pool, content |-> <<of>>]}
        /\ v5' = [d \in Callers |-> IF v5[d] = id THEN Pool!Lost ELSE v5[d]]
    BY <1>1, <1>2, <1>3, <1>4, <1>6 DEF Pool!Use, Pool!Put, Pool!Overwrite
  <2>2. /\ v5' \in [Callers -> 0 .. Pool!Lost] /\ \A d \in Callers : v5'[d] \in {Pool!Lost, v5[d]} /\ v5'[d] # id
    BY <1>t, <2>1
  <2>3. <<of>> \in Seq(Pool!Kinds) /\ Len(<<of>>) <= MaxContent
    BY <1>0, <1>h, <1>u, <1>6, PoolsAssumption
  <2>4. Clean(<<of>>)
    BY <1>6 DEF Clean
  <2> QED
    BY <1>p, <2>1, <2>2, <2>3, <2>4
<1>7. CASE Pool!Uses[of].then \in {"leave", "alias"}
  <2>1. PICK alias \in {0, id} : alias = IF Pool!Uses[of].then = "alias" THEN id ELSE 0
    OBVIOUS
  <2>2. /\ v1' = v1 \cup {[id |-> id, pool |-> pool, content |-> held]}
        /\ v5' = [v5 EXCEPT ![c] = alias]
    BY <1>1, <1>2, <1>3, <1>4, <1>7, <2>1 DEF Pool!Use, Pool!Put
  <2>3. v5' \in [Callers -> 0 .. Pool!Lost] /\ \A d \in Callers : v5'[d] \in {0, id, v5[d]}
    BY <1>t, <2>1, <2>2
  <2>4. ASSUME NEW d \in Callers, v5'[d] = id
        PROVE  pool = "buffer" /\ Pool!HasFile(held)
    <3>1. CASE v5[d] = id
      BY <1>b, <1>h, <3>1
    <3>2. CASE v5[d] # id
      <4>1. Pool!Uses[of].then = "alias"
        BY <1>t, <2>1, <2>2, <2>4, <3>2
      <4>2. Len(held) >= 1 /\ held[Len(held)] = "file"
        BY <1>h, <1>u, <4>1
      <4>3. Len(held) \in DOMAIN held
        BY <1>h, <4>2
      <4>4. pool = Pool!Uses[of].pool
        BY <1>0, <1>2, <1>4 DEF PoolInv, Pool!BytesInBuffers
      <4> QED
        BY <1>u, <4>1, <4>2, <4>3, <4>4 DEF Pool!HasFile
    <3> QED
      BY <3>1, <3>2
  <2>5. Clean(held)
    BY <1>h, <1>7
  <2> QED
    BY <1>0, <1>h, <1>p, <2>2, <2>3, <2>4, <2>5
<1> QED
  BY <1>u, <1>5, <1>6, <1>7

(* A call that fails loses its object. *)
LEMMA FailKeeps ==
  ASSUME PoolInv, NEW c \in Callers, Pool!Fail(c)
  PROVE  PoolInv'
<1>1. /\ v3[c] # Pool!NoCall /\ v3' = [v3 EXCEPT ![c] = Pool!NoCall] /\ UNCHANGED <<v1, v2, v5>>
      /\ v4' = [of |-> v3[c].of, data |-> <<"error">>]
  BY DEF Pool!Fail
<1>2. v3[c].of \in Pool!Kinds
  BY <1>1, PoolCallIs DEF PoolInv, Pool!TypeOK
<1>3. /\ v4' \in [of : Pool!Kinds \cup {"none"}, data : Seq(Pool!Kinds \cup {"error"})]
      /\ v4'.data = <<"error">>
  <2>1. <<"error">> \in Seq(Pool!Kinds \cup {"error"})
    OBVIOUS
  <2> QED
    BY <1>1, <1>2, <2>1
<1>4. PICK put \in SUBSET Pool!Objects : put = {}
  OBVIOUS
<1>5. v1' = v1 \cup put /\ v5' \in [Callers -> 0 .. Pool!Lost]
  BY <1>1, <1>4 DEF PoolInv, Pool!TypeOK
<1>6. \A d \in Callers : v5'[d] \in {0, Pool!Lost, v3[c].id, v5[d]}
  BY <1>1
<1> QED
  BY <1>1, <1>3, <1>4, <1>5, <1>6, PoolGives

(* The inductive invariant of the pools. *)
LEMMA PoolInductive ==
  ASSUME PoolInv, Pool!Next
  PROVE  PoolInv'
BY GetKeeps, UseKeeps, FailKeeps DEF Pool!Next

-----------------------------------------------------------------------------
(* Sessions.                                                               *)

SessionInv ==
  /\ Session!TypeOK /\ Session!Numbered /\ Session!CopiesAreSubsequences /\ Session!SharedStateIsCurrent

(* What no session is. *)
LEMMA NoSessionIs ==
  /\ Session!NoSession.born = 0 /\ Session!NoSession.events = <<>>
  /\ \A x \in Session!Copies : x # Session!NoSession
BY SessionsAssumption DEF Session!NoSession, Session!Copies, Session!SessionOf

(* What a copy of a session is made of. *)
LEMMA CopyIs ==
  ASSUME NEW x \in Session!Copies
  PROVE  /\ x.key \in Session!Keys /\ x.born \in 1 .. MaxSessions /\ x.events \in Seq(Session!Events)
         /\ x.app \in 0 .. MaxEvents /\ x.user \in 0 .. MaxEvents
         /\ x = Session!SessionOf(x.key, x.born, x.events, x.app, x.user)
BY DEF Session!Copies, Session!SessionOf

(* A copy. *)
LEMMA CopyType ==
  ASSUME NEW key \in Session!Keys, NEW born \in 1 .. MaxSessions, NEW events \in Seq(Session!Events),
         NEW app \in 0 .. MaxEvents, NEW user \in 0 .. MaxEvents,
         NEW x, x = Session!SessionOf(key, born, events, app, user)
  PROVE  x \in Session!Copies /\ x.key = key /\ x.born = born /\ x.events = events
BY DEF Session!Copies, Session!SessionOf

(* A new session, as it is stored, listed and copied. *)
LEMMA NewSession ==
  ASSUME NEW key \in Session!Keys, NEW born \in 1 .. MaxSessions, Session!TypeOK
  PROVE  \E x, y \in Session!Copies :
           /\ x = Session!SessionOf(key, born, <<>>, 0, 0)
           /\ y = Session!Merged(x)
           /\ x.key = key /\ x.born = born /\ x.events = <<>>
           /\ y.key = key /\ y.born = born /\ y.events = <<>>
<1>e. <<>> \in Seq(Session!Events)
  OBVIOUS
<1>1. PICK empty \in Seq(Session!Events) : empty = <<>>
  BY <1>e
<1>z. 0 \in 0 .. MaxEvents
  BY SessionsAssumption
<1>2. PICK zero \in 0 .. MaxEvents : zero = 0
  BY <1>z
<1>3. PICK x : x = Session!SessionOf(key, born, empty, zero, zero)
  OBVIOUS
<1>4. x \in Session!Copies /\ x.key = key /\ x.born = born /\ x.events = empty
  BY <1>3, CopyType
<1>5. v2 \in 0 .. MaxEvents /\ v3[key[1]] \in 0 .. MaxEvents
  <2>1. key[1] \in Users
    BY DEF Session!Keys
  <2>2. v5 \in Nat /\ v5 <= MaxEvents /\ v2 \in 0 .. v5 /\ v3[key[1]] \in 0 .. v5
    BY <2>1, SessionsAssumption DEF Session!TypeOK
  <2> QED
    BY <2>2, SessionsAssumption
<1>6. PICK app \in 0 .. MaxEvents, user \in 0 .. MaxEvents : app = v2 /\ user = v3[key[1]]
  BY <1>5
<1>7. PICK y : y = Session!SessionOf(key, born, empty, app, user)
  OBVIOUS
<1>8. y \in Session!Copies /\ y.key = key /\ y.born = born /\ y.events = empty
  BY <1>7, CopyType
<1>9. x = Session!SessionOf(key, born, <<>>, 0, 0)
  BY <1>1, <1>2, <1>3
<1>10. y = Session!Merged(x)
  BY <1>4, <1>6, <1>7 DEF Session!Merged
<1> QED
  BY <1>1, <1>4, <1>8, <1>9, <1>10

(* A copy with other events. *)
LEMMA CopyWith ==
  ASSUME NEW x \in Session!Copies, NEW events \in Seq(Session!Events)
  PROVE  \E y \in Session!Copies :
           y = [x EXCEPT !.events = events] /\ y.key = x.key /\ y.born = x.born /\ y.events = events
<1>1. PICK key \in Session!Keys, born \in 1 .. MaxSessions, app \in 0 .. MaxEvents, user \in 0 .. MaxEvents :
        key = x.key /\ born = x.born /\ app = x.app /\ user = x.user
  BY CopyIs
<1>2. PICK y : y = Session!SessionOf(key, born, events, app, user)
  OBVIOUS
<1>3. y \in Session!Copies /\ y.key = key /\ y.born = born /\ y.events = events
  BY <1>2, CopyType
<1>4. [x EXCEPT !.events = events] = Session!SessionOf(key, born, events, app, user)
  BY <1>1, CopyIs DEF Session!SessionOf
<1> QED
  BY <1>1, <1>2, <1>3, <1>4

(* Event e, with number n, follows the events of es in new. *)
Follows(es, e, n, new) ==
  /\ Session!InOrder(new) /\ \A i \in DOMAIN new : new[i].n <= n
  /\ \A i \in DOMAIN new : new[i] = e \/ (i \in DOMAIN es /\ new[i] = es[i])
  /\ \A i \in DOMAIN es : i \in DOMAIN new /\ new[i] = es[i]
  /\ \E i \in DOMAIN new : new[i] = e

(* An event that is appended follows the others. *)
LEMMA EventsGrow ==
  ASSUME NEW es \in Seq(Session!Events), NEW n \in Nat, NEW e \in Session!Events, e.n = n + 1,
         Session!InOrder(es), \A i \in DOMAIN es : es[i].n <= n, NEW new, new = Append(es, e)
  PROVE  new \in Seq(Session!Events) /\ Follows(es, e, n + 1, new)
<1>1. /\ new \in Seq(Session!Events) /\ Len(new) = Len(es) + 1 /\ Len(es) \in Nat
      /\ \A i \in DOMAIN new : IF i = Len(new) THEN new[i] = e ELSE i \in DOMAIN es /\ new[i] = es[i]
      /\ \A i \in DOMAIN es : i \in DOMAIN new /\ new[i] = es[i] /\ i < Len(new)
      /\ Len(new) \in DOMAIN new /\ new[Len(new)] = e
  OBVIOUS
<1>2. \A i \in DOMAIN es : es[i].n \in Nat
  <2>1. \A x \in Session!Events : x.n \in Nat
    BY DEF Session!Events
  <2> QED
    BY <2>1, ElementIs
<1>3. Session!InOrder(new)
  <2>1. ASSUME NEW i \in DOMAIN new, NEW j \in DOMAIN new, i < j
        PROVE  new[i].n < new[j].n
    <3>1. i \in DOMAIN es /\ new[i] = es[i] /\ es[i].n \in Nat /\ es[i].n <= n
      BY <1>1, <1>2, <2>1
    <3>2. CASE j = Len(new)
      BY <1>1, <3>1, <3>2
    <3>3. CASE j # Len(new)
      BY <1>1, <2>1, <3>1, <3>3 DEF Session!InOrder
    <3> QED
      BY <3>2, <3>3
  <2> QED
    BY <2>1 DEF Session!InOrder
<1>4. \A i \in DOMAIN new : new[i].n <= n + 1
  BY <1>1, <1>2
<1> QED
  BY <1>1, <1>3, <1>4 DEF Follows

(* The initial state of the sessions. *)
LEMMA SessionStart ==
  ASSUME Session!Init
  PROVE  SessionInv
<1>1. /\ v1 = [k \in Session!Keys |-> Session!NoSession] /\ v4 = [c \in Callers |-> Session!NoSession]
      /\ v2 = 0 /\ v3 = [u \in Users |-> 0] /\ v5 = 0 /\ v6 = 0 /\ v7 \in BOOLEAN
  BY DEF Session!Init
<1>2. Session!TypeOK
  BY <1>1, SessionsAssumption DEF Session!TypeOK
<1>3. \A k \in Session!Keys : v1[k] = Session!NoSession
  BY <1>1
<1>4. \A c \in Callers : v4[c] = Session!NoSession
  BY <1>1
<1>5. Session!Numbered
  BY <1>1, <1>3, <1>4, NoSessionIs DEF Session!Numbered, Session!InOrder
<1>6. Session!CopiesAreSubsequences
  BY <1>4 DEF Session!CopiesAreSubsequences
<1>7. Session!SharedStateIsCurrent
  BY <1>3, NoSessionIs DEF Session!SharedStateIsCurrent
<1> QED
  BY <1>2, <1>5, <1>6, <1>7 DEF SessionInv

(* A session that is stored or not, and what is known of it. *)
LEMMA StoredIs ==
  ASSUME SessionInv
  PROVE  /\ \A k \in Session!Keys :
              /\ v1[k] \in Session!Copies \cup {Session!NoSession}
              /\ v1[k] # Session!NoSession => v1[k].key = k
              /\ v1[k].born <= v6 /\ v1[k].born \in Nat
              /\ Session!InOrder(v1[k].events) /\ v1[k].events \in Seq(Session!Events)
              /\ \A i \in DOMAIN v1[k].events : v1[k].events[i].n <= v5
         /\ \A c \in Callers :
              /\ v4[c] \in Session!Copies \cup {Session!NoSession}
              /\ v4[c].born <= v6 /\ v4[c].born \in Nat
              /\ Session!InOrder(v4[c].events) /\ v4[c].events \in Seq(Session!Events)
              /\ \A i \in DOMAIN v4[c].events : v4[c].events[i].n <= v5
         /\ v5 \in 0 .. MaxEvents /\ v6 \in 0 .. MaxSessions /\ v2 \in 0 .. v5 /\ v3 \in [Users -> 0 .. v5]
         /\ v7 \in BOOLEAN
<1>t. /\ v1 \in [Session!Keys -> Session!Copies \cup {Session!NoSession}]
      /\ v4 \in [Callers -> Session!Copies \cup {Session!NoSession}]
      /\ \A k \in Session!Keys : v1[k] # Session!NoSession => v1[k].key = k
      /\ v5 \in 0 .. MaxEvents /\ v6 \in 0 .. MaxSessions /\ v2 \in 0 .. v5 /\ v3 \in [Users -> 0 .. v5]
      /\ v7 \in BOOLEAN
  BY DEF SessionInv, Session!TypeOK
<1>1. ASSUME NEW x \in Session!Copies \cup {Session!NoSession}
      PROVE  x.born \in Nat /\ x.events \in Seq(Session!Events)
  <2>1. CASE x \in Session!Copies
    <3>1. x.born \in 1 .. MaxSessions /\ x.events \in Seq(Session!Events)
      BY <2>1, CopyIs
    <3> QED
      BY <3>1
  <2>2. <<>> \in Seq(Session!Events)
    OBVIOUS
  <2>3. CASE x = Session!NoSession
    BY <2>2, <2>3, NoSessionIs
  <2> QED
    BY <2>1, <2>3
<1>2. /\ \A k \in Session!Keys : v1[k].born <= v6
      /\ \A c \in Callers : v4[c].born <= v6
      /\ \A k \in Session!Keys : /\ Session!InOrder(v1[k].events)
                                 /\ \A i \in DOMAIN v1[k].events : v1[k].events[i].n <= v5
      /\ \A c \in Callers : /\ Session!InOrder(v4[c].events)
                            /\ \A i \in DOMAIN v4[c].events : v4[c].events[i].n <= v5
  BY DEF SessionInv, Session!Numbered
<1> QED
  BY <1>t, <1>1, <1>2

(* What each step has to keep of the sessions and of the copies. *)
LEMMA SessionKept ==
  ASSUME v5' \in 0 .. MaxEvents, v6' \in 0 .. MaxSessions, v2' \in 0 .. v5', v3' \in [Users -> 0 .. v5'],
         v7' \in BOOLEAN,
         v1' \in [Session!Keys -> Session!Copies \cup {Session!NoSession}],
         v4' \in [Callers -> Session!Copies \cup {Session!NoSession}],
         \A k \in Session!Keys :
           /\ v1'[k] # Session!NoSession => v1'[k].key = k
           /\ v1'[k].born <= v6' /\ Session!InOrder(v1'[k].events)
           /\ \A i \in DOMAIN v1'[k].events :
                /\ v1'[k].events[i].n <= v5'
                /\ v1'[k].events[i].scope = "app" => v2' >= v1'[k].events[i].n
                /\ v1'[k].events[i].scope = "user" => v3'[k[1]] >= v1'[k].events[i].n,
         \A c \in Callers :
           /\ v4'[c].born <= v6' /\ Session!InOrder(v4'[c].events)
           /\ \A i \in DOMAIN v4'[c].events : v4'[c].events[i].n <= v5'
           /\ v4'[c] # Session!NoSession /\ v1'[v4'[c].key].born = v4'[c].born
                => Session!Within(v4'[c].events, v1'[v4'[c].key].events)
  PROVE  SessionInv'
<1>1. Session!TypeOK'
  BY DEF Session!TypeOK
<1>2. Session!Numbered'
  BY DEF Session!Numbered
<1>3. Session!SharedStateIsCurrent'
  BY DEF Session!SharedStateIsCurrent
<1>4. Session!CopiesAreSubsequences'
  <2>1. ASSUME NEW c \in Callers, v4'[c] # Session!NoSession
        PROVE  v4'[c].key \in Session!Keys
    BY <2>1, CopyIs
  <2> QED
    BY <2>1 DEF Session!CopiesAreSubsequences
<1> QED
  BY <1>1, <1>2, <1>3, <1>4 DEF SessionInv

(* What is known of a session, before the step. *)
LEMMA SharedIs ==
  ASSUME SessionInv
  PROVE  /\ \A k \in Session!Keys : \A i \in DOMAIN v1[k].events :
              /\ v1[k].events[i].scope = "app" => v2 >= v1[k].events[i].n
              /\ v1[k].events[i].scope = "user" => v3[k[1]] >= v1[k].events[i].n
         /\ \A c \in Callers : v4[c] # Session!NoSession /\ v1[v4[c].key].born = v4[c].born
              => Session!Within(v4[c].events, v1[v4[c].key].events)
BY DEF SessionInv, Session!SharedStateIsCurrent, Session!CopiesAreSubsequences

(* CreateSession. *)
LEMMA CreateSessionKeeps ==
  ASSUME SessionInv, NEW c \in Callers, NEW k \in Session!Keys, Session!CreateSession(c, k)
  PROVE  SessionInv'
<1>t. /\ v1 \in [Session!Keys -> Session!Copies \cup {Session!NoSession}]
      /\ v4 \in [Callers -> Session!Copies \cup {Session!NoSession}] /\ Session!TypeOK
  BY DEF SessionInv, Session!TypeOK
<1>0. v6 < MaxSessions /\ v6' = v6 + 1 /\ UNCHANGED <<v2, v3, v5, v7>>
  BY DEF Session!CreateSession
<1>1. PICK born \in 1 .. MaxSessions : born = v6 + 1
  BY <1>0, StoredIs, SessionsAssumption
<1>2. PICK x \in Session!Copies, y \in Session!Copies :
        /\ x = Session!SessionOf(k, born, <<>>, 0, 0) /\ y = Session!Merged(x)
        /\ x.key = k /\ x.born = born /\ x.events = <<>>
        /\ y.key = k /\ y.born = born /\ y.events = <<>>
  BY <1>t, NewSession
<1>3. v1' = [v1 EXCEPT ![k] = x] /\ v4' = [v4 EXCEPT ![c] = y]
  BY <1>1, <1>2 DEF Session!CreateSession
<1>4. /\ v1' \in [Session!Keys -> Session!Copies \cup {Session!NoSession}]
      /\ v4' \in [Callers -> Session!Copies \cup {Session!NoSession}]
      /\ v1'[k] = x /\ v4'[c] = y
      /\ \A l \in Session!Keys : l # k => v1'[l] = v1[l]
      /\ \A d \in Callers : d # c => v4'[d] = v4[d]
  BY <1>t, <1>3
<1>5. v6' \in 0 .. MaxSessions /\ v6 \in Nat /\ born = v6'
  BY <1>0, <1>1, StoredIs, SessionsAssumption
<1>6. Session!InOrder(<<>>) /\ \A all : Session!Within(<<>>, all)
  BY DEF Session!InOrder, Session!Within
<1>7. ASSUME NEW l \in Session!Keys
      PROVE  /\ v1'[l] # Session!NoSession => v1'[l].key = l
             /\ v1'[l].born <= v6' /\ Session!InOrder(v1'[l].events)
             /\ \A i \in DOMAIN v1'[l].events :
                  /\ v1'[l].events[i].n <= v5'
                  /\ v1'[l].events[i].scope = "app" => v2' >= v1'[l].events[i].n
                  /\ v1'[l].events[i].scope = "user" => v3'[l[1]] >= v1'[l].events[i].n
  <2>1. CASE l = k
    BY <1>2, <1>4, <1>5, <1>6, <2>1
  <2>2. CASE l # k
    <3>1. v1'[l].born <= v6'
      BY <1>0, <1>4, <1>5, <2>2, StoredIs
    <3> QED
      BY <1>0, <1>4, <2>2, <3>1, StoredIs, SharedIs
  <2> QED
    BY <2>1, <2>2
<1>8. ASSUME NEW d \in Callers
      PROVE  /\ v4'[d].born <= v6' /\ Session!InOrder(v4'[d].events)
             /\ \A i \in DOMAIN v4'[d].events : v4'[d].events[i].n <= v5'
             /\ v4'[d] # Session!NoSession /\ v1'[v4'[d].key].born = v4'[d].born
                  => Session!Within(v4'[d].events, v1'[v4'[d].key].events)
  <2>1. CASE d = c
    BY <1>2, <1>4, <1>5, <1>6, <2>1
  <2>2. CASE d # c
    <3>1. v4'[d] = v4[d] /\ v4[d].born <= v6 /\ v4[d].born \in Nat
      BY <1>4, <2>2, StoredIs
    <3>2. v4'[d].born <= v6' /\ Session!InOrder(v4'[d].events)
      BY <1>0, <1>5, <3>1, StoredIs
    <3>3. ASSUME v4[d] # Session!NoSession, v1'[v4[d].key].born = v4[d].born
          PROVE  Session!Within(v4[d].events, v1'[v4[d].key].events)
      <4>1. v4[d].key \in Session!Keys
        BY <1>t, <3>3, CopyIs
      <4>2. v4[d].key # k
        BY <1>0, <1>2, <1>4, <1>5, <3>1, <3>3
      <4> QED
        BY <1>4, <3>3, <4>1, <4>2, SharedIs
    <3>4. \A i \in DOMAIN v4'[d].events : v4'[d].events[i].n <= v5'
      BY <1>0, <3>1, StoredIs
    <3> QED
      BY <3>1, <3>2, <3>3, <3>4
  <2> QED
    BY <2>1, <2>2
<1>9. v5' \in 0 .. MaxEvents /\ v2' \in 0 .. v5' /\ v3' \in [Users -> 0 .. v5'] /\ v7' \in BOOLEAN
  BY <1>0, StoredIs
<1> QED
  BY <1>4, <1>5, <1>7, <1>8, <1>9, SessionKept

(* ListSessions. *)
LEMMA ListSessionsKeeps ==
  ASSUME SessionInv, NEW c \in Callers, NEW k \in Session!Keys, Session!ListSessions(c, k)
  PROVE  SessionInv'
<1>t. /\ v1 \in [Session!Keys -> Session!Copies \cup {Session!NoSession}]
      /\ v4 \in [Callers -> Session!Copies \cup {Session!NoSession}] /\ Session!TypeOK
  BY DEF SessionInv, Session!TypeOK
<1>0. v1[k] # Session!NoSession /\ UNCHANGED <<v1, v2, v3, v5, v6, v7>>
  BY DEF Session!ListSessions
<1>1. PICK born \in 1 .. MaxSessions : born = v1[k].born
  BY <1>t, <1>0, CopyIs
<1>2. PICK x \in Session!Copies :
        /\ x = Session!SessionOf(k, born, <<>>, 0, 0)
        /\ x.key = k /\ x.born = born /\ x.events = <<>>
  BY <1>t, NewSession
<1>3. v4' = [v4 EXCEPT ![c] = x]
  BY <1>1, <1>2 DEF Session!ListSessions
<1>4. /\ v4' \in [Callers -> Session!Copies \cup {Session!NoSession}]
      /\ v4'[c] = x /\ \A d \in Callers : d # c => v4'[d] = v4[d]
  BY <1>t, <1>3
<1>6. Session!InOrder(<<>>) /\ \A all : Session!Within(<<>>, all)
  BY DEF Session!InOrder, Session!Within
<1>7. \A l \in Session!Keys :
        /\ v1'[l] # Session!NoSession => v1'[l].key = l
        /\ v1'[l].born <= v6' /\ Session!InOrder(v1'[l].events)
        /\ \A i \in DOMAIN v1'[l].events :
             /\ v1'[l].events[i].n <= v5'
             /\ v1'[l].events[i].scope = "app" => v2' >= v1'[l].events[i].n
             /\ v1'[l].events[i].scope = "user" => v3'[l[1]] >= v1'[l].events[i].n
  BY <1>0, StoredIs, SharedIs
<1>8. ASSUME NEW d \in Callers
      PROVE  /\ v4'[d].born <= v6' /\ Session!InOrder(v4'[d].events)
             /\ \A i \in DOMAIN v4'[d].events : v4'[d].events[i].n <= v5'
             /\ v4'[d] # Session!NoSession /\ v1'[v4'[d].key].born = v4'[d].born
                  => Session!Within(v4'[d].events, v1'[v4'[d].key].events)
  <2>1. CASE d = c
    <3>1. born <= v6'
      BY <1>0, <1>1, StoredIs
    <3> QED
      BY <1>2, <1>4, <1>6, <2>1, <3>1
  <2>2. CASE d # c
    BY <1>0, <1>4, <2>2, StoredIs, SharedIs
  <2> QED
    BY <2>1, <2>2
<1>9. /\ v5' \in 0 .. MaxEvents /\ v2' \in 0 .. v5' /\ v3' \in [Users -> 0 .. v5'] /\ v7' \in BOOLEAN
      /\ v6' \in 0 .. MaxSessions /\ v1' \in [Session!Keys -> Session!Copies \cup {Session!NoSession}]
  BY <1>t, <1>0, StoredIs
<1> QED
  BY <1>4, <1>7, <1>8, <1>9, SessionKept

(* DeleteSession. *)
LEMMA DeleteSessionKeeps ==
  ASSUME SessionInv, NEW k \in Session!Keys, Session!DeleteSession(k)
  PROVE  SessionInv'
<1>t. /\ v1 \in [Session!Keys -> Session!Copies \cup {Session!NoSession}]
      /\ v4 \in [Callers -> Session!Copies \cup {Session!NoSession}]
  BY DEF SessionInv, Session!TypeOK
<1>0. v1' = [v1 EXCEPT ![k] = Session!NoSession] /\ UNCHANGED <<v2, v3, v4, v5, v6, v7>>
  BY DEF Session!DeleteSession
<1>1. /\ v1' \in [Session!Keys -> Session!Copies \cup {Session!NoSession}] /\ v1'[k] = Session!NoSession
      /\ \A l \in Session!Keys : l # k => v1'[l] = v1[l]
  BY <1>t, <1>0
<1>2. Session!InOrder(<<>>)
  BY DEF Session!InOrder
<1>3. v6 \in Nat /\ 0 <= v6
  BY StoredIs
<1>7. \A l \in Session!Keys :
        /\ v1'[l] # Session!NoSession => v1'[l].key = l
        /\ v1'[l].born <= v6' /\ Session!InOrder(v1'[l].events)
        /\ \A i \in DOMAIN v1'[l].events :
             /\ v1'[l].events[i].n <= v5'
             /\ v1'[l].events[i].scope = "app" => v2' >= v1'[l].events[i].n
             /\ v1'[l].events[i].scope = "user" => v3'[l[1]] >= v1'[l].events[i].n
  BY <1>0, <1>1, <1>2, <1>3, StoredIs, SharedIs, NoSessionIs
<1>8. ASSUME NEW d \in Callers
      PROVE  /\ v4'[d].born <= v6' /\ Session!InOrder(v4'[d].events)
             /\ \A i \in DOMAIN v4'[d].events : v4'[d].events[i].n <= v5'
             /\ v4'[d] # Session!NoSession /\ v1'[v4'[d].key].born = v4'[d].born
                  => Session!Within(v4'[d].events, v1'[v4'[d].key].events)
  <2>1. ASSUME v4[d] # Session!NoSession, v1'[v4[d].key].born = v4[d].born
        PROVE  Session!Within(v4[d].events, v1'[v4[d].key].events)
    <3>1. v4[d].key \in Session!Keys /\ v4[d].born \in 1 .. MaxSessions
      BY <1>t, <2>1, CopyIs
    <3>2. v4[d].key # k
      BY <1>1, <2>1, <3>1, NoSessionIs
    <3> QED
      BY <1>1, <2>1, <3>1, <3>2, SharedIs
  <2> QED
    BY <1>0, <2>1, StoredIs
<1>9. /\ v5' \in 0 .. MaxEvents /\ v2' \in 0 .. v5' /\ v3' \in [Users -> 0 .. v5'] /\ v7' \in BOOLEAN
      /\ v6' \in 0 .. MaxSessions /\ v4' \in [Callers -> Session!Copies \cup {Session!NoSession}]
  BY <1>t, <1>0, StoredIs
<1> QED
  BY <1>1, <1>7, <1>8, <1>9, SessionKept

(* The copy and the stored session that AppendEvent leaves. *)
LEMMA AppendIs ==
  ASSUME SessionInv, NEW x \in Session!Copies, Session!InOrder(x.events),
         \A i \in DOMAIN x.events : x.events[i].n <= v5, NEW e \in Session!Events, e.n = v5 + 1
  PROVE  \E y \in Session!Copies :
           /\ y = [x EXCEPT !.events = Append(x.events, e)] /\ y.key = x.key /\ y.born = x.born
           /\ Follows(x.events, e, v5 + 1, y.events)
<1>1. PICK es \in Seq(Session!Events), n \in Nat : es = x.events /\ n = v5
  BY CopyIs, StoredIs
<1>2. PICK new : new = Append(es, e)
  OBVIOUS
<1>3. new \in Seq(Session!Events) /\ Follows(es, e, n + 1, new)
  BY <1>1, <1>2, EventsGrow
<1>4. PICK y \in Session!Copies :
        y = [x EXCEPT !.events = new] /\ y.key = x.key /\ y.born = x.born /\ y.events = new
  BY <1>3, CopyWith
<1> QED
  BY <1>1, <1>2, <1>3, <1>4

(* AppendEvent. *)
LEMMA AppendEventKeeps ==
  ASSUME SessionInv, NEW c \in Callers, NEW scope \in Session!Scopes, Session!AppendEvent(c, scope)
  PROVE  SessionInv'
<1>t. /\ v1 \in [Session!Keys -> Session!Copies \cup {Session!NoSession}]
      /\ v4 \in [Callers -> Session!Copies \cup {Session!NoSession}]
      /\ v2 \in 0 .. v5 /\ v3 \in [Users -> 0 .. v5]
  BY StoredIs DEF SessionInv, Session!TypeOK
<1>0. v5 < MaxEvents /\ v4[c] # Session!NoSession /\ v5' = v5 + 1 /\ UNCHANGED <<v6, v7>>
  BY DEF Session!AppendEvent
<1>n. v5 \in Nat /\ v5' \in 0 .. MaxEvents /\ v5 + 1 \in 1 .. MaxEvents /\ v6 \in Nat
  BY <1>0, StoredIs, SessionsAssumption
<1>1. PICK e \in Session!Events : e = [n |-> v5 + 1, scope |-> scope]
  BY <1>n DEF Session!Events
<1>2. e.n = v5 + 1 /\ e.scope = scope
  BY <1>1
<1>3. PICK k \in Session!Keys : k = v4[c].key
  BY <1>t, <1>0, CopyIs
<1>4. PICK y \in Session!Copies :
        /\ y = [v4[c] EXCEPT !.events = Append(v4[c].events, e)] /\ y.key = v4[c].key /\ y.born = v4[c].born
        /\ Follows(v4[c].events, e, v5 + 1, y.events)
  <2>1. PICK old \in Session!Copies : old = v4[c]
    BY <1>t, <1>0
  <2>2. Session!InOrder(old.events) /\ \A i \in DOMAIN old.events : old.events[i].n <= v5
    BY <2>1, StoredIs
  <2>3. \E y \in Session!Copies :
          /\ y = [old EXCEPT !.events = Append(old.events, e)] /\ y.key = old.key /\ y.born = old.born
          /\ Follows(old.events, e, v5 + 1, y.events)
    BY <1>2, <2>2, AppendIs
  <2> QED
    BY <2>1, <2>3
<1>5. v4' = [v4 EXCEPT ![c] = y]
  BY <1>1, <1>4 DEF Session!AppendEvent
<1>6. /\ v4' \in [Callers -> Session!Copies \cup {Session!NoSession}] /\ v4'[c] = y
      /\ \A d \in Callers : d # c => v4'[d] = v4[d]
  BY <1>t, <1>5
<1>u. k[1] \in Users
  BY DEF Session!Keys
<1>8. ASSUME v1' \in [Session!Keys -> Session!Copies \cup {Session!NoSession}],
             v2' \in 0 .. v5', v2 <= v2', v3' \in [Users -> 0 .. v5'], \A u \in Users : v3[u] <= v3'[u],
             \A l \in Session!Keys : l # k => v1'[l] = v1[l],
             v1'[k].born = v1[k].born,
             v1[k] = Session!NoSession => v1'[k] = v1[k],
             v1'[k] # Session!NoSession =>
               /\ v1'[k].key = k
               /\ Follows(v1[k].events, e, v5 + 1, v1'[k].events)
               /\ scope = "app" => v2' = v5 + 1
               /\ scope = "user" => v3'[k[1]] = v5 + 1
      PROVE  SessionInv'
  <2>0. \A l \in Session!Keys : /\ l[1] \in Users
                                /\ \A i \in DOMAIN v1[l].events : v1[l].events[i].n \in Nat
    <3>1. ASSUME NEW l \in Session!Keys, NEW i \in DOMAIN v1[l].events
          PROVE  v1[l].events[i].n \in Nat
      <4>1. v1[l].events[i] \in Session!Events
        BY StoredIs, ElementIs
      <4> QED
        BY <4>1 DEF Session!Events
    <3> QED
      BY <3>1 DEF Session!Keys
  <2>1. ASSUME NEW l \in Session!Keys
        PROVE  /\ v1'[l] # Session!NoSession => v1'[l].key = l
               /\ v1'[l].born <= v6' /\ Session!InOrder(v1'[l].events)
               /\ \A i \in DOMAIN v1'[l].events :
                    /\ v1'[l].events[i].n <= v5'
                    /\ v1'[l].events[i].scope = "app" => v2' >= v1'[l].events[i].n
                    /\ v1'[l].events[i].scope = "user" => v3'[l[1]] >= v1'[l].events[i].n
    <3>g. ASSUME NEW i \in DOMAIN v1[l].events
          PROVE  /\ v1[l].events[i].n <= v5'
                 /\ v1[l].events[i].scope = "app" => v2' >= v1[l].events[i].n
                 /\ v1[l].events[i].scope = "user" => v3'[l[1]] >= v1[l].events[i].n
      <4>1. PICK n \in Nat : n = v1[l].events[i].n
        BY <2>0
      <4>2. n <= v5
        BY <4>1, StoredIs
      <4>3. v1[l].events[i].scope = "app" => v2 >= n
        BY <4>1, SharedIs
      <4>4. v1[l].events[i].scope = "user" => v3[l[1]] >= n
        BY <4>1, SharedIs
      <4>5. v2 \in Nat /\ v2' \in Nat /\ v3[l[1]] \in Nat /\ v3'[l[1]] \in Nat /\ v3[l[1]] <= v3'[l[1]] /\ v2 <= v2'
        BY <1>t, <1>n, <1>8, <2>0
      <4> QED
        BY <1>0, <1>n, <4>1, <4>2, <4>3, <4>4, <4>5
    <3>1. CASE l # k \/ v1'[k] = Session!NoSession
      <4>1. v1'[l] = v1[l] \/ (l = k /\ v1'[l] = Session!NoSession)
        BY <1>8, <3>1
      <4>2. CASE v1'[l] = v1[l]
        BY <1>0, <3>g, <4>2, StoredIs
      <4>3. CASE v1'[l] = Session!NoSession
        BY <1>0, <1>n, <4>3, NoSessionIs DEF Session!InOrder
      <4> QED
        BY <4>1, <4>2, <4>3
    <3>2. CASE l = k /\ v1'[k] # Session!NoSession
      <4>1. v1'[k].born <= v6'
        BY <1>0, <1>8, StoredIs
      <4>2. ASSUME NEW i \in DOMAIN v1'[k].events
            PROVE  /\ v1'[k].events[i].n <= v5'
                   /\ v1'[k].events[i].scope = "app" => v2' >= v1'[k].events[i].n
                   /\ v1'[k].events[i].scope = "user" => v3'[k[1]] >= v1'[k].events[i].n
        <5>1. CASE v1'[k].events[i] = e
          BY <1>0, <1>2, <1>n, <1>8, <3>2, <5>1 DEF Follows
        <5>2. CASE i \in DOMAIN v1[k].events /\ v1'[k].events[i] = v1[k].events[i]
          BY <3>2, <3>g, <5>2
        <5> QED
          BY <1>8, <3>2, <5>1, <5>2 DEF Follows
      <4> QED
        BY <1>8, <3>2, <4>1, <4>2 DEF Follows
    <3> QED
      BY <3>1, <3>2
  <2>2. ASSUME NEW d \in Callers
        PROVE  /\ v4'[d].born <= v6' /\ Session!InOrder(v4'[d].events)
               /\ \A i \in DOMAIN v4'[d].events : v4'[d].events[i].n <= v5'
    <3>1. CASE d = c
      BY <1>0, <1>4, <1>6, <3>1, StoredIs DEF Follows
    <3>2. CASE d # c
      <4>1. ASSUME NEW i \in DOMAIN v4[d].events
            PROVE  v4[d].events[i].n <= v5'
        <5>1. v4[d].events[i] \in Session!Events /\ v4[d].events[i].n <= v5
          BY StoredIs, ElementIs
        <5>2. v4[d].events[i].n \in Nat
          BY <5>1 DEF Session!Events
        <5> QED
          BY <1>0, <1>n, <5>1, <5>2
      <4> QED
        BY <1>0, <1>6, <3>2, <4>1, StoredIs
    <3> QED
      BY <3>1, <3>2
  <2>3. ASSUME NEW d \in Callers, v4'[d] # Session!NoSession, v1'[v4'[d].key].born = v4'[d].born
        PROVE  Session!Within(v4'[d].events, v1'[v4'[d].key].events)
    <3>1. v4[d] # Session!NoSession /\ v4'[d].key = v4[d].key /\ v4'[d].born = v4[d].born
      BY <1>0, <1>4, <1>6, <2>3
    <3>2. PICK l \in Session!Keys : l = v4[d].key
      BY <1>t, <3>1, CopyIs
    <3>3. v1'[l].born = v1[l].born /\ v4[d].born \in 1 .. MaxSessions
      BY <1>t, <1>8, <3>1, CopyIs
    <3>4. Session!Within(v4[d].events, v1[l].events)
      BY <2>3, <3>1, <3>2, <3>3, SharedIs
    <3>5. v1'[l] # Session!NoSession
      BY <2>3, <3>1, <3>2, <3>3, NoSessionIs
    <3>6. Session!Within(v1[l].events, v1'[l].events)
      BY <1>8, <3>2, <3>5 DEF Session!Within, Follows
    <3>7. Session!Within(v4[d].events, v1'[l].events)
      BY <3>4, <3>6 DEF Session!Within
    <3>8. CASE d # c
      BY <1>6, <3>2, <3>7, <3>8
    <3>9. CASE d = c
      <4>1. l = k /\ \E i \in DOMAIN v1'[l].events : v1'[l].events[i] = e
        BY <1>3, <1>8, <3>2, <3>5, <3>9 DEF Follows
      <4>2. ASSUME NEW i \in DOMAIN y.events
            PROVE  \E j \in DOMAIN v1'[l].events : v1'[l].events[j] = y.events[i]
        <5>1. CASE y.events[i] = e
          BY <4>1, <5>1
        <5>2. CASE i \in DOMAIN v4[c].events /\ y.events[i] = v4[c].events[i]
          BY <3>7, <3>9, <5>2 DEF Session!Within
        <5> QED
          BY <1>4, <5>1, <5>2 DEF Follows
      <4>3. Session!Within(y.events, v1'[l].events)
        BY <4>2 DEF Session!Within
      <4> QED
        BY <1>4, <1>6, <3>2, <3>9, <4>3
    <3> QED
      BY <3>8, <3>9
  <2>4. v6' \in 0 .. MaxSessions /\ v7' \in BOOLEAN
    BY <1>0, StoredIs
  <2> QED
    BY <1>n, <1>6, <1>8, <2>1, <2>2, <2>3, <2>4, SessionKept
<1>9. CASE v1[k] = Session!NoSession
  <2>1. UNCHANGED <<v1, v2, v3>>
    BY <1>3, <1>9 DEF Session!AppendEvent
  <2>2. v2' \in 0 .. v5' /\ v2 <= v2' /\ v3' \in [Users -> 0 .. v5'] /\ \A u \in Users : v3[u] <= v3'[u]
    BY <1>t, <1>0, <1>n, <2>1
  <2> QED
    BY <1>t, <1>8, <1>9, <2>1, <2>2
<1>10. CASE v1[k] # Session!NoSession
  <2>1. PICK old \in Session!Copies : old = v1[k]
    BY <1>t, <1>10
  <2>2. PICK z \in Session!Copies :
          /\ z = [old EXCEPT !.events = Append(old.events, e)] /\ z.key = old.key /\ z.born = old.born
          /\ Follows(old.events, e, v5 + 1, z.events)
    <3>1. Session!InOrder(old.events) /\ \A i \in DOMAIN old.events : old.events[i].n <= v5
      BY <2>1, StoredIs
    <3> QED
      BY <1>2, <3>1, AppendIs
  <2>3. /\ v1' = [v1 EXCEPT ![k] = z]
        /\ v2' = IF scope = "app" THEN v5 + 1 ELSE v2
        /\ v3' = IF scope = "user" THEN [v3 EXCEPT ![k[1]] = v5 + 1] ELSE v3
    BY <1>1, <1>2, <1>3, <1>10, <2>1, <2>2 DEF Session!AppendEvent
  <2>4. /\ v1' \in [Session!Keys -> Session!Copies \cup {Session!NoSession}] /\ v1'[k] = z
        /\ \A l \in Session!Keys : l # k => v1'[l] = v1[l]
    BY <1>t, <2>3
  <2>5. v2' \in 0 .. v5' /\ v2 <= v2' /\ (scope = "app" => v2' = v5 + 1)
    BY <1>t, <1>0, <1>n, <2>3
  <2>6. /\ v3' \in [Users -> 0 .. v5'] /\ \A u \in Users : v3[u] <= v3'[u]
        /\ scope = "user" => v3'[k[1]] = v5 + 1
    BY <1>t, <1>0, <1>n, <1>u, <2>3
  <2>7. z.key = k
    BY <1>10, <2>1, <2>2, StoredIs
  <2> QED
    BY <1>8, <1>10, <2>1, <2>2, <2>4, <2>5, <2>6, <2>7
<1> QED
  BY <1>9, <1>10

(* The inductive invariant of the sessions. *)
LEMMA SessionInductive ==
  ASSUME SessionInv, Session!Next
  PROVE  SessionInv'
<1>1. ASSUME NEW k \in Session!Keys, Session!GetSession(k)
      PROVE  SessionInv'
  <2>1. UNCHANGED <<v1, v2, v3, v4, v5, v6>> /\ v7' \in BOOLEAN
    BY <1>1 DEF Session!GetSession
  <2> QED
    BY <2>1 DEF SessionInv, Session!TypeOK, Session!Numbered, Session!CopiesAreSubsequences,
                Session!SharedStateIsCurrent
<1> QED
  BY <1>1, CreateSessionKeeps, ListSessionsKeeps, DeleteSessionKeeps, AppendEventKeeps DEF Session!Next

-----------------------------------------------------------------------------
(* The states of contexts.                                                 *)

StateInv == State!TypeOK /\ State!ClashesBetweenContexts /\ State!PendingIsLastSet

(* What an actor at work is. *)
LEMMA WorkIs ==
  ASSUME NEW y \in State!Work
  PROVE  /\ y.what \in {"Get", "ToMap", "Set", "ApplyDelta", "got"} /\ y.context \in Contexts
         /\ y.key \in StateKeys \cup {"none"} /\ y.got \in 0 .. MaxValues
BY DEF State!Work, State!Reads, State!Writes

(* An actor at work. *)
LEMMA WorkType ==
  ASSUME NEW what \in {"Get", "ToMap", "Set", "ApplyDelta", "got"}, NEW x \in Contexts,
         NEW key \in StateKeys \cup {"none"}, NEW got \in 0 .. MaxValues
  PROVE  /\ State!Using(what, x, key, got) \in State!Work
         /\ State!Using(what, x, key, got).what = what /\ State!Using(what, x, key, got).context = x
         /\ State!Using(what, x, key, got).key = key /\ State!Using(what, x, key, got).got = got
BY DEF State!Work, State!Using, State!Reads, State!Writes

(* An idle actor. *)
LEMMA IdleIs ==
  State!Idle.what = "idle" /\ State!Idle.got = 0
BY DEF State!Idle, State!Using

(* The types, one by one. *)
LEMMA StateTypes ==
  ASSUME StateInv
  PROVE  /\ v3 \in Nat /\ v3 <= MaxValues /\ v1 \in [StateKeys -> 0 .. v3]
         /\ v2 \in [Contexts -> [StateKeys -> 0 .. v3]] /\ v5 \in [Contexts -> [StateKeys -> 0 .. v3]]
         /\ v4 \in [Callers -> State!Work \cup {State!Idle}]
         /\ \A a \in Callers : v4[a].got <= v3 /\ (v4[a].what \in {"Get", "Set", "got"} => v4[a].key \in StateKeys)
         /\ v6 \subseteq Prepared /\ v7 \in {"no", "map", "actions", "state"}
BY StatesAssumption DEF StateInv, State!TypeOK

(* What an actor does with the state of a context. *)
LEMMA BusyIs ==
  ASSUME StateInv, NEW a \in Callers
  PROVE  /\ v4[a].got \in 0 .. v3
         /\ v4[a].what \in {"Get", "ToMap", "Set", "ApplyDelta", "got"} => v4[a].context \in Contexts
         /\ v4[a].what \in {"Get", "Set", "got"} => v4[a].key \in StateKeys
<1>1. v4[a] \in State!Work \/ v4[a] = State!Idle
  BY StateTypes
<1>2. v4[a].got <= v3 /\ v3 \in Nat
  BY StateTypes
<1>3. CASE v4[a] = State!Idle
  BY <1>2, <1>3, IdleIs
<1>4. CASE v4[a] \in State!Work
  BY <1>2, <1>4, WorkIs, StateTypes, StatesAssumption
<1> QED
  BY <1>1, <1>3, <1>4

(* What each step has to keep. *)
LEMMA StateKept ==
  ASSUME v3' \in 0 .. MaxValues, v1' \in [StateKeys -> 0 .. v3'],
         v2' \in [Contexts -> [StateKeys -> 0 .. v3']], v5' \in [Contexts -> [StateKeys -> 0 .. v3']],
         v4' \in [Callers -> State!Work \cup {State!Idle}],
         v6' \subseteq Prepared, v7' \in {"no", "map", "actions", "state"},
         \A a \in Callers :
           /\ v4'[a].got <= v3'
           /\ v4'[a].what \in {"Get", "Set", "got"} => v4'[a].key \in StateKeys
           /\ v4'[a].what = "got" /\ v2'[v4'[a].context][v4'[a].key] # 0
                => v4'[a].got <= v2'[v4'[a].context][v4'[a].key]
           /\ \A b \in Callers :
                a # b /\ v4'[a].what \in State!Writes /\ v4'[b].what \in State!Reads \cup State!Writes
                  => v4'[a].context # v4'[b].context,
         \A x \in Contexts, k \in StateKeys : v2'[x][k] \in {0, v5'[x][k]},
         \A k \in StateKeys : v1'[k] = 0 \/ \E x \in Contexts : v1'[k] = v5'[x][k]
  PROVE  StateInv'
<1>1. State!TypeOK'
  BY DEF State!TypeOK
<1>2. State!ClashesBetweenContexts'
  BY DEF State!ClashesBetweenContexts, State!Uses
<1>3. State!PendingIsLastSet'
  BY DEF State!PendingIsLastSet
<1> QED
  BY <1>1, <1>2, <1>3 DEF StateInv

(* The invariant, pointwise. *)
LEMMA StateFacts ==
  ASSUME StateInv
  PROVE  /\ \A a, b \in Callers :
              a # b /\ v4[a].what \in State!Writes /\ v4[b].what \in State!Reads \cup State!Writes
                => v4[a].context # v4[b].context
         /\ \A x \in Contexts, k \in StateKeys : v2[x][k] \in {0, v5[x][k]}
         /\ \A a \in Callers :
              v4[a].what = "got" /\ v2[v4[a].context][v4[a].key] # 0 => v4[a].got <= v2[v4[a].context][v4[a].key]
         /\ \A k \in StateKeys : v1[k] = 0 \/ \E x \in Contexts : v1[k] = v5[x][k]
<1>1. State!ClashesBetweenContexts /\ State!PendingIsLastSet
  BY DEF StateInv
<1>2. \A a, b \in Callers :
        a # b /\ v4[a].what \in State!Writes /\ v4[b].what \in State!Reads \cup State!Writes
          => v4[a].context # v4[b].context
  BY <1>1 DEF State!ClashesBetweenContexts, State!Uses
<1> QED
  BY <1>1, <1>2 DEF State!PendingIsLastSet

(* A step in which one actor goes to other work, and the maps stay. *)
LEMMA WorkMoves ==
  ASSUME StateInv, NEW a \in Callers, NEW y \in State!Work \cup {State!Idle},
         v4' = [v4 EXCEPT ![a] = y], UNCHANGED <<v1, v2, v3, v5, v6, v7>>,
         y.got <= v3, y.what \in {"Get", "Set", "got"} => y.key \in StateKeys,
         y.what = "got" /\ v2[y.context][y.key] # 0 => y.got <= v2[y.context][y.key],
         y.what \in State!Reads \cup State!Writes =>
           \A b \in Callers : v4[b].what \in State!Reads \cup State!Writes /\ v4[b].context = y.context
                                => v4[b].what \in State!Reads /\ y.what \in State!Reads
  PROVE  StateInv'
<1>1. /\ v4' \in [Callers -> State!Work \cup {State!Idle}] /\ v4'[a] = y
      /\ \A b \in Callers : b # a => v4'[b] = v4[b]
  BY StateTypes
<1>2. ASSUME NEW b \in Callers
      PROVE  /\ v4'[b].got <= v3'
             /\ v4'[b].what \in {"Get", "Set", "got"} => v4'[b].key \in StateKeys
             /\ v4'[b].what = "got" /\ v2'[v4'[b].context][v4'[b].key] # 0
                  => v4'[b].got <= v2'[v4'[b].context][v4'[b].key]
  <2>1. CASE b = a
    BY <1>1, <2>1
  <2>2. CASE b # a
    BY <1>1, <2>2, StateTypes, StateFacts
  <2> QED
    BY <2>1, <2>2
<1>3. ASSUME NEW b \in Callers, NEW d \in Callers, b # d,
             v4'[b].what \in State!Writes, v4'[d].what \in State!Reads \cup State!Writes
      PROVE  v4'[b].context # v4'[d].context
  <2>0. State!Reads \cap State!Writes = {}
    BY DEF State!Reads, State!Writes
  <2>1. CASE b = a
    BY <1>1, <1>3, <2>0, <2>1
  <2>2. CASE d = a
    BY <1>1, <1>3, <2>0, <2>2
  <2>3. CASE b # a /\ d # a
    BY <1>1, <1>3, <2>3, StateFacts
  <2> QED
    BY <2>1, <2>2, <2>3
<1>4. v3' \in 0 .. MaxValues
  BY StateTypes, StatesAssumption
<1>5. /\ v1' \in [StateKeys -> 0 .. v3'] /\ v6' \subseteq Prepared /\ v7' \in {"no", "map", "actions", "state"}
      /\ v2' \in [Contexts -> [StateKeys -> 0 .. v3']] /\ v5' \in [Contexts -> [StateKeys -> 0 .. v3']]
      /\ \A x \in Contexts, k \in StateKeys : v2'[x][k] \in {0, v5'[x][k]}
      /\ \A k \in StateKeys : v1'[k] = 0 \/ \E x \in Contexts : v1'[k] = v5'[x][k]
  BY StateTypes, StateFacts
<1> QED
  BY <1>1, <1>2, <1>3, <1>4, <1>5, StateKept

(* Begin. *)
LEMMA BeginKeeps ==
  ASSUME StateInv, NEW a \in Callers, NEW x \in Contexts, NEW what \in {"Get", "Set", "ToMap", "ApplyDelta"},
         NEW key \in StateKeys \cup {"none"}, what \in {"Get", "Set"} => key \in StateKeys,
         State!Begin(a, x, what, key)
  PROVE  StateInv'
<1>0. 0 \in 0 .. MaxValues
  BY StatesAssumption
<1>1. PICK zero \in 0 .. MaxValues : zero = 0
  BY <1>0
<1>2. PICK y \in State!Work :
        y = State!Using(what, x, key, zero) /\ y.what = what /\ y.context = x /\ y.key = key /\ y.got = zero
  BY WorkType
<1>3. v4' = [v4 EXCEPT ![a] = y] /\ UNCHANGED <<v1, v2, v3, v5, v6, v7>>
  BY <1>1, <1>2 DEF State!Begin
<1>4. \A b \in Callers : v4[b].what \in State!Reads \cup State!Writes /\ v4[b].context = y.context
                           => v4[b].what \in State!Reads /\ y.what \in State!Reads
  BY <1>2 DEF State!Begin, State!CanLock, State!Uses
<1>5. y.got <= v3
  BY <1>1, <1>2, StateTypes
<1> QED
  BY <1>2, <1>3, <1>4, <1>5, WorkMoves

(* Get: what is pending comes first. *)
LEMMA StateGetKeeps ==
  ASSUME StateInv, NEW a \in Callers, State!Get(a)
  PROVE  StateInv'
<1>0. v4[a].what = "Get" /\ UNCHANGED <<v1, v2, v3, v5, v6, v7>>
  BY DEF State!Get
<1>1. PICK x \in Contexts, k \in StateKeys : x = v4[a].context /\ k = v4[a].key
  BY <1>0, BusyIs
<1>2. PICK got : got = IF v2[x][k] # 0 THEN v2[x][k] ELSE v1[k]
  OBVIOUS
<1>3. got = State!Over(v2[x], v1)[k]
  BY <1>2 DEF State!Over
<1>4. got \in 0 .. v3 /\ got \in 0 .. MaxValues
  BY <1>2, StateTypes, StatesAssumption
<1>5. PICK y \in State!Work :
        y = State!Using("got", x, k, got) /\ y.what = "got" /\ y.context = x /\ y.key = k /\ y.got = got
  BY <1>4, WorkType
<1>6. v4' = [v4 EXCEPT ![a] = y]
  BY <1>1, <1>3, <1>5 DEF State!Get
<1>7. v2[x][k] \in 0 .. v3
  BY StateTypes
<1>8. y.what = "got" /\ v2[y.context][y.key] # 0 => y.got <= v2[y.context][y.key]
  BY <1>2, <1>5, <1>7, StateTypes
<1>9. "got" \notin State!Reads \cup State!Writes
  BY DEF State!Reads, State!Writes
<1>10. y.got <= v3
  BY <1>4, <1>5, StateTypes
<1> QED
  BY <1>0, <1>5, <1>6, <1>8, <1>9, <1>10, WorkMoves

(* ToMap and Forget. *)
LEMMA RestKeeps ==
  ASSUME StateInv, NEW a \in Callers, State!ToMap(a) \/ State!Forget(a)
  PROVE  StateInv'
<1>1. PICK y \in State!Work \cup {State!Idle} : y = State!Idle
  OBVIOUS
<1>2. v4' = [v4 EXCEPT ![a] = y] /\ UNCHANGED <<v1, v2, v3, v5, v6, v7>>
  BY <1>1 DEF State!ToMap, State!Forget
<1>3. "idle" \notin State!Reads \cup State!Writes
  BY DEF State!Reads, State!Writes
<1>4. y.what = "idle" /\ y.got <= v3
  BY <1>1, IdleIs, StateTypes
<1> QED
  BY <1>2, <1>3, <1>4, WorkMoves

(* A step that only notes what was done, or ends the program. *)
LEMMA NotesKeep ==
  ASSUME StateInv, UNCHANGED <<v1, v2, v3, v4, v5>>, v6' \subseteq Prepared,
         v7' \in {"no", "map", "actions", "state"}
  PROVE  StateInv'
<1>1. v3' \in 0 .. MaxValues
  BY StateTypes, StatesAssumption
<1>2. /\ v1' \in [StateKeys -> 0 .. v3'] /\ v4' \in [Callers -> State!Work \cup {State!Idle}]
      /\ v2' \in [Contexts -> [StateKeys -> 0 .. v3']] /\ v5' \in [Contexts -> [StateKeys -> 0 .. v3']]
  BY StateTypes
<1>3. \A a \in Callers :
        /\ v4'[a].got <= v3'
        /\ v4'[a].what \in {"Get", "Set", "got"} => v4'[a].key \in StateKeys
        /\ v4'[a].what = "got" /\ v2'[v4'[a].context][v4'[a].key] # 0
             => v4'[a].got <= v2'[v4'[a].context][v4'[a].key]
        /\ \A b \in Callers :
             a # b /\ v4'[a].what \in State!Writes /\ v4'[b].what \in State!Reads \cup State!Writes
               => v4'[a].context # v4'[b].context
  BY StateTypes, StateFacts
<1>4. /\ \A x \in Contexts, k \in StateKeys : v2'[x][k] \in {0, v5'[x][k]}
      /\ \A k \in StateKeys : v1'[k] = 0 \/ \E x \in Contexts : v1'[k] = v5'[x][k]
  BY StateFacts
<1> QED
  BY <1>1, <1>2, <1>3, <1>4, StateKept

(* The initial state of the contexts. *)
LEMMA StateStart ==
  ASSUME State!Init
  PROVE  StateInv
<1>0. 0 \in 0 .. MaxValues
  BY StatesAssumption
<1>1. /\ v1 = [k \in StateKeys |-> 0] /\ v2 = [x \in Contexts |-> [k \in StateKeys |-> 0]] /\ v3 = 0
      /\ v4 = [a \in Callers |-> State!Idle] /\ v5 = [x \in Contexts |-> [k \in StateKeys |-> 0]]
      /\ v6 = {} /\ v7 = "no"
  BY DEF State!Init, State!Nothing
<1>2. State!TypeOK
  BY <1>0, <1>1, IdleIs DEF State!TypeOK
<1>3. State!ClashesBetweenContexts
  BY <1>1, IdleIs DEF State!ClashesBetweenContexts, State!Writes
<1>4. State!PendingIsLastSet
  BY <1>1, IdleIs DEF State!PendingIsLastSet
<1> QED
  BY <1>2, <1>3, <1>4 DEF StateInv

(* An actor that is done with its work clashes with nobody. *)
LEMMA IdleDoesNotClash ==
  ASSUME StateInv, NEW a \in Callers, v4' = [v4 EXCEPT ![a] = State!Idle]
  PROVE  /\ v4' \in [Callers -> State!Work \cup {State!Idle}] /\ v4'[a] = State!Idle
         /\ \A b \in Callers : b # a => v4'[b] = v4[b]
         /\ \A b, d \in Callers :
              b # d /\ v4'[b].what \in State!Writes /\ v4'[d].what \in State!Reads \cup State!Writes
                => v4'[b].context # v4'[d].context
<1>1. /\ v4' \in [Callers -> State!Work \cup {State!Idle}] /\ v4'[a] = State!Idle
      /\ \A b \in Callers : b # a => v4'[b] = v4[b]
  BY StateTypes
<1>2. v4'[a].what \notin State!Reads \cup State!Writes
  BY <1>1, IdleIs DEF State!Reads, State!Writes
<1> QED
  BY <1>1, <1>2, StateFacts

(* Set. *)
LEMMA SetKeeps ==
  ASSUME StateInv, NEW a \in Callers, State!Set(a)
  PROVE  StateInv'
<1>0. v4[a].what = "Set" /\ v3 < MaxValues /\ v3' = v3 + 1 /\ UNCHANGED <<v6, v7>>
  BY DEF State!Set
<1>1. PICK x \in Contexts, k \in StateKeys : x = v4[a].context /\ k = v4[a].key
  BY <1>0, BusyIs
<1>2. /\ v1' = [v1 EXCEPT ![k] = v3'] /\ v2' = [v2 EXCEPT ![x][k] = v3'] /\ v5' = [v5 EXCEPT ![x][k] = v3']
      /\ v4' = [v4 EXCEPT ![a] = State!Idle]
  BY <1>1 DEF State!Set
<1>3. v3' \in 0 .. MaxValues /\ v3 \in Nat /\ v3 <= v3'
  BY <1>0, StateTypes, StatesAssumption
<1>4. /\ v1' \in [StateKeys -> 0 .. v3'] /\ v1'[k] = v3' /\ \A l \in StateKeys : l # k => v1'[l] = v1[l]
  BY <1>2, <1>3, StateTypes
<1>5. /\ v2' \in [Contexts -> [StateKeys -> 0 .. v3']] /\ v2'[x][k] = v3'
      /\ \A y \in Contexts, l \in StateKeys : y # x \/ l # k => v2'[y][l] = v2[y][l]
  BY <1>2, <1>3, StateTypes
<1>6. /\ v5' \in [Contexts -> [StateKeys -> 0 .. v3']] /\ v5'[x][k] = v3'
      /\ \A y \in Contexts, l \in StateKeys : y # x \/ l # k => v5'[y][l] = v5[y][l]
  BY <1>2, <1>3, StateTypes
<1>7. /\ v4' \in [Callers -> State!Work \cup {State!Idle}] /\ v4'[a] = State!Idle
      /\ \A b \in Callers : b # a => v4'[b] = v4[b]
      /\ \A b, d \in Callers :
           b # d /\ v4'[b].what \in State!Writes /\ v4'[d].what \in State!Reads \cup State!Writes
             => v4'[b].context # v4'[d].context
  BY <1>2, IdleDoesNotClash
<1>8. ASSUME NEW b \in Callers
      PROVE  /\ v4'[b].got <= v3'
             /\ v4'[b].what \in {"Get", "Set", "got"} => v4'[b].key \in StateKeys
             /\ v4'[b].what = "got" /\ v2'[v4'[b].context][v4'[b].key] # 0
                  => v4'[b].got <= v2'[v4'[b].context][v4'[b].key]
  <2>1. CASE b = a
    BY <1>3, <1>7, <2>1, IdleIs
  <2>2. CASE b # a
    <3>1. v4'[b] = v4[b] /\ v4[b].got \in 0 .. v3 /\ (v4[b].what \in {"Get", "Set", "got"} => v4[b].key \in StateKeys)
      BY <1>7, <2>2, BusyIs
    <3>2. v4[b].got <= v3'
      BY <1>3, <3>1
    <3>3. ASSUME v4[b].what = "got", v2'[v4[b].context][v4[b].key] # 0
          PROVE  v4[b].got <= v2'[v4[b].context][v4[b].key]
      <4>1. PICK y \in Contexts, l \in StateKeys : y = v4[b].context /\ l = v4[b].key
        BY <3>3, BusyIs
      <4>2. CASE y = x /\ l = k
        BY <1>5, <3>2, <4>1, <4>2
      <4>3. CASE y # x \/ l # k
        BY <1>5, <3>3, <4>1, <4>3, StateFacts
      <4> QED
        BY <4>2, <4>3
    <3> QED
      BY <3>1, <3>2, <3>3
  <2> QED
    BY <2>1, <2>2
<1>9. \A y \in Contexts, l \in StateKeys : v2'[y][l] \in {0, v5'[y][l]}
  BY <1>5, <1>6, StateFacts
<1>10. ASSUME NEW l \in StateKeys
       PROVE  v1'[l] = 0 \/ \E y \in Contexts : v1'[l] = v5'[y][l]
  <2>1. CASE l = k
    BY <1>4, <1>6, <2>1
  <2>2. CASE l # k
    BY <1>4, <1>6, <2>2, StateFacts
  <2> QED
    BY <2>1, <2>2
<1>11. v6' \subseteq Prepared /\ v7' \in {"no", "map", "actions", "state"}
  BY <1>0, StateTypes
<1> QED
  BY <1>3, <1>4, <1>5, <1>6, <1>7, <1>8, <1>9, <1>10, <1>11, StateKept

(* What is pending in one context is dropped. *)
LEMMA DeltaCleared ==
  ASSUME StateInv, NEW x \in Contexts, v2' = [v2 EXCEPT ![x] = State!Nothing]
  PROVE  /\ v2' \in [Contexts -> [StateKeys -> 0 .. v3]]
         /\ \A y \in Contexts, l \in StateKeys : v2'[y][l] = 0 \/ v2'[y][l] = v2[y][l]
<1>0. PICK n : n = State!Nothing
  OBVIOUS
<1>1. n \in [StateKeys -> 0 .. v3] /\ \A l \in StateKeys : n[l] = 0
  BY <1>0, StateTypes DEF State!Nothing
<1>2. v2' = [v2 EXCEPT ![x] = n]
  BY <1>0
<1> QED
  BY <1>1, <1>2, StateTypes

(* What actors got is still no later than what is pending. *)
LEMMA GotKept ==
  ASSUME StateInv, NEW b \in Callers, v4'[b] = v4[b], v3' = v3,
         \A y \in Contexts, l \in StateKeys : v2'[y][l] = 0 \/ v2'[y][l] = v2[y][l]
  PROVE  /\ v4'[b].got <= v3'
         /\ v4'[b].what \in {"Get", "Set", "got"} => v4'[b].key \in StateKeys
         /\ v4'[b].what = "got" /\ v2'[v4'[b].context][v4'[b].key] # 0
              => v4'[b].got <= v2'[v4'[b].context][v4'[b].key]
<1>1. v4[b].got <= v3 /\ (v4[b].what \in {"Get", "Set", "got"} => v4[b].key \in StateKeys)
  BY StateTypes
<1>2. ASSUME v4[b].what = "got", v2'[v4[b].context][v4[b].key] # 0
      PROVE  v4[b].got <= v2'[v4[b].context][v4[b].key]
  <2>1. PICK y \in Contexts, l \in StateKeys : y = v4[b].context /\ l = v4[b].key
    BY <1>2, BusyIs
  <2> QED
    BY <1>2, <2>1, StateFacts
<1> QED
  BY <1>1, <1>2

(* ApplyDelta. *)
LEMMA ApplyDeltaKeeps ==
  ASSUME StateInv, NEW a \in Callers, State!ApplyDelta(a)
  PROVE  StateInv'
<1>0. v4[a].what = "ApplyDelta" /\ v3' = v3 /\ v5' = v5 /\ UNCHANGED <<v6, v7>>
  BY DEF State!ApplyDelta
<1>1. PICK x \in Contexts : x = v4[a].context
  BY <1>0, BusyIs
<1>2. /\ v1' = [k \in StateKeys |-> IF v2[x][k] # 0 THEN v2[x][k] ELSE v1[k]]
      /\ v2' = [v2 EXCEPT ![x] = State!Nothing] /\ v4' = [v4 EXCEPT ![a] = State!Idle]
  BY <1>1 DEF State!ApplyDelta, State!Over
<1>3. v3' \in 0 .. MaxValues
  BY <1>0, StateTypes, StatesAssumption
<1>4. v1' \in [StateKeys -> 0 .. v3'] /\ \A k \in StateKeys : v1'[k] = v1[k] \/ v1'[k] = v2[x][k]
  BY <1>0, <1>2, StateTypes
<1>5. /\ v2' \in [Contexts -> [StateKeys -> 0 .. v3']]
      /\ \A y \in Contexts, l \in StateKeys : v2'[y][l] = 0 \/ v2'[y][l] = v2[y][l]
  BY <1>0, <1>2, DeltaCleared
<1>6. v5' \in [Contexts -> [StateKeys -> 0 .. v3']]
  BY <1>0, StateTypes
<1>7. /\ v4' \in [Callers -> State!Work \cup {State!Idle}] /\ v4'[a] = State!Idle
      /\ \A b \in Callers : b # a => v4'[b] = v4[b]
      /\ \A b, d \in Callers :
           b # d /\ v4'[b].what \in State!Writes /\ v4'[d].what \in State!Reads \cup State!Writes
             => v4'[b].context # v4'[d].context
  BY <1>2, IdleDoesNotClash
<1>8. ASSUME NEW b \in Callers
      PROVE  /\ v4'[b].got <= v3'
             /\ v4'[b].what \in {"Get", "Set", "got"} => v4'[b].key \in StateKeys
             /\ v4'[b].what = "got" /\ v2'[v4'[b].context][v4'[b].key] # 0
                  => v4'[b].got <= v2'[v4'[b].context][v4'[b].key]
  <2>1. CASE b = a
    BY <1>0, <1>7, <2>1, IdleIs, StateTypes
  <2>2. CASE b # a
    BY <1>0, <1>5, <1>7, <2>2, GotKept
  <2> QED
    BY <2>1, <2>2
<1>9. \A y \in Contexts, l \in StateKeys : v2'[y][l] \in {0, v5'[y][l]}
  BY <1>0, <1>5, StateFacts
<1>10. ASSUME NEW l \in StateKeys
       PROVE  v1'[l] = 0 \/ \E y \in Contexts : v1'[l] = v5'[y][l]
  BY <1>0, <1>4, StateFacts
<1>11. v6' \subseteq Prepared /\ v7' \in {"no", "map", "actions", "state"}
  BY <1>0, StateTypes
<1> QED
  BY <1>3, <1>4, <1>5, <1>6, <1>7, <1>8, <1>9, <1>10, <1>11, StateKept

(* ClearDelta. *)
LEMMA ClearDeltaKeeps ==
  ASSUME StateInv, NEW a \in Callers, NEW x \in Contexts, State!ClearDelta(a, x)
  PROVE  StateInv'
<1>0. v2' = [v2 EXCEPT ![x] = State!Nothing] /\ UNCHANGED <<v1, v3, v4, v5, v6, v7>>
  BY DEF State!ClearDelta
<1>3. v3' \in 0 .. MaxValues
  BY <1>0, StateTypes, StatesAssumption
<1>4. /\ v1' \in [StateKeys -> 0 .. v3'] /\ v5' \in [Contexts -> [StateKeys -> 0 .. v3']]
      /\ v4' \in [Callers -> State!Work \cup {State!Idle}]
  BY <1>0, StateTypes
<1>5. /\ v2' \in [Contexts -> [StateKeys -> 0 .. v3']]
      /\ \A y \in Contexts, l \in StateKeys : v2'[y][l] = 0 \/ v2'[y][l] = v2[y][l]
  BY <1>0, DeltaCleared
<1>6. \A b, d \in Callers :
        b # d /\ v4'[b].what \in State!Writes /\ v4'[d].what \in State!Reads \cup State!Writes
          => v4'[b].context # v4'[d].context
  BY <1>0, StateFacts
<1>8. \A b \in Callers :
        /\ v4'[b].got <= v3'
        /\ v4'[b].what \in {"Get", "Set", "got"} => v4'[b].key \in StateKeys
        /\ v4'[b].what = "got" /\ v2'[v4'[b].context][v4'[b].key] # 0
             => v4'[b].got <= v2'[v4'[b].context][v4'[b].key]
  BY <1>0, <1>5, GotKept
<1>9. /\ \A y \in Contexts, l \in StateKeys : v2'[y][l] \in {0, v5'[y][l]}
      /\ \A l \in StateKeys : v1'[l] = 0 \/ \E y \in Contexts : v1'[l] = v5'[y][l]
  BY <1>0, <1>5, StateFacts
<1>11. v6' \subseteq Prepared /\ v7' \in {"no", "map", "actions", "state"}
  BY <1>0, StateTypes
<1> QED
  BY <1>3, <1>4, <1>5, <1>6, <1>8, <1>9, <1>11, StateKept

(* The inductive invariant of the contexts. *)
LEMMA StateInductive ==
  ASSUME StateInv, State!Next
  PROVE  StateInv'
<1>1. CASE State!Crash
  <2>1. UNCHANGED <<v1, v2, v3, v4, v5>> /\ v6' \subseteq Prepared /\ v7' \in {"no", "map", "actions", "state"}
    BY <1>1, StateTypes DEF State!Crash
  <2> QED
    BY <2>1, NotesKeep
<1>2. ASSUME NEW a \in Callers, NEW x \in Contexts, NEW k \in StateKeys,
             State!Begin(a, x, "Get", k) \/ State!Begin(a, x, "Set", k)
      PROVE  StateInv'
  BY <1>2, BeginKeeps
<1>3. ASSUME NEW a \in Callers, NEW x \in Contexts,
             State!Begin(a, x, "ToMap", "none") \/ State!Begin(a, x, "ApplyDelta", "none")
      PROVE  StateInv'
  BY <1>3, BeginKeeps
<1>4. ASSUME NEW a \in Callers, NEW x \in Contexts, State!SaveArtifact(a, x) \/ State!GetAuthResponse(a, x)
      PROVE  StateInv'
  <2>1. UNCHANGED <<v1, v2, v3, v4, v5>> /\ v6' \subseteq Prepared /\ v7' \in {"no", "map", "actions", "state"}
    BY <1>4, StateTypes DEF State!SaveArtifact, State!GetAuthResponse
  <2> QED
    BY <2>1, NotesKeep
<1>5. ASSUME NEW a \in Callers, NEW x \in Contexts, NEW id \in {"", "id"}, State!RequestCredential(a, x, id)
      PROVE  StateInv'
  <2>1. UNCHANGED <<v1, v2, v3, v4, v5>> /\ v6' \subseteq Prepared /\ v7' \in {"no", "map", "actions", "state"}
    BY <1>5, StateTypes DEF State!RequestCredential
  <2> QED
    BY <2>1, NotesKeep
<1> QED
  BY <1>1, <1>2, <1>3, <1>4, <1>5, ClearDeltaKeeps, StateGetKeeps, RestKeeps, SetKeeps, ApplyDeltaKeeps DEF State!Next

-----------------------------------------------------------------------------
(* Artifacts.                                                              *)

ArtifactInv ==
  Artifact!TypeOK /\ Artifact!PromisesHeld /\ Artifact!VersionsPromised /\ Artifact!AnswerIsPresent

(* What the memory service promised is what it keeps: P are the promises   *)
(* of either service, A the versions of each path.                         *)
Keeps(A, P) ==
  /\ \A q \in P : q.svc = "memory" =>
       q.version + 1 \in DOMAIN A[q.path] /\ A[q.path][q.version + 1] = q.data
  /\ \A p \in Artifact!Paths : \A i \in DOMAIN A[p] :
       \E q \in P : q.svc = "memory" /\ q.path = p /\ q.version + 1 = i

(* The path of a file is one of the paths. *)
LEMMA PathIs ==
  ASSUME NEW s \in FileSessions, NEW f \in Files \cup UserFiles
  PROVE  Artifact!ArtifactPath(s, f) \in Artifact!Paths
BY DEF Artifact!ArtifactPath, Artifact!Paths

(* What a call of the GCS service is made of. *)
LEMMA GCSCallIs ==
  ASSUME NEW x \in Artifact!Calls
  PROVE  /\ x.op \in {"update", "close", "closeFailed", "delete", "attrs"} /\ x.path \in Artifact!Paths
         /\ x.data \in FileContents \cup {"none"} /\ x.version \in Artifact!Versions
BY DEF Artifact!Calls, Artifact!NoBlob

(* A call of the GCS service. *)
LEMMA GCSCallType ==
  ASSUME NEW op \in {"update", "close", "closeFailed", "delete", "attrs"}, NEW p \in Artifact!Paths,
         NEW data \in FileContents \cup {"none"}, NEW v \in Artifact!Versions,
         NEW y, y = [op |-> op, path |-> p, data |-> data, version |-> v]
  PROVE  y \in Artifact!Calls
BY DEF Artifact!Calls, Artifact!NoBlob

(* A call that goes on. *)
LEMMA GCSCallWith ==
  ASSUME NEW x \in Artifact!Calls, NEW op \in {"update", "close", "closeFailed", "delete", "attrs"},
         NEW y, y = [x EXCEPT !.op = op]
  PROVE  y \in Artifact!Calls
BY DEF Artifact!Calls

(* What a promise is made of. *)
LEMMA PromiseIs ==
  ASSUME NEW q \in Artifact!Promises
  PROVE  q.svc \in {"memory", "gcs"} /\ q.path \in Artifact!Paths /\ q.version \in Artifact!Versions
BY DEF Artifact!Promises

(* A promise. *)
LEMMA PromiseType ==
  ASSUME NEW svc \in {"memory", "gcs"}, NEW p \in Artifact!Paths, NEW v \in Artifact!Versions,
         NEW data \in FileContents \cup {"none"},
         NEW q, q = [svc |-> svc, path |-> p, version |-> v, data |-> data]
  PROVE  q \in Artifact!Promises /\ q.svc = svc /\ q.path = p /\ q.version = v /\ q.data = data
BY DEF Artifact!Promises, Artifact!NoBlob

(* The types and the promises, one by one. *)
LEMMA ArtifactTypes ==
  ASSUME ArtifactInv
  PROVE  /\ v1 \in [Artifact!Paths -> Seq(FileContents)]
         /\ v2 \in [Artifact!Paths \X Artifact!Versions -> FileContents \cup {"none"}]
         /\ v3 \in [Callers -> Artifact!Calls \cup {Artifact!Free}] /\ v4 \subseteq Artifact!Promises
         /\ v5 \in 0 .. MaxSaves /\ v5 \in Nat /\ \A p \in Artifact!Paths : Len(v1[p]) <= v5
         /\ Keeps(v1, v4)
<1>1. Keeps(v1, v4)
  BY DEF Keeps, ArtifactInv, Artifact!PromisesHeld, Artifact!VersionsPromised, Artifact!Saved
<1> QED
  BY <1>1, ArtifactsAssumption DEF ArtifactInv, Artifact!TypeOK, Artifact!NoBlob, Artifact!Versions

(* What each step has to keep. *)
LEMMA ArtifactKept ==
  ASSUME v1' \in [Artifact!Paths -> Seq(FileContents)],
         v2' \in [Artifact!Paths \X Artifact!Versions -> FileContents \cup {"none"}],
         v3' \in [Callers -> Artifact!Calls \cup {Artifact!Free}], v4' \subseteq Artifact!Promises,
         v5' \in 0 .. MaxSaves, \A p \in Artifact!Paths : Len(v1'[p]) <= v5',
         Keeps(v1', v4'), v6' = Artifact!NoAnswer
  PROVE  ArtifactInv'
<1>1. Artifact!TypeOK'
  BY DEF Artifact!TypeOK, Artifact!NoBlob, Artifact!Versions, Artifact!Answers
<1>2. Artifact!PromisesHeld'
  BY DEF Keeps, Artifact!PromisesHeld
<1>3. Artifact!VersionsPromised'
  BY DEF Keeps, Artifact!VersionsPromised, Artifact!Saved
<1>4. Artifact!AnswerIsPresent'
  BY DEF Artifact!AnswerIsPresent, Artifact!NoAnswer
<1> QED
  BY <1>1, <1>2, <1>3, <1>4 DEF ArtifactInv

(* A step of the GCS service keeps what the memory service promised. *)
LEMMA GCSKeeps ==
  ASSUME ArtifactInv, v1' = v1, v5' = v5 \/ (v5 < MaxSaves /\ v5' = v5 + 1),
         v2' \in [Artifact!Paths \X Artifact!Versions -> FileContents \cup {"none"}],
         v3' \in [Callers -> Artifact!Calls \cup {Artifact!Free}],
         \A q \in v4' : q \in v4 \/ (q \in Artifact!Promises /\ q.svc = "gcs"),
         \A q \in v4 : q.svc = "memory" => q \in v4', v6' = Artifact!NoAnswer
  PROVE  ArtifactInv'
<1>1. v5' \in 0 .. MaxSaves /\ v5 <= v5' /\ v5' \in Nat
  BY ArtifactTypes, ArtifactsAssumption
<1>2. ASSUME NEW p \in Artifact!Paths
      PROVE  Len(v1'[p]) <= v5'
  <2>1. v1[p] \in Seq(FileContents) /\ Len(v1[p]) <= v5
    BY ArtifactTypes
  <2> QED
    BY <1>1, <2>1, ArtifactTypes
<1>3. v4' \subseteq Artifact!Promises /\ v1' \in [Artifact!Paths -> Seq(FileContents)]
  BY ArtifactTypes
<1>4. Keeps(v1', v4')
  BY ArtifactTypes DEF Keeps
<1> QED
  BY <1>1, <1>2, <1>3, <1>4, ArtifactKept

(* SaveArtifact of the memory service. *)
LEMMA SaveArtifactKeeps ==
  ASSUME ArtifactInv, NEW p \in Artifact!Paths, NEW data \in FileContents, Artifact!SaveArtifact(p, data)
  PROVE  ArtifactInv'
<1>0. v5 < MaxSaves /\ v5' = v5 + 1 /\ v6' = Artifact!NoAnswer /\ UNCHANGED <<v2, v3>>
  BY DEF Artifact!SaveArtifact
<1>1. PICK new : new = Append(v1[p], data)
  OBVIOUS
<1>2. v1[p] \in Seq(FileContents) /\ Len(v1[p]) \in Nat /\ Len(v1[p]) <= v5
  BY ArtifactTypes
<1>3. /\ new \in Seq(FileContents) /\ Len(new) = Len(v1[p]) + 1
      /\ \A i \in DOMAIN v1[p] : i \in DOMAIN new /\ new[i] = v1[p][i]
      /\ Len(v1[p]) + 1 \in DOMAIN new /\ new[Len(v1[p]) + 1] = data
      /\ \A i \in DOMAIN new : i \in DOMAIN v1[p] \/ i = Len(v1[p]) + 1
  BY <1>1, <1>2
<1>4. v1' = [v1 EXCEPT ![p] = new]
  BY <1>1 DEF Artifact!SaveArtifact
<1>5. /\ v1' \in [Artifact!Paths -> Seq(FileContents)] /\ v1'[p] = new
      /\ \A r \in Artifact!Paths : r # p => v1'[r] = v1[r]
  BY <1>3, <1>4, ArtifactTypes
<1>6. v5' \in 0 .. MaxSaves /\ v5' \in Nat /\ v5 \in Nat
  BY <1>0, ArtifactTypes, ArtifactsAssumption
<1>7. PICK n \in Artifact!Versions : n = Len(v1[p])
  BY <1>0, <1>2, <1>6, ArtifactsAssumption DEF Artifact!Versions
<1>8. PICK mine : mine = [svc |-> "memory", path |-> p, version |-> n, data |-> data]
  OBVIOUS
<1>9. v4' = v4 \cup {mine}
  BY <1>7, <1>8 DEF Artifact!SaveArtifact, Artifact!Promise
<1>10. mine \in Artifact!Promises /\ mine.svc = "memory" /\ mine.path = p /\ mine.version = n /\ mine.data = data
  BY <1>8, PromiseType
<1>11. ASSUME NEW r \in Artifact!Paths
       PROVE  Len(v1'[r]) <= v5'
  <2>1. CASE r = p
    BY <1>0, <1>2, <1>3, <1>5, <1>6, <2>1
  <2>2. CASE r # p
    <3>1. v1'[r] = v1[r] /\ Len(v1[r]) \in Nat /\ Len(v1[r]) <= v5
      BY <1>5, <2>2, ArtifactTypes
    <3> QED
      BY <1>0, <1>6, <3>1
  <2> QED
    BY <2>1, <2>2
<1>12. ASSUME NEW q \in v4', q.svc = "memory"
       PROVE  q.version + 1 \in DOMAIN v1'[q.path] /\ v1'[q.path][q.version + 1] = q.data
  <2>1. CASE q = mine
    BY <1>3, <1>5, <1>7, <1>10, <2>1
  <2>2. CASE q # mine
    <3>1. q \in v4 /\ q.version + 1 \in DOMAIN v1[q.path] /\ v1[q.path][q.version + 1] = q.data
      BY <1>9, <1>12, <2>2, ArtifactTypes DEF Keeps
    <3>2. q.path \in Artifact!Paths
      BY <3>1, ArtifactTypes, PromiseIs
    <3>3. CASE q.path = p
      BY <1>3, <1>5, <3>1, <3>3
    <3>4. CASE q.path # p
      BY <1>5, <3>1, <3>2, <3>4
    <3> QED
      BY <3>3, <3>4
  <2> QED
    BY <2>1, <2>2
<1>12a. ASSUME NEW r \in Artifact!Paths, NEW i \in DOMAIN v1'[r]
       PROVE  \E q \in v4' : q.svc = "memory" /\ q.path = r /\ q.version + 1 = i
  <2>1. CASE r = p /\ i = Len(v1[p]) + 1
    BY <1>7, <1>9, <1>10, <2>1
  <2>2. CASE ~(r = p /\ i = Len(v1[p]) + 1)
    <3>1. i \in DOMAIN v1[r]
      BY <1>3, <1>5, <1>12a, <2>2
    <3> QED
      BY <1>9, <3>1, ArtifactTypes DEF Keeps
  <2> QED
    BY <2>1, <2>2
<1>12b. Keeps(v1', v4')
  BY <1>12, <1>12a DEF Keeps
<1>13. v2' \in [Artifact!Paths \X Artifact!Versions -> FileContents \cup {"none"}]
  BY <1>0, ArtifactTypes
<1>14. v3' \in [Callers -> Artifact!Calls \cup {Artifact!Free}]
  BY <1>0, ArtifactTypes
<1>15. v4' \subseteq Artifact!Promises
  BY <1>9, <1>10, ArtifactTypes
<1> QED
  BY <1>0, <1>5, <1>6, <1>11, <1>12b, <1>13, <1>14, <1>15, ArtifactKept

(* DeleteArtifact of the memory service. *)
LEMMA DeleteArtifactKeeps ==
  ASSUME ArtifactInv, NEW p \in Artifact!Paths, Artifact!DeleteArtifact(p)
  PROVE  ArtifactInv'
<1>0. v1' = [v1 EXCEPT ![p] = <<>>] /\ v6' = Artifact!NoAnswer /\ UNCHANGED <<v2, v3, v5>>
  BY DEF Artifact!DeleteArtifact
<1>1. v4' = {q \in v4 : ~(q.svc = "memory" /\ q.path = p)}
  BY DEF Artifact!DeleteArtifact, Artifact!Withdraw
<1>e. <<>> \in Seq(FileContents) /\ Len(<<>>) = 0 /\ DOMAIN <<>> = {}
  OBVIOUS
<1>2. PICK empty \in Seq(FileContents) : empty = <<>> /\ Len(empty) = 0 /\ DOMAIN empty = {}
  BY <1>e
<1>3. /\ v1' \in [Artifact!Paths -> Seq(FileContents)] /\ v1'[p] = empty
      /\ \A r \in Artifact!Paths : r # p => v1'[r] = v1[r]
  BY <1>0, <1>2, ArtifactTypes
<1>4. \A r \in Artifact!Paths : Len(v1'[r]) <= v5'
  BY <1>0, <1>2, <1>3, ArtifactTypes
<1>5. v5' \in 0 .. MaxSaves /\ v4' \subseteq Artifact!Promises
  BY <1>0, <1>1, ArtifactTypes
<1>6. Keeps(v1', v4')
  <2>1. Keeps(v1, v4)
    BY ArtifactTypes
  <2>2. \A q \in v4' : q.svc = "memory" =>
          q.version + 1 \in DOMAIN v1'[q.path] /\ v1'[q.path][q.version + 1] = q.data
    BY <1>1, <1>3, <2>1, ArtifactTypes, PromiseIs DEF Keeps
  <2>3. ASSUME NEW r \in Artifact!Paths, NEW i \in DOMAIN v1'[r]
        PROVE  \E q \in v4' : q.svc = "memory" /\ q.path = r /\ q.version + 1 = i
    <3>1. r # p /\ i \in DOMAIN v1[r]
      BY <1>2, <1>3, <2>3
    <3>2. PICK q \in v4 : q.svc = "memory" /\ q.path = r /\ q.version + 1 = i
      BY <2>1, <3>1 DEF Keeps
    <3> QED
      BY <1>1, <3>1, <3>2
  <2> QED
    BY <2>2, <2>3 DEF Keeps
<1>7. v2' \in [Artifact!Paths \X Artifact!Versions -> FileContents \cup {"none"}]
  BY <1>0, ArtifactTypes
<1>8. v3' \in [Callers -> Artifact!Calls \cup {Artifact!Free}]
  BY <1>0, ArtifactTypes
<1> QED
  BY <1>0, <1>3, <1>4, <1>5, <1>6, <1>7, <1>8, ArtifactKept

(* A call of the GCS service begins, goes on or ends. *)
LEMMA GCSCallMoves ==
  ASSUME ArtifactInv, NEW c \in Callers, NEW y \in Artifact!Calls \cup {Artifact!Free}, v3' = [v3 EXCEPT ![c] = y]
  PROVE  v3' \in [Callers -> Artifact!Calls \cup {Artifact!Free}]
BY ArtifactTypes

(* BeginSave. *)
LEMMA BeginSaveKeeps ==
  ASSUME ArtifactInv, NEW c \in Callers, NEW p \in Artifact!Paths, NEW data \in FileContents,
         Artifact!BeginSave(c, p, data)
  PROVE  ArtifactInv'
<1>0. v5 < MaxSaves /\ v5' = v5 + 1 /\ v6' = Artifact!NoAnswer /\ UNCHANGED <<v1, v2, v4>>
  BY DEF Artifact!BeginSave
<1>1. PICK v : v = Artifact!SaveVersion(Artifact!BlobVersions(p))
  OBVIOUS
<1>2. v \in Artifact!Versions
  <2>1. PICK S : S = Artifact!BlobVersions(p)
    OBVIOUS
  <2>2. S = {} \/ S = {0}
    BY <2>1, ArtifactsAssumption DEF Artifact!BlobVersions, Artifact!Versions
  <2>3. Artifact!Cardinality({0}) = 1
    BY FS_Singleton DEF Artifact!Cardinality, Cardinality
  <2>4. v \in {0, 1}
    BY <1>1, <2>1, <2>2, <2>3 DEF Artifact!SaveVersion
  <2>5. Artifact!Versions = 0 .. MaxSaves /\ MaxSaves \in Nat /\ v5 \in Nat
    BY ArtifactsAssumption, ArtifactTypes DEF Artifact!Versions
  <2> QED
    BY <1>0, <2>4, <2>5
<1>3. PICK y : y = [op |-> "update", path |-> p, data |-> data, version |-> v]
  OBVIOUS
<1>4. y \in Artifact!Calls
  BY <1>2, <1>3, GCSCallType
<1>5. v3' = [v3 EXCEPT ![c] = y]
  BY <1>1, <1>3 DEF Artifact!BeginSave
<1>6. v3' \in [Callers -> Artifact!Calls \cup {Artifact!Free}]
  BY <1>4, <1>5, GCSCallMoves
<1>7. v2' \in [Artifact!Paths \X Artifact!Versions -> FileContents \cup {"none"}]
  BY <1>0, ArtifactTypes
<1>8. \A q \in v4' : q \in v4 \/ (q \in Artifact!Promises /\ q.svc = "gcs")
  BY <1>0
<1>10. v1' = v1 /\ v6' = Artifact!NoAnswer /\ (v5' = v5 \/ (v5 < MaxSaves /\ v5' = v5 + 1))
  BY <1>0
<1>11. \A q \in v4 : q.svc = "memory" => q \in v4'
  BY <1>0
<1> QED
  BY <1>10, <1>11, <1>6, <1>7, <1>8, GCSKeeps

(* Update. *)
LEMMA UpdateKeeps ==
  ASSUME ArtifactInv, NEW c \in Callers, Artifact!Update(c)
  PROVE  ArtifactInv'
<1>0. v3[c].op = "update" /\ v6' = Artifact!NoAnswer /\ UNCHANGED <<v1, v2, v4, v5>>
  BY DEF Artifact!Update, Artifact!At
<1>1. PICK op \in {"close", "closeFailed"} : v3' = [v3 EXCEPT ![c].op = op]
  BY DEF Artifact!Update
<1>2. PICK x \in Artifact!Calls : x = v3[c]
  BY <1>0, ArtifactTypes DEF Artifact!Free
<1>3. PICK y : y = [x EXCEPT !.op = op]
  OBVIOUS
<1>4. y \in Artifact!Calls
  BY <1>3, GCSCallWith
<1>5. v3' = [v3 EXCEPT ![c] = y]
  BY <1>1, <1>2, <1>3
<1>6. v3' \in [Callers -> Artifact!Calls \cup {Artifact!Free}]
  BY <1>4, <1>5, GCSCallMoves
<1>7. v2' \in [Artifact!Paths \X Artifact!Versions -> FileContents \cup {"none"}]
  BY <1>0, ArtifactTypes
<1>8. \A q \in v4' : q \in v4 \/ (q \in Artifact!Promises /\ q.svc = "gcs")
  BY <1>0
<1>10. v1' = v1 /\ v6' = Artifact!NoAnswer /\ (v5' = v5 \/ (v5 < MaxSaves /\ v5' = v5 + 1))
  BY <1>0
<1>11. \A q \in v4 : q.svc = "memory" => q \in v4'
  BY <1>0
<1> QED
  BY <1>10, <1>11, <1>6, <1>7, <1>8, GCSKeeps

(* A call ends. *)
LEMMA GCSCallEnds ==
  ASSUME ArtifactInv, NEW c \in Callers, v3' = [v3 EXCEPT ![c] = Artifact!Free]
  PROVE  v3' \in [Callers -> Artifact!Calls \cup {Artifact!Free}]
<1>1. PICK y \in Artifact!Calls \cup {Artifact!Free} : y = Artifact!Free
  OBVIOUS
<1> QED
  BY <1>1, GCSCallMoves

(* Close. *)
LEMMA ArtifactCloseKeeps ==
  ASSUME ArtifactInv, NEW c \in Callers, Artifact!Close(c)
  PROVE  ArtifactInv'
<1>0. /\ v3[c].op \in {"close", "closeFailed"} /\ v3' = [v3 EXCEPT ![c] = Artifact!Free]
      /\ v6' = Artifact!NoAnswer /\ UNCHANGED <<v1, v5>>
  BY DEF Artifact!Close, Artifact!At
<1>1. PICK x \in Artifact!Calls : x = v3[c]
  BY <1>0, ArtifactTypes DEF Artifact!Free
<1>2. PICK p \in Artifact!Paths, v \in Artifact!Versions, data \in FileContents \cup {"none"} :
        p = v3[c].path /\ v = v3[c].version /\ data = v3[c].data
  BY <1>1, GCSCallIs
<1>3. v2' = [v2 EXCEPT ![<<p, v>>] = data] \/ v2' = v2
  BY <1>2 DEF Artifact!Close
<1>4. v2' \in [Artifact!Paths \X Artifact!Versions -> FileContents \cup {"none"}]
  BY <1>3, ArtifactTypes
<1>5. PICK q : q = [svc |-> "gcs", path |-> p, version |-> v, data |-> data]
  OBVIOUS
<1>6. q \in Artifact!Promises /\ q.svc = "gcs"
  BY <1>5, PromiseType
<1>7. v4' = v4 \cup {q} \/ v4' = v4
  BY <1>2, <1>5 DEF Artifact!Close, Artifact!Promise
<1>8. v3' \in [Callers -> Artifact!Calls \cup {Artifact!Free}]
  BY <1>0, GCSCallEnds
<1>9. \A r \in v4' : r \in v4 \/ (r \in Artifact!Promises /\ r.svc = "gcs")
  BY <1>6, <1>7
<1>10. v1' = v1 /\ v6' = Artifact!NoAnswer /\ (v5' = v5 \/ (v5 < MaxSaves /\ v5' = v5 + 1))
  BY <1>0
<1>11. \A r \in v4 : r.svc = "memory" => r \in v4'
  BY <1>7
<1> QED
  BY <1>10, <1>11, <1>4, <1>8, <1>9, GCSKeeps

(* BeginDelete and Open. *)
LEMMA BeginOtherKeeps ==
  ASSUME ArtifactInv, NEW c \in Callers, NEW p \in Artifact!Paths,
         Artifact!BeginDelete(c, p) \/ Artifact!Open(c, p)
  PROVE  ArtifactInv'
<1>0. v6' = Artifact!NoAnswer /\ UNCHANGED <<v1, v2, v4, v5>>
  BY DEF Artifact!BeginDelete, Artifact!Open
<1>1. 0 \in Artifact!Versions
  BY ArtifactsAssumption DEF Artifact!Versions
<1>2. PICK data \in FileContents \cup {"none"} : data = v2[<<p, 0>>]
  BY <1>1, ArtifactTypes
<1>3. PICK y \in Artifact!Calls : v3' = [v3 EXCEPT ![c] = y]
  <2>1. CASE Artifact!BeginDelete(c, p)
    <3>1. PICK y : y = [op |-> "delete", path |-> p, data |-> "none", version |-> 0]
      OBVIOUS
    <3>2. y \in Artifact!Calls
      BY <1>1, <3>1, GCSCallType
    <3> QED
      BY <2>1, <3>1, <3>2 DEF Artifact!BeginDelete, Artifact!NoBlob
  <2>2. CASE Artifact!Open(c, p)
    <3>1. PICK y : y = [op |-> "attrs", path |-> p, data |-> data, version |-> 0]
      OBVIOUS
    <3>2. y \in Artifact!Calls
      BY <1>1, <3>1, GCSCallType
    <3> QED
      BY <1>2, <2>2, <3>1, <3>2 DEF Artifact!Open
  <2> QED
    BY <2>1, <2>2
<1>4. v3' \in [Callers -> Artifact!Calls \cup {Artifact!Free}]
  BY <1>3, GCSCallMoves
<1>5. v2' \in [Artifact!Paths \X Artifact!Versions -> FileContents \cup {"none"}]
  BY <1>0, ArtifactTypes
<1>6. \A q \in v4' : q \in v4 \/ (q \in Artifact!Promises /\ q.svc = "gcs")
  BY <1>0
<1>10. v1' = v1 /\ v6' = Artifact!NoAnswer /\ (v5' = v5 \/ (v5 < MaxSaves /\ v5' = v5 + 1))
  BY <1>0
<1>11. \A q \in v4 : q.svc = "memory" => q \in v4'
  BY <1>0
<1> QED
  BY <1>10, <1>11, <1>4, <1>5, <1>6, GCSKeeps

(* Delete and Attrs. *)
LEMMA EndOtherKeeps ==
  ASSUME ArtifactInv, NEW c \in Callers, Artifact!Delete(c) \/ Artifact!Attrs(c)
  PROVE  ArtifactInv'
<1>0. /\ v3[c].op \in {"delete", "attrs"} /\ v3' = [v3 EXCEPT ![c] = Artifact!Free]
      /\ v6' = Artifact!NoAnswer /\ UNCHANGED <<v1, v5>>
  BY DEF Artifact!Delete, Artifact!Attrs, Artifact!At
<1>1. PICK x \in Artifact!Calls : x = v3[c]
  BY <1>0, ArtifactTypes DEF Artifact!Free
<1>2. PICK p \in Artifact!Paths : p = v3[c].path
  BY <1>1, GCSCallIs
<1>3. v2' = [v2 EXCEPT ![<<p, 0>>] = "none"] \/ v2' = v2
  BY <1>2 DEF Artifact!Delete, Artifact!Attrs, Artifact!NoBlob
<1>4. v2' \in [Artifact!Paths \X Artifact!Versions -> FileContents \cup {"none"}]
  BY <1>3, ArtifactTypes
<1>5. v4' \subseteq v4 /\ \A q \in v4 : q.svc = "memory" => q \in v4'
  BY DEF Artifact!Delete, Artifact!Attrs, Artifact!Withdraw
<1>6. v3' \in [Callers -> Artifact!Calls \cup {Artifact!Free}]
  BY <1>0, GCSCallEnds
<1>7. \A q \in v4' : q \in v4 \/ (q \in Artifact!Promises /\ q.svc = "gcs")
  BY <1>5
<1>10. v1' = v1 /\ v6' = Artifact!NoAnswer /\ (v5' = v5 \/ (v5 < MaxSaves /\ v5' = v5 + 1))
  BY <1>0
<1>11. \A q \in v4 : q.svc = "memory" => q \in v4'
  BY <1>5
<1> QED
  BY <1>10, <1>11, <1>4, <1>6, <1>7, GCSKeeps

(* The initial state of the artifacts. *)
LEMMA ArtifactStart ==
  ASSUME Artifact!Init
  PROVE  ArtifactInv
<1>e. <<>> \in Seq(FileContents) /\ Len(<<>>) = 0
  OBVIOUS
<1>1. PICK empty \in Seq(FileContents) : empty = <<>> /\ Len(empty) = 0
  BY <1>e
<1>2. /\ v1 = [p \in Artifact!Paths |-> empty] /\ v2 = [b \in Artifact!Paths \X Artifact!Versions |-> "none"]
      /\ v3 = [c \in Callers |-> Artifact!Free] /\ v4 = {} /\ v5 = 0
  BY <1>1 DEF Artifact!Init, Artifact!NoBlob
<1>3. v5 \in Artifact!Versions /\ \A p \in Artifact!Paths : v1[p] = empty
  BY <1>2, ArtifactsAssumption DEF Artifact!Versions
<1>3a. v6 = Artifact!NoAnswer
  BY DEF Artifact!Init
<1>4. Artifact!TypeOK
  BY <1>1, <1>2, <1>3, <1>3a DEF Artifact!TypeOK, Artifact!NoBlob, Artifact!Answers
<1>5. Artifact!PromisesHeld
  BY <1>2 DEF Artifact!PromisesHeld
<1>6. Artifact!VersionsPromised
  BY <1>1, <1>3 DEF Artifact!VersionsPromised
<1>7. Artifact!AnswerIsPresent
  BY <1>3a DEF Artifact!AnswerIsPresent, Artifact!NoAnswer
<1> QED
  BY <1>4, <1>5, <1>6, <1>7 DEF ArtifactInv

(* The memory service is asked, and answers. *)
LEMMA ReadKeeps ==
  ASSUME ArtifactInv, Artifact!Reads, v6' \in Artifact!Answers, Artifact!AnswerIsPresent'
  PROVE  ArtifactInv'
<1>1. UNCHANGED <<v1, v2, v3, v4, v5>>
  BY DEF Artifact!Reads
<1>2. Artifact!TypeOK'
  BY <1>1 DEF ArtifactInv, Artifact!TypeOK
<1>3. Artifact!PromisesHeld' /\ Artifact!VersionsPromised'
  BY <1>1 DEF ArtifactInv, Artifact!PromisesHeld, Artifact!VersionsPromised, Artifact!Saved
<1> QED
  BY <1>2, <1>3 DEF ArtifactInv

(* LoadArtifact of the memory service. *)
LEMMA LoadKeeps ==
  ASSUME ArtifactInv, NEW p \in Artifact!Paths, NEW version \in {-1} \cup Artifact!Versions,
         Artifact!LoadArtifact(p, version)
  PROVE  ArtifactInv'
<1>1. PICK x : x = Artifact!Loaded(p, version)
  OBVIOUS
<1>2. x \in FileContents \cup {"none", "panic"}
  <2>1. PICK s \in Seq(FileContents) : s = v1[p]
    BY ArtifactTypes
  <2>2. s # <<>> => s[Len(s)] \in FileContents
    BY <2>1
  <2> QED
    BY <1>1, <2>1, <2>2 DEF Artifact!Loaded, Artifact!NoBlob
<1>3. v6' = [op |-> "load", path |-> p, version |-> version, got |-> x] /\ Artifact!Reads
  BY <1>1 DEF Artifact!LoadArtifact
<1>4. v6' \in Artifact!Answers
  BY <1>2, <1>3 DEF Artifact!Answers, Artifact!NoBlob
<1>5. Artifact!AnswerIsPresent'
  BY <1>1, <1>3 DEF Artifact!AnswerIsPresent, Artifact!Loaded, Artifact!Reads
<1> QED
  BY <1>3, <1>4, <1>5, ReadKeeps

(* ListVersions of the memory service. *)
LEMMA ListVersionsKeeps ==
  ASSUME ArtifactInv, NEW p \in Artifact!Paths, Artifact!ListVersions(p)
  PROVE  ArtifactInv'
<1>1. PICK x : x = Artifact!Listed(p)
  OBVIOUS
<1>2. x \subseteq Artifact!Versions
  <2>1. PICK s \in Seq(FileContents) : s = v1[p] /\ Len(s) <= v5
    BY ArtifactTypes
  <2>2. v5 \in 0 .. MaxSaves /\ Len(s) \in Nat /\ x = 0 .. Len(s) - 1
    BY <1>1, <2>1, ArtifactTypes DEF Artifact!Listed
  <2> QED
    BY <2>1, <2>2, ArtifactsAssumption DEF Artifact!Versions
<1>3. v6' = [op |-> "versions", path |-> p, got |-> x] /\ Artifact!Reads
  BY <1>1 DEF Artifact!ListVersions
<1>4. v6' \in Artifact!Answers
  BY <1>2, <1>3 DEF Artifact!Answers
<1>5. Artifact!AnswerIsPresent'
  BY <1>1, <1>3 DEF Artifact!AnswerIsPresent, Artifact!Listed, Artifact!Reads
<1> QED
  BY <1>3, <1>4, <1>5, ReadKeeps

(* ListArtifactKey of the memory service. *)
LEMMA ListKeysKeeps ==
  ASSUME ArtifactInv, NEW s \in FileSessions, Artifact!ListArtifactKey(s)
  PROVE  ArtifactInv'
<1>1. PICK x : x = Artifact!Keys(s)
  OBVIOUS
<1>2. x \subseteq Files \cup UserFiles
  BY <1>1 DEF Artifact!Keys
<1>3. v6' = [op |-> "keys", session |-> s, got |-> x] /\ Artifact!Reads
  BY <1>1 DEF Artifact!ListArtifactKey
<1>4. v6' \in Artifact!Answers
  BY <1>2, <1>3 DEF Artifact!Answers
<1>5. Artifact!AnswerIsPresent'
  BY <1>1, <1>3 DEF Artifact!AnswerIsPresent, Artifact!Keys, Artifact!Reads
<1> QED
  BY <1>3, <1>4, <1>5, ReadKeeps

(* A file was saved if it has a version. *)
LEMMA SavedAre ==
  ASSUME ArtifactInv, NEW p \in Artifact!Paths
  PROVE  /\ \A q \in Artifact!Saved(p) :
              q.version \in Nat /\ q.version + 1 \in 1 .. Len(v1[p]) /\ v1[p][q.version + 1] = q.data
         /\ \A i \in 1 .. Len(v1[p]) : \E q \in Artifact!Saved(p) : q.version + 1 = i
         /\ v1[p] \in Seq(FileContents) /\ Len(v1[p]) \in Nat
         /\ v1[p] = <<>> <=> Artifact!Saved(p) = {}
<1>1. v1[p] \in Seq(FileContents) /\ Len(v1[p]) \in Nat /\ DOMAIN v1[p] = 1 .. Len(v1[p])
  BY ArtifactTypes
<1>2. \A q \in Artifact!Saved(p) :
        q.version \in Nat /\ q.version + 1 \in 1 .. Len(v1[p]) /\ v1[p][q.version + 1] = q.data
  BY <1>1, ArtifactTypes, PromiseIs, ArtifactsAssumption DEF Keeps, Artifact!Saved, Artifact!Versions
<1>3. ASSUME NEW i \in 1 .. Len(v1[p])
      PROVE  \E q \in Artifact!Saved(p) : q.version + 1 = i
  <2>1. Keeps(v1, v4) /\ i \in DOMAIN v1[p]
    BY <1>1, ArtifactTypes
  <2>2. PICK q \in v4 : q.svc = "memory" /\ q.path = p /\ q.version + 1 = i
    BY <2>1 DEF Keeps
  <2> QED
    BY <2>2 DEF Artifact!Saved
<1>4. v1[p] = <<>> <=> Len(v1[p]) = 0
  BY <1>1
<1>5. Len(v1[p]) = 0 => Artifact!Saved(p) = {}
  BY <1>2
<1>6. Len(v1[p]) # 0 => Artifact!Saved(p) # {}
  BY <1>1, <1>3
<1> QED
  BY <1>1, <1>2, <1>3, <1>4, <1>5, <1>6

(* What the invariant of the artifacts says of the answers of the memory   *)
(* service. *)
LEMMA ArtifactsImplied ==
  ASSUME ArtifactInv
  PROVE  /\ Artifact!SavesMakeNewVersions("memory")
         /\ Artifact!LoadsGiveTheLatest /\ Artifact!ListingsAreComplete
<1>1. Artifact!SavesMakeNewVersions("memory")
  BY ArtifactTypes DEF Keeps, Artifact!SavesMakeNewVersions
<1>2. v6 \in Artifact!Answers /\ Artifact!AnswerIsPresent
  BY DEF ArtifactInv, Artifact!TypeOK
<1>3. ASSUME v6.op = "load", v6.version >= 0
      PROVE  \/ v6.got = Artifact!NoBlob /\ Artifact!Saved(v6.path) = {}
             \/ \E q \in Artifact!Saved(v6.path) :
                  v6.got = q.data /\ \A r \in Artifact!Saved(v6.path) : r.version <= q.version
  <2>1. PICK p \in Artifact!Paths : p = v6.path
    BY <1>2, <1>3 DEF Artifact!Answers, Artifact!NoAnswer
  <2>2. v6.got = Artifact!Loaded(p, v6.version)
    BY <1>2, <1>3, <2>1 DEF Artifact!AnswerIsPresent
  <2>3. CASE v1[p] = <<>>
    BY <2>1, <2>2, <2>3, SavedAre DEF Artifact!Loaded
  <2>4. CASE v1[p] # <<>>
    <3>1. v6.got = v1[p][Len(v1[p])]
      BY <1>3, <2>2, <2>4 DEF Artifact!Loaded
    <3>2. Len(v1[p]) \in 1 .. Len(v1[p])
      BY <2>4, SavedAre
    <3>3. PICK q \in Artifact!Saved(p) : q.version + 1 = Len(v1[p])
      BY <3>2, SavedAre
    <3>4. \A r \in Artifact!Saved(p) : r.version <= q.version
      BY <3>3, SavedAre
    <3>5. v6.got = q.data
      BY <3>1, <3>3, SavedAre
    <3> QED
      BY <2>1, <3>3, <3>4, <3>5
  <2> QED
    BY <2>3, <2>4
<1>4. ASSUME v6.op = "versions"
      PROVE  v6.got = {q.version : q \in Artifact!Saved(v6.path)}
  <2>1. PICK p \in Artifact!Paths : p = v6.path
    BY <1>2, <1>4 DEF Artifact!Answers, Artifact!NoAnswer
  <2>2. v6.got = 0 .. Len(v1[p]) - 1
    BY <1>2, <1>4, <2>1 DEF Artifact!AnswerIsPresent, Artifact!Listed
  <2>3. \A q \in Artifact!Saved(p) : q.version \in v6.got
    BY <2>2, SavedAre
  <2>4. ASSUME NEW v \in v6.got
        PROVE  \E q \in Artifact!Saved(p) : q.version = v
    <3>1. v \in Nat /\ v + 1 \in 1 .. Len(v1[p])
      BY <2>2, <2>4, SavedAre
    <3>2. PICK q \in Artifact!Saved(p) : q.version + 1 = v + 1
      BY <3>1, SavedAre
    <3>3. q.version \in Nat
      BY <3>2, SavedAre
    <3> QED
      BY <3>1, <3>2, <3>3
  <2> QED
    BY <2>1, <2>3, <2>4
<1>5. ASSUME v6.op = "keys"
      PROVE  v6.got = {f \in Files \cup UserFiles : Artifact!Saved(Artifact!ArtifactPath(v6.session, f)) # {}}
  <2>1. PICK s \in FileSessions : s = v6.session
    BY <1>2, <1>5 DEF Artifact!Answers, Artifact!NoAnswer
  <2>2. v6.got = {f \in Files \cup UserFiles : v1[Artifact!ArtifactPath(s, f)] # <<>>}
    BY <1>2, <1>5, <2>1 DEF Artifact!AnswerIsPresent, Artifact!Keys
  <2>3. \A f \in Files \cup UserFiles :
          v1[Artifact!ArtifactPath(s, f)] # <<>> <=> Artifact!Saved(Artifact!ArtifactPath(s, f)) # {}
    BY PathIs, SavedAre
  <2> QED
    BY <2>1, <2>2, <2>3
<1>6. Artifact!LoadsGiveTheLatest
  BY <1>3 DEF Artifact!LoadsGiveTheLatest
<1>7. Artifact!ListingsAreComplete
  BY <1>4, <1>5 DEF Artifact!ListingsAreComplete
<1> QED
  BY <1>1, <1>6, <1>7

(* The inductive invariant of the artifacts. *)
LEMMA ArtifactInductive ==
  ASSUME ArtifactInv, Artifact!Next
  PROVE  ArtifactInv'
<1>1. ASSUME NEW s \in FileSessions, NEW f \in Files \cup UserFiles, NEW p, p = Artifact!ArtifactPath(s, f),
             \/ Artifact!DeleteArtifact(p) \/ Artifact!ListVersions(p)
             \/ \E version \in {-1} \cup Artifact!Versions : Artifact!LoadArtifact(p, version)
             \/ \E data \in FileContents : Artifact!SaveArtifact(p, data)
             \/ \E c \in Callers, data \in FileContents : Artifact!BeginSave(c, p, data)
             \/ \E c \in Callers : Artifact!BeginDelete(c, p) \/ Artifact!Open(c, p)
      PROVE  ArtifactInv'
  <2>1. p \in Artifact!Paths
    BY <1>1, PathIs
  <2> QED
    BY <1>1, <2>1, DeleteArtifactKeeps, SaveArtifactKeeps, BeginSaveKeeps, BeginOtherKeeps,
       ListVersionsKeeps, LoadKeeps
<1> QED
  BY <1>1, ListKeysKeeps, UpdateKeeps, ArtifactCloseKeeps, EndOtherKeeps DEF Artifact!Next

-----------------------------------------------------------------------------
(* The RAG service.                                                        *)

RagInv ==
  /\ Rag!TypeOK /\ Rag!BatchesDeleteInOrder /\ Rag!BatchesImportOnce /\ Rag!WaitedForIsPending
  /\ Rag!Progress /\ Rag!PendingOfCalls

(* How far call k is with its batch. *)
Counted(k) ==
  /\ k.at = "free" => k.kind = "none"
  /\ k.at \in {"send", "wait"} => k.kind # "none" /\ k.i \in DOMAIN k.batch
  /\ k.at \in {"send", "done"} => k.done = k.i - 1
  /\ k.at = "send" => k.result = "none"
  /\ k.at = "wait" => k.done = IF k.result = "ok" THEN k.i ELSE k.i - 1
  /\ k.at = "failed" => k.done <= k.i

(* What call k deleted is gone: F are the files, of m ever made. *)
Deleted(k, F, m) ==
  k.kind = "delete" =>
    /\ \A j \in DOMAIN k.batch : k.batch[j] \in 1 .. m
    /\ k.at \in {"send", "wait"} \/ k.i - 1 \in 0 .. Len(k.batch)
    /\ k.at = "wait" /\ k.result = "ok" => k.batch[k.i] \notin F
    /\ \A j \in 1 .. k.i - 1 : k.batch[j] \notin F

(* The server has the operation that call k of c waits for. *)
Awaited(c, k, P) ==
  k.at = "wait" /\ k.result = "none" => Rag!Operation(c, k.kind, k.batch[k.i]) \in P

CallTyped(k) == k.kind \in {"none"} \cup Rag!Kinds /\ k \in Rag!Calls(k.kind)

(* Operation op is that of the call k, which waits for it. *)
OperationOf(op, k) ==
  k.at = "wait" /\ k.result = "none" /\ op = Rag!Operation(op.by, k.kind, k.batch[k.i])

OperationTyped(op) == op.kind \in Rag!Kinds /\ op \in Rag!Operations(op.kind)

CorpusTyped(x) ==
  x \in [exists : BOOLEAN, backend : {{}} \cup {{b} : b \in Rag!Backends}, description : {""} \cup Callers]

(* The invariant, pointwise. *)
LEMMA RagFacts ==
  ASSUME RagInv
  PROVE  /\ CorpusTyped(v1) /\ v3 \in 0 .. MaxFiles /\ v2 \subseteq 1 .. v3 /\ DOMAIN v5 = Callers
         /\ \A op \in v4 : OperationTyped(op) /\ (op.by # "nobody" => OperationOf(op, v5[op.by]))
         /\ \A c \in Callers : /\ CallTyped(v5[c]) /\ Counted(v5[c]) /\ Deleted(v5[c], v2, v3)
                               /\ Awaited(c, v5[c], v4)
<1>1. /\ CorpusTyped(v1) /\ v3 \in 0 .. MaxFiles /\ v2 \subseteq 1 .. v3 /\ DOMAIN v5 = Callers
      /\ \A op \in v4 : OperationTyped(op)
      /\ \A c \in Callers : CallTyped(v5[c])
  BY DEF RagInv, Rag!TypeOK, CorpusTyped, OperationTyped, CallTyped
<1>2. /\ \A op \in v4 : op.by # "nobody" => OperationOf(op, v5[op.by])
      /\ \A c \in Callers : Awaited(c, v5[c], v4)
  BY DEF RagInv, Rag!PendingOfCalls, OperationOf, Awaited
<1>3. \A c \in Callers : Counted(v5[c])
  BY DEF RagInv, Rag!Progress, Counted
<1>4. \A c \in Callers : Deleted(v5[c], v2, v3)
  BY DEF RagInv, Rag!Progress, Rag!BatchesDeleteInOrder, Deleted
<1> QED
  BY <1>1, <1>2, <1>3, <1>4

(* What each step has to keep. *)
LEMMA RagKept ==
  ASSUME CorpusTyped(v1'), v3' \in 0 .. MaxFiles, v2' \subseteq 1 .. v3', DOMAIN v5' = Callers,
         \A op \in v4' : OperationTyped(op) /\ (op.by # "nobody" => OperationOf(op, v5'[op.by])),
         \A c \in Callers : /\ CallTyped(v5'[c]) /\ Counted(v5'[c]) /\ Deleted(v5'[c], v2', v3')
                            /\ Awaited(c, v5'[c], v4')
  PROVE  RagInv'
<1>1. Rag!TypeOK'
  BY DEF Rag!TypeOK, CorpusTyped, OperationTyped, CallTyped
<1>2. Rag!PendingOfCalls'
  BY DEF Rag!PendingOfCalls, OperationOf, Awaited
<1>3. Rag!Progress'
  BY DEF Rag!Progress, Counted, Deleted
<1>4. Rag!BatchesDeleteInOrder'
  BY DEF Rag!BatchesDeleteInOrder, Deleted
<1>5. Rag!BatchesImportOnce'
  BY DEF Rag!BatchesImportOnce, Counted
<1>6. Rag!WaitedForIsPending'
  <2>1. ASSUME NEW c \in Callers, v5'[c].at = "wait", v5'[c].result = "none"
        PROVE  \E op \in v4' : op.by = c
    <3>1. PICK op \in v4' : op = Rag!Operation(c, v5'[c].kind, v5'[c].batch[v5'[c].i])
      BY <2>1 DEF Awaited
    <3> QED
      BY <3>1 DEF Rag!Operation
  <2> QED
    BY <2>1 DEF Rag!WaitedForIsPending, Rag!At
<1> QED
  BY <1>1, <1>2, <1>3, <1>4, <1>5, <1>6 DEF RagInv

(* What a call is made of. *)
LEMMA RagCallIs ==
  ASSUME NEW k, CallTyped(k)
  PROVE  /\ k.at \in {"free", "send", "wait", "done", "failed"} /\ k.kind \in {"none", "delete", "import", "corpus"}
         /\ k.batch \in Seq(Rag!Members(k.kind)) /\ k.i \in Nat /\ k.result \in {"none", "ok", "error"}
         /\ k.copy \in Seq({""} \cup Callers) /\ k.done \in Nat
BY DEF CallTyped, Rag!Calls, Rag!Kinds

(* A call that waits or failed. *)
LEMMA CallWith ==
  ASSUME NEW x, CallTyped(x), NEW at \in {"send", "wait", "done", "failed"}
  PROVE  \E y : /\ y = [x EXCEPT !.at = at] /\ CallTyped(y) /\ y.at = at /\ y.kind = x.kind
                /\ y.batch = x.batch /\ y.i = x.i /\ y.result = x.result /\ y.done = x.done
<1>0. x \in Rag!Calls(x.kind)
  BY DEF CallTyped
<1>1. PICK y : y = [x EXCEPT !.at = at]
  OBVIOUS
<1>2. /\ CallTyped(y) /\ y.at = at /\ y.kind = x.kind
      /\ y.batch = x.batch /\ y.i = x.i /\ y.result = x.result /\ y.done = x.done
  BY <1>0, <1>1 DEF CallTyped, Rag!Calls
<1> QED
  BY <1>1, <1>2

(* A call that is answered. *)
LEMMA CallAnswered ==
  ASSUME NEW x, CallTyped(x)
  PROVE  \E y : /\ y = [x EXCEPT !.result = "ok", !.done = @ + 1] /\ CallTyped(y) /\ y.at = x.at
                /\ y.kind = x.kind /\ y.batch = x.batch /\ y.i = x.i /\ y.result = "ok" /\ y.done = x.done + 1
<1>0. x \in Rag!Calls(x.kind)
  BY DEF CallTyped
<1>1. x.done \in Nat
  BY RagCallIs
<1>2. PICK done \in Nat : done = x.done + 1
  BY <1>1
<1>3. PICK result \in {"none", "ok", "error"} : result = "ok"
  OBVIOUS
<1>5. PICK w : w = [x EXCEPT !.result = result, !.done = done]
  OBVIOUS
<1>6. /\ CallTyped(w) /\ w.at = x.at
      /\ w.kind = x.kind /\ w.batch = x.batch /\ w.i = x.i /\ w.result = result /\ w.done = done
  BY <1>0, <1>5 DEF CallTyped, Rag!Calls
<1> QED
  BY <1>2, <1>3, <1>5, <1>6

(* A call that is refused. *)
LEMMA CallRefused ==
  ASSUME NEW x, CallTyped(x)
  PROVE  \E y : /\ y = [x EXCEPT !.result = "error"] /\ CallTyped(y) /\ y.at = x.at
                /\ y.kind = x.kind /\ y.batch = x.batch /\ y.i = x.i /\ y.result = "error" /\ y.done = x.done
<1>0. x \in Rag!Calls(x.kind)
  BY DEF CallTyped
<1>1. PICK result \in {"none", "ok", "error"} : result = "error"
  OBVIOUS
<1>7. PICK u : u = [x EXCEPT !.result = result]
  OBVIOUS
<1>8. /\ CallTyped(u) /\ u.at = x.at
      /\ u.kind = x.kind /\ u.batch = x.batch /\ u.i = x.i /\ u.result = result /\ u.done = x.done
  BY <1>0, <1>7 DEF CallTyped, Rag!Calls
<1> QED
  BY <1>1, <1>7, <1>8

(* A copy of the corpus is read, or given back. *)
LEMMA CopyTaken ==
  ASSUME NEW x, CallTyped(x), NEW copy \in Seq({""} \cup Callers)
  PROVE  \E y : /\ y = [x EXCEPT !.copy = copy] /\ CallTyped(y) /\ y.at = x.at /\ y.kind = x.kind
                /\ y.batch = x.batch /\ y.i = x.i /\ y.result = x.result /\ y.done = x.done
<1>0. x \in Rag!Calls(x.kind)
  BY DEF CallTyped
<1>1. PICK y : y = [x EXCEPT !.copy = copy]
  OBVIOUS
<1>2. /\ CallTyped(y) /\ y.at = x.at /\ y.kind = x.kind
      /\ y.batch = x.batch /\ y.i = x.i /\ y.result = x.result /\ y.done = x.done
  BY <1>0, <1>1 DEF CallTyped, Rag!Calls
<1> QED
  BY <1>1, <1>2

(* An operation. *)
LEMMA OperationIs ==
  ASSUME NEW c \in {"nobody"} \cup Callers, NEW kind \in {"delete", "import", "corpus"}, NEW of \in Rag!Members(kind),
         NEW op, op = Rag!Operation(c, kind, of)
  PROVE  OperationTyped(op) /\ op.by = c /\ op.kind = kind /\ op.of = of
BY DEF OperationTyped, Rag!Operations, Rag!Operation, Rag!Kinds

(* An operation that nobody waits for any more. *)
LEMMA OrphanIs ==
  ASSUME NEW op, OperationTyped(op)
  PROVE  OperationTyped(Rag!Orphan(op)) /\ Rag!Orphan(op).by = "nobody"
<1>1. op \in Rag!Operations(op.kind)
  BY DEF OperationTyped
<1>2. PICK nobody : nobody = "nobody"
  OBVIOUS
<1>3. PICK y : y = [op EXCEPT !.by = nobody]
  OBVIOUS
<1>4. OperationTyped(y) /\ y.by = nobody
  BY <1>1, <1>2, <1>3 DEF OperationTyped, Rag!Operations
<1> QED
  BY <1>2, <1>3, <1>4 DEF Rag!Orphan

(* What is deleted stays so when files go and new ones come. *)
LEMMA StaysDeleted ==
  ASSUME NEW k, CallTyped(k), NEW F, NEW G, NEW m \in Nat, NEW n \in Nat, m <= n, Counted(k), Deleted(k, F, m),
         \A f \in G : f \in F \/ f = m + 1
  PROVE  Deleted(k, G, n)
<1> SUFFICES ASSUME k.kind = "delete"
             PROVE  Deleted(k, G, n)
  BY DEF Deleted
<1>1. k.batch \in Seq(Rag!Members(k.kind)) /\ k.i \in Nat
  BY RagCallIs
<1>2. \A j \in DOMAIN k.batch : k.batch[j] \in 1 .. m /\ k.batch[j] \in 1 .. n /\ (k.batch[j] \notin F => k.batch[j] \notin G)
  BY DEF Deleted
<1>3. DOMAIN k.batch = 1 .. Len(k.batch) /\ Len(k.batch) \in Nat
  BY <1>1
<1>4. k.i - 1 <= Len(k.batch)
  BY <1>1, <1>3 DEF Deleted, Counted
<1>5. ASSUME NEW j \in 1 .. k.i - 1
      PROVE  k.batch[j] \notin G
  <2>1. k.batch[j] \notin F
    BY DEF Deleted
  <2>2. j \in DOMAIN k.batch
    BY <1>1, <1>3, <1>4
  <2> QED
    BY <1>2, <2>1, <2>2
<1>6. k.at = "wait" /\ k.result = "ok" => k.batch[k.i] \notin G
  BY <1>2 DEF Deleted, Counted
<1>7. k.at \in {"send", "wait"} \/ k.i - 1 \in 0 .. Len(k.batch)
  BY DEF Deleted
<1> QED
  BY <1>2, <1>5, <1>6, <1>7 DEF Deleted

(* Short sequences. *)
LEMMA ShortSequences ==
  ASSUME NEW S
  PROVE  /\ <<>> \in Seq(S) /\ \A x \in S : <<x>> \in Seq(S)
         /\ \A s \in Seq(S) : s # <<>> => s[1] \in S
OBVIOUS

(* A call that is free. *)
LEMMA RagFreeIs ==
  /\ CallTyped(Rag!Free) /\ Rag!Free.at = "free" /\ Rag!Free.kind = "none"
  /\ Rag!Free.i = 0 /\ Rag!Free.done = 0 /\ Rag!Free.result = "none"
<1>1. PICK copy \in Seq({""} \cup Callers), batch \in Seq(Rag!Members("none")) : copy = <<>> /\ batch = <<>>
  BY ShortSequences
<1>2. Rag!Free \in Rag!Calls("none")
  BY <1>1 DEF Rag!Free, Rag!Calls
<1> QED
  BY <1>2 DEF CallTyped, Rag!Free

(* A call begins with a batch. *)
LEMMA CallBegins ==
  ASSUME NEW at \in {"send", "wait"}, NEW kind \in {"delete", "import", "corpus"}, NEW batch \in Seq(Rag!Members(kind))
  PROVE  \E y : /\ y = [Rag!Free EXCEPT !.at = at, !.kind = kind, !.batch = batch, !.i = 1]
                /\ CallTyped(y) /\ y.at = at /\ y.kind = kind /\ y.batch = batch /\ y.i = 1
                /\ y.result = "none" /\ y.done = 0
<1>1. PICK one \in Nat : one = 1
  OBVIOUS
<1>2. PICK x : x = Rag!Free
  OBVIOUS
<1>3. x \in Rag!Calls("none") /\ x.result = "none" /\ x.done = 0
  BY <1>2, RagFreeIs DEF CallTyped
<1>4. PICK y : y = [x EXCEPT !.at = at, !.kind = kind, !.batch = batch, !.i = one]
  OBVIOUS
<1>5. /\ CallTyped(y) /\ y.at = at /\ y.kind = kind /\ y.batch = batch /\ y.i = one
      /\ y.result = x.result /\ y.done = x.done
  BY <1>3, <1>4 DEF CallTyped, Rag!Calls, Rag!Kinds
<1> QED
  BY <1>1, <1>2, <1>3, <1>4, <1>5

(* A step of one call, while the files stay. *)
LEMMA CallMoves ==
  ASSUME RagInv, NEW c \in Callers, NEW y, CallTyped(y), Counted(y), Deleted(y, v2, v3), Awaited(c, y, v4'),
         v5' = [v5 EXCEPT ![c] = y], CorpusTyped(v1'), UNCHANGED <<v2, v3>>,
         \A op \in v4' : /\ OperationTyped(op) /\ (op.by = c => OperationOf(op, y))
                         /\ op \in v4 \/ op.by \in {c, "nobody"},
         \A op \in v4 : op.by # c => op \in v4'
  PROVE  RagInv'
<1>1. DOMAIN v5' = Callers /\ v5'[c] = y /\ \A d \in Callers : d # c => v5'[d] = v5[d]
  BY RagFacts
<1>2. v3' \in 0 .. MaxFiles /\ v2' \subseteq 1 .. v3'
  BY RagFacts
<1>3. ASSUME NEW op \in v4', op.by # "nobody"
      PROVE  OperationOf(op, v5'[op.by])
  <2>1. CASE op.by = c
    BY <1>1, <2>1
  <2>2. CASE op.by # c
    <3>1. op \in v4 /\ OperationOf(op, v5[op.by])
      BY <1>3, <2>2, RagFacts
    <3>2. op.by \in Callers
      BY <1>3 DEF OperationTyped, Rag!Operations
    <3> QED
      BY <1>1, <2>2, <3>1, <3>2
  <2> QED
    BY <2>1, <2>2
<1>4. ASSUME NEW d \in Callers
      PROVE  /\ CallTyped(v5'[d]) /\ Counted(v5'[d]) /\ Deleted(v5'[d], v2', v3')
             /\ Awaited(d, v5'[d], v4')
  <2>1. CASE d = c
    BY <1>1, <2>1
  <2>2. CASE d # c
    <3>1. /\ v5'[d] = v5[d] /\ CallTyped(v5[d]) /\ Counted(v5[d]) /\ Deleted(v5[d], v2, v3)
          /\ Awaited(d, v5[d], v4)
      BY <1>1, <2>2, RagFacts
    <3>2. PICK op : op = Rag!Operation(d, v5[d].kind, v5[d].batch[v5[d].i])
      OBVIOUS
    <3>3. op.by = d
      BY <3>2 DEF Rag!Operation
    <3>4. Awaited(d, v5[d], v4')
      BY <2>2, <3>1, <3>2, <3>3 DEF Awaited
    <3> QED
      BY <3>1, <3>4
  <2> QED
    BY <2>1, <2>2
<1> QED
  BY <1>1, <1>2, <1>3, <1>4, RagKept

(* A step of one call for which the server has no operation before or after. *)
LEMMA CallMovesAlone ==
  ASSUME RagInv, NEW c \in Callers, NEW y, CallTyped(y), Counted(y), Deleted(y, v2, v3), y.at # "wait",
         v5[c].at # "wait" \/ v5[c].result # "none",
         v5' = [v5 EXCEPT ![c] = y], CorpusTyped(v1'), UNCHANGED <<v2, v3, v4>>
  PROVE  RagInv'
<1>1. \A op \in v4 : op.by # c
  <2>1. c # "nobody"
    BY RagAssumption
  <2> QED
    BY <2>1, RagFacts DEF OperationOf
<1>2. Awaited(c, y, v4')
  BY DEF Awaited
<1>3. /\ \A op \in v4' : /\ OperationTyped(op) /\ (op.by = c => OperationOf(op, y))
                         /\ op \in v4 \/ op.by \in {c, "nobody"}
      /\ \A op \in v4 : op.by # c => op \in v4'
  BY <1>1, RagFacts
<1> QED
  BY <1>2, <1>3, CallMoves

(* CreateCorpus: the corpus has at most one backend. *)
LEMMA CreateCorpusKeeps ==
  ASSUME RagInv, NEW c \in Callers, NEW config \in CorpusConfigs, Rag!CreateCorpus(c, config)
  PROVE  RagInv'
<1>0. UNCHANGED <<v2, v3, v4, v5>>
  BY DEF Rag!CreateCorpus
<1>1. PICK pb : pb = Rag!convertVectorDbConfigToPb(config)
  OBVIOUS
<1>2. PICK backend \in {{}} \cup {{b} : b \in Rag!Backends} : backend = Rag!convertPbToVectorDbConfig(pb)
  BY ZenonT(40) DEF Rag!convertPbToVectorDbConfig
<1>3. PICK yes \in BOOLEAN : yes = TRUE
  OBVIOUS
<1>4. v1' = [exists |-> yes, description |-> "", backend |-> backend]
  BY <1>1, <1>2, <1>3 DEF Rag!CreateCorpus
<1>5. CorpusTyped(v1')
  BY <1>4 DEF CorpusTyped
<1>6. v3' \in 0 .. MaxFiles /\ v2' \subseteq 1 .. v3' /\ DOMAIN v5' = Callers
  BY <1>0, RagFacts
<1>7. \A op \in v4' : OperationTyped(op) /\ (op.by # "nobody" => OperationOf(op, v5'[op.by]))
  BY <1>0, RagFacts
<1>8. \A d \in Callers : /\ CallTyped(v5'[d]) /\ Counted(v5'[d]) /\ Deleted(v5'[d], v2', v3')
                         /\ Awaited(d, v5'[d], v4')
  BY <1>0, RagFacts
<1> QED
  BY <1>5, <1>6, <1>7, <1>8, RagKept

(* What a free call is like with another copy of the corpus. *)
LEMMA CopyKeeps ==
  ASSUME RagInv, NEW c \in Callers, v5[c].at = "free", NEW copy \in Seq({""} \cup Callers),
         v5' = [v5 EXCEPT ![c].copy = copy], CorpusTyped(v1'), UNCHANGED <<v2, v3, v4>>
  PROVE  RagInv'
<1>1. PICK x : x = v5[c]
  OBVIOUS
<1>2. CallTyped(x) /\ x.at = "free" /\ x.kind = "none"
  BY <1>1, RagFacts DEF Counted
<1>3. PICK y : /\ y = [x EXCEPT !.copy = copy] /\ CallTyped(y) /\ y.at = x.at /\ y.kind = x.kind
               /\ y.batch = x.batch /\ y.i = x.i /\ y.result = x.result /\ y.done = x.done
  BY <1>2, CopyTaken
<1>4. v5' = [v5 EXCEPT ![c] = y]
  BY <1>1, <1>3
<1>5. Counted(y) /\ Deleted(y, v2, v3)
  BY <1>2, <1>3 DEF Counted, Deleted
<1> QED
  BY <1>2, <1>3, <1>4, <1>5, CallMovesAlone

(* GetCorpus. *)
LEMMA GetCorpusKeeps ==
  ASSUME RagInv, NEW c \in Callers, Rag!GetCorpus(c)
  PROVE  RagInv'
<1>1. PICK description \in {""} \cup Callers : description = v1.description
  BY RagFacts DEF CorpusTyped
<1>3. PICK copy \in Seq({""} \cup Callers) : copy = <<v1.description>>
  BY <1>1, ShortSequences
<1>4. v5' = [v5 EXCEPT ![c].copy = copy] /\ v5[c].at = "free" /\ UNCHANGED <<v1, v2, v3, v4>>
  BY <1>3 DEF Rag!GetCorpus, Rag!At
<1>5. CorpusTyped(v1')
  BY <1>4, RagFacts
<1> QED
  BY <1>4, <1>5, CopyKeeps

(* UpdateCorpus. *)
LEMMA UpdateCorpusKeeps ==
  ASSUME RagInv, NEW c \in Callers, NEW field \in {"displayName", "description"}, Rag!UpdateCorpus(c, field)
  PROVE  RagInv'
<1>0. v5[c].at = "free" /\ v5[c].copy # <<>> /\ UNCHANGED <<v2, v3, v4>>
  BY DEF Rag!UpdateCorpus, Rag!At
<1>1. PICK old \in Seq({""} \cup Callers) : old = v5[c].copy
  BY RagFacts, RagCallIs
<1>2. old[1] \in {""} \cup Callers
  BY <1>0, <1>1, ShortSequences
<1>3. PICK description \in {""} \cup Callers : description = IF field = "description" THEN c ELSE v5[c].copy[1]
  BY <1>1, <1>2
<1>4. v1' = [v1 EXCEPT !.description = description]
  BY <1>3 DEF Rag!UpdateCorpus
<1>5. CorpusTyped(v1')
  BY <1>4, RagFacts DEF CorpusTyped
<1>6. PICK copy \in Seq({""} \cup Callers) : copy = <<>>
  BY ShortSequences
<1>7. v5' = [v5 EXCEPT ![c].copy = copy]
  BY <1>6 DEF Rag!UpdateCorpus
<1> QED
  BY <1>0, <1>5, <1>7, CopyKeeps

(* What was deleted stays so while files come or go. *)
LEMMA FilesChange ==
  ASSUME RagInv, v3' = v3 \/ v3' = v3 + 1, v3' <= MaxFiles, \A f \in v2' : f \in v2 \/ (f = v3 + 1 /\ v3' = v3 + 1)
  PROVE  /\ v3' \in 0 .. MaxFiles /\ v2' \subseteq 1 .. v3'
         /\ \A c \in Callers : Deleted(v5[c], v2', v3')
<1>1. v3 \in Nat /\ v3' \in Nat /\ v3 <= v3' /\ v2 \subseteq 1 .. v3
  BY RagFacts, RagAssumption
<1>2. v3' \in 0 .. MaxFiles /\ v2' \subseteq 1 .. v3'
  <2>1. ASSUME NEW f \in v2'
        PROVE  f \in 1 .. v3'
    <3>1. CASE f \in v2
      BY <1>1, <3>1
    <3>2. CASE f = v3 + 1 /\ v3' = v3 + 1
      BY <1>1, <3>2
    <3> QED
      BY <3>1, <3>2
  <2> QED
    BY <1>1, <2>1, RagAssumption
<1>3. PICK F, G : F = v2 /\ G = v2'
  OBVIOUS
<1>m. PICK m \in Nat, n \in Nat : m = v3 /\ n = v3'
  BY <1>1
<1>4. ASSUME NEW c \in Callers
      PROVE  Deleted(v5[c], v2', v3')
  <2>1. PICK k : k = v5[c]
    OBVIOUS
  <2>2. CallTyped(k) /\ Counted(k) /\ Deleted(k, F, m)
    BY <1>3, <1>m, <2>1, RagFacts
  <2>3. m <= n /\ \A f \in G : f \in F \/ f = m + 1
    BY <1>1, <1>3, <1>m
  <2>4. Deleted(k, G, n)
    BY <2>2, <2>3, StaysDeleted
  <2> QED
    BY <1>3, <1>m, <2>1, <2>4
<1> QED
  BY <1>2, <1>4

(* UploadFile. *)
LEMMA UploadFileKeeps ==
  ASSUME RagInv, NEW c \in Callers, NEW hasText \in BOOLEAN, Rag!UploadFile(c, hasText)
  PROVE  RagInv'
<1>0. UNCHANGED <<v1, v4, v5>>
  BY DEF Rag!UploadFile
<1>1. v3' = v3 \/ v3' = v3 + 1
  BY DEF Rag!UploadFile
<1>2. v3' <= MaxFiles
  BY RagFacts, RagAssumption DEF Rag!UploadFile
<1>3. \A f \in v2' : f \in v2 \/ (f = v3 + 1 /\ v3' = v3 + 1)
  BY DEF Rag!UploadFile
<1>4. /\ v3' \in 0 .. MaxFiles /\ v2' \subseteq 1 .. v3'
      /\ \A d \in Callers : Deleted(v5[d], v2', v3')
  BY <1>1, <1>2, <1>3, FilesChange
<1>5. \A d \in Callers : /\ CallTyped(v5'[d]) /\ Counted(v5'[d]) /\ Deleted(v5'[d], v2', v3')
                         /\ Awaited(d, v5'[d], v4')
  BY <1>0, <1>4, RagFacts
<1>6. \A op \in v4' : OperationTyped(op) /\ (op.by # "nobody" => OperationOf(op, v5'[op.by]))
  BY <1>0, RagFacts
<1>7. CorpusTyped(v1') /\ DOMAIN v5' = Callers
  BY <1>0, RagFacts
<1> QED
  BY <1>4, <1>5, <1>6, <1>7, RagKept

(* A batch has a first member. *)
LEMMA BatchIs ==
  ASSUME NEW S, NEW T, S \subseteq T, NEW batch \in Rag!Batches(S)
  PROVE  batch \in Seq(T) /\ 1 \in DOMAIN batch /\ \A j \in DOMAIN batch : batch[j] \in S
<1>1. CASE \E x \in S : batch = <<x>>
  BY <1>1
<1>2. CASE \E x \in S, y \in S : batch = <<x, y>>
  BY <1>2
<1> QED
  BY <1>1, <1>2 DEF Rag!Batches

(* BatchDeleteFiles and BatchImportFiles. *)
LEMMA BatchKeeps ==
  ASSUME RagInv, NEW c \in Callers,
         \/ \E batch \in Rag!Batches(1 .. v3) : Rag!BatchDeleteFiles(c, batch)
         \/ \E batch \in Rag!Batches(Rag!Sources) : Rag!BatchImportFiles(c, batch)
  PROVE  RagInv'
<1>0. v5[c].at = "free" /\ UNCHANGED <<v1, v2, v3, v4>>
  BY DEF Rag!BatchDeleteFiles, Rag!BatchImportFiles, Rag!At
<1>s. PICK kind \in {"delete", "import", "corpus"} : \E batch :
        /\ batch \in Seq(Rag!Members(kind))
        /\ v5' = [v5 EXCEPT ![c] = [Rag!Free EXCEPT !.at = "send", !.kind = kind, !.batch = batch, !.i = 1]]
        /\ 1 \in DOMAIN batch /\ (kind = "delete" => \A j \in DOMAIN batch : batch[j] \in 1 .. v3)
  <2>1. ASSUME NEW batch \in Rag!Batches(1 .. v3), Rag!BatchDeleteFiles(c, batch)
        PROVE  \E kind \in {"delete"} : \E b :
                 /\ b \in Seq(Rag!Members(kind))
                 /\ v5' = [v5 EXCEPT ![c] = [Rag!Free EXCEPT !.at = "send", !.kind = kind, !.batch = b, !.i = 1]]
                 /\ 1 \in DOMAIN b /\ (kind = "delete" => \A j \in DOMAIN b : b[j] \in 1 .. v3)
    <3>1. 1 .. v3 \subseteq 0 .. MaxFiles
      BY RagFacts, RagAssumption
    <3>2. Rag!Members("delete") = 0 .. MaxFiles
      BY DEF Rag!Members
    <3>3. batch \in Seq(Rag!Members("delete")) /\ 1 \in DOMAIN batch /\ \A j \in DOMAIN batch : batch[j] \in 1 .. v3
      BY <3>1, <3>2, BatchIs
    <3> QED
      BY <2>1, <3>3 DEF Rag!BatchDeleteFiles
  <2>2. ASSUME NEW batch \in Rag!Batches(Rag!Sources), Rag!BatchImportFiles(c, batch)
        PROVE  \E kind \in {"import"} : \E b :
                 /\ b \in Seq(Rag!Members(kind))
                 /\ v5' = [v5 EXCEPT ![c] = [Rag!Free EXCEPT !.at = "send", !.kind = kind, !.batch = b, !.i = 1]]
                 /\ 1 \in DOMAIN b /\ (kind = "delete" => \A j \in DOMAIN b : b[j] \in 1 .. v3)
    <3>1. Rag!Members("import") = Rag!Sources
      BY DEF Rag!Members
    <3>2. batch \in Seq(Rag!Members("import")) /\ 1 \in DOMAIN batch
      BY <3>1, BatchIs
    <3> QED
      BY <2>2, <3>2 DEF Rag!BatchImportFiles
  <2> QED
    BY <2>1, <2>2
<1>1. PICK batch :
        /\ batch \in Seq(Rag!Members(kind))
        /\ v5' = [v5 EXCEPT ![c] = [Rag!Free EXCEPT !.at = "send", !.kind = kind, !.batch = batch, !.i = 1]]
        /\ 1 \in DOMAIN batch /\ (kind = "delete" => \A j \in DOMAIN batch : batch[j] \in 1 .. v3)
  BY <1>s
<1>k. kind \in {"delete", "import", "corpus"} /\ batch \in Seq(Rag!Members(kind))
  BY <1>1
<1>f. PICK free : free = Rag!Free
  OBVIOUS
<1>t. free \in Rag!Calls("none") /\ free.result = "none" /\ free.done = 0
  BY <1>f, RagFreeIs DEF CallTyped
<1>o. PICK at \in {"send", "wait"}, one \in Nat : at = "send" /\ one = 1
  OBVIOUS
<1>y. PICK y : y = [free EXCEPT !.at = at, !.kind = kind, !.batch = batch, !.i = one]
  OBVIOUS
<1>z. /\ CallTyped(y) /\ y.at = at /\ y.kind = kind /\ y.batch = batch /\ y.i = one
      /\ y.result = free.result /\ y.done = free.done
  BY <1>k, <1>t, <1>y DEF CallTyped, Rag!Calls, Rag!Kinds
<1>2. /\ y = [Rag!Free EXCEPT !.at = "send", !.kind = kind, !.batch = batch, !.i = 1]
      /\ CallTyped(y) /\ y.at = "send" /\ y.kind = kind /\ y.batch = batch /\ y.i = 1
      /\ y.result = "none" /\ y.done = 0
  BY <1>f, <1>t, <1>o, <1>y, <1>z
<1>3. Counted(y)
  BY <1>1, <1>2 DEF Counted
<1>4. Deleted(y, v2, v3)
  BY <1>1, <1>2 DEF Deleted
<1>5. CorpusTyped(v1') /\ v5' = [v5 EXCEPT ![c] = y]
  BY <1>0, <1>1, <1>2, RagFacts
<1> QED
  BY <1>0, <1>2, <1>3, <1>4, <1>5, CallMovesAlone

(* An operation is sent to the server for c, which waits for it. *)
LEMMA CallSends ==
  ASSUME RagInv, NEW c \in Callers, v5[c].at # "wait", NEW y, CallTyped(y), Counted(y), Deleted(y, v2, v3),
         y.at = "wait", y.result = "none", UNCHANGED <<v1, v2, v3>>, v5' = [v5 EXCEPT ![c] = y],
         v4' = v4 \cup {Rag!Operation(c, y.kind, y.batch[y.i])}
  PROVE  RagInv'
<1>1. y.kind \in {"delete", "import", "corpus"} /\ y.batch[y.i] \in Rag!Members(y.kind)
  BY RagCallIs, ElementIs DEF Counted
<1>2. PICK op : op = Rag!Operation(c, y.kind, y.batch[y.i])
  OBVIOUS
<1>a. c \in {"nobody"} \cup Callers
  OBVIOUS
<1>3. OperationTyped(op) /\ op.by = c
  BY <1>1, <1>2, <1>a, OperationIs
<1>4. OperationOf(op, y)
  BY <1>2, <1>3 DEF OperationOf
<1>5. \A other \in v4 : other.by # c
  <2>1. c # "nobody"
    BY RagAssumption
  <2> QED
    BY <2>1, RagFacts DEF OperationOf
<1>6. /\ \A other \in v4' : /\ OperationTyped(other) /\ (other.by = c => OperationOf(other, y))
                            /\ other \in v4 \/ other.by \in {c, "nobody"}
      /\ \A other \in v4 : other.by # c => other \in v4'
  BY <1>2, <1>3, <1>4, <1>5, RagFacts
<1>7. Awaited(c, y, v4')
  BY DEF Awaited
<1>8. CorpusTyped(v1')
  BY RagFacts
<1> QED
  BY <1>6, <1>7, <1>8, CallMoves

(* DeleteCorpus. *)
LEMMA DeleteCorpusKeeps ==
  ASSUME RagInv, NEW c \in Callers, NEW force \in BOOLEAN, Rag!DeleteCorpus(c, force)
  PROVE  RagInv'
<1>0. v5[c].at = "free" /\ UNCHANGED <<v1, v2, v3>>
  BY DEF Rag!DeleteCorpus, Rag!At
<1>1. CASE v5' = [v5 EXCEPT ![c] = [Rag!Free EXCEPT !.at = "failed"]] /\ v4' = v4
  <2>x. PICK x : x = Rag!Free /\ CallTyped(x) /\ x.kind = "none" /\ x.i = 0 /\ x.done = 0
    BY RagFreeIs
  <2>w. CallTyped(x)
    BY <2>x
  <2>y. PICK y : /\ y = [x EXCEPT !.at = "failed"] /\ CallTyped(y) /\ y.at = "failed" /\ y.kind = x.kind
                 /\ y.batch = x.batch /\ y.i = x.i /\ y.result = x.result /\ y.done = x.done
    BY <2>w, CallWith
  <2>1. /\ y = [Rag!Free EXCEPT !.at = "failed"] /\ CallTyped(y) /\ y.at = "failed" /\ y.kind = "none"
        /\ y.i = 0 /\ y.done = 0
    BY <2>x, <2>y
  <2>2. Counted(y) /\ Deleted(y, v2, v3)
    BY <2>1 DEF Counted, Deleted
  <2>3. CorpusTyped(v1') /\ v5' = [v5 EXCEPT ![c] = y]
    BY <1>0, <1>1, <2>1, RagFacts
  <2> QED
    BY <1>0, <1>1, <2>1, <2>2, <2>3, CallMovesAlone
<1>2. CASE /\ v5' = [v5 EXCEPT ![c] = [Rag!Free EXCEPT !.at = "wait", !.kind = "corpus", !.batch = <<0>>, !.i = 1]]
           /\ v4' = v4 \cup {Rag!Operation(c, "corpus", 0)}
  <2>1. 0 \in Rag!Members("corpus")
    BY RagAssumption DEF Rag!Members
  <2>2. PICK batch \in Seq(Rag!Members("corpus")) : batch = <<0>>
    BY <2>1, ShortSequences
  <2>3. PICK y : /\ y = [Rag!Free EXCEPT !.at = "wait", !.kind = "corpus", !.batch = batch, !.i = 1]
                 /\ CallTyped(y) /\ y.at = "wait" /\ y.kind = "corpus" /\ y.batch = batch /\ y.i = 1
                 /\ y.result = "none" /\ y.done = 0
    BY CallBegins
  <2>4. 1 \in DOMAIN batch /\ batch[1] = 0
    BY <2>2
  <2>5. Counted(y) /\ Deleted(y, v2, v3)
    BY <2>3, <2>4 DEF Counted, Deleted
  <2>6. v5' = [v5 EXCEPT ![c] = y] /\ v4' = v4 \cup {Rag!Operation(c, y.kind, y.batch[y.i])}
    BY <1>2, <2>2, <2>3, <2>4
  <2> QED
    BY <1>0, <2>3, <2>5, <2>6, CallSends
<1> QED
  BY <1>1, <1>2 DEF Rag!DeleteCorpus

(* Send. *)
LEMMA SendKeeps ==
  ASSUME RagInv, NEW c \in Callers, Rag!Send(c)
  PROVE  RagInv'
<1>0. v5[c].at = "send" /\ UNCHANGED <<v1, v2, v3>>
  BY DEF Rag!Send, Rag!At
<1>1. PICK x : x = v5[c]
  OBVIOUS
<1>2. CallTyped(x) /\ Counted(x) /\ Deleted(x, v2, v3) /\ x.at = "send"
  BY <1>0, <1>1, RagFacts
<1>a. x.i \in Nat /\ x.done \in Nat /\ DOMAIN x.batch = 1 .. Len(x.batch) /\ Len(x.batch) \in Nat
  <2>1. x.batch \in Seq(Rag!Members(x.kind)) /\ x.i \in Nat /\ x.done \in Nat
    BY <1>2, RagCallIs
  <2> QED
    BY <2>1
<1>b. x.result = "none" /\ x.i \in DOMAIN x.batch /\ x.kind # "none" /\ x.done = x.i - 1
  BY <1>2 DEF Counted
<1>3. x.i \in Nat /\ x.done \in Nat /\ x.result = "none" /\ x.i \in DOMAIN x.batch /\ x.kind # "none"
      /\ x.done = x.i - 1 /\ DOMAIN x.batch = 1 .. Len(x.batch) /\ Len(x.batch) \in Nat
  BY <1>a, <1>b
<1>4. CASE v5' = [v5 EXCEPT ![c].at = "failed"] /\ v4' = v4
  <2>1. PICK y : /\ y = [x EXCEPT !.at = "failed"] /\ CallTyped(y) /\ y.at = "failed" /\ y.kind = x.kind
                 /\ y.batch = x.batch /\ y.i = x.i /\ y.result = x.result /\ y.done = x.done
    BY <1>2, CallWith
  <2>2. Counted(y)
    BY <1>3, <2>1 DEF Counted
  <2>3. Deleted(y, v2, v3)
    BY <1>2, <1>3, <2>1 DEF Deleted
  <2>4. CorpusTyped(v1') /\ v5' = [v5 EXCEPT ![c] = y]
    BY <1>0, <1>1, <1>4, <2>1, RagFacts
  <2> QED
    BY <1>0, <1>4, <2>1, <2>2, <2>3, <2>4, CallMovesAlone
<1>5. CASE /\ v5' = [v5 EXCEPT ![c].at = "wait"]
           /\ v4' = v4 \cup {Rag!Operation(c, v5[c].kind, v5[c].batch[v5[c].i])}
  <2>1. PICK y : /\ y = [x EXCEPT !.at = "wait"] /\ CallTyped(y) /\ y.at = "wait" /\ y.kind = x.kind
                 /\ y.batch = x.batch /\ y.i = x.i /\ y.result = x.result /\ y.done = x.done
    BY <1>2, CallWith
  <2>2. Counted(y)
    BY <1>3, <2>1 DEF Counted
  <2>3. Deleted(y, v2, v3)
    BY <1>2, <1>3, <2>1 DEF Deleted
  <2>4. v5' = [v5 EXCEPT ![c] = y] /\ v4' = v4 \cup {Rag!Operation(c, y.kind, y.batch[y.i])}
    BY <1>1, <1>5, <2>1
  <2> QED
    BY <1>0, <1>3, <2>1, <2>2, <2>3, <2>4, CallSends
<1> QED
  BY <1>4, <1>5 DEF Rag!Send

(* Return. *)
LEMMA ReturnKeeps ==
  ASSUME RagInv, NEW c \in Callers, Rag!Return(c)
  PROVE  RagInv'
<1>0. v5[c].at # "wait" /\ v5' = [v5 EXCEPT ![c] = Rag!Free] /\ UNCHANGED <<v1, v2, v3, v4>>
  BY DEF Rag!Return
<1>1. PICK y : y = Rag!Free /\ CallTyped(y) /\ y.at = "free" /\ y.kind = "none"
  BY RagFreeIs
<1>2. Counted(y) /\ Deleted(y, v2, v3)
  BY <1>1 DEF Counted, Deleted
<1>3. CorpusTyped(v1') /\ v5' = [v5 EXCEPT ![c] = y]
  BY <1>0, <1>1, RagFacts
<1> QED
  BY <1>0, <1>1, <1>2, <1>3, CallMovesAlone

(* Wait: the call goes on to the next member, or gives the operation up. *)
LEMMA WaitKeeps ==
  ASSUME RagInv, NEW c \in Callers, Rag!Wait(c)
  PROVE  RagInv'
<1>0. v5[c].at = "wait" /\ UNCHANGED <<v1, v2, v3>>
  BY DEF Rag!Wait, Rag!At
<1>1. PICK x : x = v5[c]
  OBVIOUS
<1>2. CallTyped(x) /\ Counted(x) /\ Deleted(x, v2, v3) /\ x.at = "wait"
  BY <1>0, <1>1, RagFacts
<1>a. x.i \in Nat /\ x.done \in Nat /\ DOMAIN x.batch = 1 .. Len(x.batch) /\ Len(x.batch) \in Nat
  <2>1. x.batch \in Seq(Rag!Members(x.kind)) /\ x.i \in Nat /\ x.done \in Nat
    BY <1>2, RagCallIs
  <2> QED
    BY <2>1
<1>b. x.i \in DOMAIN x.batch /\ x.kind # "none" /\ x.done = IF x.result = "ok" THEN x.i ELSE x.i - 1
  BY <1>2 DEF Counted
<1>v. CorpusTyped(v1')
  BY <1>0, RagFacts
<1>4. ASSUME x.result = "ok", v4' = v4,
             v5' = [v5 EXCEPT ![c].at = IF v5[c].i = Len(v5[c].batch) THEN "done" ELSE "send",
                              ![c].i = @ + 1, ![c].result = "none"]
      PROVE  RagInv'
  <2>1. PICK at \in {"send", "done"} : at = IF x.i = Len(x.batch) THEN "done" ELSE "send"
    OBVIOUS
  <2>2. PICK i \in Nat : i = x.i + 1
    BY <1>a
  <2>a. at \in {"send", "done"} /\ i \in Nat
    BY <2>1, <2>2
  <2>b. PICK result \in {"none"} : result = "none"
    OBVIOUS
  <2>c. x \in Rag!Calls(x.kind)
    BY <1>2 DEF CallTyped
  <2>d. PICK y : y = [x EXCEPT !.at = at, !.i = i, !.result = result]
    OBVIOUS
  <2>e. /\ CallTyped(y) /\ y.at = at
        /\ y.kind = x.kind /\ y.batch = x.batch /\ y.i = i /\ y.result = result /\ y.done = x.done
    BY <1>2, <2>a, <2>c, <2>d DEF CallTyped, Rag!Calls
  <2>3. /\ y = [x EXCEPT !.at = at, !.i = i, !.result = "none"] /\ CallTyped(y) /\ y.at = at
        /\ y.kind = x.kind /\ y.batch = x.batch /\ y.i = i /\ y.result = "none" /\ y.done = x.done
    BY <2>b, <2>d, <2>e
  <2>4. Counted(y)
    BY <1>a, <1>b, <1>4, <2>1, <2>2, <2>3 DEF Counted
  <2>5. Deleted(y, v2, v3)
    <3>1. ASSUME x.kind = "delete", NEW j \in 1 .. i - 1
          PROVE  x.batch[j] \notin v2
      <4>1. CASE j = x.i
        BY <1>2, <1>4, <3>1, <4>1 DEF Deleted
      <4>2. CASE j # x.i
        <5>1. j \in 1 .. x.i - 1
          BY <1>a, <2>2, <4>2
        <5> QED
          BY <1>2, <3>1, <5>1 DEF Deleted
      <4> QED
        BY <4>1, <4>2
    <3>2. i - 1 \in 0 .. Len(x.batch) /\ y.at # "wait"
      BY <1>a, <1>b, <2>1, <2>2, <2>3
    <3> QED
      BY <1>2, <2>3, <3>1, <3>2 DEF Deleted
  <2>6. v5' = [v5 EXCEPT ![c] = y]
    BY <1>1, <1>4, <2>1, <2>2, <2>3
  <2> QED
    BY <1>0, <1>1, <1>v, <1>4, <2>1, <2>3, <2>4, <2>5, <2>6, CallMovesAlone
<1>5. ASSUME x.result # "ok", v5' = [v5 EXCEPT ![c].at = "failed"],
             v4' = {IF op.by = c THEN Rag!Orphan(op) ELSE op : op \in v4}
      PROVE  RagInv'
  <2>1. PICK y : /\ y = [x EXCEPT !.at = "failed"] /\ CallTyped(y) /\ y.at = "failed" /\ y.kind = x.kind
                 /\ y.batch = x.batch /\ y.i = x.i /\ y.result = x.result /\ y.done = x.done
    BY <1>2, CallWith
  <2>2. Counted(y)
    BY <1>a, <1>b, <1>5, <2>1 DEF Counted
  <2>3. Deleted(y, v2, v3)
    BY <1>2, <1>a, <1>b, <2>1 DEF Deleted
  <2>4. Awaited(c, y, v4')
    BY <2>1 DEF Awaited
  <2>5. ASSUME NEW op \in v4'
        PROVE  /\ OperationTyped(op) /\ (op.by = c => OperationOf(op, y))
               /\ op \in v4 \/ op.by \in {c, "nobody"}
    <3>1. PICK old \in v4 : op = IF old.by = c THEN Rag!Orphan(old) ELSE old
      BY <1>5
    <3>2. OperationTyped(old)
      BY RagFacts
    <3>3. CASE old.by = c
      BY <3>1, <3>2, <3>3, OrphanIs, RagAssumption
    <3>4. CASE old.by # c
      BY <3>1, <3>2, <3>4
    <3> QED
      BY <3>3, <3>4
  <2>6. \A op \in v4 : op.by # c => op \in v4'
    BY <1>5
  <2>7. v5' = [v5 EXCEPT ![c] = y]
    BY <1>1, <1>5, <2>1
  <2> QED
    BY <1>0, <1>v, <2>1, <2>2, <2>3, <2>4, <2>5, <2>6, <2>7, CallMoves
<1> QED
  BY <1>1, <1>4, <1>5 DEF Rag!Wait

(* What the server performs, or refuses, is answered to the call that waits. *)
LEMMA PerformAnswers ==
  ASSUME RagInv, NEW op \in v4, v4' = v4 \ {op}, CorpusTyped(v1'), DOMAIN v5' = Callers,
         v3' = v3 \/ v3' = v3 + 1, v3' <= MaxFiles, \A f \in v2' : f \in v2 \/ (f = v3 + 1 /\ v3' = v3 + 1),
         \A c \in Callers : c # op.by => v5'[c] = v5[c],
         \A c \in Callers : c = op.by =>
           /\ CallTyped(v5'[c]) /\ v5'[c].at = v5[c].at /\ v5'[c].kind = v5[c].kind
           /\ v5'[c].batch = v5[c].batch /\ v5'[c].i = v5[c].i
           /\ \/ v5'[c].result = "ok" /\ v5'[c].done = v5[c].done + 1 /\ (op.kind = "delete" => op.of \notin v2')
              \/ v5'[c].result = "error" /\ v5'[c].done = v5[c].done
  PROVE  RagInv'
<1>1. v3' \in 0 .. MaxFiles /\ v2' \subseteq 1 .. v3' /\ \A c \in Callers : Deleted(v5[c], v2', v3')
  BY FilesChange
<1>n. "nobody" \notin Callers
  BY RagAssumption
<1>2. ASSUME NEW c \in Callers, c # op.by
      PROVE  /\ CallTyped(v5'[c]) /\ Counted(v5'[c]) /\ Deleted(v5'[c], v2', v3')
             /\ Awaited(c, v5'[c], v4')
  <2>1. CallTyped(v5[c]) /\ Counted(v5[c]) /\ Awaited(c, v5[c], v4) /\ v5'[c] = v5[c]
    BY <1>2, RagFacts
  <2>2. PICK other : other = Rag!Operation(c, v5[c].kind, v5[c].batch[v5[c].i])
    OBVIOUS
  <2>3. other.by = c
    BY <2>2 DEF Rag!Operation
  <2>4. other \in v4 => other \in v4'
    BY <1>2, <2>3
  <2>5. Awaited(c, v5[c], v4')
    BY <2>1, <2>2, <2>4 DEF Awaited
  <2> QED
    BY <1>1, <2>1, <2>5
<1>3. ASSUME NEW c \in Callers, c = op.by
      PROVE  /\ CallTyped(v5'[c]) /\ Counted(v5'[c]) /\ Deleted(v5'[c], v2', v3')
             /\ Awaited(c, v5'[c], v4')
  <2>1. PICK x, y : x = v5[c] /\ y = v5'[c]
    OBVIOUS
  <2>2. /\ CallTyped(y) /\ y.at = x.at /\ y.kind = x.kind /\ y.batch = x.batch /\ y.i = x.i
        /\ \/ y.result = "ok" /\ y.done = x.done + 1 /\ (op.kind = "delete" => op.of \notin v2')
           \/ y.result = "error" /\ y.done = x.done
    BY <1>3, <2>1
  <2>3. /\ CallTyped(x) /\ Counted(x) /\ Deleted(x, v2', v3')
        /\ x.at = "wait" /\ x.result = "none" /\ op = Rag!Operation(op.by, x.kind, x.batch[x.i])
    BY <1>1, <1>3, <1>n, <2>1, RagFacts DEF OperationOf
  <2>4. op.kind = x.kind /\ op.of = x.batch[x.i]
    BY <2>3 DEF Rag!Operation
  <2>5. x.i \in Nat /\ x.done \in Nat
    BY <2>3, RagCallIs
  <2>6. x.kind # "none" /\ x.i \in DOMAIN x.batch /\ x.done = x.i - 1
    BY <2>3 DEF Counted
  <2>7. Counted(y)
    BY <2>2, <2>3, <2>5, <2>6 DEF Counted
  <2>8. Deleted(y, v2', v3')
    BY <2>2, <2>3, <2>4 DEF Deleted
  <2>9. Awaited(c, y, v4')
    BY <2>2 DEF Awaited
  <2> QED
    BY <2>1, <2>2, <2>7, <2>8, <2>9
<1>4. ASSUME NEW other \in v4', other.by # "nobody"
      PROVE  OperationOf(other, v5'[other.by])
  <2>1. other \in v4 /\ other # op /\ OperationOf(other, v5[other.by])
    BY <1>4, RagFacts
  <2>2. other.by \in Callers
    BY <1>4, <2>1, RagFacts DEF OperationTyped, Rag!Operations
  <2>3. CASE other.by = op.by
    <3>1. OperationOf(op, v5[op.by])
      BY <1>4, <2>3, RagFacts
    <3> QED
      BY <2>1, <2>3, <3>1 DEF OperationOf
  <2>4. CASE other.by # op.by
    BY <2>1, <2>2, <2>4
  <2> QED
    BY <2>3, <2>4
<1>5. \A other \in v4' : OperationTyped(other)
  BY RagFacts
<1> QED
  BY <1>1, <1>2, <1>3, <1>4, <1>5, RagKept

(* Files F become G: some go, and at most one is made, after m others. *)
FilesKept(F, G, m, n) == n <= MaxFiles /\ \A f \in G : f \in F \/ (f = m + 1 /\ n = m + 1)

(* Perform. *)
LEMMA PerformKeeps ==
  ASSUME RagInv, NEW op \in v4, Rag!Perform(op)
  PROVE  RagInv'
<1>0. v4' = v4 \ {op}
  BY DEF Rag!Perform
<1>1. CASE /\ v5' = [c \in Callers |-> IF c = op.by THEN [v5[c] EXCEPT !.result = "ok", !.done = @ + 1] ELSE v5[c]]
           /\ CASE op.kind = "delete" ->
                     op.of \in v2 /\ v2' = v2 \ {op.of} /\ UNCHANGED <<v1, v3>>
                [] op.kind = "import" ->
                     /\ \/ v3 < MaxFiles /\ v3' = v3 + 1 /\ v2' = v2 \cup {v3 + 1}
                        \/ UNCHANGED <<v2, v3>>
                     /\ UNCHANGED v1
                [] op.kind = "corpus" ->
                     v1' = [v1 EXCEPT !.exists = FALSE] /\ v2' = {} /\ UNCHANGED v3
  <2>1. DOMAIN v5' = Callers /\ \A c \in Callers : c # op.by => v5'[c] = v5[c]
    BY <1>1
  <2>2. op.kind \in {"delete", "import", "corpus"}
    BY RagFacts DEF OperationTyped, Rag!Kinds
  <2>3. op.kind = "delete" => op.of \notin v2'
    BY <1>1
  <2>4. ASSUME NEW c \in Callers, c = op.by
        PROVE  /\ CallTyped(v5'[c]) /\ v5'[c].at = v5[c].at /\ v5'[c].kind = v5[c].kind
               /\ v5'[c].batch = v5[c].batch /\ v5'[c].i = v5[c].i
               /\ v5'[c].result = "ok" /\ v5'[c].done = v5[c].done + 1
    <3>1. PICK x : x = v5[c]
      OBVIOUS
    <3>2. CallTyped(x)
      BY <3>1, RagFacts
    <3>3. PICK y : /\ y = [x EXCEPT !.result = "ok", !.done = @ + 1] /\ CallTyped(y) /\ y.at = x.at
                   /\ y.kind = x.kind /\ y.batch = x.batch /\ y.i = x.i /\ y.result = "ok" /\ y.done = x.done + 1
      BY <3>2, CallAnswered
    <3>4. v5'[c] = y
      BY <1>1, <2>4, <3>1, <3>3
    <3> QED
      BY <3>1, <3>3, <3>4
  <2>5. v3' = v3 \/ v3' = v3 + 1
    BY <1>1, <2>2
  <2>t. v3 \in Nat /\ v3 <= MaxFiles /\ MaxFiles \in Nat
    BY RagFacts, RagAssumption
  <2>k. op.kind = "delete" => FilesKept(v2, v2', v3, v3')
    <3> SUFFICES ASSUME op.kind = "delete" PROVE FilesKept(v2, v2', v3, v3')
      OBVIOUS
    <3>1. v2' = v2 \ {op.of} /\ v3' = v3
      BY <1>1
    <3> QED
      BY <2>t, <3>1 DEF FilesKept
  <2>l. op.kind = "import" => FilesKept(v2, v2', v3, v3')
    <3> SUFFICES ASSUME op.kind = "import" PROVE FilesKept(v2, v2', v3, v3')
      OBVIOUS
    <3>1. (v3 < MaxFiles /\ v3' = v3 + 1 /\ v2' = v2 \cup {v3 + 1}) \/ (v2' = v2 /\ v3' = v3)
      BY <1>1
    <3> QED
      BY <2>t, <3>1 DEF FilesKept
  <2>m. op.kind = "corpus" => FilesKept(v2, v2', v3, v3')
    <3> SUFFICES ASSUME op.kind = "corpus" PROVE FilesKept(v2, v2', v3, v3')
      OBVIOUS
    <3>1. v2' = {} /\ v3' = v3
      BY <1>1
    <3> QED
      BY <2>t, <3>1 DEF FilesKept
  <2>6. v3' <= MaxFiles
    BY <2>2, <2>k, <2>l, <2>m DEF FilesKept
  <2>7. \A f \in v2' : f \in v2 \/ (f = v3 + 1 /\ v3' = v3 + 1)
    BY <2>2, <2>k, <2>l, <2>m DEF FilesKept
  <2>8. CorpusTyped(v1')
    <3>1. CASE v1' = v1
      BY <3>1, RagFacts
    <3>2. CASE v1' = [v1 EXCEPT !.exists = FALSE]
      <4>1. PICK no \in BOOLEAN : no = FALSE
        OBVIOUS
      <4>2. v1' = [v1 EXCEPT !.exists = no]
        BY <3>2, <4>1
      <4> QED
        BY <4>2, RagFacts DEF CorpusTyped
    <3> QED
      BY <1>1, <2>2, <3>1, <3>2
  <2>9. \A c \in Callers : c = op.by =>
          /\ CallTyped(v5'[c]) /\ v5'[c].at = v5[c].at /\ v5'[c].kind = v5[c].kind
          /\ v5'[c].batch = v5[c].batch /\ v5'[c].i = v5[c].i
          /\ \/ v5'[c].result = "ok" /\ v5'[c].done = v5[c].done + 1 /\ (op.kind = "delete" => op.of \notin v2')
             \/ v5'[c].result = "error" /\ v5'[c].done = v5[c].done
    BY <2>3, <2>4
  <2> QED
    BY <1>0, <2>1, <2>5, <2>6, <2>7, <2>8, <2>9, PerformAnswers
<1>2. CASE /\ v5' = [c \in Callers |-> IF c = op.by THEN [v5[c] EXCEPT !.result = "error"] ELSE v5[c]]
           /\ UNCHANGED <<v1, v2, v3>>
  <2>1. DOMAIN v5' = Callers /\ \A c \in Callers : c # op.by => v5'[c] = v5[c]
    BY <1>2
  <2>4. ASSUME NEW c \in Callers, c = op.by
        PROVE  /\ CallTyped(v5'[c]) /\ v5'[c].at = v5[c].at /\ v5'[c].kind = v5[c].kind
               /\ v5'[c].batch = v5[c].batch /\ v5'[c].i = v5[c].i
               /\ v5'[c].result = "error" /\ v5'[c].done = v5[c].done
    <3>1. PICK x : x = v5[c]
      OBVIOUS
    <3>2. CallTyped(x)
      BY <3>1, RagFacts
    <3>3. PICK y : /\ y = [x EXCEPT !.result = "error"] /\ CallTyped(y) /\ y.at = x.at
                   /\ y.kind = x.kind /\ y.batch = x.batch /\ y.i = x.i /\ y.result = "error" /\ y.done = x.done
      BY <3>2, CallRefused
    <3>4. v5'[c] = y
      BY <1>2, <2>4, <3>1, <3>3
    <3> QED
      BY <3>1, <3>3, <3>4
  <2>5. v3' = v3 /\ v3' <= MaxFiles /\ CorpusTyped(v1')
    BY <1>2, RagFacts, RagAssumption
  <2>7. \A f \in v2' : f \in v2 \/ (f = v3 + 1 /\ v3' = v3 + 1)
    BY <1>2
  <2>9. \A c \in Callers : c = op.by =>
          /\ CallTyped(v5'[c]) /\ v5'[c].at = v5[c].at /\ v5'[c].kind = v5[c].kind
          /\ v5'[c].batch = v5[c].batch /\ v5'[c].i = v5[c].i
          /\ \/ v5'[c].result = "ok" /\ v5'[c].done = v5[c].done + 1 /\ (op.kind = "delete" => op.of \notin v2')
             \/ v5'[c].result = "error" /\ v5'[c].done = v5[c].done
    BY <2>4
  <2> QED
    BY <1>0, <2>1, <2>5, <2>7, <2>9, PerformAnswers
<1> QED
  BY <1>1, <1>2 DEF Rag!Perform

(* The initial state of the RAG service. *)
LEMMA RagStart ==
  ASSUME Rag!Init
  PROVE  RagInv
<1>1. /\ v2 = {} /\ v3 = 0 /\ v4 = {} /\ v5 = [c \in Callers |-> Rag!Free]
      /\ v1 = [exists |-> FALSE, backend |-> {}, description |-> ""]
  BY DEF Rag!Init
<1>2. \A c \in Callers : v5[c] = Rag!Free
  BY <1>1
<1>3. CorpusTyped(v1)
  BY <1>1 DEF CorpusTyped
<1>4. \A c \in Callers : CallTyped(v5[c]) /\ v5[c].at = "free" /\ v5[c].kind = "none"
  BY <1>2, RagFreeIs
<1>t. v3 \in 0 .. MaxFiles /\ v2 \subseteq 1 .. v3
  <2>1. MaxFiles \in Nat
    BY RagAssumption
  <2>2. v2 = {} /\ v3 = 0
    BY <1>1
  <2>3. v3 \in 0 .. MaxFiles
    BY <2>1, <2>2
  <2>4. v2 \subseteq 1 .. v3
    BY <2>2
  <2> QED
    BY <2>3, <2>4
<1>p. \A op \in v4 : op.kind \in Rag!Kinds /\ op \in Rag!Operations(op.kind)
  BY <1>1
<1>d. DOMAIN v5 = Callers
  BY <1>1
<1>c. \A c \in Callers : v5[c].kind \in {"none"} \cup Rag!Kinds /\ v5[c] \in Rag!Calls(v5[c].kind)
  BY <1>4 DEF CallTyped
<1>5. Rag!TypeOK
  BY <1>3, <1>t, <1>p, <1>d, <1>c DEF Rag!TypeOK, CorpusTyped
<1>6. Rag!BatchesDeleteInOrder /\ Rag!BatchesImportOnce
  BY <1>4 DEF Rag!BatchesDeleteInOrder, Rag!BatchesImportOnce
<1>7. Rag!Progress
  BY <1>4 DEF Rag!Progress
<1>8. Rag!PendingOfCalls /\ Rag!WaitedForIsPending
  BY <1>1, <1>4 DEF Rag!PendingOfCalls, Rag!WaitedForIsPending, Rag!At
<1> QED
  BY <1>5, <1>6, <1>7, <1>8 DEF RagInv

(* The inductive invariant of the RAG service. *)
LEMMA RagInductive ==
  ASSUME RagInv, Rag!Next
  PROVE  RagInv'
BY CreateCorpusKeeps, GetCorpusKeeps, UpdateCorpusKeeps, UploadFileKeeps, BatchKeeps, DeleteCorpusKeeps,
   SendKeeps, WaitKeeps, ReturnKeeps, PerformKeeps DEF Rag!Next

-----------------------------------------------------------------------------
(* Queries and memories.                                                   *)

RetrieveInv == Retrieve!TypeOK /\ Retrieve!MemoriesOfDocuments

MemoryEntries == [author : {"model", "unknown"}, text : Retrieve!Texts \cup {"whole"}]

(* The entry of a document says whose it is only when it has one line. *)
LEMMA EntryIs ==
  ASSUME NEW d \in Retrieve!Documents
  PROVE  /\ Retrieve!Entry(d) \in MemoryEntries
         /\ Retrieve!Entry(d).author # "unknown" => Len(d.lines) = 1
<1>1. d.lines \in Seq(Retrieve!Events)
  <2>1. d.lines = <<>> \/ \E e \in Retrieve!Events : d.lines = <<e>> \/ d.lines = <<e, e>>
    BY DEF Retrieve!Documents
  <2>2. CASE d.lines = <<>>
    BY <2>2
  <2>3. ASSUME NEW e \in Retrieve!Events, d.lines = <<e>> \/ d.lines = <<e, e>>
        PROVE  d.lines \in Seq(Retrieve!Events)
    <3>1. <<e>> \in Seq(Retrieve!Events)
      OBVIOUS
    <3>2. <<e, e>> \in Seq(Retrieve!Events)
      OBVIOUS
    <3> QED
      BY <2>3, <3>1, <3>2
  <2> QED
    BY <2>1, <2>2, <2>3
<1>2. CASE Len(d.lines) = 1
  <2>1. PICK e \in Retrieve!Events : e = d.lines[1]
    BY <1>1, <1>2
  <2>2. PICK author \in {"model", "unknown"} : author = IF e.author = "unnamed" THEN "unknown" ELSE e.author
    BY DEF Retrieve!Events
  <2>3. e.text \in Retrieve!Texts \cup {"whole"}
    BY DEF Retrieve!Events
  <2>4. Retrieve!Entry(d) = [author |-> author, text |-> e.text]
    BY <1>2, <2>1, <2>2 DEF Retrieve!Entry
  <2> QED
    BY <1>2, <2>3, <2>4 DEF MemoryEntries
<1>3. CASE Len(d.lines) # 1
  <2>1. Retrieve!Entry(d) = [author |-> "unknown", text |-> "whole"]
    BY <1>3 DEF Retrieve!Entry
  <2> QED
    BY <2>1 DEF MemoryEntries
<1> QED
  BY <1>2, <1>3

(* The initial state of the queries. *)
LEMMA RetrieveStart ==
  ASSUME Retrieve!Init
  PROVE  RetrieveInv
<1>1. PICK n \in 0 .. MaxDocuments : v1 \in [1 .. n -> Retrieve!Documents]
  BY DEF Retrieve!Init
<1>2. n \in Nat
  BY RetrievalAssumption
<1>3. v1 \in Seq(Retrieve!Documents)
  BY <1>1, <1>2
<1>4. v2 = {} /\ v3 = Retrieve!NoRequest /\ v4 = <<>> /\ v5 = <<>>
  BY DEF Retrieve!Init
<1>5. v3 \in [kind : {"none", "query", "search", "augment", "memory"}, corpora : SUBSET Corpora, topK : Nat]
  BY <1>4 DEF Retrieve!NoRequest
<1>6. v4 \in Seq(DOMAIN v1) /\ v5 \in Seq(MemoryEntries)
  BY <1>4
<1>7. Retrieve!TypeOK
  BY <1>3, <1>4, <1>5, <1>6 DEF Retrieve!TypeOK, MemoryEntries
<1>8. Retrieve!MemoriesOfDocuments
  BY <1>4 DEF Retrieve!MemoriesOfDocuments
<1> QED
  BY <1>7, <1>8 DEF RetrieveInv

(* A query is asked. *)
LEMMA AskKeeps ==
  ASSUME RetrieveInv, UNCHANGED <<v1, v2, v4, v5>>,
         NEW kind \in {"query", "search", "augment", "memory"}, NEW corpora \in SUBSET Corpora, NEW topK \in Nat,
         Retrieve!Ask(kind, corpora, topK)
  PROVE  RetrieveInv'
<1>1. v3' \in [kind : {"none", "query", "search", "augment", "memory"}, corpora : SUBSET Corpora, topK : Nat]
  BY DEF Retrieve!Ask
<1>2. Retrieve!TypeOK'
  BY <1>1 DEF RetrieveInv, Retrieve!TypeOK
<1>3. Retrieve!MemoriesOfDocuments'
  BY DEF RetrieveInv, Retrieve!MemoriesOfDocuments
<1> QED
  BY <1>2, <1>3 DEF RetrieveInv

(* RetrieveContexts. *)
LEMMA RetrieveContextsKeeps ==
  ASSUME RetrieveInv, Retrieve!RetrieveContexts
  PROVE  RetrieveInv'
<1>0. v3' = Retrieve!NoRequest /\ v1' = v1 /\ v2' = v2
  BY DEF Retrieve!RetrieveContexts
<1>t. /\ v1 \in Seq(Retrieve!Documents) /\ v2 \subseteq Users /\ v3.topK \in Nat
      /\ v4 \in Seq(DOMAIN v1) /\ v5 \in Seq(MemoryEntries)
  BY DEF RetrieveInv, Retrieve!TypeOK, MemoryEntries
<1>1. v3' \in [kind : {"none", "query", "search", "augment", "memory"}, corpora : SUBSET Corpora, topK : Nat]
  BY <1>0 DEF Retrieve!NoRequest
<1>2. CASE UNCHANGED <<v4, v5>>
  <2>1. Retrieve!TypeOK'
    BY <1>0, <1>1, <1>2, <1>t DEF Retrieve!TypeOK, MemoryEntries
  <2>2. Retrieve!MemoriesOfDocuments'
    BY <1>0, <1>2 DEF RetrieveInv, Retrieve!MemoriesOfDocuments
  <2> QED
    BY <2>1, <2>2 DEF RetrieveInv
<1>3. ASSUME NEW n \in 0 .. v3.topK, NEW found \in [1 .. n -> Retrieve!Candidates(v3.corpora)],
             v4' = found, v5' = IF v3.kind = "memory" THEN Retrieve!Entries(found) ELSE <<>>
      PROVE  RetrieveInv'
  <2>1. n \in Nat /\ DOMAIN found = 1 .. n /\ \A j \in 1 .. n : found[j] \in DOMAIN v1
    BY <1>t DEF Retrieve!Candidates
  <2>2. v4' \in Seq(DOMAIN v1)
    BY <1>3, <2>1
  <2>3. \A j \in 1 .. n : v1[found[j]] \in Retrieve!Documents
    BY <1>t, <2>1
  <2>4. PICK entries : entries = Retrieve!Entries(found)
    OBVIOUS
  <2>5. DOMAIN entries = 1 .. n /\ \A j \in 1 .. n : entries[j] = Retrieve!Entry(v1[found[j]])
    BY <2>1, <2>4 DEF Retrieve!Entries
  <2>6. entries = [j \in 1 .. n |-> entries[j]]
    BY <2>1, <2>4, <2>5 DEF Retrieve!Entries
  <2>7. \A j \in 1 .. n : /\ entries[j] \in MemoryEntries
                          /\ entries[j].author # "unknown" => Len(v1[found[j]].lines) = 1
    BY <2>3, <2>5, EntryIs
  <2>8. entries \in Seq(MemoryEntries)
    BY <2>1, <2>6, <2>7
  <2>9. v5' = entries \/ v5' = <<>>
    BY <1>3, <2>4
  <2>10. v5' \in Seq(MemoryEntries)
    <3>1. <<>> \in Seq(MemoryEntries)
      OBVIOUS
    <3> QED
      BY <2>8, <2>9, <3>1
  <2>11. Retrieve!TypeOK'
    BY <1>0, <1>1, <1>t, <2>2, <2>10 DEF Retrieve!TypeOK, MemoryEntries
  <2>12. Retrieve!MemoriesOfDocuments'
    BY <1>0, <1>3, <2>1, <2>5, <2>7, <2>9 DEF Retrieve!MemoriesOfDocuments
  <2> QED
    BY <2>11, <2>12 DEF RetrieveInv
<1> QED
  BY <1>2, <1>3 DEF Retrieve!RetrieveContexts

(* The inductive invariant of the queries. *)
LEMMA RetrieveInductive ==
  ASSUME RetrieveInv, Retrieve!Next
  PROVE  RetrieveInv'
<1>1. ASSUME NEW user \in Users, NEW texts, Retrieve!AddSessionToMemory(user, texts)
      PROVE  RetrieveInv'
  <2>1. v2' \subseteq Users /\ UNCHANGED <<v1, v3, v4, v5>>
    BY <1>1 DEF Retrieve!AddSessionToMemory, RetrieveInv, Retrieve!TypeOK
  <2> QED
    BY <2>1 DEF RetrieveInv, Retrieve!TypeOK, Retrieve!MemoriesOfDocuments
<1>2. ASSUME NEW corpus \in Corpora, NEW topK \in 0 .. 1, Retrieve!QueryCorpus(corpus, topK)
      PROVE  RetrieveInv'
  <2>1. {corpus} \in SUBSET Corpora /\ topK \in Nat
    OBVIOUS
  <2> QED
    BY <1>2, <2>1, AskKeeps DEF Retrieve!QueryCorpus
<1>3. ASSUME NEW corpora \in Retrieve!SomeCorpora, NEW topK \in 0 .. 1, Retrieve!QueryMultipleCorpora(corpora, topK)
      PROVE  RetrieveInv'
  <2>1. corpora \in SUBSET Corpora /\ topK \in Nat
    BY DEF Retrieve!SomeCorpora
  <2> QED
    BY <1>3, <2>1, AskKeeps DEF Retrieve!QueryMultipleCorpora
<1>4. ASSUME NEW corpora \in Retrieve!SomeCorpora, NEW options \in {"nil", "given"},
             \/ Retrieve!SemanticSearch(corpora, options)
             \/ Retrieve!HybridSearch(corpora, options)
      PROVE  RetrieveInv'
  <2>1. PICK topK \in Nat : Retrieve!Search(corpora, topK)
    BY <1>4 DEF Retrieve!SemanticSearch, Retrieve!HybridSearch, Retrieve!DefaultTopK
  <2>2. corpora \in SUBSET Corpora
    BY DEF Retrieve!SomeCorpora
  <2> QED
    BY <2>1, <2>2, AskKeeps DEF Retrieve!Search
<1>5. ASSUME NEW corpora \in Retrieve!SomeCorpora, Retrieve!AugmentGeneration(corpora)
      PROVE  RetrieveInv'
  <2>1. corpora \in SUBSET Corpora /\ Retrieve!DefaultTopK \in Nat
    BY DEF Retrieve!SomeCorpora, Retrieve!DefaultTopK
  <2> QED
    BY <1>5, <2>1, AskKeeps DEF Retrieve!AugmentGeneration
<1>6. ASSUME NEW corpus \in Corpora, Retrieve!SearchMemory(corpus)
      PROVE  RetrieveInv'
  <2>1. {corpus} \in SUBSET Corpora /\ Retrieve!MemoryTopK \in Nat
    BY DEF Retrieve!MemoryTopK
  <2> QED
    BY <1>6, <2>1, AskKeeps DEF Retrieve!SearchMemory
<1> QED
  BY <1>1, <1>2, <1>3, <1>4, <1>5, <1>6, RetrieveContextsKeeps DEF Retrieve!Next

-----------------------------------------------------------------------------
(* The steps of an LLM agent.                                              *)

LlmInv ==
  /\ Llm!TypeOK /\ Llm!OpenEventHeard /\ Llm!CalledOnce
  /\ Llm!StepsFollowOpenEvents /\ Llm!ModelIsHeardOnce

(* What a consumer is given. *)
Given == {"final", "open", "bare", "error", "answer", "response", "altered", "nil"}
OfModel == {"response", "altered", "nil"}

(* The places in s of what is of these kinds, and their number. *)
HeardIn(s, kinds) == {n \in DOMAIN s : s[n] \in kinds}
Times(s, kinds) == Cardinality(HeardIn(s, kinds))

(* Counting is the same in the instance. *)
LEMMA LlmCounts == \A S : Llm!Cardinality(S) = Cardinality(S)
BY DEF Cardinality, Llm!Cardinality

(* What is heard is finite. *)
LEMMA TimesIs ==
  ASSUME NEW s \in Seq(Given), NEW K
  PROVE  IsFiniteSet(HeardIn(s, K)) /\ Times(s, K) \in Nat
<1>1. HeardIn(s, K) \subseteq 1 .. Len(s) /\ Len(s) \in Nat
  BY DEF HeardIn
<1>2. IsFiniteSet(1 .. Len(s))
  BY <1>1, FS_Interval
<1>3. IsFiniteSet(HeardIn(s, K))
  BY <1>1, <1>2, FS_Subset
<1> QED
  BY <1>3, FS_CardinalityType DEF Times

(* One more is heard, when it is of the kinds. *)
LEMMA HeardMore ==
  ASSUME NEW s \in Seq(Given), NEW e \in Given, NEW K
  PROVE  /\ Append(s, e) \in Seq(Given)
         /\ Times(Append(s, e), K) = IF e \in K THEN Times(s, K) + 1 ELSE Times(s, K)
         /\ e \notin K => HeardIn(Append(s, e), K) = HeardIn(s, K)
<1>1. PICK t : t = Append(s, e)
  OBVIOUS
<1>2. /\ t \in Seq(Given) /\ Len(t) = Len(s) + 1 /\ t[Len(s) + 1] = e /\ Len(s) \in Nat
      /\ DOMAIN t = 1 .. Len(s) + 1 /\ DOMAIN s = 1 .. Len(s)
      /\ \A n \in 1 .. Len(s) : t[n] = s[n]
  BY <1>1
<1>3. CASE e \in K
  <2>1. HeardIn(t, K) = HeardIn(s, K) \cup {Len(s) + 1} /\ Len(s) + 1 \notin HeardIn(s, K)
    BY <1>2, <1>3 DEF HeardIn
  <2>2. Times(t, K) = Times(s, K) + 1
    BY <2>1, TimesIs, FS_AddElement DEF Times
  <2> QED
    BY <1>1, <1>2, <1>3, <2>2
<1>4. CASE e \notin K
  <2>1. HeardIn(t, K) = HeardIn(s, K)
    BY <1>2, <1>4 DEF HeardIn
  <2> QED
    BY <1>1, <1>2, <1>4, <2>1 DEF Times
<1> QED
  BY <1>3, <1>4

(* The invariant, by itself. *)
StepsFollow(steps, last, yielded) ==
  /\ Times(yielded, {"open"}) + 1 >= steps
  /\ last = "open" => Times(yielded, {"open"}) >= steps
Hears(agent, at, i, last, yielded, calls) ==
  /\ at \in {"new", "ready", "invalid", "before", "call"} => calls = 0
  /\ at \in {"new", "ready", "invalid"} => yielded = <<>> /\ last = "nil"
  /\ at \in {"step", "failed"} => agent.flow # "call"
  /\ agent.flow = "call" =>
       /\ calls <= 1
       /\ at \in {"before", "call"} => HeardIn(yielded, OfModel) = {}
       /\ Times(yielded, OfModel) < i \/ at = "before"
LlmTyped(agent, at, i, last, endInvocation, steps, yielded, calls) ==
  /\ agent \in Llm!Settings
  /\ at \in {"new", "invalid", "ready", "panic", "step", "stopped", "failed", "ended",
             "before", "call", "responses", "deaf"}
  /\ i \in Nat \ {0} /\ last \in {"nil", "final", "open", "bare"} /\ endInvocation \in BOOLEAN
  /\ steps \in 0 .. MaxSteps /\ yielded \in Seq(Given) /\ calls \in Nat

(* The invariant of the steps in these terms. *)
LEMMA LlmIs == LlmInv <=> /\ LlmTyped(v1, v2, v3, v4, v5, v6, v7, v8)
                          /\ StepsFollow(v6, v4, v7) /\ Hears(v1, v2, v3, v4, v7, v8)
<1>1. Llm!TypeOK <=> LlmTyped(v1, v2, v3, v4, v5, v6, v7, v8)
  BY DEF Llm!TypeOK, LlmTyped, Given
<1>2. Llm!OpenEventHeard /\ Llm!StepsFollowOpenEvents <=> StepsFollow(v6, v4, v7)
  BY LlmCounts DEF Llm!OpenEventHeard, Llm!StepsFollowOpenEvents, StepsFollow, Times, Llm!Heard, HeardIn
<1>3. Llm!CalledOnce /\ Llm!ModelIsHeardOnce <=> Hears(v1, v2, v3, v4, v7, v8)
  BY LlmCounts DEF Llm!CalledOnce, Llm!ModelIsHeardOnce, Hears, Times, Llm!Heard, HeardIn, OfModel
<1> QED
  BY <1>1, <1>2, <1>3 DEF LlmInv

(* What each step has to keep. *)
LEMMA LlmKept ==
  ASSUME LlmTyped(v1', v2', v3', v4', v5', v6', v7', v8'), StepsFollow(v6', v4', v7'), Hears(v1', v2', v3', v4', v7', v8')
  PROVE  LlmInv'
<1>1. Llm!TypeOK'
  BY DEF Llm!TypeOK, LlmTyped, Given
<1>2. Llm!OpenEventHeard' /\ Llm!StepsFollowOpenEvents'
  BY LlmCounts DEF Llm!OpenEventHeard, Llm!StepsFollowOpenEvents, StepsFollow, Times, Llm!Heard, HeardIn
<1>3. Llm!CalledOnce'
  BY DEF Llm!CalledOnce, Hears, Llm!Heard, HeardIn, OfModel
<1>4. Llm!ModelIsHeardOnce'
  BY LlmCounts DEF Llm!ModelIsHeardOnce, Hears, Times, Llm!Heard, HeardIn, OfModel
<1> QED
  BY <1>1, <1>2, <1>3, <1>4 DEF LlmInv

(* The initial state of an agent. *)
LEMMA LlmStart ==
  ASSUME Llm!Init
  PROVE  LlmInv
<1>1. /\ v1 \in Llm!Settings /\ v2 = "new" /\ v3 = 1 /\ v4 = "nil" /\ v5 = FALSE
      /\ v6 = 0 /\ v7 = <<>> /\ v8 = 0
  BY DEF Llm!Init
<1>2. <<>> \in Seq(Given) /\ 0 \in 0 .. MaxSteps
  BY StepsAssumption
<1>a. v5 \in BOOLEAN
  BY <1>1
<1>b. v3 \in Nat \ {0} /\ v8 \in Nat
  BY <1>1
<1>c. v6 \in 0 .. MaxSteps /\ v7 \in Seq(Given)
  BY <1>1, <1>2
<1>3. HeardIn(<<>>, OfModel) = {}
  BY DEF HeardIn
<1>4. Times(<<>>, OfModel) = 0 /\ Times(<<>>, {"open"}) \in Nat
  BY <1>2, <1>3, FS_EmptySet, TimesIs DEF Times
<1>5. LlmTyped(v1, v2, v3, v4, v5, v6, v7, v8)
  BY <1>1, <1>a, <1>b, <1>c DEF LlmTyped
<1>6. StepsFollow(v6, v4, v7)
  BY <1>1, <1>4 DEF StepsFollow
<1>7. Hears(v1, v2, v3, v4, v7, v8)
  BY <1>1, <1>3, <1>4 DEF Hears
<1> QED
  BY <1>5, <1>6, <1>7, LlmIs

(* NewLLMAgent. *)
LEMMA NewLLMAgentKeeps ==
  ASSUME LlmInv, Llm!NewLLMAgent
  PROVE  LlmInv'
<1>1. v2 = "new" /\ v2' \in {"invalid", "ready"} /\ UNCHANGED <<v3, v4, v5, v6, v7, v8>>
  BY DEF Llm!NewLLMAgent
<1>2. LlmTyped(v1, v2, v3, v4, v5, v6, v7, v8) /\ StepsFollow(v6, v4, v7) /\ Hears(v1, v2, v3, v4, v7, v8)
  BY LlmIs
<1>3. v1' \in Llm!Settings /\ v1'.flow = v1.flow
  <2>1. v1 \in Llm!Settings
    BY <1>2 DEF LlmTyped
  <2>2. PICK transfer \in BOOLEAN : transfer = (v1.transfer /\ ~v1.schema)
    BY <2>1 DEF Llm!Settings
  <2>3. v1' = v1 \/ v1' = [v1 EXCEPT !.transfer = transfer]
    BY <2>2 DEF Llm!NewLLMAgent
  <2> QED
    BY <2>1, <2>3 DEF Llm!Settings
<1>4. LlmTyped(v1', v2', v3', v4', v5', v6', v7', v8')
  BY <1>1, <1>2, <1>3 DEF LlmTyped
<1>5. Hears(v1', v2', v3', v4', v7', v8')
  BY <1>1, <1>2, <1>3 DEF Hears
<1> QED
  BY <1>1, <1>2, <1>4, <1>5, LlmKept DEF StepsFollow

(* Execute, Run and Call: how a run begins. *)
LEMMA RunKeeps ==
  ASSUME LlmInv, Llm!Execute \/ Llm!Run \/ Llm!Call
  PROVE  LlmInv'
<1>1. LlmTyped(v1, v2, v3, v4, v5, v6, v7, v8) /\ StepsFollow(v6, v4, v7) /\ Hears(v1, v2, v3, v4, v7, v8)
  BY LlmIs
<1>2. v2 = "ready" /\ v2' \in {"panic", "step", "before"} /\ UNCHANGED <<v1, v3, v4, v5, v7, v8>>
  BY DEF Llm!Execute, Llm!Run, Llm!Call
<1>3. v7 = <<>> /\ v7 \in Seq(Given) /\ v8 = 0 /\ v3 \in Nat \ {0}
  BY <1>1, <1>2 DEF Hears, LlmTyped
<1>4. HeardIn(v7, OfModel) = {}
  BY <1>3 DEF HeardIn
<1>5. Times(v7, OfModel) = 0
  BY <1>4, FS_EmptySet DEF Times
<1>6. v2' = "step" => v1.flow # "call"
  BY DEF Llm!Execute, Llm!Run, Llm!Call
<1>7. Hears(v1', v2', v3', v4', v7', v8')
  BY <1>2, <1>3, <1>4, <1>5, <1>6 DEF Hears
<1>8. v6' = v6 \/ v6' = 1
  BY DEF Llm!Execute, Llm!Run, Llm!Call
<1>9. v6' \in 0 .. MaxSteps
  BY <1>1, <1>8, StepsAssumption DEF LlmTyped
<1>10. LlmTyped(v1', v2', v3', v4', v5', v6', v7', v8')
  BY <1>1, <1>2, <1>9 DEF LlmTyped
<1>11. Times(v7, {"open"}) \in Nat
  BY <1>3, TimesIs
<1>12. StepsFollow(v6', v4', v7')
  <2>1. v4 = "nil"
    BY <1>1, <1>2 DEF Hears
  <2>2. CASE v6' = v6
    BY <1>1, <1>2, <2>2 DEF StepsFollow
  <2>3. CASE v6' = 1
    BY <1>2, <1>11, <2>1, <2>3 DEF StepsFollow
  <2> QED
    BY <1>8, <2>2, <2>3
<1> QED
  BY <1>7, <1>10, <1>12, LlmKept

(* Process, and the end of a step. *)
LEMMA ProcessKeeps ==
  ASSUME LlmInv, Llm!Process \/ Llm!runOneStep
  PROVE  LlmInv'
<1>1. LlmTyped(v1, v2, v3, v4, v5, v6, v7, v8) /\ StepsFollow(v6, v4, v7) /\ Hears(v1, v2, v3, v4, v7, v8)
  BY LlmIs
<1>2. v2 = "step" /\ UNCHANGED <<v1, v8>>
  BY DEF Llm!Process, Llm!runOneStep
<1>3. v1.flow # "call" /\ v2' \in {"step", "stopped", "failed", "panic", "ended"}
  BY <1>1, <1>2 DEF Hears, Llm!Process, Llm!runOneStep, Llm!EndsRun
<1>4. Hears(v1', v2', v3', v4', v7', v8')
  BY <1>2, <1>3 DEF Hears
<1>5. v7 \in Seq(Given) /\ v3 \in Nat \ {0} /\ v6 \in 0 .. MaxSteps /\ v4 \in {"nil", "final", "open", "bare"}
  BY <1>1 DEF LlmTyped
<1>6. Times(v7, {"open"}) \in Nat /\ MaxSteps \in Nat
  BY <1>5, TimesIs, StepsAssumption
<1>7. ASSUME NEW event \in {"final", "open", "bare"}, Llm!Yield(event), v4' = event,
             UNCHANGED <<v3, v5, v6>>
      PROVE  LlmInv'
  <2>1. event \in Given /\ event \in {"nil", "final", "open", "bare"}
    BY DEF Given
  <2>2. v7' = Append(v7, event)
    BY <1>7 DEF Llm!Yield
  <2>3. /\ v7' \in Seq(Given)
        /\ Times(v7', {"open"}) = IF event = "open" THEN Times(v7, {"open"}) + 1 ELSE Times(v7, {"open"})
    BY <1>5, <2>1, <2>2, HeardMore
  <2>4. LlmTyped(v1', v2', v3', v4', v5', v6', v7', v8')
    BY <1>1, <1>2, <1>3, <1>7, <2>1, <2>3 DEF LlmTyped
  <2>5. StepsFollow(v6', v4', v7')
    BY <1>1, <1>5, <1>6, <1>7, <2>3 DEF StepsFollow
  <2> QED
    BY <1>4, <2>4, <2>5, LlmKept
<1>8. ASSUME v7' = v7, v4' = v4 \/ v4' = "nil", v3' \in {v3, v3 + 1, 1}, v5' \in {v5, TRUE},
             \/ v6' = v6
             \/ (v6 < MaxSteps /\ v6' = v6 + 1 /\ v4 = "open" /\ v4' = "nil")
      PROVE  LlmInv'
  <2>1. v3' \in Nat \ {0} /\ v6' \in 0 .. MaxSteps /\ v4' \in {"nil", "final", "open", "bare"}
    BY <1>5, <1>6, <1>8
  <2>2. v5' \in BOOLEAN
    BY <1>1, <1>8 DEF LlmTyped
  <2>3. LlmTyped(v1', v2', v3', v4', v5', v6', v7', v8')
    BY <1>1, <1>2, <1>3, <1>8, <2>1, <2>2 DEF LlmTyped
  <2>4. StepsFollow(v6', v4', v7')
    BY <1>1, <1>5, <1>6, <1>8 DEF StepsFollow
  <2> QED
    BY <1>4, <2>3, <2>4, LlmKept
<1>9. CASE Llm!Process
  BY <1>7, <1>8, <1>9 DEF Llm!Process
<1>10. CASE Llm!runOneStep
  BY <1>5, <1>8, <1>10 DEF Llm!runOneStep, Llm!EndsRun
<1> QED
  BY <1>9, <1>10

(* handleBeforeModelCallback. *)
LEMMA BeforeKeeps ==
  ASSUME LlmInv, Llm!handleBeforeModelCallback
  PROVE  LlmInv'
<1>1. LlmTyped(v1, v2, v3, v4, v5, v6, v7, v8) /\ StepsFollow(v6, v4, v7) /\ Hears(v1, v2, v3, v4, v7, v8)
  BY LlmIs
<1>2. v2 = "before" /\ UNCHANGED <<v1, v4, v5, v6, v8>> /\ v8 = 0
  BY <1>1 DEF Llm!handleBeforeModelCallback, Hears
<1>3. v7 \in Seq(Given) /\ v3 \in Nat \ {0}
  BY <1>1 DEF LlmTyped
<1>4. /\ v7' = v7 \/ \E what \in {"error", "answer"} : v7' = Append(v7, what)
      /\ \/ v2' = "before" /\ v3' = v3 + 1
         \/ v2' \in {"call", "stopped"} /\ v3' = 1
  BY <1>2 DEF Llm!handleBeforeModelCallback, Llm!Yield
<1>5. /\ v7' \in Seq(Given) /\ Times(v7', {"open"}) = Times(v7, {"open"})
      /\ HeardIn(v7', OfModel) = HeardIn(v7, OfModel)
  <2>1. CASE v7' = v7
    BY <1>3, <2>1
  <2>2. ASSUME NEW what \in {"error", "answer"}, v7' = Append(v7, what)
        PROVE  /\ v7' \in Seq(Given) /\ Times(v7', {"open"}) = Times(v7, {"open"})
               /\ HeardIn(v7', OfModel) = HeardIn(v7, OfModel)
    <3>1. what \in Given /\ what \notin {"open"} /\ what \notin OfModel
      BY DEF Given, OfModel
    <3> QED
      BY <1>3, <2>2, <3>1, HeardMore
  <2> QED
    BY <1>4, <2>1, <2>2
<1>6. v3' \in Nat \ {0}
  BY <1>3, <1>4
<1>7. LlmTyped(v1', v2', v3', v4', v5', v6', v7', v8')
  BY <1>1, <1>2, <1>4, <1>5, <1>6 DEF LlmTyped
<1>8. StepsFollow(v6', v4', v7')
  BY <1>1, <1>2, <1>5 DEF StepsFollow
<1>9. v1.flow = "call" => HeardIn(v7', OfModel) = {} /\ Times(v7', OfModel) = 0
  BY <1>1, <1>2, <1>5, FS_EmptySet DEF Hears, Times
<1>10. Hears(v1', v2', v3', v4', v7', v8')
  BY <1>2, <1>4, <1>9 DEF Hears
<1> QED
  BY <1>7, <1>8, <1>10, LlmKept

(* IncrementLLMCallCount. *)
LEMMA IncrementKeeps ==
  ASSUME LlmInv, Llm!IncrementLLMCallCount
  PROVE  LlmInv'
<1>1. LlmTyped(v1, v2, v3, v4, v5, v6, v7, v8) /\ StepsFollow(v6, v4, v7) /\ Hears(v1, v2, v3, v4, v7, v8)
  BY LlmIs
<1>2. v2 = "call" /\ UNCHANGED <<v1, v3, v4, v5, v6, v7>> /\ v8 = 0 /\ v8' \in {0, 1}
  BY <1>1 DEF Llm!IncrementLLMCallCount, Hears
<1>3. v2' \in {"responses", "panic", "ended"}
  BY <1>2 DEF Llm!IncrementLLMCallCount
<1>4. LlmTyped(v1', v2', v3', v4', v5', v6', v7', v8')
  BY <1>1, <1>2, <1>3 DEF LlmTyped
<1>5. Hears(v1', v2', v3', v4', v7', v8')
  BY <1>1, <1>2, <1>3 DEF Hears
<1> QED
  BY <1>1, <1>2, <1>4, <1>5, LlmKept DEF StepsFollow

(* handleAfterModelCallback. *)
LEMMA AfterKeeps ==
  ASSUME LlmInv, Llm!handleAfterModelCallback
  PROVE  LlmInv'
<1>1. LlmTyped(v1, v2, v3, v4, v5, v6, v7, v8) /\ StepsFollow(v6, v4, v7) /\ Hears(v1, v2, v3, v4, v7, v8)
  BY LlmIs
<1>2. v2 \in {"responses", "deaf"} /\ v3' = v3 + 1 /\ UNCHANGED <<v1, v4, v5, v6, v8>>
  BY DEF Llm!handleAfterModelCallback
<1>3. v7 \in Seq(Given) /\ v3 \in Nat \ {0}
  BY <1>1 DEF LlmTyped
<1>4. v2' \in {"panic", "responses", "deaf", "stopped"}
  BY <1>2 DEF Llm!handleAfterModelCallback, Llm!Stopped
<1>5. /\ Times(v7, OfModel) \in Nat
      /\ \A e \in {"response", "altered", "nil", "error"} :
           /\ Append(v7, e) \in Seq(Given)
           /\ Times(Append(v7, e), {"open"}) = Times(v7, {"open"})
           /\ Times(Append(v7, e), OfModel) \in {Times(v7, OfModel), Times(v7, OfModel) + 1}
           /\ e = "error" => Times(Append(v7, e), OfModel) = Times(v7, OfModel)
  <2>1. ASSUME NEW e \in {"response", "altered", "nil", "error"}
        PROVE  e \in Given /\ e \notin {"open"} /\ (e = "error" => e \notin OfModel)
    BY DEF Given, OfModel
  <2> QED
    BY <1>3, <2>1, HeardMore, TimesIs
<1>6. /\ v7' \in Seq(Given) /\ Times(v7', {"open"}) = Times(v7, {"open"})
      /\ Times(v7', OfModel) \in {Times(v7, OfModel), Times(v7, OfModel) + 1}
  <2>1. CASE v7' = v7
    BY <1>3, <1>5, <2>1
  <2>2. ASSUME NEW e \in {"response", "altered", "error"}, v7' = Append(v7, e)
        PROVE  /\ v7' \in Seq(Given) /\ Times(v7', {"open"}) = Times(v7, {"open"})
               /\ Times(v7', OfModel) \in {Times(v7, OfModel), Times(v7, OfModel) + 1}
    BY <1>5, <2>2
  <2>3. ASSUME NEW e \in {"altered", "nil"}, v7' = v7 \o <<"error", e>>
        PROVE  /\ v7' \in Seq(Given) /\ Times(v7', {"open"}) = Times(v7, {"open"})
               /\ Times(v7', OfModel) \in {Times(v7, OfModel), Times(v7, OfModel) + 1}
    <3>1. PICK s : s = Append(v7, "error")
      OBVIOUS
    <3>2. s \in Seq(Given) /\ Times(s, {"open"}) = Times(v7, {"open"}) /\ Times(s, OfModel) = Times(v7, OfModel)
      BY <1>5, <3>1
    <3>3. e \in Given /\ e \notin {"open"} /\ e \in OfModel
      BY DEF Given, OfModel
    <3>4. "error" \in Given
      BY DEF Given
    <3>5. v7' = Append(s, e)
      BY <1>3, <2>3, <3>1, <3>3, <3>4
    <3> QED
      BY <3>2, <3>3, <3>5, HeardMore
  <2>4. \/ v7' = v7
        \/ \E e \in {"response", "altered", "error"} : v7' = Append(v7, e)
        \/ \E e \in {"altered", "nil"} : v7' = v7 \o <<"error", e>>
    BY DEF Llm!handleAfterModelCallback, Llm!Yield
  <2> QED
    BY <2>1, <2>2, <2>3, <2>4
<1>7. LlmTyped(v1', v2', v3', v4', v5', v6', v7', v8')
  BY <1>1, <1>2, <1>3, <1>4, <1>6 DEF LlmTyped
<1>8. StepsFollow(v6', v4', v7')
  BY <1>1, <1>2, <1>6 DEF StepsFollow
<1>9. Hears(v1', v2', v3', v4', v7', v8')
  <2>1. v1.flow = "call" => v8 <= 1 /\ Times(v7, OfModel) < v3
    BY <1>1, <1>2 DEF Hears
  <2>2. v1.flow = "call" => Times(v7', OfModel) < v3 + 1
    BY <1>3, <1>5, <1>6, <2>1
  <2> QED
    BY <1>2, <1>4, <2>1, <2>2 DEF Hears
<1> QED
  BY <1>7, <1>8, <1>9, LlmKept

(* The inductive invariant of the steps. *)
LEMMA LlmInductive ==
  ASSUME LlmInv, Llm!Next
  PROVE  LlmInv'
<1>1. CASE Llm!callLLM
  <2>1. LlmTyped(v1, v2, v3, v4, v5, v6, v7, v8) /\ StepsFollow(v6, v4, v7) /\ Hears(v1, v2, v3, v4, v7, v8)
    BY LlmIs
  <2>2. v2 \in {"responses", "deaf"} /\ v2' = "ended" /\ UNCHANGED <<v1, v3, v4, v5, v6, v7, v8>>
    BY <1>1 DEF Llm!callLLM
  <2>3. LlmTyped(v1', v2', v3', v4', v5', v6', v7', v8')
    BY <2>1, <2>2 DEF LlmTyped
  <2>4. Hears(v1', v2', v3', v4', v7', v8')
    BY <2>1, <2>2 DEF Hears
  <2> QED
    BY <2>1, <2>2, <2>3, <2>4, LlmKept DEF StepsFollow
<1> QED
  BY <1>1, NewLLMAgentKeeps, RunKeeps, ProcessKeeps, BeforeKeeps, IncrementKeeps, AfterKeeps DEF Llm!Next

-----------------------------------------------------------------------------
(* The prompts.                                                            *)

Operations == {"create", "get", "update", "delete", "createVersion", "getVersion", "restore", "deleteVersion",
               "apply", "batch", "export"}
Makers == {"create", "batch"}

(* What may follow a step of an operation, as far as it matters. *)
Leads(op, at, next) ==
  /\ op \in Makers => /\ at = "unique" => next = "identify"
                      /\ next = "identify" => at = "unique"
                      /\ at = "save" => next = "put"
                      /\ at = "put" => next \in {"done", "unique"}
                      /\ at \in {"unique", "identify", "save", "put"}
  /\ next \in {"save", "put"} => at \in {"identify", "save", "find", "pick"}
  /\ at = "pick" /\ next \in {"save", "put"} => op = "restore" /\ next = "save"
  /\ op \notin Makers /\ next = "save" => at \in {"find", "pick"}
  /\ op \notin Makers => at \notin {"unique", "identify"} /\ next \notin {"unique", "identify"}
  /\ at = "put" => op \in {"create", "batch", "update", "restore"}
  /\ next \in {"done", "refused", "unique", "identify", "find", "pick", "save", "put", "drop", "dropVersion"}

(* The operations there are. *)
LEMMA OperationsAre == DOMAIN Prompt!Operation = Operations
BY DEF Prompt!Operation, Operations

(* The flow of each operation. *)
LEMMA FlowLeads ==
  ASSUME NEW op \in Operations, NEW at \in Prompt!Stages(op), NEW next \in Prompt!Operation[op][at]
  PROVE  Leads(op, at, next) /\ (next \in {"done", "refused"} \/ next \in Prompt!Stages(op))
<1>1. CASE op = "create"
  <2>1. Prompt!Operation[op] = Prompt!CreatePrompt
    BY <1>1 DEF Prompt!Operation
  <2>2. Prompt!Stages(op) = {"unique", "identify", "save", "put"}
    BY <2>1 DEF Prompt!Stages, Prompt!CreatePrompt
  <2>3. at \in {"unique", "identify", "save", "put"} /\ next \in Prompt!CreatePrompt[at]
    BY <2>1, <2>2
  <2> QED
    BY <1>1, <2>2, <2>3 DEF Leads, Makers, Prompt!CreatePrompt
<1>2. CASE op = "get"
  <2>1. Prompt!Operation[op] = Prompt!GetPrompt
    BY <1>2 DEF Prompt!Operation
  <2>2. Prompt!Stages(op) = {"find", "pick"}
    BY <2>1 DEF Prompt!Stages, Prompt!GetPrompt
  <2>3. at \in {"find", "pick"} /\ next \in Prompt!GetPrompt[at]
    BY <2>1, <2>2
  <2> QED
    BY <1>2, <2>2, <2>3 DEF Leads, Makers, Prompt!GetPrompt
<1>3. CASE op = "update"
  <2>1. Prompt!Operation[op] = Prompt!UpdatePrompt
    BY <1>3 DEF Prompt!Operation
  <2>2. Prompt!Stages(op) = {"find", "save", "put"}
    BY <2>1 DEF Prompt!Stages, Prompt!UpdatePrompt
  <2>3. at \in {"find", "save", "put"} /\ next \in Prompt!UpdatePrompt[at]
    BY <2>1, <2>2
  <2> QED
    BY <1>3, <2>2, <2>3 DEF Leads, Makers, Prompt!UpdatePrompt
<1>4. CASE op = "delete"
  <2>1. Prompt!Operation[op] = Prompt!DeletePrompt
    BY <1>4 DEF Prompt!Operation
  <2>2. Prompt!Stages(op) = {"find", "drop"}
    BY <2>1 DEF Prompt!Stages, Prompt!DeletePrompt
  <2>3. at \in {"find", "drop"} /\ next \in Prompt!DeletePrompt[at]
    BY <2>1, <2>2
  <2> QED
    BY <1>4, <2>2, <2>3 DEF Leads, Makers, Prompt!DeletePrompt
<1>5. CASE op = "createVersion"
  <2>1. Prompt!Operation[op] = Prompt!CreateVersion
    BY <1>5 DEF Prompt!Operation
  <2>2. Prompt!Stages(op) = {"find", "save"}
    BY <2>1 DEF Prompt!Stages, Prompt!CreateVersion
  <2>3. at \in {"find", "save"} /\ next \in Prompt!CreateVersion[at]
    BY <2>1, <2>2
  <2> QED
    BY <1>5, <2>2, <2>3 DEF Leads, Makers, Prompt!CreateVersion
<1>6. CASE op = "getVersion"
  <2>1. Prompt!Operation[op] = Prompt!GetVersion
    BY <1>6 DEF Prompt!Operation
  <2>2. Prompt!Stages(op) = {"pick"}
    BY <2>1 DEF Prompt!Stages, Prompt!GetVersion
  <2>3. at \in {"pick"} /\ next \in Prompt!GetVersion[at]
    BY <2>1, <2>2
  <2> QED
    BY <1>6, <2>2, <2>3 DEF Leads, Makers, Prompt!GetVersion
<1>7. CASE op = "restore"
  <2>1. Prompt!Operation[op] = Prompt!RestoreVersion
    BY <1>7 DEF Prompt!Operation
  <2>2. Prompt!Stages(op) = {"pick", "save", "find", "put"}
    BY <2>1 DEF Prompt!Stages, Prompt!RestoreVersion
  <2>3. at \in {"pick", "save", "find", "put"} /\ next \in Prompt!RestoreVersion[at]
    BY <2>1, <2>2
  <2> QED
    BY <1>7, <2>2, <2>3 DEF Leads, Makers, Prompt!RestoreVersion
<1>8. CASE op = "deleteVersion"
  <2>1. Prompt!Operation[op] = Prompt!DeleteVersion
    BY <1>8 DEF Prompt!Operation
  <2>2. Prompt!Stages(op) = {"pick", "dropVersion"}
    BY <2>1 DEF Prompt!Stages, Prompt!DeleteVersion
  <2>3. at \in {"pick", "dropVersion"} /\ next \in Prompt!DeleteVersion[at]
    BY <2>1, <2>2
  <2> QED
    BY <1>8, <2>2, <2>3 DEF Leads, Makers, Prompt!DeleteVersion
<1>9. CASE op = "apply"
  <2>1. Prompt!Operation[op] = Prompt!ApplyTemplate
    BY <1>9 DEF Prompt!Operation
  <2>2. Prompt!Stages(op) = {"find", "pick"}
    BY <2>1 DEF Prompt!Stages, Prompt!ApplyTemplate
  <2>3. at \in {"find", "pick"} /\ next \in Prompt!ApplyTemplate[at]
    BY <2>1, <2>2
  <2> QED
    BY <1>9, <2>2, <2>3 DEF Leads, Makers, Prompt!ApplyTemplate
<1>10. CASE op = "batch"
  <2>1. Prompt!Operation[op] = Prompt!BatchCreatePrompts
    BY <1>10 DEF Prompt!Operation
  <2>2. Prompt!Stages(op) = {"unique", "identify", "save", "put"}
    BY <2>1 DEF Prompt!Stages, Prompt!BatchCreatePrompts, Prompt!CreatePrompt
  <2>3. /\ Prompt!BatchCreatePrompts["unique"] = {"identify"} /\ Prompt!BatchCreatePrompts["identify"] = {"save", "put"}
        /\ Prompt!BatchCreatePrompts["save"] = {"put"} /\ Prompt!BatchCreatePrompts["put"] = {"done", "unique"}
    BY DEF Prompt!BatchCreatePrompts, Prompt!CreatePrompt
  <2>4. at \in {"unique", "identify", "save", "put"} /\ next \in Prompt!BatchCreatePrompts[at]
    BY <2>1, <2>2
  <2>5. \/ at = "unique" /\ next = "identify"
        \/ at = "identify" /\ next \in {"save", "put"}
        \/ at = "save" /\ next = "put"
        \/ at = "put" /\ next \in {"done", "unique"}
    BY <2>3, <2>4
  <2> QED
    BY <1>10, <2>2, <2>5 DEF Leads, Makers
<1>11. CASE op = "export"
  <2>1. Prompt!Operation[op] = Prompt!ExportPrompts
    BY <1>11 DEF Prompt!Operation
  <2>2. Prompt!Stages(op) = {"find"}
    BY <2>1 DEF Prompt!Stages, Prompt!ExportPrompts
  <2>3. at \in {"find"} /\ next \in Prompt!ExportPrompts[at]
    BY <2>1, <2>2
  <2> QED
    BY <1>11, <2>2, <2>3 DEF Leads, Makers, Prompt!ExportPrompts
<1> QED
  BY <1>1, <1>2, <1>3, <1>4, <1>5, <1>6, <1>7, <1>8, <1>9, <1>10, <1>11 DEF Operations

(* Where an operation begins. *)
LEMMA FlowBegins ==
  ASSUME NEW op \in Operations, NEW step \in Prompt!Operation[op].first
  PROVE  step \in Prompt!Stages(op) /\ step \in {"unique", "find", "pick"}
<1>1. CASE op = "create"
  <2>1. Prompt!Operation[op] = Prompt!CreatePrompt
    BY <1>1 DEF Prompt!Operation
  <2>2. step \in Prompt!CreatePrompt.first
    BY <2>1
  <2> QED
    BY <2>1, <2>2 DEF Prompt!Stages, Prompt!CreatePrompt
<1>2. CASE op = "get"
  <2>1. Prompt!Operation[op] = Prompt!GetPrompt
    BY <1>2 DEF Prompt!Operation
  <2>2. step \in Prompt!GetPrompt.first
    BY <2>1
  <2> QED
    BY <2>1, <2>2 DEF Prompt!Stages, Prompt!GetPrompt
<1>3. CASE op = "update"
  <2>1. Prompt!Operation[op] = Prompt!UpdatePrompt
    BY <1>3 DEF Prompt!Operation
  <2>2. step \in Prompt!UpdatePrompt.first
    BY <2>1
  <2> QED
    BY <2>1, <2>2 DEF Prompt!Stages, Prompt!UpdatePrompt
<1>4. CASE op = "delete"
  <2>1. Prompt!Operation[op] = Prompt!DeletePrompt
    BY <1>4 DEF Prompt!Operation
  <2>2. step \in Prompt!DeletePrompt.first
    BY <2>1
  <2> QED
    BY <2>1, <2>2 DEF Prompt!Stages, Prompt!DeletePrompt
<1>5. CASE op = "createVersion"
  <2>1. Prompt!Operation[op] = Prompt!CreateVersion
    BY <1>5 DEF Prompt!Operation
  <2>2. step \in Prompt!CreateVersion.first
    BY <2>1
  <2> QED
    BY <2>1, <2>2 DEF Prompt!Stages, Prompt!CreateVersion
<1>6. CASE op = "getVersion"
  <2>1. Prompt!Operation[op] = Prompt!GetVersion
    BY <1>6 DEF Prompt!Operation
  <2>2. step \in Prompt!GetVersion.first
    BY <2>1
  <2> QED
    BY <2>1, <2>2 DEF Prompt!Stages, Prompt!GetVersion
<1>7. CASE op = "restore"
  <2>1. Prompt!Operation[op] = Prompt!RestoreVersion
    BY <1>7 DEF Prompt!Operation
  <2>2. step \in Prompt!RestoreVersion.first
    BY <2>1
  <2> QED
    BY <2>1, <2>2 DEF Prompt!Stages, Prompt!RestoreVersion
<1>8. CASE op = "deleteVersion"
  <2>1. Prompt!Operation[op] = Prompt!DeleteVersion
    BY <1>8 DEF Prompt!Operation
  <2>2. step \in Prompt!DeleteVersion.first
    BY <2>1
  <2> QED
    BY <2>1, <2>2 DEF Prompt!Stages, Prompt!DeleteVersion
<1>9. CASE op = "apply"
  <2>1. Prompt!Operation[op] = Prompt!ApplyTemplate
    BY <1>9 DEF Prompt!Operation
  <2>2. step \in Prompt!ApplyTemplate.first
    BY <2>1
  <2> QED
    BY <2>1, <2>2 DEF Prompt!Stages, Prompt!ApplyTemplate
<1>10. CASE op = "batch"
  <2>1. Prompt!Operation[op] = Prompt!BatchCreatePrompts
    BY <1>10 DEF Prompt!Operation
  <2>2. step \in Prompt!BatchCreatePrompts.first
    BY <2>1
  <2> QED
    BY <2>1, <2>2 DEF Prompt!Stages, Prompt!BatchCreatePrompts, Prompt!CreatePrompt
<1>11. CASE op = "export"
  <2>1. Prompt!Operation[op] = Prompt!ExportPrompts
    BY <1>11 DEF Prompt!Operation
  <2>2. step \in Prompt!ExportPrompts.first
    BY <2>1
  <2> QED
    BY <2>1, <2>2 DEF Prompt!Stages, Prompt!ExportPrompts
<1> QED
  BY <1>1, <1>2, <1>3, <1>4, <1>5, <1>6, <1>7, <1>8, <1>9, <1>10, <1>11 DEF Operations

(* The operations that put. *)
LEMMA PutsAre ==
  ASSUME NEW op \in Operations, "put" \in Prompt!Stages(op)
  PROVE  op \in {"create", "batch", "update", "restore"}
<1>1. ASSUME op = "get"
      PROVE  FALSE
  <2>1. Prompt!Operation[op] = Prompt!GetPrompt
    BY <1>1 DEF Prompt!Operation
  <2> QED
    BY <2>1 DEF Prompt!Stages, Prompt!GetPrompt
<1>2. ASSUME op = "delete"
      PROVE  FALSE
  <2>1. Prompt!Operation[op] = Prompt!DeletePrompt
    BY <1>2 DEF Prompt!Operation
  <2> QED
    BY <2>1 DEF Prompt!Stages, Prompt!DeletePrompt
<1>3. ASSUME op = "createVersion"
      PROVE  FALSE
  <2>1. Prompt!Operation[op] = Prompt!CreateVersion
    BY <1>3 DEF Prompt!Operation
  <2> QED
    BY <2>1 DEF Prompt!Stages, Prompt!CreateVersion
<1>4. ASSUME op = "getVersion"
      PROVE  FALSE
  <2>1. Prompt!Operation[op] = Prompt!GetVersion
    BY <1>4 DEF Prompt!Operation
  <2> QED
    BY <2>1 DEF Prompt!Stages, Prompt!GetVersion
<1>5. ASSUME op = "deleteVersion"
      PROVE  FALSE
  <2>1. Prompt!Operation[op] = Prompt!DeleteVersion
    BY <1>5 DEF Prompt!Operation
  <2> QED
    BY <2>1 DEF Prompt!Stages, Prompt!DeleteVersion
<1>6. ASSUME op = "apply"
      PROVE  FALSE
  <2>1. Prompt!Operation[op] = Prompt!ApplyTemplate
    BY <1>6 DEF Prompt!Operation
  <2> QED
    BY <2>1 DEF Prompt!Stages, Prompt!ApplyTemplate
<1>7. ASSUME op = "export"
      PROVE  FALSE
  <2>1. Prompt!Operation[op] = Prompt!ExportPrompts
    BY <1>7 DEF Prompt!Operation
  <2> QED
    BY <2>1 DEF Prompt!Stages, Prompt!ExportPrompts
<1> QED
  BY <1>1, <1>2, <1>3, <1>4, <1>5, <1>6, <1>7 DEF Operations

PromptInv ==
  /\ Prompt!TypeOK /\ Prompt!WritersHaveAnId /\ Prompt!Together /\ Prompt!NamesTakenTogether
  /\ Prompt!StoredAreKnown /\ Prompt!NamesClashOnlyByRace /\ Prompt!VersionsHaveAPrompt

(* The invariant, by what it relates. *)
LocalsTyped(x) ==
  /\ x \in Prompt!Locals
  /\ x.at \notin {"idle", "returned"} => x.op \in Operations /\ x.at \in Prompt!Stages(x.op)
  /\ x.at \in {"save", "put"} => x.id \in PromptIds

StoredPrompts ==
  [id : PromptIds \cup {""}, name : PromptNames, ver : VersionIds \cup {""},
   by : Callers \cup {"none"}, made : {"none", "create", "update", "restore"}]
PromptTyped(cache, versions, calls, known, overlaps) ==
  /\ cache \in [PromptIds -> StoredPrompts] /\ versions \in [PromptIds -> SUBSET VersionIds]
  /\ calls \in [Callers -> Prompt!Locals] /\ \A c \in Callers : LocalsTyped(calls[c])
  /\ known \subseteq PromptIds /\ overlaps \subseteq SUBSET Callers

InProgress(x) == x.at \notin {"idle", "returned"}
Overlapping(calls, overlaps) ==
  \A c, d \in Callers : c # d /\ InProgress(calls[c]) /\ InProgress(calls[d]) => {c, d} \in overlaps

(* Call x of c still wants a name; whoever took it since ran with c. *)
Wants(x) == x.op \in Makers /\ x.at \in {"identify", "save", "put"} /\ x.name # ""
TakenTogether(c, name, cache, overlaps) ==
  \A i \in PromptIds :
    cache[i] # Prompt!None /\ cache[i].name = name => cache[i].made = "update" \/ {c, cache[i].by} \in overlaps

Putting(x, i) == x.op \in Makers /\ x.at = "put" /\ x.id = i
IsKnown(i, calls, known) == i \in known \/ \E c \in Callers : Putting(calls[c], i)
AreKnown(cache, versions, calls, known) ==
  /\ \A i \in PromptIds : cache[i] # Prompt!None => i \in known
  /\ \A i \in PromptIds : versions[i] # {} => IsKnown(i, calls, known)
  /\ \A c \in Callers : calls[c].at = "save" /\ calls[c].op \notin Makers => IsKnown(calls[c].id, calls, known)

Clashes(p, q, overlaps) ==
  p # Prompt!None /\ q # Prompt!None /\ p.name = q.name /\ p.name # ""
    => "update" \in {p.made, q.made} \/ {p.by, q.by} \in overlaps
ClashByRace(cache, overlaps) ==
  \A i, j \in PromptIds : i # j => Clashes(cache[i], cache[j], overlaps)

(* The invariant in these terms. *)
LEMMA PromptFacts ==
  ASSUME PromptInv
  PROVE  /\ PromptTyped(v1, v2, v3, v4, v5) /\ Overlapping(v3, v5) /\ AreKnown(v1, v2, v3, v4)
         /\ ClashByRace(v1, v5) /\ \A c \in Callers : Wants(v3[c]) => TakenTogether(c, v3[c].name, v1, v5)
<1>1. PromptTyped(v1, v2, v3, v4, v5)
  <2>1. v3 \in [Callers -> Prompt!Locals]
    BY DEF PromptInv, Prompt!TypeOK
  <2>2. \A c \in Callers : LocalsTyped(v3[c])
    BY <2>1, OperationsAre DEF PromptInv, Prompt!TypeOK, Prompt!Busy, Prompt!WritersHaveAnId, LocalsTyped
  <2> QED
    BY <2>1, <2>2 DEF PromptInv, Prompt!TypeOK, PromptTyped, StoredPrompts
<1>2. Overlapping(v3, v5)
  BY DEF PromptInv, Prompt!Together, Prompt!Busy, Overlapping, InProgress
<1>3. AreKnown(v1, v2, v3, v4)
  BY DEF PromptInv, Prompt!StoredAreKnown, Prompt!VersionsHaveAPrompt, Prompt!Known, Prompt!Creates,
         AreKnown, IsKnown, Putting, Makers
<1>4. ClashByRace(v1, v5)
  BY DEF PromptInv, Prompt!NamesClashOnlyByRace, ClashByRace, Clashes
<1>5. \A c \in Callers : Wants(v3[c]) => TakenTogether(c, v3[c].name, v1, v5)
  BY DEF PromptInv, Prompt!NamesTakenTogether, Prompt!Creates, Wants, TakenTogether, Makers
<1> QED
  BY <1>1, <1>2, <1>3, <1>4, <1>5

(* What each step has to keep. *)
LEMMA PromptKept ==
  ASSUME PromptTyped(v1', v2', v3', v4', v5'), Overlapping(v3', v5'), AreKnown(v1', v2', v3', v4'),
         ClashByRace(v1', v5'), \A c \in Callers : Wants(v3'[c]) => TakenTogether(c, v3'[c].name, v1', v5')
  PROVE  PromptInv'
<1>1. Prompt!TypeOK'
  <2>1. \A c \in Callers : LocalsTyped(v3'[c]) /\ v3'[c] \in Prompt!Locals
    BY DEF PromptTyped, LocalsTyped
  <2>2. \A c \in Callers : Prompt!Busy(c)' => v3'[c].op \in DOMAIN Prompt!Operation /\ v3'[c].at \in Prompt!Stages(v3'[c].op)
    BY <2>1, OperationsAre DEF LocalsTyped, Prompt!Busy
  <2> QED
    BY <2>2 DEF Prompt!TypeOK, PromptTyped, StoredPrompts
<1>2. Prompt!WritersHaveAnId'
  BY DEF Prompt!WritersHaveAnId, PromptTyped, LocalsTyped
<1>3. Prompt!Together'
  BY DEF Prompt!Together, Prompt!Busy, Overlapping, InProgress
<1>4. Prompt!StoredAreKnown' /\ Prompt!VersionsHaveAPrompt'
  BY DEF Prompt!StoredAreKnown, Prompt!VersionsHaveAPrompt, Prompt!Known, Prompt!Creates,
         AreKnown, IsKnown, Putting, Makers
<1>5. Prompt!NamesClashOnlyByRace'
  BY DEF Prompt!NamesClashOnlyByRace, ClashByRace, Clashes
<1>6. Prompt!NamesTakenTogether'
  BY DEF Prompt!NamesTakenTogether, Prompt!Creates, Wants, TakenTogether, Makers
<1> QED
  BY <1>1, <1>2, <1>3, <1>4, <1>5, <1>6 DEF PromptInv

(* The initial state of the prompts. *)
LEMMA PromptStart ==
  ASSUME Prompt!Init
  PROVE  PromptInv
<1>1. /\ v1 = [i \in PromptIds |-> Prompt!None] /\ v2 = [i \in PromptIds |-> {}]
      /\ v3 = [c \in Callers |-> Prompt!Idle] /\ v4 = {} /\ v5 = {}
  BY DEF Prompt!Init
<1>2. Prompt!None \in StoredPrompts
  BY PromptsAssumption DEF Prompt!None, StoredPrompts
<1>3. Prompt!Idle \in Prompt!Locals /\ Prompt!Idle.at = "idle"
  BY PromptsAssumption DEF Prompt!Idle, Prompt!Locals
<1>4. \A c \in Callers : v3[c] = Prompt!Idle
  BY <1>1
<1>5. \A c \in Callers : LocalsTyped(v3[c]) /\ v3[c].at = "idle"
  BY <1>3, <1>4 DEF LocalsTyped
<1>6. PromptTyped(v1, v2, v3, v4, v5)
  BY <1>1, <1>2, <1>3, <1>5 DEF PromptTyped
<1>7. Prompt!TypeOK
  <2>1. v3 \in [Callers -> Prompt!Locals]
    BY <1>1, <1>3
  <2>2. \A c \in Callers : Prompt!Busy(c) => v3[c].op \in DOMAIN Prompt!Operation /\ v3[c].at \in Prompt!Stages(v3[c].op)
    BY <1>5 DEF Prompt!Busy
  <2> QED
    BY <1>6, <2>1, <2>2 DEF Prompt!TypeOK, PromptTyped, StoredPrompts
<1>8. Prompt!WritersHaveAnId /\ Prompt!Together /\ Prompt!NamesTakenTogether
  BY <1>5 DEF Prompt!WritersHaveAnId, Prompt!Together, Prompt!NamesTakenTogether, Prompt!Busy
<1>9. Prompt!StoredAreKnown /\ Prompt!NamesClashOnlyByRace /\ Prompt!VersionsHaveAPrompt
  BY <1>1, <1>5 DEF Prompt!StoredAreKnown, Prompt!NamesClashOnlyByRace, Prompt!VersionsHaveAPrompt
<1> QED
  BY <1>7, <1>8, <1>9 DEF PromptInv

(* A call that returns. *)
LEMMA ReturnIs ==
  ASSUME NEW c \in Callers, Prompt!Return(c)
  PROVE  \E y : v3' = [v3 EXCEPT ![c] = y] /\ LocalsTyped(y) /\ y.at = "returned"
<1>1. PICK idle : idle = Prompt!Idle
  OBVIOUS
<1>2. idle \in Prompt!Locals
  BY <1>1, PromptsAssumption DEF Prompt!Idle, Prompt!Locals
<1>3. PICK at \in {"idle", "returned"} : at = "returned"
  OBVIOUS
<1>4. PICK y : y = [idle EXCEPT !.at = at]
  OBVIOUS
<1>5. y \in Prompt!Locals /\ y.at = at
  BY <1>2, <1>3, <1>4 DEF Prompt!Locals
<1>6. LocalsTyped(y)
  BY <1>3, <1>5 DEF LocalsTyped
<1> QED
  BY <1>1, <1>3, <1>4, <1>5, <1>6 DEF Prompt!Return

(* A call that fails. *)
LEMMA FailIs ==
  ASSUME PromptInv, NEW c \in Callers, InProgress(v3[c]), Prompt!Fail(c)
  PROVE  \E y : v3' = [v3 EXCEPT ![c] = y] /\ LocalsTyped(y) /\ y.at \in {"returned", "unique", "find", "pick"}
<1>1. CASE Prompt!Return(c)
  BY <1>1, ReturnIs
<1>2. ASSUME NEW step \in Prompt!Operation[v3[c].op].first, v3' = [v3 EXCEPT ![c].at = step]
      PROVE  \E y : v3' = [v3 EXCEPT ![c] = y] /\ LocalsTyped(y) /\ y.at \in {"returned", "unique", "find", "pick"}
  <2>1. PICK x : x = v3[c]
    OBVIOUS
  <2>2. LocalsTyped(x) /\ x.op \in Operations
    BY <2>1, PromptFacts DEF PromptTyped, LocalsTyped, InProgress
  <2>3. step \in Prompt!Stages(x.op) /\ step \in {"unique", "find", "pick"}
    BY <2>1, <2>2, FlowBegins
  <2>4. PICK y : y = [x EXCEPT !.at = step]
    OBVIOUS
  <2>5. y \in Prompt!Locals /\ y.at = step /\ y.op = x.op
    BY <2>2, <2>3, <2>4 DEF LocalsTyped, Prompt!Locals
  <2>6. LocalsTyped(y)
    BY <2>2, <2>3, <2>5 DEF LocalsTyped
  <2>7. v3' = [v3 EXCEPT ![c] = y]
    BY <1>2, <2>1, <2>4
  <2> QED
    BY <2>3, <2>5, <2>6, <2>7
<1> QED
  BY <1>1, <1>2 DEF Prompt!Fail

(* A call that goes on, from x to y, or ends after x. *)
GoesOn(x, y, id, name) ==
  /\ y.op = x.op /\ y.id = id /\ y.name = name /\ y.op \in Operations
  /\ Leads(y.op, x.at, y.at)
Ends(x) == \E next \in {"done", "refused"} : Leads(x.op, x.at, next)

(* Where a call goes on. *)
LEMMA ProceedIs ==
  ASSUME PromptInv, NEW c \in Callers, InProgress(v3[c]), NEW id \in PromptIds \cup {""}, NEW name \in PromptNames,
         NEW ver \in VersionIds \cup {""}, Prompt!Proceed(c, id, name, ver),
         id \in PromptIds \/ v3[c].at \in {"unique", "put", "drop", "dropVersion"}
                          \/ (v3[c].at = "pick" /\ v3[c].op # "restore")
  PROVE  \E y : /\ v3' = [v3 EXCEPT ![c] = y] /\ LocalsTyped(y)
                /\ \/ y.at = "returned" /\ Ends(v3[c])
                   \/ GoesOn(v3[c], y, id, name)
<1>1. PICK x : x = v3[c]
  OBVIOUS
<1>2. LocalsTyped(x) /\ x.op \in Operations /\ x.at \in Prompt!Stages(x.op)
  BY <1>1, PromptFacts DEF PromptTyped, LocalsTyped, InProgress
<1>3. PICK next \in Prompt!Operation[x.op][x.at] :
        IF next \in {"done", "refused"} THEN Prompt!Return(c)
        ELSE v3' = [v3 EXCEPT ![c] = [op |-> @.op, at |-> next, id |-> id, name |-> name, ver |-> ver]]
  BY <1>1 DEF Prompt!Proceed
<1>4. Leads(x.op, x.at, next) /\ (next \in {"done", "refused"} \/ next \in Prompt!Stages(x.op))
  BY <1>2, <1>3, FlowLeads
<1>5. CASE next \in {"done", "refused"}
  <2>1. Ends(x)
    BY <1>4, <1>5 DEF Ends
  <2> QED
    BY <1>1, <1>3, <1>5, <2>1, ReturnIs
<1>6. CASE next \notin {"done", "refused"}
  <2>1. PICK y : y = [op |-> x.op, at |-> next, id |-> id, name |-> name, ver |-> ver]
    OBVIOUS
  <2>2. y.op = x.op /\ y.at = next /\ y.id = id /\ y.name = name /\ y.ver = ver
    BY <2>1
  <2>3. next \in {"unique", "identify", "find", "pick", "save", "put", "drop", "dropVersion"}
    BY <1>4, <1>6 DEF Leads
  <2>4. y \in Prompt!Locals
    BY <1>2, <2>1, <2>3, OperationsAre DEF Prompt!Locals
  <2>5. next \in {"save", "put"} => id \in PromptIds
    BY <1>1, <1>4 DEF Leads
  <2>6. LocalsTyped(y)
    BY <1>2, <1>4, <1>6, <2>2, <2>4, <2>5 DEF LocalsTyped
  <2>7. GoesOn(x, y, id, name)
    BY <1>2, <1>4, <2>2 DEF GoesOn
  <2>8. v3' = [v3 EXCEPT ![c] = y]
    BY <1>1, <1>3, <1>6, <2>1
  <2> QED
    BY <1>1, <2>6, <2>7, <2>8
<1> QED
  BY <1>5, <1>6

(* A call goes on, and perhaps changes the versions. *)
LEMMA PromptCallMoves ==
  ASSUME PromptInv, NEW c \in Callers, NEW y, LocalsTyped(y), v3' = [v3 EXCEPT ![c] = y], UNCHANGED <<v1, v4, v5>>,
         InProgress(v3[c]), v3[c].at # "put", Wants(y) => TakenTogether(c, y.name, v1, v5),
         y.at = "save" /\ y.op \notin Makers => IsKnown(y.id, v3, v4),
         v2' \in [PromptIds -> SUBSET VersionIds],
         \A i \in PromptIds : v2'[i] # {} => v2[i] # {} \/ IsKnown(i, v3', v4)
  PROVE  PromptInv'
<1>0. /\ PromptTyped(v1, v2, v3, v4, v5) /\ Overlapping(v3, v5) /\ AreKnown(v1, v2, v3, v4)
      /\ ClashByRace(v1, v5) /\ \A d \in Callers : Wants(v3[d]) => TakenTogether(d, v3[d].name, v1, v5)
  BY PromptFacts
<1>1. v3 \in [Callers -> Prompt!Locals] /\ v3'[c] = y /\ \A d \in Callers : d # c => v3'[d] = v3[d]
  BY <1>0 DEF PromptTyped
<1>2. v3' \in [Callers -> Prompt!Locals]
  BY <1>1 DEF LocalsTyped
<1>3. PromptTyped(v1', v2', v3', v4', v5')
  BY <1>0, <1>1, <1>2 DEF PromptTyped
<1>4. Overlapping(v3', v5')
  BY <1>0, <1>1 DEF Overlapping
<1>5. \A i : IsKnown(i, v3, v4) => IsKnown(i, v3', v4)
  BY <1>1 DEF IsKnown, Putting
<1>6. AreKnown(v1', v2', v3', v4')
  BY <1>0, <1>1, <1>5 DEF AreKnown
<1>7. \A d \in Callers : Wants(v3'[d]) => TakenTogether(d, v3'[d].name, v1', v5')
  BY <1>0, <1>1
<1>8. ClashByRace(v1', v5')
  BY <1>0
<1> QED
  BY <1>3, <1>4, <1>6, <1>7, <1>8, PromptKept

(* A step that fails, or goes on without a name it wants. *)
LEMMA PromptCallFails ==
  ASSUME PromptInv, NEW c \in Callers, InProgress(v3[c]), v3[c].at # "put", Prompt!Fail(c), UNCHANGED <<v1, v2, v4, v5>>
  PROVE  PromptInv'
<1>1. PICK y : v3' = [v3 EXCEPT ![c] = y] /\ LocalsTyped(y) /\ y.at \in {"returned", "unique", "find", "pick"}
  BY FailIs
<1>2. ~Wants(y) /\ y.at # "save"
  BY <1>1 DEF Wants
<1>3. v2' \in [PromptIds -> SUBSET VersionIds]
  BY PromptFacts DEF PromptTyped
<1> QED
  BY <1>1, <1>2, <1>3, PromptCallMoves

(* Unique. *)
LEMMA UniqueKeeps ==
  ASSUME PromptInv, NEW c \in Callers, Prompt!Unique(c)
  PROVE  PromptInv'
<1>0. v3[c].at = "unique" /\ InProgress(v3[c]) /\ UNCHANGED <<v1, v2, v4, v5>>
  BY DEF Prompt!Unique, InProgress
<1>1. CASE Prompt!Fail(c)
  BY <1>0, <1>1, PromptCallFails
<1>2. ASSUME NEW name \in PromptNames, ~(name # "" /\ Prompt!Named(name) # {}), Prompt!Proceed(c, "", name, "")
      PROVE  PromptInv'
  <2>1. PICK y : v3' = [v3 EXCEPT ![c] = y] /\ LocalsTyped(y) /\ (y.at = "returned" \/ GoesOn(v3[c], y, "", name))
    BY <1>0, <1>2, ProceedIs
  <2>2. Wants(y) => TakenTogether(c, y.name, v1, v5)
    BY <1>2, <2>1 DEF Wants, TakenTogether, GoesOn, Prompt!Named
  <2>3. y.at = "save" => y.op \in Makers
    BY <1>0, <2>1 DEF GoesOn, Leads
  <2>4. v2' \in [PromptIds -> SUBSET VersionIds]
    BY <1>0, PromptFacts DEF PromptTyped
  <2> QED
    BY <1>0, <2>1, <2>2, <2>3, <2>4, PromptCallMoves
<1> QED
  BY <1>1, <1>2 DEF Prompt!Unique

(* Identify. *)
LEMMA IdentifyKeeps ==
  ASSUME PromptInv, NEW c \in Callers, Prompt!Identify(c)
  PROVE  PromptInv'
<1>0. v3[c].at = "identify" /\ InProgress(v3[c]) /\ UNCHANGED <<v1, v2, v4, v5>>
  BY DEF Prompt!Identify, InProgress
<1>1. PICK id \in PromptIds : Prompt!Proceed(c, id, v3[c].name, "")
  BY DEF Prompt!Identify
<1>2. v3[c].name \in PromptNames
  BY PromptFacts DEF PromptTyped, LocalsTyped, Prompt!Locals
<1>3. PICK y : v3' = [v3 EXCEPT ![c] = y] /\ LocalsTyped(y) /\ (y.at = "returned" \/ GoesOn(v3[c], y, id, v3[c].name))
  BY <1>0, <1>1, <1>2, ProceedIs
<1>4. Wants(y) => TakenTogether(c, y.name, v1, v5)
  BY <1>0, <1>3, PromptFacts DEF Wants, GoesOn
<1>5. y.at = "save" => y.op \in Makers
  BY <1>0, <1>3 DEF GoesOn, Leads
<1>6. v2' \in [PromptIds -> SUBSET VersionIds]
  BY <1>0, PromptFacts DEF PromptTyped
<1> QED
  BY <1>0, <1>3, <1>4, <1>5, <1>6, PromptCallMoves

(* Find. *)
LEMMA FindKeeps ==
  ASSUME PromptInv, NEW c \in Callers, Prompt!Find(c)
  PROVE  PromptInv'
<1>0. v3[c].at = "find" /\ InProgress(v3[c]) /\ UNCHANGED <<v1, v2, v4, v5>>
  BY DEF Prompt!Find, InProgress
<1>1. CASE Prompt!Fail(c)
  BY <1>0, <1>1, PromptCallFails
<1>2. ASSUME NEW i \in PromptIds, v1[i] # Prompt!None, Prompt!Proceed(c, i, "", v1[i].ver)
      PROVE  PromptInv'
  <2>1. v1[i].ver \in VersionIds \cup {""} /\ "" \in PromptNames
    BY PromptFacts, PromptsAssumption DEF PromptTyped, StoredPrompts
  <2>2. PICK y : v3' = [v3 EXCEPT ![c] = y] /\ LocalsTyped(y) /\ (y.at = "returned" \/ GoesOn(v3[c], y, i, ""))
    BY <1>0, <1>2, <2>1, ProceedIs
  <2>3. ~Wants(y)
    BY <2>2 DEF Wants, GoesOn
  <2>4. y.at = "save" => IsKnown(y.id, v3, v4)
    BY <1>2, <2>2, PromptFacts DEF GoesOn, AreKnown, IsKnown
  <2>5. v2' \in [PromptIds -> SUBSET VersionIds]
    BY <1>0, PromptFacts DEF PromptTyped
  <2> QED
    BY <1>0, <2>2, <2>3, <2>4, <2>5, PromptCallMoves
<1> QED
  BY <1>1, <1>2 DEF Prompt!Find

(* Pick. *)
LEMMA PickKeeps ==
  ASSUME PromptInv, NEW c \in Callers, Prompt!Pick(c)
  PROVE  PromptInv'
<1>0. v3[c].at = "pick" /\ InProgress(v3[c]) /\ UNCHANGED <<v1, v2, v4, v5>>
  BY DEF Prompt!Pick, InProgress
<1>1. CASE Prompt!Fail(c)
  BY <1>0, <1>1, PromptCallFails
<1>2. ASSUME NEW pid \in PromptIds \cup {""}, NEW v \in VersionIds, Prompt!Proceed(c, pid, "", v),
             v3[c].op \notin {"get", "apply"} => pid \in PromptIds /\ v \in v2[pid]
      PROVE  PromptInv'
  <2>1. "" \in PromptNames
    BY PromptsAssumption
  <2>2. PICK y : v3' = [v3 EXCEPT ![c] = y] /\ LocalsTyped(y) /\ (y.at = "returned" \/ GoesOn(v3[c], y, pid, ""))
    BY <1>0, <1>2, <2>1, ProceedIs
  <2>3. ~Wants(y)
    BY <2>2 DEF Wants, GoesOn
  <2>4. y.at = "save" => IsKnown(y.id, v3, v4)
    BY <1>0, <1>2, <2>2, PromptFacts DEF GoesOn, Leads, AreKnown
  <2>5. v2' \in [PromptIds -> SUBSET VersionIds]
    BY <1>0, PromptFacts DEF PromptTyped
  <2> QED
    BY <1>0, <2>2, <2>3, <2>4, <2>5, PromptCallMoves
<1>3. v3[c].id \in PromptIds \cup {""}
  BY PromptFacts DEF PromptTyped, LocalsTyped, Prompt!Locals
<1>4. \/ Prompt!Fail(c)
      \/ \E pid \in PromptIds \cup {""}, v \in VersionIds :
           Prompt!Proceed(c, pid, "", v) /\ (v3[c].op \notin {"get", "apply"} => pid \in PromptIds /\ v \in v2[pid])
  BY <1>3 DEF Prompt!Pick
<1> QED
  BY <1>1, <1>2, <1>4

(* Save. *)
LEMMA PromptSaveKeeps ==
  ASSUME PromptInv, NEW c \in Callers, Prompt!Save(c)
  PROVE  PromptInv'
<1>0. v3[c].at = "save" /\ InProgress(v3[c]) /\ UNCHANGED <<v1, v4, v5>>
  BY DEF Prompt!Save, InProgress
<1>1. PICK v \in VersionIds : /\ v2' = [v2 EXCEPT ![v3[c].id] = @ \cup {v}]
                              /\ Prompt!Proceed(c, v3[c].id, v3[c].name, v)
  BY DEF Prompt!Save
<1>2. /\ v3[c].name \in PromptNames /\ v3[c].id \in PromptIds
      /\ v2 \in [PromptIds -> SUBSET VersionIds] /\ v3 \in [Callers -> Prompt!Locals]
  BY <1>0, PromptFacts DEF PromptTyped, LocalsTyped, Prompt!Locals
<1>3. PICK y : /\ v3' = [v3 EXCEPT ![c] = y] /\ LocalsTyped(y)
               /\ \/ y.at = "returned" /\ Ends(v3[c])
                  \/ GoesOn(v3[c], y, v3[c].id, v3[c].name)
  BY <1>0, <1>1, <1>2, ProceedIs
<1>4. Wants(y) => TakenTogether(c, y.name, v1, v5)
  BY <1>0, <1>3, PromptFacts DEF Wants, GoesOn
<1>5. y.at = "save" => y.op \in Makers
  BY <1>0, <1>3 DEF GoesOn, Leads
<1>6. v2' \in [PromptIds -> SUBSET VersionIds]
  BY <1>1, <1>2
<1>7. v2'[v3[c].id] # {} /\ IsKnown(v3[c].id, v3', v4)
  <2>1. CASE v3[c].op \in Makers
    <3>1. y.op = v3[c].op /\ y.at = "put" /\ y.id = v3[c].id
      BY <1>0, <1>3, <2>1 DEF Ends, GoesOn, Leads
    <3>2. v3'[c] = y
      BY <1>2, <1>3
    <3> QED
      BY <1>1, <1>2, <2>1, <3>1, <3>2 DEF IsKnown, Putting
  <2>2. CASE v3[c].op \notin Makers
    <3>1. IsKnown(v3[c].id, v3, v4)
      BY <1>0, <2>2, PromptFacts DEF AreKnown
    <3>2. \A d \in Callers : Putting(v3[d], v3[c].id) => d # c
      BY <1>0 DEF Putting
    <3>3. \A d \in Callers : d # c => v3'[d] = v3[d]
      BY <1>2, <1>3
    <3> QED
      BY <1>1, <1>2, <3>1, <3>2, <3>3 DEF IsKnown
  <2> QED
    BY <2>1, <2>2
<1>8. \A i \in PromptIds : v2'[i] # {} => v2[i] # {} \/ IsKnown(i, v3', v4)
  BY <1>1, <1>2, <1>7
<1> QED
  BY <1>0, <1>3, <1>4, <1>5, <1>6, <1>8, PromptCallMoves

(* Drop and DropVersion. *)
LEMMA DropKeeps ==
  ASSUME PromptInv, NEW c \in Callers, Prompt!Drop(c) \/ Prompt!DropVersion(c)
  PROVE  PromptInv'
<1>0. /\ v3[c].at \in {"drop", "dropVersion"} /\ InProgress(v3[c]) /\ UNCHANGED <<v4, v5>>
      /\ Prompt!Proceed(c, v3[c].id, "", "")
  BY DEF Prompt!Drop, Prompt!DropVersion, InProgress
<1>f. /\ PromptTyped(v1, v2, v3, v4, v5) /\ Overlapping(v3, v5) /\ AreKnown(v1, v2, v3, v4)
      /\ ClashByRace(v1, v5) /\ \A d \in Callers : Wants(v3[d]) => TakenTogether(d, v3[d].name, v1, v5)
  BY PromptFacts
<1>1. "" \in PromptNames /\ v3[c].id \in PromptIds \cup {""}
  BY <1>f, PromptsAssumption DEF PromptTyped, LocalsTyped, Prompt!Locals
<1>2. PICK y : v3' = [v3 EXCEPT ![c] = y] /\ LocalsTyped(y) /\ (y.at = "returned" \/ GoesOn(v3[c], y, v3[c].id, ""))
  BY <1>0, <1>1, ProceedIs
<1>3. v3 \in [Callers -> Prompt!Locals] /\ v3'[c] = y /\ \A d \in Callers : d # c => v3'[d] = v3[d]
  BY <1>2, <1>f DEF PromptTyped
<1>4. ~Wants(y) /\ y.at \notin {"save", "put"}
  BY <1>0, <1>2 DEF Wants, GoesOn, Leads
<1>5. v3' \in [Callers -> Prompt!Locals] /\ \A d \in Callers : LocalsTyped(v3'[d])
  BY <1>2, <1>3, <1>f DEF LocalsTyped, PromptTyped
<1>6. /\ v1' \in [PromptIds -> StoredPrompts] /\ v2' \in [PromptIds -> SUBSET VersionIds]
      /\ \A i \in PromptIds : v1'[i] = v1[i] \/ v1'[i] = Prompt!None
      /\ \A i \in PromptIds : v2'[i] \subseteq v2[i]
  <2>1. v1 \in [PromptIds -> StoredPrompts] /\ v2 \in [PromptIds -> SUBSET VersionIds]
    BY <1>f DEF PromptTyped
  <2>2. Prompt!None \in StoredPrompts
    BY PromptsAssumption DEF Prompt!None, StoredPrompts
  <2>3. CASE Prompt!Drop(c)
    <3>1. v1' = [v1 EXCEPT ![v3[c].id] = Prompt!None] /\ v2' = v2
      BY <2>3 DEF Prompt!Drop
    <3> QED
      BY <2>1, <2>2, <3>1
  <2>4. CASE Prompt!DropVersion(c)
    <3>1. v2' = [v2 EXCEPT ![v3[c].id] = @ \ {v3[c].ver}] /\ v1' = v1
      BY <2>4 DEF Prompt!DropVersion
    <3> QED
      BY <2>1, <3>1
  <2> QED
    BY <2>3, <2>4
<1>7. PromptTyped(v1', v2', v3', v4', v5')
  BY <1>0, <1>5, <1>6, <1>f DEF PromptTyped
<1>8. Overlapping(v3', v5')
  BY <1>0, <1>3, <1>f DEF Overlapping
<1>9. \A i : IsKnown(i, v3, v4) => IsKnown(i, v3', v4')
  BY <1>0, <1>3 DEF IsKnown, Putting
<1>10. AreKnown(v1', v2', v3', v4')
  <2>1. \A i \in PromptIds : v1'[i] # Prompt!None => i \in v4'
    BY <1>0, <1>6, <1>f DEF AreKnown
  <2>2. \A i \in PromptIds : v2'[i] # {} => IsKnown(i, v3', v4')
    BY <1>6, <1>9, <1>f DEF AreKnown
  <2>3. \A d \in Callers : v3'[d].at = "save" /\ v3'[d].op \notin Makers => IsKnown(v3'[d].id, v3', v4')
    BY <1>3, <1>4, <1>9, <1>f DEF AreKnown
  <2> QED
    BY <2>1, <2>2, <2>3 DEF AreKnown
<1>11. \A d \in Callers : Wants(v3'[d]) => TakenTogether(d, v3'[d].name, v1', v5')
  BY <1>0, <1>3, <1>4, <1>6, <1>f DEF TakenTogether
<1>12. ClashByRace(v1', v5')
  BY <1>0, <1>6, <1>f DEF ClashByRace, Clashes
<1> QED
  BY <1>7, <1>8, <1>10, <1>11, <1>12, PromptKept

(* ClearCache. *)
LEMMA ClearCacheKeeps ==
  ASSUME PromptInv, Prompt!ClearCache
  PROVE  PromptInv'
<1>0. /\ v1' = [i \in PromptIds |-> Prompt!None] /\ v2' = [i \in PromptIds |-> {}] /\ UNCHANGED <<v3, v4, v5>>
      /\ Prompt!None \in StoredPrompts
  BY PromptsAssumption DEF Prompt!ClearCache, Prompt!None, StoredPrompts
<1>1. PromptTyped(v1', v2', v3', v4', v5')
  BY <1>0, PromptFacts DEF PromptTyped
<1>2. AreKnown(v1', v2', v3', v4')
  BY <1>0, PromptFacts DEF AreKnown
<1>3. ClashByRace(v1', v5') /\ \A d \in Callers : Wants(v3'[d]) => TakenTogether(d, v3'[d].name, v1', v5')
  BY <1>0 DEF ClashByRace, Clashes, TakenTogether
<1>4. Overlapping(v3', v5')
  BY <1>0, PromptFacts
<1> QED
  BY <1>1, <1>2, <1>3, <1>4, PromptKept

(* A call of an operation starts. *)
LEMMA PromptStarts ==
  ASSUME PromptInv, NEW c \in Callers, NEW op \in DOMAIN Prompt!Operation, Prompt!Start(c, op)
  PROVE  PromptInv'
<1>f. /\ PromptTyped(v1, v2, v3, v4, v5) /\ Overlapping(v3, v5) /\ AreKnown(v1, v2, v3, v4)
      /\ ClashByRace(v1, v5) /\ \A d \in Callers : Wants(v3[d]) => TakenTogether(d, v3[d].name, v1, v5)
  BY PromptFacts
<1>1. PICK step \in Prompt!Operation[op].first : v3' = [v3 EXCEPT ![c].op = op, ![c].at = step]
  BY DEF Prompt!Start
<1>2. v3[c].at = "idle" /\ UNCHANGED <<v1, v2, v4>>
      /\ v5' = v5 \cup {{c, d} : d \in {e \in Callers : InProgress(v3[e])}}
  BY DEF Prompt!Start, Prompt!Busy, InProgress
<1>3. op \in Operations /\ step \in Prompt!Stages(op) /\ step \in {"unique", "find", "pick"}
  BY OperationsAre, FlowBegins
<1>4. PICK x : x = v3[c]
  OBVIOUS
<1>5. x \in Prompt!Locals
  BY <1>4, <1>f DEF PromptTyped
<1>6. PICK y : y = [x EXCEPT !.op = op, !.at = step]
  OBVIOUS
<1>7. y \in Prompt!Locals /\ y.op = op /\ y.at = step
  BY <1>3, <1>5, <1>6, OperationsAre DEF Prompt!Locals
<1>8. LocalsTyped(y) /\ ~Wants(y) /\ y.at \notin {"save", "put"}
  BY <1>3, <1>7 DEF LocalsTyped, Wants
<1>9. v3' = [v3 EXCEPT ![c] = y]
  BY <1>1, <1>4, <1>6
<1>10. v3 \in [Callers -> Prompt!Locals] /\ v3'[c] = y /\ \A d \in Callers : d # c => v3'[d] = v3[d]
  BY <1>9, <1>f DEF PromptTyped
<1>11. v3' \in [Callers -> Prompt!Locals] /\ \A d \in Callers : LocalsTyped(v3'[d])
  BY <1>7, <1>8, <1>9, <1>10, <1>f DEF PromptTyped
<1>12. v5' \subseteq SUBSET Callers /\ v5 \subseteq v5'
  BY <1>2, <1>f DEF PromptTyped
<1>13. PromptTyped(v1', v2', v3', v4', v5')
  BY <1>2, <1>11, <1>12, <1>f DEF PromptTyped
<1>14. Overlapping(v3', v5')
  <2>1. ASSUME NEW d \in Callers, NEW e \in Callers, d # e, InProgress(v3'[d]), InProgress(v3'[e])
        PROVE  {d, e} \in v5'
    <3>1. CASE d = c
      BY <1>2, <1>10, <2>1, <3>1
    <3>2. CASE e = c
      <4>1. {c, d} \in v5'
        BY <1>2, <1>10, <2>1, <3>2
      <4>2. {c, d} = {d, e}
        BY <3>2
      <4> QED
        BY <4>1, <4>2
    <3>3. CASE d # c /\ e # c
      BY <1>10, <1>12, <2>1, <3>3, <1>f DEF Overlapping
    <3> QED
      BY <3>1, <3>2, <3>3
  <2> QED
    BY <2>1 DEF Overlapping
<1>15. \A i : IsKnown(i, v3, v4) => IsKnown(i, v3', v4')
  BY <1>2, <1>10 DEF IsKnown, Putting
<1>16. AreKnown(v1', v2', v3', v4')
  BY <1>2, <1>8, <1>10, <1>15, <1>f DEF AreKnown
<1>17. \A d \in Callers : Wants(v3'[d]) => TakenTogether(d, v3'[d].name, v1', v5')
  BY <1>2, <1>8, <1>10, <1>12, <1>f DEF TakenTogether
<1>18. ClashByRace(v1', v5')
  BY <1>2, <1>12, <1>f DEF ClashByRace, Clashes
<1> QED
  BY <1>13, <1>14, <1>16, <1>17, <1>18, PromptKept

(* Put. *)
LEMMA PutKeeps ==
  ASSUME PromptInv, NEW c \in Callers, Prompt!Put(c)
  PROVE  PromptInv'
<1>f. /\ PromptTyped(v1, v2, v3, v4, v5) /\ Overlapping(v3, v5) /\ AreKnown(v1, v2, v3, v4)
      /\ ClashByRace(v1, v5) /\ \A d \in Callers : Wants(v3[d]) => TakenTogether(d, v3[d].name, v1, v5)
  BY PromptFacts
<1>1. PICK x : x = v3[c]
  OBVIOUS
<1>0. /\ x.at = "put" /\ InProgress(x) /\ UNCHANGED <<v2, v5>> /\ v4' = v4 \cup {x.id}
      /\ Prompt!Proceed(c, x.id, x.name, x.ver)
  BY <1>1 DEF Prompt!Put, InProgress
<1>2. /\ LocalsTyped(x) /\ x.op \in {"create", "batch", "update", "restore"}
      /\ x.id \in PromptIds /\ x.name \in PromptNames /\ x.ver \in VersionIds \cup {""}
  <2>1. LocalsTyped(x)
    BY <1>1, <1>f DEF PromptTyped
  <2>2. x.id \in PromptIds /\ x.name \in PromptNames /\ x.ver \in VersionIds \cup {""}
    BY <1>0, <2>1 DEF LocalsTyped, Prompt!Locals
  <2>3. x.op \in Operations /\ "put" \in Prompt!Stages(x.op)
    BY <1>0, <2>1 DEF LocalsTyped
  <2>4. x.op \in {"create", "batch", "update", "restore"}
    BY <2>3, PutsAre
  <2> QED
    BY <2>1, <2>2, <2>4
<1>3. PICK name : /\ name \in PromptNames
                  /\ x.op \in Makers => name = x.name
                  /\ x.op = "restore" => name = ""
                  /\ v1' = [v1 EXCEPT ![x.id] = [id |-> x.id, name |-> name, by |-> c, made |-> Prompt!Maker(x.op),
                                                 ver |-> IF x.op = "restore" THEN "" ELSE x.ver]]
  BY <1>1, <1>2, PromptsAssumption, ZenonT(40) DEF Prompt!Put, Makers
<1>4. PICK p : p = [id |-> x.id, name |-> name, by |-> c, made |-> Prompt!Maker(x.op),
                    ver |-> IF x.op = "restore" THEN "" ELSE x.ver]
  OBVIOUS
<1>5. /\ p.name = name /\ p.by = c /\ p.made = Prompt!Maker(x.op)
      /\ p.made \in {"create", "update", "restore"} /\ p \in StoredPrompts
      /\ x.op \in Makers => p.made = "create"
      /\ x.op \notin Makers => p.made = x.op
  <2>1. Prompt!Maker(x.op) \in {"create", "update", "restore"}
    BY <1>2 DEF Prompt!Maker
  <2>2. (IF x.op = "restore" THEN "" ELSE x.ver) \in VersionIds \cup {""}
    BY <1>2
  <2>3. p \in StoredPrompts
    BY <1>2, <1>3, <1>4, <2>1, <2>2 DEF StoredPrompts
  <2>4. /\ x.op \in Makers => Prompt!Maker(x.op) = "create"
        /\ x.op \notin Makers => Prompt!Maker(x.op) = x.op
    BY DEF Prompt!Maker, Makers
  <2> QED
    BY <1>4, <2>1, <2>3, <2>4
<1>6. v1 \in [PromptIds -> StoredPrompts] /\ v1' = [v1 EXCEPT ![x.id] = p]
  BY <1>3, <1>4, <1>f DEF PromptTyped
<1>7. v1' \in [PromptIds -> StoredPrompts] /\ v1'[x.id] = p /\ \A i \in PromptIds : i # x.id => v1'[i] = v1[i]
  BY <1>2, <1>5, <1>6
<1>8. PICK y : v3' = [v3 EXCEPT ![c] = y] /\ LocalsTyped(y) /\ (y.at = "returned" \/ GoesOn(x, y, x.id, x.name))
  BY <1>0, <1>1, <1>2, ProceedIs
<1>9. v3 \in [Callers -> Prompt!Locals] /\ v3'[c] = y /\ \A d \in Callers : d # c => v3'[d] = v3[d]
  BY <1>8, <1>f DEF PromptTyped
<1>10. ~Wants(y) /\ y.at \notin {"save", "put"}
  BY <1>0, <1>8 DEF Wants, GoesOn, Leads
<1>11. v3' \in [Callers -> Prompt!Locals] /\ \A d \in Callers : LocalsTyped(v3'[d])
  BY <1>8, <1>9, <1>f DEF LocalsTyped, PromptTyped
<1>12. PromptTyped(v1', v2', v3', v4', v5')
  BY <1>0, <1>2, <1>7, <1>11, <1>f DEF PromptTyped
<1>13. Overlapping(v3', v5')
  BY <1>0, <1>1, <1>9, <1>f DEF Overlapping
<1>14. \A i : IsKnown(i, v3, v4) => IsKnown(i, v3', v4')
  BY <1>0, <1>1, <1>9 DEF IsKnown, Putting
<1>15. AreKnown(v1', v2', v3', v4')
  <2>1. \A i \in PromptIds : v1'[i] # Prompt!None => i \in v4'
    BY <1>0, <1>7, <1>f DEF AreKnown
  <2>2. \A i \in PromptIds : v2'[i] # {} => IsKnown(i, v3', v4')
    BY <1>0, <1>14, <1>f DEF AreKnown
  <2>3. \A d \in Callers : v3'[d].at = "save" /\ v3'[d].op \notin Makers => IsKnown(v3'[d].id, v3', v4')
    BY <1>9, <1>10, <1>14, <1>f DEF AreKnown
  <2> QED
    BY <2>1, <2>2, <2>3 DEF AreKnown
<1>16. \A d \in Callers : Wants(v3'[d]) => TakenTogether(d, v3'[d].name, v1', v5')
  <2>1. ASSUME NEW d \in Callers, Wants(v3'[d]), NEW i \in PromptIds, v1'[i] # Prompt!None, v1'[i].name = v3'[d].name
        PROVE  v1'[i].made = "update" \/ {d, v1'[i].by} \in v5'
    <3>1. d # c /\ v3'[d] = v3[d] /\ InProgress(v3[d]) /\ v3[d].name # ""
      BY <1>9, <1>10, <2>1 DEF Wants, InProgress
    <3>2. CASE i = x.id
      <4>1. {d, c} \in v5
        BY <1>0, <1>1, <3>1, <1>f DEF Overlapping
      <4> QED
        BY <1>0, <1>5, <1>7, <3>2, <4>1
    <3>3. CASE i # x.id
      BY <1>0, <1>7, <2>1, <3>1, <3>3, <1>f DEF TakenTogether
    <3> QED
      BY <3>2, <3>3
  <2> QED
    BY <2>1 DEF TakenTogether
<1>17. ClashByRace(v1', v5')
  <2>1. ASSUME NEW i \in PromptIds, i # x.id
        PROVE  Clashes(p, v1[i], v5) /\ Clashes(v1[i], p, v5)
    <3> SUFFICES ASSUME v1[i] # Prompt!None, v1[i].name = name, name # ""
                 PROVE  "update" \in {p.made, v1[i].made} \/ {p.by, v1[i].by} \in v5
      <4>1. {p.by, v1[i].by} = {v1[i].by, p.by}
        OBVIOUS
      <4> QED
        BY <1>5, <4>1 DEF Clashes
    <3>1. CASE x.op \in Makers
      <4>1. Wants(x) /\ x.name = name
        BY <1>0, <1>3, <3>1 DEF Wants
      <4>2. TakenTogether(c, name, v1, v5)
        BY <1>1, <4>1, <1>f
      <4> QED
        BY <1>5, <4>2 DEF TakenTogether
    <3>2. CASE x.op \notin Makers
      BY <1>2, <1>3, <1>5, <3>2 DEF Makers
    <3> QED
      BY <3>1, <3>2
  <2>2. ASSUME NEW i \in PromptIds, NEW j \in PromptIds, i # j
        PROVE  Clashes(v1'[i], v1'[j], v5')
    <3>1. CASE i = x.id
      BY <1>0, <1>7, <2>1, <2>2, <3>1
    <3>2. CASE j = x.id
      BY <1>0, <1>7, <2>1, <2>2, <3>2
    <3>3. CASE i # x.id /\ j # x.id
      BY <1>0, <1>7, <2>2, <3>3, <1>f DEF ClashByRace
    <3> QED
      BY <3>1, <3>2, <3>3
  <2> QED
    BY <2>2 DEF ClashByRace
<1> QED
  BY <1>12, <1>13, <1>15, <1>16, <1>17, PromptKept

(* The inductive invariant of the prompts. *)
LEMMA PromptInductive ==
  ASSUME PromptInv, Prompt!Next
  PROVE  PromptInv'
BY PromptStarts, UniqueKeeps, IdentifyKeeps, FindKeeps, PickKeeps, PromptSaveKeeps, PutKeeps, DropKeeps,
   ClearCacheKeeps DEF Prompt!Next

-----------------------------------------------------------------------------
(* The collector of metrics.                                               *)

LockSteps == {"RLock", "RUnlock", "Lock", "record", "fail", "reset", "Unlock"}
InLock == {"record", "fail", "reset", "Unlock"}
Collecting == {"count", "succeed", "fail", "reset", "read", "performance", "all"}

(* Sequences are equal when their elements are. *)
LEMMA SameSteps ==
  ASSUME NEW s \in Seq(LockSteps), NEW t \in Seq(LockSteps),
         Len(s) = Len(t), \A i \in 1 .. Len(s) : s[i] = t[i]
  PROVE  s = t
<1>1. s = [i \in 1 .. Len(s) |-> s[i]] /\ t = [i \in 1 .. Len(t) |-> t[i]]
  OBVIOUS
<1> QED
  BY <1>1

(* A sequence of no elements is empty. *)
LEMMA NoSteps ==
  ASSUME NEW s \in Seq(LockSteps), Len(s) = 0
  PROVE  s = <<>>
<1>1. PICK t : t = <<>>
  OBVIOUS
<1>2. t \in Seq(LockSteps) /\ Len(t) = 0
  BY <1>1
<1> QED
  BY <1>1, <1>2, SameSteps

(* The steps of s are those of a, and then those of b. *)
Joins(s, a, b) ==
  /\ s \in Seq(LockSteps) /\ Len(s) = Len(a) + Len(b)
  /\ \A i \in 1 .. Len(a) : s[i] = a[i]
  /\ \A i \in 1 .. Len(b) : s[Len(a) + i] = b[i]

(* A concatenation is such. *)
LEMMA Joined ==
  ASSUME NEW a \in Seq(LockSteps), NEW b \in Seq(LockSteps), NEW s, s = a \o b
  PROVE  Joins(s, a, b)
BY DEF Joins

(* t is what is left of s after k of its steps.                            *)
Rest(t, s, k) ==
  /\ t \in Seq(LockSteps) /\ Len(t) = Len(s) - k
  /\ (t = <<>>) <=> (k = Len(s))
  /\ k < Len(s) => Head(t) = s[k + 1] /\ Tail(t) = SubSeq(s, k + 2, Len(s))

(* A part of a sequence is such. *)
LEMMA RestIs ==
  ASSUME NEW s \in Seq(LockSteps), NEW k \in 0 .. Len(s), NEW t, t = SubSeq(s, k + 1, Len(s))
  PROVE  Rest(t, s, k)
<1>1. t \in Seq(LockSteps) /\ Len(t) = Len(s) - k /\ \A i \in 1 .. Len(t) : t[i] = s[k + i]
  OBVIOUS
<1>2. (t = <<>>) <=> (k = Len(s))
  <2>1. (Len(t) = 0) => (t = <<>>)
    BY <1>1, NoSteps
  <2>2. (t = <<>>) => (Len(t) = 0)
    OBVIOUS
  <2> QED
    BY <1>1, <2>1, <2>2
<1>3. ASSUME k < Len(s)
      PROVE  Head(t) = s[k + 1] /\ Tail(t) = SubSeq(s, k + 2, Len(s))
  <2>1. Head(t) = s[k + 1]
    BY <1>1, <1>2, <1>3
  <2>2. PICK a : a = Tail(t)
    OBVIOUS
  <2>3. PICK b : b = SubSeq(s, k + 2, Len(s))
    OBVIOUS
  <2>4. a \in Seq(LockSteps) /\ Len(a) = Len(t) - 1 /\ \A i \in 1 .. Len(a) : a[i] = t[i + 1]
    BY <1>1, <1>2, <1>3, <2>2
  <2>5. b \in Seq(LockSteps) /\ Len(b) = Len(s) - (k + 1) /\ \A i \in 1 .. Len(b) : b[i] = s[k + 1 + i]
    BY <1>3, <2>3
  <2>6. Len(a) = Len(b) /\ \A i \in 1 .. Len(a) : a[i] = b[i]
    BY <1>1, <1>3, <2>4, <2>5
  <2>7. a = b
    BY <2>4, <2>5, <2>6, SameSteps
  <2> QED
    BY <2>1, <2>2, <2>3, <2>7
<1> QED
  BY <1>1, <1>2, <1>3 DEF Rest

(* A counter is incremented. *)
LEMMA CountIs ==
  ASSUME NEW s, s = Metrics!Operation["count"]
  PROVE  /\ s \in Seq(LockSteps) /\ Len(s) = 2
         /\ s[1] = "Lock" /\ s[2] = "Unlock"
<1>1. s = <<"Lock", "Unlock">>
  BY DEF Metrics!Operation, Metrics!IncrementPromptCreated
<1>2. <<"Lock", "Unlock">> \in Seq(LockSteps)
  BY DEF LockSteps
<1> QED
  BY <1>1, <1>2

(* A latency is recorded. *)
LEMMA SucceedIs ==
  ASSUME NEW s, s = Metrics!Operation["succeed"]
  PROVE  /\ s \in Seq(LockSteps) /\ Len(s) = 3
         /\ s[1] = "Lock" /\ s[2] = "record" /\ s[3] = "Unlock"
<1>1. s = <<"Lock", "record", "Unlock">>
  BY DEF Metrics!Operation, Metrics!Finish, Metrics!RecordOperationLatency
<1>2. <<"Lock", "record", "Unlock">> \in Seq(LockSteps)
  BY DEF LockSteps
<1> QED
  BY <1>1, <1>2

(* The counters are set to zero. *)
LEMMA ResetIs ==
  ASSUME NEW s, s = Metrics!Operation["reset"]
  PROVE  /\ s \in Seq(LockSteps) /\ Len(s) = 3
         /\ s[1] = "Lock" /\ s[2] = "reset" /\ s[3] = "Unlock"
<1>1. s = <<"Lock", "reset", "Unlock">>
  BY DEF Metrics!Operation, Metrics!Reset
<1>2. <<"Lock", "reset", "Unlock">> \in Seq(LockSteps)
  BY DEF LockSteps
<1> QED
  BY <1>1, <1>2

(* One reader. *)
LEMMA ReadIs ==
  ASSUME NEW s, s = Metrics!Operation["read"]
  PROVE  /\ s \in Seq(LockSteps) /\ Len(s) = 2
         /\ s[1] = "RLock" /\ s[2] = "RUnlock"
<1>1. s = <<"RLock", "RUnlock">>
  BY DEF Metrics!Operation, Metrics!GetOperationMetrics
<1>2. <<"RLock", "RUnlock">> \in Seq(LockSteps)
  BY DEF LockSteps
<1> QED
  BY <1>1, <1>2

(* An error is counted, between two latencies. *)
LEMMA ErrorIs ==
  ASSUME NEW s, s = Metrics!Operation["fail"]
  PROVE  /\ s \in Seq(LockSteps) /\ Len(s) = 9
         /\ s[1] = "Lock" /\ s[2] = "record" /\ s[3] = "Unlock"
         /\ s[4] = "Lock" /\ s[5] = "fail" /\ s[6] = "Unlock" /\ s[7] = "Lock"
         /\ s[8] = "record" /\ s[9] = "Unlock"
<1>1. s = (<<"Lock", "record", "Unlock">> \o <<"Lock", "fail", "Unlock">>) \o <<"Lock", "record", "Unlock">>
  BY DEF Metrics!Operation, Metrics!FinishWithError, Metrics!Finish,
         Metrics!RecordOperationLatency, Metrics!IncrementCloudError
<1>2. PICK a : a = <<"Lock", "record", "Unlock">>
  OBVIOUS
<1>3. PICK b : b = <<"Lock", "fail", "Unlock">>
  OBVIOUS
<1>4. a \in Seq(LockSteps) /\ Len(a) = 3 /\ a[1] = "Lock" /\ a[2] = "record" /\ a[3] = "Unlock"
  BY <1>2 DEF LockSteps
<1>5. b \in Seq(LockSteps) /\ Len(b) = 3 /\ b[1] = "Lock" /\ b[2] = "fail" /\ b[3] = "Unlock"
  BY <1>3 DEF LockSteps
<1>6. PICK c : c = a \o b
  OBVIOUS
<1>6a. Joins(c, a, b)
  BY <1>4, <1>5, <1>6, Joined
<1>7. c \in Seq(LockSteps) /\ Len(c) = 6
  BY <1>4, <1>5, <1>6a DEF Joins
<1>8. /\ c[1] = "Lock" /\ c[2] = "record" /\ c[3] = "Unlock"
      /\ c[4] = "Lock" /\ c[5] = "fail" /\ c[6] = "Unlock"
  <2>1. \A i \in 1 .. 3 : c[i] = a[i] /\ c[3 + i] = b[i]
    BY <1>4, <1>5, <1>6a DEF Joins
  <2> QED
    BY <1>4, <1>5, <2>1
<1>9. s = c \o a
  BY <1>1, <1>2, <1>3, <1>6
<1>9a. Joins(s, c, a)
  BY <1>4, <1>7, <1>9, Joined
<1>10. s \in Seq(LockSteps) /\ Len(s) = 9
  BY <1>4, <1>7, <1>9a DEF Joins
<1>11. (\A i \in 1 .. 6 : s[i] = c[i]) /\ (\A i \in 1 .. 3 : s[6 + i] = a[i])
  BY <1>4, <1>7, <1>9a DEF Joins
<1> QED
  BY <1>4, <1>8, <1>10, <1>11

(* The reader that calls two others. *)
LEMMA PerformanceIs ==
  ASSUME NEW s, s = Metrics!Operation["performance"]
  PROVE  /\ s \in Seq(LockSteps) /\ Len(s) = 6
         /\ s[1] = "RLock" /\ s[2] = "RLock" /\ s[3] = "RUnlock"
         /\ s[4] = "RLock" /\ s[5] = "RUnlock" /\ s[6] = "RUnlock"
<1>1. s = ((<<"RLock">> \o <<"RLock", "RUnlock">>) \o <<"RLock", "RUnlock">>) \o <<"RUnlock">>
  BY DEF Metrics!Operation, Metrics!GetPerformanceMetrics, Metrics!GetAverageLatency
<1>2. PICK a : a = <<"RLock">>
  OBVIOUS
<1>3. PICK b : b = <<"RLock", "RUnlock">>
  OBVIOUS
<1>4. PICK c : c = <<"RUnlock">>
  OBVIOUS
<1>5. a \in Seq(LockSteps) /\ Len(a) = 1 /\ a[1] = "RLock"
  BY <1>2 DEF LockSteps
<1>6. b \in Seq(LockSteps) /\ Len(b) = 2 /\ b[1] = "RLock" /\ b[2] = "RUnlock"
  BY <1>3 DEF LockSteps
<1>7. c \in Seq(LockSteps) /\ Len(c) = 1 /\ c[1] = "RUnlock"
  BY <1>4 DEF LockSteps
<1>8. PICK x : x = a \o b
  OBVIOUS
<1>9. x \in Seq(LockSteps) /\ Len(x) = 3 /\ x[1] = "RLock" /\ x[2] = "RLock" /\ x[3] = "RUnlock"
  <2>0. Joins(x, a, b)
    BY <1>5, <1>6, <1>8, Joined
  <2>1. x \in Seq(LockSteps) /\ Len(x) = 3
    BY <1>5, <1>6, <2>0 DEF Joins
  <2>2. x[1] = a[1] /\ \A i \in 1 .. 2 : x[1 + i] = b[i]
    BY <1>5, <1>6, <2>0 DEF Joins
  <2> QED
    BY <1>5, <1>6, <2>1, <2>2
<1>10. PICK y : y = x \o b
  OBVIOUS
<1>11. /\ y \in Seq(LockSteps) /\ Len(y) = 5
       /\ y[1] = "RLock" /\ y[2] = "RLock" /\ y[3] = "RUnlock" /\ y[4] = "RLock" /\ y[5] = "RUnlock"
  <2>0. Joins(y, x, b)
    BY <1>6, <1>9, <1>10, Joined
  <2>1. y \in Seq(LockSteps) /\ Len(y) = 5
    BY <1>6, <1>9, <2>0 DEF Joins
  <2>2. (\A i \in 1 .. 3 : y[i] = x[i]) /\ \A i \in 1 .. 2 : y[3 + i] = b[i]
    BY <1>6, <1>9, <2>0 DEF Joins
  <2> QED
    BY <1>6, <1>9, <2>1, <2>2
<1>12. s = y \o c
  BY <1>1, <1>2, <1>3, <1>4, <1>8, <1>10
<1>12a. Joins(s, y, c)
  BY <1>7, <1>11, <1>12, Joined
<1>13. s \in Seq(LockSteps) /\ Len(s) = 6
  BY <1>7, <1>11, <1>12a DEF Joins
<1>14. (\A i \in 1 .. 5 : s[i] = y[i]) /\ s[6] = c[1]
  BY <1>7, <1>11, <1>12a DEF Joins
<1> QED
  BY <1>7, <1>11, <1>13, <1>14

(* The reader that calls three others. *)
LEMMA AllIs ==
  ASSUME NEW s, s = Metrics!Operation["all"]
  PROVE  /\ s \in Seq(LockSteps) /\ Len(s) = 12
         /\ s[1] = "RLock" /\ s[2] = "RLock" /\ s[3] = "RUnlock"
         /\ s[4] = "RLock" /\ s[5] = "RUnlock" /\ s[6] = "RLock"
         /\ s[7] = "RLock" /\ s[8] = "RUnlock" /\ s[9] = "RLock"
         /\ s[10] = "RUnlock" /\ s[11] = "RUnlock" /\ s[12] = "RUnlock"
<1>1. s = (((<<"RLock">> \o <<"RLock", "RUnlock">>) \o <<"RLock", "RUnlock">>)
           \o Metrics!Operation["performance"]) \o <<"RUnlock">>
  BY DEF Metrics!Operation, Metrics!GetAllMetrics, Metrics!GetOperationMetrics
<1>2. PICK a : a = <<"RLock">>
  OBVIOUS
<1>3. PICK b : b = <<"RLock", "RUnlock">>
  OBVIOUS
<1>4. PICK c : c = <<"RUnlock">>
  OBVIOUS
<1>5. a \in Seq(LockSteps) /\ Len(a) = 1 /\ a[1] = "RLock"
  BY <1>2 DEF LockSteps
<1>6. b \in Seq(LockSteps) /\ Len(b) = 2 /\ b[1] = "RLock" /\ b[2] = "RUnlock"
  BY <1>3 DEF LockSteps
<1>7. c \in Seq(LockSteps) /\ Len(c) = 1 /\ c[1] = "RUnlock"
  BY <1>4 DEF LockSteps
<1>8. PICK x : x = a \o b
  OBVIOUS
<1>9. x \in Seq(LockSteps) /\ Len(x) = 3 /\ x[1] = "RLock" /\ x[2] = "RLock" /\ x[3] = "RUnlock"
  <2>0. Joins(x, a, b)
    BY <1>5, <1>6, <1>8, Joined
  <2>1. x \in Seq(LockSteps) /\ Len(x) = 3
    BY <1>5, <1>6, <2>0 DEF Joins
  <2>2. x[1] = a[1] /\ \A i \in 1 .. 2 : x[1 + i] = b[i]
    BY <1>5, <1>6, <2>0 DEF Joins
  <2> QED
    BY <1>5, <1>6, <2>1, <2>2
<1>10. PICK y : y = x \o b
  OBVIOUS
<1>11. /\ y \in Seq(LockSteps) /\ Len(y) = 5
       /\ y[1] = "RLock" /\ y[2] = "RLock" /\ y[3] = "RUnlock" /\ y[4] = "RLock" /\ y[5] = "RUnlock"
  <2>0. Joins(y, x, b)
    BY <1>6, <1>9, <1>10, Joined
  <2>1. y \in Seq(LockSteps) /\ Len(y) = 5
    BY <1>6, <1>9, <2>0 DEF Joins
  <2>2. (\A i \in 1 .. 3 : y[i] = x[i]) /\ \A i \in 1 .. 2 : y[3 + i] = b[i]
    BY <1>6, <1>9, <2>0 DEF Joins
  <2> QED
    BY <1>6, <1>9, <2>1, <2>2
<1>12. PICK p : p = Metrics!Operation["performance"]
  OBVIOUS
<1>13. /\ p \in Seq(LockSteps) /\ Len(p) = 6
       /\ p[1] = "RLock" /\ p[2] = "RLock" /\ p[3] = "RUnlock"
       /\ p[4] = "RLock" /\ p[5] = "RUnlock" /\ p[6] = "RUnlock"
  BY <1>12, PerformanceIs
<1>14. PICK z : z = y \o p
  OBVIOUS
<1>15. /\ z \in Seq(LockSteps) /\ Len(z) = 11
       /\ z[1] = "RLock" /\ z[2] = "RLock" /\ z[3] = "RUnlock"
       /\ z[4] = "RLock" /\ z[5] = "RUnlock" /\ z[6] = "RLock"
       /\ z[7] = "RLock" /\ z[8] = "RUnlock" /\ z[9] = "RLock"
       /\ z[10] = "RUnlock" /\ z[11] = "RUnlock"
  <2>0. Joins(z, y, p)
    BY <1>11, <1>13, <1>14, Joined
  <2>1. z \in Seq(LockSteps) /\ Len(z) = 11
    BY <1>11, <1>13, <2>0 DEF Joins
  <2>2. (\A i \in 1 .. 5 : z[i] = y[i]) /\ \A i \in 1 .. 6 : z[5 + i] = p[i]
    BY <1>11, <1>13, <2>0 DEF Joins
  <2> QED
    BY <1>11, <1>13, <2>1, <2>2
<1>16. s = z \o c
  BY <1>1, <1>2, <1>3, <1>4, <1>8, <1>10, <1>12, <1>14
<1>16a. Joins(s, z, c)
  BY <1>7, <1>15, <1>16, Joined
<1>17. s \in Seq(LockSteps) /\ Len(s) = 12
  BY <1>7, <1>15, <1>16a DEF Joins
<1>18. (\A i \in 1 .. 11 : s[i] = z[i]) /\ s[12] = c[1]
  BY <1>7, <1>15, <1>16a DEF Joins
<1> QED
  BY <1>7, <1>15, <1>17, <1>18

(* What an operation does with the lock: reads nest only in the two that   *)
(* call others, writes are inside Lock and Unlock.                         *)
Plan(op, s, h) ==
  /\ s \in Seq(LockSteps) /\ Len(s) \in Nat /\ s[1] \notin InLock
  /\ h[1] = 0 /\ h[Len(s) + 1] = 0
  /\ \A k \in 0 .. Len(s) : h[k + 1] \in 0 .. 3
  /\ \A k \in 0 .. Len(s) - 1 :
       /\ s[k + 1] = "RLock" => h[k + 2] = h[k + 1] + 1
       /\ s[k + 1] = "RUnlock" => h[k + 2] = h[k + 1] - 1
       /\ s[k + 1] \notin {"RLock", "RUnlock"} => h[k + 2] = 0 /\ h[k + 1] = 0
       /\ s[k + 1] = "RLock" /\ h[k + 1] > 0 => op \in {"performance", "all"}
       /\ s[k + 1] \in {"Lock", "record", "fail", "reset"} => k + 1 < Len(s) /\ s[k + 2] \in InLock
       /\ s[k + 1] \in {"RLock", "RUnlock", "Unlock"} => k + 1 = Len(s) \/ s[k + 2] \notin InLock
       /\ s[k + 1] = "fail" => op = "fail"
       /\ s[k + 1] = "reset" => op = "reset"
  /\ op = "fail" =>
       /\ Len(s) = 9
       /\ \A k \in 0 .. 8 :
            /\ s[k + 1] = "record" <=> k \in {1, 7}
            /\ s[k + 1] = "fail" <=> k = 4

(* Each operation is such. *)
LEMMA PlansAre ==
  ASSUME NEW op \in Collecting
  PROVE  Plan(op, Metrics!Operation[op], Metrics!Held[op])
<1>1. PICK s : s = Metrics!Operation[op]
  OBVIOUS
<1>2. PICK h : h = Metrics!Held[op]
  OBVIOUS
<1>3. CASE op = "count"
  <2>1. /\ h[1] = 0 /\ h[2] = 0 /\ h[3] = 0
    BY <1>2, <1>3 DEF Metrics!Held
  <2>2. /\ s \in Seq(LockSteps) /\ Len(s) = 2
        /\ s[1] = "Lock" /\ s[2] = "Unlock"
    BY <1>1, <1>3, CountIs
  <2>3. Plan(op, s, h)
    BY <1>3, <2>1, <2>2 DEF Plan, InLock
  <2> QED
    BY <1>1, <1>2, <2>3
<1>4. CASE op = "succeed"
  <2>1. /\ h[1] = 0 /\ h[2] = 0 /\ h[3] = 0 /\ h[4] = 0
    BY <1>2, <1>4 DEF Metrics!Held
  <2>2. /\ s \in Seq(LockSteps) /\ Len(s) = 3
        /\ s[1] = "Lock" /\ s[2] = "record" /\ s[3] = "Unlock"
    BY <1>1, <1>4, SucceedIs
  <2>3. Plan(op, s, h)
    BY <1>4, <2>1, <2>2 DEF Plan, InLock
  <2> QED
    BY <1>1, <1>2, <2>3
<1>5. CASE op = "fail"
  <2>1. /\ h[1] = 0 /\ h[2] = 0 /\ h[3] = 0 /\ h[4] = 0 /\ h[5] = 0
        /\ h[6] = 0 /\ h[7] = 0 /\ h[8] = 0 /\ h[9] = 0 /\ h[10] = 0
    BY <1>2, <1>5 DEF Metrics!Held
  <2>2. /\ s \in Seq(LockSteps) /\ Len(s) = 9
        /\ s[1] = "Lock" /\ s[2] = "record" /\ s[3] = "Unlock"
        /\ s[4] = "Lock" /\ s[5] = "fail" /\ s[6] = "Unlock" /\ s[7] = "Lock"
        /\ s[8] = "record" /\ s[9] = "Unlock"
    BY <1>1, <1>5, ErrorIs
  <2>3. Plan(op, s, h)
    BY <1>5, <2>1, <2>2 DEF Plan, InLock
  <2> QED
    BY <1>1, <1>2, <2>3
<1>5a. CASE op = "reset"
  <2>1. /\ h[1] = 0 /\ h[2] = 0 /\ h[3] = 0 /\ h[4] = 0
    BY <1>2, <1>5a DEF Metrics!Held
  <2>2. /\ s \in Seq(LockSteps) /\ Len(s) = 3
        /\ s[1] = "Lock" /\ s[2] = "reset" /\ s[3] = "Unlock"
    BY <1>1, <1>5a, ResetIs
  <2>3. Plan(op, s, h)
    BY <1>5a, <2>1, <2>2 DEF Plan, InLock
  <2> QED
    BY <1>1, <1>2, <2>3
<1>6. CASE op = "read"
  <2>1. /\ h[1] = 0 /\ h[2] = 1 /\ h[3] = 0
    BY <1>2, <1>6 DEF Metrics!Held
  <2>2. /\ s \in Seq(LockSteps) /\ Len(s) = 2
        /\ s[1] = "RLock" /\ s[2] = "RUnlock"
    BY <1>1, <1>6, ReadIs
  <2>3. Plan(op, s, h)
    BY <1>6, <2>1, <2>2 DEF Plan, InLock
  <2> QED
    BY <1>1, <1>2, <2>3
<1>7. CASE op = "performance"
  <2>1. /\ h[1] = 0 /\ h[2] = 1 /\ h[3] = 2 /\ h[4] = 1 /\ h[5] = 2
        /\ h[6] = 1 /\ h[7] = 0
    BY <1>2, <1>7 DEF Metrics!Held
  <2>2. /\ s \in Seq(LockSteps) /\ Len(s) = 6
        /\ s[1] = "RLock" /\ s[2] = "RLock" /\ s[3] = "RUnlock"
        /\ s[4] = "RLock" /\ s[5] = "RUnlock" /\ s[6] = "RUnlock"
    BY <1>1, <1>7, PerformanceIs
  <2>3. Plan(op, s, h)
    BY <1>7, <2>1, <2>2 DEF Plan, InLock
  <2> QED
    BY <1>1, <1>2, <2>3
<1>8. CASE op = "all"
  <2>1. /\ h[1] = 0 /\ h[2] = 1 /\ h[3] = 2 /\ h[4] = 1 /\ h[5] = 2
        /\ h[6] = 1 /\ h[7] = 2 /\ h[8] = 3 /\ h[9] = 2 /\ h[10] = 3
        /\ h[11] = 2 /\ h[12] = 1 /\ h[13] = 0
    BY <1>2, <1>8 DEF Metrics!Held
  <2>2. /\ s \in Seq(LockSteps) /\ Len(s) = 12
        /\ s[1] = "RLock" /\ s[2] = "RLock" /\ s[3] = "RUnlock"
        /\ s[4] = "RLock" /\ s[5] = "RUnlock" /\ s[6] = "RLock"
        /\ s[7] = "RLock" /\ s[8] = "RUnlock" /\ s[9] = "RLock"
        /\ s[10] = "RUnlock" /\ s[11] = "RUnlock" /\ s[12] = "RUnlock"
    BY <1>1, <1>8, AllIs
  <2>3. Plan(op, s, h)
    BY <1>8, <2>1, <2>2 DEF Plan, InLock
  <2> QED
    BY <1>1, <1>2, <2>3
<1> QED
  BY <1>3, <1>4, <1>5, <1>5a, <1>6, <1>7, <1>8 DEF Collecting

MetricsInv ==
  /\ Metrics!TypeOK /\ Metrics!Progress /\ Metrics!WriterInside
  /\ Metrics!Exclusion /\ Metrics!FailuresCounted

(* Of operation op, t is left after k steps, which leave it d read locks.  *)
Far(t, op, d, k) ==
  LET steps == Metrics!Operation[op]
  IN k \in 0 .. Len(steps) /\ t = SubSeq(steps, k + 1, Len(steps)) /\ d = Metrics!Held[op][k + 1]

(* The next step of op, with t left and d read locks, leaves r and e.      *)
Goes(t, op, d, r, e) ==
  LET step == Head(t)
  IN /\ step \in LockSteps /\ t \in Seq(LockSteps) /\ r \in Seq(LockSteps) /\ Len(t) = Len(r) + 1
     /\ d \in 0 .. 3 /\ e \in 0 .. 3
     /\ step = "RLock" => e = d + 1
     /\ step = "RUnlock" => e = d - 1
     /\ step \notin {"RLock", "RUnlock"} => e = d /\ d = 0
     /\ step = "RLock" /\ d > 0 => op \in {"performance", "all"}
     /\ step \in {"Lock", "record", "fail", "reset"} => r # <<>> /\ Head(r) \in InLock
     /\ step \in {"RLock", "RUnlock", "Unlock"} => r = <<>> \/ Head(r) \notin InLock
     /\ step = "fail" => op = "fail"
     /\ step = "reset" => op = "reset"
     /\ op = "fail" => /\ (step = "record") <=> (Len(t) \in {2, 8})
                       /\ (step = "fail") <=> (Len(t) = 5)

(* The operations are named. *)
LEMMA CollectingAre == DOMAIN Metrics!Operation = Collecting
BY DEF Metrics!Operation, Collecting

(* An operation begins with no read lock, and outside Lock and Unlock. *)
LEMMA FarAtStart ==
  ASSUME NEW op \in Collecting, NEW t, t = Metrics!Operation[op]
  PROVE  t \in Seq(LockSteps) /\ Far(t, op, 0, 0) /\ (t = <<>> \/ Head(t) \notin InLock)
<1>1. Plan(op, t, Metrics!Held[op])
  BY PlansAre
<1>2. PICK h : h = Metrics!Held[op]
  OBVIOUS
<1>3. t \in Seq(LockSteps) /\ Len(t) \in Nat /\ t[1] \notin InLock /\ h[1] = 0
  BY <1>1, <1>2 DEF Plan
<1>4. PICK r : r = SubSeq(t, 1, Len(t))
  OBVIOUS
<1>5. r \in Seq(LockSteps) /\ Len(r) = Len(t) /\ \A i \in 1 .. Len(r) : r[i] = t[i]
  BY <1>3, <1>4
<1>6. r = t
  BY <1>3, <1>5, SameSteps
<1>7. Far(t, op, 0, 0)
  BY <1>2, <1>3, <1>4, <1>6 DEF Far
<1>8. t # <<>> => Head(t) = t[1]
  BY <1>3
<1> QED
  BY <1>3, <1>7, <1>8

(* An operation ends with no read lock. *)
LEMMA FarAtEnd ==
  ASSUME NEW op \in Collecting, NEW t, NEW d, NEW k, Far(t, op, d, k)
  PROVE  t \in Seq(LockSteps) /\ d \in 0 .. 3 /\ (t = <<>> => d = 0)
<1>1. PICK s : s = Metrics!Operation[op]
  OBVIOUS
<1>2. PICK h : h = Metrics!Held[op]
  OBVIOUS
<1>3. Plan(op, s, h)
  BY <1>1, <1>2, PlansAre
<1>4. /\ s \in Seq(LockSteps) /\ Len(s) \in Nat /\ h[Len(s) + 1] = 0
      /\ \A j \in 0 .. Len(s) : h[j + 1] \in 0 .. 3
  BY <1>3 DEF Plan
<1>5. k \in 0 .. Len(s) /\ t = SubSeq(s, k + 1, Len(s)) /\ d = h[k + 1]
  BY <1>1, <1>2 DEF Far
<1>6. s \in Seq(LockSteps) /\ t = SubSeq(s, k + 1, Len(s)) /\ k \in 0 .. Len(s)
  BY <1>4, <1>5
<1>7. Rest(t, s, k)
  BY <1>6, RestIs
<1> QED
  BY <1>4, <1>5, <1>7 DEF Rest

(* How an operation goes on. *)
LEMMA FarGoes ==
  ASSUME NEW op \in Collecting, NEW t, NEW d, NEW k, Far(t, op, d, k), t # <<>>
  PROVE  \E e : Far(Tail(t), op, e, k + 1) /\ Goes(t, op, d, Tail(t), e)
<1>1. PICK s : s = Metrics!Operation[op]
  OBVIOUS
<1>2. PICK h : h = Metrics!Held[op]
  OBVIOUS
<1>3. Plan(op, s, h)
  BY <1>1, <1>2, PlansAre
<1>4. k \in 0 .. Len(s) /\ t = SubSeq(s, k + 1, Len(s)) /\ d = h[k + 1]
  BY <1>1, <1>2 DEF Far
<1>5. s \in Seq(LockSteps) /\ Len(s) \in Nat
  BY <1>3 DEF Plan
<1>6. /\ t \in Seq(LockSteps) /\ Len(t) = Len(s) - k /\ k < Len(s)
      /\ Head(t) = s[k + 1] /\ Tail(t) = SubSeq(s, k + 2, Len(s))
  <2>1. Rest(t, s, k)
    BY <1>4, <1>5, RestIs
  <2> QED
    BY <1>4, <1>5, <2>1 DEF Rest
<1>7. PICK r : r = Tail(t)
  OBVIOUS
<1>8. PICK e : e = h[k + 2]
  OBVIOUS
<1>9. k + 1 \in 0 .. Len(s) /\ k \in 0 .. Len(s) - 1 /\ (k + 1) + 1 = k + 2
  BY <1>4, <1>5, <1>6
<1>10. r = SubSeq(s, (k + 1) + 1, Len(s))
  BY <1>6, <1>7, <1>9
<1>11. /\ r \in Seq(LockSteps) /\ Len(r) = Len(s) - (k + 1) /\ ((r = <<>>) <=> (k + 1 = Len(s)))
       /\ k + 1 < Len(s) => Head(r) = s[k + 2]
  <2>1. PICK m : m = k + 1
    OBVIOUS
  <2>2. m \in 0 .. Len(s) /\ r = SubSeq(s, m + 1, Len(s))
    BY <1>9, <1>10, <2>1
  <2>3. Rest(r, s, m)
    BY <1>5, <2>2, RestIs
  <2> QED
    BY <1>9, <2>1, <2>3 DEF Rest
<1>12. Far(r, op, e, k + 1)
  BY <1>1, <1>2, <1>8, <1>9, <1>10 DEF Far
<1>13. Goes(t, op, d, r, e)
  <2>1. PICK step : step = Head(t)
    OBVIOUS
  <2>2. step \in LockSteps /\ Len(t) = Len(r) + 1
    BY <1>4, <1>5, <1>6, <1>9, <1>11, <2>1
  <2>3. d \in 0 .. 3 /\ e \in 0 .. 3
    BY <1>3, <1>4, <1>8, <1>9 DEF Plan
  <2>4. /\ step = "RLock" => e = d + 1
        /\ step = "RUnlock" => e = d - 1
        /\ step \notin {"RLock", "RUnlock"} => e = d /\ d = 0
        /\ step = "RLock" /\ d > 0 => op \in {"performance", "all"}
        /\ step = "fail" => op = "fail"
        /\ step = "reset" => op = "reset"
    BY <1>3, <1>4, <1>6, <1>8, <1>9, <2>1 DEF Plan
  <2>5. /\ step \in {"Lock", "record", "fail", "reset"} => k + 1 < Len(s) /\ s[k + 2] \in InLock
        /\ step \in {"RLock", "RUnlock", "Unlock"} => k + 1 = Len(s) \/ s[k + 2] \notin InLock
    BY <1>3, <1>6, <1>9, <2>1 DEF Plan
  <2>6. ASSUME op = "fail"
        PROVE  /\ (step = "record") <=> (Len(t) \in {2, 8})
               /\ (step = "fail") <=> (Len(t) = 5)
    <3>0. Len(s) = 9
      BY <1>3, <2>6 DEF Plan
    <3>1. Len(s) = 9 /\ k \in 0 .. 8
      BY <1>9, <3>0
    <3>2. /\ (step = "record") <=> (k \in {1, 7})
          /\ (step = "fail") <=> (k = 4)
      BY <1>3, <1>6, <2>1, <2>6, <3>1 DEF Plan
    <3> QED
      BY <1>6, <3>1, <3>2
  <2>7. /\ step \in {"Lock", "record", "fail", "reset"} => r # <<>> /\ Head(r) \in InLock
        /\ step \in {"RLock", "RUnlock", "Unlock"} => r = <<>> \/ Head(r) \notin InLock
    BY <1>9, <1>11, <2>5
  <2> QED
    BY <1>6, <1>11, <2>1, <2>2, <2>3, <2>4, <2>6, <2>7 DEF Goes
<1> QED
  BY <1>7, <1>12, <1>13

(* Counting is the same in the instance. *)
LEMMA MetricsCounts == \A S : Metrics!Cardinality(S) = Cardinality(S)
BY DEF Cardinality, Metrics!Cardinality

(* The initial state of the collector. *)
LEMMA MetricsStart ==
  ASSUME Metrics!Init
  PROVE  MetricsInv
<1> USE DEF Metrics!Init
<1>1. Metrics!TypeOK
  <2>1. v1 \in [Readers -> Seq({"RLock", "RUnlock", "Lock", "record", "fail", "reset", "Unlock"})]
    OBVIOUS
  <2>2. v2 \in [Readers -> {"none"} \cup DOMAIN Metrics!Operation] /\ v3 \in [Readers -> 0 .. 3]
    OBVIOUS
  <2>3. v5 \in BOOLEAN
    OBVIOUS
  <2> QED
    BY <2>1, <2>2, <2>3 DEF Metrics!TypeOK
<1>2. Metrics!Progress
  BY DEF Metrics!Progress
<1>3. Metrics!WriterInside
  BY MetricsAssumption DEF Metrics!WriterInside, Metrics!Inside
<1>4. Metrics!Exclusion
  BY DEF Metrics!Exclusion
<1>5. Metrics!FailuresCounted
  <2>1. Metrics!Ahead = {} /\ Metrics!Behind = {}
    BY DEF Metrics!Ahead, Metrics!Behind
  <2>2. Metrics!Cardinality({}) = 0
    BY MetricsCounts, FS_EmptySet
  <2> QED
    BY <2>1, <2>2 DEF Metrics!FailuresCounted
<1> QED
  BY <1>1, <1>2, <1>3, <1>4, <1>5 DEF MetricsInv

(* A goroutine that waits has an operation, and its next step. *)
LEMMA ReaderGoes ==
  ASSUME MetricsInv, NEW u \in Readers, v1[u] # <<>>
  PROVE  /\ v2[u] \in Collecting
         /\ \E k \in Nat : \E e : Far(Tail(v1[u]), v2[u], e, k) /\ Goes(v1[u], v2[u], v3[u], Tail(v1[u]), e)
<1>1. v2[u] \in {"none"} \cup Collecting
  BY CollectingAre DEF MetricsInv, Metrics!TypeOK
<1>2. v2[u] \in Collecting
  BY <1>1 DEF MetricsInv, Metrics!Progress
<1>3. PICK k \in 0 .. Len(Metrics!Operation[v2[u]]) : Far(v1[u], v2[u], v3[u], k)
  BY <1>2 DEF MetricsInv, Metrics!Progress, Far, Collecting
<1>4. PICK e : Far(Tail(v1[u]), v2[u], e, k + 1) /\ Goes(v1[u], v2[u], v3[u], Tail(v1[u]), e)
  BY <1>2, <1>3, FarGoes
<1> QED
  BY <1>2, <1>4

(* The read locks of a goroutine after a step of these.                    *)
After(d, step) == IF step = "RLock" THEN d + 1 ELSE IF step = "RUnlock" THEN d - 1 ELSE d

(* A goroutine does its next step. *)
LEMMA ReaderDone ==
  ASSUME MetricsInv, NEW u \in Readers, v1[u] # <<>>, Metrics!Done(u),
         NEW e, e = After(v3[u], Head(v1[u])), v3' = [v3 EXCEPT ![u] = e], v2' = v2
  PROVE  /\ v2[u] \in Collecting /\ Goes(v1[u], v2[u], v3[u], v1'[u], e)
         /\ v1'[u] = Tail(v1[u]) /\ v3'[u] = e
         /\ \A v \in Readers : v # u => v1'[v] = v1[v] /\ v3'[v] = v3[v]
         /\ v1' \in [Readers -> Seq(LockSteps)] /\ v3' \in [Readers -> 0 .. 3]
         /\ Metrics!Progress'
<1>1. v1 \in [Readers -> Seq(LockSteps)] /\ v3 \in [Readers -> 0 .. 3]
  BY DEF MetricsInv, Metrics!TypeOK, LockSteps
<1>2. PICK r : r = Tail(v1[u])
  OBVIOUS
<1>3. v1' = [v1 EXCEPT ![u] = r]
  BY <1>2 DEF Metrics!Done
<1>4. v2[u] \in Collecting
  BY ReaderGoes
<1>5. PICK k \in Nat : \E f : Far(r, v2[u], f, k) /\ Goes(v1[u], v2[u], v3[u], r, f)
  BY <1>2, ReaderGoes
<1>6. PICK f : Far(r, v2[u], f, k) /\ Goes(v1[u], v2[u], v3[u], r, f)
  BY <1>5
<1>7. f = e
  BY <1>6 DEF Goes, After
<1>8. r \in Seq(LockSteps) /\ e \in 0 .. 3
  BY <1>6, <1>7 DEF Goes
<1>9. /\ v1'[u] = r /\ v3'[u] = e
      /\ \A v \in Readers : v # u => v1'[v] = v1[v] /\ v3'[v] = v3[v]
  BY <1>1, <1>3
<1>10. v1' \in [Readers -> Seq(LockSteps)]
  BY <1>1, <1>3, <1>8
<1>11. v3' \in [Readers -> 0 .. 3]
  BY <1>1, <1>8
<1>12. Metrics!Progress'
  <2> SUFFICES ASSUME NEW v \in Readers
               PROVE  IF v2[v] = "none" THEN v1'[v] = <<>> /\ v3'[v] = 0
                      ELSE LET steps == Metrics!Operation[v2[v]]
                           IN \E j \in 0 .. Len(steps) :
                                v1'[v] = SubSeq(steps, j + 1, Len(steps)) /\ v3'[v] = Metrics!Held[v2[v]][j + 1]
    BY DEF Metrics!Progress
  <2>1. CASE v = u
    BY <1>4, <1>6, <1>7, <1>9, <2>1, ZenonT(40) DEF Far, Collecting
  <2>2. CASE v # u
    <3>1. IF v2[v] = "none" THEN v1[v] = <<>> /\ v3[v] = 0
          ELSE LET steps == Metrics!Operation[v2[v]]
               IN \E j \in 0 .. Len(steps) :
                    v1[v] = SubSeq(steps, j + 1, Len(steps)) /\ v3[v] = Metrics!Held[v2[v]][j + 1]
      BY DEF MetricsInv, Metrics!Progress
    <3>2. v1'[v] = v1[v] /\ v3'[v] = v3[v]
      BY <1>9, <2>2
    <3> QED
      BY <3>1, <3>2
  <2> QED
    BY <2>1, <2>2
<1> QED
  BY <1>2, <1>4, <1>6, <1>7, <1>9, <1>10, <1>11, <1>12

(* What was recorded keeps its relation to what failed. *)
LEMMA FailuresKept ==
  ASSUME MetricsInv, NEW u \in Readers, NEW e, v1[u] # <<>>,
         v2[u] \in Collecting, Goes(v1[u], v2[u], v3[u], v1'[u], e),
         \A v \in Readers : v # u => v1'[v] = v1[v], v2' = v2,
         v6' = v6 + (IF Head(v1[u]) = "record" THEN 1 ELSE 0),
         v7' = v7 + (IF Head(v1[u]) = "fail" THEN 1 ELSE 0), v8' = v8
  PROVE  Metrics!FailuresCounted' /\ v6' \in Nat /\ v7' \in Nat
<1>a. v6 \in Nat /\ v7 \in Nat
  BY DEF MetricsInv, Metrics!TypeOK
<1>b. v6' \in Nat /\ v7' \in Nat
  BY <1>a
<1>1. PICK A : A = {v \in Readers : v2[v] = "fail" /\ Len(v1[v]) \in 5 .. 7}
  OBVIOUS
<1>2. PICK B : B = {v \in Readers : v2[v] = "fail" /\ Len(v1[v]) \in 2 .. 4}
  OBVIOUS
<1>3. PICK C : C = {v \in Readers : v2[v] = "fail" /\ Len(v1'[v]) \in 5 .. 7}
  OBVIOUS
<1>4. PICK D : D = {v \in Readers : v2[v] = "fail" /\ Len(v1'[v]) \in 2 .. 4}
  OBVIOUS
<1>5. IsFiniteSet(A) /\ IsFiniteSet(B)
  BY <1>1, <1>2, MetricsAssumption, FS_Subset
<1>5a. PICK m : m = Cardinality(v8)
  OBVIOUS
<1>5b. m \in Nat
  <2>1. v8 \subseteq Readers
    BY DEF MetricsInv, Metrics!TypeOK
  <2> QED
    BY <1>5a, <2>1, MetricsAssumption, FS_Subset, FS_CardinalityType
<1>6. Cardinality(A) \in Nat /\ Cardinality(B) \in Nat
  BY <1>5, FS_CardinalityType
<1>7. v6 + Cardinality(B) + m >= 2 * v7 + Cardinality(A)
  BY <1>1, <1>2, <1>5a, MetricsCounts DEF MetricsInv, Metrics!FailuresCounted, Metrics!Ahead, Metrics!Behind
<1>8. SUFFICES v6' + Cardinality(D) + m >= 2 * v7' + Cardinality(C)
  <2>1. Metrics!Ahead' = C /\ Metrics!Behind' = D
    BY <1>3, <1>4 DEF Metrics!Ahead, Metrics!Behind
  <2> QED
    BY <1>b, <1>5a, <1>8, <2>1, MetricsCounts DEF Metrics!FailuresCounted
<1>9. Len(v1[u]) \in Nat /\ Len(v1'[u]) = Len(v1[u]) - 1
  BY DEF Goes
<1>10. CASE v2[u] # "fail"
  <2>1. C = A /\ D = B
    BY <1>1, <1>2, <1>3, <1>4, <1>10
  <2>2. v7' = v7 /\ v6' >= v6
    BY <1>10, <1>a DEF Goes
  <2> QED
    BY <1>a, <1>b, <1>5b, <1>6, <1>7, <2>1, <2>2
<1>11. CASE v2[u] = "fail"
  <2>1. /\ Head(v1[u]) = "record" <=> Len(v1[u]) \in {2, 8}
        /\ Head(v1[u]) = "fail" <=> Len(v1[u]) = 5
    BY <1>11 DEF Goes
  <2>a. A \subseteq Readers /\ B \subseteq Readers /\ C \subseteq Readers /\ D \subseteq Readers
    BY <1>1, <1>2, <1>3, <1>4
  <2>b. \A v \in Readers : v # u => ((v \in C) <=> (v \in A)) /\ ((v \in D) <=> (v \in B))
    BY <1>1, <1>2, <1>3, <1>4
  <2>c. ((u \in A) <=> (Len(v1[u]) \in 5 .. 7)) /\ ((u \in B) <=> (Len(v1[u]) \in 2 .. 4))
    BY <1>1, <1>2, <1>11
  <2>d. ((u \in C) <=> (Len(v1'[u]) \in 5 .. 7)) /\ ((u \in D) <=> (Len(v1'[u]) \in 2 .. 4))
    BY <1>3, <1>4, <1>11
  <2>2. CASE Len(v1[u]) = 8
    <3>0. u \notin A /\ u \in C /\ u \notin D /\ u \notin B
      BY <1>9, <2>c, <2>d, <2>2
    <3>1. u \notin A /\ C = A \cup {u} /\ D = B
      <4>1. C = A \cup {u}
        BY <2>a, <2>b, <3>0
      <4>2. D = B
        <5>1. D \subseteq B
          BY <2>a, <2>b, <3>0
        <5>2. B \subseteq D
          BY <2>a, <2>b, <3>0
        <5> QED
          BY <5>1, <5>2
      <4> QED
        BY <3>0, <4>1, <4>2
    <3>2. Cardinality(C) = Cardinality(A) + 1
      BY <1>5, <3>1, FS_AddElement
    <3>3. v6' = v6 + 1 /\ v7' = v7
      BY <1>a, <2>1, <2>2
    <3> QED
      BY <1>a, <1>5b, <1>6, <1>7, <3>1, <3>2, <3>3
  <2>3. CASE Len(v1[u]) = 5
    <3>0. u \in A /\ u \notin C /\ u \in D /\ u \notin B
      BY <1>9, <2>c, <2>d, <2>3
    <3>1. u \in A /\ C = A \ {u} /\ u \notin B /\ D = B \cup {u}
      BY <2>a, <2>b, <3>0
    <3>2. Cardinality(C) = Cardinality(A) - 1
      BY <1>5, <3>1, FS_RemoveElement
    <3>3. Cardinality(D) = Cardinality(B) + 1
      BY <1>5, <3>1, FS_AddElement
    <3>4. v6' = v6 /\ v7' = v7 + 1
      BY <1>a, <2>1, <2>3
    <3> QED
      BY <1>a, <1>5b, <1>6, <1>7, <3>2, <3>3, <3>4
  <2>4. CASE Len(v1[u]) = 2
    <3>0. u \notin A /\ u \notin C /\ u \in B /\ u \notin D
      BY <1>9, <2>c, <2>d, <2>4
    <3>1. C = A /\ u \in B /\ D = B \ {u}
      <4>1. C = A
        <5>1. C \subseteq A
          BY <2>a, <2>b, <3>0
        <5>2. A \subseteq C
          BY <2>a, <2>b, <3>0
        <5> QED
          BY <5>1, <5>2
      <4>2. D = B \ {u}
        BY <2>a, <2>b, <3>0
      <4> QED
        BY <3>0, <4>1, <4>2
    <3>2. Cardinality(D) = Cardinality(B) - 1
      BY <1>5, <3>1, FS_RemoveElement
    <3>3. v6' = v6 + 1 /\ v7' = v7
      BY <1>a, <2>1, <2>4
    <3> QED
      BY <1>a, <1>5b, <1>6, <1>7, <3>1, <3>2, <3>3
  <2>5. CASE Len(v1[u]) \notin {2, 5, 8}
    <3>0. ((u \in C) <=> (u \in A)) /\ ((u \in D) <=> (u \in B))
      BY <1>9, <2>c, <2>d, <2>5
    <3>1. C = A /\ D = B
      <4>1. C = A
        <5>1. C \subseteq A
          BY <2>a, <2>b, <3>0
        <5>2. A \subseteq C
          BY <2>a, <2>b, <3>0
        <5> QED
          BY <5>1, <5>2
      <4>2. D = B
        <5>1. D \subseteq B
          BY <2>a, <2>b, <3>0
        <5>2. B \subseteq D
          BY <2>a, <2>b, <3>0
        <5> QED
          BY <5>1, <5>2
      <4> QED
        BY <3>0, <4>1, <4>2
    <3>2. v6' = v6 /\ v7' = v7
      BY <1>a, <2>1, <2>5
    <3> QED
      BY <1>7, <3>1, <3>2
  <2> QED
    BY <2>2, <2>3, <2>4, <2>5
<1> QED
  BY <1>b, <1>10, <1>11

(* Each step of the collector keeps the invariant. *)
LEMMA MetricsInductive ==
  ASSUME MetricsInv, Metrics!Next
  PROVE  MetricsInv'
<1>n. Nil \notin Readers
  BY MetricsAssumption
<1>a. /\ v1 \in [Readers -> Seq(LockSteps)] /\ v2 \in [Readers -> {"none"} \cup DOMAIN Metrics!Operation]
      /\ v3 \in [Readers -> 0 .. 3]
  BY DEF MetricsInv, Metrics!TypeOK, LockSteps
<1>b. v4 \in Readers \cup {Nil} /\ v5 \in BOOLEAN /\ v6 \in Nat /\ v7 \in Nat /\ v8 \subseteq Readers
  BY DEF MetricsInv, Metrics!TypeOK
<1>c. /\ v5 => v4 # Nil
      /\ \A v \in Readers : v1[v] # <<>> /\ Head(v1[v]) \in InLock => v4 = v /\ v5
      /\ \A v \in Readers : v4 = v => /\ v5 => v1[v] # <<>> /\ Head(v1[v]) \in InLock
                                      /\ ~v5 => v1[v] # <<>> /\ Head(v1[v]) = "Lock"
  BY DEF MetricsInv, Metrics!WriterInside, Metrics!Inside, Metrics!At, InLock
<1>d. v5 => \A v \in Readers : v3[v] = 0
  BY DEF MetricsInv, Metrics!Exclusion
<1>1. ASSUME NEW u \in Readers, NEW op \in DOMAIN Metrics!Operation, Metrics!Start(u, op)
      PROVE  MetricsInv'
  <2>1. op \in Collecting /\ v2[u] = "none" /\ v1[u] = <<>> /\ v3[u] = 0
    BY <1>1, CollectingAre DEF Metrics!Start, MetricsInv, Metrics!Progress
  <2>2. PICK t : t = Metrics!Operation[op]
    OBVIOUS
  <2>3. t \in Seq(LockSteps) /\ Far(t, op, 0, 0) /\ (t = <<>> \/ Head(t) \notin InLock)
    BY <2>1, <2>2, FarAtStart
  <2>4. v1' = [v1 EXCEPT ![u] = t] /\ v2' = [v2 EXCEPT ![u] = op] /\ UNCHANGED <<v3, v4, v5, v6, v7, v8>>
    BY <1>1, <2>2 DEF Metrics!Start
  <2>5. v1' \in [Readers -> Seq(LockSteps)]
    BY <1>a, <2>3, <2>4
  <2>6. v2' \in [Readers -> {"none"} \cup DOMAIN Metrics!Operation]
    BY <1>1, <1>a, <2>4
  <2>7. /\ v1'[u] = t /\ v2'[u] = op
        /\ \A v \in Readers : v # u => v1'[v] = v1[v] /\ v2'[v] = v2[v]
    BY <1>a, <2>4
  <2>8. Metrics!TypeOK'
    BY <1>a, <1>b, <2>4, <2>5, <2>6 DEF Metrics!TypeOK, LockSteps
  <2>9. Metrics!Progress'
    <3> SUFFICES ASSUME NEW v \in Readers
                 PROVE  IF v2'[v] = "none" THEN v1'[v] = <<>> /\ v3'[v] = 0
                        ELSE LET steps == Metrics!Operation[v2'[v]]
                             IN \E j \in 0 .. Len(steps) :
                                  v1'[v] = SubSeq(steps, j + 1, Len(steps)) /\ v3'[v] = Metrics!Held[v2'[v]][j + 1]
      BY DEF Metrics!Progress
    <3>1. CASE v = u
      BY <2>1, <2>3, <2>4, <2>7, <3>1 DEF Far, Collecting
    <3>2. CASE v # u
      <4>1. v1'[v] = v1[v] /\ v2'[v] = v2[v] /\ v3'[v] = v3[v]
        BY <2>4, <2>7, <3>2
      <4> QED
        BY <4>1 DEF MetricsInv, Metrics!Progress
    <3> QED
      BY <3>1, <3>2
  <2>10. Metrics!WriterInside'
    <3>1. v4 # u
      BY <1>c, <1>n, <2>1
    <3>2. \A v \in Readers : v1'[v] # <<>> /\ Head(v1'[v]) \in InLock => v # u
      BY <2>3, <2>7
    <3> QED
      BY <1>n, <1>c, <2>1, <2>3, <2>4, <2>7, <3>1, <3>2 DEF Metrics!WriterInside, Metrics!Inside, Metrics!At, InLock
  <2>11. Metrics!Exclusion'
    BY <1>d, <2>4 DEF Metrics!Exclusion
  <2>12. Metrics!FailuresCounted'
    <3>1. Metrics!Behind' = Metrics!Behind /\ (op = "fail" => Len(t) = 9)
      <4>1. op = "fail" => Len(t) = 9
        BY <2>1, <2>2, ErrorIs
      <4>2. \A v \in Readers : (v2'[v] = "fail" /\ Len(v1'[v]) \in 2 .. 4) <=> (v2[v] = "fail" /\ Len(v1[v]) \in 2 .. 4)
        <5>1. Len(v1[u]) = 0
          BY <2>1
        <5>2. v1'[u] = t /\ v2'[u] = op /\ v2[u] = "none"
          BY <2>1, <2>7
        <5>3. ~(v2'[u] = "fail" /\ Len(v1'[u]) \in 2 .. 4)
          BY <4>1, <5>2
        <5>4. ~(v2[u] = "fail")
          BY <5>2
        <5> QED
          BY <2>7, <5>3, <5>4
      <4> QED
        BY <4>1, <4>2 DEF Metrics!Behind
    <3>2. Metrics!Ahead' = Metrics!Ahead
      <4>1. \A v \in Readers : (v2'[v] = "fail" /\ Len(v1'[v]) \in 5 .. 7) <=> (v2[v] = "fail" /\ Len(v1[v]) \in 5 .. 7)
        <5>1. Len(v1[u]) = 0
          BY <2>1
        <5>2. v1'[u] = t /\ v2'[u] = op /\ v2[u] = "none"
          BY <2>1, <2>7
        <5>3. ~(v2'[u] = "fail" /\ Len(v1'[u]) \in 5 .. 7)
          BY <3>1, <5>2
        <5>4. ~(v2[u] = "fail")
          BY <5>2
        <5> QED
          BY <2>7, <5>3, <5>4
      <4> QED
        BY <4>1 DEF Metrics!Ahead
    <3> QED
      BY <2>4, <3>1, <3>2 DEF MetricsInv, Metrics!FailuresCounted
  <2> QED
    BY <2>8, <2>9, <2>10, <2>11, <2>12 DEF MetricsInv
<1>2. ASSUME NEW u \in Readers, v1[u] # <<>>, Metrics!Done(u), v2' = v2,
             NEW e, e = After(v3[u], Head(v1[u])), v3' = [v3 EXCEPT ![u] = e],
             v4' \in Readers \cup {Nil}, v5' \in BOOLEAN,
             v6' = v6 + (IF Head(v1[u]) = "record" THEN 1 ELSE 0),
             v7' = v7 + (IF Head(v1[u]) = "fail" THEN 1 ELSE 0), v8' = v8
      PROVE  /\ Metrics!TypeOK' /\ Metrics!Progress' /\ Metrics!FailuresCounted'
             /\ Goes(v1[u], v2[u], v3[u], v1'[u], e) /\ v3'[u] = e
             /\ \A v \in Readers : v # u => v1'[v] = v1[v] /\ v3'[v] = v3[v]
  <2>1. /\ v2[u] \in Collecting /\ Goes(v1[u], v2[u], v3[u], v1'[u], e) /\ v3'[u] = e
        /\ \A v \in Readers : v # u => v1'[v] = v1[v] /\ v3'[v] = v3[v]
        /\ v1' \in [Readers -> Seq(LockSteps)] /\ v3' \in [Readers -> 0 .. 3]
        /\ Metrics!Progress'
    BY <1>2, ReaderDone
  <2>2. Metrics!FailuresCounted' /\ v6' \in Nat /\ v7' \in Nat
    BY <1>2, <2>1, FailuresKept
  <2>3. v2' \in [Readers -> {"none"} \cup DOMAIN Metrics!Operation]
    BY <1>2, <1>a
  <2>4. Metrics!TypeOK'
    BY <1>2, <1>b, <2>1, <2>2, <2>3 DEF Metrics!TypeOK, LockSteps
  <2> QED
    BY <2>1, <2>2, <2>4
<1>3. ASSUME NEW u \in Readers, Metrics!RLock(u)
      PROVE  MetricsInv'
  <2>0. PICK e : e = v3[u] + 1
    OBVIOUS
  <2>1. /\ v1[u] # <<>> /\ Head(v1[u]) = "RLock" /\ v4 = Nil /\ Metrics!Done(u)
        /\ v3' = [v3 EXCEPT ![u] = e] /\ UNCHANGED <<v2, v4, v5, v6, v7, v8>>
    BY <1>3, <2>0 DEF Metrics!RLock, Metrics!At
  <2>2. /\ e = After(v3[u], Head(v1[u]))
        /\ v6' = v6 + (IF Head(v1[u]) = "record" THEN 1 ELSE 0)
        /\ v7' = v7 + (IF Head(v1[u]) = "fail" THEN 1 ELSE 0)
    <3>1. Head(v1[u]) \notin {"record", "fail"} /\ v6' = v6 /\ v7' = v7
      BY <2>1
    <3>2. e = After(v3[u], Head(v1[u]))
      BY <2>0, <2>1 DEF After
    <3>3. v6 \in Nat /\ v7 \in Nat
      BY <1>b
    <3>4. v6' = v6 + (IF Head(v1[u]) = "record" THEN 1 ELSE 0)
      BY <3>1, <3>3
    <3>5. v7' = v7 + (IF Head(v1[u]) = "fail" THEN 1 ELSE 0)
      BY <3>1, <3>3
    <3> QED
      BY <3>1, <3>2, <3>4, <3>5
  <2>3. /\ Metrics!TypeOK' /\ Metrics!Progress' /\ Metrics!FailuresCounted'
        /\ Goes(v1[u], v2[u], v3[u], v1'[u], e) /\ v3'[u] = e
        /\ \A v \in Readers : v # u => v1'[v] = v1[v] /\ v3'[v] = v3[v]
    BY <1>2, <1>b, <2>1, <2>2
  <2>4. v1'[u] = <<>> \/ Head(v1'[u]) \notin InLock
    BY <2>1, <2>3 DEF Goes
  <2>5. Metrics!WriterInside' /\ Metrics!Exclusion'
    BY <1>n, <1>c, <2>1, <2>3, <2>4 DEF Metrics!WriterInside, Metrics!Inside, Metrics!At, Metrics!Exclusion, InLock
  <2> QED
    BY <2>3, <2>5 DEF MetricsInv
<1>4. ASSUME NEW u \in Readers, Metrics!RUnlock(u)
      PROVE  MetricsInv'
  <2>0. PICK e : e = v3[u] - 1
    OBVIOUS
  <2>1. /\ v1[u] # <<>> /\ Head(v1[u]) = "RUnlock" /\ Metrics!Done(u)
        /\ v3' = [v3 EXCEPT ![u] = e] /\ UNCHANGED <<v2, v4, v5, v6, v7, v8>>
    BY <1>4, <2>0 DEF Metrics!RUnlock, Metrics!At
  <2>2. /\ e = After(v3[u], Head(v1[u]))
        /\ v6' = v6 + (IF Head(v1[u]) = "record" THEN 1 ELSE 0)
        /\ v7' = v7 + (IF Head(v1[u]) = "fail" THEN 1 ELSE 0)
    <3>1. Head(v1[u]) \notin {"record", "fail"} /\ v6' = v6 /\ v7' = v7
      BY <2>1
    <3>2. e = After(v3[u], Head(v1[u]))
      BY <2>0, <2>1 DEF After
    <3>3. v6 \in Nat /\ v7 \in Nat
      BY <1>b
    <3>4. v6' = v6 + (IF Head(v1[u]) = "record" THEN 1 ELSE 0)
      BY <3>1, <3>3
    <3>5. v7' = v7 + (IF Head(v1[u]) = "fail" THEN 1 ELSE 0)
      BY <3>1, <3>3
    <3> QED
      BY <3>1, <3>2, <3>4, <3>5
  <2>3. /\ Metrics!TypeOK' /\ Metrics!Progress' /\ Metrics!FailuresCounted'
        /\ Goes(v1[u], v2[u], v3[u], v1'[u], e) /\ v3'[u] = e
        /\ \A v \in Readers : v # u => v1'[v] = v1[v] /\ v3'[v] = v3[v]
    BY <1>2, <1>b, <2>1, <2>2
  <2>4. (v1'[u] = <<>> \/ Head(v1'[u]) \notin InLock) /\ v3[u] # 0
    <3>1. v1'[u] = <<>> \/ Head(v1'[u]) \notin InLock
      BY <2>1, <2>3 DEF Goes
    <3>2. e \in 0 .. 3 /\ v3[u] \in 0 .. 3 /\ e = v3[u] - 1
      BY <2>0, <2>3 DEF Goes
    <3>3. v3[u] # 0
      BY <3>2
    <3> QED
      BY <3>1, <3>3
  <2>5. v4 # u
    BY <1>c, <2>1 DEF InLock
  <2>6. Metrics!WriterInside'
    BY <1>n, <1>c, <2>1, <2>3, <2>4, <2>5 DEF Metrics!WriterInside, Metrics!Inside, Metrics!At, InLock
  <2>7. Metrics!Exclusion'
    BY <1>d, <2>1, <2>4 DEF Metrics!Exclusion
  <2> QED
    BY <2>3, <2>6, <2>7 DEF MetricsInv
<1>5. ASSUME NEW u \in Readers, Metrics!Announce(u)
      PROVE  MetricsInv'
  <2>1. /\ v1[u] # <<>> /\ Head(v1[u]) = "Lock" /\ v4 = Nil /\ v4' = u
        /\ UNCHANGED <<v1, v2, v3, v5, v6, v7, v8>>
    BY <1>5 DEF Metrics!Announce, Metrics!At
  <2>2. Metrics!TypeOK'
    BY <1>a, <1>b, <2>1 DEF Metrics!TypeOK, LockSteps
  <2>3. Metrics!Progress'
    BY <2>1 DEF MetricsInv, Metrics!Progress
  <2>4. Metrics!WriterInside'
    BY <1>n, <1>b, <1>c, <2>1 DEF Metrics!WriterInside, Metrics!Inside, Metrics!At, InLock
  <2>5. Metrics!Exclusion'
    BY <1>c, <2>1 DEF Metrics!Exclusion
  <2>6. Metrics!FailuresCounted'
    BY <2>1 DEF MetricsInv, Metrics!FailuresCounted, Metrics!Ahead, Metrics!Behind
  <2> QED
    BY <2>2, <2>3, <2>4, <2>5, <2>6 DEF MetricsInv
<1>6. ASSUME NEW u \in Readers, Metrics!Lock(u)
      PROVE  MetricsInv'
  <2>0. PICK e : e = v3[u]
    OBVIOUS
  <2>1. /\ v1[u] # <<>> /\ Head(v1[u]) = "Lock" /\ v4 = u /\ (\A v \in Readers : v3[v] = 0)
        /\ v5' = TRUE /\ Metrics!Done(u) /\ UNCHANGED <<v2, v3, v4, v6, v7, v8>>
    BY <1>6 DEF Metrics!Lock, Metrics!At
  <2>2. /\ e = After(v3[u], Head(v1[u]))
        /\ v3' = [v3 EXCEPT ![u] = e] /\ v5' \in BOOLEAN
        /\ v6' = v6 + (IF Head(v1[u]) = "record" THEN 1 ELSE 0)
        /\ v7' = v7 + (IF Head(v1[u]) = "fail" THEN 1 ELSE 0)
    <3>1. Head(v1[u]) \notin {"record", "fail", "RLock", "RUnlock"} /\ v6' = v6 /\ v7' = v7 /\ v3' = v3 /\ v5' \in BOOLEAN
      BY <2>1
    <3>2. e = After(v3[u], Head(v1[u])) /\ v3' = [v3 EXCEPT ![u] = e]
      BY <1>a, <2>0, <3>1 DEF After
    <3>3. v6 \in Nat /\ v7 \in Nat
      BY <1>b
    <3>4. v6' = v6 + (IF Head(v1[u]) = "record" THEN 1 ELSE 0)
      BY <3>1, <3>3
    <3>5. v7' = v7 + (IF Head(v1[u]) = "fail" THEN 1 ELSE 0)
      BY <3>1, <3>3
    <3> QED
      BY <3>1, <3>2, <3>4, <3>5
  <2>3. /\ Metrics!TypeOK' /\ Metrics!Progress' /\ Metrics!FailuresCounted'
        /\ Goes(v1[u], v2[u], v3[u], v1'[u], e)
        /\ \A v \in Readers : v # u => v1'[v] = v1[v] /\ v3'[v] = v3[v]
    BY <1>2, <1>b, <2>1, <2>2
  <2>4. v1'[u] # <<>> /\ Head(v1'[u]) \in InLock
    BY <2>1, <2>3 DEF Goes
  <2>5. Metrics!WriterInside'
    BY <1>n, <1>c, <2>1, <2>3, <2>4 DEF Metrics!WriterInside, Metrics!Inside, Metrics!At, InLock
  <2>6. Metrics!Exclusion'
    BY <2>1 DEF Metrics!Exclusion
  <2> QED
    BY <2>3, <2>5, <2>6 DEF MetricsInv
<1>7. ASSUME NEW u \in Readers, Metrics!Write(u)
      PROVE  MetricsInv'
  <2>0. PICK e : e = v3[u]
    OBVIOUS
  <2>1. /\ v1[u] # <<>> /\ Head(v1[u]) \in {"record", "fail"}
        /\ v6' = v6 + (IF Head(v1[u]) = "record" THEN 1 ELSE 0)
        /\ v7' = v7 + (IF Head(v1[u]) = "fail" THEN 1 ELSE 0)
        /\ Metrics!Done(u) /\ UNCHANGED <<v2, v3, v4, v5, v8>>
    BY <1>7 DEF Metrics!Write
  <2>2. e = After(v3[u], Head(v1[u])) /\ v3' = [v3 EXCEPT ![u] = e]
    BY <1>a, <2>0, <2>1 DEF After
  <2>3. /\ Metrics!TypeOK' /\ Metrics!Progress' /\ Metrics!FailuresCounted'
        /\ Goes(v1[u], v2[u], v3[u], v1'[u], e)
        /\ \A v \in Readers : v # u => v1'[v] = v1[v] /\ v3'[v] = v3[v]
    BY <1>2, <1>b, <2>1, <2>2
  <2>4. v1'[u] # <<>> /\ Head(v1'[u]) \in InLock /\ v4 = u /\ v5
    BY <1>c, <2>1, <2>3 DEF Goes, InLock
  <2>5. Metrics!WriterInside'
    BY <1>n, <1>c, <2>1, <2>3, <2>4 DEF Metrics!WriterInside, Metrics!Inside, Metrics!At, InLock
  <2>6. Metrics!Exclusion'
    BY <1>d, <2>1 DEF Metrics!Exclusion
  <2> QED
    BY <2>3, <2>5, <2>6 DEF MetricsInv
<1>7a. ASSUME NEW u \in Readers, Metrics!Zero(u)
       PROVE  MetricsInv'
  <2>0. PICK e : e = v3[u]
    OBVIOUS
  <2>1. /\ v1[u] # <<>> /\ Head(v1[u]) = "reset" /\ v6' = 0 /\ v7' = 0 /\ v8' = Metrics!Ahead
        /\ Metrics!Done(u) /\ UNCHANGED <<v2, v3, v4, v5>>
    BY <1>7a DEF Metrics!Zero, Metrics!At
  <2>2. e = After(v3[u], Head(v1[u])) /\ v3' = [v3 EXCEPT ![u] = e]
    BY <1>a, <2>0, <2>1 DEF After
  <2>3. /\ v2[u] \in Collecting /\ Goes(v1[u], v2[u], v3[u], v1'[u], e)
        /\ \A v \in Readers : v # u => v1'[v] = v1[v] /\ v3'[v] = v3[v]
        /\ v1' \in [Readers -> Seq(LockSteps)] /\ v3' \in [Readers -> 0 .. 3]
        /\ Metrics!Progress'
    BY <2>1, <2>2, ReaderDone
  <2>4. v1'[u] # <<>> /\ Head(v1'[u]) \in InLock /\ v4 = u /\ v5
    BY <1>c, <2>1, <2>3 DEF Goes, InLock
  <2>5. Metrics!WriterInside'
    BY <1>n, <1>c, <2>1, <2>3, <2>4 DEF Metrics!WriterInside, Metrics!Inside, Metrics!At, InLock
  <2>6. Metrics!Exclusion'
    BY <1>d, <2>1, <2>4 DEF Metrics!Exclusion
  <2>7. v8' \subseteq Readers
    BY <2>1 DEF Metrics!Ahead
  <2>8. Metrics!TypeOK'
    BY <1>a, <1>b, <2>1, <2>3, <2>7 DEF Metrics!TypeOK, LockSteps
  <2>9. Metrics!Ahead' = v8'
    <3>1. ~(v2[u] = "fail" /\ Len(v1[u]) \in 5 .. 7) /\ ~(v2'[u] = "fail" /\ Len(v1'[u]) \in 5 .. 7)
      <4>1. Head(v1[u]) = "reset" => v2[u] # "fail"
        BY <2>1, <2>3 DEF Goes
      <4> QED
        BY <2>1, <4>1
    <3> QED
      BY <2>1, <2>3, <3>1 DEF Metrics!Ahead
  <2>10. Metrics!FailuresCounted'
    <3>1. PICK A : A = v8'
      OBVIOUS
    <3>2. PICK B : B = Metrics!Behind'
      OBVIOUS
    <3>3. A \subseteq Readers /\ B \subseteq Readers
      BY <2>7, <3>1, <3>2 DEF Metrics!Behind
    <3>4. Cardinality(A) \in Nat /\ Cardinality(B) \in Nat
      BY <3>3, MetricsAssumption, FS_Subset, FS_CardinalityType
    <3>5. 0 + Cardinality(B) + Cardinality(A) >= 2 * 0 + Cardinality(A)
      BY <3>4
    <3> QED
      BY <2>1, <2>9, <3>1, <3>2, <3>5, MetricsCounts DEF Metrics!FailuresCounted
  <2> QED
    BY <2>3, <2>5, <2>6, <2>8, <2>10 DEF MetricsInv
<1>8. ASSUME NEW u \in Readers, Metrics!Unlock(u)
      PROVE  MetricsInv'
  <2>0. PICK e : e = v3[u]
    OBVIOUS
  <2>1. /\ v1[u] # <<>> /\ Head(v1[u]) = "Unlock" /\ v4' = Nil /\ v5' = FALSE
        /\ Metrics!Done(u) /\ UNCHANGED <<v2, v3, v6, v7, v8>>
    BY <1>8 DEF Metrics!Unlock, Metrics!At
  <2>2. /\ e = After(v3[u], Head(v1[u]))
        /\ v3' = [v3 EXCEPT ![u] = e] /\ v5' \in BOOLEAN
        /\ v6' = v6 + (IF Head(v1[u]) = "record" THEN 1 ELSE 0)
        /\ v7' = v7 + (IF Head(v1[u]) = "fail" THEN 1 ELSE 0)
    <3>1. Head(v1[u]) \notin {"record", "fail", "RLock", "RUnlock"} /\ v6' = v6 /\ v7' = v7 /\ v3' = v3 /\ v5' \in BOOLEAN
      BY <2>1
    <3>2. e = After(v3[u], Head(v1[u])) /\ v3' = [v3 EXCEPT ![u] = e]
      BY <1>a, <2>0, <3>1 DEF After
    <3>3. v6 \in Nat /\ v7 \in Nat
      BY <1>b
    <3>4. v6' = v6 + (IF Head(v1[u]) = "record" THEN 1 ELSE 0)
      BY <3>1, <3>3
    <3>5. v7' = v7 + (IF Head(v1[u]) = "fail" THEN 1 ELSE 0)
      BY <3>1, <3>3
    <3> QED
      BY <3>1, <3>2, <3>4, <3>5
  <2>3. /\ Metrics!TypeOK' /\ Metrics!Progress' /\ Metrics!FailuresCounted'
        /\ Goes(v1[u], v2[u], v3[u], v1'[u], e)
        /\ \A v \in Readers : v # u => v1'[v] = v1[v] /\ v3'[v] = v3[v]
    BY <1>2, <1>b, <2>1, <2>2
  <2>4. (v1'[u] = <<>> \/ Head(v1'[u]) \notin InLock) /\ v4 = u
    BY <1>c, <2>1, <2>3 DEF Goes, InLock
  <2>5. Metrics!WriterInside'
    BY <1>n, <1>c, <2>1, <2>3, <2>4 DEF Metrics!WriterInside, Metrics!Inside, Metrics!At, InLock
  <2>6. Metrics!Exclusion'
    BY <2>1 DEF Metrics!Exclusion
  <2> QED
    BY <2>3, <2>5, <2>6 DEF MetricsInv
<1> QED
  BY <1>1, <1>3, <1>4, <1>5, <1>6, <1>7, <1>7a, <1>8 DEF Metrics!Next, Metrics!Step

(* What the invariant of the collector says of it when nothing runs, and   *)
(* when it has stopped. *)
LEMMA MetricsImplied ==
  ASSUME MetricsInv
  PROVE  Metrics!StopsOnlyOnNestedRead /\ Metrics!FailuresCountTwice
<1>1. Metrics!FailuresCountTwice
  <2> SUFFICES ASSUME \A u \in Readers : v1[u] = <<>>
               PROVE  v6 + Metrics!Cardinality(v8) >= 2 * v7
    BY DEF Metrics!FailuresCountTwice
  <2>1. Metrics!Ahead = {} /\ Metrics!Behind = {}
    BY DEF Metrics!Ahead, Metrics!Behind
  <2>2. Metrics!Cardinality({}) = 0
    BY MetricsCounts, FS_EmptySet
  <2>3. PICK m : m = Metrics!Cardinality(v8)
    OBVIOUS
  <2>4. m \in Nat
    <3>1. v8 \subseteq Readers
      BY DEF MetricsInv, Metrics!TypeOK
    <3> QED
      BY <2>3, <3>1, MetricsAssumption, MetricsCounts, FS_Subset, FS_CardinalityType
  <2>5. v6 + 0 + m >= 2 * v7 + 0 /\ v6 \in Nat /\ v7 \in Nat
    BY <2>1, <2>2, <2>3 DEF MetricsInv, Metrics!TypeOK, Metrics!FailuresCounted
  <2>6. v6 + m >= 2 * v7
    BY <2>4, <2>5
  <2> QED
    BY <2>3, <2>6
<1>2. Metrics!StopsOnlyOnNestedRead
  <2> SUFFICES ASSUME Metrics!Stopped, NEW u \in Readers, v1[u] # <<>>
               PROVE  /\ v4 # Nil /\ ~v5
                      /\ \E v \in Readers : v3[v] > 0 /\ Metrics!At(v, "RLock") /\ v2[v] \in {"performance", "all"}
    BY DEF Metrics!StopsOnlyOnNestedRead
  <2>1. v4 # Nil
    BY MetricsAssumption DEF Metrics!Stopped, Metrics!Waits, Metrics!At
  <2>2. v4 \in Readers
    BY <2>1 DEF MetricsInv, Metrics!TypeOK
  <2>3. ~v5
    BY <2>2 DEF MetricsInv, Metrics!WriterInside, Metrics!Inside, Metrics!Stopped, Metrics!Waits, Metrics!At
  <2>4. Metrics!At(v4, "Lock")
    BY <2>2, <2>3 DEF MetricsInv, Metrics!WriterInside
  <2>5. PICK v \in Readers : v3[v] > 0
    BY <2>2, <2>4 DEF Metrics!Stopped, Metrics!Waits, Metrics!At
  <2>6. v2[v] \in Collecting
    BY <2>5, CollectingAre DEF MetricsInv, Metrics!Progress, Metrics!TypeOK
  <2>7. PICK k \in 0 .. Len(Metrics!Operation[v2[v]]) : Far(v1[v], v2[v], v3[v], k)
    BY <2>6 DEF MetricsInv, Metrics!Progress, Far, Collecting
  <2>8. v1[v] # <<>>
    BY <2>5, <2>6, <2>7, FarAtEnd
  <2>9. PICK e : Goes(v1[v], v2[v], v3[v], Tail(v1[v]), e)
    BY <2>8, ReaderGoes
  <2>10. Metrics!At(v, "RLock")
    BY <2>5, <2>8, <2>9 DEF Metrics!Stopped, Metrics!Waits, Metrics!At, Goes
  <2>11. v2[v] \in {"performance", "all"}
    BY <2>5, <2>9, <2>10 DEF Metrics!At, Goes
  <2> QED
    BY <2>1, <2>3, <2>5, <2>10, <2>11
<1> QED
  BY <1>1, <1>2

-----------------------------------------------------------------------------
(* The services.                                                           *)

Parts ==
  {"metrics", "prompts", "sessions", "artifacts", "registry", "credentials", "extensions",
   "rag", "retrieval", "client", "pools", "auth", "states", "steps"}

ServicesInv ==
  /\ part \in Parts
  /\ part = "metrics" => MetricsInv
  /\ part = "prompts" => PromptInv
  /\ part = "sessions" => SessionInv
  /\ part = "artifacts" => ArtifactInv
  /\ part = "registry" => RegistryInv
  /\ part = "credentials" => CredentialInv
  /\ part = "extensions" => ExtensionInv
  /\ part = "rag" => RagInv
  /\ part = "retrieval" => RetrieveInv
  /\ part = "client" => VertexInv
  /\ part = "pools" => PoolInv
  /\ part = "auth" => AuthInv
  /\ part = "states" => StateInv
  /\ part = "steps" => LlmInv

(* The initial states of the services. *)
LEMMA ServicesStart == Init => ServicesInv
<1> SUFFICES ASSUME Init
             PROVE  ServicesInv
  OBVIOUS
<1>1. part \in Parts
  BY DEF Init, Parts
<1>2. part = "metrics" => MetricsInv
  BY MetricsStart DEF Init
<1>3. part = "prompts" => PromptInv
  BY PromptStart DEF Init
<1>4. part = "sessions" => SessionInv
  BY SessionStart DEF Init
<1>5. part = "artifacts" => ArtifactInv
  BY ArtifactStart DEF Init
<1>6. part = "registry" => RegistryInv
  BY RegistryStart DEF Init
<1>7. part = "credentials" => CredentialInv
  BY CredentialStart DEF Init
<1>8. part = "extensions" => ExtensionInv
  BY ExtensionStart DEF Init
<1>9. part = "rag" => RagInv
  BY RagStart DEF Init
<1>10. part = "retrieval" => RetrieveInv
  BY RetrieveStart DEF Init
<1>11. part = "client" => VertexInv
  BY VertexStart DEF Init
<1>12. part = "pools" => PoolInv
  BY PoolStart DEF Init
<1>13. part = "auth" => AuthInv
  BY AuthStart DEF Init
<1>14. part = "states" => StateInv
  BY StateStart DEF Init
<1>15. part = "steps" => LlmInv
  BY LlmStart DEF Init
<1> QED
  BY <1>1, <1>2, <1>3, <1>4, <1>5, <1>6, <1>7, <1>8, <1>9, <1>10, <1>11, <1>12, <1>13, <1>14,
     <1>15 DEF ServicesInv

(* A step of others keeps the invariant of the collector of metrics. *)
LEMMA MetricsStutter ==
  ASSUME MetricsInv, UNCHANGED <<v1, v2, v3, v4, v5, v6, v7, v8>>
  PROVE  MetricsInv'
BY DEF MetricsInv, Metrics!TypeOK, Metrics!Progress, Metrics!WriterInside, Metrics!Exclusion,
       Metrics!FailuresCounted, Metrics!At, Metrics!Inside, Metrics!Ahead, Metrics!Behind

(* A step of others keeps the invariant of the prompts. *)
LEMMA PromptStutter ==
  ASSUME PromptInv, UNCHANGED <<v1, v2, v3, v4, v5>>
  PROVE  PromptInv'
<1>1. /\ PromptTyped(v1, v2, v3, v4, v5) /\ Overlapping(v3, v5) /\ AreKnown(v1, v2, v3, v4)
      /\ ClashByRace(v1, v5) /\ \A c \in Callers : Wants(v3[c]) => TakenTogether(c, v3[c].name, v1, v5)
  BY PromptFacts
<1>2. v1' = v1 /\ v2' = v2 /\ v3' = v3 /\ v4' = v4 /\ v5' = v5
  OBVIOUS
<1>3. /\ PromptTyped(v1', v2', v3', v4', v5') /\ Overlapping(v3', v5') /\ AreKnown(v1', v2', v3', v4')
      /\ ClashByRace(v1', v5') /\ \A c \in Callers : Wants(v3'[c]) => TakenTogether(c, v3'[c].name, v1', v5')
  BY <1>1, <1>2
<1> QED
  BY <1>3, PromptKept

(* A step of others keeps the invariant of the sessions. *)
LEMMA SessionStutter ==
  ASSUME SessionInv, UNCHANGED <<v1, v2, v3, v4, v5, v6, v7>>
  PROVE  SessionInv'
BY DEF SessionInv, Session!TypeOK, Session!Numbered, Session!CopiesAreSubsequences,
       Session!SharedStateIsCurrent

(* A step of others keeps the invariant of the artifacts. *)
LEMMA ArtifactStutter ==
  ASSUME ArtifactInv, UNCHANGED <<v1, v2, v3, v4, v5, v6>>
  PROVE  ArtifactInv'
BY DEF ArtifactInv, Artifact!TypeOK, Artifact!PromisesHeld, Artifact!VersionsPromised, Artifact!Saved,
       Artifact!AnswerIsPresent, Artifact!Loaded, Artifact!Listed, Artifact!Keys

(* A step of others keeps the invariant of the registry. *)
LEMMA RegistryStutter ==
  ASSUME RegistryInv, UNCHANGED <<v1, v2, v3, v4>>
  PROVE  RegistryInv'
BY DEF RegistryInv, Registry!TypeOK, Registry!FoundIsCurrent, Registry!CacheBounded,
       Registry!CacheIsCurrentOrReplaced, Registry!Match, Registry!Cached

(* A step of others keeps the invariant of the credentials. *)
LEMMA CredentialStutter ==
  ASSUME CredentialInv, UNCHANGED <<v1, v2, v3, v4, v5, v6, v7, v8, v9>>
  PROVE  CredentialInv'
BY DEF CredentialInv, Credential!TypeOK, Credential!AnsweredWithToken, Credential!CodeSentOnce,
       Credential!ExpiredOnlyUnrefreshed

(* A step of others keeps the invariant of the extensions. *)
LEMMA ExtensionStutter ==
  ASSUME ExtensionInv, UNCHANGED <<v1, v2, v3, v4, v5, v6, v7>>
  PROVE  ExtensionInv'
BY DEF ExtensionInv, Extension!TypeOK, Extension!FetchesInOrder, Extension!HubKept,
       Extension!CachedSpecBelongs, Extension!ConfigsKeptApart, Extension!Creating

(* A step of others keeps the invariant of a batch on a corpus. *)
LEMMA RagStutter ==
  ASSUME RagInv, UNCHANGED <<v1, v2, v3, v4, v5>>
  PROVE  RagInv'
BY DEF RagInv, Rag!TypeOK, Rag!BatchesDeleteInOrder, Rag!BatchesImportOnce,
       Rag!WaitedForIsPending, Rag!Progress, Rag!PendingOfCalls, Rag!At

(* A step of others keeps the invariant of retrieval. *)
LEMMA RetrieveStutter ==
  ASSUME RetrieveInv, UNCHANGED <<v1, v2, v3, v4, v5>>
  PROVE  RetrieveInv'
BY DEF RetrieveInv, Retrieve!TypeOK, Retrieve!MemoriesOfDocuments

(* A step of others keeps the invariant of the client. *)
LEMMA VertexStutter ==
  ASSUME VertexInv, UNCHANGED <<v1, v2, v3, v4, v5, v6>>
  PROVE  VertexInv'
BY DEF VertexInv, Vertex!TypeOK, Vertex!BuiltInOrder, Vertex!ClosedInOrder,
       Vertex!LeaksWhatItLeaves, Vertex!HealthIsBeingBuilt, Vertex!OpenOf,
       Vertex!GetServiceStatus, Vertex!HealthCheck

(* A step of others keeps the invariant of the pools. *)
LEMMA PoolStutter ==
  ASSUME PoolInv, UNCHANGED <<v1, v2, v3, v4, v5>>
  PROVE  PoolInv'
BY DEF PoolInv, Pool!TypeOK, Pool!OneOwner, Pool!DirtIsLeft, Pool!OutputEndsWithOwn,
       Pool!BytesInBuffers

(* A step of others keeps the invariant of a configuration of credentials. *)
LEMMA AuthStutter ==
  ASSUME AuthInv, UNCHANGED <<v1, v2, v3, v4, v5>>
  PROVE  AuthInv'
BY DEF AuthInv, Auth!TypeOK, Auth!RequestsHaveNoNewURI, Auth!StoredAsAnswered

(* A step of others keeps the invariant of the states of contexts. *)
LEMMA StateStutter ==
  ASSUME StateInv, UNCHANGED <<v1, v2, v3, v4, v5, v6, v7>>
  PROVE  StateInv'
BY DEF StateInv, State!TypeOK, State!ClashesBetweenContexts, State!PendingIsLastSet, State!Uses

(* A step of others keeps the invariant of the steps of an agent. *)
LEMMA LlmStutter ==
  ASSUME LlmInv, UNCHANGED <<v1, v2, v3, v4, v5, v6, v7, v8>>
  PROVE  LlmInv'
BY DEF LlmInv, Llm!TypeOK, Llm!OpenEventHeard, Llm!CalledOnce, Llm!StepsFollowOpenEvents,
       Llm!ModelIsHeardOnce, Llm!Heard

(* Each step of a service keeps its invariant. *)
LEMMA ServicesInductive == ServicesInv /\ [Next]_vars => ServicesInv'
<1> SUFFICES ASSUME ServicesInv, [Next]_vars
             PROVE  ServicesInv'
  OBVIOUS
<1>1. CASE MetricsStep
  <2>1. part = "metrics" /\ part' = "metrics" /\ MetricsInv /\ Metrics!Next
    BY <1>1 DEF MetricsStep, ServicesInv
  <2>2. MetricsInv'
    BY <2>1, MetricsInductive
  <2> QED
    BY <2>1, <2>2 DEF ServicesInv, Parts
<1>2. CASE PromptStep
  <2>1. part = "prompts" /\ part' = "prompts" /\ PromptInv /\ Prompt!Next
    BY <1>2 DEF PromptStep, ServicesInv
  <2>2. PromptInv'
    BY <2>1, PromptInductive
  <2> QED
    BY <2>1, <2>2 DEF ServicesInv, Parts
<1>3. CASE SessionStep
  <2>1. part = "sessions" /\ part' = "sessions" /\ SessionInv /\ Session!Next
    BY <1>3 DEF SessionStep, ServicesInv
  <2>2. SessionInv'
    BY <2>1, SessionInductive
  <2> QED
    BY <2>1, <2>2 DEF ServicesInv, Parts
<1>4. CASE ArtifactStep
  <2>1. part = "artifacts" /\ part' = "artifacts" /\ ArtifactInv /\ Artifact!Next
    BY <1>4 DEF ArtifactStep, ServicesInv
  <2>2. ArtifactInv'
    BY <2>1, ArtifactInductive
  <2> QED
    BY <2>1, <2>2 DEF ServicesInv, Parts
<1>5. CASE RegistryStep
  <2>1. part = "registry" /\ part' = "registry" /\ RegistryInv /\ Registry!Next
    BY <1>5 DEF RegistryStep, ServicesInv
  <2>2. RegistryInv'
    BY <2>1, RegistryInductive
  <2> QED
    BY <2>1, <2>2 DEF ServicesInv, Parts
<1>6. CASE CredentialStep
  <2>1. part = "credentials" /\ part' = "credentials" /\ CredentialInv /\ Credential!Next
    BY <1>6 DEF CredentialStep, ServicesInv
  <2>2. CredentialInv'
    BY <2>1, CredentialInductive
  <2> QED
    BY <2>1, <2>2 DEF ServicesInv, Parts
<1>7. CASE ExtensionStep
  <2>1. part = "extensions" /\ part' = "extensions" /\ ExtensionInv /\ Extension!Next
    BY <1>7 DEF ExtensionStep, ServicesInv
  <2>2. ExtensionInv'
    BY <2>1, ExtensionInductive
  <2> QED
    BY <2>1, <2>2 DEF ServicesInv, Parts
<1>8. CASE RagStep
  <2>1. part = "rag" /\ part' = "rag" /\ RagInv /\ Rag!Next
    BY <1>8 DEF RagStep, ServicesInv
  <2>2. RagInv'
    BY <2>1, RagInductive
  <2> QED
    BY <2>1, <2>2 DEF ServicesInv, Parts
<1>9. CASE RetrieveStep
  <2>1. part = "retrieval" /\ part' = "retrieval" /\ RetrieveInv /\ Retrieve!Next
    BY <1>9 DEF RetrieveStep, ServicesInv
  <2>2. RetrieveInv'
    BY <2>1, RetrieveInductive
  <2> QED
    BY <2>1, <2>2 DEF ServicesInv, Parts
<1>10. CASE VertexStep
  <2>1. part = "client" /\ part' = "client" /\ VertexInv /\ Vertex!Next
    BY <1>10 DEF VertexStep, ServicesInv
  <2>2. VertexInv'
    BY <2>1, VertexInductive
  <2> QED
    BY <2>1, <2>2 DEF ServicesInv, Parts
<1>11. CASE PoolStep
  <2>1. part = "pools" /\ part' = "pools" /\ PoolInv /\ Pool!Next
    BY <1>11 DEF PoolStep, ServicesInv
  <2>2. PoolInv'
    BY <2>1, PoolInductive
  <2> QED
    BY <2>1, <2>2 DEF ServicesInv, Parts
<1>12. CASE AuthStep
  <2>1. part = "auth" /\ part' = "auth" /\ AuthInv /\ Auth!Next
    BY <1>12 DEF AuthStep, ServicesInv
  <2>2. AuthInv'
    BY <2>1, AuthInductive
  <2> QED
    BY <2>1, <2>2 DEF ServicesInv, Parts
<1>13. CASE StateStep
  <2>1. part = "states" /\ part' = "states" /\ StateInv /\ State!Next
    BY <1>13 DEF StateStep, ServicesInv
  <2>2. StateInv'
    BY <2>1, StateInductive
  <2> QED
    BY <2>1, <2>2 DEF ServicesInv, Parts
<1>14. CASE LlmStep
  <2>1. part = "steps" /\ part' = "steps" /\ LlmInv /\ Llm!Next
    BY <1>14 DEF LlmStep, ServicesInv
  <2>2. LlmInv'
    BY <2>1, LlmInductive
  <2> QED
    BY <2>1, <2>2 DEF ServicesInv, Parts
<1>15. CASE UNCHANGED vars
  <2>1. part' = part /\ UNCHANGED <<v1, v2, v3, v4, v5, v6, v7, v8, v9>>
    BY <1>15 DEF vars
  <2>2. part \in Parts
    BY DEF ServicesInv
  <2>3. ASSUME part = "metrics" PROVE MetricsInv'
    BY <2>1, <2>3, MetricsStutter DEF ServicesInv
  <2>4. ASSUME part = "prompts" PROVE PromptInv'
    BY <2>1, <2>4, PromptStutter DEF ServicesInv
  <2>5. ASSUME part = "sessions" PROVE SessionInv'
    BY <2>1, <2>5, SessionStutter DEF ServicesInv
  <2>6. ASSUME part = "artifacts" PROVE ArtifactInv'
    BY <2>1, <2>6, ArtifactStutter DEF ServicesInv
  <2>7. ASSUME part = "registry" PROVE RegistryInv'
    BY <2>1, <2>7, RegistryStutter DEF ServicesInv
  <2>8. ASSUME part = "credentials" PROVE CredentialInv'
    BY <2>1, <2>8, CredentialStutter DEF ServicesInv
  <2>9. ASSUME part = "extensions" PROVE ExtensionInv'
    BY <2>1, <2>9, ExtensionStutter DEF ServicesInv
  <2>10. ASSUME part = "rag" PROVE RagInv'
    BY <2>1, <2>10, RagStutter DEF ServicesInv
  <2>11. ASSUME part = "retrieval" PROVE RetrieveInv'
    BY <2>1, <2>11, RetrieveStutter DEF ServicesInv
  <2>12. ASSUME part = "client" PROVE VertexInv'
    BY <2>1, <2>12, VertexStutter DEF ServicesInv
  <2>13. ASSUME part = "pools" PROVE PoolInv'
    BY <2>1, <2>13, PoolStutter DEF ServicesInv
  <2>14. ASSUME part = "auth" PROVE AuthInv'
    BY <2>1, <2>14, AuthStutter DEF ServicesInv
  <2>15. ASSUME part = "states" PROVE StateInv'
    BY <2>1, <2>15, StateStutter DEF ServicesInv
  <2>16. ASSUME part = "steps" PROVE LlmInv'
    BY <2>1, <2>16, LlmStutter DEF ServicesInv
  <2> QED
    BY <2>1, <2>2, <2>3, <2>4, <2>5, <2>6, <2>7, <2>8, <2>9, <2>10, <2>11, <2>12, <2>13, <2>14, <2>15,
       <2>16 DEF ServicesInv
<1> QED
  BY <1>1, <1>2, <1>3, <1>4, <1>5, <1>6, <1>7, <1>8, <1>9, <1>10, <1>11, <1>12, <1>13, <1>14,
     <1>15 DEF Next

(* What the invariant is for. *)
LEMMA ServicesImplied ==
  ServicesInv => /\ ServicesTypeOK /\ MetricsSound /\ PromptsSound /\ SessionsSound
                 /\ ArtifactsKept /\ RegistrySound /\ CredentialsSound /\ StepsInOrder
<1> SUFFICES ASSUME ServicesInv
             PROVE  /\ ServicesTypeOK /\ MetricsSound /\ PromptsSound /\ SessionsSound
                    /\ ArtifactsKept /\ RegistrySound /\ CredentialsSound /\ StepsInOrder
  OBVIOUS
<1>1. ServicesTypeOK
  <2>1. part = "metrics" => Metrics!TypeOK
    BY DEF ServicesInv, MetricsInv
  <2>2. part = "prompts" => Prompt!TypeOK
    BY DEF ServicesInv, PromptInv
  <2>3. part = "sessions" => Session!TypeOK
    BY DEF ServicesInv, SessionInv
  <2>4. part = "artifacts" => Artifact!TypeOK
    BY DEF ServicesInv, ArtifactInv
  <2>5. part = "registry" => Registry!TypeOK
    BY DEF ServicesInv, RegistryInv
  <2>6. part = "credentials" => Credential!TypeOK
    BY DEF ServicesInv, CredentialInv
  <2>7. part = "extensions" => Extension!TypeOK
    BY DEF ServicesInv, ExtensionInv
  <2>8. part = "rag" => Rag!TypeOK
    BY DEF ServicesInv, RagInv
  <2>9. part = "retrieval" => Retrieve!TypeOK
    BY DEF ServicesInv, RetrieveInv
  <2>10. part = "client" => Vertex!TypeOK
    BY DEF ServicesInv, VertexInv
  <2>11. part = "pools" => Pool!TypeOK
    BY DEF ServicesInv, PoolInv
  <2>12. part = "auth" => Auth!TypeOK
    BY DEF ServicesInv, AuthInv
  <2>13. part = "states" => State!TypeOK
    BY DEF ServicesInv, StateInv
  <2>14. part = "steps" => Llm!TypeOK
    BY DEF ServicesInv, LlmInv
  <2> QED
    BY <2>1, <2>2, <2>3, <2>4, <2>5, <2>6, <2>7, <2>8, <2>9, <2>10, <2>11, <2>12, <2>13, <2>14 DEF ServicesTypeOK
<1>2. MetricsSound
  BY MetricsImplied DEF ServicesInv, MetricsInv, MetricsSound
<1>3. PromptsSound
  BY DEF ServicesInv, PromptInv, PromptsSound
<1>4. SessionsSound
  <2>1. part = "sessions" => Session!CopiesAreSubsequences /\ Session!SharedStateIsCurrent
    BY DEF ServicesInv, SessionInv
  <2>2. part = "states" => State!ClashesBetweenContexts /\ State!PendingIsLastSet
    BY DEF ServicesInv, StateInv
  <2> QED
    BY <2>1, <2>2 DEF SessionsSound
<1>5. ArtifactsKept
  <2>1. part = "artifacts" =>
          /\ Artifact!SavesMakeNewVersions("memory")
          /\ Artifact!LoadsGiveTheLatest /\ Artifact!ListingsAreComplete
    BY ArtifactsImplied DEF ServicesInv
  <2>2. part = "rag" => Rag!BatchesDeleteInOrder /\ Rag!BatchesImportOnce /\ Rag!WaitedForIsPending
    BY DEF ServicesInv, RagInv
  <2>3. part = "retrieval" => Retrieve!MemoriesOfDocuments
    BY DEF ServicesInv, RetrieveInv
  <2> QED
    BY <2>1, <2>2, <2>3 DEF ArtifactsKept
<1>6. RegistrySound
  <2>1. part = "registry" => Registry!CacheBounded /\ Registry!CacheIsCurrentOrReplaced
    BY DEF ServicesInv, RegistryInv
  <2>2. part = "extensions" => Extension!CachedSpecBelongs /\ Extension!ConfigsKeptApart
    BY DEF ServicesInv, ExtensionInv
  <2>3. part = "client" => Vertex!ClosedInOrder /\ Vertex!LeaksWhatItLeaves /\ Vertex!HealthIsBeingBuilt
    BY DEF ServicesInv, VertexInv
  <2> QED
    BY <2>1, <2>2, <2>3 DEF RegistrySound
<1>7. CredentialsSound
  <2>1. part = "credentials" => Credential!CodeSentOnce /\ Credential!ExpiredOnlyUnrefreshed
    BY DEF ServicesInv, CredentialInv
  <2>2. part = "auth" => Auth!RequestsHaveNoNewURI /\ Auth!StoredAsAnswered
    BY DEF ServicesInv, AuthInv
  <2>3. part = "pools" => Pool!OneOwner /\ Pool!DirtIsLeft /\ Pool!OutputEndsWithOwn
    BY DEF ServicesInv, PoolInv
  <2> QED
    BY <2>1, <2>2, <2>3 DEF CredentialsSound
<1>8. StepsInOrder
  BY DEF ServicesInv, LlmInv, StepsInOrder
<1> QED
  BY <1>1, <1>2, <1>3, <1>4, <1>5, <1>6, <1>7, <1>8

(* The invariant holds along every behaviour. *)
LEMMA ServicesAlways == Spec => []ServicesInv
BY ServicesStart, ServicesInductive, PTL DEF Spec

(* The variables of each of the fourteen services always have their types. *)
THEOREM ServicesAreTyped == Spec => []ServicesTypeOK
BY ServicesAlways, ServicesImplied, PTL

(* metrics.go: no reader is in while a writer writes; the collector stops  *)
(* only when a reader of metrics asks again for the read lock it holds,    *)
(* behind a writer; and when nothing runs, what failed was counted twice. *)
THEOREM MetricsAreSound == Spec => []MetricsSound
BY ServicesAlways, ServicesImplied, PTL

(* service.go of the prompts: two prompts have one name only when one was   *)
(* updated or the calls that made them overlapped, and a version is one of *)
(* a prompt that was stored or is about to be. *)
THEOREM PromptsAreSound == Spec => []PromptsSound
BY ServicesAlways, ServicesImplied, PTL

(* in_memory_service.go, session_state.go: the copies of a session show    *)
(* parts of its one history; callers touch the map of one session at once  *)
(* only through different contexts; pending is what was last set. *)
THEOREM SessionsAreSound == Spec => []SessionsSound
BY ServicesAlways, ServicesImplied, PTL

(* artifact/in_memory.go, rag/files.go, retrieval.go: each saved version   *)
(* stays; a batch is done in order and starts nothing twice; memories are  *)
(* those of documents. *)
THEOREM ArtifactsAreKept == Spec => []ArtifactsKept
BY ServicesAlways, ServicesImplied, PTL

(* registry.go, extension/service.go, client.go: the cache of models is    *)
(* bounded and current, a specification is that of its extension, and      *)
(* services close in order. *)
THEOREM RegistryIsSound == Spec => []RegistrySound
BY ServicesAlways, ServicesImplied, PTL

(* credential_manager.go, buffer_pool.go: an authorization code is sent    *)
(* once, an expired token is used only when it could not be renewed, and a *)
(* pooled object has one owner. *)
THEOREM CredentialsAreSound == Spec => []CredentialsSound
BY ServicesAlways, ServicesImplied, PTL

(* llm_flow.go: a step follows only events that left the run open, and the *)
(* answer of the model is heard once. *)
THEOREM StepsAreInOrder == Spec => []StepsInOrder
BY ServicesAlways, ServicesImplied, PTL
=============================================================================
