----------------------------- MODULE FlowProofs -----------------------------
(***************************************************************************)
(* Machine-checked theorems about the flows of one invocation for every    *)
(* value of their constants.  The variables of each flow are w1 to w12 in  *)
(* the order in which its module declares them.                            *)
(***************************************************************************)
EXTENDS Flows, SequencesExt, FiniteSetTheorems, WellFoundedInduction, TLAPS

-----------------------------------------------------------------------------
(* Numbers and sequences.                                                  *)

(* The bounds are natural numbers. *)
LEMMA Bounds == MaxTurns \in Nat /\ MaxChunks \in Nat /\ MaxEvents \in Nat
<1>1. {MaxTurns, MaxChunks, MaxEvents} \subseteq Nat
  BY FlowsAssumption
<1> QED
  BY <1>1

(* A set of natural numbers that is not empty has a least element. *)
LEMMA LeastExists ==
  ASSUME NEW S, S \subseteq Nat, S # {}
  PROVE  \E i \in S : \A j \in S : i <= j
<1> DEFINE Below == {0 .. i : i \in S}
<1>1. IsWellFoundedOn(StrictSubsetOrdering(Nat), FiniteSubsetsOf(Nat))
  BY FS_StrictSubsetOrderingWellFounded
<1>2. ASSUME NEW i \in S
      PROVE  0 .. i \in FiniteSubsetsOf(Nat)
  <2>1. IsFiniteSet(0 .. i)
    BY FS_Interval
  <2> QED
    BY <2>1 DEF FiniteSubsetsOf
<1>3. PICK B \in Below : \A C \in Below : ~(<<C, B>> \in StrictSubsetOrdering(Nat))
  <2>1. Below \subseteq FiniteSubsetsOf(Nat) /\ Below # {}
    BY <1>2
  <2> HIDE DEF Below
  <2> QED
    BY <1>1, <2>1, WFMin
<1>4. PICK i \in S : B = 0 .. i
  BY <1>3
<1>5. ASSUME NEW j \in S
      PROVE  i <= j
  <2>1. <<0 .. j, 0 .. i>> \notin StrictSubsetOrdering(Nat)
    BY <1>3, <1>4
  <2>2. CASE j < i
    <3>1. 0 .. j \subseteq 0 .. i /\ i \in 0 .. i /\ i \notin 0 .. j
      BY <2>2
    <3>2. 0 .. j \in SUBSET Nat /\ 0 .. i \in SUBSET Nat
      OBVIOUS
    <3> QED
      BY <2>1, <3>1, <3>2 DEF StrictSubsetOrdering
  <2> QED
    BY <2>2
<1> QED
  BY <1>5

(* What holds of 0, and of k + 1 with k, holds up to n. *)
LEMMA Upwards0 ==
  ASSUME NEW n \in Nat, NEW S, 0 \in S, \A k \in 0 .. n - 1 : k \in S => k + 1 \in S
  PROVE  0 .. n \subseteq S
<1> DEFINE Rest == (0 .. n) \ S
<1>1. SUFFICES ASSUME Rest # {} PROVE FALSE
  OBVIOUS
<1>2. PICK m \in Rest : \A k \in Rest : m <= k
  <2>1. Rest \subseteq Nat
    OBVIOUS
  <2> HIDE DEF Rest
  <2> QED
    BY <1>1, <2>1, LeastExists
<1>3. m \in 0 .. n /\ m \notin S /\ m # 0
  BY <1>2
<1>4. m - 1 \in 0 .. n - 1 /\ m - 1 + 1 = m
  BY <1>3
<1>5. m - 1 \in S
  BY <1>2, <1>4
<1> QED
  BY <1>3, <1>4, <1>5

(* f collects the first n sequences of ss. *)
Collects(f, ss, n) ==
  f = [i \in 1 .. n |-> IF i = 1 THEN ss[i] ELSE f[i - 1] \o ss[i]]

(* Sequences can be collected. *)
LEMMA CollectsExists ==
  ASSUME NEW ss, NEW n \in Nat
  PROVE  \E f : Collects(f, ss, n)
<1> DEFINE Good == {k \in Nat : \E f : Collects(f, ss, k)}
<1>1. 0 \in Good
  <2>1. Collects([i \in 1 .. 0 |-> 0], ss, 0)
    BY DEF Collects
  <2> QED
    BY <2>1
<1>2. ASSUME NEW m \in 0 .. n - 1, m \in Good
      PROVE  m + 1 \in Good
  <2>1. PICK f : Collects(f, ss, m)
    BY <1>2
  <2>2. PICK g : g = [i \in 1 .. m + 1 |-> IF i = 1 THEN ss[i] ELSE f[i - 1] \o ss[i]]
    OBVIOUS
  <2>3. ASSUME NEW i \in 1 .. m
        PROVE  g[i] = f[i]
    <3>1. i \in 1 .. m + 1
      OBVIOUS
    <3>2. g[i] = IF i = 1 THEN ss[i] ELSE f[i - 1] \o ss[i]
      BY <2>2, <3>1
    <3> QED
      BY <2>1, <3>2, Zenon DEF Collects
  <2>4. ASSUME NEW i \in 1 .. m + 1
        PROVE  g[i] = IF i = 1 THEN ss[i] ELSE g[i - 1] \o ss[i]
    <3>1. CASE i = 1
      BY <2>2, <3>1
    <3>2. CASE i # 1
      <4>1. i - 1 \in 1 .. m
        BY <3>2
      <4>2. g[i - 1] = f[i - 1]
        BY <2>3, <4>1
      <4> QED
        BY <2>2, <3>2, <4>2
    <3> QED
      BY <3>1, <3>2
  <2>5. g = [i \in 1 .. m + 1 |-> IF i = 1 THEN ss[i] ELSE g[i - 1] \o ss[i]]
    BY <2>2, <2>4
  <2>6. Collects(g, ss, m + 1)
    BY <2>5 DEF Collects
  <2> QED
    BY <2>6
<1> HIDE DEF Good
<1>3. 0 .. n \subseteq Good
  BY <1>1, <1>2, Upwards0
<1> QED
  BY <1>3 DEF Good

(* Collected(ss, g): g[k] is what the first k sequences of ss give.        *)
Collected(ss, g) ==
  g[0] = <<>> /\ \A k \in 1 .. Len(ss) : g[k] = g[k - 1] \o ss[k]

(* Sequences of a kind are collected one by one, to one of that kind. *)
LEMMA FlattenIs ==
  ASSUME NEW T, NEW ss \in Seq(Seq(T))
  PROVE  \E g \in [0 .. Len(ss) -> Seq(T)] : Collected(ss, g) /\ FlattenSeq(ss) = g[Len(ss)]
<1>n. Len(ss) \in Nat /\ \A k \in 1 .. Len(ss) : ss[k] \in Seq(T)
  OBVIOUS
<1>1. CASE Len(ss) = 0
  <2>1. PICK g : g = [k \in {0} |-> <<>>]
    OBVIOUS
  <2>2. g \in [0 .. Len(ss) -> Seq(T)] /\ g[0] = <<>> /\ ss = <<>>
    BY <1>1, <2>1
  <2>3. FlattenSeq(ss) = ss
    BY <1>1 DEF FlattenSeq
  <2> QED
    BY <1>1, <2>2, <2>3 DEF Collected
<1>2. CASE Len(ss) # 0
  <2> DEFINE h == CHOOSE f : f = [i \in 1 .. Len(ss) |-> IF i = 1 THEN ss[i] ELSE f[i - 1] \o ss[i]]
  <2>1. Collects(h, ss, Len(ss))
    BY <1>n, CollectsExists DEF Collects
  <2>2. FlattenSeq(ss) = h[Len(ss)]
    BY <1>2 DEF FlattenSeq
  <2> HIDE DEF h
  <2>3. PICK g : g = [k \in 0 .. Len(ss) |-> IF k = 0 THEN <<>> ELSE h[k]]
    OBVIOUS
  <2>4. g[0] = <<>> /\ \A k \in 1 .. Len(ss) : g[k] = h[k]
    BY <1>n, <2>3
  <2>5. ASSUME NEW k \in 1 .. Len(ss)
        PROVE  h[k] = IF k = 1 THEN ss[k] ELSE h[k - 1] \o ss[k]
    BY <2>1, Zenon DEF Collects
  <2>6. ASSUME NEW k \in 1 .. Len(ss)
        PROVE  g[k] = g[k - 1] \o ss[k]
    <3>1. CASE k = 1
      <4>1. g[k - 1] = <<>> /\ g[k] = ss[k]
        BY <2>4, <2>5, <3>1
      <4> QED
        BY <1>n, <4>1
    <3>2. CASE k # 1
      <4>1. k - 1 \in 1 .. Len(ss)
        BY <1>n, <3>2
      <4> QED
        BY <2>4, <2>5, <3>2, <4>1
    <3> QED
      BY <3>1, <3>2
  <2>7. g \in [0 .. Len(ss) -> Seq(T)]
    <3> DEFINE Good == {k \in 0 .. Len(ss) : g[k] \in Seq(T)}
    <3>1. 0 \in Good
      <4>1. 0 \in 0 .. Len(ss) /\ <<>> \in Seq(T)
        BY <1>n
      <4> QED
        BY <2>4, <4>1
    <3>2. ASSUME NEW k \in 0 .. Len(ss) - 1, k \in Good
          PROVE  k + 1 \in Good
      <4>1. k + 1 \in 1 .. Len(ss) /\ (k + 1) - 1 = k
        BY <1>n
      <4>2. g[k + 1] = g[k] \o ss[k + 1]
        BY <2>6, <4>1
      <4>3. g[k] \in Seq(T) /\ ss[k + 1] \in Seq(T)
        BY <1>n, <3>2, <4>1
      <4>4. g[k + 1] \in Seq(T)
        BY <4>2, <4>3
      <4> QED
        BY <4>1, <4>4
    <3> HIDE DEF Good
    <3>3. 0 .. Len(ss) \subseteq Good
      BY <1>n, <3>1, <3>2, Upwards0
    <3>4. \A k \in 0 .. Len(ss) : g[k] \in Seq(T)
      BY <3>3 DEF Good
    <3> QED
      BY <2>3, <3>4
  <2>8. FlattenSeq(ss) = g[Len(ss)]
    BY <1>n, <1>2, <2>2, <2>4
  <2> QED
    BY <2>4, <2>6, <2>7, <2>8 DEF Collected
<1> QED
  BY <1>1, <1>2

(* One more sequence comes last. *)
LEMMA FlattenAppend ==
  ASSUME NEW T, NEW ss \in Seq(Seq(T)), NEW s \in Seq(T)
  PROVE  /\ FlattenSeq(Append(ss, s)) = FlattenSeq(ss) \o s
         /\ FlattenSeq(ss) \in Seq(T)
<1>1. PICK tt : tt = Append(ss, s)
  OBVIOUS
<1>2. /\ tt \in Seq(Seq(T)) /\ Len(ss) \in Nat /\ Len(tt) = Len(ss) + 1
      /\ tt[Len(tt)] = s /\ \A k \in 1 .. Len(ss) : tt[k] = ss[k]
  BY <1>1
<1>3. PICK g \in [0 .. Len(ss) -> Seq(T)] : Collected(ss, g) /\ FlattenSeq(ss) = g[Len(ss)]
  BY FlattenIs
<1>4. PICK h \in [0 .. Len(tt) -> Seq(T)] : Collected(tt, h) /\ FlattenSeq(tt) = h[Len(tt)]
  BY <1>2, FlattenIs
<1> DEFINE Good == {k \in 0 .. Len(ss) : g[k] = h[k]}
<1>5. 0 \in Good
  BY <1>2, <1>3, <1>4 DEF Collected
<1>6. ASSUME NEW k \in 0 .. Len(ss) - 1, k \in Good
      PROVE  k + 1 \in Good
  <2>1. k + 1 \in 1 .. Len(ss) /\ k + 1 \in 1 .. Len(tt) /\ (k + 1) - 1 = k
    BY <1>2
  <2>2. g[k + 1] = g[k] \o ss[k + 1]
    BY <1>3, <2>1 DEF Collected
  <2>3. h[k + 1] = h[k] \o tt[k + 1]
    BY <1>4, <2>1 DEF Collected
  <2>4. g[k] = h[k] /\ k + 1 \in 0 .. Len(ss)
    BY <1>2, <1>6
  <2>5. g[k + 1] = h[k + 1]
    BY <1>2, <2>1, <2>2, <2>3, <2>4
  <2> QED
    BY <2>4, <2>5
<1> HIDE DEF Good
<1>7. 0 .. Len(ss) \subseteq Good
  BY <1>2, <1>5, <1>6, Upwards0
<1>8. g[Len(ss)] = h[Len(ss)]
  <2>1. Len(ss) \in 0 .. Len(ss)
    BY <1>2
  <2> QED
    BY <1>7, <2>1 DEF Good
<1>9. h[Len(tt)] = h[Len(ss)] \o s
  <2>1. Len(tt) \in 1 .. Len(tt) /\ Len(tt) - 1 = Len(ss)
    BY <1>2
  <2> QED
    BY <1>2, <1>4, <2>1 DEF Collected
<1> QED
  BY <1>1, <1>2, <1>3, <1>4, <1>8, <1>9

(* Sequences of one element each give the sequence of their elements. *)
LEMMA FlattenSingles ==
  ASSUME NEW T, NEW s \in Seq(T)
  PROVE  FlattenSeq([i \in DOMAIN s |-> <<s[i]>>]) = s
<1>1. PICK ss : ss = [i \in DOMAIN s |-> <<s[i]>>]
  OBVIOUS
<1>2. ss \in Seq(Seq(T)) /\ Len(ss) = Len(s) /\ Len(s) \in Nat /\ \A k \in 1 .. Len(s) : ss[k] = <<s[k]>>
  <2>1. Len(s) \in Nat /\ DOMAIN s = 1 .. Len(s) /\ \A k \in 1 .. Len(s) : s[k] \in T
    OBVIOUS
  <2>2. \A k \in 1 .. Len(s) : ss[k] = <<s[k]>> /\ ss[k] \in Seq(T)
    BY <1>1, <2>1
  <2>3. DOMAIN ss = 1 .. Len(s) /\ ss = [k \in 1 .. Len(s) |-> ss[k]]
    BY <1>1, <2>1
  <2>4. ss \in [1 .. Len(s) -> Seq(T)]
    BY <2>2, <2>3
  <2>5. ss \in Seq(Seq(T)) /\ Len(ss) = Len(s)
    BY <2>1, <2>4
  <2> QED
    BY <2>1, <2>2, <2>5
<1>3. PICK g \in [0 .. Len(ss) -> Seq(T)] : Collected(ss, g) /\ FlattenSeq(ss) = g[Len(ss)]
  BY <1>2, FlattenIs
<1> DEFINE Good == {k \in 0 .. Len(s) : Len(g[k]) = k /\ \A j \in 1 .. k : g[k][j] = s[j]}
<1>4. 0 \in Good
  BY <1>2, <1>3 DEF Collected
<1>5. ASSUME NEW k \in 0 .. Len(s) - 1, k \in Good
      PROVE  k + 1 \in Good
  <2>1. k + 1 \in 1 .. Len(ss) /\ (k + 1) - 1 = k /\ k + 1 \in 0 .. Len(s) /\ k + 1 \in 1 .. Len(s)
    <3>1. Len(ss) = Len(s) /\ Len(s) \in Nat
      BY <1>2
    <3> QED
      BY <3>1
  <2>2. g[k + 1] = g[k] \o <<s[k + 1]>>
    BY <1>2, <1>3, <2>1 DEF Collected
  <2>3. g[k] \in Seq(T) /\ Len(g[k]) = k /\ \A j \in 1 .. k : g[k][j] = s[j]
    BY <1>2, <1>3, <1>5
  <2>4. s[k + 1] \in T
    BY <2>1
  <2>5. Len(g[k + 1]) = k + 1 /\ \A j \in 1 .. k + 1 : g[k + 1][j] = s[j]
    BY <2>2, <2>3, <2>4
  <2> QED
    BY <2>1, <2>5
<1> HIDE DEF Good
<1>6. 0 .. Len(s) \subseteq Good
  BY <1>2, <1>4, <1>5, Upwards0
<1>7. Len(s) \in Good
  BY <1>2, <1>6
<1>8. g[Len(s)] \in Seq(T) /\ Len(g[Len(s)]) = Len(s) /\ \A j \in 1 .. Len(s) : g[Len(s)][j] = s[j]
  BY <1>2, <1>3, <1>7 DEF Good
<1>9. g[Len(s)] = s
  BY <1>8
<1> QED
  BY <1>1, <1>2, <1>3, <1>9

(* A sequence that is not empty leaves the whole not empty. *)
LEMMA FlattenSome ==
  ASSUME NEW T, NEW ss \in Seq(Seq(T)), NEW i \in DOMAIN ss, ss[i] # <<>>
  PROVE  FlattenSeq(ss) # <<>>
<1>1. PICK g \in [0 .. Len(ss) -> Seq(T)] : Collected(ss, g) /\ FlattenSeq(ss) = g[Len(ss)]
  BY FlattenIs
<1>2. Len(ss) \in Nat /\ i \in 1 .. Len(ss) /\ \A k \in 1 .. Len(ss) : ss[k] \in Seq(T)
  OBVIOUS
<1>n. PICK n \in Nat : n = Len(ss)
  BY <1>2
<1>g. /\ \A k \in 1 .. n : g[k] = g[k - 1] \o ss[k]
      /\ \A k \in 0 .. n : g[k] \in Seq(T)
      /\ \A k \in 1 .. n : ss[k] \in Seq(T)
      /\ i \in 1 .. n
  BY <1>1, <1>2, <1>n DEF Collected
<1> DEFINE Good == {k \in 0 .. n : k >= i => g[k] # <<>>}
<1>3. 0 \in Good
  BY <1>g
<1>4. ASSUME NEW k \in 0 .. n - 1, k \in Good
      PROVE  k + 1 \in Good
  <2>1. k + 1 \in 1 .. n /\ (k + 1) - 1 = k /\ k + 1 \in 0 .. n /\ k \in 0 .. n
    OBVIOUS
  <2>2. g[k + 1] = g[k] \o ss[k + 1]
    BY <1>g, <2>1
  <2>3. g[k] \in Seq(T) /\ ss[k + 1] \in Seq(T)
    BY <1>g, <2>1
  <2>4. SUFFICES ASSUME k + 1 >= i PROVE g[k + 1] # <<>>
    BY <2>1
  <2>5. g[k] # <<>> \/ ss[k + 1] # <<>>
    <3>1. CASE k >= i
      BY <1>4, <3>1
    <3>2. CASE k + 1 = i
      BY <3>2
    <3> QED
      BY <1>g, <2>1, <2>4, <3>1, <3>2
  <2>6. g[k] \o ss[k + 1] # <<>>
    <3> HIDE DEF Good
    <3>1. PICK a \in Seq(T), b \in Seq(T) : a = g[k] /\ b = ss[k + 1]
      BY <2>3
    <3>2. a # <<>> \/ b # <<>>
      BY <2>5, <3>1
    <3>3. a \o b # <<>>
      BY <3>2
    <3> QED
      BY <3>1, <3>3
  <2> QED
    BY <2>2, <2>6
<1> HIDE DEF Good
<1>5. 0 .. n \subseteq Good
  BY <1>3, <1>4, Upwards0
<1>6. n \in Good
  BY <1>5
<1> QED
  BY <1>1, <1>n, <1>g, <1>6 DEF Good

(* What is collected has the type of its pieces. *)
LEMMA FlattenType ==
  ASSUME NEW T, NEW ss \in Seq(Seq(T))
  PROVE  FlattenSeq(ss) \in Seq(T)
<1>1. PICK g \in [0 .. Len(ss) -> Seq(T)] : FlattenSeq(ss) = g[Len(ss)]
  BY FlattenIs
<1>2. Len(ss) \in 0 .. Len(ss)
  OBVIOUS
<1> QED
  BY <1>1, <1>2

(* A function on the indices of a sequence is a sequence as long. *)
LEMMA SequencesType ==
  ASSUME NEW T, NEW s, Len(s) \in Nat, NEW f,
         f = [i \in 1 .. Len(s) |-> f[i]], \A i \in 1 .. Len(s) : f[i] \in T
  PROVE  f \in Seq(T) /\ Len(f) = Len(s)
<1>1. PICK n \in Nat : n = Len(s)
  OBVIOUS
<1>2. f = [i \in 1 .. n |-> f[i]] /\ \A i \in 1 .. n : f[i] \in T
  BY <1>1
<1>3. f \in [1 .. n -> T]
  BY <1>2
<1>4. f \in Seq(T) /\ Len(f) = n
  BY <1>3
<1> QED
  BY <1>1, <1>4

(* The operator is the same in every module that has it. *)
LEMMA FlattenContent == ASSUME NEW ss PROVE Content!FlattenSeq(ss) = FlattenSeq(ss)
BY DEF Content!FlattenSeq, FlattenSeq

(* The same of the models. *)
LEMMA FlattenModel == ASSUME NEW ss PROVE Model!FlattenSeq(ss) = FlattenSeq(ss)
BY DEF Model!FlattenSeq, FlattenSeq

-----------------------------------------------------------------------------
(* The live connection.                                                    *)

LiveInv == Live!TypeOK /\ Live!InOrder /\ Live!SendersHoldMutex /\ Live!NoSendOnClosed

(* The initial state of the live connection. *)
LEMMA LiveStart ==
  ASSUME Live!Init
  PROVE  LiveInv
<1> USE FlowsAssumption DEF Live!Init
<1>1. Live!TypeOK
  <2>1. w5 \in Live!Senders
    BY DEF Live!Senders
  <2>2. w7 \in BOOLEAN /\ w12 \in BOOLEAN
    OBVIOUS
  <2> QED
    BY <2>1, <2>2 DEF Live!TypeOK
<1>2. Live!InOrder
  BY DEF Live!InOrder, Live!QueueInOrder, Live!InHand, Live!Given, Live!None
<1>3. Live!SendersHoldMutex /\ Live!NoSendOnClosed
  BY DEF Live!SendersHoldMutex, Live!NoSendOnClosed
<1> QED
  BY <1>1, <1>2, <1>3 DEF LiveInv

(* What the sender may be handed. *)
LEMMA SenderType ==
  ASSUME NEW at \in Live!Kinds \cup {"get", "check", "done"},
         NEW req \in Live!Requests \cup {Live!None}, Live!SenderGoes(at, req)
  PROVE  w5' \in Live!Senders
BY DEF Live!SenderGoes, Live!Senders

(* Each step of the live connection keeps its types. *)
LEMMA LiveTypes ==
  ASSUME Live!TypeOK, Live!InOrder, Live!Next
  PROVE  Live!TypeOK'
<1> USE DEF Live!connVars, Live!clientVars
<1>q. w1 \in Seq(Live!Requests)
  BY DEF Live!TypeOK
<1>h. w8 \in Seq(Live!Requests) /\ w2 \in Seq(Live!Requests)
  BY DEF Live!TypeOK
<1>g. w10 \in Seq(Live!Generations)
  BY DEF Live!TypeOK
<1>s. /\ w5.at \in Live!Kinds \cup {"get", "check", "done"}
      /\ w5.req \in Live!Requests \cup {Live!None}
  BY DEF Live!TypeOK, Live!Senders
<1>1. ASSUME NEW kind \in Live!Kinds, Live!Put(kind)
      PROVE  Live!TypeOK'
  <2>1. Live!Request(kind) \in Live!Requests
    BY DEF Live!Request, Live!Counts, Live!Requests, Live!TypeOK
  <2>2. w2' \in Seq(Live!Requests)
    <3>1. w2' = w2 \/ w2' = Append(w2, Live!Request(kind))
      BY <1>1 DEF Live!Put, Live!Accept
    <3> QED
      BY <1>h, <2>1, <3>1
  <2>3. w1' \in Seq(Live!Requests) /\ Len(w1') <= QueueSize
    <3>1. Len(w1) <= QueueSize /\ QueueSize \in Nat
      BY FlowsAssumption DEF Live!TypeOK
    <3> QED
      BY <1>1, <1>q, <2>1, <3>1 DEF Live!Put
  <2>4. w3' \in 0 .. MaxRequests
    BY FlowsAssumption, <1>1 DEF Live!Put, Live!TypeOK
  <2>5. UNCHANGED <<w4, w5, w6, w7, w8, w9, w10, w11, w12>>
    BY <1>1 DEF Live!Put
  <2> QED
    BY <2>2, <2>3, <2>4, <2>5 DEF Live!TypeOK
<1>2. ASSUME NEW how \in {"cancelled", "deadline"}, Live!EndContext(how)
      PROVE  Live!TypeOK'
  BY <1>2 DEF Live!EndContext, Live!TypeOK
<1>3. CASE Live!Get
  <2>1. w5' \in Live!Senders
    BY <1>3, <1>q, SenderType DEF Live!Get
  <2>2. w1' \in Seq(Live!Requests) /\ Len(w1') <= QueueSize
    <3>1. Len(w1) <= QueueSize /\ QueueSize \in Nat
      BY FlowsAssumption DEF Live!TypeOK
    <3> QED
      BY <1>3, <1>q, <3>1 DEF Live!Get
  <2> QED
    BY <1>3, <2>1, <2>2 DEF Live!Get, Live!TypeOK
<1>4. CASE Live!Check
  <2>1. w5' \in Live!Senders
    BY <1>4, <1>s, SenderType DEF Live!Check, Live!InOrder, Live!Requests
  <2> QED
    BY <1>4, <2>1 DEF Live!Check, Live!TypeOK
<1>5. CASE Live!SendRealtime
  <2>1. w5' \in Live!Senders
    BY <1>5, SenderType DEF Live!SendRealtime
  <2> QED
    BY <1>5, <2>1 DEF Live!SendRealtime, Live!TypeOK
<1>6. CASE Live!SendContent
  <2>1. w5' \in Live!Senders
    BY <1>6, SenderType DEF Live!SendContent
  <2>2. w5.req \in Live!Requests
    BY <1>6, <1>s DEF Live!SendContent, Live!InOrder, Live!None
  <2>3. w8' \in Seq(Live!Requests)
    <3>1. w8' = w8 \/ w8' = Append(w8, w5.req)
      BY <1>6, Zenon DEF Live!SendContent
    <3> QED
      BY <1>h, <2>2, <3>1
  <2>4. [at |-> "stream", left |-> MaxStream] \in Live!Generations
    BY FlowsAssumption DEF Live!Generations
  <2>5. w10' \in Seq(Live!Generations) /\ w6' \in 0 .. Len(w10')
    BY <1>6, <1>g, <2>4, SMTT(30) DEF Live!SendContent
  <2> QED
    BY <1>6, <2>1, <2>3, <2>5 DEF Live!SendContent, Live!TypeOK
<1>7. CASE Live!Close
  <2>1. w5' \in Live!Senders
    BY <1>7, SenderType DEF Live!Close
  <2>2. w7' \in BOOLEAN
    BY <1>7 DEF Live!Close
  <2> QED
    BY <1>7, <2>1, <2>2 DEF Live!Close, Live!TypeOK
<1>8. ASSUME NEW g \in DOMAIN w10, Live!Lock(g)
      PROVE  Live!TypeOK'
  <2>1. w10[g] \in Live!Generations
    BY <1>g
  <2>2. PICK next \in Live!Generations : w10' = [w10 EXCEPT ![g] = next]
    <3>1. PICK last \in BOOLEAN :
            /\ w10[g].left = 0 => last
            /\ w10' = [w10 EXCEPT ![g] =
                 [at |-> IF w7 THEN (IF last THEN "done" ELSE "stream")
                         ELSE (IF last THEN "sendLast" ELSE "send"),
                  left |-> IF last THEN 0 ELSE w10[g].left - 1]]
      BY <1>8 DEF Live!Lock
    <3> DEFINE at == IF w7 THEN (IF last THEN "done" ELSE "stream")
                     ELSE (IF last THEN "sendLast" ELSE "send")
               left == IF last THEN 0 ELSE w10[g].left - 1
    <3>2. at \in {"stream", "send", "sendLast", "done"} /\ left \in 0 .. MaxStream
      BY FlowsAssumption, <2>1, <3>1 DEF Live!Generations
    <3>3. [at |-> at, left |-> left] \in Live!Generations
      BY <3>2 DEF Live!Generations
    <3> QED
      BY <3>1, <3>3
  <2>3. w10' \in Seq(Live!Generations) /\ Len(w10') = Len(w10)
    BY <1>g, <2>2
  <2>4. w6' \in 0 .. Len(w10')
    BY <1>8, <1>g, <2>3 DEF Live!Lock, Live!TypeOK
  <2> QED
    BY <1>8, <2>3, <2>4 DEF Live!Lock, Live!TypeOK
<1>9. ASSUME NEW g \in DOMAIN w10, Live!Respond(g)
      PROVE  Live!TypeOK'
  <2>1. w10[g] \in Live!Generations
    BY <1>g
  <2>2. PICK next \in Live!Generations : w10' = [w10 EXCEPT ![g] = next]
    BY <1>9, <2>1 DEF Live!Respond, Live!Generations
  <2>3. w10' \in Seq(Live!Generations) /\ Len(w10') = Len(w10)
    BY <1>g, <2>2
  <2>4. w12' \in BOOLEAN
    BY <1>9 DEF Live!Respond, Live!TypeOK
  <2>5. w9' \in 0 .. ResponseSize /\ w6' \in 0 .. Len(w10')
    BY FlowsAssumption, <1>9, <2>3, SMTT(40) DEF Live!Respond, Live!TypeOK
  <2> QED
    BY <1>9, <2>3, <2>4, <2>5 DEF Live!Respond, Live!TypeOK
<1>10. CASE Live!Receive \/ Live!Process \/ Live!Wait
  BY <1>10 DEF Live!Receive, Live!Process, Live!Wait, Live!Again, Live!TypeOK
<1> QED
  BY <1>1, <1>2, <1>3, <1>4, <1>5, <1>6, <1>7, <1>8, <1>9, <1>10
  DEF Live!Next, Live!SendStep, Live!Generate

(* The goroutine that is about to send holds the mutex of an open          *)
(* connection. *)
LEMMA LiveMutex ==
  ASSUME Live!TypeOK, Live!SendersHoldMutex, Live!NoSendOnClosed, Live!Next
  PROVE  Live!SendersHoldMutex' /\ Live!NoSendOnClosed'
<1> USE DEF Live!connVars, Live!clientVars
<1>g. w10 \in Seq(Live!Generations) /\ DOMAIN w10 = 1 .. Len(w10)
  BY DEF Live!TypeOK
<1>m. /\ \A g \in DOMAIN w10 : w10[g].at \in {"send", "sendLast"} <=> w6 = g
      /\ w7 => w6 = 0
      /\ ~w12
  BY DEF Live!SendersHoldMutex, Live!NoSendOnClosed
<1>1. CASE UNCHANGED <<w6, w7, w10, w12>>
  BY <1>1 DEF Live!SendersHoldMutex, Live!NoSendOnClosed
<1>2. CASE Live!SendContent
  <2>1. UNCHANGED <<w6, w7, w12>> /\ w6 = 0
    BY <1>2 DEF Live!SendContent
  <2>2. w10' = w10 \/ w10' = Append(w10, [at |-> "stream", left |-> MaxStream])
    BY <1>2 DEF Live!SendContent
  <2>3. \A g \in DOMAIN w10' : w10'[g].at \notin {"send", "sendLast"} /\ g # 0
    BY <1>g, <1>m, <2>1, <2>2, SMTT(30)
  <2> QED
    BY <1>m, <2>1, <2>3 DEF Live!SendersHoldMutex, Live!NoSendOnClosed
<1>3. CASE Live!Close
  BY <1>3, <1>m DEF Live!Close, Live!SendersHoldMutex, Live!NoSendOnClosed
<1>4. ASSUME NEW g \in DOMAIN w10, Live!Lock(g)
      PROVE  Live!SendersHoldMutex' /\ Live!NoSendOnClosed'
  <2>1. /\ DOMAIN w10' = DOMAIN w10 /\ \A h \in DOMAIN w10 : h # g => w10'[h] = w10[h]
        /\ w10'[g].at \in (IF w7 THEN {"done", "stream"} ELSE {"sendLast", "send"})
    BY <1>4, <1>g DEF Live!Lock
  <2>2. w6 = 0 /\ w6' = (IF w7 THEN 0 ELSE g) /\ UNCHANGED <<w7, w12>>
    BY <1>4 DEF Live!Lock
  <2>3. \A h \in DOMAIN w10' : w10'[h].at \in {"send", "sendLast"} <=> w6' = h
    BY <1>g, <1>m, <2>1, <2>2
  <2> QED
    BY <1>m, <2>2, <2>3 DEF Live!SendersHoldMutex, Live!NoSendOnClosed
<1>5. ASSUME NEW g \in DOMAIN w10, Live!Respond(g)
      PROVE  Live!SendersHoldMutex' /\ Live!NoSendOnClosed'
  <2>1. w6 = g /\ g # 0 /\ ~w7
    BY <1>5, <1>g, <1>m DEF Live!Respond
  <2>2. w6' = 0 /\ ~w12' /\ UNCHANGED w7
    BY <1>5, <1>m, <2>1 DEF Live!Respond
  <2>3. DOMAIN w10' = DOMAIN w10 /\ w10'[g].at \in {"done", "stream"}
        /\ \A h \in DOMAIN w10 : h # g => w10'[h] = w10[h]
    BY <1>5, <1>g DEF Live!Respond, Live!Generations
  <2>4. \A h \in DOMAIN w10' : w10'[h].at \notin {"send", "sendLast"} /\ h # 0
    BY <1>g, <1>m, <2>1, <2>3
  <2> QED
    BY <2>1, <2>2, <2>4 DEF Live!SendersHoldMutex, Live!NoSendOnClosed
<1> QED
  BY <1>1, <1>2, <1>3, <1>4, <1>5
  DEF Live!Next, Live!SendStep, Live!Generate, Live!Put, Live!EndContext, Live!Get, Live!Check,
      Live!SendRealtime, Live!Receive, Live!Process, Live!Wait

(* A content that has its place among the accepted keeps it. *)
LEMMA NamedStays ==
  ASSUME NEW kind, Live!TypeOK, Live!Accept(kind) \/ UNCHANGED w2, NEW req, Live!Named(req)
  PROVE  Live!Named(req)'
<1>1. w2 \in Seq(Live!Requests)
  BY DEF Live!TypeOK
<1>2. w2' = w2 \/ w2' = Append(w2, Live!Request(kind))
  BY DEF Live!Accept
<1>3. DOMAIN w2 \subseteq DOMAIN w2' /\ \A k \in DOMAIN w2 : w2'[k] = w2[k]
  BY <1>1, <1>2
<1> QED
  BY <1>3 DEF Live!Named

(* A request that the queue takes goes behind the others. *)
LEMMA PutInOrder ==
  ASSUME Live!TypeOK, Live!QueueInOrder, NEW kind \in Live!Kinds, Live!Accept(kind),
         w1' = Append(w1, Live!Request(kind)), Live!Given' = Live!Given
  PROVE  Live!QueueInOrder'
<1>1. PICK req : req = Live!Request(kind)
  OBVIOUS
<1>2. req.kind = kind /\ req.n = Len(w2) + Live!Counts(kind)
  BY <1>1 DEF Live!Request
<1>3. w1 \in Seq(Live!Requests) /\ w2 \in Seq(Live!Requests)
  BY DEF Live!TypeOK
<1>4. w2' = (IF kind = "content" THEN Append(w2, req) ELSE w2)
  BY <1>1 DEF Live!Accept
<1>5. Len(w2') = req.n /\ Live!Named(req)'
  BY <1>2, <1>3, <1>4 DEF Live!Named, Live!Counts
<1>6. /\ Len(w1') = Len(w1) + 1 /\ w1'[Len(w1) + 1] = req /\ DOMAIN w1' = 1 .. Len(w1) + 1
      /\ \A k \in 1 .. Len(w1) : w1'[k] = w1[k]
  BY <1>1, <1>3
<1>7. DOMAIN w1 = 1 .. Len(w1) /\ Len(w1) \in Nat /\ (w1 = <<>> <=> Len(w1) = 0)
  BY <1>3
<1>8. Live!QueueInOrder!1'
  BY <1>2, <1>5, <1>6, <1>7 DEF Live!QueueInOrder
<1>9. ASSUME NEW k \in DOMAIN w1', k > 1
      PROVE  w1'[k].n = w1'[k - 1].n + Live!Counts(w1'[k].kind)
  BY <1>2, <1>6, <1>7, <1>9 DEF Live!QueueInOrder
<1>10. ASSUME NEW k \in DOMAIN w1'
       PROVE  Live!Named(w1[k])'
  <2>1. CASE k = Len(w1) + 1
    BY <1>5, <1>6, <2>1 DEF Live!Named
  <2>2. CASE k # Len(w1) + 1
    <3>1. PICK old : old = w1[k]
      OBVIOUS
    <3>2. k \in DOMAIN w1 /\ w1'[k] = old /\ Live!Named(old)
      BY <1>6, <1>7, <2>2, <3>1 DEF Live!QueueInOrder
    <3>3. Live!Named(old)'
      BY <3>2, NamedStays
    <3> QED
      BY <3>2, <3>3 DEF Live!Named
  <2> QED
    BY <2>1, <2>2
<1> QED
  BY <1>8, <1>9, <1>10 DEF Live!QueueInOrder

(* A request that the sender takes off the queue is the next in its hands. *)
LEMMA GetInOrder ==
  ASSUME Live!TypeOK, Live!QueueInOrder, w1 # <<>>, w1' = Tail(w1), UNCHANGED <<w2, w8>>,
         Live!Given = Len(w8), Live!SenderGoes("check", Head(w1))
  PROVE  /\ Live!InHand' => w5'.req.n = Live!Given' /\ Live!Named(w5.req)'
         /\ Live!QueueInOrder'
<1>1. w1 \in Seq(Live!Requests) /\ Len(w1) \in Nat \ {0} /\ DOMAIN w1 = 1 .. Len(w1)
  BY DEF Live!TypeOK
<1>2. /\ Len(w1') = Len(w1) - 1 /\ DOMAIN w1' = 1 .. Len(w1) - 1
      /\ \A k \in 1 .. Len(w1) - 1 : w1'[k] = w1[k + 1]
      /\ w1' = <<>> <=> Len(w1) = 1
  <2>1. w1' \in Seq(Live!Requests) /\ Len(w1') = Len(w1) - 1 /\ DOMAIN w1' = 1 .. Len(w1) - 1
    BY <1>1
  <2>2. \A k \in 1 .. Len(w1) - 1 : w1'[k] = w1[k + 1]
    BY <1>1
  <2>3. w1' = <<>> <=> Len(w1') = 0
    BY <2>1, SMTT(30)
  <2> QED
    BY <1>1, <2>1, <2>2, <2>3
<1>3. PICK first : first = w1[1]
  OBVIOUS
<1>4. w5' = [at |-> "check", req |-> first]
  BY <1>1, <1>3 DEF Live!SenderGoes
<1>5. Len(w8) \in Nat /\ \A k \in DOMAIN w1 : w1[k].n \in Nat
  <2>1. w8 \in Seq(Live!Requests)
    BY DEF Live!TypeOK
  <2>2. \A k \in DOMAIN w1 : w1[k] \in Live!Requests
    BY <1>1
  <2> QED
    BY <2>1, <2>2 DEF Live!Requests
<1>6. Live!Given' = Len(w8) + Live!Counts(first.kind)
  BY <1>4, <1>5 DEF Live!Given, Live!InHand, Live!Counts
<1>7. /\ w1[1].n = Len(w8) + Live!Counts(w1[1].kind) /\ w1[Len(w1)].n = Len(w2)
      /\ \A k \in DOMAIN w1 : k > 1 => w1[k].n = w1[k - 1].n + Live!Counts(w1[k].kind)
      /\ \A k \in DOMAIN w1 : Live!Named(w1[k])
  BY DEF Live!QueueInOrder
<1>8. first.n = Live!Given' /\ Live!Named(first)
  BY <1>1, <1>3, <1>6, <1>7
<1>9. Live!InHand' => w5'.req.n = Live!Given' /\ Live!Named(w5.req)'
  BY <1>4, <1>8 DEF Live!Named
<1>10. Live!QueueInOrder!1'
  <2>1. CASE Len(w1) = 1
    BY <1>2, <1>3, <1>7, <1>8, <2>1
  <2>2. CASE Len(w1) > 1
    <3>1. /\ 2 \in DOMAIN w1 /\ Len(w1) - 1 \in 1 .. Len(w1) - 1 /\ 1 \in 1 .. Len(w1) - 1
          /\ Len(w1) - 1 + 1 = Len(w1) /\ w1' # <<>>
      BY <1>1, <1>2, <2>2
    <3>2. w1[2].n = w1[1].n + Live!Counts(w1[2].kind)
      BY <1>7, <3>1
    <3>3. w1'[1] = w1[2] /\ w1'[Len(w1')] = w1[Len(w1)]
      BY <1>2, <3>1
    <3> QED
      BY <1>3, <1>7, <1>8, <3>1, <3>2, <3>3
  <2> QED
    BY <1>1, <2>1, <2>2
<1>11. ASSUME NEW k \in DOMAIN w1', k > 1
       PROVE  w1'[k].n = w1'[k - 1].n + Live!Counts(w1'[k].kind)
  <2>1. k + 1 \in DOMAIN w1 /\ k + 1 > 1 /\ w1'[k] = w1[k + 1] /\ w1'[k - 1] = w1[k]
    BY <1>1, <1>2, <1>11
  <2>2. PICK j \in DOMAIN w1 : j = k + 1 /\ j > 1
    BY <2>1
  <2>3. j - 1 = k /\ w1[j].n = w1[j - 1].n + Live!Counts(w1[j].kind)
    BY <1>2, <1>7, <1>11, <2>2
  <2> QED
    BY <2>1, <2>2, <2>3
<1>12. ASSUME NEW k \in DOMAIN w1'
       PROVE  Live!Named(w1[k])'
  <2>1. k + 1 \in DOMAIN w1 /\ w1'[k] = w1[k + 1]
    BY <1>1, <1>2, <1>12
  <2> QED
    BY <1>7, <2>1 DEF Live!Named
<1> QED
  BY <1>9, <1>10, <1>11, <1>12 DEF Live!QueueInOrder

(* Each step of the live connection leaves what the sender and the queue   *)
(* hold the contents that the connection lacks. *)
LEMMA LiveOrder ==
  ASSUME Live!TypeOK, Live!InOrder, Live!Next
  PROVE  Live!InOrder'
<1> USE DEF Live!connVars, Live!clientVars
<1>h. w8 \in Seq(Live!Requests) /\ w2 \in Seq(Live!Requests)
  BY DEF Live!TypeOK
<1>1. ASSUME NEW kind \in Live!Kinds, Live!Put(kind)
      PROVE  Live!InOrder'
  <2>1. UNCHANGED <<w4, w5, w8>> /\ Live!Given' = Live!Given /\ Live!InHand' = Live!InHand
    BY <1>1 DEF Live!Put, Live!Given, Live!InHand
  <2>2. CASE UNCHANGED <<w1, w2>>
    BY <2>1, <2>2 DEF Live!InOrder, Live!QueueInOrder, Live!Named
  <2>3. CASE w1' = Append(w1, Live!Request(kind)) /\ Live!Accept(kind)
    <3>1. w5.at # "done" => Live!QueueInOrder'
      BY <2>1, <2>3, PutInOrder DEF Live!InOrder
    <3>2. w5.at # "done" /\ Live!InHand => Live!Named(w5.req)'
      <4>1. PICK req : req = w5.req
        OBVIOUS
      <4>2. w5.at # "done" /\ Live!InHand => Live!Named(req)'
        BY <2>3, <4>1, NamedStays DEF Live!InOrder
      <4> QED
        BY <2>1, <4>1, <4>2 DEF Live!Named
    <3>3. w2' = w2 \/ w2' = Append(w2, Live!Request(kind))
      BY <2>3 DEF Live!Accept
    <3>4. \A k \in DOMAIN w8 : k \in DOMAIN w2' /\ w8[k] = w2'[k]
      BY <1>h, <3>3 DEF Live!InOrder
    <3> QED
      BY <2>1, <3>1, <3>2, <3>4 DEF Live!InOrder, Live!Named
  <2> QED
    BY <1>1, <2>2, <2>3 DEF Live!Put
<1>2. ASSUME NEW how \in {"cancelled", "deadline"}, Live!EndContext(how)
      PROVE  Live!InOrder'
  BY <1>2 DEF Live!EndContext, Live!InOrder, Live!QueueInOrder, Live!Named, Live!Given, Live!InHand
<1>3. CASE Live!Get
  <2>1. UNCHANGED <<w2, w4, w8>> /\ w5.at = "get" /\ Live!Given = Len(w8) /\ Live!QueueInOrder
    BY <1>3 DEF Live!Get, Live!Given, Live!InHand, Live!InOrder
  <2>2. CASE w1 # <<>> /\ w1' = Tail(w1) /\ Live!SenderGoes("check", Head(w1))
    <3>1. /\ Live!InHand' => w5'.req.n = Live!Given' /\ Live!Named(w5.req)'
          /\ Live!QueueInOrder'
      BY <2>1, <2>2, GetInOrder
    <3>2. w5'.at = "check" /\ w5'.req \in Live!Requests
      BY <2>2 DEF Live!SenderGoes, Live!TypeOK
    <3> QED
      BY <2>1, <3>1, <3>2 DEF Live!InOrder
  <2>3. CASE w4 = "cancelled" /\ Live!SenderGoes("check", Live!None) /\ UNCHANGED w1
    BY <2>1, <2>3 DEF Live!SenderGoes, Live!None, Live!InOrder, Live!QueueInOrder, Live!Named,
                      Live!Given, Live!InHand
  <2> QED
    BY <1>3, <2>2, <2>3 DEF Live!Get
<1>4. CASE Live!Check
  <2>1. UNCHANGED <<w1, w2, w4, w8>> /\ w5.at = "check"
    BY <1>4 DEF Live!Check
  <2>2. CASE w5' = [at |-> "done", req |-> Live!None]
    BY <2>1, <2>2 DEF Live!InOrder
  <2>3. CASE w4 = "live" /\ w5' = [at |-> w5.req.kind, req |-> w5.req]
    <3>1. w5.req.kind \in {"content", "blob", "close"}
      BY <2>1, <2>3 DEF Live!InOrder, Live!Requests, Live!Kinds
    <3>2. Live!InHand' = Live!InHand /\ Live!Given' = Live!Given
      BY <2>1, <2>3, <3>1 DEF Live!InHand, Live!Given
    <3> QED
      BY <2>1, <2>3, <3>1, <3>2 DEF Live!InOrder, Live!QueueInOrder, Live!Named
  <2> QED
    BY <1>4, <2>2, <2>3 DEF Live!Check, Live!SenderGoes
<1>5. CASE Live!SendRealtime \/ Live!Close
  BY <1>5 DEF Live!SendRealtime, Live!Close, Live!SenderGoes, Live!InOrder
<1>6. CASE Live!SendContent
  <2>1. UNCHANGED <<w1, w2, w4>> /\ w5.at = "content"
    BY <1>6 DEF Live!SendContent
  <2>2. CASE w5' = [at |-> "done", req |-> Live!None] /\ w8' = w8
    BY <2>1, <2>2 DEF Live!InOrder
  <2>3. CASE w5' = [at |-> "get", req |-> Live!None] /\ w8' = Append(w8, w5.req)
    <3>1. Live!InHand /\ Live!Given = Len(w8) + 1 /\ Live!QueueInOrder
      BY <2>1 DEF Live!InOrder, Live!InHand, Live!Given
    <3>2. Len(w8) + 1 \in DOMAIN w2 /\ w2[Len(w8) + 1] = w5.req
      BY <2>1, <3>1 DEF Live!InOrder, Live!Named, Live!InHand
    <3>3. Len(w8') = Len(w8) + 1 /\ \A k \in DOMAIN w8' : k \in DOMAIN w2 /\ w8'[k] = w2[k]
      BY <1>h, <2>3, <3>2 DEF Live!InOrder
    <3>4. Live!Given' = Live!Given /\ ~Live!InHand'
      BY <2>3, <3>1, <3>3 DEF Live!Given, Live!InHand
    <3> QED
      BY <2>1, <2>3, <3>1, <3>3, <3>4 DEF Live!InOrder, Live!QueueInOrder, Live!Named
  <2> QED
    BY <1>6, <2>2, <2>3 DEF Live!SendContent, Live!SenderGoes
<1>7. CASE UNCHANGED <<w1, w2, w4, w5, w8>>
  BY <1>7 DEF Live!InOrder, Live!QueueInOrder, Live!Named, Live!Given, Live!InHand
<1> QED
  BY <1>1, <1>2, <1>3, <1>4, <1>5, <1>6, <1>7
  DEF Live!Next, Live!SendStep, Live!Generate, Live!Lock, Live!Respond,
      Live!Receive, Live!Process, Live!Wait

(* The inductive invariant of the live connection, and what it is for. *)
LEMMA LiveInductive ==
  ASSUME LiveInv, Live!Next
  PROVE  LiveInv'
<1>1. Live!TypeOK' /\ Live!InOrder'
  BY LiveTypes, LiveOrder DEF LiveInv
<1>2. Live!SendersHoldMutex' /\ Live!NoSendOnClosed'
  BY LiveMutex DEF LiveInv
<1> QED
  BY <1>1, <1>2 DEF LiveInv

(* The connection has the accepted contents in order. *)
LEMMA LivePrefix ==
  ASSUME LiveInv
  PROVE  Live!SentIsPrefix
<1>1. w2 \in Seq(Live!Requests) /\ w8 \in Seq(Live!Requests)
  BY DEF LiveInv, Live!TypeOK
<1>2. \A k \in DOMAIN w8 : k \in DOMAIN w2 /\ w8[k] = w2[k]
  BY DEF LiveInv, Live!InOrder
<1>3. Len(w8) <= Len(w2)
  <2>1. CASE Len(w8) = 0
    BY <1>1, <2>1
  <2>2. CASE Len(w8) # 0
    <3>1. Len(w8) \in DOMAIN w8
      BY <1>1, <2>2
    <3> QED
      BY <1>1, <1>2, <3>1
  <2> QED
    BY <2>1, <2>2
<1>4. SubSeq(w8, 1, Len(w8)) = SubSeq(w2, 1, Len(w8))
  BY <1>1, <1>2, <1>3
<1> QED
  BY <1>3, <1>4 DEF Live!SentIsPrefix, Live!IsPrefix

-----------------------------------------------------------------------------
(* The function calls.                                                     *)

FunctionsInv == Functions!TypeOK /\ Functions!AnswersInOrder /\ Functions!WorksUpwards

(* The initial state of the function calls. *)
LEMMA FunctionsStart ==
  ASSUME Functions!Init
  PROVE  FunctionsInv
<1> USE FlowsAssumption DEF Functions!Init
<1>1. Functions!TypeOK
  <2>1. w4 \in Functions!Workers
    BY DEF Functions!Workers
  <2>2. <<>> \in Seq(Functions!Calls) /\ <<>> \in Seq(Seq(Functions!Calls)) /\ Len(<<>>) = 0
    OBVIOUS
  <2>3. 0 \in 0 .. 1 /\ FALSE \in BOOLEAN
    OBVIOUS
  <2>4. w1 \subseteq Functions!Calls /\ w2 \in 0 .. MaxCallbacks /\ w3 \in 0 .. MaxCallbacks
    OBVIOUS
  <2>5. w5 \in Seq(Functions!Calls) /\ w7 \in Seq(Seq(Functions!Calls)) /\ Len(w7) <= 1
    BY <2>2
  <2>6. w6 \in 0 .. 1 /\ w8 \in BOOLEAN
    BY <2>3
  <2>7. w9 \in {"wait", "result", "error", "cancelled"}
    OBVIOUS
  <2> QED
    BY <2>1, <2>4, <2>5, <2>6, <2>7 DEF Functions!TypeOK
<1> QED
  BY <1>1 DEF FunctionsInv, Functions!AnswersInOrder, Functions!WorksUpwards, Functions!ToSet

(* The goroutine goes to a later call that was asked for and whose tool is *)
(* known, or ends. *)
LEMMA NextCallIs ==
  ASSUME Functions!TypeOK, Functions!NextCall
  PROVE  \/ Functions!Goes("merge") /\ UNCHANGED w6
         \/ Functions!Goes("gone") /\ w6' = w6 + 1
         \/ \E i \in w1 \cap Known :
              /\ i > w4.call
              /\ w4' = [w4 EXCEPT !.at = "before", !.call = i, !.callback = 0, !.full = FALSE]
              /\ UNCHANGED w6
<1> DEFINE rest == {i \in w1 : i > w4.call}
           next == CHOOSE i \in rest : \A j \in rest : i <= j
<1>1. CASE rest = {}
  BY <1>1 DEF Functions!NextCall
<1>2. CASE rest # {}
  <2>1. rest \subseteq Nat
    <3>1. w1 \subseteq 1 .. MaxCalls /\ MaxCalls \in Nat
      BY FlowsAssumption DEF Functions!TypeOK, Functions!Calls
    <3>2. w1 \subseteq Nat
      BY <3>1
    <3> QED
      BY <3>2
  <2>2. \E i \in rest : \A j \in rest : i <= j
    <3> HIDE DEF rest
    <3> QED
      BY <1>2, <2>1, LeastExists
  <2>3. next \in rest
    <3> HIDE DEF rest
    <3> QED
      BY <2>2
  <2>4. IF next \notin Known THEN w6' = w6 + 1 /\ Functions!Goes("gone")
        ELSE /\ w4' = [w4 EXCEPT !.at = "before", !.call = next, !.callback = 0, !.full = FALSE]
             /\ UNCHANGED w6
    BY <1>2 DEF Functions!NextCall
  <2>5. next \in w1 /\ next > w4.call
    BY <2>3
  <2> HIDE DEF next
  <2> QED
    BY <2>4, <2>5
<1> QED
  BY <1>1, <1>2

(* A goroutine is somewhere, at a call, at a callback, with its flags. *)
LEMMA WorkerIs ==
  ASSUME Functions!TypeOK
  PROVE  /\ w4.at \in {"next", "before", "after", "merge", "gone", "panicked"}
         /\ w4.call \in 0 .. MaxCalls /\ w4.callback \in Nat
         /\ w4.full \in BOOLEAN /\ w4.bare \in BOOLEAN
         /\ w4 = [at |-> w4.at, call |-> w4.call, callback |-> w4.callback,
                  full |-> w4.full, bare |-> w4.bare]
<1>1. w4 \in Functions!Workers
  BY DEF Functions!TypeOK
<1> QED
  BY <1>1 DEF Functions!Workers

(* What makes a goroutine. *)
LEMMA WorkerType ==
  ASSUME NEW at \in {"next", "before", "after", "merge", "gone", "panicked"},
         NEW call \in 0 .. MaxCalls, NEW callback \in Nat,
         NEW full \in BOOLEAN, NEW bare \in BOOLEAN,
         w4' = [at |-> at, call |-> call, callback |-> callback, full |-> full, bare |-> bare]
  PROVE  w4' \in Functions!Workers
BY DEF Functions!Workers

(* A goroutine that goes elsewhere keeps the rest. *)
LEMMA WorkerGoes ==
  ASSUME Functions!TypeOK, NEW at \in {"next", "before", "after", "merge", "gone", "panicked"},
         Functions!Goes(at)
  PROVE  w4' \in Functions!Workers /\ w4'.at = at /\ w4'.call = w4.call
<1>1. w4' = [at |-> at, call |-> w4.call, callback |-> w4.callback, full |-> w4.full, bare |-> w4.bare]
  BY WorkerIs DEF Functions!Goes
<1>2. w4' \in Functions!Workers
  BY <1>1, WorkerIs, WorkerType
<1> QED
  BY <1>1, <1>2

(* Each step of the goroutine keeps the types. *)
LEMMA FunctionsTypes ==
  ASSUME FunctionsInv, Functions!Next
  PROVE  Functions!TypeOK'
<1> USE DEF Functions!inputs
<1>t. Functions!TypeOK
  BY DEF FunctionsInv
<1>w. /\ w4 \in Functions!Workers
      /\ w2 \in Nat /\ w3 \in Nat /\ w1 \subseteq 1 .. MaxCalls
  BY FlowsAssumption, <1>t DEF Functions!TypeOK, Functions!Calls
<1>o. w4.at \notin {"gone", "panicked"} => w6 = 0 /\ w7 = <<>>
  BY DEF FunctionsInv, Functions!WorksUpwards
<1>r. w1' = w1 /\ w2' = w2 /\ w3' = w3
  BY DEF Functions!Next, Functions!Work, Functions!NextCall, Functions!BeforeToolCallback,
         Functions!CallTool, Functions!AfterToolCallback, Functions!EndOfCall, Functions!Merge,
         Functions!Cancel, Functions!Receive, Functions!Fail
<1>1. CASE Functions!NextCall
  <2>1. UNCHANGED <<w5, w7, w8, w9>> /\ w6 = 0
    BY <1>1, <1>o DEF Functions!NextCall
  <2>2. w4' \in Functions!Workers /\ w6' \in 0 .. 1
    <3>1. CASE Functions!Goes("merge") /\ UNCHANGED w6
      BY <1>t, <2>1, <3>1, WorkerGoes
    <3>2. CASE Functions!Goes("gone") /\ w6' = w6 + 1
      BY <1>t, <2>1, <3>2, WorkerGoes
    <3>3. ASSUME NEW i \in w1 \cap Known, UNCHANGED w6,
                 w4' = [w4 EXCEPT !.at = "before", !.call = i, !.callback = 0, !.full = FALSE]
          PROVE  w4' \in Functions!Workers /\ w6' \in 0 .. 1
      <4>1. i \in 0 .. MaxCalls
        BY FlowsAssumption, <1>w
      <4>2. w4' = [at |-> "before", call |-> i, callback |-> 0, full |-> FALSE, bare |-> w4.bare]
        BY <1>t, <3>3, WorkerIs
      <4>3. w4' \in Functions!Workers
        BY <1>t, <4>1, <4>2, WorkerIs, WorkerType
      <4> QED
        BY <2>1, <3>3, <4>3
    <3> QED
      BY <1>1, <1>t, <3>1, <3>2, <3>3, NextCallIs
  <2> QED
    BY <1>t, <1>r, <2>1, <2>2 DEF Functions!TypeOK
<1>2. ASSUME Functions!Fail, w4.at = "before" \/ w4.at = "after"
      PROVE  Functions!TypeOK'
  <2>1. w4' \in Functions!Workers
    BY <1>2, <1>t, WorkerGoes DEF Functions!Fail
  <2>2. w6' \in 0 .. 1 /\ UNCHANGED <<w5, w7, w8, w9>>
    BY <1>2, <1>o DEF Functions!Fail
  <2> QED
    BY <1>t, <1>r, <2>1, <2>2 DEF Functions!TypeOK
<1>3. ASSUME w4' \in Functions!Workers, UNCHANGED <<w5, w6, w7, w8, w9>>
      PROVE  Functions!TypeOK'
  BY <1>3, <1>t, <1>r DEF Functions!TypeOK
<1>4. CASE Functions!BeforeToolCallback
  <2>1. CASE Functions!Fail
    BY <1>2, <1>4, <2>1 DEF Functions!BeforeToolCallback
  <2>2. ASSUME NEW full \in BOOLEAN, UNCHANGED <<w5, w6, w7, w8, w9>>,
               w4' = [w4 EXCEPT !.callback = IF full THEN @ + 1 ELSE w2, !.full = full]
        PROVE  Functions!TypeOK'
    <3> DEFINE callback == IF full THEN w4.callback + 1 ELSE w2
    <3>1. callback \in Nat
      BY <1>t, <1>w, WorkerIs
    <3>2. w4' = [at |-> w4.at, call |-> w4.call, callback |-> callback, full |-> full, bare |-> w4.bare]
      BY <1>t, <2>2, WorkerIs
    <3> HIDE DEF callback
    <3>3. w4' \in Functions!Workers
      BY <1>t, <2>2, <3>1, <3>2, WorkerIs, WorkerType, ZenonT(40)
    <3> QED
      BY <1>3, <2>2, <3>3
  <2> QED
    BY <1>4, <2>1, <2>2 DEF Functions!BeforeToolCallback
<1>5. CASE Functions!CallTool
  <2>1. CASE Functions!Fail
    BY <1>2, <1>5, <2>1 DEF Functions!CallTool
  <2>2. ASSUME NEW full \in BOOLEAN, UNCHANGED <<w5, w6, w7, w8, w9>>,
               w4' = [w4 EXCEPT !.at = "after", !.callback = 0, !.full = full]
        PROVE  Functions!TypeOK'
    <3>1. w4' = [at |-> "after", call |-> w4.call, callback |-> 0, full |-> full, bare |-> w4.bare]
      BY <1>t, <2>2, WorkerIs
    <3> QED
      BY <1>3, <1>t, <2>2, <3>1, WorkerIs, WorkerType
  <2> QED
    BY <1>5, <2>1, <2>2 DEF Functions!CallTool
<1>6. CASE Functions!AfterToolCallback
  <2>1. CASE Functions!Fail
    BY <1>2, <1>6, <2>1 DEF Functions!AfterToolCallback
  <2>2. ASSUME NEW replaces \in BOOLEAN, NEW bare \in BOOLEAN,
               w4' = [w4 EXCEPT !.callback = IF replaces THEN w3 ELSE @ + 1,
                                !.full = @ \/ replaces, !.bare = @ \/ bare],
               w5' = IF replaces \/ (w4.call \in LongRunning /\ ~w4.full)
                     THEN w5 ELSE Append(w5, w4.call),
               UNCHANGED <<w6, w7, w8, w9>>
        PROVE  Functions!TypeOK'
    <3> DEFINE callback == IF replaces THEN w3 ELSE w4.callback + 1
               full == w4.full \/ replaces
               notBare == w4.bare \/ bare
    <3>1. callback \in Nat
      BY <1>t, <1>w, WorkerIs
    <3>2. full \in BOOLEAN /\ notBare \in BOOLEAN
      OBVIOUS
    <3>3. w4' = [at |-> w4.at, call |-> w4.call, callback |-> callback, full |-> full, bare |-> notBare]
      BY <1>t, <2>2, WorkerIs
    <3>4. w4' \in Functions!Workers
      <4> HIDE DEF callback, full, notBare
      <4> QED
        BY <1>t, <3>1, <3>2, <3>3, WorkerIs, WorkerType
    <3>5. w4.call \in Functions!Calls /\ w5 \in Seq(Functions!Calls)
      BY <1>6, <1>t, <1>w
      DEF FunctionsInv, Functions!AfterToolCallback, Functions!WorksUpwards, Functions!TypeOK
    <3>6. w5' \in Seq(Functions!Calls)
      BY <2>2, <3>5
    <3> QED
      BY <1>t, <1>r, <2>2, <3>4, <3>6 DEF Functions!TypeOK
  <2> QED
    BY <1>6, <2>1, <2>2 DEF Functions!AfterToolCallback
<1>7. CASE Functions!EndOfCall
  BY <1>3, <1>7, <1>t, WorkerGoes DEF Functions!EndOfCall
<1>8. CASE Functions!Merge
  <2>1. UNCHANGED <<w5, w6, w8, w9>> /\ w7 = <<>>
    BY <1>8, <1>o DEF Functions!Merge
  <2>2. w4' \in Functions!Workers
    BY <1>8, <1>t, WorkerGoes DEF Functions!Merge
  <2>3. w7' = <<>> \/ w7' = <<w5>>
    BY <1>8, <2>1 DEF Functions!Merge
  <2>4. PICK answers : answers = w5 /\ answers \in Seq(Functions!Calls)
    BY <1>t DEF Functions!TypeOK
  <2>5. PICK S : S = Seq(Functions!Calls)
    OBVIOUS
  <2>6. w7' \in Seq(S) /\ Len(w7') <= 1
    <3>1. answers \in S
      BY <2>4, <2>5
    <3>2. CASE w7' = <<answers>>
      BY <3>1, <3>2
    <3>3. CASE w7' = <<>>
      BY <3>3
    <3> QED
      BY <2>3, <2>4, <3>2, <3>3
  <2> QED
    BY <1>t, <1>r, <2>1, <2>2, <2>5, <2>6 DEF Functions!TypeOK
<1>9. CASE Functions!Cancel \/ Functions!Receive
  BY <1>9, <1>t DEF Functions!Cancel, Functions!Receive, Functions!TypeOK
<1> QED
  BY <1>1, <1>4, <1>5, <1>6, <1>7, <1>8, <1>9 DEF Functions!Next, Functions!Work

(* What the order of the answers comes to, index by index. *)
Upwards ==
  /\ \A k \in DOMAIN w5 : w5[k] \in w1 \cap Known /\ w5[k] <= w4.call
  /\ \A i, j \in DOMAIN w5 : i < j => w5[i] <= w5[j]
  /\ w6 = 0 \/ w7 = <<>>
  /\ w4.at \in {"before", "after"} => w4.call \in w1 \cap Known
  /\ w4.at \notin {"gone", "panicked"} => w6 = 0 /\ w7 = <<>>

(* Each step of the goroutine answers a call that was asked for, no        *)
(* earlier one, and only one of error and result is sent. *)
LEMMA FunctionsOrder ==
  ASSUME FunctionsInv, Functions!Next
  PROVE  Functions!AnswersInOrder' /\ Functions!WorksUpwards'
<1> USE DEF Functions!inputs
<1>t. Functions!TypeOK
  BY DEF FunctionsInv
<1>i. Upwards
  BY DEF FunctionsInv, Functions!AnswersInOrder, Functions!WorksUpwards, Functions!ToSet, Upwards
<1>w. /\ w4 \in Functions!Workers
      /\ w1 \subseteq Nat /\ MaxCalls \in Nat
  BY FlowsAssumption, <1>t DEF Functions!TypeOK, Functions!Calls
<1>s. w5 \in Seq(Functions!Calls)
  BY <1>t DEF Functions!TypeOK
<1> SUFFICES Upwards'
  BY DEF Upwards, Functions!AnswersInOrder, Functions!WorksUpwards, Functions!ToSet
<1>c. w4.call \in Nat /\ \A k \in DOMAIN w5 : w5[k] \in Nat
  BY <1>i, <1>t, <1>w, WorkerIs DEF Upwards
<1>1. CASE Functions!NextCall
  <2>1. UNCHANGED <<w1, w5, w7>> /\ w4.at = "next"
    BY <1>1 DEF Functions!NextCall
  <2>2. CASE Functions!Goes("merge") /\ UNCHANGED w6
    BY <1>i, <1>t, <2>1, <2>2, WorkerGoes DEF Upwards
  <2>3. CASE Functions!Goes("gone") /\ w6' = w6 + 1
    BY <1>i, <1>t, <2>1, <2>3, WorkerGoes DEF Upwards
  <2>4. ASSUME NEW i \in w1 \cap Known, i > w4.call, UNCHANGED w6,
               w4' = [w4 EXCEPT !.at = "before", !.call = i, !.callback = 0, !.full = FALSE]
        PROVE  Upwards'
    <3>1. w4'.at = "before" /\ w4'.call = i
      BY <1>t, <2>4, WorkerIs
    <3>2. \A k \in DOMAIN w5 : w5[k] <= i
      BY <1>c, <1>i, <1>w, <2>4 DEF Upwards
    <3> QED
      BY <1>i, <2>1, <2>4, <3>1, <3>2 DEF Upwards
  <2> QED
    BY <1>1, <1>t, <2>2, <2>3, <2>4, NextCallIs
<1>2. ASSUME Functions!Fail, w4.at = "before" \/ w4.at = "after"
      PROVE  Upwards'
  BY <1>2, <1>t, <1>i, WorkerGoes DEF Functions!Fail, Upwards
<1>3. ASSUME UNCHANGED <<w1, w5, w6, w7>>, w4'.call = w4.call,
             w4.at = "before", w4'.at \in {"before", "after"}
      PROVE  Upwards'
  BY <1>3, <1>i DEF Upwards
<1>4. CASE Functions!BeforeToolCallback \/ Functions!CallTool
  <2>1. CASE Functions!Fail
    BY <1>2, <1>4, <2>1 DEF Functions!BeforeToolCallback, Functions!CallTool
  <2>2. CASE ~Functions!Fail
    BY <1>3, <1>4, <1>t, <2>2, WorkerIs DEF Functions!BeforeToolCallback, Functions!CallTool
  <2> QED
    BY <2>1, <2>2
<1>5. CASE Functions!AfterToolCallback
  <2>1. CASE Functions!Fail
    BY <1>2, <1>5, <2>1 DEF Functions!AfterToolCallback
  <2>2. CASE ~Functions!Fail
    <3>1. /\ UNCHANGED <<w1, w6, w7>> /\ w4'.at = "after" /\ w4'.call = w4.call
          /\ w5' = w5 \/ w5' = Append(w5, w4.call)
      BY <1>5, <1>t, <2>2, WorkerIs DEF Functions!AfterToolCallback
    <3>2. w4.at = "after" /\ w4.call \in w1 \cap Known
      BY <1>5, <1>i DEF Functions!AfterToolCallback, Upwards
    <3>3. \A k \in DOMAIN w5' : (k \in DOMAIN w5 /\ w5'[k] = w5[k]) \/ w5'[k] = w4.call
      BY <1>s, <3>1
    <3>4. ASSUME NEW i \in DOMAIN w5', NEW j \in DOMAIN w5', i < j
          PROVE  w5'[i] <= w5'[j]
      <4>1. i \in DOMAIN w5 /\ w5'[i] = w5[i]
        BY <1>s, <3>1, <3>4
      <4>2. (j \in DOMAIN w5 /\ w5'[j] = w5[j]) \/ w5'[j] = w4.call
        BY <3>3
      <4> QED
        BY <1>i, <3>4, <4>1, <4>2 DEF Upwards
    <3>5. w4.call <= w4.call
      BY <1>c
    <3>6. \A k \in DOMAIN w5' : w5'[k] \in w1 \cap Known /\ w5'[k] <= w4.call
      BY <1>i, <3>2, <3>3, <3>5 DEF Upwards
    <3> QED
      BY <1>i, <3>1, <3>2, <3>4, <3>6 DEF Upwards
  <2> QED
    BY <2>1, <2>2
<1>6. CASE Functions!EndOfCall
  BY <1>6, <1>i, <1>t, WorkerGoes DEF Functions!EndOfCall, Upwards
<1>7. CASE Functions!Merge
  <2>1. UNCHANGED <<w1, w5, w6>> /\ w6 = 0 /\ w4'.at \in {"gone", "panicked"} /\ w4'.call = w4.call
    BY <1>7, <1>i, <1>t, WorkerGoes DEF Functions!Merge, Upwards
  <2> QED
    BY <1>i, <2>1 DEF Upwards
<1>8. CASE Functions!Cancel \/ Functions!Receive
  BY <1>8, <1>i DEF Functions!Cancel, Functions!Receive, Upwards
<1> QED
  BY <1>1, <1>4, <1>5, <1>6, <1>7, <1>8 DEF Functions!Next, Functions!Work

(* The inductive invariant of the function calls. *)
LEMMA FunctionsInductive ==
  ASSUME FunctionsInv, Functions!Next
  PROVE  FunctionsInv'
<1>1. Functions!TypeOK'
  BY FunctionsTypes
<1>2. Functions!AnswersInOrder' /\ Functions!WorksUpwards'
  BY FunctionsOrder
<1> QED
  BY <1>1, <1>2 DEF FunctionsInv

-----------------------------------------------------------------------------
(* The code executions.                                                    *)

CodeInv == Code!TypeOK /\ Code!Placed /\ Code!RunsOwnCode /\ Code!OnlyFailuresLeak

(* The initial state of the code executions. *)
LEMMA CodeStart ==
  ASSUME Code!Init
  PROVE  CodeInv
<1> USE FlowsAssumption DEF Code!Init
<1>1. Code!TypeOK
  BY DEF Code!TypeOK
<1>2. Code!Placed
  BY DEF Code!Placed, Code!Open
<1>3. Code!RunsOwnCode /\ Code!OnlyFailuresLeak
  BY DEF Code!RunsOwnCode, Code!OnlyFailuresLeak
<1> QED
  BY <1>1, <1>2, <1>3 DEF CodeInv

(* The file of a call that is past its start is one of the files. *)
LEMMA FileIsKnown ==
  ASSUME Code!TypeOK, Code!Placed, NEW c \in Executions, w3[c] # "idle"
  PROVE  Code!File(c) \in Code!Files
<1>1. w4[c] \in Code!Inputs
  BY DEF Code!Placed
<1> QED
  BY <1>1 DEF Code!Inputs, Code!File, Code!FileName, Code!Files

(* Where a call may go. *)
LEMMA CodeGoes ==
  ASSUME Code!TypeOK, NEW c \in Executions, NEW there, Code!Goto(c, there),
         there \in {"idle", "attempt", "delay", "written", "ran", "created", "succeeded",
                    "failed", "cancelled", "hung", "panicked"}
  PROVE  /\ w3' \in [Executions -> {"idle", "attempt", "delay", "written", "ran", "created", "succeeded",
                                    "failed", "cancelled", "hung", "panicked"}]
         /\ w3'[c] = there /\ \A d \in Executions : d # c => w3'[d] = w3[d]
BY DEF Code!TypeOK, Code!Goto

(* A failed attempt is counted, and its call goes on, ends, hangs or ends  *)
(* the process. *)
LEMMA CodeFails ==
  ASSUME Code!TypeOK, NEW c \in Executions, Code!Failed(c)
  PROVE  /\ w3' \in [Executions -> {"idle", "attempt", "delay", "written", "ran", "created", "succeeded",
                                    "failed", "cancelled", "hung", "panicked"}]
         /\ w3'[c] \in {"delay", "failed", "hung", "panicked"}
         /\ w3'[c] = "delay" => w5[c] < MaxRetries
         /\ \A d \in Executions : d # c => w3'[d] = w3[d]
         /\ w2' \in {w2, "crashed"}
         /\ w10' = w10 \cup {<<c, w5[c]>>}
BY CodeGoes DEF Code!Failed, Code!Panic

(* Each step of a code execution keeps the types. *)
LEMMA CodeTypes ==
  ASSUME CodeInv, Code!Next
  PROVE  Code!TypeOK'
<1> USE FlowsAssumption
<1>t. Code!TypeOK /\ Code!Placed
  BY DEF CodeInv
<1>m. \A c \in Executions : <<c, w5[c]>> \in Executions \X (0 .. MaxRetries)
  BY <1>t DEF Code!TypeOK
<1>1. ASSUME NEW c \in Executions, Code!Run(c)
      PROVE  Code!TypeOK'
  BY <1>1, <1>t, CodeGoes DEF Code!Run, Code!TypeOK
<1>2. ASSUME NEW c \in Executions, Code!Delay(c)
      PROVE  Code!TypeOK'
  BY <1>2, <1>t, CodeGoes DEF Code!Delay, Code!TypeOK, Code!Placed
<1>3. ASSUME NEW c \in Executions, Code!AddExecutionResult(c) \/ Code!AddProcessedFileNames(c)
      PROVE  Code!TypeOK'
  BY <1>3, <1>t, CodeGoes DEF Code!AddExecutionResult, Code!AddProcessedFileNames, Code!Panic, Code!TypeOK
<1>4. ASSUME NEW c \in Executions, Code!WriteFails(c) \/ Code!RunFails(c)
      PROVE  Code!TypeOK'
  BY <1>4, <1>t, <1>m, CodeFails DEF Code!WriteFails, Code!RunFails, Code!TypeOK
<1>5. ASSUME NEW c \in Executions, Code!Write(c)
      PROVE  Code!TypeOK'
  BY <1>5, <1>t, CodeGoes, FileIsKnown DEF Code!Write, Code!TypeOK
<1>6. ASSUME NEW c \in Executions, Code!ExecuteCommand(c)
      PROVE  Code!TypeOK'
  BY <1>6, <1>t, CodeGoes, FileIsKnown DEF Code!ExecuteCommand, Code!TypeOK
<1>7. ASSUME NEW c \in Executions, Code!Remove(c)
      PROVE  Code!TypeOK'
  BY <1>7, <1>t, CodeGoes, FileIsKnown DEF Code!Remove, Code!TypeOK
<1>8. ASSUME NEW c \in Executions, Code!CreateFails(c)
      PROVE  Code!TypeOK'
  BY <1>8, <1>t, <1>m, CodeFails DEF Code!CreateFails, Code!Mine, Code!TypeOK
<1>9. ASSUME NEW c \in Executions, Code!CreateContainer(c) \/ Code!ContainerExits(c)
      PROVE  Code!TypeOK'
  BY <1>9, <1>t, <1>m, CodeGoes DEF Code!CreateContainer, Code!ContainerExits, Code!Mine, Code!TypeOK
<1>10. ASSUME NEW c \in Executions, Code!RunInContainer(c)
       PROVE  Code!TypeOK'
  BY <1>10, <1>t, <1>m, CodeGoes DEF Code!RunInContainer, Code!Mine, Code!TypeOK
<1>11. CASE Code!Close
  BY <1>11, <1>t DEF Code!Close, Code!TypeOK
<1> QED
  BY <1>1, <1>2, <1>3, <1>4, <1>5, <1>6, <1>7, <1>8, <1>9, <1>10, <1>11 DEF Code!Next

(* Each step of a code execution leaves only failed containers behind. *)
LEMMA CodeLeaks ==
  ASSUME CodeInv, Code!Next
  PROVE  Code!OnlyFailuresLeak'
<1>t. Code!TypeOK /\ Code!OnlyFailuresLeak
  BY DEF CodeInv
<1>p. \A x \in w9 : x \in Executions \X (0 .. MaxRetries)
  BY <1>t DEF Code!TypeOK
<1>1. ASSUME NEW c \in Executions, UNCHANGED <<w5, w9, w10>>, w2' \in {w2, "crashed"},
             w3[c] # "created", \A d \in Executions : d # c => w3'[d] = w3[d]
      PROVE  Code!OnlyFailuresLeak'
  BY <1>1, <1>t, <1>p DEF Code!OnlyFailuresLeak, Code!Mine
<1>2. ASSUME NEW c \in Executions, Code!Delay(c)
      PROVE  Code!OnlyFailuresLeak'
  <2>1. UNCHANGED <<w2, w9, w10>> /\ w3[c] = "delay"
        /\ \A d \in Executions : d # c => w3'[d] = w3[d] /\ w5'[d] = w5[d]
    BY <1>2, <1>t DEF Code!Delay, Code!Goto, Code!TypeOK
  <2> QED
    BY <1>t, <1>p, <2>1 DEF Code!OnlyFailuresLeak, Code!Mine
<1>3. ASSUME NEW c \in Executions, Code!Failed(c), UNCHANGED w5,
             w9' \in {w9, w9 \cup {Code!Mine(c)}}
      PROVE  Code!OnlyFailuresLeak'
  BY <1>3, <1>t, <1>p, CodeFails DEF Code!OnlyFailuresLeak, Code!Mine
<1>4. ASSUME NEW c \in Executions, Code!CreateContainer(c)
      PROVE  Code!OnlyFailuresLeak'
  <2>1. UNCHANGED <<w2, w5, w10>> /\ w9' = w9 \cup {<<c, w5[c]>>} /\ w3[c] = "attempt"
        /\ w3'[c] = "created" /\ \A d \in Executions : d # c => w3'[d] = w3[d]
    BY <1>4, <1>t, CodeGoes DEF Code!CreateContainer, Code!Mine
  <2> QED
    BY <1>t, <1>p, <2>1 DEF Code!OnlyFailuresLeak, Code!Mine
<1>5. ASSUME NEW c \in Executions, Code!ContainerExits(c)
      PROVE  Code!OnlyFailuresLeak'
  BY <1>5, <1>t DEF Code!ContainerExits, Code!OnlyFailuresLeak, Code!Mine
<1>6. ASSUME NEW c \in Executions, Code!RunInContainer(c)
      PROVE  Code!OnlyFailuresLeak'
  <2>1. UNCHANGED <<w2, w5>> /\ \A d \in Executions : d # c => w3'[d] = w3[d]
    BY <1>6, <1>t, CodeGoes DEF Code!RunInContainer
  <2>2. w9' \ w10' \subseteq (w9 \ w10) \ {<<c, w5[c]>>}
    BY <1>6 DEF Code!RunInContainer, Code!Mine
  <2> QED
    BY <1>t, <1>p, <2>1, <2>2 DEF Code!OnlyFailuresLeak, Code!Mine
<1>7. CASE Code!Close
  BY <1>7, <1>t DEF Code!Close, Code!OnlyFailuresLeak, Code!Mine
<1>8. ASSUME NEW c \in Executions,
             \/ Code!Run(c) \/ Code!AddExecutionResult(c) \/ Code!AddProcessedFileNames(c)
             \/ Code!Write(c) \/ Code!ExecuteCommand(c) \/ Code!Remove(c)
      PROVE  Code!OnlyFailuresLeak'
  <2>1. UNCHANGED <<w5, w9, w10>> /\ w2' \in {w2, "crashed"} /\ w3[c] # "created"
    BY <1>8 DEF Code!Run, Code!AddExecutionResult, Code!AddProcessedFileNames, Code!Write,
                Code!ExecuteCommand, Code!Remove, Code!Panic
  <2>2. \A d \in Executions : d # c => w3'[d] = w3[d]
    BY <1>8, <1>t, CodeGoes
    DEF Code!Run, Code!AddExecutionResult, Code!AddProcessedFileNames, Code!Write,
        Code!ExecuteCommand, Code!Remove, Code!Panic
  <2> QED
    BY <1>1, <2>1, <2>2
<1> QED
  BY <1>2, <1>3, <1>4, <1>5, <1>6, <1>7, <1>8
  DEF Code!Next, Code!WriteFails, Code!CreateFails, Code!RunFails

(* Two calls that may write the same file are of one directory and         *)
(* language. *)
LEMMA SameFile ==
  ASSUME NEW c \in Executions, NEW d \in Executions, w4[c] \in Code!Inputs, w4[d] \in Code!Inputs,
         w4[c].language # "bash", w4[d].language # "bash", Code!File(c) = Code!File(d)
  PROVE  Code!Alike(c, d)
BY DEF Code!File, Code!FileName, Code!Alike, Code!Inputs, Code!Languages

(* Each step of a code execution keeps the code of an undisturbed call in  *)
(* its file, and runs it from there. *)
LEMMA CodeOwn ==
  ASSUME CodeInv, Code!Next
  PROVE  Code!Placed' /\ Code!RunsOwnCode'
<1>t. Code!TypeOK /\ Code!Placed /\ Code!RunsOwnCode
  BY DEF CodeInv
<1> USE DEF Code!Open, Code!Alike
\* A call that goes where it has no file open.
<1>1. ASSUME NEW c \in Executions, UNCHANGED <<w4, w5, w6, w7, w8>>,
             \A d \in Executions : d # c => w3'[d] = w3[d],
             w3[c] # "idle", w3'[c] \notin {"written", "ran", "succeeded"},
             w3'[c] = "delay" => w5[c] < MaxRetries
      PROVE  Code!Placed' /\ Code!RunsOwnCode'
  <2>1. Code!Placed'
    BY <1>1, <1>t DEF Code!Placed, Code!File
  <2>2. Code!RunsOwnCode'
    BY <1>1, <1>t DEF Code!RunsOwnCode
  <2> QED
    BY <2>1, <2>2
<1>2. ASSUME NEW c \in Executions, Code!Run(c)
      PROVE  Code!Placed' /\ Code!RunsOwnCode'
  <2>1. PICK i \in Code!Inputs : w4' = [w4 EXCEPT ![c] = i]
    BY <1>2 DEF Code!Run
  <2>2. /\ UNCHANGED <<w5, w6, w7, w8>> /\ w3[c] = "idle" /\ w3'[c] = "attempt" /\ w4'[c] = i
        /\ \A d \in Executions : d # c => w3'[d] = w3[d] /\ w4'[d] = w4[d]
    BY <1>2, <1>t, <2>1, CodeGoes DEF Code!Run, Code!TypeOK
  <2>3. Code!Placed'
    BY <1>t, <2>2 DEF Code!Placed, Code!File
  <2>4. Code!RunsOwnCode'
    BY <1>t, <2>2 DEF Code!RunsOwnCode
  <2> QED
    BY <2>3, <2>4
<1>3. ASSUME NEW c \in Executions, Code!Delay(c)
      PROVE  Code!Placed' /\ Code!RunsOwnCode'
  <2>1. /\ UNCHANGED <<w4, w6, w7, w8>> /\ w3[c] = "delay" /\ w3'[c] \in {"attempt", "cancelled"}
        /\ \A d \in Executions : d # c => w3'[d] = w3[d] /\ w5'[d] = w5[d]
    BY <1>3, <1>t, CodeGoes DEF Code!Delay, Code!TypeOK
  <2>2. Code!Placed'
    BY <1>t, <2>1 DEF Code!Placed, Code!File
  <2>3. Code!RunsOwnCode'
    BY <1>t, <2>1 DEF Code!RunsOwnCode
  <2> QED
    BY <2>2, <2>3
<1>4. ASSUME NEW c \in Executions,
             Code!AddExecutionResult(c) \/ Code!AddProcessedFileNames(c) \/ Code!CreateContainer(c)
      PROVE  Code!Placed' /\ Code!RunsOwnCode'
  <2>1. UNCHANGED <<w4, w5, w6, w7, w8>> /\ w3[c] # "idle"
    BY <1>4 DEF Code!AddExecutionResult, Code!AddProcessedFileNames, Code!CreateContainer
  <2>2. w3'[c] \in {"panicked", "created"} /\ \A d \in Executions : d # c => w3'[d] = w3[d]
    BY <1>4, <1>t, CodeGoes
    DEF Code!AddExecutionResult, Code!AddProcessedFileNames, Code!CreateContainer, Code!Panic
  <2> QED
    BY <1>1, <2>1, <2>2
<1>5. ASSUME NEW c \in Executions, Code!WriteFails(c) \/ Code!RunFails(c) \/ Code!CreateFails(c)
      PROVE  Code!Placed' /\ Code!RunsOwnCode'
  <2>1. UNCHANGED <<w4, w5, w6, w7, w8>> /\ w3[c] # "idle" /\ Code!Failed(c)
    BY <1>5 DEF Code!WriteFails, Code!RunFails, Code!CreateFails
  <2> QED
    BY <1>1, <1>t, <2>1, CodeFails
<1>6. ASSUME NEW c \in Executions, Code!Write(c), w4[c].language = "bash"
      PROVE  Code!Placed' /\ Code!RunsOwnCode'
  <2>1. /\ UNCHANGED <<w4, w5, w6, w8>> /\ w3[c] = "attempt" /\ w3'[c] = "succeeded" /\ w7'[c] = c
        /\ \A d \in Executions : d # c => w3'[d] = w3[d] /\ w7'[d] = w7[d]
    BY <1>6, <1>t, CodeGoes DEF Code!Write, Code!TypeOK
  <2>2. Code!Placed'
    BY <1>t, <2>1 DEF Code!Placed, Code!File
  <2>3. Code!RunsOwnCode'
    BY <1>t, <2>1 DEF Code!RunsOwnCode
  <2> QED
    BY <2>2, <2>3
<1>7. ASSUME NEW c \in Executions, Code!Write(c), w4[c].language # "bash"
      PROVE  Code!Placed' /\ Code!RunsOwnCode'
  <2>1. /\ UNCHANGED <<w4, w5, w7>> /\ w3[c] = "attempt" /\ w3'[c] = "written"
        /\ \A d \in Executions : d # c => w3'[d] = w3[d]
    BY <1>7, <1>t, CodeGoes DEF Code!Write
  <2>2. /\ w8 \subseteq w8'
        /\ \A d \in Executions \ {c} : Code!Open(d) /\ Code!Alike(c, d) => {c, d} \subseteq w8'
    BY <1>7 DEF Code!Write
  <2>3. \A d \in Executions : Code!File(d)' = Code!File(d)
    BY <2>1 DEF Code!File
  <2>4. /\ w6'[Code!File(c)] = c
        /\ \A d \in Executions : w3[d] # "idle" /\ Code!File(d) # Code!File(c)
                                   => w6'[Code!File(d)] = w6[Code!File(d)]
    <3>1. \A d \in Executions : w3[d] # "idle" => Code!File(d) \in Code!Files
      BY <1>t, FileIsKnown
    <3>2. w6' = [w6 EXCEPT ![Code!File(c)] = c] /\ w6 \in [Code!Files -> Executions \cup {Nothing}]
      BY <1>7, <1>t DEF Code!Write, Code!TypeOK
    <3> QED
      BY <2>1, <3>1, <3>2
  <2>5. ASSUME NEW d \in Executions, d # c, Code!Open(d), Code!File(d) = Code!File(c)
        PROVE  d \in w8'
    <3>1. Code!Alike(c, d)
      BY <1>7, <1>t, <2>1, <2>5, SameFile DEF Code!Placed
    <3> QED
      BY <2>2, <2>5, <3>1
  <2>6. Code!Placed'
    <3>1. \A d \in Executions : /\ w3'[d] # "idle" => w4'[d] \in Code!Inputs
                                /\ w3'[d] = "delay" => w5'[d] < MaxRetries
                                /\ Code!Open(d)' => w4'[d].language # "bash"
      BY <1>7, <1>t, <2>1 DEF Code!Placed
    <3>2. ASSUME NEW d \in Executions, NEW e \in Executions, Code!Open(d)', Code!Open(e)', Code!Alike(d, e)', d # e
          PROVE  {d, e} \subseteq w8'
      <4>1. Code!Alike(d, e) /\ (d = c \/ Code!Open(d)) /\ (e = c \/ Code!Open(e))
        BY <2>1, <3>2
      <4> QED
        BY <1>t, <2>2, <3>2, <4>1 DEF Code!Placed
    <3>3. ASSUME NEW d \in Executions \ w8', w3'[d] = "written"
          PROVE  w6'[Code!File(d)] = d
      <4>1. CASE d = c
        BY <2>4, <4>1
      <4>2. CASE d # c
        <5>1. w3[d] = "written" /\ w6[Code!File(d)] = d
          BY <1>t, <2>1, <2>2, <3>3, <4>2 DEF Code!Placed
        <5>2. Code!File(d) # Code!File(c)
          BY <2>5, <3>3, <4>2, <5>1
        <5> QED
          BY <2>4, <5>1, <5>2
      <4> QED
        BY <4>1, <4>2
    <3> QED
      BY <2>3, <3>1, <3>2, <3>3 DEF Code!Placed
  <2>7. Code!RunsOwnCode'
    BY <1>t, <2>1, <2>2 DEF Code!RunsOwnCode
  <2> QED
    BY <2>6, <2>7
<1>8. ASSUME NEW c \in Executions, Code!ExecuteCommand(c)
      PROVE  Code!Placed' /\ Code!RunsOwnCode'
  <2>1. /\ UNCHANGED <<w4, w5, w6, w8>> /\ w3[c] = "written" /\ w3'[c] = "ran"
        /\ w7'[c] = w6[Code!File(c)]
        /\ \A d \in Executions : d # c => w3'[d] = w3[d] /\ w7'[d] = w7[d]
    BY <1>8, <1>t, CodeGoes DEF Code!ExecuteCommand, Code!TypeOK
  <2>2. Code!Placed'
    BY <1>t, <2>1 DEF Code!Placed, Code!File
  <2>3. Code!RunsOwnCode'
    BY <1>t, <2>1 DEF Code!RunsOwnCode, Code!Placed
  <2> QED
    BY <2>2, <2>3
<1>9. ASSUME NEW c \in Executions, Code!Remove(c)
      PROVE  Code!Placed' /\ Code!RunsOwnCode'
  <2>1. /\ UNCHANGED <<w4, w5, w7, w8>> /\ w3[c] = "ran" /\ w3'[c] = "succeeded"
        /\ \A d \in Executions : d # c => w3'[d] = w3[d]
    BY <1>9, <1>t, CodeGoes DEF Code!Remove
  <2>2. \A d \in Executions : Code!File(d)' = Code!File(d)
    BY <2>1 DEF Code!File
  <2>3. \A d \in Executions : w3[d] # "idle" /\ Code!File(d) # Code!File(c)
                                => w6'[Code!File(d)] = w6[Code!File(d)]
    <3>1. \A d \in Executions : w3[d] # "idle" => Code!File(d) \in Code!Files
      BY <1>t, FileIsKnown
    <3>2. w6' = [w6 EXCEPT ![Code!File(c)] = Nothing] /\ w6 \in [Code!Files -> Executions \cup {Nothing}]
      BY <1>9, <1>t DEF Code!Remove, Code!TypeOK
    <3> QED
      BY <2>1, <3>1, <3>2
  <2>4. ASSUME NEW d \in Executions \ w8', w3'[d] = "written"
        PROVE  w6'[Code!File(d)] = d
    <3>1. d # c /\ w3[d] = "written" /\ d \notin w8 /\ w6[Code!File(d)] = d
      BY <1>t, <2>1, <2>4 DEF Code!Placed
    <3>2. Code!File(d) # Code!File(c)
      <4>1. CASE Code!File(d) = Code!File(c)
        <5>1. Code!Alike(d, c)
          BY <1>t, <2>1, <3>1, <4>1, SameFile DEF Code!Placed
        <5> QED
          BY <1>t, <2>1, <3>1, <5>1 DEF Code!Placed
      <4> QED
        BY <4>1
    <3> QED
      BY <2>3, <3>1, <3>2
  <2>5. Code!Placed'
    <3>1. \A d \in Executions : /\ w3'[d] # "idle" => w4'[d] \in Code!Inputs
                                /\ w3'[d] = "delay" => w5'[d] < MaxRetries
                                /\ Code!Open(d)' => w4'[d].language # "bash"
      BY <1>t, <2>1 DEF Code!Placed
    <3>2. \A d, e \in Executions : Code!Open(d)' /\ Code!Open(e)' /\ Code!Alike(d, e)'
                                     => d = e \/ {d, e} \subseteq w8'
      BY <1>t, <2>1 DEF Code!Placed
    <3> QED
      BY <2>2, <2>4, <3>1, <3>2 DEF Code!Placed
  <2>6. Code!RunsOwnCode'
    BY <1>t, <2>1 DEF Code!RunsOwnCode
  <2> QED
    BY <2>5, <2>6
<1>10. ASSUME NEW c \in Executions, Code!RunInContainer(c)
       PROVE  Code!Placed' /\ Code!RunsOwnCode'
  <2>1. /\ UNCHANGED <<w4, w5, w6, w8>> /\ w3[c] = "created" /\ w3'[c] = "succeeded" /\ w7'[c] = c
        /\ \A d \in Executions : d # c => w3'[d] = w3[d] /\ w7'[d] = w7[d]
    BY <1>10, <1>t, CodeGoes DEF Code!RunInContainer, Code!TypeOK
  <2>2. Code!Placed'
    BY <1>t, <2>1 DEF Code!Placed, Code!File
  <2>3. Code!RunsOwnCode'
    BY <1>t, <2>1 DEF Code!RunsOwnCode
  <2> QED
    BY <2>2, <2>3
<1>11. CASE Code!Close
  <2>1. UNCHANGED <<w3, w4, w5, w7>> /\ w8 \subseteq w8'
        /\ \A c \in Executions : Code!Open(c) /\ w4[c].dir = "work" => c \in w8'
    BY <1>11 DEF Code!Close
  <2>2. \A f \in Code!Files : f[1] # "work" => w6'[f] = w6[f]
    BY <1>11 DEF Code!Close
  <2>3. \A c \in Executions : Code!File(c)' = Code!File(c) /\ Code!File(c)[1] = w4[c].dir
    BY <2>1 DEF Code!File
  <2>4. ASSUME NEW c \in Executions \ w8', w3'[c] = "written"
        PROVE  w6'[Code!File(c)] = c
    <3>1. w3[c] = "written" /\ c \notin w8 /\ w6[Code!File(c)] = c /\ w4[c].dir # "work"
      BY <1>t, <2>1, <2>4 DEF Code!Placed
    <3>2. Code!File(c) \in Code!Files
      BY <1>t, <3>1, FileIsKnown
    <3> QED
      BY <2>2, <2>3, <3>1, <3>2
  <2>5. Code!Placed'
    BY <1>t, <2>1, <2>3, <2>4 DEF Code!Placed
  <2>6. Code!RunsOwnCode'
    BY <1>t, <2>1 DEF Code!RunsOwnCode
  <2> QED
    BY <2>5, <2>6
<1>12. ASSUME NEW c \in Executions, Code!ContainerExits(c)
       PROVE  Code!Placed' /\ Code!RunsOwnCode'
  BY <1>12, <1>t DEF Code!ContainerExits, Code!Placed, Code!RunsOwnCode, Code!File
<1> QED
  BY <1>2, <1>3, <1>4, <1>5, <1>6, <1>7, <1>8, <1>9, <1>10, <1>11, <1>12 DEF Code!Next

(* The inductive invariant of the code executions. *)
LEMMA CodeInductive ==
  ASSUME CodeInv, Code!Next
  PROVE  CodeInv'
<1>1. Code!TypeOK' /\ Code!OnlyFailuresLeak'
  BY CodeTypes, CodeLeaks
<1>2. Code!Placed' /\ Code!RunsOwnCode'
  BY CodeOwn
<1> QED
  BY <1>1, <1>2 DEF CodeInv

-----------------------------------------------------------------------------
(* The contents of a request.                                              *)

(* Events that come in the order in which they were added. *)
Rising(es) == \A i, j \in DOMAIN es : i < j => es[i].n < es[j].n

(* Content!ResponsesFollowCalls, of any contents: responses, and the rest. *)
Followed(cs) == \A i \in DOMAIN cs :
  cs[i].responses # {} => i > 1 /\ cs[i].responses \cap cs[i - 1].calls # {}
Rest(cs) == \A i, j \in DOMAIN cs :
  i < j /\ cs[i].responses = {} /\ cs[j].responses = {} => cs[i].n < cs[j].n

(* Events are numbered as they are added. *)
Numbered == \A i \in DOMAIN w1 : w1[i].n = i

ContentsInv == Content!TypeOK /\ Content!ResponsesFollowCalls /\ Numbered

(* An event has a number. *)
LEMMA EventNumber ==
  ASSUME NEW e \in Content!Events
  PROVE  e.n \in 1 .. MaxEvents /\ e.n \in Nat
<1>1. e.n \in 1 .. MaxEvents
  BY DEF Content!Events
<1> QED
  BY <1>1, Bounds

(* The session is empty at first. *)
LEMMA ContentsStart ==
  ASSUME Content!Init
  PROVE  ContentsInv
<1>e. w1 = <<>> /\ w2 \in Content!Branches /\ w3 = <<>> /\ w4 = "none"
  BY DEF Content!Init
<1>1. Content!TypeOK
  <2>1. w1 \in Seq(Content!Events) /\ w3 \in Seq(Content!Events) /\ Len(w1) = 0
    BY <1>e
  <2> QED
    BY <1>e, <2>1, Bounds DEF Content!TypeOK
<1>2. Content!ResponsesFollowCalls /\ Numbered
  <2>1. DOMAIN w1 = {} /\ DOMAIN w3 = {}
    BY <1>e
  <2> QED
    BY <2>1 DEF Content!ResponsesFollowCalls, Numbered
<1> QED
  BY <1>1, <1>2 DEF ContentsInv

(* An event of another agent is still an event, at its place. *)
LEMMA ConvertIs ==
  ASSUME NEW e \in Content!Events
  PROVE  Content!Convert(e) \in Content!Events /\ Content!Convert(e).n = e.n
<1>1. e \in [n : 1 .. MaxEvents, author : {"user", "a", "b"}, branch : Content!EventBranches, text : BOOLEAN,
             calls : SUBSET CallIds, responses : SUBSET CallIds, auth : BOOLEAN]
  BY DEF Content!Events
<1>2. [e EXCEPT !.author = "user", !.calls = {}, !.responses = {}] \in Content!Events
      /\ [e EXCEPT !.author = "user", !.calls = {}, !.responses = {}].n = e.n
  BY <1>1 DEF Content!Events
<1> QED
  BY <1>2 DEF Content!Convert

(* Events behind the ones before them are rising. *)
LEMMA RisingAppend ==
  ASSUME NEW es \in Seq(Content!Events), NEW e \in Content!Events, Rising(es),
         NEW k \in Nat, \A i \in DOMAIN es : es[i].n <= k, e.n = k + 1
  PROVE  Rising(es \o <<e>>) /\ \A i \in DOMAIN (es \o <<e>>) : (es \o <<e>>)[i].n <= k + 1
<1>1. \A i \in DOMAIN es : es[i].n \in Nat
  <2>1. \A i \in DOMAIN es : es[i] \in Content!Events
    OBVIOUS
  <2> QED
    BY <2>1, EventNumber
<1>2. PICK fs : fs = es \o <<e>>
  OBVIOUS
<1>3. /\ DOMAIN fs = 1 .. Len(es) + 1 /\ Len(es) \in Nat /\ DOMAIN es = 1 .. Len(es)
      /\ fs[Len(es) + 1] = e /\ \A i \in 1 .. Len(es) : fs[i] = es[i]
  BY <1>2
<1>4. \A i \in DOMAIN fs : fs[i].n <= k + 1
  BY <1>1, <1>3
<1>5. Rising(fs)
  <2> SUFFICES ASSUME NEW i \in DOMAIN fs, NEW j \in DOMAIN fs, i < j
               PROVE  fs[i].n < fs[j].n
    BY DEF Rising
  <2>1. i \in 1 .. Len(es) /\ fs[i] = es[i]
    BY <1>3
  <2>2. CASE j = Len(es) + 1
    <3>1. fs[j].n = k + 1 /\ fs[i].n <= k /\ fs[i].n \in Nat
      BY <1>1, <1>3, <2>1, <2>2
    <3> QED
      BY <3>1
  <2>3. CASE j # Len(es) + 1
    <3>1. j \in DOMAIN es /\ fs[j] = es[j]
      BY <1>3, <2>3
    <3> QED
      BY <1>3, <2>1, <3>1 DEF Rising
  <2> QED
    BY <2>2, <2>3
<1> QED
  BY <1>2, <1>4, <1>5

(* The events of which GetContents makes contents. *)
Chosen ==
  Content!FlattenSeq([i \in DOMAIN w1 |->
    IF Content!Kept(w1[i]) THEN <<Content!Convert(w1[i])>> ELSE <<>>])

(* They are in the order of the session. *)
LEMMA ChosenRise ==
  ASSUME ContentsInv
  PROVE  Chosen \in Seq(Content!Events) /\ Rising(Chosen)
<1>1. /\ w1 \in Seq(Content!Events) /\ Len(w1) \in Nat /\ DOMAIN w1 = 1 .. Len(w1)
      /\ \A i \in 1 .. Len(w1) : w1[i] \in Content!Events /\ w1[i].n = i
  <2>1. w1 \in Seq(Content!Events)
    BY DEF ContentsInv, Content!TypeOK
  <2>2. Len(w1) \in Nat /\ DOMAIN w1 = 1 .. Len(w1) /\ \A i \in 1 .. Len(w1) : w1[i] \in Content!Events
    BY <2>1
  <2> QED
    BY <2>1, <2>2 DEF ContentsInv, Numbered
<1>2. PICK ss : ss = [i \in DOMAIN w1 |-> IF Content!Kept(w1[i]) THEN <<Content!Convert(w1[i])>> ELSE <<>>]
  OBVIOUS
<1>3. ASSUME NEW i \in 1 .. Len(w1)
      PROVE  /\ ss[i] \in Seq(Content!Events)
             /\ ss[i] = <<>> \/ \E e \in Content!Events : e.n = i /\ ss[i] = <<e>>
  <2>1. ss[i] = IF Content!Kept(w1[i]) THEN <<Content!Convert(w1[i])>> ELSE <<>>
    BY <1>1, <1>2
  <2>2. Content!Convert(w1[i]) \in Content!Events /\ Content!Convert(w1[i]).n = i
    BY <1>1, ConvertIs
  <2> QED
    BY <2>1, <2>2
<1>4. ss \in Seq(Seq(Content!Events)) /\ Len(ss) = Len(w1)
  BY <1>1, <1>2, <1>3, SequencesType
<1>5. PICK g \in [0 .. Len(w1) -> Seq(Content!Events)] : Collected(ss, g) /\ FlattenSeq(ss) = g[Len(w1)]
  BY <1>4, FlattenIs
<1> DEFINE Good == {k \in 0 .. Len(w1) : Rising(g[k]) /\ \A i \in DOMAIN g[k] : g[k][i].n <= k}
<1>6. 0 \in Good
  BY <1>1, <1>5 DEF Collected, Rising
<1>7. ASSUME NEW k \in 0 .. Len(w1) - 1, k \in Good
      PROVE  k + 1 \in Good
  <2>1. k + 1 \in 1 .. Len(w1) /\ (k + 1) - 1 = k /\ k + 1 \in 0 .. Len(w1) /\ k \in Nat
    BY <1>1
  <2>2. g[k + 1] = g[k] \o ss[k + 1]
    BY <1>4, <1>5, <2>1 DEF Collected
  <2>3. g[k] \in Seq(Content!Events) /\ Rising(g[k]) /\ \A i \in DOMAIN g[k] : g[k][i].n <= k
    BY <1>5, <1>7
  <2> HIDE DEF Good
  <2>4. CASE ss[k + 1] = <<>>
    <3>1. g[k + 1] = g[k]
      BY <2>2, <2>3, <2>4
    <3>2. \A i \in DOMAIN g[k] : g[k][i].n \in Nat
      <4>1. \A i \in DOMAIN g[k] : g[k][i] \in Content!Events
        BY <2>3
      <4> QED
        BY <4>1, EventNumber
    <3>3. \A i \in DOMAIN g[k] : g[k][i].n <= k + 1
      BY <2>1, <2>3, <3>2
    <3> QED
      BY <2>1, <2>3, <3>1, <3>3 DEF Good
  <2>5. CASE ss[k + 1] # <<>>
    <3>1. PICK e \in Content!Events : e.n = k + 1 /\ ss[k + 1] = <<e>>
      BY <1>3, <2>1, <2>5
    <3>2. Rising(g[k + 1]) /\ \A i \in DOMAIN g[k + 1] : g[k + 1][i].n <= k + 1
      BY <2>1, <2>2, <2>3, <3>1, RisingAppend
    <3> QED
      BY <2>1, <3>2 DEF Good
  <2> QED
    BY <2>4, <2>5
<1> HIDE DEF Good
<1>8. Len(w1) \in Good
  <2>1. 0 .. Len(w1) \subseteq Good
    BY <1>1, <1>6, <1>7, Upwards0
  <2> QED
    BY <1>1, <2>1
<1>9. Chosen = FlattenSeq(ss)
  BY <1>2, FlattenContent DEF Chosen
<1> QED
  BY <1>1, <1>5, <1>8, <1>9 DEF Good

(* An event without responses, later than the others without. *)
LEMMA PlainComesLast ==
  ASSUME NEW cs \in Seq(Content!Events), NEW e \in Content!Events, Followed(cs), Rest(cs), e.responses = {},
         \A i \in DOMAIN cs : cs[i].responses = {} => cs[i].n < e.n
  PROVE  Followed(cs \o <<e>>) /\ Rest(cs \o <<e>>)
<1>1. PICK ds : ds = cs \o <<e>>
  OBVIOUS
<1>2. /\ DOMAIN ds = 1 .. Len(cs) + 1 /\ Len(cs) \in Nat /\ DOMAIN cs = 1 .. Len(cs)
      /\ ds[Len(cs) + 1] = e /\ \A i \in 1 .. Len(cs) : ds[i] = cs[i]
  BY <1>1
<1>3. Followed(ds)
  <2> SUFFICES ASSUME NEW i \in DOMAIN ds, ds[i].responses # {}
               PROVE  i > 1 /\ ds[i].responses \cap ds[i - 1].calls # {}
    BY DEF Followed
  <2>1. i \in 1 .. Len(cs) /\ ds[i] = cs[i]
    BY <1>2
  <2>2. i > 1 /\ cs[i].responses \cap cs[i - 1].calls # {}
    BY <1>2, <2>1 DEF Followed
  <2>3. ds[i - 1] = cs[i - 1]
    BY <1>2, <2>1, <2>2
  <2> QED
    BY <2>1, <2>2, <2>3
<1>4. Rest(ds)
  <2> SUFFICES ASSUME NEW i \in DOMAIN ds, NEW j \in DOMAIN ds, i < j, ds[i].responses = {}, ds[j].responses = {}
               PROVE  ds[i].n < ds[j].n
    BY DEF Rest
  <2>1. i \in DOMAIN cs /\ ds[i] = cs[i]
    BY <1>2
  <2>2. CASE j = Len(cs) + 1
    BY <1>2, <2>1, <2>2
  <2>3. CASE j # Len(cs) + 1
    <3>1. j \in DOMAIN cs /\ ds[j] = cs[j]
      BY <1>2, <2>3
    <3> QED
      BY <2>1, <3>1 DEF Rest
  <2> QED
    BY <2>2, <2>3
<1> QED
  BY <1>1, <1>3, <1>4

(* A response behind its call. *)
LEMMA AnswerComesLast ==
  ASSUME NEW cs \in Seq(Content!Events), NEW e \in Content!Events, Followed(cs), Rest(cs),
         cs # <<>>, e.responses \cap cs[Len(cs)].calls # {}
  PROVE  Followed(cs \o <<e>>) /\ Rest(cs \o <<e>>)
<1>1. PICK ds : ds = cs \o <<e>>
  OBVIOUS
<1>2. /\ DOMAIN ds = 1 .. Len(cs) + 1 /\ Len(cs) \in Nat /\ DOMAIN cs = 1 .. Len(cs)
      /\ ds[Len(cs) + 1] = e /\ \A i \in 1 .. Len(cs) : ds[i] = cs[i]
  BY <1>1
<1>l. Len(cs) > 0
  BY <1>2
<1>3. Followed(ds)
  <2> SUFFICES ASSUME NEW i \in DOMAIN ds, ds[i].responses # {}
               PROVE  i > 1 /\ ds[i].responses \cap ds[i - 1].calls # {}
    BY DEF Followed
  <2>1. CASE i = Len(cs) + 1
    <3>1. i > 1 /\ i - 1 = Len(cs) /\ Len(cs) \in 1 .. Len(cs)
      BY <1>2, <1>l, <2>1
    <3>2. ds[i] = e /\ ds[i - 1] = cs[Len(cs)]
      BY <1>2, <2>1, <3>1
    <3> QED
      BY <3>1, <3>2
  <2>2. CASE i # Len(cs) + 1
    <3>1. i \in 1 .. Len(cs) /\ ds[i] = cs[i]
      BY <1>2, <2>2
    <3>2. i > 1 /\ cs[i].responses \cap cs[i - 1].calls # {}
      BY <1>2, <3>1 DEF Followed
    <3>3. ds[i - 1] = cs[i - 1]
      BY <1>2, <3>1, <3>2
    <3> QED
      BY <3>1, <3>2, <3>3
  <2> QED
    BY <2>1, <2>2
<1>4. Rest(ds)
  <2> SUFFICES ASSUME NEW i \in DOMAIN ds, NEW j \in DOMAIN ds, i < j, ds[i].responses = {}, ds[j].responses = {}
               PROVE  ds[i].n < ds[j].n
    BY DEF Rest
  <2>1. i \in DOMAIN cs /\ ds[i] = cs[i]
    BY <1>2
  <2>2. j # Len(cs) + 1
    BY <1>2
  <2>3. j \in DOMAIN cs /\ ds[j] = cs[j]
    BY <1>2, <2>2
  <2> QED
    BY <2>1, <2>3 DEF Rest
<1> QED
  BY <1>1, <1>3, <1>4

(* Rearranged, responses are behind their calls, and the rest rises. *)
LEMMA RearrangeIs ==
  ASSUME NEW es \in Seq(Content!Events), Rising(es), NEW pick,
         \A i \in DOMAIN es : es[i].calls # {} /\ Content!Answers(es, i) # {} => pick[i] \in Content!Answers(es, i)
  PROVE  /\ Content!Rearrange(es, pick) \in Seq(Content!Events)
         /\ Followed(Content!Rearrange(es, pick)) /\ Rest(Content!Rearrange(es, pick))
<1>1. /\ Len(es) \in Nat /\ DOMAIN es = 1 .. Len(es)
      /\ \A i \in 1 .. Len(es) : es[i] \in Content!Events
  OBVIOUS
<1>2. PICK ss : ss = [i \in DOMAIN es |->
                        IF es[i].responses # {} THEN <<>>
                        ELSE IF es[i].calls # {} /\ Content!Answers(es, i) # {} THEN <<es[i], es[pick[i]]>>
                        ELSE <<es[i]>>]
  OBVIOUS
<1>3. ASSUME NEW i \in 1 .. Len(es)
      PROVE  /\ ss[i] \in Seq(Content!Events)
             /\ \/ ss[i] = <<>>
                \/ es[i].responses = {} /\ ss[i] = <<es[i]>>
                \/ /\ es[i].responses = {}
                   /\ \E e \in Content!Events : e.responses \cap es[i].calls # {} /\ ss[i] = <<es[i], e>>
  <2>1. CASE es[i].responses # {}
    BY <1>1, <1>2, <2>1
  <2>2. CASE es[i].responses = {} /\ es[i].calls # {} /\ Content!Answers(es, i) # {}
    <3>1. PICK e : e = es[pick[i]]
      OBVIOUS
    <3>2. e \in Content!Events /\ e.responses \cap es[i].calls # {}
      BY <1>1, <2>2, <3>1 DEF Content!Answers
    <3>3. ss[i] = <<es[i], e>>
      BY <1>1, <1>2, <2>2, <3>1
    <3>4. <<es[i], e>> \in Seq(Content!Events)
      BY <1>1, <3>2
    <3> QED
      BY <2>2, <3>2, <3>3, <3>4
  <2>3. CASE es[i].responses = {} /\ ~(es[i].calls # {} /\ Content!Answers(es, i) # {})
    <3>1. ss[i] = <<es[i]>>
      BY <1>1, <1>2, <2>3
    <3>2. <<es[i]>> \in Seq(Content!Events)
      BY <1>1
    <3> QED
      BY <2>3, <3>1, <3>2
  <2> QED
    BY <2>1, <2>2, <2>3
<1>4. ss \in Seq(Seq(Content!Events)) /\ Len(ss) = Len(es)
  <2>1. ss = [i \in 1 .. Len(es) |-> ss[i]]
    BY <1>1, <1>2
  <2>2. \A i \in 1 .. Len(es) : ss[i] \in Seq(Content!Events)
    BY <1>3
  <2> QED
    BY <1>1, <2>1, <2>2, SequencesType
<1>5. PICK g \in [0 .. Len(es) -> Seq(Content!Events)] : Collected(ss, g) /\ FlattenSeq(ss) = g[Len(es)]
  BY <1>4, FlattenIs
<1> DEFINE Before(cs, k) == \A i \in DOMAIN cs, y \in 1 .. Len(es) : y > k /\ cs[i].responses = {} => cs[i].n < es[y].n
<1> DEFINE Good == {k \in 0 .. Len(es) : Followed(g[k]) /\ Rest(g[k]) /\ Before(g[k], k)}
<1>6. 0 \in Good
  BY <1>1, <1>5 DEF Collected, Followed, Rest
<1>7. ASSUME NEW k \in 0 .. Len(es) - 1, k \in Good
      PROVE  k + 1 \in Good
  <2>1. k + 1 \in 1 .. Len(es) /\ (k + 1) - 1 = k /\ k + 1 \in 0 .. Len(es) /\ k \in Nat
    BY <1>1
  <2>2. g[k + 1] = g[k] \o ss[k + 1]
    BY <1>4, <1>5, <2>1 DEF Collected
  <2>3. g[k] \in Seq(Content!Events) /\ Followed(g[k]) /\ Rest(g[k]) /\ Before(g[k], k)
    BY <1>5, <1>7
  <2>4. PICK cs \in Seq(Content!Events) : cs = g[k]
    BY <2>3
  <2>5. PICK e \in Content!Events : e = es[k + 1]
    BY <1>1, <2>1
  <2>6. Before(cs, k + 1)
    BY <1>1, <2>1, <2>3, <2>4
  <2>7. \A i \in DOMAIN cs : cs[i].responses = {} => cs[i].n < e.n
    BY <1>1, <2>1, <2>3, <2>4, <2>5
  <2>8. Followed(cs) /\ Rest(cs)
    BY <2>3, <2>4
  <2>9. \A y \in 1 .. Len(es) : y > k + 1 => e.n < es[y].n
    BY <1>1, <2>1, <2>5 DEF Rising
  <2> HIDE DEF Good
  <2>10. CASE ss[k + 1] = <<>>
    <3>1. g[k + 1] = cs
      BY <2>2, <2>4, <2>10
    <3> QED
      BY <2>1, <2>6, <2>8, <3>1 DEF Good
  <2>11. CASE e.responses = {} /\ ss[k + 1] = <<e>>
    <3>1. g[k + 1] = cs \o <<e>>
      BY <2>2, <2>4, <2>11
    <3>2. Followed(g[k + 1]) /\ Rest(g[k + 1])
      BY <2>7, <2>8, <2>11, <3>1, PlainComesLast
    <3>3. Before(g[k + 1], k + 1)
      <4>1. \A i \in DOMAIN (cs \o <<e>>) : (cs \o <<e>>)[i] = e \/ \E j \in DOMAIN cs : (cs \o <<e>>)[i] = cs[j]
        OBVIOUS
      <4> QED
        BY <2>1, <2>6, <2>9, <3>1, <4>1
    <3> QED
      BY <2>1, <3>2, <3>3 DEF Good
  <2>12. ASSUME e.responses = {},
                NEW r \in Content!Events, r.responses \cap e.calls # {}, ss[k + 1] = <<e, r>>
         PROVE  k + 1 \in Good
    <3>1. PICK ds : ds = cs \o <<e>>
      OBVIOUS
    <3>2. ds \in Seq(Content!Events) /\ ds # <<>> /\ ds[Len(ds)] = e
      BY <3>1
    <3>3. Followed(ds) /\ Rest(ds)
      BY <2>7, <2>8, <2>12, <3>1, PlainComesLast
    <3>4. g[k + 1] = ds \o <<r>>
      BY <2>2, <2>4, <2>12, <3>1
    <3>5. Followed(g[k + 1]) /\ Rest(g[k + 1])
      BY <2>12, <3>2, <3>3, <3>4, AnswerComesLast
    <3>6. Before(g[k + 1], k + 1)
      <4>1. \A i \in DOMAIN (cs \o <<e>>) : (cs \o <<e>>)[i] = e \/ \E j \in DOMAIN cs : (cs \o <<e>>)[i] = cs[j]
        OBVIOUS
      <4>2. \A i \in DOMAIN (ds \o <<r>>) : (ds \o <<r>>)[i] = r \/ \E j \in DOMAIN ds : (ds \o <<r>>)[i] = ds[j]
        BY <3>2
      <4>3. r.responses # {}
        BY <2>12
      <4>4. Before(ds, k + 1)
        BY <2>1, <2>6, <2>9, <3>1, <4>1
      <4> QED
        BY <3>4, <4>2, <4>3, <4>4
    <3> QED
      BY <2>1, <3>5, <3>6 DEF Good
  <2> QED
    BY <1>3, <2>1, <2>5, <2>10, <2>11, <2>12
<1> HIDE DEF Good
<1>8. Len(es) \in Good
  <2>1. 0 .. Len(es) \subseteq Good
    BY <1>1, <1>6, <1>7, Upwards0
  <2> QED
    BY <1>1, <2>1
<1>9. Content!Rearrange(es, pick) = FlattenSeq(ss)
  BY <1>2, FlattenContent DEF Content!Rearrange
<1> QED
  BY <1>1, <1>5, <1>8, <1>9 DEF Good

(* An event is added to the session. *)
LEMMA EventAdded ==
  ASSUME ContentsInv, NEW e \in Content!Events, e.n = Len(w1) + 1, Content!Add(e)
  PROVE  ContentsInv'
<1>a. w1 \in Seq(Content!Events)
  BY DEF ContentsInv, Content!TypeOK
<1>1. /\ Len(w1) \in Nat /\ w1' = Append(w1, e) /\ Len(w1) < MaxEvents
      /\ w2' = w2 /\ w3' = w3 /\ w4' = w4
  BY <1>a DEF Content!Add
<1>2. w1' \in Seq(Content!Events) /\ Len(w1') = Len(w1) + 1
  BY <1>a, <1>1
<1>3. Content!TypeOK'
  <2>1. Len(w1') <= MaxEvents
    BY <1>1, <1>2, Bounds
  <2> QED
    BY <1>1, <1>2, <2>1 DEF ContentsInv, Content!TypeOK
<1>4. Content!ResponsesFollowCalls'
  BY <1>1 DEF ContentsInv, Content!ResponsesFollowCalls
<1>5. Numbered'
  BY <1>a, <1>1 DEF ContentsInv, Numbered
<1> QED
  BY <1>3, <1>4, <1>5 DEF ContentsInv

(* Each step keeps the contents in order. *)
LEMMA ContentsInductive ==
  ASSUME ContentsInv, Content!Next
  PROVE  ContentsInv'
<1>a. w1 \in Seq(Content!Events)
  BY DEF ContentsInv, Content!TypeOK
<1>1. w1 \in Seq(Content!Events) /\ Len(w1) \in Nat
  BY <1>a
<1>2. ASSUME NEW author \in {"user", "a", "b"}, NEW on \in Content!EventBranches, NEW text \in BOOLEAN,
             NEW calls \in SUBSET CallIds, NEW responses \in SUBSET CallIds, NEW auth \in BOOLEAN,
             Content!Add(Content!Event(author, on, text, calls, responses, auth))
      PROVE  ContentsInv'
  <2>1. PICK e : e = Content!Event(author, on, text, calls, responses, auth)
    OBVIOUS
  <2>2. Len(w1) + 1 \in 1 .. MaxEvents
    <3>1. Len(w1) < MaxEvents
      BY <1>2 DEF Content!Add
    <3> QED
      BY <1>1, <3>1, Bounds
  <2>3. e \in Content!Events /\ e.n = Len(w1) + 1
    BY <1>2, <2>1, <2>2 DEF Content!Event, Content!Events
  <2> QED
    BY <1>2, <2>1, <2>3, EventAdded
<1>3. Content!Called \subseteq CallIds
  <2>1. ASSUME NEW i \in DOMAIN w1
        PROVE  w1[i].calls \subseteq CallIds
    <3>1. w1[i] \in Content!Events
      BY <1>1
    <3> QED
      BY <3>1 DEF Content!Events
  <2> QED
    BY <2>1 DEF Content!Called
<1>b. "" \in Content!EventBranches
  BY DEF Content!EventBranches
<1>4. CASE Content!Say
  BY <1>2, <1>4 DEF Content!Say
<1>5. CASE Content!Call
  <2>1. PICK ids \in SUBSET (CallIds \ Content!Called) \ {{}}, author \in {"a", "b"}, text \in BOOLEAN, auth \in BOOLEAN :
          Content!Add(Content!Event(author, "", text, ids, {}, auth))
    BY <1>5 DEF Content!Call
  <2> QED
    BY <1>2, <1>b, <2>1
<1>6. CASE Content!Respond
  <2>1. PICK ids \in SUBSET Content!Called \ {{}}, author \in {"user", "a"}, text \in BOOLEAN :
          Content!Add(Content!Event(author, "", text, {}, ids, FALSE))
    BY <1>6 DEF Content!Respond
  <2>2. ids \in SUBSET CallIds
    BY <1>3
  <2> QED
    BY <1>2, <1>b, <2>1, <2>2
<1>7. CASE Content!GetContents
  <2>1. PICK es : es = Chosen
    OBVIOUS
  <2>2. es \in Seq(Content!Events) /\ Rising(es)
    BY <2>1, ChosenRise
  <2>3. w1' = w1 /\ w2' = w2
    BY <1>7 DEF Content!GetContents
  <2>4. \/ /\ w4' = "built"
           /\ \E pick : /\ \A i \in DOMAIN es : es[i].calls # {} /\ Content!Answers(es, i) # {}
                                                  => pick[i] \in Content!Answers(es, i)
                        /\ w3' = Content!Rearrange(es, pick)
        \/ w4' = "panicked" /\ w3' = w3 /\ w4 = "none"
    BY <1>7, <2>1 DEF Content!GetContents, Chosen
  <2>5. w3' \in Seq(Content!Events) /\ Followed(w3') /\ Rest(w3') /\ w4' \in {"built", "panicked"}
        /\ (w4' = "panicked" => w3' = <<>>)
    <3>1. CASE w4' = "built"
      BY <2>2, <2>4, <3>1, RearrangeIs
    <3>2. CASE w4' = "panicked" /\ w3' = w3 /\ w4 = "none"
      BY <3>2 DEF ContentsInv, Content!TypeOK, Content!ResponsesFollowCalls, Followed, Rest
    <3> QED
      BY <2>4, <3>1, <3>2
  <2>6. Content!TypeOK'
    BY <2>3, <2>5 DEF ContentsInv, Content!TypeOK
  <2>7. Content!ResponsesFollowCalls'
    BY <2>5 DEF Followed, Rest, Content!ResponsesFollowCalls
  <2>8. Numbered'
    BY <2>3 DEF ContentsInv, Numbered
  <2> QED
    BY <2>6, <2>7, <2>8 DEF ContentsInv
<1> QED
  BY <1>4, <1>5, <1>6, <1>7 DEF Content!Next

-----------------------------------------------------------------------------
(* The models.                                                             *)

ModelContents == [role : {"user", "system", "model", "assistant"}, parts : Seq(Model!Parts)]
Answering == {"model", "assistant"}

(* What a model answered has only texts. *)
AnswersOf(h) == \A i \in DOMAIN h :
  h[i].role \in Answering => \A j \in DOMAIN h[i].parts : h[i].parts[j].kind = "text"

(* Model!Turns of any history. *)
TurnsOf(h) == Cardinality({i \in DOMAIN h : h[i].role \in Answering})

(* They are the turns of the history. *)
LEMMA TurnsAre == Model!Turns = TurnsOf(w2)
<1>1. \A S : Model!Cardinality(S) = Cardinality(S)
  BY DEF Cardinality, Model!Cardinality
<1> QED
  BY <1>1 DEF Model!Turns, TurnsOf, Answering

(* A history that a request can be made of. *)
HistoryOK(h) == h \in Seq(ModelContents) /\ AnswersOf(h)

(* A history grows by a content. *)
LEMMA HistoryGrows ==
  ASSUME NEW h, HistoryOK(h), NEW c \in ModelContents,
         c.role \in Answering => \A j \in DOMAIN c.parts : c.parts[j].kind = "text"
  PROVE  /\ HistoryOK(Append(h, c)) /\ TurnsOf(h) \in Nat
         /\ TurnsOf(Append(h, c)) = TurnsOf(h) + (IF c.role \in Answering THEN 1 ELSE 0)
<1>0. h \in Seq(ModelContents)
  BY DEF HistoryOK
<1>1. PICK k : k = Append(h, c)
  OBVIOUS
<1>2. /\ k \in Seq(ModelContents) /\ DOMAIN k = 1 .. Len(h) + 1 /\ Len(h) \in Nat /\ DOMAIN h = 1 .. Len(h)
      /\ k[Len(h) + 1] = c /\ \A i \in 1 .. Len(h) : k[i] = h[i]
  BY <1>0, <1>1
<1>3. AnswersOf(k)
  BY <1>2 DEF AnswersOf, HistoryOK
<1>4. PICK A : A = {i \in DOMAIN h : h[i].role \in Answering}
  OBVIOUS
<1>5. PICK B : B = {i \in DOMAIN k : k[i].role \in Answering}
  OBVIOUS
<1>6. IsFiniteSet(A) /\ Cardinality(A) \in Nat
  <2>1. IsFiniteSet(1 .. Len(h))
    BY <1>2, FS_Interval
  <2>2. A \subseteq 1 .. Len(h)
    BY <1>2, <1>4
  <2> QED
    BY <2>1, <2>2, FS_Subset, FS_CardinalityType
<1>7. CASE c.role \in Answering
  <2>1. B = A \cup {Len(h) + 1} /\ Len(h) + 1 \notin A
    BY <1>2, <1>4, <1>5, <1>7
  <2>2. Cardinality(B) = Cardinality(A) + 1
    BY <1>6, <2>1, FS_AddElement
  <2>3. TurnsOf(h) = Cardinality(A) /\ TurnsOf(k) = Cardinality(B)
    BY <1>4, <1>5 DEF TurnsOf
  <2>4. HistoryOK(k)
    BY <1>2, <1>3 DEF HistoryOK
  <2>5. (IF c.role \in Answering THEN 1 ELSE 0) = 1
    BY <1>7
  <2> QED
    BY <1>1, <1>6, <2>2, <2>3, <2>4, <2>5
<1>8. CASE c.role \notin Answering
  <2>1. B = A
    BY <1>2, <1>4, <1>5, <1>8
  <2>2. TurnsOf(h) = Cardinality(A) /\ TurnsOf(k) = Cardinality(A)
    BY <1>4, <1>5, <2>1 DEF TurnsOf
  <2>3. HistoryOK(k)
    BY <1>2, <1>3 DEF HistoryOK
  <2>4. Cardinality(A) = Cardinality(A) + 0
    BY <1>6
  <2>5. (IF c.role \in Answering THEN 1 ELSE 0) = 0
    BY <1>8
  <2> QED
    BY <1>1, <1>6, <2>2, <2>3, <2>4, <2>5
<1> QED
  BY <1>7, <1>8

(* Gemini's history may grow by the content it had to add. *)
LEMMA UserAppended ==
  ASSUME NEW h, HistoryOK(h)
  PROVE  /\ HistoryOK(Model!appendUserContent(h)) /\ TurnsOf(h) \in Nat
         /\ TurnsOf(Model!appendUserContent(h)) = TurnsOf(h)
<1>1. PICK c : c = Model!Content("user", <<Model!Part("request", <<>>)>>)
  OBVIOUS
<1>2. c \in ModelContents /\ c.role = "user"
  <2>1. Model!Part("request", <<>>) \in Model!Parts
    BY DEF Model!Part, Model!Parts, Model!Text
  <2>2. <<Model!Part("request", <<>>)>> \in Seq(Model!Parts)
    BY <2>1
  <2> QED
    BY <1>1, <2>2 DEF Model!Content, ModelContents
<1>3. c.role \notin Answering
  BY <1>2 DEF Answering
<1>4. /\ HistoryOK(Append(h, c)) /\ TurnsOf(h) \in Nat
      /\ TurnsOf(Append(h, c)) = TurnsOf(h) + (IF c.role \in Answering THEN 1 ELSE 0)
  BY <1>2, <1>3, HistoryGrows
<1>5. TurnsOf(Append(h, c)) = TurnsOf(h)
  BY <1>3, <1>4
<1>6. Model!appendUserContent(h) \in {h, Append(h, c)}
  BY <1>1 DEF Model!appendUserContent
<1> QED
  BY <1>4, <1>5, <1>6

(* An answer of texts. *)
LEMMA AnswerIs ==
  ASSUME NEW h, HistoryOK(h), NEW c, c.role \in Answering,
         c = [role |-> c.role, parts |-> c.parts], c.parts \in Seq([kind : {"text"}, text : Model!Text])
  PROVE  HistoryOK(Append(h, c)) /\ TurnsOf(Append(h, c)) = TurnsOf(h) + 1
<1> DEFINE T == [kind : {"text"}, text : Model!Text]
<1>1. PICK ps \in Seq(T) : ps = c.parts
  OBVIOUS
<1>2. \A p \in T : p \in Model!Parts /\ p.kind = "text"
  BY DEF Model!Parts
<1> HIDE DEF T
<1>3. ps \in Seq(Model!Parts) /\ \A j \in DOMAIN ps : ps[j].kind = "text"
  <2>1. Len(ps) \in Nat /\ DOMAIN ps = 1 .. Len(ps) /\ \A j \in DOMAIN ps : ps[j] \in T
    OBVIOUS
  <2>2. \A j \in DOMAIN ps : ps[j] \in Model!Parts /\ ps[j].kind = "text"
    BY <1>2, <2>1
  <2>3. ps = [j \in 1 .. Len(ps) |-> ps[j]]
    BY <2>1
  <2> QED
    BY <2>1, <2>2, <2>3, SequencesType
<1>4. c \in ModelContents
  BY <1>1, <1>3 DEF ModelContents, Answering
<1>5. \A j \in DOMAIN c.parts : c.parts[j].kind = "text"
  BY <1>1, <1>3
<1>6. /\ HistoryOK(Append(h, c))
      /\ TurnsOf(Append(h, c)) = TurnsOf(h) + (IF c.role \in Answering THEN 1 ELSE 0)
  BY <1>4, <1>5, HistoryGrows
<1> QED
  BY <1>6

(* What can be read of a message of Claude's is its texts. *)
LEMMA ResponseIs ==
  ASSUME NEW blocks \in Seq(Model!Blocks)
  PROVE  /\ Model!messageToResponse(blocks).role = "model"
         /\ Model!messageToResponse(blocks).parts \in Seq([kind : {"text"}, text : Model!Text])
         /\ Model!messageToResponse(blocks)
              = [role |-> "model", parts |-> Model!messageToResponse(blocks).parts]
<1> DEFINE T == [kind : {"text"}, text : Model!Text]
<1>1. Len(blocks) \in Nat /\ DOMAIN blocks = 1 .. Len(blocks) /\ \A i \in 1 .. Len(blocks) : blocks[i] \in Model!Blocks
  OBVIOUS
<1>2. PICK ss : ss = [i \in DOMAIN blocks |-> Model!contentBlockToPart(blocks[i])]
  OBVIOUS
<1>3. ASSUME NEW i \in 1 .. Len(blocks)
      PROVE  ss[i] \in Seq(T)
  <2>1. ss[i] = Model!contentBlockToPart(blocks[i])
    BY <1>1, <1>2
  <2>2. PICK b \in Model!Blocks : b = blocks[i]
    BY <1>1
  <2>3. CASE b.kind = "text"
    <3>1. b \in T
      BY <2>3 DEF Model!Blocks
    <3>2. ss[i] = <<b>>
      BY <2>1, <2>2, <2>3 DEF Model!contentBlockToPart
    <3> HIDE DEF T
    <3> QED
      BY <3>1, <3>2
  <2>4. CASE b.kind # "text"
    <3>1. ss[i] = <<>>
      BY <2>1, <2>2, <2>4 DEF Model!contentBlockToPart
    <3> QED
      BY <3>1
  <2> QED
    BY <2>3, <2>4
<1>4. ss = [i \in 1 .. Len(blocks) |-> ss[i]]
  BY <1>1, <1>2
<1> HIDE DEF T
<1>5. ss \in Seq(Seq(T))
  BY <1>1, <1>3, <1>4, SequencesType
<1>6. Model!FlattenSeq(ss) \in Seq(T)
  BY <1>5, FlattenType, FlattenModel
<1>7. Model!messageToResponse(blocks) = [role |-> "model", parts |-> Model!FlattenSeq(ss)]
  BY <1>2 DEF Model!messageToResponse, Model!Content
<1> QED
  BY <1>6, <1>7 DEF T

(* Model!Aggregates of anything that was yielded. *)
AggregatesOf(ys) ==
  FlattenSeq([i \in DOMAIN ys |-> IF ys[i].kind = "aggregate" THEN ys[i].texts[1] ELSE <<>>])

(* Aggregates have a text. *)
Whole(ys) == ys \in Seq(Model!Items) /\ \A i \in DOMAIN ys : ys[i].kind = "aggregate" => ys[i].texts # <<>>

(* Every partial text was collected. *)
Closed(ys) == \A i \in DOMAIN ys :
  ys[i].kind = "partial" => \E k \in DOMAIN ys : k > i /\ ys[k].kind = "aggregate"

(* It was before anything else but sound came. *)
Ordered(ys) == \A i, j \in DOMAIN ys :
  i < j /\ ys[i].kind = "partial" /\ ys[j].kind \in {"call", "failure"}
    => \E k \in i + 1 .. j : ys[k].kind = "aggregate"

(* What is collected grows with the aggregates. *)
LEMMA AggregatesGrow ==
  ASSUME NEW ys, Whole(ys), NEW y \in Model!Items, y.kind = "aggregate" => y.texts # <<>>
  PROVE  /\ Whole(Append(ys, y)) /\ AggregatesOf(ys) \in Seq(Nat)
         /\ AggregatesOf(Append(ys, y))
              = AggregatesOf(ys) \o (IF y.kind = "aggregate" THEN y.texts[1] ELSE <<>>)
<1> DEFINE Piece(z) == IF z.kind = "aggregate" THEN z.texts[1] ELSE <<>>
<1>0. ys \in Seq(Model!Items)
  BY DEF Whole
<1>1. PICK zs : zs = Append(ys, y)
  OBVIOUS
<1>2. /\ zs \in Seq(Model!Items) /\ DOMAIN zs = 1 .. Len(ys) + 1 /\ Len(ys) \in Nat /\ DOMAIN ys = 1 .. Len(ys)
      /\ zs[Len(ys) + 1] = y /\ Len(zs) = Len(ys) + 1 /\ \A i \in 1 .. Len(ys) : zs[i] = ys[i]
      /\ \A i \in 1 .. Len(ys) : ys[i] \in Model!Items
  BY <1>0, <1>1
<1>3. Whole(zs)
  <2>1. ASSUME NEW i \in DOMAIN zs, zs[i].kind = "aggregate"
        PROVE  zs[i].texts # <<>>
    BY <1>2, <2>1 DEF Whole
  <2> QED
    BY <1>2, <2>1 DEF Whole
<1>4. ASSUME NEW z \in Model!Items, z.kind = "aggregate" => z.texts # <<>>
      PROVE  Piece(z) \in Seq(Nat)
  <2>1. z.texts \in Seq(Seq(Nat))
    BY DEF Model!Items, Model!Text
  <2>2. z.texts # <<>> => z.texts[1] \in Seq(Nat)
    BY <2>1
  <2> QED
    BY <1>4, <2>2
<1>5. PICK ss : ss = [i \in DOMAIN ys |-> Piece(ys[i])]
  OBVIOUS
<1>6. PICK tt : tt = [i \in DOMAIN zs |-> Piece(zs[i])]
  OBVIOUS
<1>7. AggregatesOf(ys) = FlattenSeq(ss) /\ AggregatesOf(zs) = FlattenSeq(tt)
  BY <1>5, <1>6 DEF AggregatesOf
<1>8. ASSUME NEW i \in 1 .. Len(ys)
      PROVE  Piece(ys[i]) \in Seq(Nat)
  <2>1. ys[i] \in Model!Items /\ (ys[i].kind = "aggregate" => ys[i].texts # <<>>)
    BY <1>2 DEF Whole
  <2> QED
    BY <1>4, <2>1
<1>9. Piece(y) \in Seq(Nat)
  BY <1>4
<1>p. PICK p : p = Piece(y)
  OBVIOUS
<1>10. \A i \in 1 .. Len(ys) : ss[i] = Piece(ys[i])
  BY <1>2, <1>5
<1>11. \A i \in 1 .. Len(ys) : tt[i] = Piece(ys[i])
  BY <1>2, <1>6
<1>12. tt[Len(ys) + 1] = p
  BY <1>2, <1>6, <1>p
<1>13. ss = [i \in 1 .. Len(ys) |-> ss[i]] /\ tt = [i \in 1 .. Len(ys) + 1 |-> tt[i]]
  BY <1>2, <1>5, <1>6
<1>14. \A i \in 1 .. Len(ys) : ss[i] \in Seq(Nat) /\ tt[i] = ss[i]
  BY <1>8, <1>10, <1>11
<1>15. p \in Seq(Nat)
  BY <1>9, <1>p
<1> HIDE DEF Piece
<1>16. ss \in Seq(Seq(Nat)) /\ Len(ss) = Len(ys)
  <2>1. \A i \in 1 .. Len(ys) : ss[i] \in Seq(Nat)
    BY <1>14
  <2>2. ss = [i \in 1 .. Len(ys) |-> ss[i]] /\ Len(ys) \in Nat
    BY <1>2, <1>13
  <2> QED
    BY <2>1, <2>2, SequencesType
<1>17. tt = Append(ss, p)
  <2>1. PICK uu : uu = Append(ss, p)
    OBVIOUS
  <2>2. /\ uu = [i \in 1 .. Len(ys) + 1 |-> uu[i]] /\ uu[Len(ys) + 1] = p
        /\ \A i \in 1 .. Len(ys) : uu[i] = ss[i]
    <3>1. PICK n \in Nat : n = Len(ss)
      BY <1>16
    <3>2. uu \in Seq(Seq(Nat)) /\ Len(uu) = n + 1 /\ uu[n + 1] = p /\ \A i \in 1 .. n : uu[i] = ss[i]
      BY <1>15, <1>16, <2>1, <3>1
    <3>3. uu = [i \in 1 .. n + 1 |-> uu[i]]
      BY <3>1, <3>2
    <3>4. n = Len(ys)
      BY <1>16, <3>1
    <3> QED
      BY <3>2, <3>3, <3>4
  <2>3. tt = [i \in 1 .. Len(ys) + 1 |-> tt[i]] /\ Len(ys) \in Nat
    BY <1>2, <1>13
  <2>4. \A i \in 1 .. Len(ys) + 1 : tt[i] = uu[i]
    BY <1>12, <1>14, <2>2, <2>3, SMTT(40)
  <2>5. tt = uu
    BY <2>2, <2>3, <2>4
  <2> QED
    BY <2>1, <2>5
<1>18. FlattenSeq(tt) = FlattenSeq(ss) \o p /\ FlattenSeq(ss) \in Seq(Nat)
  BY <1>15, <1>16, <1>17, FlattenAppend
<1> QED
  BY <1>1, <1>3, <1>7, <1>18, <1>p DEF Piece

(* What follows keeps the order in which texts are collected. *)
LEMMA OrderGrows ==
  ASSUME NEW ys \in Seq(Model!Items), NEW y \in Model!Items, Ordered(ys),
         y.kind \in {"call", "failure"} => Closed(ys)
  PROVE  /\ Ordered(Append(ys, y))
         /\ y.kind = "aggregate" \/ (Closed(ys) /\ y.kind # "partial") => Closed(Append(ys, y))
<1>1. PICK zs : zs = Append(ys, y)
  OBVIOUS
<1>2. /\ DOMAIN zs = 1 .. Len(ys) + 1 /\ Len(ys) \in Nat /\ DOMAIN ys = 1 .. Len(ys)
      /\ zs[Len(ys) + 1] = y /\ \A i \in 1 .. Len(ys) : zs[i] = ys[i]
  BY <1>1
<1>3. Ordered(zs)
  <2> SUFFICES ASSUME NEW i \in DOMAIN zs, NEW j \in DOMAIN zs,
                      i < j, zs[i].kind = "partial", zs[j].kind \in {"call", "failure"}
               PROVE  \E k \in i + 1 .. j : zs[k].kind = "aggregate"
    BY DEF Ordered
  <2>1. i \in 1 .. Len(ys) /\ zs[i] = ys[i]
    BY <1>2
  <2>2. CASE j = Len(ys) + 1
    <3>1. Closed(ys)
      BY <1>2, <2>2
    <3>2. PICK k \in DOMAIN ys : k > i /\ ys[k].kind = "aggregate"
      BY <1>2, <2>1, <3>1 DEF Closed
    <3>3. k \in i + 1 .. j /\ zs[k] = ys[k]
      BY <1>2, <2>1, <2>2, <3>2
    <3> QED
      BY <3>2, <3>3
  <2>3. CASE j # Len(ys) + 1
    <3>1. j \in 1 .. Len(ys) /\ zs[j] = ys[j]
      BY <1>2, <2>3
    <3>2. PICK k \in i + 1 .. j : ys[k].kind = "aggregate"
      BY <1>2, <2>1, <3>1 DEF Ordered
    <3>3. k \in 1 .. Len(ys)
      BY <1>2, <2>1, <3>1
    <3> QED
      BY <1>2, <3>2, <3>3
  <2> QED
    BY <2>2, <2>3
<1>4. ASSUME y.kind = "aggregate" \/ (Closed(ys) /\ y.kind # "partial")
      PROVE  Closed(zs)
  <2> SUFFICES ASSUME NEW i \in DOMAIN zs, zs[i].kind = "partial"
               PROVE  \E k \in DOMAIN zs : k > i /\ zs[k].kind = "aggregate"
    BY DEF Closed
  <2>1. i \in 1 .. Len(ys) /\ zs[i] = ys[i]
    BY <1>2, <1>4
  <2>2. CASE y.kind = "aggregate"
    <3>1. Len(ys) + 1 \in DOMAIN zs /\ Len(ys) + 1 > i
      BY <1>2, <2>1
    <3> QED
      BY <1>2, <2>2, <3>1
  <2>3. CASE Closed(ys)
    <3>1. PICK k \in DOMAIN ys : k > i /\ ys[k].kind = "aggregate"
      BY <1>2, <2>1, <2>3 DEF Closed
    <3>2. k \in DOMAIN zs /\ zs[k] = ys[k]
      BY <1>2
    <3> QED
      BY <3>1, <3>2
  <2> QED
    BY <1>4, <2>2, <2>3
<1> QED
  BY <1>1, <1>3, <1>4

(* The variables of a stream and of the environment have their types. *)
StreamTypes ==
  /\ w1 \in {"gemini", "claude"}
  /\ w4 \in {"new", "idle", "stream", "finished", "failed", "stopped", "panicked"}
  /\ w5 \in IF w1 = "gemini" THEN Model!Text ELSE Seq(Model!Blocks)
  /\ w6 \in 0 .. MaxChunks
  /\ w7 \in {"none", "block", "STOP", "MAX_TOKENS", "end_turn", "tool_use", "max_tokens"}
  /\ w8 \in Seq(Model!Items)

(* A response that is on its way will find a place in the history, which   *)
(* is what was sent.                                                       *)
Answered ==
  /\ w4 \in {"stream", "finished", "stopped"} => TurnsOf(w2) < MaxTurns
  /\ w4 = "stream" => w3 = Model!Request

StartsEmpty == w4 \in {"new", "idle"} => w5 = <<>> /\ w6 = 0 /\ w7 = "none" /\ w8 = <<>>

(* Of Gemini: what TextIsCollectedOnce needs to go on holding.             *)
GeminiInv == w1 = "gemini" =>
  /\ Whole(w8) /\ Ordered(w8)
  /\ w4 = "stream" => AggregatesOf(w8) \o w5 = [i \in 1 .. w6 |-> i] /\ (w5 = <<>> => Closed(w8))
  /\ w4 = "finished" /\ w7 = "STOP" => AggregatesOf(w8) = [i \in 1 .. w6 |-> i]

HasText(blocks) == \E i \in DOMAIN blocks : blocks[i].text # <<>>

(* Of Claude: what LastResponseIsWhole needs to go on holding.             *)
ClaudeInv == w1 = "claude" =>
  /\ w7 = "block" => w5 # <<>>
  /\ w6 > 0 => HasText(w5)
  /\ w6 > 0 /\ (w4 = "finished" \/ (w4 = "stream" /\ w7 # "block")) =>
       w8 # <<>> /\ w8[Len(w8)].texts = Model!Texts(w5)

HistoryInv == HistoryOK(w2) /\ TurnsOf(w2) \in Nat /\ TurnsOf(w2) <= MaxTurns

ModelsInv == HistoryInv /\ StreamTypes /\ Answered /\ StartsEmpty /\ GeminiInv /\ ClaudeInv

(* Nothing was asked yet. *)
LEMMA ModelsStart ==
  ASSUME Model!Init
  PROVE  ModelsInv
<1>1. w1 \in {"gemini", "claude"} /\ w2 = <<>> /\ w4 = "new" /\ w5 = <<>> /\ w6 = 0 /\ w7 = "none" /\ w8 = <<>>
  BY DEF Model!Init
<1>2. HistoryInv
  <2>1. DOMAIN w2 = {} /\ w2 \in Seq(ModelContents)
    BY <1>1
  <2>2. {i \in DOMAIN w2 : w2[i].role \in Answering} = {}
    BY <2>1
  <2>3. TurnsOf(w2) = 0
    BY <2>2, FS_EmptySet DEF TurnsOf
  <2> QED
    BY <2>1, <2>3, Bounds DEF HistoryInv, HistoryOK, AnswersOf
<1>3. StreamTypes
  <2>1. w5 \in Seq(Nat) /\ w5 \in Seq(Model!Blocks) /\ w8 \in Seq(Model!Items)
    BY <1>1
  <2>2. w6 \in 0 .. MaxChunks
    BY <1>1, Bounds
  <2> QED
    BY <1>1, <2>1, <2>2 DEF StreamTypes, Model!Text
<1>4. Answered /\ StartsEmpty /\ ClaudeInv
  BY <1>1 DEF Answered, StartsEmpty, ClaudeInv
<1>5. GeminiInv
  <2>1. DOMAIN w8 = {} /\ w8 \in Seq(Model!Items)
    BY <1>1
  <2> QED
    BY <1>1, <2>1 DEF GeminiInv, Whole, Ordered
<1> QED
  BY <1>2, <1>3, <1>4, <1>5 DEF ModelsInv

(* What the invariant says of the variables that it types. *)
LEMMA ModelIs ==
  ASSUME ModelsInv
  PROVE  /\ w1 \in {"gemini", "claude"} /\ w8 \in Seq(Model!Items)
         /\ w6 \in Nat /\ w6 <= MaxChunks
         /\ w1 = "gemini" => w5 \in Seq(Nat)
         /\ w1 = "claude" => w5 \in Seq(Model!Blocks)
<1>1. w6 \in 0 .. MaxChunks
  BY DEF ModelsInv, StreamTypes
<1> QED
  BY <1>1, Bounds DEF ModelsInv, StreamTypes, Model!Text

(* A step of a stream leaves the history alone. *)
LEMMA StreamGoes ==
  ASSUME ModelsInv, w4 = "stream", w1' = w1, w2' = w2, w3' = w3,
         w4' \in {"stream", "finished", "failed", "stopped", "panicked"}
  PROVE  HistoryInv' /\ Answered' /\ StartsEmpty'
<1>1. HistoryInv'
  BY DEF ModelsInv, HistoryInv
<1>2. Model!Request' = Model!Request
  BY DEF Model!Request
<1>3. Answered'
  BY <1>2 DEF ModelsInv, Answered
<1>4. StartsEmpty'
  BY DEF StartsEmpty
<1> QED
  BY <1>1, <1>3, <1>4

(* The first of one, of two and both of two. *)
LEMMA Firsts ==
  ASSUME NEW T, NEW y \in T, NEW z \in T
  PROVE  SubSeq(<<y>>, 1, 1) = <<y>> /\ SubSeq(<<y, z>>, 1, 1) = <<y>> /\ SubSeq(<<y, z>>, 1, 2) = <<y, z>>
<1>1. ASSUME NEW s \in Seq(T), NEW n \in 1 .. Len(s)
      PROVE  SubSeq(s, 1, n) = [i \in 1 .. n |-> s[i]]
  <2>1. SubSeq(s, 1, n) \in Seq(T) /\ Len(SubSeq(s, 1, n)) = n /\ \A i \in 1 .. n : SubSeq(s, 1, n)[i] = s[i]
    OBVIOUS
  <2> QED
    BY <2>1
<1>2. [i \in 1 .. 1 |-> <<y>>[i]] = <<y>> /\ [i \in 1 .. 1 |-> <<y, z>>[i]] = <<y>>
      /\ [i \in 1 .. 2 |-> <<y, z>>[i]] = <<y, z>>
  OBVIOUS
<1>3. <<y>> \in Seq(T) /\ 1 \in 1 .. Len(<<y>>)
  OBVIOUS
<1>4. <<y, z>> \in Seq(T) /\ 1 \in 1 .. Len(<<y, z>>) /\ 2 \in 1 .. Len(<<y, z>>)
  OBVIOUS
<1>5. SubSeq(<<y>>, 1, 1) = <<y>>
  BY <1>1, <1>2, <1>3
<1>6. SubSeq(<<y, z>>, 1, 1) = <<y>>
  BY <1>1, <1>2, <1>4
<1>7. SubSeq(<<y, z>>, 1, 2) = <<y, z>>
  BY <1>1, <1>2, <1>4
<1> QED
  BY <1>5, <1>6, <1>7

(* One response is passed on, perhaps the last that is wanted. *)
LEMMA YieldsOne ==
  ASSUME NEW y \in Model!Items, w8 \in Seq(Model!Items), Model!Yield(<<y>>)
  PROVE  w8' = Append(w8, y) /\ w4' \in {w4, "stopped"}
<1>1. CASE w8' = w8 \o <<y>> /\ UNCHANGED w4
  BY <1>1
<1>2. ASSUME NEW n \in 1 .. Len(<<y>>), w8' = w8 \o SubSeq(<<y>>, 1, n), w4' = "stopped"
      PROVE  w8' = Append(w8, y)
  <2>1. n = 1
    OBVIOUS
  <2>2. SubSeq(<<y>>, 1, 1) = <<y>>
    BY Firsts
  <2> QED
    BY <1>2, <2>1, <2>2
<1> QED
  BY <1>1, <1>2 DEF Model!Yield

(* Two are, or the consumer stops after the first. *)
LEMMA YieldsTwo ==
  ASSUME NEW y \in Model!Items, NEW z \in Model!Items, w8 \in Seq(Model!Items), Model!Yield(<<y, z>>)
  PROVE  \/ w8' = Append(Append(w8, y), z) /\ w4' \in {w4, "stopped"}
         \/ w8' = Append(w8, y) /\ w4' = "stopped"
<1>1. w8 \o <<y, z>> = Append(Append(w8, y), z)
  OBVIOUS
<1>2. w8 \o <<y>> = Append(w8, y)
  OBVIOUS
<1>3. CASE w8' = w8 \o <<y, z>> /\ UNCHANGED w4
  BY <1>1, <1>3
<1>4. ASSUME NEW n \in 1 .. Len(<<y, z>>), w8' = w8 \o SubSeq(<<y, z>>, 1, n), w4' = "stopped"
      PROVE  w8' = Append(Append(w8, y), z) \/ w8' = Append(w8, y)
  <2>1. n = 1 \/ n = 2
    OBVIOUS
  <2>2. SubSeq(<<y, z>>, 1, 1) = <<y>> /\ SubSeq(<<y, z>>, 1, 2) = <<y, z>>
    BY Firsts
  <2> QED
    BY <1>1, <1>2, <1>4, <2>1, <2>2
<1> QED
  BY <1>3, <1>4 DEF Model!Yield

(* A response is of its kind, with its texts. *)
LEMMA ItemIs ==
  ASSUME NEW texts \in Seq(Seq(Nat)),
         NEW kind \in {"partial", "aggregate", "whole", "call", "audio", "failure", "error"}
  PROVE  /\ Model!Item(kind, texts) \in Model!Items
         /\ Model!Item(kind, texts).kind = kind /\ Model!Item(kind, texts).texts = texts
BY DEF Model!Item, Model!Items, Model!Text

(* Joining short sequences. *)
LEMMA JoinPair ==
  ASSUME NEW T, NEW y \in T, NEW z \in T
  PROVE  <<y>> \o <<z>> = <<y, z>>
<1>1. PICK s : s = <<y>>
  OBVIOUS
<1>2. s \in Seq(T)
  BY <1>1
<1>3. s \o <<z>> = Append(s, z)
  BY <1>2
<1>4. PICK u : u = Append(s, z)
  OBVIOUS
<1>5. Len(s) = 1 /\ s[1] = y
  BY <1>1
<1>6. u \in Seq(T) /\ Len(u) = 2 /\ u[1] = y /\ u[2] = z
  <2>1. PICK n \in Nat : n = Len(s)
    BY <1>2
  <2>2. u \in Seq(T) /\ Len(u) = n + 1 /\ u[n + 1] = z /\ \A i \in 1 .. n : u[i] = s[i]
    BY <1>2, <1>4, <2>1
  <2>3. n = 1
    BY <1>5, <2>1
  <2> QED
    BY <1>5, <2>2, <2>3
<1>7. PICK v : v = <<y, z>>
  OBVIOUS
<1>8. v \in Seq(T) /\ Len(v) = 2 /\ v[1] = y /\ v[2] = z
  BY <1>7
<1>9. u = v
  <2>1. u = [i \in 1 .. 2 |-> u[i]] /\ v = [i \in 1 .. 2 |-> v[i]]
    BY <1>6, <1>8
  <2>2. \A i \in 1 .. 2 : u[i] = v[i]
    BY <1>6, <1>8
  <2> QED
    BY <2>1, <2>2
<1> QED
  BY <1>1, <1>3, <1>4, <1>7, <1>9

(* What is appended to the second is appended to both. *)
LEMMA JoinAppend ==
  ASSUME NEW s \in Seq(Nat), NEW t \in Seq(Nat), NEW n \in Nat
  PROVE  s \o Append(t, n) = Append(s \o t, n)
OBVIOUS

(* Texts that were collected go on with the next. *)
LEMMA CountUp ==
  ASSUME NEW n \in Nat
  PROVE  /\ Append([i \in 1 .. n |-> i], n + 1) = [i \in 1 .. n + 1 |-> i]
         /\ [i \in 1 .. n |-> i] \in Seq(Nat)
<1>1. [i \in 1 .. n |-> i] \in Seq(Nat) /\ Len([i \in 1 .. n |-> i]) = n
  OBVIOUS
<1>2. PICK s \in Seq(Nat) : s = [i \in 1 .. n |-> i] /\ Len(s) = n
  BY <1>1
<1>3. Append(s, n + 1) \in Seq(Nat) /\ Len(Append(s, n + 1)) = n + 1
      /\ \A i \in 1 .. n + 1 : Append(s, n + 1)[i] = i
  BY <1>2
<1>4. Append(s, n + 1) = [i \in 1 .. n + 1 |-> i]
  BY <1>3
<1> QED
  BY <1>1, <1>2, <1>4

(* What is passed on without text of its own. *)
LEMMA NothingCollected ==
  ASSUME NEW ys, Whole(ys), Ordered(ys), NEW y \in Model!Items, y.kind # "aggregate",
         y.kind \in {"call", "failure"} => Closed(ys)
  PROVE  /\ Whole(Append(ys, y)) /\ Ordered(Append(ys, y))
         /\ AggregatesOf(Append(ys, y)) = AggregatesOf(ys) /\ AggregatesOf(ys) \in Seq(Nat)
         /\ Closed(ys) /\ y.kind # "partial" => Closed(Append(ys, y))
<1>1. ys \in Seq(Model!Items)
  BY DEF Whole
<1>2. /\ Whole(Append(ys, y)) /\ AggregatesOf(ys) \in Seq(Nat)
      /\ AggregatesOf(Append(ys, y)) = AggregatesOf(ys) \o (IF y.kind = "aggregate" THEN y.texts[1] ELSE <<>>)
  BY AggregatesGrow
<1>3. AggregatesOf(Append(ys, y)) = AggregatesOf(ys) \o <<>>
  BY <1>2
<1>4. AggregatesOf(Append(ys, y)) = AggregatesOf(ys)
  BY <1>2, <1>3
<1>5. /\ Ordered(Append(ys, y))
      /\ y.kind = "aggregate" \/ (Closed(ys) /\ y.kind # "partial") => Closed(Append(ys, y))
  BY <1>1, OrderGrows
<1> QED
  BY <1>2, <1>4, <1>5

(* What was kept is passed on. *)
LEMMA AllCollected ==
  ASSUME NEW ys, Whole(ys), Ordered(ys), NEW m \in Seq(Nat)
  PROVE  LET y == Model!Item("aggregate", <<m>>)
         IN /\ y \in Model!Items
            /\ Whole(Append(ys, y)) /\ Ordered(Append(ys, y)) /\ Closed(Append(ys, y))
            /\ AggregatesOf(Append(ys, y)) = AggregatesOf(ys) \o m
<1>1. ys \in Seq(Model!Items)
  BY DEF Whole
<1>2. <<m>> \in Seq(Seq(Nat)) /\ <<m>> # <<>> /\ <<m>>[1] = m
  OBVIOUS
<1>3. PICK y \in Model!Items : y = Model!Item("aggregate", <<m>>) /\ y.kind = "aggregate" /\ y.texts = <<m>>
  BY <1>2, ItemIs
<1>4. /\ Whole(Append(ys, y))
      /\ AggregatesOf(Append(ys, y)) = AggregatesOf(ys) \o (IF y.kind = "aggregate" THEN y.texts[1] ELSE <<>>)
  BY <1>2, <1>3, AggregatesGrow
<1>5. AggregatesOf(Append(ys, y)) = AggregatesOf(ys) \o m
  BY <1>2, <1>3, <1>4
<1>6. Ordered(Append(ys, y)) /\ Closed(Append(ys, y))
  BY <1>1, <1>3, OrderGrows
<1> QED
  BY <1>3, <1>4, <1>5, <1>6

(* A chunk of a stream of Gemini's. *)
LEMMA GeminiChunkGoes ==
  ASSUME ModelsInv, NEW kind \in {"text", "call", "audio", "failure"}, NEW reason \in {"none", "STOP", "MAX_TOKENS"},
         Model!GeminiChunk(kind, reason)
  PROVE  ModelsInv'
<1>1. /\ w4 = "stream" /\ w1 = "gemini" /\ w1' = w1 /\ w2' = w2 /\ w3' = w3 /\ w7' = reason
  BY DEF Model!GeminiChunk
<1>2. /\ w8 \in Seq(Model!Items) /\ w5 \in Seq(Nat) /\ w6 \in Nat /\ Whole(w8) /\ Ordered(w8)
      /\ AggregatesOf(w8) \o w5 = [i \in 1 .. w6 |-> i]
      /\ w5 = <<>> => Closed(w8)
  BY <1>1, ModelIs DEF ModelsInv, GeminiInv
<1>3. SUFFICES /\ w4' \in {"stream", "stopped"} /\ w5' \in Seq(Nat) /\ w6' \in 0 .. MaxChunks
               /\ Whole(w8') /\ Ordered(w8')
               /\ w4' = "stream" => AggregatesOf(w8') \o w5' = [i \in 1 .. w6' |-> i] /\ (w5' = <<>> => Closed(w8'))
  <2>1. HistoryInv' /\ Answered' /\ StartsEmpty'
    BY <1>1, <1>3, StreamGoes
  <2>2. w8' \in Seq(Model!Items)
    BY <1>3 DEF Whole
  <2>3. StreamTypes'
    BY <1>1, <1>3, <2>2 DEF StreamTypes, Model!Text
  <2>4. GeminiInv' /\ ClaudeInv'
    BY <1>1, <1>3 DEF GeminiInv, ClaudeInv
  <2> QED
    BY <2>1, <2>3, <2>4 DEF ModelsInv
<1>4. CASE kind = "text"
  <2> DEFINE texts == <<<<w6 + 1>>>>
  <2>1. w6 < MaxChunks /\ w6' = w6 + 1 /\ w5' = Append(w5, w6 + 1) /\ Model!Yield(<<Model!Item("partial", texts)>>)
    BY <1>4 DEF Model!GeminiChunk
  <2>2. <<w6 + 1>> \in Seq(Nat)
    BY <1>2
  <2>3. texts \in Seq(Seq(Nat))
    BY <2>2
  <2> HIDE DEF texts
  <2>4. PICK y \in Model!Items : y = Model!Item("partial", texts) /\ y.kind = "partial"
    BY <2>3, ItemIs
  <2>5. w8' = Append(w8, y) /\ w4' \in {"stream", "stopped"}
    BY <1>1, <1>2, <2>1, <2>4, YieldsOne
  <2>6. /\ Whole(w8') /\ Ordered(w8') /\ AggregatesOf(w8') = AggregatesOf(w8) /\ AggregatesOf(w8) \in Seq(Nat)
    BY <1>2, <2>4, <2>5, NothingCollected
  <2>7. w5' \in Seq(Nat) /\ w5' # <<>> /\ w6' \in 0 .. MaxChunks
    BY <1>2, <2>1, Bounds
  <2>8. AggregatesOf(w8) \o Append(w5, w6 + 1) = Append(AggregatesOf(w8) \o w5, w6 + 1)
    <3>1. w6 + 1 \in Nat
      BY <1>2
    <3> QED
      BY <1>2, <2>6, <3>1, JoinAppend
  <2>9. AggregatesOf(w8') \o w5' = [i \in 1 .. w6' |-> i]
    BY <1>2, <2>1, <2>6, <2>8, CountUp
  <2> QED
    BY <2>5, <2>6, <2>7, <2>9
<1>5. CASE kind # "text"
  <2>0. <<>> \in Seq(Seq(Nat))
    OBVIOUS
  <2>k. kind \in {"partial", "aggregate", "whole", "call", "audio", "failure", "error"}
    BY <1>5
  <2>1. PICK z \in Model!Items : z = Model!Item(kind, <<>>) /\ z.kind = kind
    BY <2>0, <2>k, ItemIs, ZenonT(40)
  <2>2. /\ w6' = w6 /\ w5' = (IF kind = "audio" THEN w5 ELSE <<>>)
        /\ Model!Yield((IF kind = "audio" THEN <<>> ELSE Model!aggregate) \o <<z>>)
    BY <1>5, <2>1 DEF Model!GeminiChunk
  <2>3. w5' \in Seq(Nat) /\ w6' \in 0 .. MaxChunks
    BY <1>2, <2>2, ModelIs, Bounds
  <2>4. AggregatesOf(w8) \in Seq(Nat)
    BY <1>2, <2>1, <1>5, AggregatesGrow
  <2>5. CASE kind = "audio" \/ w5 = <<>>
    <3>1. (IF kind = "audio" THEN <<>> ELSE Model!aggregate) \o <<z>> = <<z>>
      <4>1. (IF kind = "audio" THEN <<>> ELSE Model!aggregate) = <<>>
        BY <2>5 DEF Model!aggregate
      <4>2. <<>> \o <<z>> = <<z>>
        OBVIOUS
      <4> QED
        BY <4>1, <4>2
    <3>2. w8' = Append(w8, z) /\ w4' \in {"stream", "stopped"}
      BY <1>1, <1>2, <2>2, <3>1, YieldsOne
    <3>3. z.kind \in {"call", "failure"} => Closed(w8)
      BY <1>2, <2>1, <2>5
    <3>4. /\ Whole(w8') /\ Ordered(w8') /\ AggregatesOf(w8') = AggregatesOf(w8)
          /\ Closed(w8) => Closed(w8')
      BY <1>2, <1>5, <2>1, <3>2, <3>3, NothingCollected
    <3>5. w5' = w5
      BY <2>2, <2>5
    <3> QED
      BY <1>2, <2>2, <2>3, <3>2, <3>4, <3>5
  <2>6. CASE kind # "audio" /\ w5 # <<>>
    <3>1. PICK y : y = Model!Item("aggregate", <<w5>>)
      OBVIOUS
    <3>2. /\ y \in Model!Items /\ Whole(Append(w8, y)) /\ Ordered(Append(w8, y)) /\ Closed(Append(w8, y))
          /\ AggregatesOf(Append(w8, y)) = AggregatesOf(w8) \o w5
      BY <1>2, <3>1, AllCollected
    <3>3. (IF kind = "audio" THEN <<>> ELSE Model!aggregate) \o <<z>> = <<y, z>>
      <4>1. (IF kind = "audio" THEN <<>> ELSE Model!aggregate) = <<y>>
        BY <2>6, <3>1 DEF Model!aggregate
      <4>2. <<y>> \o <<z>> = <<y, z>>
        BY <3>2, JoinPair
      <4> QED
        BY <4>1, <4>2
    <3>4. \/ w8' = Append(Append(w8, y), z) /\ w4' \in {w4, "stopped"}
          \/ w8' = Append(w8, y) /\ w4' = "stopped"
      BY <1>2, <2>2, <3>2, <3>3, YieldsTwo
    <3>5. /\ Whole(Append(Append(w8, y), z)) /\ Ordered(Append(Append(w8, y), z))
          /\ AggregatesOf(Append(Append(w8, y), z)) = AggregatesOf(Append(w8, y))
          /\ Closed(Append(Append(w8, y), z))
      <4>1. z.kind # "aggregate" /\ z.kind # "partial"
        BY <2>1
      <4> QED
        BY <3>2, <4>1, NothingCollected
    <3>6. CASE w8' = Append(Append(w8, y), z) /\ w4' \in {w4, "stopped"}
      <4>1. w5' = <<>> /\ AggregatesOf(w8') = [i \in 1 .. w6' |-> i]
        BY <1>2, <2>2, <2>6, <3>2, <3>5, <3>6
      <4>2. AggregatesOf(w8') \o w5' = [i \in 1 .. w6' |-> i]
        <5>1. [i \in 1 .. w6 |-> i] \in Seq(Nat)
          BY <1>2, CountUp
        <5>2. \A s \in Seq(Nat) : s \o <<>> = s
          OBVIOUS
        <5> QED
          BY <2>2, <4>1, <5>1, <5>2
      <4> QED
        BY <1>1, <2>3, <3>5, <3>6, <4>2
    <3>7. CASE w8' = Append(w8, y) /\ w4' = "stopped"
      BY <2>3, <3>2, <3>7
    <3> QED
      BY <3>4, <3>6, <3>7
  <2> QED
    BY <2>5, <2>6
<1> QED
  BY <1>4, <1>5

(* The end of a stream of Gemini's. *)
LEMMA GeminiEndGoes ==
  ASSUME ModelsInv, Model!GeminiEnd
  PROVE  ModelsInv'
<1>1. /\ w4 = "stream" /\ w1 = "gemini" /\ w1' = w1 /\ w2' = w2 /\ w3' = w3 /\ w6' = w6 /\ w7' = w7
      /\ w4' = "finished"
      /\ w8' = (IF w7 = "STOP" THEN w8 \o Model!aggregate ELSE w8)
      /\ w5' = (IF w7 = "STOP" THEN <<>> ELSE w5)
  BY DEF Model!GeminiEnd
<1>2. /\ w8 \in Seq(Model!Items) /\ w5 \in Seq(Nat) /\ w6 \in Nat /\ Whole(w8) /\ Ordered(w8)
      /\ AggregatesOf(w8) \o w5 = [i \in 1 .. w6 |-> i]
  BY <1>1, ModelIs DEF ModelsInv, GeminiInv
<1>3. Whole(w8') /\ Ordered(w8') /\ (w7 = "STOP" => AggregatesOf(w8') = [i \in 1 .. w6 |-> i])
  <2>1. CASE w7 # "STOP"
    BY <1>1, <1>2, <2>1
  <2>2. CASE w7 = "STOP" /\ w5 = <<>>
    <3>1. w8' = w8
      BY <1>1, <1>2, <2>2 DEF Model!aggregate
    <3>2. AggregatesOf(w8) \in Seq(Nat)
      <4>1. <<>> \in Seq(Seq(Nat))
        OBVIOUS
      <4>2. PICK y \in Model!Items : y.kind = "error"
        BY <4>1, ItemIs
      <4> QED
        BY <1>2, <4>2, AggregatesGrow
    <3>3. AggregatesOf(w8) = [i \in 1 .. w6 |-> i]
      BY <1>2, <2>2, <3>2
    <3> QED
      BY <1>2, <3>1, <3>3
  <2>3. CASE w7 = "STOP" /\ w5 # <<>>
    <3>1. PICK y : y = Model!Item("aggregate", <<w5>>)
      OBVIOUS
    <3>2. /\ y \in Model!Items /\ Whole(Append(w8, y)) /\ Ordered(Append(w8, y))
          /\ AggregatesOf(Append(w8, y)) = AggregatesOf(w8) \o w5
      BY <1>2, <3>1, AllCollected
    <3>3. w8' = w8 \o <<y>>
      BY <1>1, <2>3, <3>1 DEF Model!aggregate
    <3>4. w8' = Append(w8, y)
      BY <1>2, <3>2, <3>3
    <3> QED
      BY <1>2, <3>2, <3>4
  <2> QED
    BY <2>1, <2>2, <2>3
<1>4. HistoryInv' /\ Answered' /\ StartsEmpty'
  BY <1>1, StreamGoes
<1>5. StreamTypes'
  <2>1. w5' \in Seq(Nat)
    BY <1>1, <1>2
  <2>2. w8' \in Seq(Model!Items)
    BY <1>3 DEF Whole
  <2> QED
    BY <1>1, <2>1, <2>2 DEF StreamTypes, ModelsInv, Model!Text
<1>6. GeminiInv' /\ ClaudeInv'
  BY <1>1, <1>3 DEF GeminiInv, ClaudeInv
<1> QED
  BY <1>4, <1>5, <1>6 DEF ModelsInv

(* A stream ends with an error, or without a word. *)
LEMMA StreamFailsGoes ==
  ASSUME ModelsInv, Model!StreamFails
  PROVE  ModelsInv'
<1>1. /\ w4 = "stream" /\ w4' = "failed" /\ w1' = w1 /\ w2' = w2 /\ w3' = w3
      /\ w5' = w5 /\ w6' = w6 /\ w7' = w7 /\ w8' \in {w8, Append(w8, Model!Item("error", <<>>))}
  BY DEF Model!StreamFails
<1>2. w8 \in Seq(Model!Items)
  BY ModelIs
<1>3. <<>> \in Seq(Seq(Nat))
  OBVIOUS
<1>4. PICK y \in Model!Items : y = Model!Item("error", <<>>) /\ y.kind = "error"
  BY <1>3, ItemIs
<1>5. w8' \in Seq(Model!Items)
  BY <1>1, <1>2, <1>4
<1>6. w1 = "gemini" => Whole(w8') /\ Ordered(w8')
  BY <1>1, <1>4, NothingCollected, ZenonT(40) DEF ModelsInv, GeminiInv
<1>7. HistoryInv' /\ Answered' /\ StartsEmpty'
  BY <1>1, StreamGoes
<1>8. StreamTypes'
  BY <1>1, <1>5 DEF StreamTypes, ModelsInv
<1>9. GeminiInv' /\ ClaudeInv'
  BY <1>1, <1>6 DEF ModelsInv, GeminiInv, ClaudeInv, HasText
<1> QED
  BY <1>7, <1>8, <1>9 DEF ModelsInv

(* The texts of blocks. *)
LEMMA TextsIs ==
  ASSUME NEW blocks \in Seq(Model!Blocks)
  PROVE  Model!Texts(blocks) \in Seq(Seq(Nat)) /\ (HasText(blocks) => Model!Texts(blocks) # <<>>)
<1>1. Len(blocks) \in Nat /\ DOMAIN blocks = 1 .. Len(blocks) /\ \A i \in 1 .. Len(blocks) : blocks[i] \in Model!Blocks
  OBVIOUS
<1>2. PICK ss : ss = [i \in DOMAIN blocks |-> IF blocks[i].text = <<>> THEN <<>> ELSE <<blocks[i].text>>]
  OBVIOUS
<1>3. ASSUME NEW i \in 1 .. Len(blocks)
      PROVE  ss[i] \in Seq(Seq(Nat)) /\ (blocks[i].text # <<>> => ss[i] # <<>>)
  <2>1. ss[i] = IF blocks[i].text = <<>> THEN <<>> ELSE <<blocks[i].text>>
    BY <1>1, <1>2
  <2>2. blocks[i].text \in Seq(Nat)
    BY <1>1 DEF Model!Blocks, Model!Text
  <2> QED
    BY <2>1, <2>2
<1>4. ss = [i \in 1 .. Len(blocks) |-> ss[i]]
  BY <1>1, <1>2
<1>5. \A i \in 1 .. Len(blocks) : ss[i] \in Seq(Seq(Nat))
  BY <1>3
<1>6. ss \in Seq(Seq(Seq(Nat))) /\ Len(ss) = Len(blocks)
  BY <1>1, <1>4, <1>5, SequencesType
<1>7. Model!Texts(blocks) = FlattenSeq(ss)
  BY <1>2, FlattenModel DEF Model!Texts
<1>8. FlattenSeq(ss) \in Seq(Seq(Nat))
  BY <1>6, FlattenType
<1>9. ASSUME HasText(blocks)
      PROVE  FlattenSeq(ss) # <<>>
  <2>1. PICK i \in 1 .. Len(blocks) : blocks[i].text # <<>>
    BY <1>1, <1>9 DEF HasText
  <2>2. i \in DOMAIN ss /\ ss[i] # <<>>
    BY <1>2, <1>1, <1>3, <2>1
  <2> QED
    BY <1>6, <2>2, FlattenSome
<1> QED
  BY <1>7, <1>8, <1>9

(* What is passed on of the blocks received so far. *)
LEMMA PassIs ==
  ASSUME NEW blocks \in Seq(Model!Blocks), NEW chunk \in Seq(Seq(Nat)), w4 = "stream",
         w8 \in Seq(Model!Items), Model!Pass(blocks, chunk)
  PROVE  /\ w4' \in {"stream", "stopped", "panicked"} /\ w8' \in Seq(Model!Items)
         /\ w4' = "stream" => \/ chunk \o Model!Texts(blocks) = <<>>
                              \/ w8' # <<>> /\ w8'[Len(w8')].texts = chunk \o Model!Texts(blocks)
<1>1. CASE \E i \in DOMAIN blocks : Model!contentBlockToPart(blocks[i]) = <<>>
  <2>1. w8' = Append(w8, Model!Item("error", <<>>)) /\ w4' \in {"stopped", "panicked"}
    BY <1>1 DEF Model!Pass
  <2>2. <<>> \in Seq(Seq(Nat))
    OBVIOUS
  <2>3. PICK y \in Model!Items : y = Model!Item("error", <<>>)
    BY <2>2, ItemIs
  <2>4. w8' \in Seq(Model!Items)
    BY <2>1, <2>3
  <2> QED
    BY <2>1, <2>4
<1>2. CASE ~\E i \in DOMAIN blocks : Model!contentBlockToPart(blocks[i]) = <<>>
  <2>1. PICK t : t = chunk \o Model!Texts(blocks)
    OBVIOUS
  <2>2. t \in Seq(Seq(Nat))
    BY <2>1, TextsIs
  <2>3. PICK kind : kind = IF Model!Texts(blocks) = <<>> THEN "partial" ELSE "whole"
    OBVIOUS
  <2>4. IF t = <<>> THEN UNCHANGED <<w8, w4>> ELSE Model!Yield(<<Model!Item(kind, t)>>)
    BY <1>2, <2>1, <2>3 DEF Model!Pass
  <2>5. CASE t = <<>>
    BY <2>1, <2>4, <2>5
  <2>6. CASE t # <<>>
    <3>k. kind \in {"partial", "aggregate", "whole", "call", "audio", "failure", "error"}
      BY <2>3
    <3>1. PICK y \in Model!Items : y = Model!Item(kind, t) /\ y.texts = t
      BY <2>2, <3>k, ItemIs
    <3>2. w8' = Append(w8, y) /\ w4' \in {"stream", "stopped"}
      BY <2>4, <2>6, <3>1, YieldsOne
    <3>3. w8' \in Seq(Model!Items) /\ w8' # <<>> /\ w8'[Len(w8')] = y
      BY <3>2
    <3> QED
      BY <2>1, <3>1, <3>2, <3>3
  <2> QED
    BY <2>5, <2>6
<1> QED
  BY <1>1, <1>2

(* A step of a stream of Claude's. *)
LEMMA ClaudeGoes ==
  ASSUME ModelsInv, w1 = "claude", w4 = "stream", w1' = w1, w2' = w2, w3' = w3,
         w5' \in Seq(Model!Blocks), w6' \in 0 .. MaxChunks, w8' \in Seq(Model!Items),
         w7' \in {"none", "block", "STOP", "MAX_TOKENS", "end_turn", "tool_use", "max_tokens"},
         w4' \in {"stream", "finished", "failed", "stopped", "panicked"},
         w7' = "block" => w5' # <<>>, w6' > 0 => HasText(w5'),
         w6' > 0 /\ (w4' = "finished" \/ (w4' = "stream" /\ w7' # "block")) =>
           w8' # <<>> /\ w8'[Len(w8')].texts = Model!Texts(w5')
  PROVE  ModelsInv'
<1>1. HistoryInv' /\ Answered' /\ StartsEmpty'
  BY StreamGoes
<1>2. StreamTypes'
  BY DEF StreamTypes
<1>3. GeminiInv'
  BY DEF GeminiInv
<1>4. Model!Texts(w5)' = Model!Texts(w5')
  BY DEF Model!Texts
<1>5. HasText(w5)' = HasText(w5')
  BY DEF HasText
<1>6. ClaudeInv'
  BY <1>4, <1>5 DEF ClaudeInv
<1> QED
  BY <1>1, <1>2, <1>3, <1>6 DEF ModelsInv

(* Claude's events before the last. *)
LEMMA ClaudeStreams ==
  ASSUME ModelsInv,
         \/ \E kind \in {"text", "tool_use", "thinking"} : Model!ClaudeBlock(kind)
         \/ Model!ClaudeDelta \/ Model!ClaudeBlockStop
         \/ \E reason \in {"end_turn", "tool_use", "max_tokens"} : Model!ClaudeStop(reason)
         \/ Model!ClaudeEnd
  PROVE  ModelsInv'
<1>1. /\ w4 = "stream" /\ w1 = "claude" /\ w1' = w1 /\ w2' = w2 /\ w3' = w3
  BY DEF Model!ClaudeBlock, Model!ClaudeDelta, Model!ClaudeBlockStop, Model!ClaudeStop, Model!ClaudeEnd
<1>2. /\ w5 \in Seq(Model!Blocks) /\ w6 \in 0 .. MaxChunks /\ w6 \in Nat /\ w8 \in Seq(Model!Items)
      /\ (w7 = "block" => w5 # <<>>) /\ (w6 > 0 => HasText(w5))
      /\ w6 > 0 /\ w7 # "block" => w8 # <<>> /\ w8[Len(w8)].texts = Model!Texts(w5)
  BY <1>1, ModelIs DEF ModelsInv, ClaudeInv, StreamTypes
<1>3. <<>> \in Seq(Seq(Nat)) /\ \A t \in Seq(Seq(Nat)) : <<>> \o t = t
  OBVIOUS
<1>4. ASSUME NEW kind \in {"text", "tool_use", "thinking"}, Model!ClaudeBlock(kind)
      PROVE  ModelsInv'
  <2>0. <<>> \in Seq(Nat) /\ kind \in {"text", "tool_use", "thinking"}
    OBVIOUS
  <2>1. PICK b \in Model!Blocks : b = Model!Part(kind, <<>>)
    BY <2>0 DEF Model!Part, Model!Blocks, Model!Text
  <2>2. w5' = Append(w5, b) /\ w7' = "block" /\ Model!Pass(w5', <<>>) /\ w6' = w6
    BY <1>4, <2>1 DEF Model!ClaudeBlock
  <2>3. w5' \in Seq(Model!Blocks) /\ w5' # <<>>
    BY <1>2, <2>2
  <2>4. HasText(w5) => HasText(w5')
    BY <1>2, <2>2 DEF HasText
  <2>5. w4' \in {"stream", "stopped", "panicked"} /\ w8' \in Seq(Model!Items)
    BY <1>1, <1>2, <1>3, <2>2, <2>3, PassIs
  <2> QED
    BY <1>1, <1>2, <2>2, <2>3, <2>4, <2>5, ClaudeGoes
<1>5. CASE Model!ClaudeDelta
  <2>1. /\ w7 = "block" /\ w7' = w7 /\ w6 < MaxChunks /\ w6' = w6 + 1 /\ Model!Pass(w5', <<<<w6 + 1>>>>)
        /\ w5' = [w5 EXCEPT ![Len(w5)].text = Append(@, w6 + 1)]
    BY <1>5 DEF Model!ClaudeDelta
  <2>2. PICK n \in DOMAIN w5 : n = Len(w5)
    BY <1>2, <2>1
  <2>3. PICK t : t = Append(w5[n].text, w6 + 1)
    OBVIOUS
  <2>4. w5[n] \in Model!Blocks /\ w5[n].text \in Seq(Nat)
    <3>1. w5[n] \in Model!Blocks
      BY <1>2
    <3> QED
      BY <3>1 DEF Model!Blocks, Model!Text
  <2>5. t \in Seq(Nat) /\ t # <<>>
    BY <1>2, <2>3, <2>4
  <2>6. PICK b : b = [w5[n] EXCEPT !.text = t]
    OBVIOUS
  <2>7. b \in Model!Blocks /\ b.text = t
    BY <2>4, <2>5, <2>6 DEF Model!Blocks, Model!Text
  <2>8. w5' = [w5 EXCEPT ![n] = b]
    BY <2>1, <2>2, <2>3, <2>6
  <2>9. w5' \in Seq(Model!Blocks) /\ w5' # <<>> /\ w5'[n] = b /\ n \in DOMAIN w5'
    BY <1>2, <2>2, <2>7, <2>8
  <2>10. HasText(w5')
    BY <2>5, <2>7, <2>9 DEF HasText
  <2>11. w6' \in 0 .. MaxChunks
    BY <1>2, <2>1, Bounds
  <2>12. <<<<w6 + 1>>>> \in Seq(Seq(Nat))
    <3>1. <<w6 + 1>> \in Seq(Nat)
      BY <1>2
    <3> QED
      BY <3>1
  <2>13. w4' \in {"stream", "stopped", "panicked"} /\ w8' \in Seq(Model!Items)
    BY <1>1, <1>2, <2>1, <2>9, <2>12, PassIs
  <2> QED
    BY <1>1, <2>1, <2>9, <2>10, <2>11, <2>13, ClaudeGoes
<1>6. ASSUME Model!Pass(w5, <<>>), w5' = w5, w6' = w6,
             w7' \in {"none", "tool_use", "max_tokens"}
      PROVE  ModelsInv'
  <2>1. Model!Texts(w5) \in Seq(Seq(Nat)) /\ (HasText(w5) => Model!Texts(w5) # <<>>)
    BY <1>2, TextsIs
  <2>2. /\ w4' \in {"stream", "stopped", "panicked"} /\ w8' \in Seq(Model!Items)
        /\ w4' = "stream" => \/ <<>> \o Model!Texts(w5) = <<>>
                             \/ w8' # <<>> /\ w8'[Len(w8')].texts = <<>> \o Model!Texts(w5)
    BY <1>1, <1>2, <1>3, <1>6, PassIs
  <2>3. w6 > 0 /\ w4' = "stream" => w8' # <<>> /\ w8'[Len(w8')].texts = Model!Texts(w5)
    BY <1>2, <1>3, <2>1, <2>2
  <2> QED
    BY <1>1, <1>2, <1>6, <2>2, <2>3, ClaudeGoes
<1>7. CASE Model!ClaudeBlockStop
  BY <1>6, <1>7 DEF Model!ClaudeBlockStop
<1>8. ASSUME NEW reason \in {"end_turn", "tool_use", "max_tokens"}, Model!ClaudeStop(reason)
      PROVE  ModelsInv'
  <2>1. CASE reason = "end_turn"
    <3>1. w7 = "none" /\ w7' = reason /\ w4' = "finished" /\ w8' = w8 /\ w5' = w5 /\ w6' = w6
      BY <1>8, <2>1 DEF Model!ClaudeStop
    <3> QED
      BY <1>1, <1>2, <2>1, <3>1, ClaudeGoes
  <2>2. CASE reason # "end_turn"
    BY <1>6, <1>8, <2>2 DEF Model!ClaudeStop
  <2> QED
    BY <2>1, <2>2
<1>9. CASE Model!ClaudeEnd
  <2>1. /\ w7 \notin {"none", "block"} /\ w7' = w7 /\ w4' = "finished" /\ w5' = w5 /\ w6' = w6
        /\ w8' = (IF Model!Texts(w5) = <<>> THEN w8 ELSE Append(w8, Model!Item("whole", Model!Texts(w5))))
    BY <1>9 DEF Model!ClaudeEnd
  <2>2. Model!Texts(w5) \in Seq(Seq(Nat)) /\ (HasText(w5) => Model!Texts(w5) # <<>>)
    BY <1>2, TextsIs
  <2>3. PICK y \in Model!Items : y = Model!Item("whole", Model!Texts(w5)) /\ y.texts = Model!Texts(w5)
    BY <2>2, ItemIs
  <2>4. Append(w8, y) \in Seq(Model!Items) /\ Append(w8, y) # <<>> /\ Append(w8, y)[Len(Append(w8, y))] = y
    BY <1>2
  <2>5. w8' \in Seq(Model!Items)
    BY <1>2, <2>1, <2>3, <2>4
  <2>6. w6 > 0 => w8' # <<>> /\ w8'[Len(w8')].texts = Model!Texts(w5)
    BY <1>2, <2>1, <2>2, <2>3, <2>4
  <2>7. w7' \in {"none", "block", "STOP", "MAX_TOKENS", "end_turn", "tool_use", "max_tokens"}
    BY <2>1 DEF ModelsInv, StreamTypes
  <2> QED
    BY <1>1, <1>2, <2>1, <2>5, <2>6, <2>7, ClaudeGoes
<1> QED
  BY <1>4, <1>5, <1>7, <1>8, <1>9

(* A step without a stream. *)
LEMMA IdleGoes ==
  ASSUME ModelsInv, w1' = w1, w4 \in {"new", "idle"}, w4' \in {"idle", "failed", "panicked"},
         w5' = w5, w6' = w6, w7' = w7, w8' = w8, HistoryInv'
  PROVE  ModelsInv'
<1>1. StreamTypes'
  BY DEF ModelsInv, StreamTypes
<1>2. Answered' /\ StartsEmpty'
  BY DEF ModelsInv, Answered, StartsEmpty
<1>3. w6 = 0
  BY DEF ModelsInv, StartsEmpty
<1>4. GeminiInv'
  BY DEF ModelsInv, GeminiInv
<1>5. ClaudeInv'
  BY <1>3 DEF ModelsInv, StartsEmpty, ClaudeInv
<1> QED
  BY <1>1, <1>2, <1>4, <1>5 DEF ModelsInv

(* Each model is made, or not. *)
LEMMA ModelMade ==
  ASSUME ModelsInv,
         \/ \E env \in Model!Environments : Model!NewGemini(env)
         \/ \E mode \in {"anthropic", "vertex", "bedrock"}, env \in Model!Environments : Model!NewClaude(mode, env)
  PROVE  ModelsInv'
<1>1. /\ w4 = "new" /\ w1' = w1 /\ w2' = w2 /\ w4' \in {"idle", "failed"}
      /\ w5' = w5 /\ w6' = w6 /\ w7' = w7 /\ w8' = w8
  BY DEF Model!NewGemini, Model!NewClaude
<1>2. HistoryInv'
  BY <1>1 DEF ModelsInv, HistoryInv
<1> QED
  BY <1>1, <1>2, IdleGoes

(* A content is added by others than the model. *)
LEMMA ContentAdded ==
  ASSUME ModelsInv, NEW role \in {"user", "system"}, NEW kind \in PartKinds, Model!AppendContent(role, kind)
  PROVE  ModelsInv'
<1>1. PICK c : c = Model!Content(role, <<Model!Part(kind, <<0>>)>>)
  OBVIOUS
<1>2. c \in ModelContents /\ c.role = role
  <2>1. <<0>> \in Seq(Nat)
    OBVIOUS
  <2>2. PICK p \in Model!Parts : p = Model!Part(kind, <<0>>)
    BY <2>1 DEF Model!Part, Model!Parts, Model!Text
  <2>3. <<p>> \in Seq(Model!Parts)
    OBVIOUS
  <2> QED
    BY <1>1, <2>2, <2>3 DEF Model!Content, ModelContents
<1>3. /\ w4 = "idle" /\ w2' = Append(w2, c) /\ w1' = w1 /\ w4' = w4
      /\ w5' = w5 /\ w6' = w6 /\ w7' = w7 /\ w8' = w8
  BY <1>1 DEF Model!AppendContent
<1>4. c.role \notin Answering
  BY <1>2 DEF Answering
<1>5. HistoryOK(w2) /\ TurnsOf(w2) \in Nat /\ TurnsOf(w2) <= MaxTurns
  BY DEF ModelsInv, HistoryInv
<1>6. HistoryOK(w2') /\ TurnsOf(w2') = TurnsOf(w2) + 0
  BY <1>2, <1>3, <1>4, <1>5, HistoryGrows
<1>7. HistoryInv'
  <2>1. TurnsOf(w2') = TurnsOf(w2)
    BY <1>5, <1>6
  <2>2. HistoryOK(w2)' = HistoryOK(w2') /\ TurnsOf(w2)' = TurnsOf(w2')
    BY DEF HistoryOK, AnswersOf, TurnsOf
  <2> QED
    BY <1>5, <1>6, <2>1, <2>2 DEF HistoryInv
<1> QED
  BY <1>3, <1>7, IdleGoes

(* The answer at once. *)
LEMMA Generated ==
  ASSUME ModelsInv, Model!GenerateContent
  PROVE  ModelsInv'
<1>1. /\ w4 = "idle" /\ Model!Turns < MaxTurns /\ w1' = w1 /\ w4' \in {"idle", "panicked"}
      /\ w5' = w5 /\ w6' = w6 /\ w7' = w7 /\ w8' = w8
  BY DEF Model!GenerateContent
<1>2. HistoryOK(w2) /\ TurnsOf(w2) \in Nat /\ TurnsOf(w2) < MaxTurns
  BY <1>1, TurnsAre DEF ModelsInv, HistoryInv
<1>3. PICK u : u = Model!appendUserContent(w2)
  OBVIOUS
<1>4. HistoryOK(u) /\ TurnsOf(u) = TurnsOf(w2)
  BY <1>2, <1>3, UserAppended
<1>5. HistoryOK(Model!GeminiAnswer) /\ TurnsOf(Model!GeminiAnswer) = TurnsOf(w2) + 1
  <2> DEFINE T == [kind : {"text"}, text : Model!Text]
  <2>1. <<1>> \in Seq(Nat)
    OBVIOUS
  <2>2. PICK p \in T : p = Model!Part("text", <<1>>)
    BY <2>1 DEF Model!Part, Model!Text
  <2> HIDE DEF T
  <2>3. PICK c : c = Model!Content("model", <<p>>)
    OBVIOUS
  <2>4. c.role = "model" /\ c.parts = <<p>> /\ c = [role |-> c.role, parts |-> c.parts]
    BY <2>3 DEF Model!Content
  <2>5. <<p>> \in Seq(T)
    OBVIOUS
  <2>6. c.role \in Answering
    BY <2>4 DEF Answering
  <2>7. HistoryOK(Append(u, c)) /\ TurnsOf(Append(u, c)) = TurnsOf(u) + 1
    BY <1>4, <2>4, <2>5, <2>6, AnswerIs DEF T
  <2>8. Model!GeminiAnswer = Append(u, c)
    BY <1>3, <2>2, <2>3 DEF Model!GeminiAnswer
  <2> QED
    BY <1>4, <2>7, <2>8
<1>6. ASSUME NEW kinds \in {<<"text">>, <<"text", "tool_use">>, <<"thinking", "text">>}
      PROVE  LET blocks == [i \in DOMAIN kinds |-> Model!Part(kinds[i], <<i>>)]
                 h == Append(w2, Model!messageToResponse(blocks))
             IN HistoryOK(h) /\ TurnsOf(h) = TurnsOf(w2) + 1
  <2>1. PICK blocks : blocks = [i \in DOMAIN kinds |-> Model!Part(kinds[i], <<i>>)]
    OBVIOUS
  <2>2. PICK n \in Nat : DOMAIN kinds = 1 .. n /\ \A i \in 1 .. n : kinds[i] \in {"text", "tool_use", "thinking"}
    <3>1. CASE kinds = <<"text">>
      <4>1. DOMAIN kinds = 1 .. 1 /\ kinds[1] = "text"
        BY <3>1
      <4> QED
        BY <4>1
    <3>2. CASE kinds = <<"text", "tool_use">>
      <4>1. DOMAIN kinds = 1 .. 2 /\ kinds[1] = "text" /\ kinds[2] = "tool_use"
        BY <3>2
      <4>2. \A i \in 1 .. 2 : i = 1 \/ i = 2
        OBVIOUS
      <4> QED
        BY <4>1, <4>2
    <3>3. CASE kinds = <<"thinking", "text">>
      <4>1. DOMAIN kinds = 1 .. 2 /\ kinds[1] = "thinking" /\ kinds[2] = "text"
        BY <3>3
      <4>2. \A i \in 1 .. 2 : i = 1 \/ i = 2
        OBVIOUS
      <4> QED
        BY <4>1, <4>2
    <3> QED
      BY <3>1, <3>2, <3>3
  <2>3. \A i \in 1 .. n : blocks[i] \in Model!Blocks
    <3> SUFFICES ASSUME NEW i \in 1 .. n PROVE blocks[i] \in Model!Blocks
      OBVIOUS
    <3>1. <<i>> \in Seq(Nat)
      OBVIOUS
    <3>2. blocks[i] = Model!Part(kinds[i], <<i>>)
      BY <2>1, <2>2
    <3> QED
      BY <2>2, <3>1, <3>2 DEF Model!Part, Model!Blocks, Model!Text
  <2>4. blocks \in Seq(Model!Blocks)
    <3>1. blocks = [i \in 1 .. n |-> blocks[i]]
      BY <2>1, <2>2
    <3> QED
      BY <2>3, <3>1
  <2>5. PICK c : c = Model!messageToResponse(blocks)
    OBVIOUS
  <2>6. c.role = "model" /\ c.parts \in Seq([kind : {"text"}, text : Model!Text])
        /\ c = [role |-> "model", parts |-> c.parts]
    BY <2>4, <2>5, ResponseIs
  <2>7. c.role \in Answering /\ c = [role |-> c.role, parts |-> c.parts]
    BY <2>6 DEF Answering
  <2>8. HistoryOK(Append(w2, c)) /\ TurnsOf(Append(w2, c)) = TurnsOf(w2) + 1
    BY <1>2, <2>6, <2>7, AnswerIs
  <2> QED
    BY <2>1, <2>5, <2>8
<1>7. \/ w2' \in {w2, u, Model!GeminiAnswer}
      \/ \E kinds \in {<<"text">>, <<"text", "tool_use">>, <<"thinking", "text">>} :
           w2' = Append(w2, Model!messageToResponse([i \in DOMAIN kinds |-> Model!Part(kinds[i], <<i>>)]))
  BY <1>3 DEF Model!GenerateContent
<1>8. HistoryOK(w2') /\ TurnsOf(w2') \in {TurnsOf(w2), TurnsOf(w2) + 1}
  BY <1>2, <1>4, <1>5, <1>6, <1>7
<1>9. HistoryInv'
  <2>1. TurnsOf(w2') \in Nat /\ TurnsOf(w2') <= MaxTurns
    BY <1>2, <1>8, Bounds
  <2>2. HistoryOK(w2)' = HistoryOK(w2') /\ TurnsOf(w2)' = TurnsOf(w2')
    BY DEF HistoryOK, AnswersOf, TurnsOf
  <2> QED
    BY <1>8, <2>1, <2>2 DEF HistoryInv
<1> QED
  BY <1>1, <1>9, IdleGoes

(* A stream begins. *)
LEMMA StreamStarts ==
  ASSUME ModelsInv, Model!StreamGenerateContent
  PROVE  ModelsInv'
<1>1. /\ w4 = "idle" /\ Model!Turns < MaxTurns /\ w1' = w1 /\ w2' = w2
      /\ w5' = w5 /\ w6' = w6 /\ w7' = w7 /\ w8' = w8
      /\ w4' = "panicked" \/ (w4' = "stream" /\ w3' = Model!Request)
  BY DEF Model!StreamGenerateContent
<1>2. HistoryInv'
  BY <1>1 DEF ModelsInv, HistoryInv
<1>3. CASE w4' = "panicked"
  BY <1>1, <1>2, <1>3, IdleGoes
<1>4. CASE w4' = "stream" /\ w3' = Model!Request
  <2>1. StreamTypes' /\ StartsEmpty'
    BY <1>1, <1>4 DEF ModelsInv, StreamTypes, StartsEmpty
  <2>2. Answered'
    <3>1. Model!Request' = Model!Request
      BY <1>1 DEF Model!Request
    <3>2. TurnsOf(w2) < MaxTurns /\ TurnsOf(w2)' = TurnsOf(w2)
      BY <1>1, TurnsAre DEF TurnsOf
    <3> QED
      BY <1>4, <3>1, <3>2 DEF Answered
  <2>3. w5 = <<>> /\ w6 = 0 /\ w7 = "none" /\ w8 = <<>>
    BY <1>1 DEF ModelsInv, StartsEmpty
  <2>4. ClaudeInv'
    BY <1>1, <2>3 DEF ClaudeInv
  <2>5. GeminiInv'
    <3>1. DOMAIN w8' = {}
      BY <1>1, <2>3
    <3>2. Closed(w8)'
      BY <3>1 DEF Closed
    <3>3. AggregatesOf(w8)' = <<>>
      <4>1. PICK ss : ss = [i \in {} |-> <<>>]
        OBVIOUS
      <4>2. ss = <<>>
        BY <4>1
      <4>3. AggregatesOf(w8)' = FlattenSeq(ss)
        BY <3>1, <4>1 DEF AggregatesOf
      <4>4. FlattenSeq(<<>>) = <<>>
        BY DEF FlattenSeq
      <4> QED
        BY <4>2, <4>3, <4>4
    <3>4. <<>> \o w5' = [i \in 1 .. w6' |-> i]
      BY <1>1, <2>3
    <3> QED
      BY <1>1, <1>4, <3>2, <3>3, <3>4 DEF ModelsInv, GeminiInv, Whole, Ordered
  <2> QED
    BY <1>2, <2>1, <2>2, <2>4, <2>5 DEF ModelsInv
<1> QED
  BY <1>1, <1>3, <1>4

(* The last response goes into the history. *)
LEMMA Replied ==
  ASSUME ModelsInv, Model!Reply
  PROVE  ModelsInv'
<1>1. /\ w4 \in {"finished", "stopped"} /\ w4' = "idle" /\ w1' = w1
      /\ w5' = <<>> /\ w6' = 0 /\ w7' = "none" /\ w8' = <<>>
  BY DEF Model!Reply
<1>2. HistoryOK(w2) /\ TurnsOf(w2) \in Nat /\ TurnsOf(w2) < MaxTurns
  BY <1>1 DEF ModelsInv, HistoryInv, Answered
<1>3. PICK last : last = IF w8 = <<>> THEN <<>> ELSE Model!Last(w8).texts
  OBVIOUS
<1>4. last \in Seq(Seq(Nat))
  <2>1. w8 \in Seq(Model!Items)
    BY ModelIs
  <2>2. CASE w8 = <<>>
    BY <1>3, <2>2
  <2>3. CASE w8 # <<>>
    <3>1. Model!Last(w8) \in Model!Items
      BY <2>1, <2>3 DEF Model!Last
    <3> QED
      BY <1>3, <2>3, <3>1 DEF Model!Items, Model!Text
  <2> QED
    BY <2>2, <2>3
<1>5. PICK role \in Answering : role = IF w1 = "claude" THEN "assistant" ELSE "model"
  BY DEF Answering
<1>6. PICK ps : ps = [i \in DOMAIN last |-> Model!Part("text", last[i])]
  OBVIOUS
<1>7. ps \in Seq([kind : {"text"}, text : Model!Text])
  <2>1. Len(last) \in Nat /\ DOMAIN last = 1 .. Len(last) /\ \A i \in 1 .. Len(last) : last[i] \in Seq(Nat)
    BY <1>4
  <2>2. ASSUME NEW i \in 1 .. Len(last)
        PROVE  ps[i] \in [kind : {"text"}, text : Model!Text]
    <3>1. ps[i] = Model!Part("text", last[i])
      BY <1>6, <2>1
    <3> QED
      BY <2>1, <3>1 DEF Model!Part, Model!Text
  <2>3. ps = [i \in 1 .. Len(last) |-> ps[i]]
    BY <1>6, <2>1
  <2> QED
    BY <2>1, <2>2, <2>3, SequencesType
<1>8. PICK c : c = Model!Content(role, ps)
  OBVIOUS
<1>9. c.role = role /\ c.parts = ps /\ c = [role |-> c.role, parts |-> c.parts]
  BY <1>8 DEF Model!Content
<1>10. HistoryOK(Append(w2, c)) /\ TurnsOf(Append(w2, c)) = TurnsOf(w2) + 1
  BY <1>2, <1>5, <1>7, <1>9, AnswerIs
<1>11. w2' \in {w2, Append(w2, c)}
  BY <1>3, <1>5, <1>6, <1>8 DEF Model!Reply
<1>12. HistoryInv'
  <2>1. HistoryOK(w2') /\ TurnsOf(w2') \in {TurnsOf(w2), TurnsOf(w2) + 1}
    BY <1>2, <1>10, <1>11
  <2>2. TurnsOf(w2') \in Nat /\ TurnsOf(w2') <= MaxTurns
    BY <1>2, <2>1, Bounds
  <2>3. HistoryOK(w2)' = HistoryOK(w2') /\ TurnsOf(w2)' = TurnsOf(w2')
    BY DEF HistoryOK, AnswersOf, TurnsOf
  <2> QED
    BY <2>1, <2>2, <2>3 DEF HistoryInv
<1>13. StreamTypes'
  <2>1. <<>> \in Seq(Nat) /\ <<>> \in Seq(Model!Blocks) /\ <<>> \in Seq(Model!Items) /\ 0 \in 0 .. MaxChunks
    BY Bounds
  <2> QED
    BY <1>1, <2>1, ModelIs DEF StreamTypes, Model!Text
<1>14. Answered' /\ StartsEmpty' /\ ClaudeInv'
  BY <1>1 DEF Answered, StartsEmpty, ClaudeInv
<1>15. GeminiInv'
  <2>1. DOMAIN w8' = {} /\ w8' \in Seq(Model!Items)
    BY <1>1
  <2> QED
    BY <1>1, <2>1 DEF GeminiInv, Whole, Ordered
<1> QED
  BY <1>12, <1>13, <1>14, <1>15 DEF ModelsInv

(* Each step of a model keeps its invariant. *)
LEMMA ModelsInductive ==
  ASSUME ModelsInv, Model!Next
  PROVE  ModelsInv'
BY ModelMade, ContentAdded, Generated, StreamStarts, GeminiChunkGoes, GeminiEndGoes, StreamFailsGoes,
   ClaudeStreams, Replied DEF Model!Next

(* The invariant has the types of the model. *)
LEMMA ModelsAreTyped ==
  ASSUME ModelsInv
  PROVE  Model!TypeOK
<1>1. w2 \in Seq([role : {"user", "system", "model", "assistant"}, parts : Seq(Model!Parts)])
  BY DEF ModelsInv, HistoryInv, HistoryOK, ModelContents
<1>2. Model!Turns <= MaxTurns
  BY TurnsAre DEF ModelsInv, HistoryInv
<1> QED
  BY <1>1, <1>2 DEF ModelsInv, StreamTypes, Model!TypeOK

(* The texts of a stream are collected once. *)
LEMMA ModelsCollect ==
  ASSUME ModelsInv
  PROVE  Model!TextIsCollectedOnce
<1>1. Model!Aggregates = AggregatesOf(w8)
  BY FlattenModel DEF Model!Aggregates, AggregatesOf
<1> QED
  BY <1>1 DEF ModelsInv, GeminiInv, Ordered, Model!TextIsCollectedOnce

(* What a model answered is sent back. *)
LEMMA ModelsSendBack ==
  ASSUME ModelsInv
  PROVE  Model!AnswersAreSentBack
<1> SUFFICES ASSUME w4 = "stream", NEW i \in DOMAIN w2, w2[i].role \in Answering
             PROVE  IF w1 = "gemini" THEN w3[i] = w2[i]
                    ELSE /\ w3[i].role = "assistant"
                         /\ [j \in DOMAIN w3[i].blocks |-> w3[i].blocks[j].text]
                              = [j \in DOMAIN w2[i].parts |-> w2[i].parts[j].text]
  BY DEF Model!AnswersAreSentBack, Answering
<1>1. w3 = Model!Request /\ HistoryOK(w2)
  BY DEF ModelsInv, Answered, HistoryInv
<1>2. w2 \in Seq(ModelContents) /\ \A j \in DOMAIN w2[i].parts : w2[i].parts[j].kind = "text"
  BY <1>1 DEF HistoryOK, AnswersOf
<1>3. CASE w1 = "gemini"
  <2>1. w3 = Model!appendUserContent(w2)
    BY <1>1, <1>3 DEF Model!Request
  <2>2. \A c : Append(w2, c)[i] = w2[i]
    BY <1>2
  <2>3. w3[i] = w2[i]
    BY <2>1, <2>2 DEF Model!appendUserContent
  <2> QED
    BY <1>3, <2>3
<1>4. CASE w1 # "gemini"
  <2>1. w3[i] = Model!contentToMessageParam(w2[i])
    BY <1>1, <1>4 DEF Model!Request
  <2>2. PICK c \in ModelContents : c = w2[i]
    BY <1>2
  <2>3. PICK ps \in Seq(Model!Parts) : ps = c.parts
    BY <2>2 DEF ModelContents
  <2>4. PICK s : s = [j \in DOMAIN ps |-> Model!Part("text", ps[j].text)]
    OBVIOUS
  <2>5. Len(ps) \in Nat /\ DOMAIN ps = 1 .. Len(ps) /\ \A j \in 1 .. Len(ps) : ps[j] \in Model!Parts /\ ps[j].kind = "text"
    BY <1>2, <2>2, <2>3
  <2>6. ASSUME NEW j \in 1 .. Len(ps)
        PROVE  s[j] \in Model!Parts /\ s[j].text = ps[j].text /\ Model!partToMessageBlock(ps[j]) = <<s[j]>>
    <3>1. s[j] = Model!Part("text", ps[j].text) /\ ps[j] \in Model!Parts /\ ps[j].kind = "text"
      BY <2>4, <2>5
    <3>2. s[j] \in Model!Parts /\ s[j].text = ps[j].text
      BY <3>1 DEF Model!Part, Model!Parts
    <3>3. "text" \in DOMAIN Model!Block \ {"image"} /\ Model!Block["text"] = "text"
      BY DEF Model!Block
    <3> QED
      BY <3>1, <3>2, <3>3 DEF Model!partToMessageBlock
  <2>7. s \in Seq(Model!Parts) /\ Len(s) = Len(ps) /\ DOMAIN s = 1 .. Len(ps)
    <3>1. s = [j \in 1 .. Len(ps) |-> s[j]]
      BY <2>4, <2>5
    <3>2. \A j \in 1 .. Len(ps) : s[j] \in Model!Parts
      BY <2>6
    <3> QED
      BY <2>5, <3>1, <3>2, SequencesType
  <2>8. [j \in DOMAIN ps |-> Model!partToMessageBlock(ps[j])] = [j \in DOMAIN s |-> <<s[j]>>]
    BY <2>5, <2>6, <2>7
  <2>9. Model!FlattenSeq([j \in DOMAIN ps |-> Model!partToMessageBlock(ps[j])]) = s
    BY <2>7, <2>8, FlattenSingles, FlattenModel
  <2>10. w3[i] = [role |-> "assistant", blocks |-> s]
    <3>1. c.role # "system" /\ Model!toClaudeRole(c.role) = "assistant"
      BY <2>2 DEF Answering, Model!toClaudeRole
    <3> QED
      BY <2>1, <2>2, <2>3, <2>9, <3>1 DEF Model!contentToMessageParam
  <2>11. [j \in DOMAIN s |-> s[j].text] = [j \in DOMAIN ps |-> ps[j].text]
    BY <2>5, <2>6, <2>7
  <2> QED
    BY <1>4, <2>2, <2>3, <2>10, <2>11
<1> QED
  BY <1>3, <1>4

(* The last response of a stream is whole. *)
LEMMA ModelsAnswer ==
  ASSUME ModelsInv
  PROVE  Model!LastResponseIsWhole
BY DEF ModelsInv, ClaudeInv, Model!LastResponseIsWhole, Model!Last

-----------------------------------------------------------------------------
(* The flows.                                                              *)

FlowsInv ==
  /\ part \in {"live", "functions", "code", "contents", "models"}
  /\ part = "live" => LiveInv
  /\ part = "functions" => FunctionsInv
  /\ part = "code" => CodeInv
  /\ part = "contents" => ContentsInv
  /\ part = "models" => ModelsInv

(* The initial states of the flows. *)
LEMMA FlowsStart == Init => FlowsInv
BY LiveStart, FunctionsStart, CodeStart, ContentsStart, ModelsStart DEF Init, FlowsInv

(* A state that a step leaves alone keeps the invariant of its flow. *)
LEMMA FlowsStutter ==
  ASSUME FlowsInv, UNCHANGED vars
  PROVE  FlowsInv'
<1>1. CASE part = "live"
  BY <1>1 DEF vars, FlowsInv, LiveInv, Live!TypeOK, Live!InOrder, Live!QueueInOrder, Live!InHand, Live!Given,
              Live!Named, Live!SendersHoldMutex, Live!NoSendOnClosed
<1>2. CASE part = "functions"
  BY <1>2 DEF vars, FlowsInv, FunctionsInv, Functions!TypeOK, Functions!AnswersInOrder, Functions!WorksUpwards
<1>3. CASE part = "code"
  BY <1>3 DEF vars, FlowsInv, CodeInv, Code!TypeOK, Code!Placed, Code!Open, Code!Alike, Code!File,
              Code!RunsOwnCode, Code!OnlyFailuresLeak, Code!Mine
<1>4. CASE part = "contents"
  BY <1>4 DEF vars, FlowsInv, ContentsInv, Content!TypeOK, Content!ResponsesFollowCalls, Numbered
<1>5. CASE part = "models"
  <2>1. ModelsInv' = ModelsInv
    BY DEF vars, ModelsInv, HistoryInv, HistoryOK, AnswersOf, TurnsOf, StreamTypes, Answered, Model!Request,
           StartsEmpty, GeminiInv, Whole, Closed, Ordered, AggregatesOf, ClaudeInv, HasText, Model!Texts
  <2> QED
    BY <1>5, <2>1 DEF vars, FlowsInv
<1> QED
  BY <1>1, <1>2, <1>3, <1>4, <1>5 DEF FlowsInv

(* Each step of a flow keeps its invariant. *)
LEMMA FlowsInductive == FlowsInv /\ [Next]_vars => FlowsInv'
<1> SUFFICES ASSUME FlowsInv, [Next]_vars
             PROVE  FlowsInv'
  OBVIOUS
<1>1. CASE LiveStep
  <2>1. part = "live" /\ part' = "live" /\ LiveInv /\ Live!Next
    BY <1>1 DEF LiveStep, OfLive, FlowsInv
  <2>2. LiveInv'
    BY <2>1, LiveInductive
  <2> QED
    BY <2>1, <2>2 DEF FlowsInv
<1>2. CASE FunctionsStep
  <2>1. part = "functions" /\ part' = "functions" /\ FunctionsInv /\ Functions!Next
    BY <1>2 DEF FunctionsStep, OfFunctions, FlowsInv
  <2>2. FunctionsInv'
    BY <2>1, FunctionsInductive
  <2> QED
    BY <2>1, <2>2 DEF FlowsInv
<1>3. CASE CodeStep
  <2>1. part = "code" /\ part' = "code" /\ CodeInv /\ Code!Next
    BY <1>3 DEF CodeStep, OfCode, FlowsInv
  <2>2. CodeInv'
    BY <2>1, CodeInductive
  <2> QED
    BY <2>1, <2>2 DEF FlowsInv
<1>4. CASE ContentsStep
  <2>1. part = "contents" /\ part' = "contents" /\ ContentsInv /\ Content!Next
    BY <1>4 DEF ContentsStep, OfContents, FlowsInv
  <2>2. ContentsInv'
    BY <2>1, ContentsInductive
  <2> QED
    BY <2>1, <2>2 DEF FlowsInv
<1>5. CASE ModelsStep
  <2>1. part = "models" /\ part' = "models" /\ ModelsInv /\ Model!Next
    BY <1>5 DEF ModelsStep, OfModels, FlowsInv
  <2>2. ModelsInv'
    BY <2>1, ModelsInductive
  <2> QED
    BY <2>1, <2>2 DEF FlowsInv
<1> QED
  BY <1>1, <1>2, <1>3, <1>4, <1>5, FlowsStutter DEF Next

(* What the invariant is for. *)
LEMMA FlowsImplied == FlowsInv => FlowsTypeOK /\ DeliversInOrder /\ ExecutionSound
<1> SUFFICES ASSUME FlowsInv
             PROVE  FlowsTypeOK /\ DeliversInOrder /\ ExecutionSound
  OBVIOUS
<1>1. FlowsTypeOK
  BY ModelsAreTyped DEF FlowsInv, FlowsTypeOK, LiveInv, FunctionsInv, CodeInv, ContentsInv
<1>2. DeliversInOrder
  <2>1. part = "live" => Live!SentIsPrefix /\ Live!NoSendOnClosed
    BY LivePrefix DEF FlowsInv, LiveInv
  <2>2. part = "functions" => Functions!AnswersInOrder
    BY DEF FlowsInv, FunctionsInv
  <2>3. part = "contents" => Content!ResponsesFollowCalls
    BY DEF FlowsInv, ContentsInv
  <2>4. part = "models" => Model!TextIsCollectedOnce /\ Model!LastResponseIsWhole /\ Model!AnswersAreSentBack
    BY ModelsCollect, ModelsAnswer, ModelsSendBack DEF FlowsInv
  <2> QED
    BY <2>1, <2>2, <2>3, <2>4 DEF DeliversInOrder
<1>3. ExecutionSound
  BY DEF FlowsInv, CodeInv, ExecutionSound
<1> QED
  BY <1>1, <1>2, <1>3

(* The invariant holds along every behaviour. *)
LEMMA FlowsAlways == Spec => []FlowsInv
BY FlowsStart, FlowsInductive, PTL DEF Spec

(* The variables of the live connection, of the function calls, of the     *)
(* code executions, of the contents of a request and of the models always  *)
(* have their types. *)
THEOREM FlowsAreTyped == Spec => []FlowsTypeOK
BY FlowsAlways, FlowsImplied, PTL

(* gemini_connection.go, functions.go: the contents that reach the         *)
(* connection are the first of those the LiveRequestQueue accepted, in     *)
(* their order; no response is sent on the closed channel; a function call *)
(* is answered when it was asked for and in the order of the calls.        *)
(* contents.go: a response is sent right behind a call it answers, and     *)
(* nothing else leaves the order of the session.  google_llm.go: the texts *)
(* Gemini collects are what its chunks brought, each once and in order,    *)
(* and all of it when the response is complete.  anthropic.go: the last    *)
(* response of a finished stream has all the text; and what a model        *)
(* answered is sent back as the model's, with all its texts. *)
THEOREM FlowsDeliver == Spec => []DeliversInOrder
BY FlowsAlways, FlowsImplied, PTL

(* local.go, container.go: a call whose file nobody else had open and      *)
(* which Close spared ran its own code, and a container outlives its       *)
(* attempt only when the attempt or its removal failed. *)
THEOREM FlowsExecute == Spec => []ExecutionSound
BY FlowsAlways, FlowsImplied, PTL
=============================================================================
