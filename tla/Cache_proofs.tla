---------------------------- MODULE Cache_proofs ----------------------------
(***************************************************************************)
(* Proofs about the response cache for any keys, limits, times to live,    *)
(* number of connections and kinds of responses: the shard's map, list and *)
(* total agree, a racing Get returns what its key had, the least recently  *)
(* used entries go first, and nothing is served that must not be.          *)
(***************************************************************************)
EXTENDS CacheMiddleware, FiniteSetTheorems, SequenceTheorems, WellFoundedInduction, TLAPS

-----------------------------------------------------------------------------
(* Bytes of a set of elements *)

\* One pair for each byte of the elements in S.
Pairs(f, S) == UNION {{e} \X (1 .. f[e].size) : e \in S}

Sized(f, S) == IsFiniteSet(S) /\ \A e \in S : f[e].size \in Nat

\* The equation of the recursive function behind BytesOf.
Iterates(f, S, g) ==
  g = [s \in SUBSET S |-> IF s = {} THEN 0
                          ELSE f[CHOOSE x \in s : TRUE].size + g[s \ {CHOOSE x \in s : TRUE}]]

LEMMA IntervalSize ==
  ASSUME NEW n \in Nat
  PROVE  IsFiniteSet(1 .. n) /\ Cardinality(1 .. n) = n
<1>1. 1 \in Int /\ n \in Int
  OBVIOUS
<1>2. IsFiniteSet(1 .. n) /\ Cardinality(1 .. n) = IF 1 > n THEN 0 ELSE n - 1 + 1
  BY <1>1, FS_Interval, Zenon
<1> QED
  BY <1>2

LEMMA PairsFinite == ASSUME NEW f, NEW S, Sized(f, S) PROVE IsFiniteSet(Pairs(f, S))
<1> DEFINE T == {{e} \X (1 .. f[e].size) : e \in S}
           h == [e \in S |-> {e} \X (1 .. f[e].size)]
<1>1. h \in Surjection(S, T)
  BY DEF Surjection
<1>2. IsFiniteSet(T)
  BY <1>1, FS_Surjection, Zenon DEF Sized
<1>3. ASSUME NEW t \in T PROVE IsFiniteSet(t)
  <2>1. PICK e \in S : t = {e} \X (1 .. f[e].size)
    BY <1>3
  <2>2. IsFiniteSet(1 .. f[e].size) /\ IsFiniteSet({e})
    BY IntervalSize, FS_Singleton, Zenon DEF Sized
  <2> QED
    BY <2>1, <2>2, FS_Product, Zenon
<1> QED
  BY <1>2, <1>3, FS_UNION, Zenon DEF Pairs

LEMMA PairsUnion ==
  ASSUME NEW f, NEW S, NEW T, S \cap T = {}, Sized(f, S \cup T)
  PROVE  /\ Sized(f, S) /\ Sized(f, T)
         /\ Cardinality(Pairs(f, S \cup T)) = Cardinality(Pairs(f, S)) + Cardinality(Pairs(f, T))
<1>1. Pairs(f, S \cup T) = Pairs(f, S) \cup Pairs(f, T)
  BY DEF Pairs
<1>2. Pairs(f, S) \cap Pairs(f, T) = {}
  BY DEF Pairs
<1>3. Sized(f, S) /\ Sized(f, T)
  BY FS_Subset DEF Sized
<1>4. /\ IsFiniteSet(Pairs(f, S)) /\ IsFiniteSet(Pairs(f, T))
      /\ Cardinality(Pairs(f, S)) \in Nat /\ Cardinality(Pairs(f, T)) \in Nat
  BY <1>3, PairsFinite, FS_CardinalityType
<1>5. Cardinality(Pairs(f, S) \cap Pairs(f, T)) = 0
  BY <1>2, FS_EmptySet, Zenon
<1>6. Cardinality(Pairs(f, S) \cup Pairs(f, T)) =
        Cardinality(Pairs(f, S)) + Cardinality(Pairs(f, T)) - Cardinality(Pairs(f, S) \cap Pairs(f, T))
  BY <1>4, FS_Union, Zenon
<1>7. Cardinality(Pairs(f, S \cup T)) = Cardinality(Pairs(f, S) \cup Pairs(f, T))
  BY <1>1, Zenon
<1> QED
  BY <1>3, <1>4, <1>5, <1>6, <1>7

LEMMA PairsOne ==
  ASSUME NEW f, NEW x, f[x].size \in Nat
  PROVE  Sized(f, {x}) /\ Cardinality(Pairs(f, {x})) = f[x].size
<1>1. Pairs(f, {x}) = {x} \X (1 .. f[x].size)
  BY DEF Pairs
<1>2. IsFiniteSet({x}) /\ Cardinality({x}) = 1
  BY FS_Singleton, Zenon
<1>3. IsFiniteSet(1 .. f[x].size) /\ Cardinality(1 .. f[x].size) = f[x].size
  BY IntervalSize, Zenon
<1>4. Cardinality({x} \X (1 .. f[x].size)) = Cardinality({x}) * Cardinality(1 .. f[x].size)
  BY <1>2, <1>3, FS_Product, Zenon
<1>5. Cardinality(Pairs(f, {x})) = Cardinality({x} \X (1 .. f[x].size))
  BY <1>1, Zenon
<1> QED
  BY <1>2, <1>3, <1>4, <1>5 DEF Sized

\* The sum that the code keeps is the number of these pairs.
LEMMA BytesArePairs ==
  ASSUME NEW f, NEW S, Sized(f, S)
  PROVE  Shard!BytesOf(f, S) = Cardinality(Pairs(f, S))
<1> DEFINE h == [s \in SUBSET S |-> Cardinality(Pairs(f, s))]
           g == CHOOSE k : Iterates(f, S, k)
           pick(s) == CHOOSE x \in s : TRUE
<1>1. ASSUME NEW s \in SUBSET S PROVE h[s] = IF s = {} THEN 0 ELSE f[pick(s)].size + h[s \ {pick(s)}]
  <2>1. CASE s = {}
    BY <2>1, FS_EmptySet DEF Pairs
  <2>2. CASE s # {}
    <3>1. pick(s) \in s
      BY <2>2
    <3> DEFINE t == s \ {pick(s)}
    <3>2. s = t \cup {pick(s)} /\ pick(s) \notin t /\ t \in SUBSET S
      BY <3>1
    <3>3. Sized(f, s) /\ Sized(f, t)
      BY <3>2, FS_Subset DEF Sized
    <3>4. Cardinality(Pairs(f, s)) = Cardinality(Pairs(f, t)) + f[pick(s)].size
      <4>1. f[pick(s)].size \in Nat
        BY <3>1, <3>3 DEF Sized
      <4>2. Cardinality(Pairs(f, {pick(s)})) = f[pick(s)].size
        BY <4>1, PairsOne, Zenon
      <4>3. t \cap {pick(s)} = {}
        BY <3>2
      <4>4. Cardinality(Pairs(f, t \cup {pick(s)})) =
              Cardinality(Pairs(f, t)) + Cardinality(Pairs(f, {pick(s)}))
        <5>1. Sized(f, t \cup {pick(s)})
          BY <3>2, <3>3
        <5> HIDE DEF t, pick
        <5> QED
          BY <4>3, <5>1, PairsUnion, Zenon
      <4> HIDE DEF t, pick
      <4> QED
        BY <3>2, <4>2, <4>4
    <3>5. f[pick(s)].size \in Nat /\ Cardinality(Pairs(f, t)) \in Nat
      BY <3>1, <3>3, PairsFinite, FS_CardinalityType DEF Sized
    <3> QED
      BY <2>2, <3>2, <3>4, <3>5
  <2> QED
    BY <2>1, <2>2
<1>2. Iterates(f, S, h)
  BY <1>1, Zenon DEF Iterates
<1>3. Iterates(f, S, g)
  BY <1>2, Zenon
<1>4. Shard!BytesOf(f, S) = g[S]
  BY DEF Shard!BytesOf, Shard!MapThenSumSet, Shard!MapThenFoldSet, Iterates
<1> HIDE DEF g, h
<1>6. ASSUME NEW s \in SUBSET S PROVE g[s] = IF s = {} THEN 0 ELSE f[pick(s)].size + g[s \ {pick(s)}]
  BY <1>3, Zenon DEF Iterates
<1>5. g[S] = h[S]
  <2> DEFINE T == {s \in SUBSET S : g[s] # h[s]}
  <2> SUFFICES ASSUME T # {} PROVE FALSE
    OBVIOUS
  <2>1. T \subseteq FiniteSubsetsOf(S)
    BY FS_Subset DEF Sized, FiniteSubsetsOf
  <2>2. PICK s \in T : \A t \in T : <<t, s>> \notin StrictSubsetOrdering(S)
    BY <2>1, FS_StrictSubsetOrderingWellFounded, WFMin, Zenon
  <2>3. s # {}
    BY <1>1, <1>6
  <2>4. pick(s) \in s
    BY <2>3
  <2>5. s \ {pick(s)} \notin T
    <3> DEFINE t == s \ {pick(s)}
    <3>1. t \in SUBSET S /\ s \in SUBSET S /\ t \subseteq s /\ t # s
      BY <2>4
    <3>2. <<t, s>> \in StrictSubsetOrdering(S)
      BY <3>1 DEF StrictSubsetOrdering
    <3> QED
      BY <2>2, <3>2, Zenon
  <2> QED
    BY <1>1, <1>6, <2>3, <2>5
<1> QED
  BY <1>4, <1>5 DEF h

LEMMA BytesUnion ==
  ASSUME NEW f, NEW S, NEW T, S \cap T = {}, Sized(f, S \cup T)
  PROVE  Shard!BytesOf(f, S \cup T) = Shard!BytesOf(f, S) + Shard!BytesOf(f, T)
<1>1. Sized(f, S) /\ Sized(f, T)
  BY PairsUnion
<1>2. Shard!BytesOf(f, S \cup T) = Cardinality(Pairs(f, S \cup T))
  BY BytesArePairs, Zenon
<1>3. Shard!BytesOf(f, S) = Cardinality(Pairs(f, S)) /\ Shard!BytesOf(f, T) = Cardinality(Pairs(f, T))
  BY <1>1, BytesArePairs, Zenon
<1>4. Cardinality(Pairs(f, S \cup T)) = Cardinality(Pairs(f, S)) + Cardinality(Pairs(f, T))
  BY PairsUnion, Zenon
<1> QED
  BY <1>2, <1>3, <1>4

LEMMA BytesOne ==
  ASSUME NEW f, NEW x, f[x].size \in Nat
  PROVE  Shard!BytesOf(f, {x}) = f[x].size
<1>1. Sized(f, {x}) /\ Cardinality(Pairs(f, {x})) = f[x].size
  BY PairsOne, Zenon
<1> QED
  BY <1>1, BytesArePairs, Zenon

LEMMA BytesEmpty == \A f : Shard!BytesOf(f, {}) = 0
<1> SUFFICES ASSUME NEW f PROVE Shard!BytesOf(f, {}) = 0
  OBVIOUS
<1>1. Sized(f, {}) /\ Pairs(f, {}) = {}
  BY FS_EmptySet DEF Sized, Pairs
<1> QED
  BY <1>1, BytesArePairs, FS_EmptySet

LEMMA BytesNat == ASSUME NEW f, NEW S, Sized(f, S) PROVE Shard!BytesOf(f, S) \in Nat
  BY BytesArePairs, PairsFinite, FS_CardinalityType

LEMMA BytesSame ==
  ASSUME NEW f, NEW g, NEW S, Sized(f, S), \A e \in S : g[e].size = f[e].size
  PROVE  Shard!BytesOf(g, S) = Shard!BytesOf(f, S)
<1>1. Pairs(f, S) = Pairs(g, S) /\ Sized(g, S)
  BY DEF Pairs, Sized
<1> QED
  BY <1>1, BytesArePairs

-----------------------------------------------------------------------------
(* The list *)

Distinct(l) == \A i, j \in 1 .. Len(l) : l[i] = l[j] => i = j

Before(l, a, b) == \E i, j \in 1 .. Len(l) : i < j /\ l[i] = a /\ l[j] = b

\* l is the shard's list once e has been brought to its front.
Fronted(l, e) ==
  /\ l \in Seq(Elems) /\ Len(l) >= 1 /\ l[1] = e /\ Distinct(l)
  /\ Shard!ToSet(l) = Shard!ToSet(lru) \cup {e}
  /\ \A i, j \in 2 .. Len(l) : i < j => Before(lru, l[i], l[j])

LEMMA SetOfList == \A l \in Seq(Elems) : /\ Shard!ToSet(l) = {l[i] : i \in 1 .. Len(l)}
                                         /\ IsFiniteSet(Shard!ToSet(l))
<1> SUFFICES ASSUME NEW l \in Seq(Elems)
             PROVE  Shard!ToSet(l) = {l[i] : i \in 1 .. Len(l)} /\ IsFiniteSet(Shard!ToSet(l))
  OBVIOUS
<1>1. Len(l) \in Nat /\ DOMAIN l = 1 .. Len(l)
  OBVIOUS
<1>2. Shard!ToSet(l) = {l[i] : i \in 1 .. Len(l)}
  BY <1>1 DEF Shard!ToSet
<1>3. l \in Surjection(1 .. Len(l), Shard!ToSet(l))
  BY <1>1, <1>2 DEF Surjection
<1>4. IsFiniteSet(1 .. Len(l))
  BY <1>1, IntervalSize, Zenon
<1> QED
  BY <1>2, <1>3, <1>4, FS_Surjection, Zenon

LEMMA PositionFacts ==
  ASSUME lru \in Seq(Elems), NEW e \in Shard!ToSet(lru)
  PROVE  Shard!Position(e) \in 1 .. Len(lru) /\ lru[Shard!Position(e)] = e
<1>1. \E i \in 1 .. Len(lru) : lru[i] = e
  BY SetOfList
<1> QED
  BY <1>1 DEF Shard!Position

LEMMA MoveFacts ==
  ASSUME lru \in Seq(Elems), Distinct(lru), NEW e \in Shard!ToSet(lru)
  PROVE  Fronted(Shard!MoveToFront(e), e) /\ Len(Shard!MoveToFront(e)) = Len(lru)
<1> DEFINE l == Shard!MoveToFront(e)
           p == Shard!Position(e)
<1>1. p \in 1 .. Len(lru) /\ lru[p] = e
  BY PositionFacts
<1>2. Len(lru) \in Nat /\ \A i \in 1 .. Len(lru) : lru[i] \in Elems
  OBVIOUS
<1>3. l = [i \in 1 .. Len(lru) |-> IF i = 1 THEN e ELSE IF i <= p THEN lru[i - 1] ELSE lru[i]]
  BY DEF Shard!MoveToFront
<1> HIDE DEF l, p
<1>4. e \in Elems /\ \A i \in 1 .. Len(lru) : l[i] \in Elems
  BY <1>1, <1>2, <1>3
<1>5. l \in Seq(Elems) /\ Len(l) = Len(lru)
  BY <1>2, <1>3, <1>4
<1>6. Distinct(l)
  <2> SUFFICES ASSUME NEW i \in 1 .. Len(lru), NEW j \in 1 .. Len(lru), i # j PROVE l[i] # l[j]
    BY <1>5 DEF Distinct
  <2> QED
    BY <1>1, <1>2, <1>3 DEF Distinct
<1>7. Shard!ToSet(l) = Shard!ToSet(lru)
  <2>1. \A i \in 1 .. Len(lru) : \E j \in 1 .. Len(lru) : l[i] = lru[j]
    BY <1>1, <1>2, <1>3
  <2>2. \A j \in 1 .. Len(lru) : \E i \in 1 .. Len(lru) : l[i] = lru[j]
    <3> SUFFICES ASSUME NEW j \in 1 .. Len(lru) PROVE \E i \in 1 .. Len(lru) : l[i] = lru[j]
      OBVIOUS
    <3>1. CASE j < p
      <4>1. j + 1 \in 1 .. Len(lru) /\ l[j + 1] = lru[j]
        BY <1>1, <1>2, <1>3, <3>1
      <4> QED
        BY <4>1
    <3>2. CASE j >= p
      BY <1>1, <1>2, <1>3, <3>2
    <3> QED
      BY <1>1, <1>2, <3>1, <3>2
  <2>3. /\ Shard!ToSet(l) = {l[i] : i \in 1 .. Len(l)}
        /\ Shard!ToSet(lru) = {lru[i] : i \in 1 .. Len(lru)}
    BY <1>5, SetOfList
  <2> QED
    <3>1. \A x : x \in Shard!ToSet(l) => x \in Shard!ToSet(lru)
      BY <1>5, <2>1, <2>3
    <3>2. \A x : x \in Shard!ToSet(lru) => x \in Shard!ToSet(l)
      BY <1>5, <2>2, <2>3
    <3> QED
      BY <3>1, <3>2, Zenon
<1>8. \A i, j \in 2 .. Len(l) : i < j => Before(lru, l[i], l[j])
  <2> SUFFICES ASSUME NEW i \in 2 .. Len(lru), NEW j \in 2 .. Len(lru), i < j
               PROVE  \E a, b \in 1 .. Len(lru) : a < b /\ lru[a] = l[i] /\ lru[b] = l[j]
    BY <1>5 DEF Before
  <2> DEFINE a == IF i <= p THEN i - 1 ELSE i
             b == IF j <= p THEN j - 1 ELSE j
  <2>1. a \in 1 .. Len(lru) /\ b \in 1 .. Len(lru) /\ a < b
    BY <1>1, <1>2
  <2>2. lru[a] = l[i] /\ lru[b] = l[j]
    BY <1>1, <1>2, <1>3
  <2> QED
    BY <2>1, <2>2
<1>9. Len(l) >= 1 /\ l[1] = e
  BY <1>1, <1>2, <1>3, <1>5
<1> QED
  BY <1>5, <1>6, <1>7, <1>8, <1>9 DEF Fronted, l

LEMMA PushFacts ==
  ASSUME lru \in Seq(Elems), Distinct(lru), NEW e \in Elems, e \notin Shard!ToSet(lru)
  PROVE  Fronted(Shard!PushFront(e), e) /\ Len(Shard!PushFront(e)) = Len(lru) + 1
<1> DEFINE l == Shard!PushFront(e)
<1>1. l = <<e>> \o lru
  BY DEF Shard!PushFront
<1> HIDE DEF l
<1>2. /\ l \in Seq(Elems) /\ Len(lru) \in Nat /\ Len(l) = Len(lru) + 1 /\ l[1] = e
      /\ \A i \in 2 .. Len(l) : l[i] = lru[i - 1]
  BY <1>1
<1>7. \A i \in 1 .. Len(lru) : i + 1 \in 2 .. Len(l) /\ l[i + 1] = lru[i]
  <2> SUFFICES ASSUME NEW i \in 1 .. Len(lru) PROVE i + 1 \in 2 .. Len(l) /\ l[i + 1] = lru[i]
    OBVIOUS
  <2>1. i + 1 \in 2 .. Len(l) /\ (i + 1) - 1 = i
    BY <1>2
  <2>2. l[i + 1] = lru[(i + 1) - 1]
    BY <1>2, <2>1, Zenon
  <2> QED
    BY <2>1, <2>2, Zenon
<1>3. \A i \in 1 .. Len(lru) : lru[i] # e
  BY SetOfList
<1>4. Distinct(l)
  BY <1>2, <1>3 DEF Distinct
<1>5. Shard!ToSet(l) = Shard!ToSet(lru) \cup {e}
  <2>1. \A i \in 1 .. Len(lru) : l[i + 1] = lru[i] /\ i + 1 \in 1 .. Len(l)
    BY <1>7, <1>2
  <2>2. \A i \in 1 .. Len(l) : i = 1 \/ i - 1 \in 1 .. Len(lru)
    BY <1>2
  <2>3. /\ Shard!ToSet(l) = {l[i] : i \in 1 .. Len(l)}
        /\ Shard!ToSet(lru) = {lru[i] : i \in 1 .. Len(lru)}
    BY <1>2, SetOfList
  <2>4. \A x : x \in Shard!ToSet(l) => x = e \/ x \in Shard!ToSet(lru)
    BY <1>2, <2>2, <2>3
  <2>5. \A x : x \in Shard!ToSet(lru) => x \in Shard!ToSet(l)
    BY <2>1, <2>3
  <2>6. e \in Shard!ToSet(l)
    BY <1>2, <2>3
  <2> QED
    BY <2>4, <2>5, <2>6, Zenon
<1>6. \A i, j \in 2 .. Len(l) : i < j => Before(lru, l[i], l[j])
  <2> SUFFICES ASSUME NEW i \in 2 .. Len(l), NEW j \in 2 .. Len(l), i < j
               PROVE  \E a, b \in 1 .. Len(lru) : a < b /\ lru[a] = l[i] /\ lru[b] = l[j]
    BY DEF Before
  <2>1. i - 1 \in 1 .. Len(lru) /\ j - 1 \in 1 .. Len(lru) /\ i - 1 < j - 1
    BY <1>2
  <2>2. lru[i - 1] = l[i] /\ lru[j - 1] = l[j]
    BY <1>2
  <2> QED
    BY <2>1, <2>2
<1> QED
  BY <1>2, <1>4, <1>5, <1>6 DEF Fronted, l

LEMMA UnlinkFacts ==
  ASSUME lru \in Seq(Elems), Distinct(lru), NEW e \in Shard!ToSet(lru)
  PROVE  LET l == Shard!Unlink(e)
         IN /\ l \in Seq(Elems) /\ Distinct(l) /\ Len(l) <= Len(lru)
            /\ Shard!ToSet(l) = Shard!ToSet(lru) \ {e}
            /\ \A i, j \in 1 .. Len(l) : i < j => Before(lru, l[i], l[j])
<1> DEFINE l == Shard!Unlink(e)
           p == Shard!Position(e)
<1>1. p \in 1 .. Len(lru) /\ lru[p] = e
  BY PositionFacts
<1>2. Len(lru) \in Nat /\ Len(lru) - 1 \in Nat /\ \A i \in 1 .. Len(lru) : lru[i] \in Elems
  BY <1>1
<1>3. l = [i \in 1 .. Len(lru) - 1 |-> IF i < p THEN lru[i] ELSE lru[i + 1]]
  BY DEF Shard!Unlink
<1> HIDE DEF l, p
<1>4. \A i \in 1 .. Len(lru) - 1 : l[i] \in Elems
  BY <1>1, <1>2, <1>3
<1>5. l \in Seq(Elems) /\ Len(l) = Len(lru) - 1
  BY <1>2, <1>3, <1>4
<1>6. Distinct(l)
  BY <1>1, <1>2, <1>3, <1>5 DEF Distinct
<1>7. Shard!ToSet(l) = Shard!ToSet(lru) \ {e}
  <2>1. \A i \in 1 .. Len(l) : \E j \in 1 .. Len(lru) : l[i] = lru[j] /\ j # p
    BY <1>1, <1>2, <1>3, <1>5
  <2>2. \A j \in 1 .. Len(lru) : j # p => \E i \in 1 .. Len(l) : l[i] = lru[j]
    <3> SUFFICES ASSUME NEW j \in 1 .. Len(lru), j # p PROVE \E i \in 1 .. Len(l) : l[i] = lru[j]
      OBVIOUS
    <3>1. CASE j < p
      BY <1>1, <1>2, <1>3, <1>5, <3>1
    <3>2. CASE j > p
      <4>1. j - 1 \in 1 .. Len(l) /\ l[j - 1] = lru[j]
        BY <1>1, <1>2, <1>3, <1>5, <3>2
      <4> QED
        BY <4>1
    <3> QED
      BY <1>1, <1>2, <3>1, <3>2
  <2>3. \A j \in 1 .. Len(lru) : lru[j] = e <=> j = p
    BY <1>1 DEF Distinct
  <2>4. /\ Shard!ToSet(l) = {l[i] : i \in 1 .. Len(l)}
        /\ Shard!ToSet(lru) = {lru[i] : i \in 1 .. Len(lru)}
    BY <1>5, SetOfList
  <2>5. \A x : x \in Shard!ToSet(l) => x # e /\ x \in Shard!ToSet(lru)
    BY <1>1, <2>1, <2>3, <2>4
  <2>6. \A x : x \in Shard!ToSet(lru) /\ x # e => x \in Shard!ToSet(l)
    BY <1>1, <2>2, <2>3, <2>4
  <2> QED
    BY <2>5, <2>6, Zenon
<1>8. \A i, j \in 1 .. Len(l) : i < j => Before(lru, l[i], l[j])
  <2> SUFFICES ASSUME NEW i \in 1 .. Len(l), NEW j \in 1 .. Len(l), i < j
               PROVE  \E a, b \in 1 .. Len(lru) : a < b /\ lru[a] = l[i] /\ lru[b] = l[j]
    BY DEF Before
  <2> DEFINE a == IF i < p THEN i ELSE i + 1
             b == IF j < p THEN j ELSE j + 1
  <2>1. a \in 1 .. Len(lru) /\ b \in 1 .. Len(lru) /\ a < b
    BY <1>1, <1>2, <1>5
  <2>2. lru[a] = l[i] /\ lru[b] = l[j]
    BY <1>1, <1>2, <1>3, <1>5
  <2> QED
    BY <2>1, <2>2
<1> QED
  BY <1>2, <1>5, <1>6, <1>7, <1>8 DEF l

\* The longest part of the list that keeps within the limits.
LEMMA MaxFacts ==
  ASSUME NEW N \in Nat, NEW S \in SUBSET (0 .. N), NEW z \in S
  PROVE  Shard!Max(S) \in S /\ \A x \in S : Shard!Max(S) >= x
<1> DEFINE T == {N - x : x \in S}
<1>1. T \subseteq Nat /\ N - z \in T
  OBVIOUS
<1>2. PICK t \in T : \A u \in T : <<u, t>> \notin OpToRel(<, Nat)
  BY <1>1, NatLessThanWellFounded, WFMin, Zenon
<1>3. \A u \in T : t <= u
  <2>1. \A u \in T : ~(u < t)
    BY <1>1, <1>2, Zenon DEF OpToRel
  <2> SUFFICES ASSUME NEW u \in T PROVE t <= u
    OBVIOUS
  <2>2. t \in Nat /\ u \in Nat /\ ~(u < t)
    <3> HIDE DEF T
    <3> QED BY <1>1, <1>2, <2>1
  <2> QED
    BY <2>2
<1>4. N - t \in S /\ \A x \in S : N - t >= x
  BY <1>3
<1>5. \E m \in S : \A x \in S : m >= x
  BY <1>4, Zenon
<1> QED
  BY <1>5, Zenon DEF Shard!Max

-----------------------------------------------------------------------------
(* The shard *)

\* A Get between its sections holds an element of its key.  What the element
\* says, and what the key maps to, is among the values the key has had.
GetsHold ==
  \A c \in Requests :
    /\ held[c] = None <=> asked[c] = None
    /\ held[c] # None => /\ elem[held[c]] # None /\ elem[held[c]].key = asked[c]
                         /\ elem[held[c]].value \in seen[c]
    /\ asked[c] # None /\ Shard!Mapping[asked[c]] # None => Shard!Mapping[asked[c]] \in seen[c]

\* The list is in the order of last use.
UseOrder ==
  \A i, j \in 1 .. Len(lru) : i < j => elem[lru[i]].key \in since[elem[lru[j]].key]

ShardInv == Shard!TypeOK /\ Shard!Consistent /\ Shard!WithinLimits /\ GetsHold /\ UseOrder

LEMMA ShardFacts ==
  ASSUME ShardInv
  PROVE  /\ lru \in Seq(Elems) /\ Distinct(lru) /\ Shard!ToSet(lru) \subseteq Elems
         /\ \A k \in Keys : entries[k] # None =>
              /\ entries[k] \in Shard!ToSet(lru) /\ entries[k] \in Elems
              /\ elem[entries[k]] \in Shard!LruEntry /\ elem[entries[k]].key = k
         /\ \A e \in Shard!ToSet(lru) : elem[e] \in Shard!LruEntry /\ entries[elem[e].key] = e
         /\ Sized(elem, Shard!ToSet(lru)) /\ size = Shard!BytesOf(elem, Shard!ToSet(lru))
         /\ Len(lru) \in Nat /\ None \notin Elems \cup Keys \cup Entry
<1>1. lru \in Seq(Elems) /\ Distinct(lru)
  BY DEF ShardInv, Shard!TypeOK, Shard!Consistent, Distinct
<1>2. Shard!ToSet(lru) = {lru[i] : i \in 1 .. Len(lru)} /\ IsFiniteSet(Shard!ToSet(lru))
  BY <1>1, SetOfList
<1>3. Shard!ToSet(lru) \subseteq Elems /\ Len(lru) \in Nat
  BY <1>1, <1>2
<1>4. None \notin Elems \cup Keys \cup Entry
  BY CacheAssumption DEF Shard!ShardAssumption
<1>5. ASSUME NEW e \in Shard!ToSet(lru) PROVE elem[e] \in Shard!LruEntry /\ entries[elem[e].key] = e
  BY <1>3 DEF ShardInv, Shard!TypeOK, Shard!Consistent
<1>6. ASSUME NEW k \in Keys, entries[k] # None
      PROVE  /\ entries[k] \in Shard!ToSet(lru) /\ entries[k] \in Elems
             /\ elem[entries[k]] \in Shard!LruEntry /\ elem[entries[k]].key = k
  BY <1>3, <1>5, <1>6 DEF ShardInv, Shard!Consistent, Shard!InList
<1>7. Sized(elem, Shard!ToSet(lru))
  BY <1>2, <1>5 DEF Sized, Shard!LruEntry
<1>8. size = Shard!BytesOf(elem, Shard!ToSet(lru))
  <2>1. size = Shard!BytesOf(elem, {lru[i] : i \in 0 + 1 .. Len(lru)})
    BY DEF ShardInv, Shard!WithinLimits, Shard!BytesBehind
  <2>2. {lru[i] : i \in 0 + 1 .. Len(lru)} = Shard!ToSet(lru)
    BY <1>2
  <2> QED
    BY <2>1, <2>2, Zenon
<1> QED
  BY <1>1, <1>3, <1>4, <1>5, <1>6, <1>7, <1>8

\* The bytes of a list are those of its front and those behind it.
LEMMA BytesSplit ==
  ASSUME NEW l \in Seq(Elems), Distinct(l), NEW n \in 0 .. Len(l), NEW f, Sized(f, Shard!ToSet(l))
  PROVE  Shard!BytesOf(f, Shard!ToSet(l)) - Shard!BytesBehind(f, l, n) =
           Shard!BytesOf(f, {l[i] : i \in 1 .. n})
<1> DEFINE A == {l[i] : i \in 1 .. n}
           B == {l[i] : i \in n + 1 .. Len(l)}
<1>1. Shard!ToSet(l) = {l[i] : i \in 1 .. Len(l)} /\ Len(l) \in Nat
  BY SetOfList
<1>2. Shard!ToSet(l) = A \cup B
  <2>1. \A i : i \in 1 .. Len(l) <=> i \in 1 .. n \/ i \in n + 1 .. Len(l)
    BY <1>1
  <2> QED
    BY <1>1, <2>1, Zenon
<1>3. A \cap B = {}
  BY <1>1 DEF Distinct
<1> HIDE DEF A, B
<1>4. Sized(f, A \cup B)
  BY <1>2, Zenon
<1>5. Shard!BytesOf(f, A \cup B) = Shard!BytesOf(f, A) + Shard!BytesOf(f, B)
  BY <1>3, <1>4, BytesUnion, Zenon
<1>6. Sized(f, A) /\ Sized(f, B)
  BY <1>3, <1>4, PairsUnion, Zenon
<1>7. Shard!BytesOf(f, A) \in Nat /\ Shard!BytesOf(f, B) \in Nat
  BY <1>6, BytesNat, Zenon
<1>8. Shard!BytesOf(f, Shard!ToSet(l)) = Shard!BytesOf(f, A) + Shard!BytesOf(f, B)
  BY <1>2, <1>5, Zenon
<1>9. Shard!BytesBehind(f, l, n) = Shard!BytesOf(f, B)
  BY DEF Shard!BytesBehind, B
<1> QED
  BY <1>7, <1>8, <1>9 DEF A

\* What a Set does, with e the element of the key, f the elements after the
\* update, l the list before the eviction and n the number of entries kept.
SetBy(k, v, e, f, l, n) ==
  /\ IF entries[k] # None THEN e = entries[k] ELSE Shard!Free(e)
  /\ f = [elem EXCEPT ![e] = [key |-> k, value |-> v, size |-> EntrySize[v]]]
  /\ Fronted(l, e)
  /\ n \in 1 .. Len(l) /\ n <= MaxCount
  /\ lru' = SubSeq(l, 1, n)
  /\ size' = Shard!BytesOf(f, {l[i] : i \in 1 .. n}) /\ size' <= MaxSize
  /\ n < Len(l) => n + 1 > MaxCount \/ Shard!BytesOf(f, {l[i] : i \in 1 .. n + 1}) > MaxSize
  /\ entries' = [j \in Keys |-> IF j \in {f[l[i]].key : i \in n + 1 .. Len(l)} THEN None
                                ELSE IF j = k THEN e ELSE entries[j]]
  /\ elem' = Shard!Collect(f, lru', held)
  /\ seen' = Shard!SeenBy(Shard!Mapping')
  /\ since' = [j \in Keys |-> IF entries'[j] = None THEN {} ELSE Shard!Used(k)[j]]
  /\ last' = [key |-> k, value |-> v]
  /\ UNCHANGED <<held, asked, got>>

LEMMA SetFacts ==
  ASSUME ShardInv, NEW k \in Keys, NEW v \in Entry, Shard!Set(k, v)
  PROVE  \E e, f, l, n : e \in Elems /\ SetBy(k, v, e, f, l, n)
<1>1. PICK e \in Elems :
        LET f == [elem EXCEPT ![e] = [key |-> k, value |-> v, size |-> EntrySize[v]]]
            l == IF entries[k] # None THEN Shard!MoveToFront(e) ELSE Shard!PushFront(e)
            total == size - Shard!OldSize(k) + EntrySize[v]
            n == Shard!Kept(f, l, total)
            evicted == {f[l[i]].key : i \in n + 1 .. Len(l)}
        IN /\ IF entries[k] # None THEN e = entries[k] ELSE Shard!Free(e)
           /\ lru' = SubSeq(l, 1, n)
           /\ size' = total - Shard!BytesBehind(f, l, n)
           /\ entries' = [j \in Keys |->
                            IF j \in evicted THEN None ELSE IF j = k THEN e ELSE entries[j]]
           /\ elem' = Shard!Collect(f, lru', held)
           /\ seen' = Shard!SeenBy(Shard!Mapping')
           /\ since' = [j \in Keys |-> IF entries'[j] = None THEN {} ELSE Shard!Used(k)[j]]
  BY DEF Shard!Set
<1> DEFINE f == [elem EXCEPT ![e] = [key |-> k, value |-> v, size |-> EntrySize[v]]]
           l == IF entries[k] # None THEN Shard!MoveToFront(e) ELSE Shard!PushFront(e)
           total == size - Shard!OldSize(k) + EntrySize[v]
           n == Shard!Kept(f, l, total)
           R == Shard!ToSet(lru) \ {e}
<1>2. /\ Shard!Accepted(v) /\ UNCHANGED <<held, asked, got>>
      /\ EntrySize[v] \in Nat /\ MaxSize \in Nat /\ MaxCount \in Nat \ {0}
  BY CacheAssumption DEF Shard!Set, Shard!ShardAssumption
<1>3. Fronted(l, e)
  <2>1. CASE entries[k] # None
    BY <1>1, <2>1, ShardFacts, MoveFacts
  <2>2. CASE entries[k] = None
    BY <1>1, <2>2, ShardFacts, PushFacts DEF Shard!Free, Shard!InList
  <2> QED
    BY <2>1, <2>2
<1>4. f[e].size = EntrySize[v] /\ \A x \in R : f[x].size = elem[x].size
  BY ShardFacts DEF ShardInv, Shard!TypeOK
<1>5. Sized(elem, R) /\ Sized(f, R)
  BY <1>4, ShardFacts, FS_Subset DEF Sized
<1> HIDE DEF f, l, n
<1>6. Shard!ToSet(l) = R \cup {e} /\ R \cap {e} = {}
  BY <1>3 DEF Fronted
<1>7. Sized(f, Shard!ToSet(l))
  BY <1>2, <1>4, <1>5, <1>6, FS_AddElement DEF Sized
<1>8. /\ Shard!BytesOf(f, R) = Shard!BytesOf(elem, R) /\ Shard!BytesOf(elem, R) \in Nat
      /\ Shard!BytesOf(f, {e}) = EntrySize[v]
  BY <1>2, <1>4, <1>5, BytesSame, BytesOne, BytesNat
<1>9. Shard!BytesOf(f, Shard!ToSet(l)) = Shard!BytesOf(elem, R) + EntrySize[v]
  <2>1. Shard!BytesOf(f, R \cup {e}) = Shard!BytesOf(f, R) + Shard!BytesOf(f, {e})
    BY <1>6, <1>7, BytesUnion
  <2> QED
    BY <1>6, <1>8, <2>1
<1>10. size - Shard!OldSize(k) = Shard!BytesOf(elem, R)
  <2>1. CASE entries[k] = None
    <3>1. R = Shard!ToSet(lru) /\ Shard!OldSize(k) = 0
      BY <1>1, <2>1 DEF Shard!Free, Shard!InList, Shard!OldSize
    <3> HIDE DEF R
    <3>2. size = Shard!BytesOf(elem, R)
      BY <3>1, ShardFacts, Zenon
    <3> QED
      BY <1>8, <3>1, <3>2
  <2>2. CASE entries[k] # None
    <3>1. e \in Shard!ToSet(lru) /\ Shard!OldSize(k) = elem[e].size /\ elem[e].size \in Nat
      BY <1>1, <2>2, ShardFacts DEF Shard!OldSize, Shard!LruEntry
    <3>2. Shard!ToSet(lru) = R \cup {e} /\ R \cap {e} = {}
      BY <3>1
    <3> HIDE DEF R
    <3>3. Shard!BytesOf(elem, R \cup {e}) = Shard!BytesOf(elem, R) + Shard!BytesOf(elem, {e})
      BY <3>2, ShardFacts, BytesUnion
    <3>4. Shard!BytesOf(elem, {e}) = elem[e].size
      BY <3>1, BytesOne
    <3>5. size = Shard!BytesOf(elem, R \cup {e})
      BY <3>2, ShardFacts
    <3> QED
      BY <1>8, <3>1, <3>3, <3>4, <3>5
  <2> QED
    BY <2>1, <2>2
<1>11. total = Shard!BytesOf(f, Shard!ToSet(l))
  BY <1>9, <1>10
<1> HIDE DEF total, R
<1>12. l \in Seq(Elems) /\ Distinct(l) /\ Len(l) \in Nat /\ Len(l) >= 1 /\ l[1] = e
  BY <1>3 DEF Fronted
<1>13. ASSUME NEW m \in 0 .. Len(l)
       PROVE  total - Shard!BytesBehind(f, l, m) = Shard!BytesOf(f, {l[i] : i \in 1 .. m})
  BY <1>7, <1>11, <1>12, BytesSplit
<1>14. \A m \in 1 .. Len(l) : Shard!Within(f, l, total, m) <=>
         m <= MaxCount /\ Shard!BytesOf(f, {l[i] : i \in 1 .. m}) <= MaxSize
  BY <1>13, <1>12 DEF Shard!Within
<1>15. Shard!Within(f, l, total, 1)
  <2>1. {l[i] : i \in 1 .. 1} = {e}
    BY <1>12
  <2>2. Shard!BytesOf(f, {l[i] : i \in 1 .. 1}) = EntrySize[v]
    BY <1>8, <2>1
  <2>3. EntrySize[v] <= MaxSize
    BY <1>2 DEF Shard!Accepted
  <2>4. 1 \in 1 .. Len(l) /\ 1 <= MaxCount
    BY <1>2, <1>12
  <2>5. Shard!BytesOf(f, {l[i] : i \in 1 .. 1}) <= MaxSize
    BY <2>2, <2>3, Zenon
  <2> QED
    BY ONLY <1>14, <2>4, <2>5, Zenon
<1> DEFINE S == {0} \cup {m \in 1 .. Len(l) : Shard!Within(f, l, total, m)}
<1>16. S \subseteq 0 .. Len(l) /\ 1 \in S
  BY <1>12, <1>15
<1>17. n = Shard!Max(S)
  BY DEF n, Shard!Kept
<1> HIDE DEF S
<1>18. n \in S /\ \A x \in S : n >= x
  BY <1>12, <1>16, <1>17, MaxFacts
<1>19. n \in 1 .. Len(l) /\ Shard!Within(f, l, total, n)
  BY <1>12, <1>16, <1>18 DEF S
<1>20. ASSUME n < Len(l) PROVE ~Shard!Within(f, l, total, n + 1)
  BY <1>12, <1>18, <1>19, <1>20 DEF S
<1>21. size' = Shard!BytesOf(f, {l[i] : i \in 1 .. n})
  <2>1. size' = total - Shard!BytesBehind(f, l, n)
    BY <1>1 DEF n, l, f, total
  <2> QED
    BY <1>12, <1>13, <1>19, <2>1
<1>22. n <= MaxCount /\ size' <= MaxSize
  BY <1>14, <1>19, <1>21
<1>23. n < Len(l) => n + 1 > MaxCount \/ Shard!BytesOf(f, {l[i] : i \in 1 .. n + 1}) > MaxSize
  <2> SUFFICES ASSUME n < Len(l), n + 1 <= MaxCount
               PROVE  Shard!BytesOf(f, {l[i] : i \in 1 .. n + 1}) > MaxSize
    BY <1>2, <1>12, <1>19
  <2>1. n + 1 \in 1 .. Len(l)
    BY <1>12, <1>19
  <2>2. Sized(f, {l[i] : i \in 1 .. n + 1})
    <3>1. {l[i] : i \in 1 .. n + 1} \subseteq Shard!ToSet(l)
      BY <1>12, <2>1, SetOfList
    <3> QED
      BY <1>7, <3>1, FS_Subset DEF Sized
  <2>3. Shard!BytesOf(f, {l[i] : i \in 1 .. n + 1}) \in Nat
    BY <2>2, BytesNat
  <2> QED
    BY <1>2, <1>14, <1>20, <2>1, <2>3
<1>24. SetBy(k, v, e, f, l, n)
  <2>1. /\ IF entries[k] # None THEN e = entries[k] ELSE Shard!Free(e)
        /\ lru' = SubSeq(l, 1, n)
        /\ entries' = [j \in Keys |-> IF j \in {f[l[i]].key : i \in n + 1 .. Len(l)} THEN None
                                      ELSE IF j = k THEN e ELSE entries[j]]
        /\ elem' = Shard!Collect(f, lru', held)
        /\ seen' = Shard!SeenBy(Shard!Mapping')
        /\ since' = [j \in Keys |-> IF entries'[j] = None THEN {} ELSE Shard!Used(k)[j]]
    BY <1>1, Zenon DEF n, l, f, total
  <2>2. last' = [key |-> k, value |-> v]
    BY DEF Shard!Set
  <2> QED
    BY <1>2, <1>3, <1>19, <1>21, <1>22, <1>23, <2>1, <2>2 DEF SetBy, f
<1> QED
  BY <1>24

\* The keys of the list before the eviction, and where they are afterwards.
Listed(k, v, e, f, l, n) ==
  /\ \A i \in 1 .. Len(l) : /\ l[i] \in Elems /\ f[l[i]] \in Shard!LruEntry
                            /\ f[l[i]].key = k <=> i = 1
  /\ \A i \in 2 .. Len(l) : /\ l[i] \in Shard!ToSet(lru) /\ l[i] # e
                            /\ f[l[i]] = elem[l[i]] /\ entries[f[l[i]].key] = l[i]
  /\ \A i, j \in 1 .. Len(l) : f[l[i]].key = f[l[j]].key => i = j
  /\ \A j \in Keys \ {k} : entries[j] # None => \E i \in 2 .. Len(l) : entries[j] = l[i]
  /\ l[1] = e /\ f[e] = [key |-> k, value |-> v, size |-> EntrySize[v]]
  /\ l \in Seq(Elems) /\ Len(l) \in Nat /\ n \in 1 .. Len(l) /\ Distinct(l)

Evicted(k, e, f, l, n) ==
  /\ lru' \in Seq(Elems) /\ Len(lru') = n /\ Shard!ToSet(lru') = {l[i] : i \in 1 .. n}
  /\ \A i \in 1 .. n : /\ lru'[i] = l[i] /\ elem'[l[i]] = f[l[i]]
                       /\ entries'[f[l[i]].key] = l[i]
  /\ \A i \in n + 1 .. Len(l) : entries'[f[l[i]].key] = None
  /\ \A j \in Keys : entries'[j] # None =>
        \E i \in 1 .. n : entries'[j] = l[i] /\ f[l[i]].key = j
  /\ \A j \in Keys \ {k} : /\ entries'[j] \in {None, entries[j]}
                           /\ entries[j] # None /\ entries'[j] = None =>
                                \E i \in n + 1 .. Len(l) : f[l[i]].key = j
  /\ entries'[k] = e

LEMMA SetKeys ==
  ASSUME ShardInv, NEW k \in Keys, NEW v \in Entry, NEW e \in Elems, NEW f, NEW l, NEW n,
         SetBy(k, v, e, f, l, n)
  PROVE  Listed(k, v, e, f, l, n)
<1>1. /\ l \in Seq(Elems) /\ Len(l) \in Nat /\ n \in 1 .. Len(l) /\ Distinct(l) /\ l[1] = e
      /\ Shard!ToSet(l) = Shard!ToSet(lru) \cup {e}
  BY DEF SetBy, Fronted
<1>2. /\ \A x \in Elems : x # e => f[x] = elem[x]
      /\ f[e] = [key |-> k, value |-> v, size |-> EntrySize[v]]
  BY DEF SetBy, ShardInv, Shard!TypeOK
<1>3. f[e] \in Shard!LruEntry /\ f[e].key = k
  BY <1>2, CacheAssumption DEF Shard!ShardAssumption, Shard!LruEntry
<1>4. \A i \in 1 .. Len(l) : l[i] \in Elems /\ l[i] \in Shard!ToSet(lru) \cup {e}
  BY <1>1, SetOfList
<1>5. ASSUME NEW i \in 2 .. Len(l)
      PROVE  /\ l[i] \in Shard!ToSet(lru) /\ l[i] # e
             /\ f[l[i]] = elem[l[i]] /\ entries[f[l[i]].key] = l[i]
             /\ f[l[i]] \in Shard!LruEntry /\ f[l[i]].key # k
  <2>1. l[i] # e /\ l[i] \in Elems
    BY <1>1, <1>4 DEF Distinct
  <2>2. l[i] \in Shard!ToSet(lru)
    BY <1>4, <2>1
  <2>3. f[l[i]] = elem[l[i]]
    BY <1>2, <2>1
  <2>4. entries[f[l[i]].key] = l[i] /\ f[l[i]] \in Shard!LruEntry
    BY <2>2, <2>3, ShardFacts
  <2>5. f[l[i]].key # k
    BY <2>1, <2>4, ShardFacts DEF SetBy
  <2> QED
    BY <2>1, <2>2, <2>3, <2>4, <2>5
<1>6. ASSUME NEW j \in Keys \ {k}, entries[j] # None
      PROVE  \E i \in 2 .. Len(l) : entries[j] = l[i]
  <2>1. entries[j] \in Shard!ToSet(lru) /\ elem[entries[j]].key = j
    BY <1>6, ShardFacts
  <2>2. entries[j] # e
    BY <2>1, <1>6, ShardFacts DEF SetBy, Shard!Free, Shard!InList
  <2>3. PICK i \in 1 .. Len(l) : entries[j] = l[i]
    BY <1>1, <2>1, SetOfList
  <2> QED
    BY <1>1, <2>2, <2>3
<1>7. \A i, j \in 1 .. Len(l) : f[l[i]].key = f[l[j]].key => i = j
  <2> SUFFICES ASSUME NEW i \in 1 .. Len(l), NEW j \in 1 .. Len(l), f[l[i]].key = f[l[j]].key
               PROVE  i = j
    OBVIOUS
  <2>1. CASE i = 1 \/ j = 1
    BY <1>1, <1>3, <1>5, <2>1
  <2>2. CASE i # 1 /\ j # 1
    <3>1. l[i] = l[j]
      BY <1>1, <1>5, <2>2
    <3> QED
      BY <1>1, <3>1 DEF Distinct
  <2> QED
    BY <2>1, <2>2
<1>8. \A i \in 1 .. Len(l) : /\ l[i] \in Elems /\ f[l[i]] \in Shard!LruEntry
                            /\ f[l[i]].key = k <=> i = 1
  BY <1>1, <1>3, <1>4, <1>5
<1> QED
  BY <1>1, <1>2, <1>5, <1>6, <1>7, <1>8 DEF Listed

LEMMA SetKept ==
  ASSUME ShardInv, NEW k \in Keys, NEW v \in Entry, NEW e \in Elems, NEW f, NEW l, NEW n,
         SetBy(k, v, e, f, l, n)
  PROVE  Evicted(k, e, f, l, n)
<1>0. Listed(k, v, e, f, l, n)
  BY SetKeys
<1>1. /\ \A i \in 1 .. Len(l) : /\ l[i] \in Elems /\ f[l[i]] \in Shard!LruEntry
                                /\ f[l[i]].key = k <=> i = 1
      /\ \A i \in 2 .. Len(l) : l[i] # e /\ f[l[i]] = elem[l[i]] /\ entries[f[l[i]].key] = l[i]
      /\ \A i, j \in 1 .. Len(l) : f[l[i]].key = f[l[j]].key => i = j
      /\ \A j \in Keys \ {k} : entries[j] # None => \E i \in 2 .. Len(l) : entries[j] = l[i]
      /\ l[1] = e /\ l \in Seq(Elems) /\ Len(l) \in Nat /\ n \in 1 .. Len(l)
  BY <1>0 DEF Listed
<1>2. lru' \in Seq(Elems) /\ Len(lru') = n /\ \A i \in 1 .. n : lru'[i] = l[i]
  BY <1>1 DEF SetBy
<1>3. Shard!ToSet(lru') = {l[i] : i \in 1 .. n}
  <2>1. Shard!ToSet(lru') = {lru'[i] : i \in 1 .. Len(lru')}
    BY <1>2, SetOfList
  <2>2. {lru'[i] : i \in 1 .. Len(lru')} = {l[i] : i \in 1 .. n}
    BY <1>2
  <2> QED
    BY <2>1, <2>2, Zenon
<1> DEFINE gone == {f[l[i]].key : i \in n + 1 .. Len(l)}
<1>4. entries' = [j \in Keys |-> IF j \in gone THEN None ELSE IF j = k THEN e ELSE entries[j]]
  BY DEF SetBy
<1>5. ASSUME NEW i \in 1 .. n PROVE f[l[i]].key \notin gone /\ f[l[i]].key \in Keys
  <2>1. i \in 1 .. Len(l) /\ \A j \in n + 1 .. Len(l) : j \in 1 .. Len(l) /\ j # i
    BY <1>1
  <2>2. \A j \in n + 1 .. Len(l) : f[l[j]].key # f[l[i]].key
    BY <1>1, <2>1
  <2>3. f[l[i]].key \in Keys
    BY <1>1, <2>1 DEF Shard!LruEntry
  <2> QED
    BY <2>2, <2>3
<1>6. \A j : j \in gone <=> \E i \in n + 1 .. Len(l) : f[l[i]].key = j
  OBVIOUS
<1>7. gone \subseteq Keys
  <2>1. \A i \in n + 1 .. Len(l) : f[l[i]].key \in Keys
    BY <1>1 DEF Shard!LruEntry
  <2> QED
    BY <2>1
<1> HIDE DEF gone
<1>8. k \notin gone /\ entries'[k] = e
  BY <1>1, <1>4, <1>5
<1>9. ASSUME NEW i \in 1 .. n PROVE entries'[f[l[i]].key] = l[i]
  BY <1>1, <1>4, <1>5, <1>8
<1>10. ASSUME NEW i \in 1 .. n PROVE elem'[l[i]] = f[l[i]]
  <2>1. l[i] \in Elems /\ l[i] \in Shard!ToSet(lru')
    BY <1>1, <1>3
  <2> QED
    BY <2>1 DEF SetBy, Shard!Collect
<1>11. \A i \in n + 1 .. Len(l) : entries'[f[l[i]].key] = None
  BY <1>4, <1>6, <1>7
<1>12. ASSUME NEW j \in Keys, entries'[j] # None
       PROVE  \E i \in 1 .. n : entries'[j] = l[i] /\ f[l[i]].key = j
  <2>1. CASE j = k
    BY <1>1, <1>8, <2>1
  <2>2. CASE j # k
    <3>1. j \notin gone /\ entries'[j] = entries[j] /\ entries[j] # None
      BY <1>4, <1>12, <2>2
    <3>2. PICK i \in 2 .. Len(l) : entries[j] = l[i]
      BY <1>1, <2>2, <3>1
    <3>3. f[l[i]].key = j
      BY <1>1, <3>1, <3>2, ShardFacts
    <3>4. i \in 1 .. n
      BY <1>1, <1>6, <3>1, <3>3
    <3> QED
      BY <3>1, <3>2, <3>3, <3>4
  <2> QED
    BY <2>1, <2>2
<1>13. ASSUME NEW j \in Keys \ {k}
       PROVE  /\ entries'[j] \in {None, entries[j]}
              /\ entries[j] # None /\ entries'[j] = None =>
                   \E i \in n + 1 .. Len(l) : f[l[i]].key = j
  BY <1>4, <1>6
<1> QED
  BY <1>2, <1>3, <1>8, <1>9, <1>10, <1>11, <1>12, <1>13 DEF Evicted

LEMMA MappingFacts ==
  ShardInv => \A k \in Keys :
    /\ Shard!Mapping[k] \in Entry \cup {None}
    /\ Shard!Mapping[k] = None <=> entries[k] = None
    /\ entries[k] # None => Shard!Mapping[k] = elem[entries[k]].value
<1> SUFFICES ASSUME ShardInv, NEW k \in Keys
             PROVE  /\ Shard!Mapping[k] \in Entry \cup {None}
                    /\ Shard!Mapping[k] = None <=> entries[k] = None
                    /\ entries[k] # None => Shard!Mapping[k] = elem[entries[k]].value
  OBVIOUS
<1>1. entries[k] # None => elem[entries[k]] \in Shard!LruEntry
  BY ShardFacts
<1> QED
  BY <1>1, ShardFacts DEF Shard!Mapping, Shard!LruEntry

LEMMA SetKeepsTypes ==
  ASSUME ShardInv, NEW k \in Keys, NEW v \in Entry, NEW e \in Elems, NEW f, NEW l, NEW n,
         SetBy(k, v, e, f, l, n)
  PROVE  Shard!TypeOK'
<1>1. /\ \A i \in 1 .. n : /\ l[i] \in Elems /\ f[l[i]] \in Shard!LruEntry
                           /\ elem'[l[i]] = f[l[i]]
      /\ n \in 1 .. Len(l) /\ lru' \in Seq(Elems) /\ Shard!ToSet(lru') = {l[i] : i \in 1 .. n}
      /\ Len(l) \in Nat
  <2>1. Listed(k, v, e, f, l, n) /\ Evicted(k, e, f, l, n)
    BY SetKeys, SetKept
  <2> QED
    BY <2>1 DEF Listed, Evicted
<1>2. f \in [Elems -> Shard!LruEntry \cup {None}]
  <2>1. f = [elem EXCEPT ![e] = [key |-> k, value |-> v, size |-> EntrySize[v]]]
    BY DEF SetBy
  <2>2. [key |-> k, value |-> v, size |-> EntrySize[v]] \in Shard!LruEntry
    BY CacheAssumption DEF Shard!ShardAssumption, Shard!LruEntry
  <2> QED
    BY <2>1, <2>2 DEF ShardInv, Shard!TypeOK
<1>3. elem' \in [Elems -> Shard!LruEntry \cup {None}]
  BY <1>2 DEF SetBy, Shard!Collect
<1>4. entries' \in [Keys -> Elems \cup {None}]
  <2>1. entries \in [Keys -> Elems \cup {None}]
    BY DEF ShardInv, Shard!TypeOK
  <2> DEFINE gone == {f[l[i]].key : i \in n + 1 .. Len(l)}
  <2>2. entries' = [j \in Keys |-> IF j \in gone THEN None ELSE IF j = k THEN e ELSE entries[j]]
    BY DEF SetBy
  <2> HIDE DEF gone
  <2> QED
    BY <2>1, <2>2
<1>5. size' \in Nat
  <2>1. IsFiniteSet({l[i] : i \in 1 .. n})
    BY <1>1, SetOfList
  <2>2. Sized(f, {l[i] : i \in 1 .. n})
    BY <1>1, <2>1 DEF Sized, Shard!LruEntry
  <2> QED
    BY <2>2, BytesNat DEF SetBy
<1>6. seen' \in [Requests -> SUBSET Entry]
  <2>1. \A j \in Keys : Shard!Mapping'[j] # None => Shard!Mapping'[j] \in Entry
    <3> SUFFICES ASSUME NEW j \in Keys, entries'[j] # None
                 PROVE  elem'[entries'[j]].value \in Entry
      BY DEF Shard!Mapping
    <3>1. PICK i \in 1 .. n : entries'[j] = l[i]
      BY SetKept DEF Evicted
    <3> QED
      BY <1>1, <3>1 DEF Shard!LruEntry
  <2>2. seen' = [c \in Requests |->
                  IF asked[c] # None /\ Shard!Mapping'[asked[c]] # None
                    THEN seen[c] \cup {Shard!Mapping'[asked[c]]} ELSE seen[c]]
    BY DEF SetBy, Shard!SeenBy
  <2>3. seen \in [Requests -> SUBSET Entry] /\ asked \in [Requests -> Keys \cup {None}]
    BY DEF ShardInv, Shard!TypeOK
  <2> QED
    BY <2>1, <2>2, <2>3
<1>7. since' \in [Keys -> SUBSET Keys]
  BY DEF SetBy, Shard!Used, ShardInv, Shard!TypeOK
<1>8. /\ held' \in [Requests -> Elems \cup {None}] /\ asked' \in [Requests -> Keys \cup {None}]
      /\ got' \in [Requests -> Entry \cup {None}]
      /\ last' \in [key : Keys, value : Entry] \cup {None}
  BY DEF SetBy, ShardInv, Shard!TypeOK
<1> QED
  BY <1>1, <1>3, <1>4, <1>5, <1>6, <1>7, <1>8 DEF Shard!TypeOK

LEMMA SetKeepsList ==
  ASSUME ShardInv, NEW k \in Keys, NEW v \in Entry, NEW e \in Elems, NEW f, NEW l, NEW n,
         SetBy(k, v, e, f, l, n)
  PROVE  Shard!Consistent' /\ Shard!WithinLimits' /\ UseOrder'
<1>1. /\ \A i \in 1 .. n : /\ lru'[i] = l[i] /\ elem'[l[i]] = f[l[i]]
                           /\ entries'[f[l[i]].key] = l[i]
      /\ lru' \in Seq(Elems) /\ Len(lru') = n /\ Shard!ToSet(lru') = {l[i] : i \in 1 .. n}
      /\ \A j \in Keys : entries'[j] # None => \E i \in 1 .. n : entries'[j] = l[i] /\ f[l[i]].key = j
  BY SetKept DEF Evicted
<1>2. /\ \A i \in 1 .. n : /\ l[i] \in Elems /\ f[l[i]] \in Shard!LruEntry
                           /\ f[l[i]].key = k <=> i = 1
      /\ n \in 1 .. Len(l) /\ Len(l) \in Nat /\ Distinct(l) /\ l \in Seq(Elems)
  <2>1. Listed(k, v, e, f, l, n)
    BY SetKeys
  <2> QED
    BY <2>1 DEF Listed
<1>3. \A i \in 2 .. n : l[i] \in Shard!ToSet(lru) /\ f[l[i]] = elem[l[i]]
  <2>1. Listed(k, v, e, f, l, n)
    BY SetKeys
  <2> QED
    BY <1>2, <2>1 DEF Listed
<1>4. Shard!Consistent'
  <2>1. \A i, j \in 1 .. Len(lru') : lru'[i] = lru'[j] => i = j
    BY <1>1, <1>2 DEF Distinct
  <2>2. ASSUME NEW j \in Keys, entries'[j] # None
        PROVE  entries'[j] \in Shard!ToSet(lru') /\ elem'[entries'[j]].key = j
    <3>1. PICK i \in 1 .. n : entries'[j] = l[i] /\ f[l[i]].key = j
      BY <1>1, <2>2
    <3> QED
      BY <1>1, <3>1
  <2>3. ASSUME NEW x \in Shard!ToSet(lru')
        PROVE  elem'[x] # None /\ entries'[elem'[x].key] = x
    <3>1. PICK i \in 1 .. n : x = l[i]
      BY <1>1
    <3>2. elem'[x] \in Shard!LruEntry
      BY <1>1, <1>2, <3>1
    <3>3. elem'[x] # None
      BY <3>2, CacheAssumption DEF Shard!ShardAssumption
    <3> QED
      BY <1>1, <3>1, <3>3
  <2> QED
    BY <2>1, <2>2, <2>3 DEF Shard!Consistent, Shard!InList
<1>5. Shard!WithinLimits'
  <2>1. {lru'[i] : i \in 0 + 1 .. Len(lru')} = {l[i] : i \in 1 .. n}
    BY <1>1
  <2>2. Sized(f, {l[i] : i \in 1 .. n})
    <3>1. IsFiniteSet({l[i] : i \in 1 .. n})
      BY <1>1, SetOfList
    <3> QED
      BY <1>2, <3>1 DEF Sized, Shard!LruEntry
  <2>3. \A x \in {l[i] : i \in 1 .. n} : elem'[x].size = f[x].size
    BY <1>1
  <2>4. Shard!BytesOf(elem', {l[i] : i \in 1 .. n}) = Shard!BytesOf(f, {l[i] : i \in 1 .. n})
    BY <2>2, <2>3, BytesSame
  <2>5. size' = Shard!BytesBehind(elem', lru', 0)
    <3>1. Shard!BytesBehind(elem', lru', 0) = Shard!BytesOf(elem', {l[i] : i \in 1 .. n})
      BY <2>1, Zenon DEF Shard!BytesBehind
    <3> QED
      BY <2>4, <3>1, Zenon DEF SetBy
  <2> QED
    BY <1>1, <2>5 DEF Shard!WithinLimits, SetBy
<1>6. UseOrder'
  <2> SUFFICES ASSUME NEW i \in 1 .. n, NEW j \in 1 .. n, i < j
               PROVE  f[l[i]].key \in since'[f[l[j]].key]
    BY <1>1 DEF UseOrder
  <2>1. f[l[j]].key # k /\ f[l[j]].key \in Keys /\ entries'[f[l[j]].key] # None
    <3>1. l[j] # None
      BY <1>2, ShardFacts
    <3> QED
      BY <1>1, <1>2, <3>1 DEF Shard!LruEntry
  <2>2. since'[f[l[j]].key] = since[f[l[j]].key] \cup {k}
    BY <2>1 DEF SetBy, Shard!Used
  <2>3. CASE i = 1
    BY <1>2, <2>2, <2>3
  <2>4. CASE i # 1
    <3>0. i \in 2 .. n /\ j \in 2 .. n
      BY <2>4
    <3>4. Fronted(l, e)
      BY DEF SetBy
    <3>1. Before(lru, l[i], l[j])
      BY <1>2, <3>0, <3>4 DEF Fronted
    <3>2. elem[l[i]].key \in since[elem[l[j]].key]
      BY <3>1 DEF ShardInv, UseOrder, Before
    <3> QED
      BY <1>3, <2>2, <3>0, <3>2
  <2> QED
    BY <2>3, <2>4
<1> QED
  BY <1>4, <1>5, <1>6

LEMMA SetKeepsGets ==
  ASSUME ShardInv, NEW k \in Keys, NEW v \in Entry, NEW e \in Elems, NEW f, NEW l, NEW n,
         SetBy(k, v, e, f, l, n)
  PROVE  GetsHold'
<1>1. Listed(k, v, e, f, l, n) /\ Evicted(k, e, f, l, n)
  BY SetKeys, SetKept
<1>2. /\ asked' = asked /\ held' = held /\ asked \in [Requests -> Keys \cup {None}]
      /\ held \in [Requests -> Elems \cup {None}] /\ seen \in [Requests -> SUBSET Entry]
  BY DEF SetBy, ShardInv, Shard!TypeOK
<1>3. seen' = [c \in Requests |->
                IF asked[c] # None /\ Shard!Mapping'[asked[c]] # None
                  THEN seen[c] \cup {Shard!Mapping'[asked[c]]} ELSE seen[c]]
  BY DEF SetBy, Shard!SeenBy
<1>4. f[e] = [key |-> k, value |-> v, size |-> EntrySize[v]] /\ \A x \in Elems \ {e} : f[x] = elem[x]
  BY <1>1 DEF Listed, SetBy, ShardInv, Shard!TypeOK
<1>5. Shard!Mapping'[k] = v
  <2>1. entries'[k] = e /\ elem'[e] = f[e]
    BY <1>1 DEF Evicted, Listed
  <2> QED
    BY <1>4, <2>1, ShardFacts DEF Shard!Mapping
<1>6. ASSUME NEW c \in Requests, held[c] # None
      PROVE  elem'[held[c]] # None /\ elem'[held[c]].key = asked[c] /\ elem'[held[c]].value \in seen'[c]
  <2>1. /\ held[c] \in Elems /\ asked[c] \in Keys /\ elem[held[c]] # None
        /\ elem[held[c]].key = asked[c] /\ elem[held[c]].value \in seen[c]
    BY <1>2, <1>6 DEF ShardInv, GetsHold
  <2>2. elem'[held[c]] = f[held[c]]
    BY <2>1 DEF SetBy, Shard!Collect
  <2>3. CASE held[c] = e
    <3>1. entries[k] = e
      BY <2>3 DEF SetBy, Shard!Free
    <3>2. asked[c] = k
      BY <2>1, <2>3, <3>1, ShardFacts
    <3>3. v \in seen'[c]
      BY <1>3, <1>5, <3>2, ShardFacts
    <3>4. f[e] # None
      BY <1>1, CacheAssumption DEF Listed, Shard!ShardAssumption
    <3> QED
      BY <1>4, <2>2, <2>3, <3>2, <3>3, <3>4
  <2>4. CASE held[c] # e
    BY <1>3, <1>4, <2>1, <2>2, <2>4
  <2> QED
    BY <2>3, <2>4
<1>7. ASSUME NEW c \in Requests, asked[c] # None, Shard!Mapping'[asked[c]] # None
      PROVE  Shard!Mapping'[asked[c]] \in seen'[c]
  BY <1>3, <1>7
<1> QED
  BY <1>2, <1>6, <1>7 DEF GetsHold, ShardInv

LEMMA SetKeeps ==
  ASSUME ShardInv, NEW k \in Keys, NEW v \in Entry, Shard!Set(k, v)
  PROVE  ShardInv'
<1>1. PICK e, f, l, n : e \in Elems /\ SetBy(k, v, e, f, l, n)
  BY SetFacts
<1> e \in Elems
  BY <1>1
<1>2. Shard!TypeOK'
  BY <1>1, SetKeepsTypes, Zenon
<1>3. Shard!Consistent' /\ Shard!WithinLimits' /\ UseOrder'
  BY <1>1, SetKeepsList, Zenon
<1>4. GetsHold'
  BY <1>1, SetKeepsGets, Zenon
<1> QED
  BY <1>2, <1>3, <1>4 DEF ShardInv

LEMMA ShardStutters == ShardInv /\ UNCHANGED shardVars => ShardInv'
<1> SUFFICES ASSUME ShardInv, UNCHANGED shardVars PROVE ShardInv'
  OBVIOUS
<1> USE DEF ShardInv, shardVars
<1>1. Shard!TypeOK'
  BY DEF Shard!TypeOK
<1>2. Shard!Consistent'
  BY DEF Shard!Consistent, Shard!InList
<1>3. Shard!WithinLimits'
  BY Zenon DEF Shard!WithinLimits, Shard!BytesBehind
<1>4. GetsHold'
  <2>1. \A k \in Keys : Shard!Mapping'[k] = Shard!Mapping[k]
    BY DEF Shard!Mapping
  <2>2. asked \in [Requests -> Keys \cup {None}]
    BY DEF Shard!TypeOK
  <2> QED
    BY <2>1, <2>2 DEF GetsHold
<1>5. UseOrder'
  BY DEF UseOrder
<1> QED
  BY <1>1, <1>2, <1>3, <1>4, <1>5

LEMMA DeleteKeeps ==
  ASSUME ShardInv, NEW k \in Keys, Shard!Delete(k)
  PROVE  ShardInv'
<1>1. CASE entries[k] = None
  <2>1. UNCHANGED shardVars
    BY <1>1 DEF Shard!Delete, Shard!shardVars, shardVars
  <2> QED
    BY <2>1, ShardStutters
<1>2. CASE entries[k] # None
  <2> DEFINE e == entries[k]
             l == Shard!Unlink(e)
  <2>1. /\ lru' = l /\ entries' = [entries EXCEPT ![k] = None] /\ size' = size - elem[e].size
        /\ elem' = Shard!Collect(elem, lru', held) /\ since' = [since EXCEPT ![k] = {}]
        /\ last' = None /\ UNCHANGED <<held, asked, got, seen>>
    BY <1>2 DEF Shard!Delete
  <2>2. e \in Shard!ToSet(lru) /\ e \in Elems /\ elem[e] \in Shard!LruEntry /\ elem[e].key = k
    BY <1>2, ShardFacts
  <2> HIDE DEF e
  <2>3. /\ l \in Seq(Elems) /\ Distinct(l) /\ Len(l) <= Len(lru)
        /\ Shard!ToSet(l) = Shard!ToSet(lru) \ {e}
        /\ \A i, j \in 1 .. Len(l) : i < j => Before(lru, l[i], l[j])
    BY <2>2, ShardFacts, UnlinkFacts
  <2> HIDE DEF l
  <2>4. \A x \in Shard!ToSet(l) : /\ x \in Elems /\ elem'[x] = elem[x] /\ elem[x].key # k
                                 /\ elem[x] \in Shard!LruEntry /\ entries[elem[x].key] = x
    BY <2>1, <2>2, <2>3, ShardFacts DEF Shard!Collect, e
  <2>5. \A i \in 1 .. Len(l) : l[i] \in Shard!ToSet(l)
    BY <2>3, SetOfList
  <2>6. Shard!BytesOf(elem, Shard!ToSet(lru)) = Shard!BytesOf(elem, Shard!ToSet(l)) + elem[e].size
    <3>1. Shard!ToSet(lru) = Shard!ToSet(l) \cup {e} /\ Shard!ToSet(l) \cap {e} = {}
      BY <2>2, <2>3
    <3>2. Sized(elem, Shard!ToSet(l) \cup {e})
      BY <3>1, ShardFacts
    <3>3. Shard!BytesOf(elem, Shard!ToSet(l) \cup {e}) =
            Shard!BytesOf(elem, Shard!ToSet(l)) + Shard!BytesOf(elem, {e})
      BY <3>1, <3>2, BytesUnion, Zenon
    <3>4. Shard!BytesOf(elem, {e}) = elem[e].size
      BY <2>2, BytesOne DEF Shard!LruEntry
    <3>5. Shard!BytesOf(elem, Shard!ToSet(lru)) = Shard!BytesOf(elem, Shard!ToSet(l) \cup {e})
      BY <3>1, Zenon
    <3> QED
      BY <3>3, <3>4, <3>5
  <2>7. Sized(elem, Shard!ToSet(l))
    BY <2>3, <2>4, SetOfList DEF Sized, Shard!LruEntry
  <2>8. size' = Shard!BytesOf(elem, Shard!ToSet(l)) /\ size' \in Nat /\ size' <= size
    <3>1. Shard!BytesOf(elem, Shard!ToSet(l)) \in Nat
      BY <2>7, BytesNat
    <3> QED
      BY <2>1, <2>2, <2>6, <3>1, ShardFacts DEF Shard!LruEntry
  <2>9. Shard!TypeOK'
    <3>1. elem' \in [Elems -> Shard!LruEntry \cup {None}]
      BY <2>1 DEF Shard!Collect, ShardInv, Shard!TypeOK
    <3>2. entries' \in [Keys -> Elems \cup {None}] /\ since' \in [Keys -> SUBSET Keys]
      BY <2>1 DEF ShardInv, Shard!TypeOK
    <3> QED
      BY <2>1, <2>3, <2>8, <3>1, <3>2 DEF ShardInv, Shard!TypeOK
  <2>10. Shard!Consistent'
    <3>1. \A j \in Keys : entries'[j] # None =>
            /\ j # k /\ entries'[j] = entries[j] /\ entries[j] \in Shard!ToSet(l)
            /\ elem[entries[j]].key = j
      BY <2>1, <2>2, <2>3, ShardFacts DEF ShardInv, Shard!TypeOK
    <3>2. \A x \in Shard!ToSet(l) : entries'[elem[x].key] = x
      BY <2>1, <2>4 DEF ShardInv, Shard!TypeOK, Shard!LruEntry
    <3>3. \A x \in Shard!ToSet(l) : elem[x] # None
      BY <2>4, CacheAssumption DEF Shard!ShardAssumption
    <3> QED
      BY <2>1, <2>3, <2>4, <3>1, <3>2, <3>3 DEF Shard!Consistent, Shard!InList, Distinct
  <2>11. Shard!WithinLimits'
    <3>1. {l[i] : i \in 0 + 1 .. Len(l)} = Shard!ToSet(l)
      BY <2>3, SetOfList
    <3>2. Shard!BytesOf(elem', Shard!ToSet(l)) = Shard!BytesOf(elem, Shard!ToSet(l))
      BY <2>4, <2>7, BytesSame
    <3>3. Shard!BytesBehind(elem', l, 0) = Shard!BytesOf(elem', Shard!ToSet(l))
      BY <3>1, Zenon DEF Shard!BytesBehind
    <3>4. size' = Shard!BytesBehind(elem', lru', 0)
      BY <2>1, <2>8, <3>2, <3>3, Zenon
    <3>5. size <= MaxSize /\ Len(lru) <= MaxCount /\ MaxSize \in Nat /\ MaxCount \in Nat /\ size \in Nat
      BY CacheAssumption DEF ShardInv, Shard!WithinLimits, Shard!TypeOK, Shard!ShardAssumption
    <3>6. size' <= MaxSize /\ Len(lru') <= MaxCount
      BY <2>1, <2>3, <2>8, <3>5, ShardFacts
    <3> QED
      BY <3>4, <3>6 DEF Shard!WithinLimits
  <2>12. GetsHold'
    <3>1. ASSUME NEW j \in Keys, Shard!Mapping'[j] # None PROVE Shard!Mapping'[j] = Shard!Mapping[j]
      <4>1. entries'[j] # None /\ j # k /\ entries'[j] = entries[j]
        BY <2>1, <3>1 DEF Shard!Mapping, ShardInv, Shard!TypeOK
      <4>2. entries[j] \in Shard!ToSet(l)
        BY <2>2, <2>3, <4>1, ShardFacts
      <4> QED
        BY <2>4, <4>1, <4>2 DEF Shard!Mapping
    <3>2. ASSUME NEW c \in Requests, held[c] # None PROVE elem'[held[c]] = elem[held[c]]
      BY <2>1, <3>2 DEF Shard!Collect, ShardInv, Shard!TypeOK
    <3>3. asked \in [Requests -> Keys \cup {None}]
      BY DEF ShardInv, Shard!TypeOK
    <3> QED
      BY <2>1, <3>1, <3>2, <3>3 DEF ShardInv, GetsHold
  <2>13. UseOrder'
    <3> SUFFICES ASSUME NEW i \in 1 .. Len(l), NEW j \in 1 .. Len(l), i < j
                 PROVE  elem[l[i]].key \in since'[elem[l[j]].key]
      BY <2>1, <2>4, <2>5 DEF UseOrder
    <3>1. Before(lru, l[i], l[j])
      BY <2>3
    <3>2. elem[l[i]].key \in since[elem[l[j]].key]
      BY <3>1 DEF ShardInv, UseOrder, Before
    <3>3. elem[l[j]].key \in Keys \ {k}
      BY <2>4, <2>5 DEF Shard!LruEntry
    <3> QED
      BY <2>1, <3>2, <3>3 DEF ShardInv, Shard!TypeOK
  <2> QED
    BY <2>9, <2>10, <2>11, <2>12, <2>13 DEF ShardInv
<1> QED
  BY <1>1, <1>2

LEMMA ClearKeeps == ASSUME ShardInv, Shard!Clear PROVE ShardInv'
<1>1. /\ entries' = [k \in Keys |-> None] /\ lru' = <<>> /\ size' = 0
      /\ elem' = Shard!Collect(elem, <<>>, held) /\ since' = [k \in Keys |-> {}]
      /\ last' = None /\ UNCHANGED <<held, asked, got, seen>>
  BY DEF Shard!Clear
<1>2. Shard!ToSet(<<>>) = {} /\ Len(<<>>) = 0
  BY DEF Shard!ToSet
<1>3. \A x \in Elems : /\ elem'[x] \in Shard!LruEntry \cup {None}
                      /\ \A c \in Requests : held[c] = x => elem'[x] = elem[x]
  BY <1>1 DEF Shard!Collect, ShardInv, Shard!TypeOK
<1>4. Shard!TypeOK'
  <2>1. elem' \in [Elems -> Shard!LruEntry \cup {None}]
    BY <1>1, <1>3 DEF Shard!Collect
  <2>2. lru' \in Seq(Elems)
    BY <1>1
  <2>3. entries' \in [Keys -> Elems \cup {None}] /\ size' \in Nat /\ since' \in [Keys -> SUBSET Keys]
    BY <1>1
  <2> QED
    BY <1>1, <2>1, <2>2, <2>3 DEF ShardInv, Shard!TypeOK
<1>5. Shard!Consistent'
  BY <1>1, <1>2 DEF Shard!Consistent
<1>6. Shard!WithinLimits'
  <2>1. {lru'[i] : i \in 0 + 1 .. Len(lru')} = {}
    BY <1>1, <1>2
  <2>2. Shard!BytesBehind(elem', lru', 0) = Shard!BytesOf(elem', {})
    BY <2>1, Zenon DEF Shard!BytesBehind
  <2>3. Shard!BytesBehind(elem', lru', 0) = 0
    BY <2>2, BytesEmpty
  <2> QED
    BY <1>1, <1>2, <2>3, CacheAssumption DEF Shard!WithinLimits, Shard!ShardAssumption
<1>7. GetsHold'
  <2>1. \A k \in Keys : Shard!Mapping'[k] = None
    BY <1>1 DEF Shard!Mapping
  <2>2. asked \in [Requests -> Keys \cup {None}] /\ held \in [Requests -> Elems \cup {None}]
    BY DEF ShardInv, Shard!TypeOK
  <2>3. \A c \in Requests : held[c] # None => elem'[held[c]] = elem[held[c]]
    BY <1>3, <2>2
  <2> QED
    BY <1>1, <2>1, <2>2, <2>3 DEF ShardInv, GetsHold
<1>8. UseOrder'
  BY <1>1, <1>2 DEF UseOrder
<1> QED
  BY <1>4, <1>5, <1>6, <1>7, <1>8 DEF ShardInv

LEMMA LookupKeeps ==
  ASSUME ShardInv, NEW c \in Requests, NEW k \in Keys, Shard!Lookup(c, k)
  PROVE  ShardInv'
<1>1. UNCHANGED <<entries, lru, elem, size, since, last>> /\ held[c] = None
  BY DEF Shard!Lookup
<1>2. Shard!Consistent' /\ Shard!WithinLimits' /\ UseOrder'
  <2>1. Shard!Consistent'
    BY <1>1 DEF ShardInv, Shard!Consistent, Shard!InList
  <2>2. Shard!WithinLimits'
    BY <1>1, Zenon DEF ShardInv, Shard!WithinLimits, Shard!BytesBehind
  <2>3. UseOrder'
    BY <1>1 DEF ShardInv, UseOrder
  <2> QED
    BY <2>1, <2>2, <2>3
<1>3. \A j \in Keys : Shard!Mapping'[j] = Shard!Mapping[j]
  BY <1>1 DEF Shard!Mapping
<1>4. CASE entries[k] = None
  <2>1. got' = [got EXCEPT ![c] = None] /\ UNCHANGED <<held, asked, seen>>
    BY <1>4 DEF Shard!Lookup
  <2>2. Shard!TypeOK'
    BY <1>1, <2>1 DEF ShardInv, Shard!TypeOK
  <2>3. GetsHold'
    BY <1>1, <1>3, <2>1 DEF ShardInv, GetsHold, Shard!TypeOK
  <2> QED
    BY <1>2, <2>2, <2>3 DEF ShardInv
<1>5. CASE entries[k] # None
  <2>1. /\ held' = [held EXCEPT ![c] = entries[k]] /\ asked' = [asked EXCEPT ![c] = k]
        /\ seen' = [seen EXCEPT ![c] = {Shard!Mapping[k]}] /\ UNCHANGED got
    BY <1>5 DEF Shard!Lookup
  <2>2. /\ entries[k] \in Elems /\ elem[entries[k]] \in Shard!LruEntry /\ elem[entries[k]].key = k
        /\ Shard!Mapping[k] = elem[entries[k]].value /\ Shard!Mapping[k] \in Entry
    BY <1>5, ShardFacts, MappingFacts
  <2>3. Shard!TypeOK'
    BY <1>1, <2>1, <2>2 DEF ShardInv, Shard!TypeOK
  <2>4. GetsHold'
    <3> SUFFICES ASSUME NEW d \in Requests
                 PROVE  /\ held'[d] = None <=> asked'[d] = None
                        /\ held'[d] # None => /\ elem[held'[d]] # None /\ elem[held'[d]].key = asked'[d]
                                              /\ elem[held'[d]].value \in seen'[d]
                        /\ asked'[d] # None /\ Shard!Mapping'[asked'[d]] # None =>
                              Shard!Mapping'[asked'[d]] \in seen'[d]
      BY <1>1 DEF GetsHold
    <3>1. CASE d = c
      <4>1. held'[d] = entries[k] /\ asked'[d] = k /\ seen'[d] = {Shard!Mapping[k]}
        BY <2>1, <3>1 DEF ShardInv, Shard!TypeOK
      <4>2. elem[entries[k]] # None /\ k # None
        BY <2>2, CacheAssumption DEF Shard!ShardAssumption
      <4> QED
        BY <1>3, <1>5, <2>2, <4>1, <4>2
    <3>2. CASE d # c
      <4>1. held'[d] = held[d] /\ asked'[d] = asked[d] /\ seen'[d] = seen[d]
        BY <2>1, <3>2 DEF ShardInv, Shard!TypeOK
      <4> QED
        BY <1>3, <4>1 DEF ShardInv, GetsHold, Shard!TypeOK
    <3> QED
      BY <3>1, <3>2
  <2> QED
    BY <1>2, <2>3, <2>4 DEF ShardInv
<1> QED
  BY <1>4, <1>5

LEMMA ReadBackKeeps ==
  ASSUME ShardInv, NEW c \in Requests, Shard!ReadBack(c)
  PROVE  ShardInv'
<1> DEFINE e == held[c]
<1>1. /\ held[c] # None /\ held[c] \in Elems /\ asked[c] \in Keys
      /\ elem[held[c]] \in Shard!LruEntry /\ elem[held[c]].key = asked[c]
  BY DEF Shard!ReadBack, ShardInv, GetsHold, Shard!TypeOK
<1>2. /\ got' = [got EXCEPT ![c] = elem[held[c]].value] /\ held' = [held EXCEPT ![c] = None]
      /\ asked' = [asked EXCEPT ![c] = None] /\ seen' = [seen EXCEPT ![c] = {}]
      /\ elem' = Shard!Collect(elem, lru, held') /\ UNCHANGED <<entries, size, last>>
      /\ IF e \in Shard!ToSet(lru)
           THEN /\ lru' = Shard!MoveToFront(e)
                /\ since' = [j \in Keys |-> IF entries[j] = None THEN {} ELSE Shard!Used(asked[c])[j]]
           ELSE UNCHANGED <<lru, since>>
  BY DEF Shard!ReadBack, Shard!InList
<1> HIDE DEF e
<1>3. /\ lru' \in Seq(Elems) /\ Distinct(lru') /\ Shard!ToSet(lru') = Shard!ToSet(lru)
      /\ Len(lru') = Len(lru)
  <2>1. CASE e \in Shard!ToSet(lru)
    <3>1. Fronted(Shard!MoveToFront(e), e) /\ Len(Shard!MoveToFront(e)) = Len(lru)
      BY <2>1, ShardFacts, MoveFacts
    <3> QED
      BY <1>2, <2>1, <3>1 DEF Fronted
  <2>2. CASE e \notin Shard!ToSet(lru)
    BY <1>2, <2>2, ShardFacts
  <2> QED
    BY <2>1, <2>2
<1>4. \A x \in Shard!ToSet(lru) : /\ x \in Elems /\ elem'[x] = elem[x]
                                 /\ elem[x] \in Shard!LruEntry /\ entries[elem[x].key] = x
  BY <1>2, ShardFacts DEF Shard!Collect
<1>5. \A k \in Keys : Shard!Mapping'[k] = Shard!Mapping[k]
  <2> SUFFICES ASSUME NEW k \in Keys, entries[k] # None PROVE elem'[entries[k]] = elem[entries[k]]
    BY <1>2 DEF Shard!Mapping
  <2> QED
    BY <1>4, ShardFacts
<1>6. Shard!TypeOK'
  <2>1. elem' \in [Elems -> Shard!LruEntry \cup {None}]
    BY <1>2 DEF Shard!Collect, ShardInv, Shard!TypeOK
  <2>2. since' \in [Keys -> SUBSET Keys]
    BY <1>1, <1>2 DEF Shard!Used, ShardInv, Shard!TypeOK
  <2>3. got' \in [Requests -> Entry \cup {None}]
    BY <1>1, <1>2 DEF ShardInv, Shard!TypeOK, Shard!LruEntry
  <2> QED
    BY <1>2, <1>3, <2>1, <2>2, <2>3 DEF ShardInv, Shard!TypeOK
<1>7. Shard!Consistent'
  <2>1. \A x \in Shard!ToSet(lru') : elem'[x] # None /\ entries'[elem'[x].key] = x
    <3> SUFFICES ASSUME NEW x \in Shard!ToSet(lru)
                 PROVE  elem'[x] # None /\ entries'[elem'[x].key] = x
      BY <1>3
    <3>1. elem[x] # None
      BY <1>4, CacheAssumption DEF Shard!ShardAssumption
    <3> QED
      BY <1>2, <1>4, <3>1
  <2>2. \A k \in Keys : entries'[k] # None =>
          entries'[k] \in Shard!ToSet(lru') /\ elem'[entries'[k]].key = k
    BY <1>2, <1>3, <1>4, ShardFacts
  <2> QED
    BY <1>3, <2>1, <2>2 DEF Shard!Consistent, Shard!InList, Distinct
<1>8. Shard!WithinLimits'
  <2>1. {lru'[i] : i \in 0 + 1 .. Len(lru')} = Shard!ToSet(lru)
    BY <1>3, SetOfList
  <2>2. Shard!BytesOf(elem', Shard!ToSet(lru)) = Shard!BytesOf(elem, Shard!ToSet(lru))
    BY <1>4, BytesSame, ShardFacts
  <2>3. Shard!BytesBehind(elem', lru', 0) = Shard!BytesOf(elem', Shard!ToSet(lru))
    BY <2>1, Zenon DEF Shard!BytesBehind
  <2> QED
    BY <1>2, <1>3, <2>2, <2>3, ShardFacts DEF ShardInv, Shard!WithinLimits
<1>9. GetsHold'
  <2> SUFFICES ASSUME NEW d \in Requests
               PROVE  /\ held'[d] = None <=> asked'[d] = None
                      /\ held'[d] # None => /\ elem'[held'[d]] # None /\ elem'[held'[d]].key = asked'[d]
                                            /\ elem'[held'[d]].value \in seen'[d]
                      /\ asked'[d] # None /\ Shard!Mapping'[asked'[d]] # None =>
                            Shard!Mapping'[asked'[d]] \in seen'[d]
    BY DEF GetsHold
  <2>1. CASE d = c
    BY <1>2, <2>1 DEF ShardInv, Shard!TypeOK
  <2>2. CASE d # c
    <3>1. held'[d] = held[d] /\ asked'[d] = asked[d] /\ seen'[d] = seen[d]
      BY <1>2, <2>2 DEF ShardInv, Shard!TypeOK
    <3>2. held[d] # None => elem'[held[d]] = elem[held[d]]
      BY <1>2, <3>1 DEF Shard!Collect, ShardInv, Shard!TypeOK
    <3> QED
      BY <1>5, <3>1, <3>2 DEF ShardInv, GetsHold, Shard!TypeOK
  <2> QED
    BY <2>1, <2>2
<1>10. UseOrder'
  <2>1. \A i \in 1 .. Len(lru') : lru'[i] \in Shard!ToSet(lru)
    BY <1>3, SetOfList
  <2>2. CASE e \in Shard!ToSet(lru)
    <3> DEFINE l == Shard!MoveToFront(e)
    <3>1. Fronted(l, e) /\ lru' = l
      BY <1>2, <2>2, ShardFacts, MoveFacts
    <3>2. since' = [j \in Keys |-> IF entries[j] = None THEN {}
                                  ELSE IF j = asked[c] THEN {} ELSE since[j] \cup {asked[c]}]
      BY <1>2, <2>2 DEF Shard!Used
    <3> HIDE DEF l
    <3> SUFFICES ASSUME NEW i \in 1 .. Len(l), NEW j \in 1 .. Len(l), i < j
                 PROVE  elem[l[i]].key \in since'[elem[l[j]].key]
      BY <1>4, <2>1, <3>1 DEF UseOrder
    <3>3. /\ l[j] # e /\ l[j] \in Elems /\ elem[l[j]].key \in Keys /\ entries[elem[l[j]].key] = l[j]
          /\ l[1] = e /\ Len(l) \in Nat
      BY <1>4, <2>1, <3>1 DEF Fronted, Distinct, Shard!LruEntry
    <3>4. elem[l[j]].key # asked[c]
      BY <1>1, <1>4, <2>2, <3>3 DEF e
    <3>5. since'[elem[l[j]].key] = since[elem[l[j]].key] \cup {asked[c]}
      BY <3>2, <3>3, <3>4, ShardFacts
    <3>6. CASE i = 1
      BY <1>1, <3>3, <3>5, <3>6 DEF e
    <3>7. CASE i # 1
      <4>1. Before(lru, l[i], l[j])
        BY <3>1, <3>3, <3>7 DEF Fronted
      <4>2. elem[l[i]].key \in since[elem[l[j]].key]
        BY <4>1 DEF ShardInv, UseOrder, Before
      <4> QED
        BY <3>5, <4>2
    <3> QED
      BY <3>6, <3>7
  <2>3. CASE e \notin Shard!ToSet(lru)
    <3>1. lru' = lru /\ since' = since
      BY <1>2, <2>3
    <3> SUFFICES ASSUME NEW i \in 1 .. Len(lru), NEW j \in 1 .. Len(lru), i < j
                 PROVE  elem'[lru[i]].key \in since[elem'[lru[j]].key]
      BY <3>1 DEF UseOrder
    <3>2. elem'[lru[i]] = elem[lru[i]] /\ elem'[lru[j]] = elem[lru[j]]
      BY <1>4, <2>1, <3>1
    <3> QED
      BY <3>2 DEF ShardInv, UseOrder
  <2> QED
    BY <2>2, <2>3
<1> QED
  BY <1>6, <1>7, <1>8, <1>9, <1>10 DEF ShardInv

LEMMA TakeKeeps == ASSUME ShardInv, NEW c \in Requests, Shard!Take(c) PROVE ShardInv'
<1>1. /\ got' \in [Requests -> Entry \cup {None}]
      /\ UNCHANGED <<entries, lru, elem, size, held, asked, seen, since, last>>
  BY DEF Shard!Take, ShardInv, Shard!TypeOK
<1> USE DEF ShardInv
<1>2. Shard!TypeOK'
  BY <1>1 DEF Shard!TypeOK
<1>3. Shard!Consistent'
  BY <1>1 DEF Shard!Consistent, Shard!InList
<1>4. Shard!WithinLimits'
  BY <1>1, Zenon DEF Shard!WithinLimits, Shard!BytesBehind
<1>5. GetsHold'
  <2>1. \A k \in Keys : Shard!Mapping'[k] = Shard!Mapping[k]
    BY <1>1 DEF Shard!Mapping
  <2>2. asked \in [Requests -> Keys \cup {None}]
    BY DEF Shard!TypeOK
  <2> QED
    BY <1>1, <2>1, <2>2 DEF GetsHold
<1>6. UseOrder'
  BY <1>1 DEF UseOrder
<1> QED
  BY <1>2, <1>3, <1>4, <1>5, <1>6

LEMMA ShardStarts == Shard!Init => ShardInv
<1> SUFFICES ASSUME Shard!Init PROVE ShardInv
  OBVIOUS
<1> USE DEF Shard!Init
<1>1. Shard!ToSet(lru) = {} /\ Len(lru) = 0 /\ lru \in Seq(Elems)
  BY DEF Shard!ToSet
<1>2. Shard!TypeOK
  BY <1>1 DEF Shard!TypeOK
<1>3. Shard!Consistent
  BY <1>1 DEF Shard!Consistent
<1>4. Shard!WithinLimits
  <2>1. {lru[i] : i \in 0 + 1 .. Len(lru)} = {}
    BY <1>1
  <2>2. Shard!BytesBehind(elem, lru, 0) = Shard!BytesOf(elem, {})
    BY <2>1, Zenon DEF Shard!BytesBehind
  <2>3. Shard!BytesBehind(elem, lru, 0) = 0
    BY <2>2, BytesEmpty
  <2> QED
    BY <1>1, <2>3, CacheAssumption DEF Shard!WithinLimits, Shard!ShardAssumption
<1>5. GetsHold
  BY DEF GetsHold
<1>6. UseOrder
  BY <1>1 DEF UseOrder
<1> QED
  BY <1>2, <1>3, <1>4, <1>5, <1>6 DEF ShardInv

LEMMA ShardKeeps == ShardInv /\ [Shard!Next]_shardVars => ShardInv'
<1> SUFFICES ASSUME ShardInv, [Shard!Next]_shardVars PROVE ShardInv'
  OBVIOUS
<1>1. ASSUME NEW c \in Requests, Shard!ReadBack(c) PROVE ShardInv'
  BY <1>1, ReadBackKeeps
<1>2. ASSUME NEW c \in Requests, NEW k \in Keys, Shard!Lookup(c, k) PROVE ShardInv'
  BY <1>2, LookupKeeps
<1>3. ASSUME NEW k \in Keys, Shard!Delete(k) PROVE ShardInv'
  BY <1>3, DeleteKeeps
<1>4. ASSUME NEW k \in Keys, NEW v \in Entry, Shard!Set(k, v) PROVE ShardInv'
  BY <1>4, SetKeeps
<1>5. CASE Shard!Clear
  BY <1>5, ClearKeeps
<1>6. CASE UNCHANGED shardVars
  BY <1>6, ShardStutters
<1>7. ASSUME NEW c \in Requests, Shard!Take(c) PROVE ShardInv'
  BY <1>7, TakeKeeps
<1> QED
  BY <1>1, <1>2, <1>3, <1>4, <1>5, <1>6, <1>7 DEF Shard!Next

-----------------------------------------------------------------------------
(* The shard implements the contract of a cache *)

LEMMA MappingTyped == ShardInv => Shard!Mapping \in [Keys -> Entry \cup {None}]
  BY MappingFacts DEF Shard!Mapping

LEMMA SetMaps ==
  ASSUME ShardInv, NEW k \in Keys, NEW v \in Entry, NEW e \in Elems, NEW f, NEW l, NEW n,
         SetBy(k, v, e, f, l, n)
  PROVE  /\ Shard!Mapping'[k] = v
         /\ \A j \in Keys \ {k} : Shard!Mapping'[j] \in {Shard!Mapping[j], None}
         /\ \A j \in Keys \ {k} : entries'[j] # None => Shard!Mapping'[j] = Shard!Mapping[j]
<1>1. Listed(k, v, e, f, l, n) /\ Evicted(k, e, f, l, n)
  BY SetKeys, SetKept
<1>2. Shard!Mapping'[k] = v
  <2>1. entries'[k] = e /\ elem'[e] = f[e] /\ f[e].value = v
    BY <1>1 DEF Evicted, Listed
  <2> QED
    BY <2>1, ShardFacts DEF Shard!Mapping
<1>3. ASSUME NEW j \in Keys \ {k}, entries'[j] # None
      PROVE  Shard!Mapping'[j] = Shard!Mapping[j]
  <2>1. PICK i \in 1 .. n : entries'[j] = l[i] /\ f[l[i]].key = j
    BY <1>1, <1>3 DEF Evicted
  <2>2. i \in 2 .. Len(l) /\ i \in 1 .. n
    BY <1>1, <2>1 DEF Listed
  <2>3. entries[j] = l[i] /\ elem'[l[i]] = elem[l[i]]
    BY <1>1, <2>1, <2>2 DEF Listed, Evicted
  <2> QED
    BY <1>3, <2>1, <2>3 DEF Shard!Mapping
<1>4. \A j \in Keys : entries'[j] = None => Shard!Mapping'[j] = None
  BY DEF Shard!Mapping
<1> QED
  BY <1>2, <1>3, <1>4

LEMMA SetPuts ==
  ASSUME ShardInv, NEW k \in Keys, NEW v \in Entry, Shard!Set(k, v)
  PROVE  Shard!Contract!Put(k, v)
<1>1. PICK e, f, l, n : e \in Elems /\ SetBy(k, v, e, f, l, n)
  BY SetFacts
<1> e \in Elems
  BY <1>1
<1>2. Shard!Mapping'[k] = v /\ \A j \in Keys \ {k} : Shard!Mapping'[j] \in {Shard!Mapping[j], None}
  BY <1>1, SetMaps
<1>4. Shard!Mapping' \in [Keys -> Entry \cup {None}]
  <2>1. Shard!Mapping \in [Keys -> Entry \cup {None}]
    BY MappingTyped
  <2>2. Shard!Mapping' = [j \in Keys |-> Shard!Mapping'[j]]
    BY DEF Shard!Mapping
  <2> QED
    BY <1>2, <2>1, <2>2
<1>6. seen' = [c \in Requests |->
                IF asked[c] # None /\ Shard!Mapping'[asked[c]] # None
                  THEN seen[c] \cup {Shard!Mapping'[asked[c]]} ELSE seen[c]]
  BY <1>1 DEF SetBy, Shard!SeenBy
<1>7. last' = [key |-> k, value |-> v] /\ UNCHANGED <<asked, got>>
  BY <1>1 DEF SetBy
<1> QED
  BY <1>2, <1>4, <1>6, <1>7 DEF Shard!Contract!Put, Shard!Contract!Noticed

\* The mapping after the other steps.
LEMMA DeleteMaps ==
  ASSUME ShardInv, NEW k \in Keys, Shard!Delete(k)
  PROVE  /\ \A j \in Keys : Shard!Mapping'[j] \in {Shard!Mapping[j], None}
         /\ \A j \in Keys : entries'[j] # None => Shard!Mapping'[j] = Shard!Mapping[j]
         /\ UNCHANGED <<asked, got, seen>>
<1>1. CASE entries[k] = None
  BY <1>1 DEF Shard!Delete, Shard!shardVars, Shard!Mapping
<1>2. CASE entries[k] # None
  <2>1. /\ lru' = Shard!Unlink(entries[k]) /\ entries' = [entries EXCEPT ![k] = None]
        /\ elem' = Shard!Collect(elem, lru', held) /\ UNCHANGED <<asked, got, seen>>
    BY <1>2 DEF Shard!Delete
  <2>2. entries[k] \in Shard!ToSet(lru) /\ elem[entries[k]].key = k
    BY <1>2, ShardFacts
  <2>3. Shard!ToSet(lru') = Shard!ToSet(lru) \ {entries[k]}
    BY <2>1, <2>2, ShardFacts, UnlinkFacts
  <2>4. ASSUME NEW j \in Keys, entries'[j] # None PROVE Shard!Mapping'[j] = Shard!Mapping[j]
    <3>1. entries'[j] = entries[j] /\ j # k /\ entries[j] # None
      BY <2>1, <2>4 DEF ShardInv, Shard!TypeOK
    <3>2. entries[j] \in Shard!ToSet(lru') /\ entries[j] \in Elems
      BY <2>2, <2>3, <3>1, ShardFacts
    <3>3. elem'[entries[j]] = elem[entries[j]]
      BY <2>1, <3>2 DEF Shard!Collect
    <3> QED
      BY <3>1, <3>3 DEF Shard!Mapping
  <2>5. \A j \in Keys : entries'[j] = None => Shard!Mapping'[j] = None
    BY DEF Shard!Mapping
  <2> QED
    BY <2>1, <2>4, <2>5
<1> QED
  BY <1>1, <1>2

LEMMA ReadBackMaps ==
  ASSUME ShardInv, NEW c \in Requests, Shard!ReadBack(c)
  PROVE  Shard!Mapping' = Shard!Mapping
<1>1. \A k \in Keys : entries[k] # None => elem'[entries[k]] = elem[entries[k]]
  BY ShardFacts DEF Shard!ReadBack, Shard!Collect
<1> QED
  BY <1>1 DEF Shard!ReadBack, Shard!Mapping

LEMMA ShardRefines == ShardInv /\ [Shard!Next]_shardVars => [Shard!Contract!Next]_(Shard!Contract!vars)
<1> SUFFICES ASSUME ShardInv, [Shard!Next]_shardVars
             PROVE  Shard!Contract!Next \/ UNCHANGED Shard!Contract!vars
  OBVIOUS
<1> USE DEF Shard!Contract!Next
<1>1. ASSUME NEW c \in Requests, Shard!ReadBack(c) PROVE Shard!Contract!Next
  <2>1. Shard!Mapping' = Shard!Mapping
    BY <1>1, ReadBackMaps
  <2>2. asked[c] # None /\ elem[held[c]].value \in seen[c]
    BY <1>1 DEF Shard!ReadBack, ShardInv, GetsHold
  <2>3. Shard!Contract!Return(c)
    BY <1>1, <2>1, <2>2 DEF Shard!Contract!Return, Shard!ReadBack
  <2> QED
    BY <2>3
<1>2. ASSUME NEW c \in Requests, NEW k \in Keys, Shard!Lookup(c, k) PROVE Shard!Contract!Next
  <2>1. Shard!Mapping' = Shard!Mapping
    BY <1>2 DEF Shard!Lookup, Shard!Mapping
  <2>2. asked[c] = None
    BY <1>2 DEF Shard!Lookup, ShardInv, GetsHold
  <2>3. CASE entries[k] = None
    <3>1. Shard!Contract!Miss(c, k)
      BY <1>2, <2>1, <2>2, <2>3 DEF Shard!Contract!Miss, Shard!Lookup, Shard!Mapping
    <3> QED
      BY <3>1
  <2>4. CASE entries[k] # None
    <3>1. Shard!Mapping[k] # None
      BY <2>4, MappingFacts
    <3>2. Shard!Contract!Find(c, k)
      BY <1>2, <2>1, <2>2, <2>4, <3>1 DEF Shard!Contract!Find, Shard!Lookup
    <3> QED
      BY <3>2
  <2> QED
    BY <2>3, <2>4
<1>3. ASSUME NEW k \in Keys, Shard!Delete(k)
      PROVE  Shard!Contract!Next \/ UNCHANGED Shard!Contract!vars
  <2>1. CASE entries[k] = None
    BY <1>3, <2>1 DEF Shard!Delete, Shard!shardVars, Shard!Contract!vars, Shard!Mapping
  <2>2. CASE entries[k] # None
    <3>1. last' = None /\ entries' = [entries EXCEPT ![k] = None]
      BY <1>3, <2>2 DEF Shard!Delete
    <3>2. \A j \in Keys : Shard!Mapping'[j] = IF j = k THEN None ELSE Shard!Mapping[j]
      BY <1>3, <3>1, DeleteMaps DEF Shard!Mapping, ShardInv, Shard!TypeOK
    <3>3. Shard!Mapping' = [Shard!Mapping EXCEPT ![k] = None]
      BY <3>2 DEF Shard!Mapping
    <3>4. Shard!Contract!Forget(k)
      BY <1>3, <3>1, <3>3, DeleteMaps DEF Shard!Contract!Forget
    <3> QED
      BY <3>4
  <2> QED
    BY <2>1, <2>2
<1>4. ASSUME NEW k \in Keys, NEW v \in Entry, Shard!Set(k, v) PROVE Shard!Contract!Next
  BY <1>4, SetPuts
<1>5. CASE Shard!Clear
  <2>1. Shard!Mapping' = [j \in Keys |-> None]
    BY <1>5 DEF Shard!Clear, Shard!Mapping
  <2>2. last' = None /\ UNCHANGED <<asked, got, seen>>
    BY <1>5 DEF Shard!Clear
  <2>3. Shard!Contract!ForgetAll
    BY <2>1, <2>2 DEF Shard!Contract!ForgetAll
  <2> QED
    BY <2>3
<1>6. CASE UNCHANGED shardVars
  BY <1>6 DEF shardVars, Shard!Contract!vars, Shard!Mapping
<1>7. ASSUME NEW c \in Requests, Shard!Take(c) PROVE Shard!Contract!Next
  <2>1. Shard!Contract!Take(c)
    BY <1>7 DEF Shard!Take, Shard!Contract!Take, Shard!Mapping
  <2> QED
    BY <2>1
<1> QED
  BY <1>1, <1>2, <1>3, <1>4, <1>5, <1>6, <1>7 DEF Shard!Next

-----------------------------------------------------------------------------
(* Eviction takes what was used least recently *)

LEMMA SetEvicts ==
  ASSUME ShardInv, NEW k \in Keys, NEW v \in Entry, Shard!Set(k, v)
  PROVE  Shard!EvictsLeastRecent
<1> DEFINE gone == {j \in Keys : entries[j] # None /\ entries'[j] = None}
           left == {j \in Keys : entries'[j] # None}
<1> SUFFICES ASSUME NEW x \in left, Shard!Mapping'[x] # Shard!Mapping[x], gone # {}
             PROVE  /\ \A j \in gone : left \subseteq since[j] \cup {x}
                    /\ \E j \in gone : \/ Shard!Cardinality(left) + 1 > MaxCount
                                       \/ size' + elem[entries[j]].size > MaxSize
  BY DEF Shard!EvictsLeastRecent
<1>1. PICK e, f, l, n : e \in Elems /\ SetBy(k, v, e, f, l, n)
  BY SetFacts
<1> e \in Elems
  BY <1>1
<1>2. Listed(k, v, e, f, l, n) /\ Evicted(k, e, f, l, n)
  BY <1>1, SetKeys, SetKept
<1>3. x = k
  BY <1>1, SetMaps
<1>4. n \in 1 .. Len(l) /\ Len(l) \in Nat /\ l \in Seq(Elems) /\ Distinct(l)
  BY <1>2 DEF Listed
<1>5. ASSUME NEW j \in gone
      PROVE  \E m \in n + 1 .. Len(l) : f[l[m]].key = j /\ f[l[m]] = elem[l[m]]
  <2>1. j # k
    BY <1>2, ShardFacts DEF Evicted
  <2>2. PICK m \in n + 1 .. Len(l) : f[l[m]].key = j
    BY <1>2, <2>1 DEF Evicted
  <2>3. m \in 2 .. Len(l)
    BY <1>4
  <2> QED
    BY <1>2, <2>2, <2>3 DEF Listed
<1>6. ASSUME NEW j \in left
      PROVE  \E i \in 1 .. n : f[l[i]].key = j
  BY <1>2 DEF Evicted
<1>7. ASSUME NEW j \in gone, NEW y \in left, y # k PROVE y \in since[j]
  <2>1. PICK m \in n + 1 .. Len(l) : f[l[m]].key = j /\ f[l[m]] = elem[l[m]]
    BY <1>5
  <2>2. PICK i \in 1 .. n : f[l[i]].key = y
    BY <1>6
  <2>3. i \in 2 .. Len(l) /\ m \in 2 .. Len(l) /\ i < m
    <3>1. i # 1
      BY <1>2, <1>4, <1>7, <2>2 DEF Listed
    <3> QED
      BY <1>4, <3>1
  <2>4. f[l[i]] = elem[l[i]]
    BY <1>2, <2>3 DEF Listed
  <2>5. Before(lru, l[i], l[m])
    BY <1>1, <2>3 DEF SetBy, Fronted
  <2>6. elem[l[i]].key \in since[elem[l[m]].key]
    BY <2>5 DEF ShardInv, UseOrder, Before
  <2> QED
    BY <2>1, <2>2, <2>4, <2>6
<1>8. \E j \in gone : \/ Shard!Cardinality(left) + 1 > MaxCount
                     \/ size' + elem[entries[j]].size > MaxSize
  <2>1. n < Len(l)
    <3>1. PICK j \in gone : TRUE
      OBVIOUS
    <3>2. \E m \in n + 1 .. Len(l) : TRUE
      BY <1>5, <3>1
    <3> QED
      BY <1>4, <3>2
  <2>2. n + 1 \in 2 .. Len(l) /\ n + 1 \in n + 1 .. Len(l)
    BY <1>4, <2>1
  <2> DEFINE z == l[n + 1]
             j == f[z].key
  <2>3. /\ f[z] = elem[z] /\ entries[j] = z /\ z \in Elems /\ f[z] \in Shard!LruEntry /\ j \in Keys
        /\ entries'[j] = None
    <3>1. f[z] = elem[z] /\ entries[j] = z /\ z \in Elems /\ f[z] \in Shard!LruEntry
      BY <1>2, <2>2 DEF Listed
    <3>2. entries'[j] = None
      BY <1>2, <2>2 DEF Evicted
    <3> QED
      BY <3>1, <3>2 DEF Shard!LruEntry
  <2>4. j \in gone
    BY <2>3, ShardFacts
  <2>5. CASE n + 1 > MaxCount
    <3> DEFINE g == [i \in 1 .. n |-> f[l[i]].key]
    <3>1. \A i \in 1 .. n : f[l[i]].key \in left
      <4> SUFFICES ASSUME NEW i \in 1 .. n PROVE f[l[i]].key \in left
        OBVIOUS
      <4>1. l[i] \in Elems /\ f[l[i]].key \in Keys /\ entries'[f[l[i]].key] = l[i]
        BY <1>2, <1>4 DEF Listed, Evicted, Shard!LruEntry
      <4> QED
        BY <4>1, ShardFacts
    <3>2. \A i, m \in 1 .. n : f[l[i]].key = f[l[m]].key => i = m
      BY <1>2, <1>4 DEF Listed
    <3> HIDE DEF left
    <3>3. g \in Bijection(1 .. n, left)
      <4>1. g \in [1 .. n -> left] /\ \A i \in 1 .. n : g[i] = f[l[i]].key
        BY <3>1
      <4>2. \A j1 \in left : \E i \in 1 .. n : g[i] = j1
        BY <1>6, <4>1
      <4>3. \A i, m \in 1 .. n : g[i] = g[m] => i = m
        BY <3>2, <4>1
      <4> HIDE DEF g
      <4> QED
        BY <4>1, <4>2, <4>3 DEF Bijection, Injection, Surjection, IsInjective
    <3>4. IsFiniteSet(1 .. n) /\ Cardinality(1 .. n) = n
      BY <1>4, IntervalSize
    <3>5. Cardinality(left) = n
      BY <3>3, <3>4, FS_Bijection, Zenon DEF ExistsBijection
    <3>6. Shard!Cardinality(left) = Cardinality(left)
      BY Zenon DEF Shard!Cardinality, Cardinality
    <3> QED
      BY <2>4, <2>5, <3>5, <3>6
  <2>6. CASE Shard!BytesOf(f, {l[i] : i \in 1 .. n + 1}) > MaxSize
    <3> DEFINE A == {l[i] : i \in 1 .. n}
    <3>1. {l[i] : i \in 1 .. n + 1} = A \cup {z}
      <4>1. \A i : i \in 1 .. n + 1 <=> i \in 1 .. n \/ i = n + 1
        BY <1>4
      <4> QED
        BY <4>1
    <3>2. A \cap {z} = {}
      BY <1>4, <2>2 DEF Distinct
    <3>3. Sized(f, A \cup {z})
      <4>1. A \cup {z} \subseteq Shard!ToSet(l)
        BY <1>4, <2>2, SetOfList
      <4>2. IsFiniteSet(A \cup {z})
        BY <1>4, <4>1, SetOfList, FS_Subset
      <4>3. \A y \in A \cup {z} : f[y] \in Shard!LruEntry
        BY <1>2, <1>4, <2>3 DEF Listed
      <4> QED
        BY <4>2, <4>3 DEF Sized, Shard!LruEntry
    <3> HIDE DEF A, z
    <3>4. Shard!BytesOf(f, A \cup {z}) = Shard!BytesOf(f, A) + Shard!BytesOf(f, {z})
      BY <3>2, <3>3, BytesUnion, Zenon
    <3>5. Shard!BytesOf(f, {z}) = f[z].size
      BY <2>3, BytesOne DEF Shard!LruEntry
    <3>6. size' = Shard!BytesOf(f, A)
      BY <1>1 DEF SetBy, A
    <3>7. Shard!BytesOf(f, A \cup {z}) > MaxSize
      BY <2>6, <3>1, Zenon
    <3> QED
      BY <2>3, <2>4, <3>4, <3>5, <3>6, <3>7
  <2> QED
    BY <1>1, <2>1, <2>5, <2>6 DEF SetBy
<1> QED
  BY <1>3, <1>7, <1>8

LEMMA ShardEvicts == ShardInv /\ [Shard!Next]_shardVars => [Shard!EvictsLeastRecent]_shardVars
<1> SUFFICES ASSUME ShardInv, Shard!Next PROVE Shard!EvictsLeastRecent
  OBVIOUS
<1>1. ASSUME NEW c \in Requests, Shard!ReadBack(c) PROVE Shard!EvictsLeastRecent
  BY <1>1, ReadBackMaps DEF Shard!EvictsLeastRecent
<1>2. ASSUME NEW c \in Requests, NEW k \in Keys, Shard!Lookup(c, k) PROVE Shard!EvictsLeastRecent
  <2>1. Shard!Mapping' = Shard!Mapping
    BY <1>2 DEF Shard!Lookup, Shard!Mapping
  <2> QED
    BY <2>1 DEF Shard!EvictsLeastRecent
<1>3. ASSUME NEW k \in Keys, Shard!Delete(k) PROVE Shard!EvictsLeastRecent
  BY <1>3, DeleteMaps DEF Shard!EvictsLeastRecent
<1>4. ASSUME NEW k \in Keys, NEW v \in Entry, Shard!Set(k, v) PROVE Shard!EvictsLeastRecent
  BY <1>4, SetEvicts
<1>5. CASE Shard!Clear
  BY <1>5 DEF Shard!Clear, Shard!EvictsLeastRecent
<1>6. ASSUME NEW c \in Requests, Shard!Take(c) PROVE Shard!EvictsLeastRecent
  <2>1. Shard!Mapping' = Shard!Mapping
    BY <1>6 DEF Shard!Take, Shard!Mapping
  <2> QED
    BY <2>1 DEF Shard!EvictsLeastRecent
<1> QED
  BY <1>1, <1>2, <1>3, <1>4, <1>5, <1>6 DEF Shard!Next

-----------------------------------------------------------------------------
(* The shard with any callers *)

THEOREM ShardAlone ==
  Shard!Spec => []ShardInv /\ Shard!ImplementsContract /\ Shard!LeastRecentlyUsed
<1>1. Shard!Init => ShardInv /\ Shard!Contract!Init
  <2>1. Shard!Init => Shard!Contract!Init
    BY DEF Shard!Init, Shard!Contract!Init, Shard!Mapping
  <2> QED
    BY <2>1, ShardStarts
<1>3. ShardInv /\ [Shard!Next]_(Shard!shardVars) => ShardInv'
  BY ShardKeeps DEF Shard!shardVars, shardVars
<1>4. ShardInv /\ [Shard!Next]_(Shard!shardVars) => [Shard!Contract!Next]_(Shard!Contract!vars)
  BY ShardRefines DEF Shard!shardVars, shardVars
<1>5. ShardInv /\ [Shard!Next]_(Shard!shardVars) => [Shard!EvictsLeastRecent]_(Shard!shardVars)
  BY ShardEvicts DEF Shard!shardVars, shardVars
<1> QED
  BY <1>1, <1>3, <1>4, <1>5, PTL
     DEF Shard!Spec, Shard!ImplementsContract, Shard!Contract!Spec, Shard!LeastRecentlyUsed

-----------------------------------------------------------------------------
(* The middleware *)

Public(e, k, F) == e.key = k /\ ~e.private /\ e.status # "error" /\ k \in F

\* Every element, in the list or held by a Get, has a public response for its
\* key, which a fill has stored; a request on its way to the cache carries no
\* credentials, and what is revalidated was stored once.
ServingInv ==
  /\ \A e \in Elems : elem[e] # None => Public(elem[e].value, elem[e].key, filled)
  /\ \A r \in Requests :
       /\ pc[r] = "read" <=> held[r] # None
       /\ pc[r] = "read" => asked[r] = req[r].key
       /\ pc[r] \in {"read", "check", "fill"} => req[r] \in Request /\ ~req[r].private
       /\ pc[r] = "check" => Public(got[r], req[r].key, filled)
       /\ reval[r] # None => reval[r] \in filled

CacheInv == TypeOK /\ ShardInv /\ ServingInv

LEMMA EntryMade ==
  ASSUME TypeOK, NEW q \in Request, NEW st \in Status
  PROVE  NewEntry(q, st) \in Entry
<1>1. now + TTL \in 0 .. MaxTime + TTL
  BY TimesAssumption DEF TypeOK
<1> QED
  BY <1>1 DEF NewEntry, Entry, Request

\* What the middleware stores.
LEMMA StoreFacts ==
  ASSUME CacheInv, NEW q \in Request, ~q.private, NEW st \in Status, st # "error", Store(q, st),
         filled \subseteq filled', q.key \in filled'
  PROVE  /\ [Shard!Next]_shardVars /\ UNCHANGED <<held, asked, got>>
         /\ \A e \in Elems : elem'[e] # None => Public(elem'[e].value, elem'[e].key, filled')
<1> DEFINE v == NewEntry(q, st)
<1>1. v \in Entry /\ Public(v, q.key, filled') /\ q.key \in Keys
  <2>1. v \in Entry
    BY EntryMade DEF CacheInv
  <2> QED
    BY <2>1 DEF NewEntry, Public, Request
<1>2. CASE UNCHANGED shardVars
  BY <1>2 DEF shardVars, CacheInv, ServingInv, Public
<1>3. CASE Shard!Set(q.key, v)
  <2>1. PICK e, f, l, n : e \in Elems /\ SetBy(q.key, v, e, f, l, n)
    BY <1>1, <1>3, SetFacts DEF CacheInv
  <2> e \in Elems
    BY <2>1
  <2>2. f = [elem EXCEPT ![e] = [key |-> q.key, value |-> v, size |-> EntrySize[v]]]
    BY <2>1 DEF SetBy
  <2>3. ASSUME NEW x \in Elems, f[x] # None PROVE Public(f[x].value, f[x].key, filled')
    <3>1. CASE x = e
      <4>1. f[x] = [key |-> q.key, value |-> v, size |-> EntrySize[v]]
        BY <2>2, <3>1 DEF CacheInv, TypeOK, Shard!TypeOK
      <4>2. f[x].key = q.key /\ f[x].value = v
        BY <4>1
      <4> QED
        BY <1>1, <4>2
    <3>2. CASE x # e
      <4>1. f[x] = elem[x]
        BY <2>2, <3>2 DEF CacheInv, TypeOK, Shard!TypeOK
      <4> QED
        BY <2>3, <4>1 DEF CacheInv, ServingInv, Public
    <3> QED
      BY <3>1, <3>2
  <2>4. \A x \in Elems : elem'[x] \in {f[x], None}
    BY <2>1 DEF SetBy, Shard!Collect
  <2>5. UNCHANGED <<held, asked, got>>
    BY <2>1 DEF SetBy
  <2>6. Shard!Next
    BY <1>1, <1>3 DEF Shard!Next
  <2> QED
    BY <2>3, <2>4, <2>5, <2>6
<1> QED
  BY <1>2, <1>3 DEF Store

\* A step of the middleware is a step of the shard, or leaves it alone.
MiddleStep ==
  /\ [Shard!Next]_shardVars
  /\ ServingInv'
  /\ now' \in 0 .. MaxTime
  /\ pc' \in [Requests -> {"idle", "read", "check", "fill", "bypass"}]
  /\ req' \in [Requests -> Request \cup {None}]
  /\ reval' \in [Requests -> Keys \cup {None}]
  /\ ended' \in [Requests -> BOOLEAN]
  /\ filled' \subseteq Keys

LEMMA ArriveStep == ASSUME CacheInv, NEW r \in Requests, Arrive(r) PROVE MiddleStep
<1>1. PICK q \in Request :
        /\ req' = [req EXCEPT ![r] = q]
        /\ IF IsCacheableRequest(q)
             THEN /\ Shard!Lookup(r, q.key)
                  /\ pc' = [pc EXCEPT ![r] = IF entries[q.key] = None THEN "fill" ELSE "read"]
             ELSE UNCHANGED shardVars /\ pc' = [pc EXCEPT ![r] = "bypass"]
  BY DEF Arrive
<1>2. /\ pc[r] = "idle" /\ UNCHANGED <<now, reval, ended, filled>>
      /\ q.key \in Keys
  BY DEF Arrive, Request
<1>3. /\ req' \in [Requests -> Request \cup {None}] /\ ended' \in [Requests -> BOOLEAN]
      /\ pc' \in [Requests -> {"idle", "read", "check", "fill", "bypass"}]
      /\ now' \in 0 .. MaxTime /\ reval' \in [Requests -> Keys \cup {None}] /\ filled' \subseteq Keys
  BY <1>1, <1>2 DEF CacheInv, TypeOK
<1>4. \A d \in Requests \ {r} : pc'[d] = pc[d] /\ req'[d] = req[d]
  BY <1>1 DEF CacheInv, TypeOK
<1>5. CASE ~IsCacheableRequest(q)
  <2>1. UNCHANGED shardVars /\ pc'[r] = "bypass"
    BY <1>1, <1>5 DEF CacheInv, TypeOK
  <2>2. ServingInv'
    BY <1>2, <1>4, <2>1 DEF shardVars, CacheInv, ServingInv
  <2> QED
    BY <1>3, <2>1, <2>2 DEF MiddleStep
<1>6. CASE IsCacheableRequest(q)
  <2>1. Shard!Lookup(r, q.key) /\ pc'[r] = IF entries[q.key] = None THEN "fill" ELSE "read"
    BY <1>1, <1>6 DEF CacheInv, TypeOK
  <2>2. Shard!Next
    BY <1>2, <2>1 DEF Shard!Next
  <2>3. elem' = elem /\ req'[r] = q /\ ~q.private /\ held[r] = None
    BY <1>1, <1>6, <2>1 DEF Shard!Lookup, IsCacheableRequest, CacheInv, TypeOK
  <2>4. \A d \in Requests \ {r} : held'[d] = held[d] /\ asked'[d] = asked[d] /\ got'[d] = got[d]
    BY <2>1 DEF Shard!Lookup, CacheInv, TypeOK, Shard!TypeOK
  <2>5. IF entries[q.key] = None THEN held'[r] = None
          ELSE held'[r] = entries[q.key] /\ held'[r] # None /\ asked'[r] = q.key
    BY <2>1, <2>3 DEF Shard!Lookup, CacheInv, TypeOK, Shard!TypeOK
  <2>6. ServingInv'
    <3> SUFFICES ASSUME NEW d \in Requests
                 PROVE  /\ pc'[d] = "read" <=> held'[d] # None
                        /\ pc'[d] = "read" => asked'[d] = req'[d].key
                        /\ pc'[d] \in {"read", "check", "fill"} => req'[d] \in Request /\ ~req'[d].private
                        /\ pc'[d] = "check" => Public(got'[d], req'[d].key, filled')
                        /\ reval'[d] # None => reval'[d] \in filled'
      BY <1>2, <2>3 DEF CacheInv, ServingInv
    <3>1. CASE d = r
      BY <1>2, <2>1, <2>3, <2>5, <3>1 DEF CacheInv, ServingInv
    <3>2. CASE d # r
      BY <1>2, <1>4, <2>4, <3>2 DEF CacheInv, ServingInv
    <3> QED
      BY <3>1, <3>2
  <2> QED
    BY <1>3, <2>2, <2>6 DEF MiddleStep
<1> QED
  BY <1>5, <1>6

LEMMA ReadStep == ASSUME CacheInv, NEW r \in Requests, Read(r) PROVE MiddleStep
<1>1. /\ pc[r] = "read" /\ Shard!ReadBack(r) /\ pc' = [pc EXCEPT ![r] = "check"]
      /\ UNCHANGED <<now, req, reval, ended, filled>>
  BY DEF Read
<1>2. /\ held[r] \in Elems /\ elem[held[r]] # None /\ elem[held[r]].key = req[r].key
      /\ Public(elem[held[r]].value, req[r].key, filled)
  BY <1>1 DEF Shard!ReadBack, CacheInv, ServingInv, ShardInv, GetsHold, TypeOK, Shard!TypeOK
<1>3. got'[r] = elem[held[r]].value /\ held'[r] = None /\ pc'[r] = "check"
  BY <1>1 DEF Shard!ReadBack, CacheInv, TypeOK, Shard!TypeOK
<1>4. \A d \in Requests \ {r} : /\ held'[d] = held[d] /\ asked'[d] = asked[d] /\ got'[d] = got[d]
                               /\ pc'[d] = pc[d]
  BY <1>1 DEF Shard!ReadBack, CacheInv, TypeOK, Shard!TypeOK
<1>5. \A e \in Elems : elem'[e] \in {elem[e], None}
  BY <1>1 DEF Shard!ReadBack, Shard!Collect
<1>6. ServingInv'
  <2>1. \A e \in Elems : elem'[e] # None => Public(elem'[e].value, elem'[e].key, filled')
    BY <1>1, <1>5 DEF CacheInv, ServingInv
  <2> SUFFICES ASSUME NEW d \in Requests
               PROVE  /\ pc'[d] = "read" <=> held'[d] # None
                      /\ pc'[d] = "read" => asked'[d] = req[d].key
                      /\ pc'[d] \in {"read", "check", "fill"} => req[d] \in Request /\ ~req[d].private
                      /\ pc'[d] = "check" => Public(got'[d], req[d].key, filled')
                      /\ reval'[d] # None => reval'[d] \in filled'
    BY <1>1, <2>1 DEF ServingInv
  <2>2. CASE d = r
    BY <1>1, <1>2, <1>3, <2>2 DEF CacheInv, ServingInv
  <2>3. CASE d # r
    BY <1>1, <1>4, <2>3 DEF CacheInv, ServingInv
  <2> QED
    BY <2>2, <2>3
<1>7. Shard!Next
  BY <1>1 DEF Shard!Next
<1> QED
  BY <1>1, <1>6, <1>7 DEF MiddleStep, CacheInv, TypeOK

\* A step that at most gives back what r's Get returned, and moves r on.
LEMMA MoveOn ==
  ASSUME CacheInv, NEW r \in Requests, UNCHANGED <<now, filled>>, pc[r] # "read",
         UNCHANGED shardVars \/ Shard!Take(r),
         NEW p \in {"idle", "fill", "bypass"}, pc' = [pc EXCEPT ![r] = p],
         \/ req' = [req EXCEPT ![r] = None] /\ p = "idle"
         \/ req' = req /\ p = "fill" /\ pc[r] = "check",
         reval' \in [Requests -> Keys \cup {None}], ended' \in [Requests -> BOOLEAN],
         \A d \in Requests : reval'[d] # None => reval'[d] \in filled
  PROVE  MiddleStep
<1>1. pc'[r] = p /\ \A d \in Requests \ {r} : pc'[d] = pc[d] /\ req'[d] = req[d]
  BY DEF CacheInv, TypeOK
<1>4. /\ [Shard!Next]_shardVars /\ UNCHANGED <<elem, held, asked>>
      /\ \A d \in Requests \ {r} : got'[d] = got[d]
  BY DEF shardVars, Shard!Take, Shard!Next, CacheInv, TypeOK, Shard!TypeOK
<1>2. ServingInv'
  <2> SUFFICES ASSUME NEW d \in Requests
               PROVE  /\ pc'[d] = "read" <=> held[d] # None
                      /\ pc'[d] = "read" => asked[d] = req'[d].key
                      /\ pc'[d] \in {"read", "check", "fill"} => req'[d] \in Request /\ ~req'[d].private
                      /\ pc'[d] = "check" => Public(got'[d], req'[d].key, filled')
                      /\ reval'[d] # None => reval'[d] \in filled'
    BY <1>4 DEF ServingInv, CacheInv
  <2>1. CASE d = r
    BY <1>1, <1>4, <2>1 DEF CacheInv, ServingInv
  <2>2. CASE d # r
    BY <1>1, <1>4, <2>2 DEF CacheInv, ServingInv
  <2> QED
    BY <2>1, <2>2
<1>3. /\ pc' \in [Requests -> {"idle", "read", "check", "fill", "bypass"}]
      /\ req' \in [Requests -> Request \cup {None}] /\ now' \in 0 .. MaxTime /\ filled' \subseteq Keys
  BY DEF CacheInv, TypeOK
<1> QED
  BY <1>2, <1>3, <1>4 DEF MiddleStep

LEMMA FillStep == ASSUME CacheInv, NEW r \in Requests, Fill(r) PROVE MiddleStep
<1>1. PICK st \in Statuses :
        /\ IF CaptureStores(st) THEN Store(req[r], st) ELSE UNCHANGED shardVars
        /\ filled' = IF st \in {"ok", "nostore", "large"} THEN filled \cup {req[r].key} ELSE filled
  BY DEF Fill
<1>2. /\ pc[r] = "fill" /\ pc' = [pc EXCEPT ![r] = "idle"] /\ req' = [req EXCEPT ![r] = None]
      /\ UNCHANGED <<now, reval, ended>>
  BY DEF Fill
<1>3. /\ req[r] \in Request /\ ~req[r].private /\ held[r] = None /\ req[r].key \in Keys
      /\ filled \subseteq filled' /\ filled' \subseteq Keys
  BY <1>1, <1>2 DEF CacheInv, ServingInv, TypeOK, Request
<1>4. /\ [Shard!Next]_shardVars /\ UNCHANGED <<held, asked, got>>
      /\ \A e \in Elems : elem'[e] # None => Public(elem'[e].value, elem'[e].key, filled')
  <2>1. CASE CaptureStores(st)
    <3>1. st \in Status /\ st # "error" /\ Store(req[r], st) /\ req[r].key \in filled'
      BY <1>1, <2>1, StatusAssumption DEF CaptureStores
    <3> QED
      BY <1>3, <3>1, StoreFacts
  <2>2. CASE ~CaptureStores(st)
    BY <1>1, <1>3, <2>2 DEF shardVars, CacheInv, ServingInv, Public
  <2> QED
    BY <2>1, <2>2
<1>5. pc'[r] = "idle" /\ \A d \in Requests \ {r} : pc'[d] = pc[d] /\ req'[d] = req[d]
  BY <1>2 DEF CacheInv, TypeOK
<1>6. ServingInv'
  <2> SUFFICES ASSUME NEW d \in Requests
               PROVE  /\ pc'[d] = "read" <=> held[d] # None
                      /\ pc'[d] = "read" => asked[d] = req'[d].key
                      /\ pc'[d] \in {"read", "check", "fill"} => req'[d] \in Request /\ ~req'[d].private
                      /\ pc'[d] = "check" => Public(got'[d], req'[d].key, filled')
                      /\ reval'[d] # None => reval'[d] \in filled'
    BY <1>4 DEF ServingInv
  <2>1. CASE d = r
    BY <1>2, <1>3, <1>4, <1>5, <2>1 DEF CacheInv, ServingInv
  <2>2. CASE d # r
    BY <1>2, <1>3, <1>4, <1>5, <2>2 DEF CacheInv, ServingInv, Public
  <2> QED
    BY <2>1, <2>2
<1> QED
  BY <1>2, <1>3, <1>4, <1>6 DEF MiddleStep, CacheInv, TypeOK

\* A step of the shard that leaves the requests alone.
LEMMA ShardOnly ==
  ASSUME CacheInv, [Shard!Next]_shardVars, UNCHANGED <<held, asked, got, now, pc, req, filled>>,
         \A e \in Elems : elem'[e] # None => Public(elem'[e].value, elem'[e].key, filled'),
         reval' \in [Requests -> Keys \cup {None}], ended' \in [Requests -> BOOLEAN],
         \A r \in Requests : reval'[r] \in {reval[r], None}
  PROVE  MiddleStep
<1>1. ServingInv'
  BY DEF CacheInv, ServingInv
<1> QED
  BY <1>1 DEF MiddleStep, CacheInv, TypeOK

LEMMA RevalidateStep == ASSUME CacheInv, NEW r \in Requests, Revalidate(r) PROVE MiddleStep
<1> DEFINE q == [key |-> reval[r], private |-> FALSE]
<1>1. PICK st \in IF ended[r] THEN {"error"} ELSE Statuses :
        IF RevalidateStores(st) THEN Store(q, st) ELSE UNCHANGED shardVars
  BY DEF Revalidate
<1>2. /\ reval[r] \in Keys /\ reval' = [reval EXCEPT ![r] = None]
      /\ ended' = [ended EXCEPT ![r] = FALSE] /\ UNCHANGED <<now, pc, req, filled>>
      /\ reval[r] \in filled
  BY DEF Revalidate, CacheInv, TypeOK, ServingInv
<1>3. q \in Request /\ ~q.private /\ q.key \in filled /\ filled' = filled
  BY <1>2 DEF Request
<1> HIDE DEF q
<1>4. /\ [Shard!Next]_shardVars /\ UNCHANGED <<held, asked, got>>
      /\ \A e \in Elems : elem'[e] # None => Public(elem'[e].value, elem'[e].key, filled')
  <2>1. CASE RevalidateStores(st)
    <3>1. st \in Status /\ st # "error" /\ Store(q, st)
      BY <1>1, <2>1, StatusAssumption DEF RevalidateStores, Status
    <3> QED
      BY <1>3, <3>1, StoreFacts
  <2>2. CASE ~RevalidateStores(st)
    BY <1>1, <1>3, <2>2 DEF shardVars, CacheInv, ServingInv
  <2> QED
    BY <2>1, <2>2
<1>5. /\ reval' \in [Requests -> Keys \cup {None}] /\ ended' \in [Requests -> BOOLEAN]
      /\ \A d \in Requests : reval'[d] \in {reval[d], None}
  BY <1>2 DEF CacheInv, TypeOK
<1> QED
  BY <1>2, <1>4, <1>5, ShardOnly

LEMMA CacheStep == CacheInv /\ [Next]_vars => MiddleStep
<1> SUFFICES ASSUME CacheInv, [Next]_vars PROVE MiddleStep
  OBVIOUS
<1>1. ASSUME NEW r \in Requests, Arrive(r) PROVE MiddleStep
  BY <1>1, ArriveStep
<1>2. ASSUME NEW r \in Requests, Read(r) PROVE MiddleStep
  BY <1>2, ReadStep
<1>3. ASSUME NEW r \in Requests, ServeFresh(r) \/ ServeStale(r) \/ TooOld(r) \/ Bypass(r) PROVE MiddleStep
  <2>1. /\ reval' \in [Requests -> Keys \cup {None}] /\ ended' \in [Requests -> BOOLEAN]
        /\ \A d \in Requests : reval'[d] # None => reval'[d] \in filled
    <3>1. CASE ServeStale(r)
      <4>1. req[r] \in Request /\ req[r].key \in filled
        BY <3>1 DEF ServeStale, CacheInv, ServingInv, Public
      <4> QED
        BY <3>1, <4>1 DEF ServeStale, CacheInv, TypeOK, ServingInv, Request
    <3>2. CASE ServeFresh(r) \/ TooOld(r) \/ Bypass(r)
      BY <3>2 DEF ServeFresh, TooOld, Bypass, CacheInv, TypeOK, ServingInv
    <3> QED
      BY <1>3, <3>1, <3>2
  <2>2. CASE TooOld(r)
    BY <2>1, <2>2, MoveOn DEF TooOld
  <2>3. CASE ServeFresh(r) \/ ServeStale(r) \/ Bypass(r)
    BY <2>1, <2>3, MoveOn DEF ServeFresh, ServeStale, Bypass
  <2> QED
    BY <1>3, <2>2, <2>3
<1>4. ASSUME NEW r \in Requests, Fill(r) PROVE MiddleStep
  BY <1>4, FillStep
<1>5. ASSUME NEW r \in Requests, Revalidate(r) PROVE MiddleStep
  BY <1>5, RevalidateStep
<1>6. ASSUME NEW k \in Keys, Purge(k) PROVE MiddleStep
  <2>1. Shard!Delete(k) /\ UNCHANGED <<now, pc, req, reval, ended, filled>>
    BY <1>6 DEF Purge
  <2>2. /\ UNCHANGED <<held, asked, got>>
        /\ \A e \in Elems : elem'[e] \in {elem[e], None}
    BY <2>1 DEF Shard!Delete, Shard!Collect, Shard!shardVars
  <2>3. Shard!Next
    BY <2>1 DEF Shard!Next
  <2> QED
    BY <2>1, <2>2, <2>3, ShardOnly DEF CacheInv, ServingInv, TypeOK
<1>7. CASE Clear
  <2>1. Shard!Clear /\ UNCHANGED <<now, pc, req, reval, ended, filled>>
    BY <1>7 DEF Clear
  <2>2. /\ UNCHANGED <<held, asked, got>>
        /\ \A e \in Elems : elem'[e] \in {elem[e], None}
    BY <2>1 DEF Shard!Clear, Shard!Collect
  <2>3. Shard!Next
    BY <2>1 DEF Shard!Next
  <2> QED
    BY <2>1, <2>2, <2>3, ShardOnly DEF CacheInv, ServingInv, TypeOK
<1>8. CASE UNCHANGED shardVars /\ UNCHANGED <<pc, req, reval, filled>> /\ ended' \in [Requests -> BOOLEAN]
           /\ now' \in 0 .. MaxTime
  <2>1. ServingInv'
    BY <1>8 DEF shardVars, CacheInv, ServingInv
  <2> QED
    BY <1>8, <2>1 DEF MiddleStep, CacheInv, TypeOK
<1>9. ASSUME NEW r \in Requests, ContextEnds(r) PROVE MiddleStep
  BY <1>8, <1>9 DEF ContextEnds, CacheInv, TypeOK
<1>10. CASE Tick
  <2>1. now' \in 0 .. MaxTime
    BY <1>10, TimesAssumption DEF Tick, CacheInv, TypeOK
  <2> QED
    BY <1>8, <1>10, <2>1 DEF Tick, CacheInv, TypeOK
<1>11. CASE UNCHANGED vars
  BY <1>8, <1>11 DEF vars, CacheInv, TypeOK
<1> QED
  BY <1>1, <1>2, <1>3, <1>4, <1>5, <1>6, <1>7, <1>9, <1>10, <1>11 DEF Next

LEMMA CacheKeeps == CacheInv /\ [Next]_vars => CacheInv'
<1> SUFFICES ASSUME CacheInv, [Next]_vars PROVE CacheInv'
  OBVIOUS
<1>1. MiddleStep
  BY CacheStep
<1>2. ShardInv'
  BY <1>1, ShardKeeps DEF MiddleStep, CacheInv
<1>3. TypeOK'
  BY <1>1, <1>2 DEF MiddleStep, TypeOK, ShardInv
<1> QED
  BY <1>1, <1>2, <1>3 DEF MiddleStep, CacheInv

LEMMA CacheStarts == Init => CacheInv
<1> SUFFICES ASSUME Init PROVE CacheInv
  OBVIOUS
<1>1. ShardInv
  BY ShardStarts DEF Init
<1>2. TypeOK
  BY <1>1, TimesAssumption DEF Init, TypeOK, ShardInv
<1>3. ServingInv
  BY DEF Init, Shard!Init, ServingInv
<1> QED
  BY <1>1, <1>2, <1>3 DEF CacheInv

THEOREM CacheInvariant == Spec => []CacheInv
  BY CacheStarts, CacheKeeps, PTL DEF Spec

\* The map, the list and the running total of the shard agree, and both limits
\* hold, whatever requests, revalidations, purges and clears do.
THEOREM CacheIsConsistent == Spec => []ShardConsistent
<1>1. CacheInv => ShardConsistent
  BY DEF CacheInv, ShardInv, ShardConsistent
<1> QED
  BY <1>1, CacheInvariant, PTL

\* A hit is the response to a request without credentials, never an error, and
\* what only revalidations store is only there for a key that was filled.
THEOREM HitsAreAllowed == Spec => []HitsMayBeServed
<1>1. CacheInv => HitsMayBeServed
  <2> SUFFICES ASSUME CacheInv PROVE HitsMayBeServed
    OBVIOUS
  <2>1. ASSUME NEW k \in Keys, Shard!Mapping[k] # None PROVE Public(Shard!Mapping[k], k, filled)
    <3>1. /\ entries[k] \in Elems /\ elem[entries[k]] \in Shard!LruEntry /\ elem[entries[k]].key = k
          /\ Shard!Mapping[k] = elem[entries[k]].value
      BY <2>1, MappingFacts, ShardFacts DEF CacheInv
    <3>2. elem[entries[k]] # None
      BY <3>1, CacheAssumption DEF Shard!ShardAssumption
    <3> QED
      BY <3>1, <3>2 DEF CacheInv, ServingInv
  <2> QED
    BY <2>1 DEF HitsMayBeServed, Public, CacheInv, ServingInv
<1> QED
  BY <1>1, CacheInvariant, PTL

\* The shard behind the middleware does what a cache promises.
THEOREM CacheKeepsContract == Spec => ShardImplementsContract
<1>1. Init => Shard!Contract!Init
  BY DEF Init, Shard!Init, Shard!Contract!Init, Shard!Mapping
<1>2. CacheInv /\ [Next]_vars => [Shard!Contract!Next]_(Shard!Contract!vars)
  BY CacheStep, ShardRefines DEF CacheInv, MiddleStep
<1> QED
  BY <1>1, <1>2, CacheInvariant, PTL
     DEF Spec, ShardImplementsContract, Shard!ImplementsContract, Shard!Contract!Spec

\* A Set evicts the entries used least recently.
THEOREM CacheEvictsLeastRecent == Spec => ShardEvictsLeastRecent
<1>1. CacheInv /\ [Next]_vars => [Shard!EvictsLeastRecent]_(Shard!shardVars)
  BY CacheStep, ShardEvicts DEF CacheInv, MiddleStep, Shard!shardVars, shardVars
<1> QED
  BY <1>1, CacheInvariant, PTL DEF Spec, ShardEvictsLeastRecent, Shard!LeastRecentlyUsed
=============================================================================
