--------------------------- MODULE Requests_proofs ---------------------------
(***************************************************************************)
(* What Requests claims, for all operations, routes, tokens, chains,       *)
(* writers and origins.                                                    *)
(***************************************************************************)
EXTENDS Requests, FiniteSetTheorems, WellFoundedInduction, NaturalsInduction, TLAPS

-----------------------------------------------------------------------------
(* Numbers, sets and folds *)

\* Induction up to n, over a set of numbers.
LEMMA UpTo ==
  ASSUME NEW n \in Nat, NEW S, 0 \in S, \A k \in 0 .. n - 1 : k \in S => k + 1 \in S
  PROVE  \A k \in 0 .. n : k \in S
<1> DEFINE T == {k \in 0 .. n : k \notin S}
<1> SUFFICES ASSUME T # {} PROVE FALSE
  OBVIOUS
<1>1. T \subseteq Nat
  OBVIOUS
<1>2. PICK t \in T : \A u \in T : <<u, t>> \notin OpToRel(<, Nat)
  <2>1. PICK z \in T : TRUE
    OBVIOUS
  <2> HIDE DEF T
  <2> QED BY <1>1, <2>1, NatLessThanWellFounded, WFMin, Zenon
<1>3. \A u \in T : ~(u < t)
  BY <1>1, <1>2, Zenon DEF OpToRel
<1>4. t \in 1 .. n
  OBVIOUS
<1>5. t - 1 \in 0 .. n - 1 /\ t - 1 \notin T
  BY <1>3, <1>4
<1>6. t - 1 \in S
  BY <1>5
<1> QED BY <1>5, <1>6

\* A fold over a finite set D, from x0, by a step F, in the order of a choice c.
Folds(g, D, x0, F, c) ==
  g = [s \in D |-> IF s = {} THEN x0 ELSE F[<<g[s \ {c[s]}], c[s]>>]]

LEMMA FoldExists ==
  ASSUME NEW D, IsFiniteSet(D), NEW X, NEW x0 \in X, NEW F \in [X \X D -> X],
         NEW c, \A s \in SUBSET D : s # {} => c[s] \in s
  PROVE  \E g \in [SUBSET D -> X] : Folds(g, SUBSET D, x0, F, c)
<1> DEFINE n == Cardinality(D)
           Small(k) == {s \in SUBSET D : Cardinality(s) <= k}
           Is(g, k) == \A s \in Small(k) : g[s] = IF s = {} THEN x0 ELSE F[<<g[s \ {c[s]}], c[s]>>]
           S == {k \in Nat : \E g \in [Small(k) -> X] : Is(g, k)}
<1>1. n \in Nat
  BY FS_CardinalityType, Zenon
<1>2. ASSUME NEW s \in SUBSET D
      PROVE  /\ Cardinality(s) \in Nat /\ Cardinality(s) <= n
             /\ Cardinality(s) = 0 <=> s = {}
             /\ s # {} => s \ {c[s]} \in SUBSET D /\ Cardinality(s \ {c[s]}) = Cardinality(s) - 1
  <2>1. IsFiniteSet(s) /\ Cardinality(s) <= n
    BY FS_Subset, Zenon
  <2>2. Cardinality(s) \in Nat
    BY <2>1, FS_CardinalityType, Zenon
  <2>3. Cardinality(s) = 0 <=> s = {}
    BY <2>1, FS_EmptySet, Zenon
  <2>4. ASSUME s # {} PROVE Cardinality(s \ {c[s]}) = Cardinality(s) - 1
    <3>1. c[s] \in s
      BY <2>4
    <3> QED BY <2>1, <3>1, FS_RemoveElement, Zenon
  <2> QED BY <2>1, <2>2, <2>3, <2>4
<1>3. 0 \in S
  <2> DEFINE g == [s \in Small(0) |-> x0]
  <2>1. ASSUME NEW s \in Small(0) PROVE s = {}
    <3>1. s \in SUBSET D /\ Cardinality(s) <= 0
      OBVIOUS
    <3>2. Cardinality(s) \in Nat /\ (Cardinality(s) = 0 <=> s = {})
      BY <1>2, <3>1
    <3> QED BY <3>1, <3>2
  <2>2. g \in [Small(0) -> X] /\ Is(g, 0)
    BY <2>1
  <2> QED BY <2>2
<1>4. ASSUME NEW k \in 0 .. n - 1, k \in S PROVE k + 1 \in S
  <2>1. PICK g \in [Small(k) -> X] : Is(g, k)
    BY <1>4
  <2> DEFINE h == [s \in Small(k + 1) |->
                     IF Cardinality(s) <= k THEN g[s] ELSE F[<<g[s \ {c[s]}], c[s]>>]]
  <2>2. ASSUME NEW s \in Small(k + 1)
        PROVE  /\ h[s] \in X
               /\ h[s] = IF s = {} THEN x0 ELSE F[<<h[s \ {c[s]}], c[s]>>]
    <3>1. s \in SUBSET D /\ Cardinality(s) \in Nat /\ Cardinality(s) <= k + 1
      BY <1>2
    <3>2. CASE s = {}
      <4>1. s \in Small(k) /\ Cardinality(s) <= k
        BY <1>2, <3>1, <3>2
      <4>2. h[s] = g[s] /\ g[s] = x0
        BY <2>1, <3>2, <4>1
      <4> QED BY <3>2, <4>2
    <3>3. CASE s # {}
      <4> DEFINE t == s \ {c[s]}
      <4>1. t \in Small(k) /\ t \in Small(k + 1) /\ Cardinality(t) <= k /\ c[s] \in D
        BY <1>2, <3>1, <3>3
      <4>2. h[t] = g[t] /\ g[t] \in X
        BY <4>1
      <4>3. h[s] = F[<<g[t], c[s]>>]
        <5>1. CASE Cardinality(s) <= k
          <6>1. s \in Small(k)
            BY <3>1, <5>1
          <6>2. g[s] = F[<<g[t], c[s]>>]
            BY <2>1, <3>3, <6>1
          <6> QED BY <5>1, <6>2
        <5>2. CASE ~(Cardinality(s) <= k)
          BY <5>2
        <5> QED BY <5>1, <5>2
      <4>4. <<g[t], c[s]>> \in X \X D
        BY <4>1, <4>2
      <4> HIDE DEF h, t, Small
      <4>5. F[<<g[t], c[s]>>] \in X
        BY <4>4
      <4> QED BY <3>3, <4>2, <4>3, <4>5 DEF t
    <3> QED BY <3>2, <3>3
  <2>3. h \in [Small(k + 1) -> X] /\ Is(h, k + 1)
    <3>1. h = [s \in Small(k + 1) |-> h[s]]
      OBVIOUS
    <3> HIDE DEF h, Small
    <3> QED BY <2>2, <3>1
  <2>4. k + 1 \in Nat
    OBVIOUS
  <2> HIDE DEF Is, h, Small
  <2> QED BY <2>3, <2>4, Zenon
<1> HIDE DEF S, n
<1>5. n \in S
  <2>1. \A k \in 0 .. n : k \in S
    BY <1>1, <1>3, <1>4, UpTo, Zenon
  <2> QED BY <1>1, <2>1
<1>6. Small(n) = SUBSET D
  BY <1>2
<1>7. PICK g \in [SUBSET D -> X] : Is(g, n)
  BY <1>5, <1>6 DEF S
<1>8. g = [s \in SUBSET D |-> g[s]]
  OBVIOUS
<1>9. Folds(g, SUBSET D, x0, F, c)
  <2> HIDE DEF Small
  <2>1. \A s \in SUBSET D : g[s] = IF s = {} THEN x0 ELSE F[<<g[s \ {c[s]}], c[s]>>]
    BY <1>6, <1>7
  <2> QED BY <1>8, <2>1, Zenon DEF Folds
<1> QED BY <1>9

\* Folds of sequences take the last element last...
Largest(s) == CHOOSE x \in s : \A y \in s : x >= y

LEMMA LargestIn ==
  ASSUME NEW n \in Nat, NEW s \in SUBSET (1 .. n), s # {}
  PROVE  Largest(s) \in s /\ \A y \in s : Largest(s) >= y
<1> DEFINE T == {n - x : x \in s}
<1>1. T \subseteq Nat /\ \E z \in T : TRUE
  <2>1. PICK x \in s : TRUE
    OBVIOUS
  <2>2. n - x \in T
    OBVIOUS
  <2> QED BY <2>2
<1>2. PICK t \in T : \A u \in T : <<u, t>> \notin OpToRel(<, Nat)
  <2>1. PICK z \in T : TRUE
    BY <1>1
  <2> HIDE DEF T
  <2> QED BY <1>1, <2>1, NatLessThanWellFounded, WFMin, Zenon
<1>3. \A u \in T : ~(u < t)
  BY <1>1, <1>2, Zenon DEF OpToRel
<1>4. n - t \in s /\ \A y \in s : n - t >= y
  BY <1>3
<1> QED BY <1>4, Zenon DEF Largest

LEMMA LargestIs ==
  ASSUME NEW k \in Nat, k # 0
  PROVE  Largest(1 .. k) = k /\ (1 .. k) \ {k} = 1 .. (k - 1) /\ 1 .. k # {}
<1>1. 1 .. k # {} /\ k \in 1 .. k /\ (1 .. k) \ {k} = 1 .. (k - 1)
  OBVIOUS
<1>2. Largest(1 .. k) \in 1 .. k /\ \A y \in 1 .. k : Largest(1 .. k) >= y
  BY <1>1, LargestIn, Zenon
<1> DEFINE m == Largest(1 .. k)
<1> HIDE DEF m
<1>3. m \in 1 .. k /\ m >= k
  BY <1>1, <1>2 DEF m
<1>4. m = k
  BY <1>3
<1> QED BY <1>1, <1>4 DEF m

\* ... so that there is a function that folds each set of places, ...
FoldsPlaces(n, x0, F, g) ==
  \A s \in SUBSET (1 .. n) : g[s] = IF s = {} THEN x0 ELSE F[<<g[s \ {Largest(s)}], Largest(s)>>]

LEMMA FoldLeftExists ==
  ASSUME NEW n \in Nat, NEW X, NEW x0 \in X, NEW F \in [X \X (1 .. n) -> X]
  PROVE  \E g \in [SUBSET (1 .. n) -> X] : FoldsPlaces(n, x0, F, g)
<1> DEFINE D == 1 .. n
           c == [s \in SUBSET D |-> Largest(s)]
<1>1. IsFiniteSet(D)
  <2>1. 1 \in Int /\ n \in Int
    OBVIOUS
  <2> QED BY <2>1, FS_Interval, Zenon
<1>2. \A s \in SUBSET D : s # {} => c[s] \in s
  BY LargestIn, Zenon
<1>3. \A s \in SUBSET D : c[s] = Largest(s)
  BY Zenon
<1> HIDE DEF D, c
<1>4. PICK g \in [SUBSET D -> X] : Folds(g, SUBSET D, x0, F, c)
  <2>1. F \in [X \X D -> X]
    BY DEF D
  <2> QED BY <1>1, <1>2, <2>1, FoldExists, Zenon
<1>5. \A s \in SUBSET D : g[s] = IF s = {} THEN x0 ELSE F[<<g[s \ {Largest(s)}], Largest(s)>>]
  BY <1>3, <1>4, Zenon DEF Folds
<1> QED BY <1>5 DEF D, FoldsPlaces

\* ... and what it makes of the first k places it makes from what it made of the first k - 1.
FoldsOn(n, X, x0, F, it) ==
  /\ it[{}] = x0
  /\ \A s \in SUBSET (1 .. n) :
       s # {} /\ it[s \ {Largest(s)}] \in X => it[s] = F[<<it[s \ {Largest(s)}], Largest(s)>>]

StepsOn(n, X, x0, F, it) ==
  /\ \A k \in 0 .. n : it[1 .. k] \in X
  /\ it[1 .. 0] = x0
  /\ \A k \in 1 .. n : it[1 .. k] = F[<<it[1 .. (k - 1)], k>>]

LEMMA FoldLeftSteps ==
  ASSUME NEW n \in Nat, NEW X, NEW x0 \in X, NEW F \in [X \X (1 .. n) -> X],
         NEW it, FoldsOn(n, X, x0, F, it)
  PROVE  StepsOn(n, X, x0, F, it)
<1>1. 1 .. 0 = {} /\ it[{}] = x0
  BY DEF FoldsOn
<1>2. ASSUME NEW k \in 1 .. n, it[1 .. (k - 1)] \in X
      PROVE  it[1 .. k] = F[<<it[1 .. (k - 1)], k>>] /\ it[1 .. k] \in X
  <2>1. 1 .. k \in SUBSET (1 .. n) /\ k \in Nat /\ k # 0
    OBVIOUS
  <2>2. Largest(1 .. k) = k /\ (1 .. k) \ {k} = 1 .. (k - 1) /\ 1 .. k # {}
    BY <2>1, LargestIs, Zenon
  <2>3. it[1 .. k] = F[<<it[1 .. (k - 1)], k>>]
    BY <1>2, <2>1, <2>2, Zenon DEF FoldsOn
  <2>4. <<it[1 .. (k - 1)], k>> \in X \X (1 .. n)
    BY <1>2
  <2> QED BY <2>3, <2>4
<1> DEFINE S == {k \in 0 .. n : it[1 .. k] \in X}
<1>3. 0 \in S
  BY <1>1
<1>4. ASSUME NEW k \in 0 .. n - 1, k \in S PROVE k + 1 \in S
  <2>1. k + 1 \in 1 .. n /\ (k + 1) - 1 = k /\ k + 1 \in 0 .. n
    OBVIOUS
  <2>2. it[1 .. ((k + 1) - 1)] \in X
    BY <1>4, <2>1
  <2>3. it[1 .. (k + 1)] \in X
    BY <1>2, <2>1, <2>2
  <2> QED BY <2>1, <2>3
<1> HIDE DEF S
<1>5. \A k \in 0 .. n : k \in S
  BY <1>3, <1>4, UpTo, Zenon
<1>6. \A k \in 0 .. n : it[1 .. k] \in X
  BY <1>5 DEF S
<1>7. ASSUME NEW k \in 1 .. n PROVE it[1 .. k] = F[<<it[1 .. (k - 1)], k>>]
  <2>1. k - 1 \in 0 .. n
    OBVIOUS
  <2> QED BY <1>2, <1>6, <2>1
<1> QED BY <1>1, <1>6, <1>7 DEF StepsOn

-----------------------------------------------------------------------------
(* The planner *)

\* A graph over finitely many upstreams, each with the others that it needs.
IsGraph(graph) ==
  /\ IsFiniteSet(DOMAIN graph)
  /\ \A u \in DOMAIN graph : graph[u] \subseteq DOMAIN graph

LayersIter(graph, D, it) ==
  it = [s \in SUBSET D |->
          IF s = {} THEN <<>> ELSE Tools!AddLayer(graph, it[s \ {Tools!Max(s)}])]

\* A round adds at most one layer.
LEMMA AddLayerIn ==
  ASSUME NEW graph, NEW layers \in Seq(SUBSET DOMAIN graph)
  PROVE  Tools!AddLayer(graph, layers) \in Seq(SUBSET DOMAIN graph)
<1> DEFINE layer == Tools!NextLayer(graph, UNION Tools!Fields(layers))
<1>1. layer \in SUBSET DOMAIN graph
  BY Zenon DEF Tools!NextLayer
<1>2. Tools!AddLayer(graph, layers) = IF layer = {} THEN layers ELSE Append(layers, layer)
  BY Zenon DEF Tools!AddLayer
<1> HIDE DEF layer
<1> QED BY <1>1, <1>2

\* The instance counts as the library does, whose lemmas are about the latter.
LEMMA ToolsCount == \A S : Tools!Cardinality(S) = Cardinality(S)
  BY Zenon DEF Tools!Cardinality, Cardinality

\* The layers after each round, up to the last one.
LEMMA LayersFold ==
  ASSUME NEW graph, IsGraph(graph)
  PROVE  LET n == Cardinality(DOMAIN graph)
         IN \E p : /\ \A k \in 0 .. n : p[k] \in Seq(SUBSET DOMAIN graph)
                   /\ p[0] = <<>>
                   /\ \A k \in 1 .. n : p[k] = Tools!AddLayer(graph, p[k - 1])
                   /\ Tools!LayersOf(graph) = p[n]
<1> DEFINE n == Cardinality(DOMAIN graph)
           X == Seq(SUBSET DOMAIN graph)
           F == [a \in X \X (1 .. n) |-> Tools!AddLayer(graph, a[1])]
           e == <<>>
           seq == [i \in 1 .. Tools!Cardinality(DOMAIN graph) |-> i]
           it == CHOOSE f : LayersIter(graph, DOMAIN seq, f)
<1>1. n \in Nat
  BY FS_CardinalityType, Zenon DEF IsGraph
<1>8. DOMAIN seq = 1 .. n
  <2>1. DOMAIN seq = 1 .. Tools!Cardinality(DOMAIN graph)
    OBVIOUS
  <2> QED BY <2>1, ToolsCount, Zenon
<1>a. Tools!LayersOf(graph) = it[DOMAIN seq]
  BY Zenon DEF Tools!LayersOf, Tools!FoldLeft, Tools!MapThenFoldSet, LayersIter
<1> HIDE DEF n, seq
<1>2. F \in [X \X (1 .. n) -> X] /\ e \in X
  BY AddLayerIn
<1>3. \A x \in X, k \in 1 .. n : F[<<x, k>>] = Tools!AddLayer(graph, x)
  OBVIOUS
<1> HIDE DEF F, X, e
<1>4. PICK g \in [SUBSET (1 .. n) -> X] : FoldsPlaces(n, e, F, g)
  BY <1>1, <1>2, FoldLeftExists, Zenon
<1>5. \A s \in SUBSET (1 .. n) : Tools!Max(s) = Largest(s) /\ s \ {Largest(s)} \in SUBSET (1 .. n)
  BY Zenon DEF Tools!Max, Largest
<1>6. \A s \in SUBSET (1 .. n) : s # {} => Largest(s) \in 1 .. n
  BY <1>1, LargestIn, Zenon
<1>7. LayersIter(graph, 1 .. n, g)
  <2>1. ASSUME NEW s \in SUBSET (1 .. n)
        PROVE  g[s] = IF s = {} THEN e ELSE Tools!AddLayer(graph, g[s \ {Tools!Max(s)}])
    <3>1. g[s \ {Largest(s)}] \in X
      BY <1>5
    <3> QED BY <1>3, <1>4, <1>5, <1>6, <3>1, Zenon DEF FoldsPlaces
  <2>2. g = [s \in SUBSET (1 .. n) |-> g[s]]
    OBVIOUS
  <2> QED BY <2>1, <2>2, Zenon DEF LayersIter, e
<1>9. LayersIter(graph, 1 .. n, it)
  <2>1. LayersIter(graph, DOMAIN seq, g)
    BY <1>7, <1>8, Zenon
  <2>2. LayersIter(graph, DOMAIN seq, it)
    BY <2>1, Zenon
  <2> QED BY <2>2, <1>8
<1> HIDE DEF it
<1>10. /\ it[{}] = e
       /\ \A s \in SUBSET (1 .. n) : s # {} => it[s] = Tools!AddLayer(graph, it[s \ {Largest(s)}])
  <2>1. {} \in SUBSET (1 .. n)
    OBVIOUS
  <2> QED BY <1>5, <1>9, <2>1, Zenon DEF LayersIter, e
<1>11. StepsOn(n, X, e, F, it)
  <2>1. FoldsOn(n, X, e, F, it)
    BY <1>3, <1>6, <1>10, Zenon DEF FoldsOn
  <2> QED BY <1>1, <1>2, <2>1, FoldLeftSteps, Zenon
<1> DEFINE p == [k \in 0 .. n |-> it[1 .. k]]
<1>12. \A k \in 0 .. n : p[k] = it[1 .. k]
  OBVIOUS
<1> HIDE DEF p
<1>13. \A k \in 0 .. n : p[k] \in X
  BY <1>11, <1>12, Zenon DEF StepsOn
<1>14. 0 \in 0 .. n /\ n \in 0 .. n /\ \A k \in 1 .. n : k \in 0 .. n /\ k - 1 \in 0 .. n
  BY <1>1
<1>15. ASSUME NEW k \in 1 .. n PROVE p[k] = Tools!AddLayer(graph, p[k - 1])
  BY <1>3, <1>11, <1>12, <1>13, <1>14, Zenon DEF StepsOn
<1>16. p[0] = <<>> /\ p[n] = it[1 .. n]
  BY <1>11, <1>12, <1>14, Zenon DEF StepsOn, e
<1> QED BY <1>8, <1>a, <1>13, <1>15, <1>16, Zenon DEF n, X

\* What is in the first k layers; layers, each the next one after those before it.
Before(layers, k) == UNION {layers[j] : j \in 1 .. k}
IsLayering(graph, layers) ==
  \A i \in DOMAIN layers :
    layers[i] = Tools!NextLayer(graph, Before(layers, i - 1)) /\ layers[i] # {}

LEMMA BeforeAll ==
  ASSUME NEW S, NEW layers \in Seq(S)
  PROVE  UNION Tools!Fields(layers) = Before(layers, Len(layers))
<1>1. DOMAIN layers = 1 .. Len(layers)
  OBVIOUS
<1> QED BY <1>1, Zenon DEF Tools!Fields, Before

LEMMA BeforeSteps ==
  ASSUME NEW layers
  PROVE  /\ Before(layers, 0) = {}
         /\ \A k \in Nat \ {0} : Before(layers, k) = Before(layers, k - 1) \cup layers[k]
<1>1. Before(layers, 0) = {}
  <2>1. 1 .. 0 = {}
    OBVIOUS
  <2> QED BY <2>1, Zenon DEF Before
<1>2. ASSUME NEW k \in Nat \ {0}
      PROVE  Before(layers, k) = Before(layers, k - 1) \cup layers[k]
  <2>1. 1 .. k = (1 .. (k - 1)) \cup {k}
    OBVIOUS
  <2> QED BY <2>1, Zenon DEF Before
<1> QED BY <1>1, <1>2

LEMMA BeforeIn ==
  ASSUME NEW S, NEW layers \in Seq(SUBSET S), NEW k \in 0 .. Len(layers)
  PROVE  Before(layers, k) \in SUBSET S
<1>1. \A j \in 1 .. k : layers[j] \subseteq S
  OBVIOUS
<1> QED BY <1>1, Zenon DEF Before

\* A next layer keeps the layers before it.
LEMMA LayeringGrows ==
  ASSUME NEW graph, NEW layers \in Seq(SUBSET DOMAIN graph), IsLayering(graph, layers)
  PROVE  /\ IsLayering(graph, Tools!AddLayer(graph, layers))
         /\ Tools!NextLayer(graph, Before(layers, Len(layers))) = {}
              => Tools!AddLayer(graph, layers) = layers
         /\ Tools!NextLayer(graph, Before(layers, Len(layers))) # {}
              => Len(Tools!AddLayer(graph, layers)) = Len(layers) + 1
<1> DEFINE layer == Tools!NextLayer(graph, Before(layers, Len(layers)))
           more == Append(layers, layer)
<1>1. Tools!AddLayer(graph, layers) = IF layer = {} THEN layers ELSE more
  BY BeforeAll, Zenon DEF Tools!AddLayer
<1>2. layer \in SUBSET DOMAIN graph
  BY Zenon DEF Tools!NextLayer
<1>3. layer = Tools!NextLayer(graph, Before(layers, Len(layers)))
  OBVIOUS
<1> HIDE DEF layer
<1>4. /\ Len(more) = Len(layers) + 1 /\ more \in Seq(SUBSET DOMAIN graph)
      /\ DOMAIN more = 1 .. Len(layers) + 1 /\ more[Len(layers) + 1] = layer
      /\ \A j \in 1 .. Len(layers) : more[j] = layers[j]
  BY <1>2
<1> HIDE DEF more
<1>5. ASSUME layer # {} PROVE IsLayering(graph, more)
  <2> SUFFICES ASSUME NEW i \in DOMAIN more
               PROVE  more[i] = Tools!NextLayer(graph, Before(more, i - 1)) /\ more[i] # {}
    BY Zenon DEF IsLayering
  <2>1. Before(more, i - 1) = Before(layers, i - 1)
    <3>1. \A j \in 1 .. (i - 1) : more[j] = layers[j]
      BY <1>4
    <3> QED BY <3>1, Zenon DEF Before
  <2>2. CASE i \in DOMAIN layers
    <3>1. more[i] = layers[i]
      BY <1>4, <2>2
    <3> QED BY <2>1, <2>2, <3>1, Zenon DEF IsLayering
  <2>3. CASE i \notin DOMAIN layers
    <3>1. i = Len(layers) + 1 /\ i - 1 = Len(layers)
      BY <1>4, <2>3
    <3> QED BY <1>3, <1>4, <1>5, <2>1, <3>1
  <2> QED BY <2>2, <2>3
<1> QED BY <1>1, <1>3, <1>4, <1>5

\* Each layer has something new; it needs what is before it, and something just before it.
LEMMA LayerFacts ==
  ASSUME NEW graph, NEW layers \in Seq(SUBSET DOMAIN graph), IsLayering(graph, layers),
         NEW k \in DOMAIN layers, NEW u \in layers[k]
  PROVE  /\ u \in DOMAIN graph
         /\ u \notin Before(layers, k - 1)
         /\ graph[u] \subseteq Before(layers, k - 1)
         /\ k > 1 => \E v \in graph[u] : v \in layers[k - 1]
<1>1. k \in 1 .. Len(layers) /\ k \in Nat \ {0}
  OBVIOUS
<1>2. u \in Tools!NextLayer(graph, Before(layers, k - 1))
  BY Zenon DEF IsLayering
<1>3. /\ u \in DOMAIN graph /\ u \notin Before(layers, k - 1)
      /\ graph[u] \subseteq Before(layers, k - 1)
  BY <1>2, Zenon DEF Tools!NextLayer
<1>4. ASSUME k > 1 PROVE \E v \in graph[u] : v \in layers[k - 1]
  <2>1. k - 1 \in DOMAIN layers /\ k - 1 \in Nat \ {0}
    BY <1>1, <1>4
  <2>2. Before(layers, k - 1) = Before(layers, (k - 1) - 1) \cup layers[k - 1]
    BY <2>1, BeforeSteps, Zenon
  <2>3. layers[k - 1] = Tools!NextLayer(graph, Before(layers, (k - 1) - 1))
    BY <2>1, Zenon DEF IsLayering
  <2> SUFFICES ASSUME graph[u] \subseteq Before(layers, (k - 1) - 1) PROVE FALSE
    BY <1>3, <2>2, Zenon
  <2>4. u \in Tools!NextLayer(graph, Before(layers, (k - 1) - 1))
    BY <1>3, <2>2, Zenon DEF Tools!NextLayer
  <2> QED BY <1>3, <2>2, <2>3, <2>4, Zenon
<1> QED BY <1>3, <1>4

\* Layers have no upstream in common.
LEMMA LayersDisjoint ==
  ASSUME NEW graph, NEW layers \in Seq(SUBSET DOMAIN graph), IsLayering(graph, layers),
         NEW i \in DOMAIN layers, NEW j \in DOMAIN layers, NEW u \in layers[i], u \in layers[j]
  PROVE  i = j
<1>1. ASSUME NEW a \in DOMAIN layers, NEW b \in DOMAIN layers, a < b, u \in layers[a]
      PROVE  u \in Before(layers, b - 1)
  <2>1. a \in 1 .. (b - 1)
    BY <1>1
  <2> QED BY <1>1, <2>1, Zenon DEF Before
<1>2. u \notin Before(layers, i - 1) /\ u \notin Before(layers, j - 1)
  BY LayerFacts, Zenon
<1>3. ~(i < j) /\ ~(j < i)
  BY <1>1, <1>2, Zenon
<1> QED BY <1>3

\* The first k layers have k upstreams or more.
LEMMA LayersCount ==
  ASSUME NEW graph, IsGraph(graph), NEW layers \in Seq(SUBSET DOMAIN graph),
         IsLayering(graph, layers)
  PROVE  \A k \in 0 .. Len(layers) : Cardinality(Before(layers, k)) >= k
<1> DEFINE n == Len(layers)
           S == {k \in 0 .. n : Cardinality(Before(layers, k)) >= k}
<1>1. n \in Nat
  OBVIOUS
<1>2. 0 \in S
  <2>1. Cardinality(Before(layers, 0)) = 0
    BY BeforeSteps, FS_EmptySet, Zenon
  <2> QED BY <1>1, <2>1
<1>3. ASSUME NEW k \in 0 .. n - 1, k \in S PROVE k + 1 \in S
  <2>1. k + 1 \in DOMAIN layers /\ k + 1 \in Nat \ {0} /\ (k + 1) - 1 = k /\ k + 1 \in 0 .. n
        /\ k \in 0 .. Len(layers)
    OBVIOUS
  <2>2. Before(layers, k + 1) = Before(layers, k) \cup layers[k + 1]
    <3>1. Before(layers, k + 1) = Before(layers, (k + 1) - 1) \cup layers[k + 1]
      BY <2>1, BeforeSteps, Zenon
    <3> QED BY <2>1, <3>1
  <2>3. PICK u \in layers[k + 1] : TRUE
    BY <2>1, Zenon DEF IsLayering
  <2>4. u \notin Before(layers, k)
    <3>1. u \notin Before(layers, (k + 1) - 1)
      BY <2>1, <2>3, LayerFacts, Zenon
    <3> QED BY <2>1, <3>1
  <2> DEFINE A == Before(layers, k) \cup {u}
             B == Before(layers, k + 1)
  <2>5. B \in SUBSET DOMAIN graph
    BY <2>1, BeforeIn, Zenon
  <2>6. IsFiniteSet(B)
    BY <2>5, FS_Subset, Zenon DEF IsGraph
  <2>7. A \in SUBSET B /\ Before(layers, k) \in SUBSET B
    BY <2>2, <2>3, Zenon
  <2>8. IsFiniteSet(Before(layers, k))
    BY <2>6, <2>7, FS_Subset, Zenon
  <2>9. Cardinality(A) = Cardinality(Before(layers, k)) + 1
    BY <2>4, <2>8, FS_AddElement, Zenon
  <2>10. Cardinality(A) <= Cardinality(B)
    BY <2>6, <2>7, FS_Subset, Zenon
  <2>11. Cardinality(B) \in Nat /\ Cardinality(Before(layers, k)) \in Nat
    BY <2>6, <2>8, FS_CardinalityType, Zenon
  <2>12. Cardinality(Before(layers, k)) >= k
    BY <1>3
  <2> HIDE DEF A
  <2> QED BY <2>1, <2>9, <2>10, <2>11, <2>12
<1> HIDE DEF S
<1>4. \A k \in 0 .. n : k \in S
  BY <1>1, <1>2, <1>3, UpTo, Zenon
<1> QED BY <1>4 DEF S

\* The layers are all there are.
LEMMA LayersAre ==
  ASSUME NEW graph, IsGraph(graph)
  PROVE  LET layers == Tools!LayersOf(graph)
         IN /\ layers \in Seq(SUBSET DOMAIN graph)
            /\ IsLayering(graph, layers)
            /\ Tools!NextLayer(graph, Before(layers, Len(layers))) = {}
<1> DEFINE n == Cardinality(DOMAIN graph)
           X == Seq(SUBSET DOMAIN graph)
           Ended(l) == Tools!NextLayer(graph, Before(l, Len(l))) = {}
<1>1. n \in Nat
  BY FS_CardinalityType, Zenon DEF IsGraph
<1>2. PICK p : /\ \A k \in 0 .. n : p[k] \in X
               /\ p[0] = <<>>
               /\ \A k \in 1 .. n : p[k] = Tools!AddLayer(graph, p[k - 1])
               /\ Tools!LayersOf(graph) = p[n]
  BY LayersFold, Zenon
<1> DEFINE S == {k \in 0 .. n : IsLayering(graph, p[k]) /\ (Len(p[k]) = k \/ Ended(p[k]))}
<1>3. 0 \in S
  <2>1. DOMAIN p[0] = {} /\ Len(p[0]) = 0
    BY <1>2
  <2>2. IsLayering(graph, p[0])
    BY <2>1 DEF IsLayering
  <2>3. 0 \in 0 .. n
    BY <1>1
  <2> QED BY <2>1, <2>2, <2>3, Zenon
<1>4. ASSUME NEW k \in 0 .. n - 1, k \in S PROVE k + 1 \in S
  <2>1. k + 1 \in 1 .. n /\ k + 1 \in 0 .. n /\ (k + 1) - 1 = k /\ k \in 0 .. n
    BY <1>1
  <2>2. p[k + 1] = Tools!AddLayer(graph, p[k]) /\ p[k] \in X /\ p[k + 1] \in X
    <3>1. p[k + 1] = Tools!AddLayer(graph, p[(k + 1) - 1])
      BY <1>2, <2>1, Zenon
    <3> QED BY <1>2, <2>1, <3>1
  <2>3. IsLayering(graph, p[k]) /\ (Len(p[k]) = k \/ Ended(p[k]))
    BY <1>4
  <2>4. IsLayering(graph, p[k + 1])
    BY <2>2, <2>3, LayeringGrows, Zenon
  <2>5. CASE Ended(p[k])
    <3>1. p[k + 1] = p[k]
      BY <2>2, <2>3, <2>5, LayeringGrows, Zenon
    <3> QED BY <2>1, <2>4, <2>5, <3>1, Zenon
  <2>6. CASE ~Ended(p[k])
    <3>1. Len(p[k + 1]) = Len(p[k]) + 1
      BY <2>2, <2>3, <2>6, LayeringGrows, Zenon
    <3>2. Len(p[k + 1]) = k + 1
      BY <2>3, <2>6, <3>1
    <3> QED BY <2>1, <2>4, <3>2, Zenon
  <2> QED BY <2>5, <2>6
<1> HIDE DEF S
<1>5. \A k \in 0 .. n : k \in S
  BY <1>1, <1>3, <1>4, UpTo, Zenon
<1>6. n \in 0 .. n
  BY <1>1
<1>7. IsLayering(graph, p[n]) /\ (Len(p[n]) = n \/ Ended(p[n])) /\ p[n] \in X
  BY <1>2, <1>5, <1>6, Zenon DEF S
<1>8. ASSUME Len(p[n]) = n PROVE Ended(p[n])
  <2> DEFINE B == Before(p[n], n)
  <2>1. B \in SUBSET DOMAIN graph
    BY <1>6, <1>7, <1>8, BeforeIn, Zenon
  <2>2. n \in 0 .. Len(p[n])
    BY <1>1, <1>8
  <2>3. Cardinality(B) >= n
    BY <1>7, <2>2, LayersCount, Zenon
  <2>4. Cardinality(B) <= n /\ IsFiniteSet(B)
    BY <2>1, FS_Subset, Zenon DEF IsGraph
  <2>5. Cardinality(B) \in Nat
    BY <2>4, FS_CardinalityType, Zenon
  <2>6. Cardinality(B) = n
    BY <1>1, <2>3, <2>4, <2>5
  <2>7. B = DOMAIN graph
    BY <2>1, <2>6, FS_Subset, Zenon DEF IsGraph
  <2> QED BY <1>8, <2>7, Zenon DEF Tools!NextLayer
<1> QED BY <1>2, <1>7, <1>8, Zenon

\* Upstreams each of which needs another of them are in no layer; nothing else is left out.
LEMMA CompleteIs ==
  ASSUME NEW graph, IsGraph(graph)
  PROVE  Tools!Complete(graph, Tools!LayersOf(graph)) <=>
           \A cycle \in (SUBSET DOMAIN graph) \ {{}} :
             \E u \in cycle : \A v \in cycle : v \notin graph[u]
<1> DEFINE layers == Tools!LayersOf(graph)
           n == Len(layers)
           All == Before(layers, n)
<1>1. /\ layers \in Seq(SUBSET DOMAIN graph) /\ IsLayering(graph, layers)
      /\ Tools!NextLayer(graph, All) = {}
  BY LayersAre, Zenon
<1> HIDE DEF layers
<1>2. n \in Nat /\ n \in 0 .. n /\ DOMAIN layers = 1 .. n
  BY <1>1
<1>3. Tools!Complete(graph, layers) <=> All = DOMAIN graph
  BY <1>1, BeforeAll, Zenon DEF Tools!Complete
<1>4. All \in SUBSET DOMAIN graph
  BY <1>1, <1>2, BeforeIn, Zenon
<1>5. ASSUME All # DOMAIN graph
      PROVE  \E cycle \in (SUBSET DOMAIN graph) \ {{}} :
               \A u \in cycle : \E v \in cycle : v \in graph[u]
  <2> DEFINE cycle == DOMAIN graph \ All
  <2>1. cycle \in (SUBSET DOMAIN graph) \ {{}}
    BY <1>4, <1>5, Zenon
  <2>2. ASSUME NEW u \in cycle PROVE \E v \in cycle : v \in graph[u]
    <3>1. u \in DOMAIN graph /\ u \notin All /\ graph[u] \subseteq DOMAIN graph
      BY Zenon DEF IsGraph
    <3>2. ~(graph[u] \subseteq All)
      BY <1>1, <3>1, Zenon DEF Tools!NextLayer
    <3> QED BY <3>1, <3>2, Zenon
  <2> QED BY <2>1, <2>2, Zenon
<1>6. ASSUME All = DOMAIN graph, NEW cycle \in (SUBSET DOMAIN graph) \ {{}},
             \A u \in cycle : \E v \in cycle : v \in graph[u]
      PROVE  FALSE
  <2> DEFINE S == {k \in 0 .. n : Before(layers, k) \cap cycle = {}}
  <2>1. 0 \in S
    <3>1. Before(layers, 0) \cap cycle = {} /\ 0 \in 0 .. n
      BY <1>2, BeforeSteps
    <3> QED BY <3>1
  <2>2. ASSUME NEW k \in 0 .. n - 1, k \in S PROVE k + 1 \in S
    <3>1. /\ k + 1 \in DOMAIN layers /\ k + 1 \in Nat \ {0} /\ (k + 1) - 1 = k
          /\ k + 1 \in 0 .. n
      BY <1>2
    <3>2. Before(layers, k + 1) = Before(layers, k) \cup layers[k + 1]
      <4>1. Before(layers, k + 1) = Before(layers, (k + 1) - 1) \cup layers[k + 1]
        BY <3>1, BeforeSteps, Zenon
      <4> QED BY <3>1, <4>1
    <3>3. ASSUME NEW u \in layers[k + 1], u \in cycle PROVE FALSE
      <4>1. graph[u] \subseteq Before(layers, (k + 1) - 1)
        BY <1>1, <3>1, LayerFacts, Zenon
      <4>2. graph[u] \subseteq Before(layers, k)
        BY <3>1, <4>1
      <4>3. Before(layers, k) \cap cycle = {}
        BY <2>2
      <4> QED BY <1>6, <3>3, <4>2, <4>3, Zenon
    <3>4. Before(layers, k) \cap cycle = {}
      BY <2>2
    <3>5. Before(layers, k + 1) \cap cycle = {}
      BY <3>2, <3>3, <3>4, Zenon
    <3> QED BY <3>1, <3>5
  <2> HIDE DEF S
  <2>3. \A k \in 0 .. n : k \in S
    BY <1>2, <2>1, <2>2, UpTo, Zenon
  <2>4. All \cap cycle = {}
    BY <1>2, <2>3, Zenon DEF S
  <2> QED BY <1>6, <2>4, Zenon
<1> QED BY <1>3, <1>5, <1>6, Zenon DEF layers

\* The least place of some, as the first that a search finds.
LEMMA LeastIn ==
  ASSUME NEW s \in SUBSET Nat, s # {}
  PROVE  Tools!Min(s) \in s /\ \A y \in s : Tools!Min(s) =< y
<1>1. PICK t \in s : \A u \in s : <<u, t>> \notin OpToRel(<, Nat)
  <2>1. PICK z \in s : TRUE
    OBVIOUS
  <2> QED BY <2>1, NatLessThanWellFounded, WFMin, Zenon
<1>2. \A u \in s : ~(u < t)
  BY <1>1, Zenon DEF OpToRel
<1>3. \A u \in s : t =< u
  BY <1>2
<1> QED BY <1>1, <1>3, Zenon DEF Tools!Min

\* The upstream that provides a path is that of a field with the path.
LEMMA FindIs ==
  ASSUME NEW fields \in Seq(PlanField), NEW path
  PROVE  \/ Tools!FindUpstreamForField(path, fields) = {}
         \/ \E g \in Tools!Fields(fields) :
              /\ g.path = path
              /\ Tools!FindUpstreamForField(path, fields) = {Tools!UpstreamOf(g)}
<1> DEFINE I == {i \in 1 .. Len(fields) : fields[i].path = path}
           i == IF I # {} THEN Tools!Min(I) ELSE 0
<1>1. Tools!FindUpstreamForField(path, fields) =
        IF i = 0 THEN {} ELSE {Tools!UpstreamOf(fields[i])}
  BY Zenon DEF Tools!FindUpstreamForField, Tools!SelectInSeq
<1>2. ASSUME i # 0
      PROVE  i \in DOMAIN fields /\ fields[i].path = path
  <2>1. I # {} /\ i = Tools!Min(I)
    BY <1>2
  <2>2. I \in SUBSET Nat
    OBVIOUS
  <2>3. Tools!Min(I) \in I
    <3> HIDE DEF I
    <3> QED BY <2>1, <2>2, LeastIn, Zenon
  <2>4. i \in I
    <3> HIDE DEF I
    <3> QED BY <2>1, <2>3
  <2> HIDE DEF i
  <2> QED BY <2>4
<1> HIDE DEF i
<1> QED BY <1>1, <1>2, Zenon DEF Tools!Fields

\* The graph of the fields says which upstream needs which other one.
LEMMA GraphIs ==
  ASSUME NEW fields \in Seq(PlanField)
  PROVE  LET graph == Tools!BuildDependencyGraph(fields)
         IN /\ DOMAIN graph = Tools!Upstreams(fields)
            /\ IsGraph(graph)
            /\ \A u \in DOMAIN graph : \A v : v \in graph[u] <=> Tools!Needs(fields, u, v)
<1> DEFINE graph == Tools!BuildDependencyGraph(fields)
           Own(u) == {f \in Tools!Fields(fields) : Tools!UpstreamOf(f) = u}
           Paths(u) == UNION {Tools!Fields(f.dependencies) : f \in Own(u)}
           Find(d) == Tools!FindUpstreamForField(d, fields)
<1>1. DOMAIN graph = Tools!Upstreams(fields)
  BY Zenon DEF Tools!BuildDependencyGraph
<1>2. ASSUME NEW u \in DOMAIN graph
      PROVE  graph[u] = (UNION {Find(d) : d \in Paths(u)}) \ {u}
  BY <1>1, Zenon DEF Tools!BuildDependencyGraph
<1> HIDE DEF graph
<1>3. ASSUME NEW u \in DOMAIN graph, NEW v \in graph[u]
      PROVE  Tools!Needs(fields, u, v) /\ v \in DOMAIN graph
  <2>1. PICK d \in Paths(u) : v \in Find(d) /\ v # u
    <3>1. v \in (UNION {Find(d) : d \in Paths(u)}) \ {u}
      BY <1>2, <1>3, Zenon
    <3> HIDE DEF Paths, Find
    <3> QED BY <3>1, Zenon
  <2>2. PICK f \in Own(u) : d \in Tools!Fields(f.dependencies)
    BY <2>1, Zenon
  <2>3. PICK g \in Tools!Fields(fields) : g.path = d /\ Find(d) = {Tools!UpstreamOf(g)}
    BY <2>1, FindIs, Zenon
  <2>4. Tools!UpstreamOf(g) = v
    BY <2>1, <2>3, Zenon
  <2>5. v \in Tools!Upstreams(fields)
    BY <2>4, Zenon DEF Tools!Upstreams
  <2> QED BY <1>1, <2>1, <2>2, <2>3, <2>4, <2>5, Zenon DEF Tools!Needs
<1>4. ASSUME NEW u \in DOMAIN graph, NEW v, Tools!Needs(fields, u, v)
      PROVE  v \in graph[u]
  <2>1. PICK f \in Own(u), g \in Tools!Fields(fields) :
          /\ Tools!UpstreamOf(g) = v /\ u # v
          /\ g.path \in Tools!Fields(f.dependencies) /\ Find(g.path) = {v}
    BY <1>4, Zenon DEF Tools!Needs
  <2>2. g.path \in Paths(u)
    BY <2>1, Zenon
  <2> HIDE DEF Paths, Find
  <2>3. v \in UNION {Find(d) : d \in Paths(u)}
    BY <2>1, <2>2, Zenon
  <2>4. v \in (UNION {Find(d) : d \in Paths(u)}) \ {u}
    BY <2>1, <2>3, Zenon
  <2> QED BY <1>2, <2>4, Zenon
<1>5. IsFiniteSet(DOMAIN graph)
  <2> DEFINE n == Len(fields)
             At == [i \in 1 .. n |-> Tools!UpstreamOf(fields[i])]
  <2>1. n \in Nat /\ DOMAIN fields = 1 .. n
    OBVIOUS
  <2>2. IsFiniteSet(1 .. n)
    <3>1. 1 \in Int /\ n \in Int
      BY <2>1
    <3> QED BY <3>1, FS_Interval, Zenon
  <2> HIDE DEF n
  <2>3. At \in Surjection(1 .. n, Tools!Upstreams(fields))
    <3>1. \A i \in 1 .. n : At[i] \in Tools!Upstreams(fields)
      BY <2>1, Zenon DEF Tools!Upstreams, Tools!Fields
    <3>2. \A u \in Tools!Upstreams(fields) : \E i \in 1 .. n : At[i] = u
      BY <2>1, Zenon DEF Tools!Upstreams, Tools!Fields
    <3>3. At = [i \in 1 .. n |-> At[i]]
      OBVIOUS
    <3> HIDE DEF At
    <3> QED BY <3>1, <3>2, <3>3 DEF Surjection
  <2> QED BY <1>1, <2>2, <2>3, FS_Surjection, Zenon
<1>6. IsGraph(graph)
  BY <1>3, <1>5, Zenon DEF IsGraph
<1> QED BY <1>1, <1>3, <1>4, <1>6, Zenon DEF graph

\* There are layers of all upstreams unless the fields are cyclic.
LEMMA CompleteUnlessCyclic ==
  ASSUME NEW fields \in Seq(PlanField)
  PROVE  LET graph == Tools!BuildDependencyGraph(fields)
         IN Tools!Complete(graph, Tools!LayersOf(graph)) <=> ~Tools!IsCyclic(fields)
<1> DEFINE graph == Tools!BuildDependencyGraph(fields)
<1>1. /\ DOMAIN graph = Tools!Upstreams(fields) /\ IsGraph(graph)
      /\ \A u \in DOMAIN graph : \A v : v \in graph[u] <=> Tools!Needs(fields, u, v)
  BY GraphIs, Zenon
<1> HIDE DEF graph
<1>2. Tools!Complete(graph, Tools!LayersOf(graph)) <=>
        \A cycle \in (SUBSET DOMAIN graph) \ {{}} :
          \E u \in cycle : \A v \in cycle : v \notin graph[u]
  BY <1>1, CompleteIs, Zenon
<1>3. Tools!IsCyclic(fields) <=>
        \E cycle \in (SUBSET DOMAIN graph) \ {{}} :
          \A u \in cycle : \E v \in cycle : v \in graph[u]
  <2>1. ASSUME NEW cycle \in SUBSET DOMAIN graph
        PROVE  (\A u \in cycle : \E v \in cycle : v \in graph[u])
                 <=> \A u \in cycle : \E v \in cycle : Tools!Needs(fields, u, v)
    BY <1>1, Zenon
  <2>2. Tools!IsCyclic(fields) <=>
          \E cycle \in (SUBSET DOMAIN graph) \ {{}} :
            \A u \in cycle : \E v \in cycle : Tools!Needs(fields, u, v)
    BY <1>1, Zenon DEF Tools!IsCyclic
  <2> QED BY <2>1, <2>2, Zenon
<1> QED BY <1>2, <1>3, Zenon DEF graph

\* Injections, without the operators of the library.
LEMMA InjectionIs ==
  \A S, T, f : f \in Injection(S, T) <=>
    f \in [S -> T] /\ \A x, y \in S : f[x] = f[y] => x = y
<1> SUFFICES ASSUME NEW S, NEW T, NEW f \in [S -> T]
             PROVE  IsInjective(f) <=> \A x, y \in S : f[x] = f[y] => x = y
  BY Zenon DEF Injection
<1>1. DOMAIN f = S
  OBVIOUS
<1> QED BY <1>1, Zenon DEF IsInjective

\* Sequences of different elements, as many as there are, have each of them.
LEMMA DistinctAre ==
  ASSUME NEW S, IsFiniteSet(S)
  PROVE  LET n == Cardinality(S)
         IN {f \in [1 .. n -> S] : \A i, j \in 1 .. n : i # j => f[i] # f[j]} = Bijection(1 .. n, S)
<1> DEFINE n == Cardinality(S)
           Seqs == {f \in [1 .. n -> S] : \A i, j \in 1 .. n : i # j => f[i] # f[j]}
<1>a. n \in Nat
  BY FS_CardinalityType, Zenon
<1>1. IsFiniteSet(1 .. n) /\ Cardinality(1 .. n) = n
  <2>1. 1 \in Int /\ n \in Int
    BY <1>a
  <2>2. IsFiniteSet(1 .. n) /\ Cardinality(1 .. n) = IF 1 > n THEN 0 ELSE n - 1 + 1
    BY <2>1, FS_Interval, Zenon
  <2> QED BY <1>a, <2>2
<1>2. Seqs = Injection(1 .. n, S)
  <2>1. \A f : f \in Seqs <=> f \in Injection(1 .. n, S)
    <3>1. \A f : f \in Injection(1 .. n, S) <=>
            f \in [1 .. n -> S] /\ \A i, j \in 1 .. n : f[i] = f[j] => i = j
      BY InjectionIs, Zenon
    <3> QED BY <3>1
  <2> HIDE DEF Seqs
  <2> QED BY <2>1
<1>3. \A f \in Injection(1 .. n, S) : f \in Surjection(1 .. n, S)
  BY <1>1, FS_Injection, Zenon
<1>4. Seqs = Bijection(1 .. n, S)
  <2> HIDE DEF Seqs, n
  <2> QED BY <1>2, <1>3 DEF Bijection
<1> QED BY <1>4

\* An order never goes back to a layer before.
Sorted(layers, order, n) ==
  \A i, j \in 1 .. n, m, k \in DOMAIN layers :
    i < j /\ order[i] \in layers[m] /\ order[j] \in layers[k] => m <= k

\* The orders of the planner are the ones that take the layers one after the other.
LEMMA SortIs ==
  ASSUME NEW graph, IsGraph(graph)
  PROVE  LET n == Cardinality(DOMAIN graph)
             layers == Tools!LayersOf(graph)
         IN \A order : order \in Tools!TopologicalSort(graph) <=>
              /\ order \in Bijection(1 .. n, DOMAIN graph)
              /\ Tools!Complete(graph, layers) /\ Sorted(layers, order, n)
<1> DEFINE n == Cardinality(DOMAIN graph)
           layers == Tools!LayersOf(graph)
           Seqs == {f \in [1 .. n -> DOMAIN graph] : \A i, j \in 1 .. n : i # j => f[i] # f[j]}
<1>1. Tools!SetToSeqs(DOMAIN graph) = Seqs
  BY ToolsCount, Zenon DEF Tools!SetToSeqs
<1>2. n \in Nat
  BY FS_CardinalityType, Zenon DEF IsGraph
<1>3. Seqs = Bijection(1 .. n, DOMAIN graph)
  BY DistinctAre, Zenon DEF IsGraph
<1>4. Tools!TopologicalSort(graph) =
        {order \in Seqs :
           /\ Tools!Complete(graph, layers)
           /\ \A i, j \in DOMAIN order, m, k \in DOMAIN layers :
                i < j /\ order[i] \in layers[m] /\ order[j] \in layers[k] => m <= k}
  <2> HIDE DEF Seqs
  <2> QED BY <1>1, Zenon DEF Tools!TopologicalSort
<1>5. \A order \in Seqs : DOMAIN order = 1 .. n
  OBVIOUS
<1> HIDE DEF Seqs, layers, n
<1> QED BY <1>3, <1>4, <1>5, Zenon DEF Sorted, layers, n

\* A layer can be put behind an order of those before it.
LEMMA OrderGrows ==
  ASSUME NEW graph, IsGraph(graph), NEW layers \in Seq(SUBSET DOMAIN graph),
         IsLayering(graph, layers), NEW k \in 0 .. Len(layers) - 1,
         NEW old \in Injection(1 .. Cardinality(Before(layers, k)), Before(layers, k)),
         Sorted(layers, old, Cardinality(Before(layers, k)))
  PROVE  \E order \in Injection(1 .. Cardinality(Before(layers, k + 1)), Before(layers, k + 1)) :
           Sorted(layers, order, Cardinality(Before(layers, k + 1)))
<1> DEFINE A == Before(layers, k)
           B == layers[k + 1]
           a == Cardinality(A)
           b == Cardinality(B)
<1>1. /\ k + 1 \in DOMAIN layers /\ k + 1 \in Nat \ {0} /\ (k + 1) - 1 = k
      /\ k \in 0 .. Len(layers) /\ B \in SUBSET DOMAIN graph
  OBVIOUS
<1>2. Before(layers, k + 1) = A \cup B
  <2>1. Before(layers, k + 1) = Before(layers, (k + 1) - 1) \cup layers[k + 1]
    BY <1>1, BeforeSteps, Zenon
  <2> QED BY <1>1, <2>1
<1>3. A \in SUBSET DOMAIN graph
  BY <1>1, BeforeIn, Zenon
<1>4. A \cap B = {}
  <2>1. \A u \in B : u \notin Before(layers, (k + 1) - 1)
    BY <1>1, LayerFacts, Zenon
  <2>2. \A u \in B : u \notin A
    BY <1>1, <2>1
  <2> QED BY <2>2, Zenon
<1>5. IsFiniteSet(A) /\ IsFiniteSet(B)
  BY <1>1, <1>3, FS_Subset, Zenon DEF IsGraph
<1>6. a \in Nat /\ b \in Nat /\ ExistsBijection(1 .. b, B)
  BY <1>5, FS_CardinalityType, Zenon
<1>7. Cardinality(A \cup B) = a + b
  <2>1. Cardinality(A \cup B) = a + b - Cardinality(A \cap B)
    BY <1>5, FS_Union, Zenon
  <2>2. Cardinality(A \cap B) = 0
    BY <1>4, FS_EmptySet, Zenon
  <2> HIDE DEF a, b
  <2> QED BY <1>6, <2>1, <2>2
<1>8. PICK new \in [1 .. b -> B] : \A i, j \in 1 .. b : new[i] = new[j] => i = j
  <2>1. PICK new \in Injection(1 .. b, B) : TRUE
    BY <1>6, Zenon DEF ExistsBijection, Bijection
  <2>2. new \in [1 .. b -> B] /\ \A i, j \in 1 .. b : new[i] = new[j] => i = j
    <3> HIDE DEF b, B
    <3> QED BY InjectionIs, Zenon
  <2> QED BY <2>2
<1>9. old \in [1 .. a -> A] /\ \A i, j \in 1 .. a : old[i] = old[j] => i = j
  <2> DEFINE I == 1 .. a
  <2>1. old \in Injection(I, A)
    OBVIOUS
  <2> HIDE DEF I, A
  <2>2. old \in [I -> A] /\ \A x, y \in I : old[x] = old[y] => x = y
    BY <2>1, InjectionIs, Zenon
  <2> QED BY <2>2, Zenon DEF I
<1>10. \A i, j \in 1 .. a, m, p \in DOMAIN layers :
         i < j /\ old[i] \in layers[m] /\ old[j] \in layers[p] => m <= p
  BY Zenon DEF Sorted
<1>11. ASSUME NEW u, NEW m \in DOMAIN layers, u \in layers[m]
       PROVE  /\ u \in A => m <= k
              /\ u \in B => m = k + 1
  <2>1. ASSUME u \in A PROVE m <= k
    <3>1. PICK j \in 1 .. k : u \in layers[j]
      BY <2>1, Zenon DEF Before
    <3>2. j \in DOMAIN layers
      BY <1>1
    <3>3. m = j
      BY <1>11, <3>1, <3>2, LayersDisjoint, Zenon
    <3> QED BY <3>1, <3>3
  <2>2. ASSUME u \in B PROVE m = k + 1
    BY <1>1, <1>11, <2>2, LayersDisjoint, Zenon
  <2> QED BY <2>1, <2>2
<1> DEFINE order == [i \in 1 .. (a + b) |-> IF i <= a THEN old[i] ELSE new[i - a]]
<1> HIDE DEF A, B, a, b
<1>12. ASSUME NEW i \in 1 .. (a + b)
       PROVE  \/ i \in 1 .. a /\ order[i] = old[i] /\ order[i] \in A
              \/ i > a /\ i - a \in 1 .. b /\ order[i] = new[i - a] /\ order[i] \in B
  <2>1. CASE i <= a
    <3>1. i \in 1 .. a /\ order[i] = old[i]
      BY <1>6, <2>1
    <3> QED BY <1>9, <3>1
  <2>2. CASE ~(i <= a)
    <3>1. i > a /\ i - a \in 1 .. b /\ order[i] = new[i - a]
      BY <1>6, <2>2
    <3> QED BY <1>8, <3>1
  <2> QED BY <2>1, <2>2
<1>13. order = [i \in 1 .. (a + b) |-> order[i]]
  OBVIOUS
<1> HIDE DEF order
<1>14. order \in [1 .. (a + b) -> A \cup B]
  BY <1>12, <1>13
<1>15. ASSUME NEW i \in 1 .. (a + b), NEW j \in 1 .. (a + b), order[i] = order[j]
       PROVE  i = j
  <2>1. \/ i \in 1 .. a /\ order[i] = old[i] /\ order[i] \in A
        \/ i > a /\ i - a \in 1 .. b /\ order[i] = new[i - a] /\ order[i] \in B
    BY <1>12
  <2>2. \/ j \in 1 .. a /\ order[j] = old[j] /\ order[j] \in A
        \/ j > a /\ j - a \in 1 .. b /\ order[j] = new[j - a] /\ order[j] \in B
    BY <1>12
  <2>3. CASE order[i] \in A
    <3>1. i \in 1 .. a /\ j \in 1 .. a /\ old[i] = old[j]
      BY <1>4, <1>15, <2>1, <2>2, <2>3
    <3> QED BY <1>9, <3>1
  <2>4. CASE order[i] \in B
    <3>1. i > a /\ j > a /\ i - a \in 1 .. b /\ j - a \in 1 .. b /\ new[i - a] = new[j - a]
      BY <1>4, <1>15, <2>1, <2>2, <2>4
    <3>2. i - a = j - a
      BY <1>8, <3>1
    <3> QED BY <1>6, <3>2
  <2> QED BY <2>1, <2>3, <2>4
<1>16. ASSUME NEW i \in 1 .. (a + b), NEW j \in 1 .. (a + b), i < j,
              NEW m \in DOMAIN layers, NEW p \in DOMAIN layers,
              order[i] \in layers[m], order[j] \in layers[p]
       PROVE  m <= p
  <2>1. \/ i \in 1 .. a /\ order[i] = old[i] /\ order[i] \in A
        \/ i > a /\ i - a \in 1 .. b /\ order[i] = new[i - a] /\ order[i] \in B
    BY <1>12
  <2>2. \/ j \in 1 .. a /\ order[j] = old[j] /\ order[j] \in A
        \/ j > a /\ j - a \in 1 .. b /\ order[j] = new[j - a] /\ order[j] \in B
    BY <1>12
  <2>3. m \in Nat /\ p \in Nat /\ m <= k + 1
    <3>1. m <= k \/ m = k + 1
      BY <1>11, <1>16, <2>1
    <3> QED BY <3>1
  <2>4. CASE j \in 1 .. a /\ order[j] = old[j] /\ order[j] \in A
    <3>1. i \in 1 .. a /\ order[i] = old[i]
      BY <1>6, <1>16, <2>1, <2>4
    <3> QED BY <1>10, <1>16, <2>4, <3>1
  <2>5. CASE order[j] \in B
    <3>1. p = k + 1
      BY <1>11, <1>16, <2>5
    <3> QED BY <2>3, <3>1
  <2> QED BY <2>2, <2>4, <2>5
<1>17. order \in Injection(1 .. (a + b), A \cup B)
  BY <1>14, <1>15, InjectionIs, Zenon
<1>18. Sorted(layers, order, a + b)
  BY <1>16, Zenon DEF Sorted
<1> QED BY <1>2, <1>7, <1>17, <1>18, Zenon

\* There is an order if the layers are complete.
LEMMA OrderExists ==
  ASSUME NEW graph, IsGraph(graph)
  PROVE  Tools!TopologicalSort(graph) = {} <=> ~Tools!Complete(graph, Tools!LayersOf(graph))
<1> DEFINE n == Cardinality(DOMAIN graph)
           layers == Tools!LayersOf(graph)
           N == Len(layers)
           c(k) == Cardinality(Before(layers, k))
           S == {k \in 0 .. N : \E order \in Injection(1 .. c(k), Before(layers, k)) :
                                  Sorted(layers, order, c(k))}
<1>1. layers \in Seq(SUBSET DOMAIN graph) /\ IsLayering(graph, layers)
  BY LayersAre, Zenon
<1>2. \A order : order \in Tools!TopologicalSort(graph) <=>
        /\ order \in Bijection(1 .. n, DOMAIN graph)
        /\ Tools!Complete(graph, layers) /\ Sorted(layers, order, n)
  BY SortIs, Zenon
<1> HIDE DEF layers
<1>3. N \in Nat /\ N \in 0 .. N /\ 0 \in 0 .. N
  BY <1>1
<1>4. 0 \in S
  <2>1. Before(layers, 0) = {} /\ c(0) = 0
    BY BeforeSteps, FS_EmptySet, Zenon
  <2>2. 1 .. c(0) = {}
    BY <2>1
  <2>3. <<>> \in Injection({}, {}) /\ Sorted(layers, <<>>, c(0))
    <3>1. Sorted(layers, <<>>, c(0))
      BY <2>2, Zenon DEF Sorted
    <3>2. <<>> \in [{} -> {}]
      OBVIOUS
    <3> QED BY <3>1, <3>2, InjectionIs, Zenon
  <2> QED BY <1>3, <2>1, <2>2, <2>3, Zenon
<1>5. ASSUME NEW k \in 0 .. N - 1, k \in S PROVE k + 1 \in S
  <2>1. k + 1 \in 0 .. N
    BY <1>3
  <2>2. PICK old \in Injection(1 .. c(k), Before(layers, k)) : Sorted(layers, old, c(k))
    BY <1>5
  <2>3. \E order \in Injection(1 .. c(k + 1), Before(layers, k + 1)) :
          Sorted(layers, order, c(k + 1))
    BY <1>1, <2>2, OrderGrows, Zenon
  <2> QED BY <2>1, <2>3, Zenon
<1> HIDE DEF S
<1>6. \A k \in 0 .. N : k \in S
  BY <1>3, <1>4, <1>5, UpTo, Zenon
<1>7. PICK order \in Injection(1 .. c(N), Before(layers, N)) : Sorted(layers, order, c(N))
  BY <1>3, <1>6, Zenon DEF S
<1>8. ASSUME Tools!Complete(graph, layers) PROVE order \in Tools!TopologicalSort(graph)
  <2>1. Before(layers, N) = DOMAIN graph /\ c(N) = n
    BY <1>1, <1>8, BeforeAll, Zenon DEF Tools!Complete
  <2>2. order \in Injection(1 .. n, DOMAIN graph) /\ Sorted(layers, order, n)
    BY <1>7, <2>1, Zenon
  <2>3. order \in Surjection(1 .. n, DOMAIN graph)
    <3>1. n \in Nat
      BY FS_CardinalityType, Zenon DEF IsGraph
    <3>2. 1 \in Int /\ n \in Int
      BY <3>1
    <3>3. IsFiniteSet(1 .. n) /\ Cardinality(1 .. n) = IF 1 > n THEN 0 ELSE n - 1 + 1
      BY <3>2, FS_Interval, Zenon
    <3> HIDE DEF n
    <3>4. Cardinality(1 .. n) = n
      BY <3>1, <3>3
    <3> QED BY <2>2, <3>4, FS_Injection, Zenon DEF IsGraph, n
  <2> QED BY <1>2, <1>8, <2>2, <2>3, Zenon DEF Bijection
<1> QED BY <1>2, <1>8, Zenon DEF layers

-----------------------------------------------------------------------------
(* Depths *)

\* Some of finitely many numbers is the largest.
LEMMA GreatestOf ==
  ASSUME NEW n \in Nat, NEW f \in [1 .. n -> Int]
  PROVE  \A s \in SUBSET (1 .. n) : s # {} => \E m \in s : \A j \in s : f[j] <= f[m]
<1> DEFINE S == {k \in 0 .. n : \A s \in SUBSET (1 .. k) :
                                  s # {} => \E m \in s : \A j \in s : f[j] <= f[m]}
<1>1. 0 \in S
  <2>1. 0 \in 0 .. n /\ \A s \in SUBSET (1 .. 0) : s = {}
    OBVIOUS
  <2> QED BY <2>1, Zenon
<1>2. ASSUME NEW k \in 0 .. n - 1, k \in S PROVE k + 1 \in S
  <2>a. k + 1 \in 0 .. n
    OBVIOUS
  <2> SUFFICES ASSUME NEW s \in SUBSET (1 .. (k + 1)), s # {}
               PROVE  \E m \in s : \A j \in s : f[j] <= f[m]
    BY <2>a, Zenon
  <2> DEFINE t == s \ {k + 1}
  <2>1. t \in SUBSET (1 .. k) /\ \A i \in s : f[i] \in Int
    OBVIOUS
  <2>2. CASE t = {}
    <3>1. s = {k + 1} /\ k + 1 \in s /\ f[k + 1] \in Int
      BY <2>1, <2>2
    <3>2. \A j \in s : f[j] <= f[k + 1]
      BY <3>1
    <3> QED BY <3>1, <3>2
  <2>3. CASE t # {}
    <3>1. PICK m \in t : \A j \in t : f[j] <= f[m]
      BY <1>2, <2>1, <2>3
    <3>2. CASE k + 1 \in s /\ f[m] <= f[k + 1]
      <4>1. ASSUME NEW j \in s PROVE f[j] <= f[k + 1]
        <5>1. j \in t \/ j = k + 1
          OBVIOUS
        <5>2. f[j] \in Int /\ f[m] \in Int /\ f[k + 1] \in Int
          BY <2>1, <3>2
        <5> HIDE DEF t
        <5> QED BY <3>1, <3>2, <5>1, <5>2
      <4> QED BY <3>2, <4>1
    <3>3. CASE ~(k + 1 \in s /\ f[m] <= f[k + 1])
      <4>1. ASSUME NEW j \in s PROVE f[j] <= f[m]
        <5>1. j \in t \/ (j = k + 1 /\ ~(f[m] <= f[j]))
          BY <3>3
        <5>2. f[j] \in Int /\ f[m] \in Int
          BY <2>1
        <5> HIDE DEF t
        <5> QED BY <3>1, <5>1, <5>2
      <4> QED BY <4>1
    <3> QED BY <3>2, <3>3
  <2> QED BY <2>2, <2>3
<1> HIDE DEF S
<1>3. \A k \in 0 .. n : k \in S
  BY <1>1, <1>2, UpTo, Zenon
<1>4. n \in 0 .. n
  OBVIOUS
<1> QED BY <1>3, <1>4, Zenon DEF S

\* t is a depth of every step: one more than the largest of its dependencies, which are
\* before it, and 0 without them.
Deepens(steps, t) ==
  /\ \A i \in DOMAIN steps : steps[i].dependencies \in SUBSET (1 .. (i - 1)) /\ t[i] \in Nat
  /\ \A i \in DOMAIN steps : steps[i].dependencies = {} <=> t[i] = 0
  /\ \A i \in DOMAIN steps : \A d \in steps[i].dependencies : t[d] < t[i]
  /\ \A i \in DOMAIN steps : t[i] # 0 => \E d \in steps[i].dependencies : t[d] = t[i] - 1

First(steps, i) == IF steps[i].dependencies = {} THEN 0 ELSE -1

\* Known depths are right, or not known yet.
AtOrUnder(steps, t, known) ==
  \A i \in DOMAIN steps : known[i] = t[i] \/ known[i] = First(steps, i)

Knows(steps, t, known, k) ==
  AtOrUnder(steps, t, known) /\ \A j \in 1 .. k : known[j] = t[j]

Deeper(steps, known, i) ==
  LET below == {known[d] : d \in steps[i].dependencies} \ {-1}
  IN IF known[i] > 0 \/ below = {} THEN known
     ELSE [known EXCEPT ![i] = 1 + CHOOSE m \in below : \A n \in below : n <= m]

\* One step of a pass keeps the depths that are known, and adds its own.
LEMMA DeeperIs ==
  ASSUME NEW n \in Nat, NEW steps, DOMAIN steps = 1 .. n, NEW t, Deepens(steps, t),
         NEW known \in [1 .. n -> Int], NEW i \in 1 .. n
  PROVE  /\ Deeper(steps, known, i) \in [1 .. n -> Int]
         /\ Knows(steps, t, known, i - 1) => Knows(steps, t, Deeper(steps, known, i), i)
<1> DEFINE deps == steps[i].dependencies
           below == {known[d] : d \in deps} \ {-1}
           top == CHOOSE m \in below : \A k \in below : k <= m
           more == [known EXCEPT ![i] = 1 + top]
<1>1. Deeper(steps, known, i) = IF known[i] > 0 \/ below = {} THEN known ELSE more
  BY Zenon DEF Deeper
<1>2. /\ deps \in SUBSET (1 .. (i - 1)) /\ deps \in SUBSET (1 .. n) /\ t[i] \in Nat
      /\ deps = {} <=> t[i] = 0
      /\ \A d \in deps : t[d] < t[i]
      /\ t[i] # 0 => \E d \in deps : t[d] = t[i] - 1
  <2>1. /\ deps \in SUBSET (1 .. (i - 1)) /\ t[i] \in Nat
        /\ deps = {} <=> t[i] = 0
        /\ \A d \in deps : t[d] < t[i]
        /\ t[i] # 0 => \E d \in deps : t[d] = t[i] - 1
    BY Zenon DEF Deepens
  <2>2. \A d \in 1 .. (i - 1) : d \in 1 .. n
    OBVIOUS
  <2> QED BY <2>1, <2>2
<1>3. First(steps, i) = IF deps = {} THEN 0 ELSE -1
  BY Zenon DEF First
<1>4. \A d \in 1 .. n : t[d] \in Nat
  BY Zenon DEF Deepens
<1> HIDE DEF deps
<1>5. ASSUME below # {} PROVE top \in below /\ \A k \in below : k <= top
  <2> DEFINE s == {d \in deps : known[d] # -1}
  <2>1. s \in SUBSET (1 .. n) /\ s # {}
    BY <1>2, <1>5
  <2> HIDE DEF s
  <2>2. PICK m \in s : \A j \in s : known[j] <= known[m]
    BY <2>1, GreatestOf, Zenon
  <2>3. known[m] \in below /\ \A k \in below : k <= known[m]
    BY <2>2 DEF s
  <2> HIDE DEF below
  <2> QED BY <2>3, Zenon
<1>6. below \in SUBSET Int
  BY <1>2
<1> HIDE DEF top
<1>7. Deeper(steps, known, i) \in [1 .. n -> Int]
  <2>1. CASE below = {}
    BY <1>1, <2>1
  <2>2. CASE below # {}
    <3>1. top \in Int
      BY <1>5, <1>6, <2>2, Zenon
    <3>2. more \in [1 .. n -> Int]
      BY <3>1
    <3> HIDE DEF more
    <3> QED BY <1>1, <3>2
  <2> QED BY <2>1, <2>2
<1>8. ASSUME AtOrUnder(steps, t, known), \A j \in 1 .. (i - 1) : known[j] = t[j]
      PROVE  /\ AtOrUnder(steps, t, Deeper(steps, known, i))
             /\ \A j \in 1 .. i : Deeper(steps, known, i)[j] = t[j]
  <2>1. known[i] = t[i] \/ known[i] = First(steps, i)
    BY <1>8, Zenon DEF AtOrUnder
  <2>2. \A d \in deps : known[d] = t[d] /\ t[d] \in Nat
    BY <1>2, <1>4, <1>8
  <2>3. \A j \in 1 .. i : j \in 1 .. (i - 1) \/ j = i
    OBVIOUS
  <2>4. CASE t[i] = 0
    <3>1. deps = {} /\ below = {}
      BY <1>2, <2>4
    <3>2. known[i] = t[i]
      BY <1>3, <2>1, <2>4, <3>1
    <3>3. Deeper(steps, known, i) = known
      BY <1>1, <3>1, Zenon
    <3> QED BY <1>8, <2>3, <3>2, <3>3, Zenon
  <2>5. CASE t[i] # 0 /\ known[i] = t[i]
    <3>1. known[i] > 0
      BY <1>2, <2>5
    <3>2. Deeper(steps, known, i) = known
      BY <1>1, <3>1, Zenon
    <3> QED BY <1>8, <2>3, <2>5, <3>2, Zenon
  <2>6. CASE t[i] # 0 /\ known[i] # t[i]
    <3>1. known[i] = -1
      BY <1>2, <1>3, <2>1, <2>6
    <3>2. PICK d \in deps : t[d] = t[i] - 1
      BY <1>2, <2>6
    <3>3. known[d] \in below /\ known[d] = t[i] - 1
      <4>1. known[d] # -1
        BY <2>2
      <4> QED BY <2>2, <3>2, <4>1
    <3>4. \A k \in below : k <= t[i] - 1
      <4>1. ASSUME NEW e \in deps PROVE known[e] <= t[i] - 1
        <5>1. known[e] = t[e] /\ t[e] \in Nat /\ t[e] < t[i] /\ t[i] \in Nat
          BY <1>2, <2>2
        <5> QED BY <5>1
      <4> QED BY <4>1
    <3>5. below # {} /\ top \in below /\ \A k \in below : k <= top
      BY <1>5, <3>3
    <3>6. top = t[i] - 1
      <4>1. top <= t[i] - 1 /\ t[i] - 1 <= top /\ top \in Int
        BY <1>6, <3>3, <3>4, <3>5, Zenon
      <4> HIDE DEF below
      <4> QED BY <1>2, <4>1
    <3>7. Deeper(steps, known, i) = more
      <4>1. ~(known[i] > 0)
        BY <3>1
      <4> QED BY <1>1, <3>5, <4>1, Zenon
    <3>8. more[i] = t[i] /\ \A j \in 1 .. n : j # i => more[j] = known[j]
      BY <1>2, <3>6
    <3> HIDE DEF more, below
    <3>9. ASSUME NEW j \in DOMAIN steps
          PROVE  more[j] = t[j] \/ more[j] = First(steps, j)
      <4>1. known[j] = t[j] \/ known[j] = First(steps, j)
        BY <1>8, Zenon DEF AtOrUnder
      <4> QED BY <3>8, <4>1, Zenon
    <3>10. \A j \in 1 .. (i - 1) : j # i /\ j \in 1 .. n
      OBVIOUS
    <3>11. \A j \in 1 .. i : more[j] = t[j]
      BY <1>8, <2>3, <3>8, <3>10, Zenon
    <3> QED BY <3>7, <3>9, <3>11, Zenon DEF AtOrUnder
  <2> QED BY <2>4, <2>5, <2>6
<1> QED BY <1>7, <1>8, Zenon DEF Knows

PassIter(steps, depths, D, it) ==
  it = [s \in SUBSET D |->
          IF s = {} THEN depths
          ELSE Deeper(steps, it[s \ {Tools!Max(s)}], [i \in DOMAIN steps |-> i][Tools!Max(s)])]

DepthsOf(n, t) == [i \in 1 .. n |-> t[i]]

\* One pass over the steps in their order finds all depths, and keeps them.
LEMMA PassIs ==
  ASSUME NEW n \in Nat, NEW steps, DOMAIN steps = 1 .. n, NEW t, Deepens(steps, t),
         NEW depths \in [1 .. n -> Int], AtOrUnder(steps, t, depths)
  PROVE  Tools!DepthPass(steps, depths) = DepthsOf(n, t)
<1> DEFINE X == [1 .. n -> Int]
           F == [a \in X \X (1 .. n) |-> Deeper(steps, a[1], a[2])]
           seq == [i \in DOMAIN steps |-> i]
           it == CHOOSE f : PassIter(steps, depths, DOMAIN seq, f)
<1>1. Tools!DepthPass(steps, depths) = it[DOMAIN seq]
  BY Zenon DEF Tools!DepthPass, Tools!FoldLeft, Tools!MapThenFoldSet, PassIter, Deeper
<1>2. DOMAIN seq = 1 .. n /\ \A i \in 1 .. n : [j \in DOMAIN steps |-> j][i] = i
  OBVIOUS
<1> HIDE DEF seq
<1>3. depths \in X
  OBVIOUS
<1> HIDE DEF X
<1>4. ASSUME NEW x \in X, NEW k \in 1 .. n
      PROVE  F[<<x, k>>] = Deeper(steps, x, k) /\ Deeper(steps, x, k) \in X
  <2>1. F[<<x, k>>] = Deeper(steps, x, k)
    OBVIOUS
  <2>2. Deeper(steps, x, k) \in X
    BY DeeperIs, Zenon DEF X
  <2> QED BY <2>1, <2>2
<1>5. F \in [X \X (1 .. n) -> X]
  <2>1. \A a \in X \X (1 .. n) : Deeper(steps, a[1], a[2]) \in X
    <3>1. \A a \in X \X (1 .. n) : a[1] \in X /\ a[2] \in 1 .. n
      OBVIOUS
    <3> QED BY <1>4, <3>1, Zenon
  <2> QED BY <2>1
<1> HIDE DEF F
<1>6. PICK g \in [SUBSET (1 .. n) -> X] : FoldsPlaces(n, depths, F, g)
  BY <1>3, <1>5, FoldLeftExists, Zenon
<1>7. /\ \A s \in SUBSET (1 .. n) : Tools!Max(s) = Largest(s) /\ s \ {Largest(s)} \in SUBSET (1 .. n)
      /\ \A s \in SUBSET (1 .. n) : s # {} => Largest(s) \in 1 .. n
  <2>1. \A s \in SUBSET (1 .. n) : Tools!Max(s) = Largest(s) /\ s \ {Largest(s)} \in SUBSET (1 .. n)
    BY Zenon DEF Tools!Max, Largest
  <2>2. \A s \in SUBSET (1 .. n) : s # {} => Largest(s) \in 1 .. n
    BY LargestIn, Zenon
  <2> QED BY <2>1, <2>2
<1>8. PassIter(steps, depths, 1 .. n, g)
  <2>1. ASSUME NEW s \in SUBSET (1 .. n)
        PROVE  g[s] = IF s = {} THEN depths
                      ELSE Deeper(steps, g[s \ {Tools!Max(s)}], [i \in DOMAIN steps |-> i][Tools!Max(s)])
    <3>1. g[s \ {Largest(s)}] \in X
      BY <1>7
    <3>2. g[s] = IF s = {} THEN depths ELSE F[<<g[s \ {Largest(s)}], Largest(s)>>]
      BY <1>6, Zenon DEF FoldsPlaces
    <3>3. CASE s = {}
      BY <3>2, <3>3, Zenon
    <3>4. CASE s # {}
      <4>1. Tools!Max(s) = Largest(s) /\ [i \in DOMAIN steps |-> i][Largest(s)] = Largest(s)
        BY <1>2, <1>7, <3>4, Zenon
      <4>2. g[s] = Deeper(steps, g[s \ {Largest(s)}], Largest(s))
        BY <1>4, <1>7, <3>1, <3>2, <3>4, Zenon
      <4> QED BY <3>4, <4>1, <4>2, Zenon
    <3> QED BY <3>3, <3>4
  <2>2. g = [s \in SUBSET (1 .. n) |-> g[s]]
    OBVIOUS
  <2> QED BY <2>1, <2>2, Zenon DEF PassIter
<1>9. PassIter(steps, depths, 1 .. n, it)
  <2>1. PassIter(steps, depths, DOMAIN seq, g)
    BY <1>2, <1>8, Zenon
  <2>2. PassIter(steps, depths, DOMAIN seq, it)
    BY <2>1, Zenon
  <2> QED BY <1>2, <2>2, Zenon
<1> HIDE DEF it
<1>10. /\ it[{}] = depths
       /\ \A s \in SUBSET (1 .. n) : s # {} => it[s] = Deeper(steps, it[s \ {Largest(s)}], Largest(s))
  <2>1. {} \in SUBSET (1 .. n)
    OBVIOUS
  <2>2. it[{}] = depths
    BY <1>9, <2>1, Zenon DEF PassIter
  <2>3. ASSUME NEW s \in SUBSET (1 .. n), s # {}
        PROVE  it[s] = Deeper(steps, it[s \ {Largest(s)}], Largest(s))
    <3>1. Tools!Max(s) = Largest(s) /\ [i \in DOMAIN steps |-> i][Largest(s)] = Largest(s)
      BY <1>2, <1>7, <2>3, Zenon
    <3>2. it[s] = Deeper(steps, it[s \ {Tools!Max(s)}], [i \in DOMAIN steps |-> i][Tools!Max(s)])
      BY <1>9, <2>3, Zenon DEF PassIter
    <3> QED BY <3>1, <3>2, Zenon
  <2> QED BY <2>2, <2>3, Zenon
<1>11. StepsOn(n, X, depths, F, it)
  <2>1. FoldsOn(n, X, depths, F, it)
    BY <1>4, <1>7, <1>10, Zenon DEF FoldsOn
  <2> QED BY <1>3, <1>5, <2>1, FoldLeftSteps, Zenon
<1> DEFINE S == {k \in 0 .. n : Knows(steps, t, it[1 .. k], k)}
<1>12. 0 \in S
  <2>1. it[1 .. 0] = depths
    BY <1>11, Zenon DEF StepsOn
  <2>2. 0 \in 0 .. n /\ \A j \in 1 .. 0 : FALSE
    OBVIOUS
  <2> QED BY <2>1, <2>2, Zenon DEF Knows
<1>13. ASSUME NEW k \in 0 .. n - 1, k \in S PROVE k + 1 \in S
  <2>1. k + 1 \in 1 .. n /\ k + 1 \in 0 .. n /\ (k + 1) - 1 = k /\ k \in 0 .. n
    OBVIOUS
  <2>2. it[1 .. k] \in X
    BY <1>11, <2>1, Zenon DEF StepsOn
  <2>3. it[1 .. (k + 1)] = Deeper(steps, it[1 .. k], k + 1)
    <3>1. it[1 .. (k + 1)] = F[<<it[1 .. ((k + 1) - 1)], k + 1>>]
      BY <1>11, <2>1, Zenon DEF StepsOn
    <3>2. it[1 .. (k + 1)] = F[<<it[1 .. k], k + 1>>]
      BY <2>1, <3>1
    <3> QED BY <1>4, <2>1, <2>2, <3>2, Zenon
  <2>4. Knows(steps, t, it[1 .. k], (k + 1) - 1)
    BY <1>13, <2>1
  <2>5. Knows(steps, t, Deeper(steps, it[1 .. k], k + 1), k + 1)
    BY <2>1, <2>2, <2>4, DeeperIs, Zenon DEF X
  <2> QED BY <2>1, <2>3, <2>5, Zenon
<1> HIDE DEF S
<1>14. \A k \in 0 .. n : k \in S
  BY <1>12, <1>13, UpTo, Zenon
<1>15. n \in 0 .. n
  OBVIOUS
<1>16. it[1 .. n] \in X /\ \A j \in 1 .. n : it[1 .. n][j] = t[j]
  BY <1>11, <1>14, <1>15, Zenon DEF StepsOn, S, Knows
<1>17. it[1 .. n] = [i \in 1 .. n |-> it[1 .. n][i]]
  BY <1>16 DEF X
<1>18. [i \in 1 .. n |-> it[1 .. n][i]] = [i \in 1 .. n |-> t[i]]
  BY <1>16, Zenon
<1> QED BY <1>1, <1>2, <1>17, <1>18, Zenon DEF DepthsOf

PassesIter(steps, D, it) ==
  it = [s \in SUBSET D |->
          IF s = {} THEN [i \in DOMAIN steps |-> IF steps[i].dependencies = {} THEN 0 ELSE -1]
          ELSE Tools!DepthPass(steps, it[s \ {Tools!Max(s)}])]

\* All passes find the depths.
LEMMA DepthsAre ==
  ASSUME NEW n \in Nat, NEW steps, DOMAIN steps = 1 .. n, NEW t, Deepens(steps, t)
  PROVE  Tools!CalculateStepDepths(steps) = DepthsOf(n, t)
<1> DEFINE first == [i \in DOMAIN steps |-> IF steps[i].dependencies = {} THEN 0 ELSE -1]
           last == DepthsOf(n, t)
           X == {first, last}
           F == [a \in X \X (1 .. n) |-> Tools!DepthPass(steps, a[1])]
           it == CHOOSE f : PassesIter(steps, DOMAIN steps, f)
<1>1. Tools!CalculateStepDepths(steps) = it[DOMAIN steps]
  BY Zenon DEF Tools!CalculateStepDepths, Tools!FoldLeft, Tools!MapThenFoldSet, PassesIter
<1>2. \A i \in 1 .. n : t[i] \in Nat
  BY Zenon DEF Deepens
<1>3. /\ first \in [1 .. n -> Int] /\ AtOrUnder(steps, t, first)
      /\ last \in [1 .. n -> Int] /\ AtOrUnder(steps, t, last)
  <2>1. first \in [1 .. n -> Int] /\ last \in [1 .. n -> Int]
    BY <1>2 DEF DepthsOf
  <2>2. AtOrUnder(steps, t, first) /\ AtOrUnder(steps, t, last)
    BY Zenon DEF AtOrUnder, First, DepthsOf
  <2> QED BY <2>1, <2>2
<1>4. first = [i \in DOMAIN steps |-> IF steps[i].dependencies = {} THEN 0 ELSE -1]
  OBVIOUS
<1>5. n = 0 => first = last
  BY DEF DepthsOf
<1> HIDE DEF first
<1>6. \A x \in X : Tools!DepthPass(steps, x) = last
  <2>1. Tools!DepthPass(steps, first) = last
    BY <1>3, PassIs, Zenon
  <2>2. Tools!DepthPass(steps, last) = last
    BY <1>3, PassIs, Zenon
  <2> HIDE DEF last
  <2> QED BY <2>1, <2>2, Zenon
<1> HIDE DEF last
<1>7. first \in X /\ last \in X /\ \A x \in X, k \in 1 .. n : F[<<x, k>>] = last
  BY <1>6
<1>8. F \in [X \X (1 .. n) -> X]
  BY <1>6
<1> HIDE DEF F, X
<1>9. PICK g \in [SUBSET (1 .. n) -> X] : FoldsPlaces(n, first, F, g)
  BY <1>7, <1>8, FoldLeftExists, Zenon
<1>10. /\ \A s \in SUBSET (1 .. n) : Tools!Max(s) = Largest(s) /\ s \ {Largest(s)} \in SUBSET (1 .. n)
       /\ \A s \in SUBSET (1 .. n) : s # {} => Largest(s) \in 1 .. n
  <2>1. \A s \in SUBSET (1 .. n) : Tools!Max(s) = Largest(s) /\ s \ {Largest(s)} \in SUBSET (1 .. n)
    BY Zenon DEF Tools!Max, Largest
  <2>2. \A s \in SUBSET (1 .. n) : s # {} => Largest(s) \in 1 .. n
    BY LargestIn, Zenon
  <2> QED BY <2>1, <2>2
<1>11. PassesIter(steps, DOMAIN steps, g)
  <2>1. ASSUME NEW s \in SUBSET (1 .. n)
        PROVE  g[s] = IF s = {} THEN first ELSE Tools!DepthPass(steps, g[s \ {Tools!Max(s)}])
    <3>1. g[s \ {Largest(s)}] \in X
      BY <1>10
    <3>2. g[s] = IF s = {} THEN first ELSE F[<<g[s \ {Largest(s)}], Largest(s)>>]
      BY <1>9, Zenon DEF FoldsPlaces
    <3>3. CASE s = {}
      BY <3>2, <3>3, Zenon
    <3>4. CASE s # {}
      <4>1. g[s] = last /\ Tools!DepthPass(steps, g[s \ {Largest(s)}]) = last
        BY <1>6, <1>7, <1>10, <3>1, <3>2, <3>4, Zenon
      <4> QED BY <1>10, <3>4, <4>1, Zenon
    <3> QED BY <3>3, <3>4
  <2>2. g = [s \in SUBSET (1 .. n) |-> g[s]]
    OBVIOUS
  <2> QED BY <1>4, <2>1, <2>2, Zenon DEF PassesIter
<1>12. PassesIter(steps, DOMAIN steps, it)
  BY <1>11, Zenon
<1> HIDE DEF it
<1>13. it[{}] = first
  <2>1. {} \in SUBSET (1 .. n)
    OBVIOUS
  <2> QED BY <1>4, <1>12, <2>1, Zenon DEF PassesIter
<1>14. ASSUME NEW s \in SUBSET (1 .. n), s # {}, it[s \ {Largest(s)}] \in X
       PROVE  it[s] = F[<<it[s \ {Largest(s)}], Largest(s)>>]
  <2>1. it[s] = Tools!DepthPass(steps, it[s \ {Tools!Max(s)}])
    BY <1>12, <1>14, Zenon DEF PassesIter
  <2>2. it[s] = last
    BY <1>6, <1>10, <1>14, <2>1, Zenon
  <2> QED BY <1>7, <1>10, <1>14, <2>2, Zenon
<1>15. StepsOn(n, X, first, F, it)
  <2>1. FoldsOn(n, X, first, F, it)
    BY <1>13, <1>14, Zenon DEF FoldsOn
  <2> QED BY <1>7, <1>8, <2>1, FoldLeftSteps, Zenon
<1>16. it[1 .. n] = last
  <2>1. CASE n = 0
    <3>1. it[1 .. n] = first
      BY <1>15, <2>1, Zenon DEF StepsOn
    <3> QED BY <1>5, <2>1, <3>1
  <2>2. CASE n # 0
    <3>1. n \in 1 .. n /\ n - 1 \in 0 .. n
      BY <2>2
    <3>2. it[1 .. (n - 1)] \in X /\ it[1 .. n] = F[<<it[1 .. (n - 1)], n>>]
      BY <1>15, <3>1, Zenon DEF StepsOn
    <3> QED BY <1>7, <3>1, <3>2, Zenon
  <2> QED BY <2>1, <2>2
<1> QED BY <1>1, <1>16, Zenon DEF last

-----------------------------------------------------------------------------
(* Plans *)

Level(layers, u) == CHOOSE k \in DOMAIN layers : u \in layers[k]

AtLevel(layers, u) ==
  /\ Level(layers, u) \in DOMAIN layers /\ Level(layers, u) \in Nat \ {0}
  /\ \A k \in DOMAIN layers : u \in layers[k] <=> k = Level(layers, u)

\* Each upstream is in one layer.
LEMMA LevelIs ==
  ASSUME NEW graph, NEW layers \in Seq(SUBSET DOMAIN graph), IsLayering(graph, layers),
         Before(layers, Len(layers)) = DOMAIN graph, NEW u \in DOMAIN graph
  PROVE  AtLevel(layers, u)
<1>1. DOMAIN layers = 1 .. Len(layers) /\ DOMAIN layers \in SUBSET (Nat \ {0})
  OBVIOUS
<1>2. \E k \in DOMAIN layers : u \in layers[k]
  <2>1. u \in UNION {layers[j] : j \in 1 .. Len(layers)}
    BY Zenon DEF Before
  <2> QED BY <1>1, <2>1, Zenon
<1>3. Level(layers, u) \in DOMAIN layers /\ u \in layers[Level(layers, u)]
  BY <1>2, Zenon DEF Level
<1>4. ASSUME NEW k \in DOMAIN layers, u \in layers[k] PROVE k = Level(layers, u)
  BY <1>3, <1>4, LayersDisjoint, Zenon
<1> QED BY <1>1, <1>3, <1>4, Zenon DEF AtLevel

\* What an upstream needs is at a lower level, some of it at the next lower one.
Falls(graph, layers, u) ==
  /\ \A v \in graph[u] : v \in DOMAIN graph /\ Level(layers, v) < Level(layers, u)
  /\ graph[u] = {} <=> Level(layers, u) = 1
  /\ Level(layers, u) # 1 => \E v \in graph[u] : Level(layers, v) = Level(layers, u) - 1

\* What an upstream needs is in an earlier layer, and some of it in the layer before.
LEMMA LevelsFall ==
  ASSUME NEW graph, IsGraph(graph), NEW layers \in Seq(SUBSET DOMAIN graph),
         IsLayering(graph, layers), Before(layers, Len(layers)) = DOMAIN graph,
         NEW u \in DOMAIN graph
  PROVE  Falls(graph, layers, u)
<1> DEFINE k == Level(layers, u)
<1>1. k \in DOMAIN layers /\ k \in Nat \ {0} /\ u \in layers[k] /\ DOMAIN layers = 1 .. Len(layers)
  <2>1. k \in DOMAIN layers /\ k \in Nat \ {0}
    BY LevelIs, Zenon DEF AtLevel
  <2>2. \A j \in DOMAIN layers : u \in layers[j] <=> j = k
    BY LevelIs, Zenon DEF AtLevel
  <2>3. DOMAIN layers = 1 .. Len(layers)
    OBVIOUS
  <2> QED BY <2>1, <2>2, <2>3, Zenon
<1> HIDE DEF k
<1>2. graph[u] \subseteq Before(layers, k - 1)
      /\ (k > 1 => \E v \in graph[u] : v \in layers[k - 1])
  <2>1. graph[u] \subseteq Before(layers, k - 1)
    BY <1>1, LayerFacts, Zenon
  <2>2. k > 1 => \E v \in graph[u] : v \in layers[k - 1]
    BY <1>1, LayerFacts
  <2> QED BY <2>1, <2>2
<1>3. \A v \in graph[u] : v \in DOMAIN graph
  BY Zenon DEF IsGraph
<1>4. ASSUME NEW v \in graph[u] PROVE Level(layers, v) < k
  <2>1. PICK j \in 1 .. (k - 1) : v \in layers[j]
    BY <1>2, Zenon DEF Before
  <2>2. j \in DOMAIN layers /\ j < k
    BY <1>1, <2>1
  <2>3. j = Level(layers, v)
    BY <1>3, <2>1, <2>2, LevelIs, Zenon DEF AtLevel
  <2> QED BY <2>2, <2>3
<1>5. ASSUME k # 1 PROVE \E v \in graph[u] : Level(layers, v) = k - 1
  <2>1. k > 1 /\ k - 1 \in DOMAIN layers
    BY <1>1, <1>5
  <2>2. PICK v \in graph[u] : v \in layers[k - 1]
    BY <1>2, <2>1
  <2>3. k - 1 = Level(layers, v)
    BY <1>3, <2>1, <2>2, LevelIs, Zenon DEF AtLevel
  <2> QED BY <2>3
<1>6. ASSUME k = 1 PROVE graph[u] = {}
  <2>1. Before(layers, k - 1) = {}
    BY <1>6, BeforeSteps
  <2> QED BY <1>2, <2>1, Zenon
<1>7. graph[u] = {} <=> k = 1
  BY <1>5, <1>6, Zenon
<1> QED BY <1>3, <1>4, <1>5, <1>7, Zenon DEF k, Falls

\* The steps of an order of all upstreams.
Planned(fields, graph, layers, order, steps, n) ==
  /\ n = Cardinality(DOMAIN graph) /\ n \in Nat /\ graph = Tools!BuildDependencyGraph(fields)
  /\ DOMAIN graph = Tools!Upstreams(fields) /\ IsGraph(graph)
  /\ \A u \in DOMAIN graph : \A v : v \in graph[u] <=> Tools!Needs(fields, u, v)
  /\ layers = Tools!LayersOf(graph) /\ layers \in Seq(SUBSET DOMAIN graph)
  /\ IsLayering(graph, layers) /\ Before(layers, Len(layers)) = DOMAIN graph
  /\ order \in [1 .. n -> DOMAIN graph] /\ Sorted(layers, order, n)
  /\ \A i, j \in 1 .. n : order[i] = order[j] => i = j
  /\ \A u \in DOMAIN graph : \E i \in 1 .. n : order[i] = u
  /\ DOMAIN steps = 1 .. n /\ Len(steps) = n
  /\ \A i \in 1 .. n : steps[i] = Tools!StepFor(fields, graph, order, i)

\* A plan is an order of the graph with its layers.
LEMMA PlanIs ==
  ASSUME NEW fields \in Seq(PlanField), NEW steps \in Tools!BuildPlans(fields)
  PROVE  \E graph, layers, order, n : Planned(fields, graph, layers, order, steps, n)
<1> DEFINE graph == Tools!BuildDependencyGraph(fields)
           layers == Tools!LayersOf(graph)
           n == Cardinality(DOMAIN graph)
<1>1. PICK order \in Tools!TopologicalSort(graph) :
        steps = [i \in DOMAIN order |-> Tools!StepFor(fields, graph, order, i)]
  BY Zenon DEF Tools!BuildPlans
<1>2. /\ DOMAIN graph = Tools!Upstreams(fields) /\ IsGraph(graph)
      /\ \A u \in DOMAIN graph : \A v : v \in graph[u] <=> Tools!Needs(fields, u, v)
  BY GraphIs, Zenon
<1> HIDE DEF graph
<1>4. /\ order \in Bijection(1 .. n, DOMAIN graph)
      /\ Tools!Complete(graph, layers) /\ Sorted(layers, order, n)
  BY <1>1, <1>2, SortIs, Zenon
<1>5. layers \in Seq(SUBSET DOMAIN graph) /\ IsLayering(graph, layers)
  BY <1>2, LayersAre, Zenon
<1>6. Before(layers, Len(layers)) = DOMAIN graph
  <2>1. UNION Tools!Fields(layers) = DOMAIN graph
    BY <1>4, Zenon DEF Tools!Complete
  <2> HIDE DEF layers
  <2> QED BY <1>5, <2>1, BeforeAll, Zenon
<1>7. n \in Nat
  BY <1>2, FS_CardinalityType, Zenon DEF IsGraph
<1> HIDE DEF layers, n
<1>8. /\ order \in [1 .. n -> DOMAIN graph] /\ DOMAIN order = 1 .. n
      /\ \A i, j \in 1 .. n : order[i] = order[j] => i = j
      /\ \A u \in DOMAIN graph : \E i \in 1 .. n : order[i] = u
  <2> DEFINE I == 1 .. n
  <2>1. order \in Injection(I, DOMAIN graph) /\ order \in Surjection(I, DOMAIN graph)
    BY <1>4, Zenon DEF Bijection
  <2> HIDE DEF I
  <2>2. order \in [I -> DOMAIN graph] /\ \A i, j \in I : order[i] = order[j] => i = j
    BY <2>1, InjectionIs, Zenon
  <2>3. \A u \in DOMAIN graph : \E i \in I : order[i] = u
    BY <2>1, Zenon DEF Surjection
  <2>4. DOMAIN order = I
    BY <2>2
  <2> QED BY <2>2, <2>3, <2>4, Zenon DEF I
<1>9. /\ DOMAIN steps = 1 .. n /\ Len(steps) = n
      /\ \A i \in 1 .. n : steps[i] = Tools!StepFor(fields, graph, order, i)
  <2>1. steps = [i \in 1 .. n |-> Tools!StepFor(fields, graph, order, i)]
    BY <1>1, <1>8, Zenon
  <2>2. Len(steps) = n
    BY <1>7, <2>1
  <2> QED BY <2>1, <2>2
<1>10. layers = Tools!LayersOf(graph) /\ n = Cardinality(DOMAIN graph)
       /\ graph = Tools!BuildDependencyGraph(fields)
  BY DEF layers, n, graph
<1>11. Planned(fields, graph, layers, order, steps, n)
  BY <1>2, <1>4, <1>5, <1>6, <1>7, <1>8, <1>9, <1>10, Zenon DEF Planned
<1> QED BY <1>11, Zenon

\* A step depends on all steps for what its upstream needs.
PlanStep(fields, graph, layers, order, steps, n, i) ==
  /\ steps[i].upstream = order[i]
  /\ steps[i].paths = Tools!Paths(Tools!GroupFields(fields, order[i]))
  /\ steps[i].dependencies = {j \in 1 .. n : order[j] \in graph[order[i]]}
  /\ steps[i].dependencies \in SUBSET (1 .. (i - 1))
  /\ steps[i].parallel <=> \E layer \in Tools!Fields(layers) :
                             order[i] \in layer /\ Cardinality(layer) > 1

\* What a step of a plan says, in terms of the graph.
LEMMA StepIs ==
  ASSUME NEW fields, NEW graph, NEW layers, NEW order, NEW steps, NEW n,
         Planned(fields, graph, layers, order, steps, n), NEW i \in 1 .. n
  PROVE  PlanStep(fields, graph, layers, order, steps, n, i)
<1>1. steps[i] = Tools!StepFor(fields, graph, order, i)
  BY Zenon DEF Planned
<1>2. /\ steps[i].upstream = order[i]
      /\ steps[i].paths = Tools!Paths(Tools!GroupFields(fields, order[i]))
      /\ steps[i].dependencies = Tools!StepDependencies(order, i, graph)
      /\ steps[i].parallel = \E layer \in Tools!Fields(Tools!LayersOf(graph)) :
                               order[i] \in layer /\ Tools!Cardinality(layer) > 1
  BY <1>1 DEF Tools!StepFor
<1>3. Tools!StepDependencies(order, i, graph) = {j \in 1 .. i - 1 : order[j] \in graph[order[i]]}
  BY Zenon DEF Tools!StepDependencies
<1>4. ASSUME NEW j \in 1 .. n, order[j] \in graph[order[i]]
      PROVE  j \in 1 .. (i - 1)
  <2>1. order[i] \in DOMAIN graph /\ order[j] \in DOMAIN graph
    BY DEF Planned
  <2>2. Level(layers, order[j]) < Level(layers, order[i])
    BY <1>4, <2>1, LevelsFall, Zenon DEF Planned, Falls
  <2>3. /\ Level(layers, order[i]) \in DOMAIN layers /\ Level(layers, order[i]) \in Nat \ {0}
        /\ order[i] \in layers[Level(layers, order[i])]
    BY <2>1, LevelIs, Zenon DEF Planned, AtLevel
  <2>4. /\ Level(layers, order[j]) \in DOMAIN layers /\ Level(layers, order[j]) \in Nat \ {0}
        /\ order[j] \in layers[Level(layers, order[j])]
    BY <2>1, LevelIs, Zenon DEF Planned, AtLevel
  <2>5. i < j => Level(layers, order[i]) <= Level(layers, order[j])
    BY <2>3, <2>4, Zenon DEF Planned, Sorted
  <2>6. i # j
    BY <2>2, <2>3
  <2>7. i \in Nat /\ j \in Nat /\ ~(i < j) /\ j > 0
    BY <2>2, <2>3, <2>4, <2>5
  <2> QED BY <2>6, <2>7
<1>5. n \in Nat /\ \A j \in 1 .. i - 1 : j \in 1 .. n
  BY DEF Planned
<1>6. /\ steps[i].dependencies = {j \in 1 .. n : order[j] \in graph[order[i]]}
      /\ steps[i].dependencies \in SUBSET (1 .. (i - 1))
  BY <1>2, <1>3, <1>4, <1>5
<1>7. layers = Tools!LayersOf(graph)
  BY Zenon DEF Planned
<1>8. steps[i].parallel <=> \E layer \in Tools!Fields(layers) :
                              order[i] \in layer /\ Cardinality(layer) > 1
  BY <1>2, <1>7, ToolsCount, Zenon
<1> QED BY <1>2, <1>6, <1>8 DEF PlanStep

\* The depth of a step is the layer of its upstream.
LEMMA PlanDepths ==
  ASSUME NEW fields, NEW graph, NEW layers, NEW order, NEW steps, NEW n,
         Planned(fields, graph, layers, order, steps, n)
  PROVE  LET depths == Tools!CalculateStepDepths(steps)
         IN /\ DOMAIN depths = 1 .. n
            /\ \A i \in 1 .. n : depths[i] = Level(layers, order[i]) - 1 /\ depths[i] \in Nat
<1> DEFINE t == [i \in 1 .. n |-> Level(layers, order[i]) - 1]
<1>1. n \in Nat /\ DOMAIN steps = 1 .. n
  BY Zenon DEF Planned
<1>2. \A i \in 1 .. n : t[i] = Level(layers, order[i]) - 1
  OBVIOUS
<1> HIDE DEF t
<1>3. ASSUME NEW i \in 1 .. n
      PROVE  order[i] \in DOMAIN graph /\ Level(layers, order[i]) \in Nat \ {0}
  <2>1. order[i] \in DOMAIN graph
    BY DEF Planned
  <2> QED BY <2>1, LevelIs, Zenon DEF Planned, AtLevel
<1>4. ASSUME NEW i \in 1 .. n
      PROVE  /\ steps[i].dependencies \in SUBSET (1 .. (i - 1)) /\ t[i] \in Nat
             /\ steps[i].dependencies = {} <=> t[i] = 0
             /\ \A d \in steps[i].dependencies : t[d] < t[i]
             /\ t[i] # 0 => \E d \in steps[i].dependencies : t[d] = t[i] - 1
  <2> DEFINE deps == steps[i].dependencies
             l(k) == Level(layers, order[k])
  <2>1. deps = {j \in 1 .. n : order[j] \in graph[order[i]]} /\ deps \in SUBSET (1 .. (i - 1))
    <3>1. PlanStep(fields, graph, layers, order, steps, n, i)
      BY StepIs, Zenon
    <3> QED BY <3>1, Zenon DEF PlanStep
  <2>2. /\ \A v \in graph[order[i]] : v \in DOMAIN graph /\ Level(layers, v) < l(i)
        /\ graph[order[i]] = {} <=> l(i) = 1
        /\ l(i) # 1 => \E v \in graph[order[i]] : Level(layers, v) = l(i) - 1
    <3> DEFINE u == order[i]
    <3>1. u \in DOMAIN graph
      BY <1>3
    <3> HIDE DEF u
    <3>2. Falls(graph, layers, u)
      BY <3>1, LevelsFall, Zenon DEF Planned
    <3> QED BY <3>2, Zenon DEF u, Falls
  <2>3. \A v \in graph[order[i]] : \E j \in deps : order[j] = v
    <3>1. \A u \in DOMAIN graph : \E j \in 1 .. n : order[j] = u
      BY Zenon DEF Planned
    <3> HIDE DEF deps
    <3> QED BY <2>1, <2>2, <3>1
  <2>4. \A d \in deps : d \in 1 .. n /\ order[d] \in graph[order[i]]
    BY <2>1
  <2>5. t[i] = l(i) - 1 /\ l(i) \in Nat \ {0}
    BY <1>2, <1>3
  <2> HIDE DEF deps
  <2>6. \A d \in deps : t[d] = l(d) - 1 /\ l(d) \in Nat \ {0} /\ l(d) < l(i)
    BY <1>2, <1>3, <2>2, <2>4, Zenon
  <2> HIDE DEF l
  <2>7. t[i] \in Nat /\ \A d \in deps : t[d] < t[i]
    BY <2>5, <2>6
  <2>8. deps = {} <=> t[i] = 0
    <3>1. deps = {} <=> graph[order[i]] = {}
      BY <2>3, <2>4, Zenon
    <3>2. t[i] = 0 <=> l(i) = 1
      BY <2>5
    <3> QED BY <2>2, <3>1, <3>2, Zenon
  <2>9. ASSUME t[i] # 0 PROVE \E d \in deps : t[d] = t[i] - 1
    <3>1. l(i) # 1
      BY <2>5, <2>9
    <3>2. PICK v \in graph[order[i]] : Level(layers, v) = l(i) - 1
      BY <2>2, <3>1
    <3>3. PICK d \in deps : order[d] = v
      BY <2>3
    <3>4. l(d) = l(i) - 1
      BY <3>2, <3>3 DEF l
    <3>5. t[d] = t[i] - 1
      BY <2>5, <2>6, <3>4
    <3> QED BY <3>5
  <2> QED BY <2>1, <2>7, <2>8, <2>9, Zenon DEF deps
<1>5. Deepens(steps, t)
  BY <1>1, <1>4, Zenon DEF Deepens
<1>6. Tools!CalculateStepDepths(steps) = DepthsOf(n, t)
  BY <1>1, <1>5, DepthsAre, Zenon
<1>7. DOMAIN DepthsOf(n, t) = 1 .. n /\ \A i \in 1 .. n : DepthsOf(n, t)[i] = t[i]
  BY Zenon DEF DepthsOf
<1>8. \A i \in 1 .. n : t[i] \in Nat
  BY <1>4
<1> QED BY <1>2, <1>6, <1>7, <1>8, Zenon

\* A layer has another upstream if it has more than one.
LEMMA NotAlone ==
  ASSUME NEW S, IsFiniteSet(S), NEW u \in S
  PROVE  Cardinality(S) > 1 <=> \E v \in S : v # u
<1>1. IsFiniteSet(S \ {u}) /\ Cardinality(S \ {u}) = Cardinality(S) - 1
  BY FS_RemoveElement, Zenon
<1>2. Cardinality(S) \in Nat /\ Cardinality(S \ {u}) \in Nat
  BY <1>1, FS_CardinalityType, Zenon
<1>3. Cardinality(S \ {u}) = 0 <=> S \ {u} = {}
  BY <1>1, FS_EmptySet, Zenon
<1>4. Cardinality(S) > 1 <=> Cardinality(S \ {u}) # 0
  BY <1>1, <1>2
<1> QED BY <1>3, <1>4

\* Some steps have each depth up to the largest, and no step has another one.
LEMMA DepthsCover ==
  ASSUME NEW n \in Nat, NEW steps, DOMAIN steps = 1 .. n,
         DOMAIN Tools!CalculateStepDepths(steps) = 1 .. n,
         \A i \in 1 .. n : Tools!CalculateStepDepths(steps)[i] \in Nat
  PROVE  UNION {Tools!StepsAtDepth(steps, d) : d \in 0 .. Tools!MaxDepth(steps)} = DOMAIN steps
<1> DEFINE depths == Tools!CalculateStepDepths(steps)
           all == Tools!Fields(depths) \cup {0}
           max == CHOOSE m \in all : \A k \in all : k <= m
<1>1. Tools!MaxDepth(steps) = max
  BY Zenon DEF Tools!MaxDepth
<1>2. \A d : Tools!StepsAtDepth(steps, d) = {i \in DOMAIN steps : depths[i] = d}
  BY Zenon DEF Tools!StepsAtDepth
<1>3. all = {depths[i] : i \in 1 .. n} \cup {0}
  BY Zenon DEF Tools!Fields
<1> HIDE DEF depths, all
<1>4. all \in SUBSET Nat /\ 0 \in all /\ \A i \in 1 .. n : depths[i] \in all /\ depths[i] \in Nat
  BY <1>3 DEF depths
<1>5. \E m \in all : \A k \in all : k <= m
  <2> DEFINE f == [i \in 1 .. n |-> depths[i]]
  <2>1. f \in [1 .. n -> Int] /\ \A i \in 1 .. n : f[i] = depths[i]
    <3>1. \A i \in 1 .. n : depths[i] \in Int
      BY <1>4
    <3> QED BY <3>1
  <2>2. CASE n = 0
    <3>1. \A k \in all : k <= 0
      BY <1>3, <2>2
    <3> QED BY <1>4, <3>1
  <2>3. CASE n # 0
    <3>1. 1 .. n # {} /\ 1 .. n \in SUBSET (1 .. n)
      BY <2>3
    <3> HIDE DEF f
    <3>2. PICK m \in 1 .. n : \A j \in 1 .. n : f[j] <= f[m]
      BY <2>1, <3>1, GreatestOf, Zenon
    <3>3. depths[m] \in Nat /\ \A j \in 1 .. n : depths[j] <= depths[m]
      BY <1>4, <2>1, <3>2
    <3>4. \A k \in all : k <= depths[m]
      BY <1>3, <3>3
    <3> QED BY <1>4, <3>4
  <2> QED BY <2>2, <2>3
<1>6. max \in all /\ \A k \in all : k <= max
  BY <1>5, Zenon
<1> HIDE DEF max
<1>7. max \in Nat /\ \A i \in 1 .. n : depths[i] \in 0 .. max
  <2>1. max \in Nat /\ \A i \in 1 .. n : depths[i] <= max /\ depths[i] \in Nat
    BY <1>4, <1>6, Zenon
  <2> QED BY <2>1
<1>8. ASSUME NEW i \in DOMAIN steps
      PROVE  i \in UNION {Tools!StepsAtDepth(steps, d) : d \in 0 .. max}
  <2>1. depths[i] \in 0 .. max /\ i \in Tools!StepsAtDepth(steps, depths[i])
    BY <1>2, <1>7
  <2> QED BY <2>1
<1>9. ASSUME NEW i \in UNION {Tools!StepsAtDepth(steps, d) : d \in 0 .. max}
      PROVE  i \in DOMAIN steps
  <2>1. PICK d \in 0 .. max : i \in Tools!StepsAtDepth(steps, d)
    BY <1>9
  <2> QED BY <1>2, <2>1
<1> QED BY <1>1, <1>8, <1>9

\* Of the steps of a plan, what each has, needs and goes together with.
LEMMA PlanOrdered ==
  ASSUME NEW fields, NEW graph, NEW layers, NEW order, NEW steps, NEW n,
         Planned(fields, graph, layers, order, steps, n)
  PROVE  Tools!IsOrdered(fields, steps, Tools!CalculateStepDepths(steps))
<1> DEFINE depths == Tools!CalculateStepDepths(steps)
           names == Tools!Upstreams(fields)
           StepOf(u) == CHOOSE i \in DOMAIN steps : steps[i].upstream = u
<1>1. /\ n = Cardinality(names) /\ n \in Nat /\ DOMAIN graph = names
      /\ DOMAIN steps = 1 .. n /\ Len(steps) = n
      /\ \A u \in names : \A v : v \in graph[u] <=> Tools!Needs(fields, u, v)
      /\ \A i \in 1 .. n : order[i] \in names
      /\ \A i, j \in 1 .. n : order[i] = order[j] => i = j
      /\ \A u \in names : \E i \in 1 .. n : order[i] = u
  <2>1. order \in [1 .. n -> DOMAIN graph] /\ DOMAIN graph = names
    BY Zenon DEF Planned
  <2>2. \A i \in 1 .. n : order[i] \in names
    BY <2>1
  <2> QED BY <2>1, <2>2, Zenon DEF Planned
<1>2. /\ DOMAIN depths = 1 .. n
      /\ \A i \in 1 .. n : depths[i] = Level(layers, order[i]) - 1 /\ depths[i] \in Nat
  BY PlanDepths, Zenon
<1>3. UNION {Tools!StepsAtDepth(steps, d) : d \in 0 .. Tools!MaxDepth(steps)} = DOMAIN steps
  <2>1. \A i \in 1 .. n : depths[i] \in Nat
    BY <1>2
  <2> QED BY <1>1, <1>2, <2>1, DepthsCover, Zenon
<1> HIDE DEF depths, names
<1>4. ASSUME NEW i \in 1 .. n PROVE PlanStep(fields, graph, layers, order, steps, n, i)
  BY StepIs, Zenon
<1>5. ASSUME NEW u \in names
      PROVE  /\ StepOf(u) \in 1 .. n /\ order[StepOf(u)] = u
             /\ steps[StepOf(u)].paths = Tools!Paths(Tools!GroupFields(fields, u))
  <2>1. PICK i \in 1 .. n : order[i] = u
    BY <1>1
  <2>2. i \in DOMAIN steps /\ steps[i].upstream = u
    BY <1>1, <1>4, <2>1, Zenon DEF PlanStep
  <2>3. StepOf(u) \in 1 .. n /\ steps[StepOf(u)].upstream = u
    BY <1>1, <2>2, Zenon
  <2> DEFINE p == StepOf(u)
  <2> HIDE DEF StepOf, p
  <2>4. p \in 1 .. n /\ steps[p].upstream = u
    BY <2>3 DEF p
  <2>5. order[p] = u /\ steps[p].paths = Tools!Paths(Tools!GroupFields(fields, order[p]))
    BY <1>4, <2>4, Zenon DEF PlanStep
  <2> QED BY <2>4, <2>5, Zenon DEF p
<1> HIDE DEF StepOf
<1>6. ASSUME NEW i \in 1 .. n
      PROVE  /\ Falls(graph, layers, order[i])
             /\ Level(layers, order[i]) \in Nat \ {0}
             /\ Level(layers, order[i]) \in DOMAIN layers
             /\ \A k \in DOMAIN layers : order[i] \in layers[k] <=> k = Level(layers, order[i])
  <2> DEFINE u == order[i]
  <2>1. u \in DOMAIN graph
    BY <1>1
  <2> HIDE DEF u
  <2>2. Falls(graph, layers, u)
    BY <2>1, LevelsFall, Zenon DEF Planned
  <2>3. /\ Level(layers, u) \in DOMAIN layers /\ Level(layers, u) \in Nat \ {0}
        /\ \A k \in DOMAIN layers : u \in layers[k] <=> k = Level(layers, u)
    <3>1. AtLevel(layers, u)
      BY <2>1, LevelIs, Zenon DEF Planned
    <3> QED BY <3>1, Zenon DEF AtLevel
  <2> QED BY <2>2, <2>3 DEF u
<1>7. ASSUME NEW i \in 1 .. n, NEW j \in 1 .. n, order[j] \in graph[order[i]]
      PROVE  j < i /\ j \in steps[i].dependencies /\ depths[j] < depths[i]
  <2>1. PlanStep(fields, graph, layers, order, steps, n, i)
    BY <1>4
  <2>2. j \in steps[i].dependencies /\ j \in 1 .. (i - 1)
    BY <1>7, <2>1 DEF PlanStep
  <2>3. Level(layers, order[j]) < Level(layers, order[i])
    BY <1>6, <1>7, Zenon DEF Falls
  <2>4. depths[j] < depths[i]
    BY <1>2, <1>6, <2>3
  <2>5. j < i
    BY <2>2
  <2> QED BY <2>2, <2>4, <2>5
<1>8. ASSUME NEW u \in names, NEW v \in names, Tools!Needs(fields, u, v)
      PROVE  /\ StepOf(v) < StepOf(u) /\ StepOf(v) \in steps[StepOf(u)].dependencies
             /\ depths[StepOf(v)] < depths[StepOf(u)]
  <2>1. v \in graph[u]
    BY <1>1, <1>8, Zenon
  <2>2. /\ StepOf(u) \in 1 .. n /\ order[StepOf(u)] = u
        /\ StepOf(v) \in 1 .. n /\ order[StepOf(v)] = v
    BY <1>5
  <2>3. order[StepOf(v)] \in graph[order[StepOf(u)]]
    BY <2>1, <2>2, Zenon
  <2> QED BY <1>7, <2>2, <2>3, Zenon
<1>9. ASSUME NEW i \in DOMAIN steps, NEW d \in steps[i].dependencies
      PROVE  Tools!Needs(fields, steps[i].upstream, steps[d].upstream)
  <2>1. i \in 1 .. n /\ PlanStep(fields, graph, layers, order, steps, n, i)
    BY <1>1, <1>4, Zenon
  <2>2. d \in 1 .. n /\ order[d] \in graph[order[i]]
    BY <2>1 DEF PlanStep
  <2>3. steps[i].upstream = order[i] /\ steps[d].upstream = order[d]
    BY <1>4, <2>1, <2>2, Zenon DEF PlanStep
  <2> QED BY <1>1, <2>1, <2>2, <2>3, Zenon
<1>10. ASSUME NEW i \in DOMAIN steps, depths[i] # 0
       PROVE  \E d \in steps[i].dependencies : depths[d] = depths[i] - 1
  <2>1. i \in 1 .. n /\ PlanStep(fields, graph, layers, order, steps, n, i)
    BY <1>1, <1>4, Zenon
  <2>2. Level(layers, order[i]) # 1 /\ depths[i] = Level(layers, order[i]) - 1
    BY <1>2, <1>6, <1>10, <2>1
  <2>3. PICK v \in graph[order[i]] : Level(layers, v) = Level(layers, order[i]) - 1
    BY <1>6, <2>1, <2>2, Zenon DEF Falls
  <2>4. v \in names
    BY <1>1, <1>6, <2>1, Zenon DEF Falls
  <2>5. PICK d \in 1 .. n : order[d] = v
    BY <1>1, <2>4
  <2>6. d \in steps[i].dependencies
    BY <2>1, <2>5 DEF PlanStep
  <2>7. depths[d] = Level(layers, v) - 1
    BY <1>2, <2>5, Zenon
  <2>8. depths[d] = depths[i] - 1
    BY <2>2, <2>3, <2>7, Zenon
  <2> QED BY <2>6, <2>8
<1>11. ASSUME NEW i \in DOMAIN steps
       PROVE  steps[i].parallel <=> \E j \in DOMAIN steps \ {i} : depths[j] = depths[i]
  <2> DEFINE k == Level(layers, order[i])
             layer == layers[k]
  <2>1. i \in 1 .. n /\ PlanStep(fields, graph, layers, order, steps, n, i)
    BY <1>1, <1>4, Zenon
  <2>2. k \in DOMAIN layers /\ k \in Nat \ {0} /\ order[i] \in layer
        /\ \A p \in DOMAIN layers : order[i] \in layers[p] => p = k
    BY <1>6, <2>1, Zenon
  <2>3. steps[i].parallel <=> Cardinality(layer) > 1
    <3>1. steps[i].parallel <=> \E l \in Tools!Fields(layers) : order[i] \in l /\ Cardinality(l) > 1
      BY <2>1, Zenon DEF PlanStep
    <3>2. \A l \in Tools!Fields(layers) : order[i] \in l <=> l = layer
      BY <2>2, Zenon DEF Tools!Fields
    <3>3. layer \in Tools!Fields(layers)
      BY <2>2, Zenon DEF Tools!Fields
    <3> HIDE DEF layer
    <3> QED BY <3>1, <3>2, <3>3, Zenon
  <2>4. layer \in SUBSET names /\ IsFiniteSet(layer)
    <3>1. layers \in Seq(SUBSET DOMAIN graph) /\ IsFiniteSet(DOMAIN graph)
      BY Zenon DEF Planned, IsGraph
    <3>2. layer \in SUBSET DOMAIN graph
      BY <2>2, <3>1
    <3> QED BY <1>1, <3>1, <3>2, FS_Subset, Zenon
  <2>5. Cardinality(layer) > 1 <=> \E v \in layer : v # order[i]
    BY <2>2, <2>4, NotAlone, Zenon
  <2>6. ASSUME NEW j \in 1 .. n PROVE order[j] \in layer <=> depths[j] = depths[i]
    <3>1. order[j] \in layer <=> Level(layers, order[j]) = k
      BY <1>6, <2>2, Zenon
    <3>2. /\ depths[j] = Level(layers, order[j]) - 1 /\ Level(layers, order[j]) \in Nat \ {0}
          /\ depths[i] = k - 1
      BY <1>2, <1>6, <2>1
    <3> HIDE DEF k, layer
    <3> QED BY <2>2, <3>1, <3>2
  <2> HIDE DEF layer, k
  <2>7. (\E v \in layer : v # order[i]) <=> \E j \in DOMAIN steps \ {i} : depths[j] = depths[i]
    <3>1. ASSUME NEW v \in layer, v # order[i]
          PROVE  \E j \in DOMAIN steps \ {i} : depths[j] = depths[i]
      <4>1. PICK j \in 1 .. n : order[j] = v
        BY <1>1, <2>4, Zenon
      <4>2. j # i /\ depths[j] = depths[i]
        BY <2>6, <3>1, <4>1, Zenon
      <4> QED BY <1>1, <4>2
    <3>2. ASSUME NEW j \in DOMAIN steps \ {i}, depths[j] = depths[i]
          PROVE  \E v \in layer : v # order[i]
      <4>1. j \in 1 .. n /\ j # i
        BY <1>1
      <4>2. order[j] \in layer /\ order[j] # order[i]
        BY <1>1, <2>1, <2>6, <3>2, <4>1, Zenon
      <4> QED BY <4>2
    <3> QED BY <3>1, <3>2
  <2> QED BY <2>3, <2>5, <2>7
<1>12. Len(steps) = Tools!Cardinality(names)
  BY <1>1, ToolsCount, Zenon
<1> QED BY <1>3, <1>5, <1>8, <1>9, <1>10, <1>11, <1>12, Zenon
    DEF Tools!IsOrdered, StepOf, depths, names

\* There is a plan unless upstreams need each other in a cycle, and each is ordered.
LEMMA PlansHold ==
  ASSUME NEW fields \in Seq(PlanField)
  PROVE  Tools!PlansAreOrdered(fields)
<1> DEFINE graph == Tools!BuildDependencyGraph(fields)
<1>1. Tools!BuildPlans(fields) = {} <=> Tools!TopologicalSort(graph) = {}
  BY Zenon DEF Tools!BuildPlans
<1>2. IsGraph(graph)
  BY GraphIs, Zenon
<1>3. Tools!Complete(graph, Tools!LayersOf(graph)) <=> ~Tools!IsCyclic(fields)
  BY CompleteUnlessCyclic, Zenon
<1> HIDE DEF graph
<1>4. Tools!TopologicalSort(graph) = {} <=> ~Tools!Complete(graph, Tools!LayersOf(graph))
  BY <1>2, OrderExists, Zenon
<1>5. Tools!BuildPlans(fields) = {} <=> Tools!IsCyclic(fields)
  BY <1>1, <1>3, <1>4, Zenon
<1>6. ASSUME NEW steps \in Tools!BuildPlans(fields)
      PROVE  Tools!IsOrdered(fields, steps, Tools!CalculateStepDepths(steps))
  BY PlanIs, PlanOrdered, Zenon
<1> QED BY <1>5, <1>6, Zenon DEF Tools!PlansAreOrdered

-----------------------------------------------------------------------------
(* The router *)

\* The first of a sequence that fits, if any.
LEMMA FirstIs ==
  ASSUME NEW n \in Nat, NEW fit
  PROVE  LET I == {i \in 1 .. n : fit[i]}
         IN I # {} => /\ Chain!Min(I) \in 1 .. n /\ fit[Chain!Min(I)]
                      /\ \A j \in 1 .. n : fit[j] => Chain!Min(I) <= j
<1> DEFINE I == {i \in 1 .. n : fit[i]}
<1> SUFFICES ASSUME I # {}
             PROVE  /\ Chain!Min(I) \in 1 .. n /\ fit[Chain!Min(I)]
                    /\ \A j \in 1 .. n : fit[j] => Chain!Min(I) <= j
  OBVIOUS
<1>1. I \in SUBSET Nat
  OBVIOUS
<1>2. Chain!Min(I) = Tools!Min(I)
  BY Zenon DEF Chain!Min, Tools!Min
<1>3. Tools!Min(I) \in I /\ \A y \in I : Tools!Min(I) =< y
  <2> HIDE DEF I
  <2> QED BY <1>1, LeastIn, Zenon
<1> DEFINE m == Chain!Min(I)
<1>4. m \in I /\ \A y \in I : m =< y
  BY <1>2, <1>3, Zenon
<1> HIDE DEF m
<1>5. m \in 1 .. n /\ fit[m] /\ \A j \in 1 .. n : fit[j] => m <= j
  BY <1>4
<1> QED BY <1>5 DEF m

\* A sorted order of prefixes has all of them.
LEMMA PrefixesAre ==
  ASSUME NEW upstreams, IsFiniteSet(DOMAIN upstreams),
         NEW order \in Chain!SortedPrefixes(upstreams)
  PROVE  /\ order \in Seq(DOMAIN upstreams)
         /\ \A prefix \in DOMAIN upstreams : \E i \in 1 .. Len(order) : order[i] = prefix
         /\ \A i, j \in 1 .. Len(order) : i < j => Len(order[i]) >= Len(order[j])
<1> DEFINE S == DOMAIN upstreams
           n == Cardinality(S)
           Seqs == {f \in [1 .. n -> S] : \A i, j \in 1 .. n : i # j => f[i] # f[j]}
<1>1. n \in Nat
  BY FS_CardinalityType, Zenon
<1>2. Chain!Cardinality(S) = n
  BY Zenon DEF Chain!Cardinality, Cardinality
<1>3. order \in Chain!SetToSeqs(S)
      /\ \A i, j \in DOMAIN order : i < j => Len(order[i]) >= Len(order[j])
  BY Zenon DEF Chain!SortedPrefixes
<1>4. order \in Seqs
  BY <1>2, <1>3, Zenon DEF Chain!SetToSeqs
<1>5. Seqs = Bijection(1 .. n, S)
  BY DistinctAre, Zenon
<1>6. order \in [1 .. n -> S] /\ \A u \in S : \E i \in 1 .. n : order[i] = u
  <2> HIDE DEF n, S, Seqs
  <2> QED BY <1>4, <1>5, Zenon DEF Bijection, Surjection
<1> HIDE DEF S, n, Seqs
<1>7. order \in Seq(S) /\ Len(order) = n /\ DOMAIN order = 1 .. n
  BY <1>1, <1>6
<1> QED BY <1>3, <1>6, <1>7, Zenon DEF S

\* The upstream of the longest prefix.
LEMMA LongestIs ==
  ASSUME NEW upstreams, IsFiniteSet(DOMAIN upstreams), DOMAIN upstreams \subseteq Text,
         NEW order \in Chain!SortedPrefixes(upstreams), NEW path
  PROVE  LET fits == {prefix \in DOMAIN upstreams : Chain!IsPrefix(prefix, path)}
             upstream == Chain!UpstreamOf(upstreams, order, path)
         IN IF fits = {} THEN upstream = <<>>
            ELSE \E prefix \in fits : /\ upstream = upstreams[prefix]
                                      /\ \A other \in fits : Len(other) <= Len(prefix)
<1> DEFINE n == Len(order)
           fit == [i \in 1 .. n |-> Chain!IsPrefix(order[i], path)]
           J == {i \in 1 .. n : Chain!IsPrefix(order[i], path)}
           I == {i \in 1 .. n : fit[i]}
           i == IF J # {} THEN Chain!Min(J) ELSE 0
           fits == {prefix \in DOMAIN upstreams : Chain!IsPrefix(prefix, path)}
           upstream == Chain!UpstreamOf(upstreams, order, path)
<1>1. /\ order \in Seq(DOMAIN upstreams)
      /\ \A prefix \in DOMAIN upstreams : \E j \in 1 .. n : order[j] = prefix
      /\ \A j, k \in 1 .. n : j < k => Len(order[j]) >= Len(order[k])
  BY PrefixesAre, Zenon
<1>2. n \in Nat /\ \A j \in 1 .. n : order[j] \in DOMAIN upstreams
  BY <1>1
<1>3. upstream = IF i = 0 THEN <<>> ELSE upstreams[order[i]]
  BY Zenon DEF Chain!UpstreamOf, Chain!SelectInSeq
<1>4. I = J /\ \A j \in 1 .. n : fit[j] <=> Chain!IsPrefix(order[j], path)
  BY Zenon
<1>5. CASE fits = {}
  <2>1. J = {}
    BY <1>2, <1>5, Zenon
  <2>2. i = 0
    BY <2>1, Zenon
  <2> HIDE DEF i
  <2> QED BY <1>3, <1>5, <2>2, Zenon
<1>6. CASE fits # {}
  <2>1. J # {}
    BY <1>1, <1>6, Zenon
  <2>2. /\ i \in 1 .. n /\ fit[i]
        /\ \A j \in 1 .. n : fit[j] => i <= j
    <3>1. i = Chain!Min(I) /\ I # {}
      BY <1>4, <2>1, Zenon
    <3> HIDE DEF i, fit, n, J
    <3>2. /\ Chain!Min(I) \in 1 .. n /\ fit[Chain!Min(I)]
          /\ \A j \in 1 .. n : fit[j] => Chain!Min(I) <= j
      BY <1>2, <3>1, FirstIs, Zenon
    <3> HIDE DEF I
    <3> QED BY <3>1, <3>2
  <2> HIDE DEF i, J, I, fit
  <2>3. upstream = upstreams[order[i]]
    <3>1. i # 0
      BY <1>2, <2>2
    <3> QED BY <1>3, <3>1, Zenon
  <2>4. order[i] \in fits
    BY <1>2, <1>4, <2>2, Zenon
  <2>5. ASSUME NEW other \in fits PROVE Len(other) <= Len(order[i])
    <3>1. PICK j \in 1 .. n : order[j] = other
      BY <1>1
    <3>2. i <= j
      BY <1>4, <2>2, <3>1, Zenon
    <3>3. Len(order[i]) \in Nat /\ Len(other) \in Nat
      <4>1. order[i] \in Seq(STRING) /\ other \in Seq(STRING)
        BY <1>2, <2>2, Zenon DEF Text
      <4> QED BY <4>1
    <3>4. i < j \/ i = j
      BY <1>2, <2>2, <3>1, <3>2
    <3>5. i < j => Len(order[i]) >= Len(other)
      BY <1>1, <2>2, <3>1, Zenon
    <3>6. i = j => Len(order[i]) = Len(other)
      BY <3>1, Zenon
    <3> QED BY <3>3, <3>4, <3>5, <3>6
  <2>6. \E prefix \in fits : /\ upstream = upstreams[prefix]
                             /\ \A other \in fits : Len(other) <= Len(prefix)
    <3> HIDE DEF fits
    <3> QED BY <2>3, <2>4, <2>5, Zenon
  <2> QED BY <1>6, <2>6, Zenon
<1> QED BY <1>5, <1>6

\* A request goes to the longest prefix.
LEMMA RoutesHold ==
  ASSUME NEW config, NEW path, IsFiniteSet(DOMAIN config.upstreams),
         DOMAIN config.upstreams \subseteq Text
  PROVE  Chain!LongestPrefixWins(config, path)
<1> SUFFICES ASSUME NEW order \in Chain!SortedPrefixes(config.upstreams),
                    Chain!ClassifyRequest(config, order, path).type = "rest"
             PROVE  LET request == Chain!ClassifyRequest(config, order, path)
                        fits == {prefix \in DOMAIN config.upstreams :
                                   Chain!IsPrefix(prefix, request.path)}
                    IN /\ request.upstream = Chain!MatchUpstream(config, order, path)
                       /\ IF fits = {} THEN request.upstream = <<>>
                          ELSE \E prefix \in fits :
                                 /\ request.upstream = config.upstreams[prefix]
                                 /\ \A other \in fits : Len(other) <= Len(prefix)
  BY Zenon DEF Chain!LongestPrefixWins
<1> DEFINE request == Chain!ClassifyRequest(config, order, path)
           clean == Chain!Clean(path, config.rest)
           I == {i \in 1 .. Len(Chain!Kinds) : path = config[Chain!Kinds[i]]}
           i == IF I # {} THEN Chain!Min(I) ELSE 0
           rest == [type |-> "rest", path |-> clean,
                    upstream |-> Chain!UpstreamOf(config.upstreams, order, clean)]
           Admin == config.admin # <<>>
                      /\ (path = config.admin \/ Chain!IsPrefix(Append(config.admin, "/"), path))
           Rest == config.rest # <<>> /\ Chain!IsPrefix(config.rest, path)
<1>1. request = IF i # 0 THEN [type |-> Chain!Kinds[i]]
                ELSE IF Admin THEN [type |-> "admin"]
                ELSE IF Rest THEN rest ELSE [type |-> "unknown"]
  BY Zenon DEF Chain!ClassifyRequest, Chain!SelectInSeq
<1>2. i # 0 => i \in 1 .. 4
  <2> DEFINE fit == [j \in 1 .. 4 |-> path = config[Chain!Kinds[j]]]
  <2>1. Len(Chain!Kinds) = 4
    BY DEF Chain!Kinds
  <2>2. I = {j \in 1 .. 4 : fit[j]}
    BY <2>1, Zenon
  <2>3. i # 0 => I # {} /\ i = Chain!Min(I)
    OBVIOUS
  <2> HIDE DEF I, i, fit
  <2>4. 4 \in Nat
    OBVIOUS
  <2>5. {j \in 1 .. 4 : fit[j]} # {} => Chain!Min({j \in 1 .. 4 : fit[j]}) \in 1 .. 4
    BY <2>4, FirstIs, Zenon
  <2> QED BY <2>2, <2>3, <2>5, Zenon
<1>3. i # 0 => Chain!Kinds[i] # "rest"
  <2> HIDE DEF i
  <2> QED BY <1>2 DEF Chain!Kinds
<1> HIDE DEF i, I, Admin
<1>4. request = rest /\ Chain!IsPrefix(config.rest, path)
  <2>1. CASE i # 0
    <3>1. request = [type |-> Chain!Kinds[i]]
      BY <1>1, <2>1, Zenon
    <3>2. request.type = Chain!Kinds[i]
      BY <3>1
    <3> QED BY <1>3, <2>1, <3>2, Zenon
  <2>2. CASE i = 0 /\ Admin
    <3>1. request = [type |-> "admin"]
      BY <1>1, <2>2, Zenon
    <3>2. request.type = "admin"
      BY <3>1
    <3>3. "admin" # "rest"
      OBVIOUS
    <3> QED BY <3>2, <3>3, Zenon
  <2>3. CASE i = 0 /\ ~Admin /\ ~Rest
    <3>1. request = [type |-> "unknown"]
      BY <1>1, <2>3, Zenon
    <3>2. request.type = "unknown"
      BY <3>1
    <3>3. "unknown" # "rest"
      OBVIOUS
    <3> QED BY <3>2, <3>3, Zenon
  <2>4. CASE i = 0 /\ ~Admin /\ Rest
    BY <1>1, <2>4, Zenon
  <2> QED BY <2>1, <2>2, <2>3, <2>4
<1>5. request.path = clean /\ request.upstream = Chain!UpstreamOf(config.upstreams, order, clean)
  <2> HIDE DEF request, clean
  <2> QED BY <1>4
<1>6. Chain!MatchUpstream(config, order, path) = Chain!UpstreamOf(config.upstreams, order, clean)
  BY <1>4, Zenon DEF Chain!MatchUpstream
<1> HIDE DEF request, clean, rest
<1>7. LET fits == {prefix \in DOMAIN config.upstreams : Chain!IsPrefix(prefix, clean)}
          upstream == Chain!UpstreamOf(config.upstreams, order, clean)
      IN IF fits = {} THEN upstream = <<>>
         ELSE \E prefix \in fits : /\ upstream = config.upstreams[prefix]
                                   /\ \A other \in fits : Len(other) <= Len(prefix)
  BY LongestIs, Zenon
<1> QED BY <1>5, <1>6, <1>7, Zenon DEF request

-----------------------------------------------------------------------------
(* Tokens *)

\* The first claims replace the others, which stay where they are not replaced.
LEMMA ReplacingIs ==
  ASSUME NEW claims, NEW others
  PROVE  /\ DOMAIN Chain!Replacing(claims, others) = DOMAIN claims \cup DOMAIN others
         /\ \A name \in DOMAIN claims : Chain!Replacing(claims, others)[name] = claims[name]
BY Zenon DEF Chain!Replacing

LEMMA ReplacingAdds ==
  ASSUME NEW claims, NEW others, NEW name \in DOMAIN others, name \notin DOMAIN claims
  PROVE  Chain!Replacing(claims, others)[name] = others[name]
BY Zenon DEF Chain!Replacing

\* The claims of a new token.
Given(options) == {name \in {"iss", "aud", "sub"} : options[name] # ""}

\* The claims of a new token are the additional ones, those of the options and the expiry.
LEMMA ClaimsAre ==
  ASSUME NEW options, NEW additional, NEW now
  PROVE  LET claims == Chain!GenerateClaims(options, additional, now)
         IN /\ DOMAIN claims = DOMAIN additional \cup Given(options) \cup {"exp"}
            /\ \A name \in DOMAIN additional : claims[name] = additional[name]
            /\ \A name \in Given(options) \ DOMAIN additional :
                 claims[name] = <<"text", options[name]>>
            /\ "exp" \notin DOMAIN additional =>
                 claims["exp"] = <<"number", (now + options.expires) \div 2>>
<1> DEFINE given == Given(options)
           names == [name \in given |-> <<"text", options[name]>>]
           expiry == [exp |-> <<"number", (now + options.expires) \div 2>>]
           own == Chain!Replacing(names, expiry)
           claims == Chain!GenerateClaims(options, additional, now)
<1>1. claims = Chain!Replacing(additional, own)
  BY Zenon DEF Chain!GenerateClaims, Given
<1>2. /\ DOMAIN names = given /\ \A name \in given : names[name] = <<"text", options[name]>>
      /\ DOMAIN expiry = {"exp"} /\ expiry["exp"] = <<"number", (now + options.expires) \div 2>>
      /\ "exp" \notin given
  BY DEF Given
<1> HIDE DEF names, expiry, given
<1>3. /\ DOMAIN own = given \cup {"exp"}
      /\ \A name \in given : own[name] = <<"text", options[name]>>
      /\ own["exp"] = <<"number", (now + options.expires) \div 2>>
  <2>1. DOMAIN own = DOMAIN names \cup DOMAIN expiry
    BY ReplacingIs, Zenon
  <2>2. ASSUME NEW name \in given PROVE own[name] = <<"text", options[name]>>
    <3>1. name \in DOMAIN names
      BY <1>2, Zenon
    <3>2. own[name] = names[name]
      BY <3>1, ReplacingIs, Zenon
    <3> QED BY <1>2, <3>2, Zenon
  <2>3. "exp" \in DOMAIN expiry /\ "exp" \notin DOMAIN names
    BY <1>2, Zenon
  <2>4. own["exp"] = expiry["exp"]
    BY <2>3, ReplacingAdds, Zenon
  <2> QED BY <1>2, <2>1, <2>2, <2>4, Zenon
<1> HIDE DEF own, claims
<1>4. DOMAIN claims = DOMAIN additional \cup DOMAIN own
  BY <1>1, ReplacingIs, Zenon
<1>5. ASSUME NEW name \in DOMAIN additional PROVE claims[name] = additional[name]
  BY <1>1, <1>5, ReplacingIs, Zenon
<1>6. ASSUME NEW name \in DOMAIN own, name \notin DOMAIN additional
      PROVE  claims[name] = own[name]
  BY <1>1, <1>6, ReplacingAdds, Zenon
<1> QED BY <1>3, <1>4, <1>5, <1>6 DEF claims, given

\* What the command and the gateway look at.
TokenIs(token, claims) ==
  /\ token.alg = "HS256" /\ token.claims = claims
  /\ token.signature = Chain!Sign("HS256", "s", "HS256", claims)

\* Tokens are checked as they are made, whatever the options, claims and clocks.
LEMMA TokensHold ==
  ASSUME NEW config, NEW options, NEW additional, NEW made \in Int, NEW now \in Int,
         options.expires \in Int,
         "exp" \in DOMAIN additional /\ additional.exp[1] = "number" => additional.exp[2] \in Int,
         Chain!GenerateJWT("s", "HS256", Chain!GenerateClaims(options, additional, made)) # None
  PROVE  Chain!TokensAreChecked(config, options, additional, made, now)
<1> DEFINE plugin == Chain!CreateAuthMiddleware(config)
           claims == Chain!GenerateClaims(options, additional, made)
           token == Chain!GenerateJWT("s", "HS256", claims)
           last == 2 * ((made + options.expires) \div 2)
<1> SUFFICES ASSUME plugin # None, plugin.kind = "jwt"
             PROVE
     /\ (additional = <<>> /\ plugin.secret = "s" /\ "HS256" \in plugin.algorithms
           /\ plugin.issuer \in {"", options.iss} /\ plugin.audience \in {"", options.aud})
          => (Chain!Authenticate(plugin, token, now) <=> now <= last)
     /\ Chain!Authenticate(plugin, token, now) =>
          \/ Chain!ValidateJWT(token, plugin.secret, plugin.issuer, plugin.audience, now)
          \/ token.claims.aud[1] = "list"
     /\ \A other \in {"HS384", None}, some \in {additional, token.claims} :
          LET forged == [token EXCEPT !.alg = other, !.claims = some]
          IN forged # token => ~Chain!Authenticate(plugin, forged, now)
  BY Zenon DEF Chain!TokensAreChecked
<1>1. /\ DOMAIN claims = DOMAIN additional \cup Given(options) \cup {"exp"}
      /\ \A name \in DOMAIN additional : claims[name] = additional[name]
      /\ \A name \in Given(options) \ DOMAIN additional :
           claims[name] = <<"text", options[name]>>
      /\ "exp" \notin DOMAIN additional =>
           claims["exp"] = <<"number", (made + options.expires) \div 2>>
  BY ClaimsAre, Zenon
<1> HIDE DEF claims
<1>2. token = [alg |-> "HS256", claims |-> claims,
               signature |-> Chain!Sign("HS256", "s", "HS256", claims)]
  BY DEF Chain!GenerateJWT
<1>3. TokenIs(token, claims)
  BY <1>2 DEF TokenIs
<1>4. token # None
  BY DEF claims
<1> DEFINE t == token
<1>5. t = token /\ t # None /\ TokenIs(t, claims)
  BY <1>3, <1>4, Zenon
<1> HIDE DEF t, plugin
<1>6. \A x : Chain!Authenticate(plugin, x, now) <=> x # None /\ Chain!ValidateToken(plugin, x, now)
  BY Zenon DEF Chain!Authenticate
<1>7. ASSUME additional = <<>>, plugin.secret = "s", "HS256" \in plugin.algorithms,
             plugin.issuer \in {"", options.iss}, plugin.audience \in {"", options.aud}
      PROVE  Chain!Authenticate(plugin, t, now) <=> now <= last
  <2>1. DOMAIN additional = {}
    <3>1. additional = <<>>
      BY <1>7, Zenon
    <3> QED BY <3>1, SMT
  <2>2. /\ DOMAIN claims = Given(options) \cup {"exp"}
        /\ \A name \in Given(options) : claims[name] = <<"text", options[name]>>
        /\ claims["exp"] = <<"number", (made + options.expires) \div 2>>
    BY <1>1, <2>1, Zenon
  <2>3. Chain!VerifySignature(plugin, t) /\ t.alg \in plugin.algorithms
    BY <1>5, <1>7, Zenon DEF Chain!VerifySignature, Chain!Hashes, TokenIs
  <2>4. Chain!ValidateExpiration(claims, now) <=> now <= last
    <3>1. "exp" \in DOMAIN claims /\ "nbf" \notin DOMAIN claims
      BY <2>2 DEF Given
    <3>2. claims["exp"][1] = "number" /\ 2 * claims["exp"][2] = last
      BY <2>2
    <3> QED BY <3>1, <3>2 DEF Chain!ValidateExpiration
  <2>5. ASSUME NEW name \in {"iss", "aud"}, NEW text, text \in {"", options[name]}, text # ""
        PROVE  Chain!Has(claims, name, text)
    <3>1. name \in Given(options) /\ text = options[name]
      BY <2>5 DEF Given
    <3> QED BY <2>2, <3>1, Zenon DEF Chain!Has
  <2>6. plugin.issuer # "" => Chain!Has(claims, "iss", plugin.issuer)
    BY <1>7, <2>5, Zenon
  <2>7. plugin.audience # "" => Chain!ValidateAudience(claims, plugin.audience)
    BY <1>7, <2>5, Zenon DEF Chain!ValidateAudience, Chain!Has
  <2> QED BY <1>5, <1>6, <2>3, <2>4, <2>6, <2>7, Zenon DEF Chain!ValidateToken, TokenIs
<1>8. ASSUME Chain!Authenticate(plugin, t, now), ~(t.claims.aud[1] = "list")
      PROVE  Chain!ValidateJWT(t, plugin.secret, plugin.issuer, plugin.audience, now)
  <2>1. Chain!ValidateToken(plugin, t, now)
    BY <1>6, <1>8, Zenon
  <2>2. t.alg = "HS256" /\ t.claims = claims
    BY <1>5, Zenon DEF TokenIs
  <2>3. t.alg # None
    BY <2>2, NoneAssumption, Zenon DEF NoneAssumption
  <2>4. t.signature = Chain!Sign("HS256", plugin.secret, t.alg, claims)
    BY <2>1, <2>2, Zenon DEF Chain!ValidateToken, Chain!VerifySignature
  <2>5. ASSUME "exp" \in DOMAIN claims, claims.exp[1] = "number"
        PROVE  now \div 2 <= claims.exp[2]
    <3>1. now <= 2 * claims.exp[2]
      BY <2>1, <2>2, <2>5, Zenon DEF Chain!ValidateToken, Chain!ValidateExpiration
    <3>2. claims.exp[2] \in Int
      <4>1. CASE "exp" \in DOMAIN additional
        <5>1. claims.exp = additional.exp
          BY <1>1, <4>1
        <5> QED BY <2>5, <4>1, <5>1
      <4>2. CASE "exp" \notin DOMAIN additional
        <5>1. claims.exp = <<"number", (made + options.expires) \div 2>>
          BY <1>1, <4>2
        <5> QED BY <5>1
      <4> QED BY <4>1, <4>2
    <3> QED BY <3>1, <3>2
  <2>6. plugin.issuer # "" => Chain!Has(claims, "iss", plugin.issuer)
    BY <2>1, <2>2, Zenon DEF Chain!ValidateToken
  <2>7. plugin.audience # "" => Chain!Has(claims, "aud", plugin.audience)
    BY <1>8, <2>1, <2>2, Zenon DEF Chain!ValidateToken, Chain!ValidateAudience
  <2> QED BY <2>2, <2>3, <2>4, <2>5, <2>6, <2>7, Zenon DEF Chain!ValidateJWT
<1>9. ASSUME NEW other \in {"HS384", None}, NEW some \in {additional, t.claims},
             Chain!Authenticate(plugin, [t EXCEPT !.alg = other, !.claims = some], now)
      PROVE  FALSE
  <2> DEFINE forged == [t EXCEPT !.alg = other, !.claims = some]
  <2>1. Chain!ValidateToken(plugin, forged, now)
    BY <1>6, <1>9, Zenon
  <2>2. forged.alg = other /\ forged.signature = Chain!Sign("HS256", "s", "HS256", claims)
    <3>1. t = [alg |-> "HS256", claims |-> claims,
               signature |-> Chain!Sign("HS256", "s", "HS256", claims)]
      BY <1>2 DEF t
    <3> QED BY <3>1
  <2> HIDE DEF forged
  <2>3. other \in Chain!Hashes /\ forged.signature = Chain!Sign(other, plugin.secret, other, forged.claims)
    BY <2>1, <2>2, Zenon DEF Chain!ValidateToken, Chain!VerifySignature
  <2>4. other # "HS256" /\ other = "HS256"
    <3>1. other # "HS256"
      BY NoneAssumption
    <3>2. other = "HS256"
      BY <2>2, <2>3 DEF Chain!Sign
    <3> QED BY <3>1, <3>2
  <2> QED BY <2>4
<1> QED BY <1>5, <1>7, <1>8, <1>9, Zenon

-----------------------------------------------------------------------------
(* The layers *)

\* The places from j to k that are marked.
Marked(fit, j, k) == {i \in j .. k : fit[i]}

\* Counting marked places: none at first, then one place more.
LEMMA MarkedNone ==
  ASSUME NEW fit, NEW j \in Int, NEW k \in Int, k < j
  PROVE  Cardinality(Marked(fit, j, k)) = 0
<1>1. Marked(fit, j, k) = {}
  BY DEF Marked
<1> QED BY <1>1, FS_EmptySet, Zenon

LEMMA MarkedGrow ==
  ASSUME NEW fit, NEW j \in Int, NEW k \in Int, j <= k + 1
  PROVE  LET n == Cardinality(Marked(fit, j, k))
         IN n \in Nat /\ Cardinality(Marked(fit, j, k + 1)) = IF fit[k + 1] THEN n + 1 ELSE n
<1> DEFINE now == Marked(fit, j, k)
<1>1. IsFiniteSet(now)
  <2>1. now \subseteq j .. k
    BY DEF Marked
  <2>2. IsFiniteSet(j .. k)
    BY FS_Interval, Zenon
  <2> QED BY <2>1, <2>2, FS_Subset, Zenon
<1>2. Cardinality(now) \in Nat
  BY <1>1, FS_CardinalityType, Zenon
<1>3. CASE fit[k + 1]
  <2>1. Marked(fit, j, k + 1) = now \cup {k + 1} /\ k + 1 \notin now
    BY <1>3 DEF Marked
  <2> HIDE DEF now
  <2>2. Cardinality(now \cup {k + 1}) = Cardinality(now) + 1
    BY <1>1, <2>1, FS_AddElement, Zenon
  <2> QED BY <1>2, <1>3, <2>1, <2>2 DEF now
<1>4. CASE ~fit[k + 1]
  <2>1. Marked(fit, j, k + 1) = now
    BY <1>4 DEF Marked
  <2> QED BY <1>2, <1>4, <2>1, Zenon
<1> QED BY <1>3, <1>4

\* The layers that refuse a request.
NoKey(config, q) == "auth" \in config.enabled /\ ~q.known
Open(config, q, s) == "breaker" \in config.enabled /\ s.failures[q.path] >= config.threshold
Dry(config, s) == "limit" \in config.enabled /\ s.tokens = 0

Answer(config, q, s) ==
  IF NoKey(config, q) THEN "unauthorized"
  ELSE IF Open(config, q, s) THEN "unavailable"
  ELSE IF Dry(config, s) THEN "limited" ELSE q.outcome

\* What the layers do about a request.
After(config, q, s) ==
  LET answer == Answer(config, q, s)
  IN [tokens |-> IF /\ "limit" \in config.enabled
                    /\ ~NoKey(config, q) /\ ~Open(config, q, s) /\ ~Dry(config, s)
                   THEN s.tokens - 1 ELSE s.tokens,
      failures |-> IF "breaker" \in config.enabled /\ ~NoKey(config, q) /\ ~Open(config, q, s)
                     THEN [s.failures EXCEPT ![q.path] = Chain!Record(@, answer)]
                     ELSE s.failures]

\* A least member is the minimum.
LEMMA LeastIs ==
  ASSUME NEW s \in SUBSET Nat, NEW m \in s, \A y \in s : m <= y
  PROVE  Chain!Min(s) = m
<1> DEFINE x == Chain!Min(s)
<1>1. Chain!Min(s) = Tools!Min(s)
  BY Zenon DEF Chain!Min, Tools!Min
<1>2. Tools!Min(s) \in s /\ \A y \in s : Tools!Min(s) =< y
  BY LeastIn, Zenon
<1>3. x \in s /\ \A y \in s : x =< y
  BY <1>1, <1>2, Zenon
<1> HIDE DEF x
<1>4. x = m
  <2>1. x <= m /\ m <= x /\ x \in Nat /\ m \in Nat
    BY <1>3
  <2> QED BY <2>1
<1> QED BY <1>4 DEF x

\* What serving one request does, layer by layer.
LEMMA ServeIs ==
  ASSUME NEW config, NEW q, NEW s
  PROVE  Chain!Serve(config, q, s) = [answer |-> Answer(config, q, s), state |-> After(config, q, s)]
<1> DEFINE on == {i \in DOMAIN Chain!Layers : Chain!Layers[i] \in Chain!Enabled(config)}
           refusing == {i \in on : Chain!Refuses(Chain!Layers[i], config, q, s)}
           last == IF refusing = {} THEN Len(Chain!Layers) + 1 ELSE Chain!Min(refusing)
           answer == IF refusing = {} THEN q.outcome ELSE Chain!Refusal[Chain!Layers[last]]
           Passed(layer) == \E i \in on : i < last /\ Chain!Layers[i] = layer
<1>1. Chain!Serve(config, q, s) =
        [answer |-> answer,
         state |-> [tokens |-> IF Passed("limit") THEN s.tokens - 1 ELSE s.tokens,
                    failures |-> IF Passed("breaker")
                                   THEN [s.failures EXCEPT ![q.path] = Chain!Record(@, answer)]
                                   ELSE s.failures]]
  BY Zenon DEF Chain!Serve
<1>2. /\ DOMAIN Chain!Layers = 1 .. 6 /\ Len(Chain!Layers) = 6
      /\ \A i \in 1 .. 6 : /\ Chain!Layers[i] = "auth" <=> i = 3
                           /\ Chain!Layers[i] = "breaker" <=> i = 5
                           /\ Chain!Layers[i] = "limit" <=> i = 6
  BY DEF Chain!Layers
<1>3. /\ "auth" \in Chain!Enabled(config) <=> "auth" \in config.enabled
      /\ "breaker" \in Chain!Enabled(config) <=> "breaker" \in config.enabled
      /\ "limit" \in Chain!Enabled(config) <=> "limit" \in config.enabled
  BY DEF Chain!Enabled
<1>4. /\ 3 \in on <=> "auth" \in config.enabled
      /\ 5 \in on <=> "breaker" \in config.enabled
      /\ 6 \in on <=> "limit" \in config.enabled
      /\ on \subseteq 1 .. 6
  BY <1>2, <1>3
<1>5. \A i : i \in refusing <=> \/ i = 3 /\ NoKey(config, q)
                                \/ i = 5 /\ Open(config, q, s)
                                \/ i = 6 /\ Dry(config, s)
  <2>1. ASSUME NEW i \in on
        PROVE  i \in refusing <=> \/ i = 3 /\ NoKey(config, q)
                                  \/ i = 5 /\ Open(config, q, s)
                                  \/ i = 6 /\ Dry(config, s)
    <3>1. i \in refusing <=> Chain!Refuses(Chain!Layers[i], config, q, s)
      OBVIOUS
    <3>2. Chain!Refuses(Chain!Layers[i], config, q, s) <=>
            \/ i = 3 /\ ~q.known
            \/ i = 5 /\ s.failures[q.path] >= config.threshold
            \/ i = 6 /\ s.tokens = 0
      <4> HIDE DEF on, refusing
      <4> QED BY <1>2, <1>4, Zenon DEF Chain!Refuses, Chain!AuthRefuses, Chain!LimitRefuses, Chain!BreakerRefuses
    <3> HIDE DEF refusing, on
    <3> QED BY <1>4, <3>1, <3>2, Zenon DEF NoKey, Open, Dry
  <2>2. ASSUME NEW i, i \notin on PROVE i \notin refusing
    BY <2>2
  <2> HIDE DEF refusing, on
  <2> QED BY <1>4, <2>1, <2>2, Zenon DEF NoKey, Open, Dry
<1>6. refusing \in SUBSET Nat
  BY <1>4
<1>7. /\ refusing # {} => last = Chain!Min(refusing)
      /\ refusing = {} => last = 7
  BY <1>2
<1> HIDE DEF on, refusing, last
<1>8. last = IF NoKey(config, q) THEN 3 ELSE IF Open(config, q, s) THEN 5
             ELSE IF Dry(config, s) THEN 6 ELSE 7
  <2>1. CASE NoKey(config, q)
    <3>1. 3 \in refusing /\ \A y \in refusing : 3 <= y
      BY <1>5, <2>1
    <3> QED BY <1>6, <1>7, <2>1, <3>1, LeastIs, Zenon
  <2>2. CASE ~NoKey(config, q) /\ Open(config, q, s)
    <3>1. 5 \in refusing /\ \A y \in refusing : 5 <= y
      BY <1>5, <2>2
    <3> QED BY <1>6, <1>7, <2>2, <3>1, LeastIs, Zenon
  <2>3. CASE ~NoKey(config, q) /\ ~Open(config, q, s) /\ Dry(config, s)
    <3>1. 6 \in refusing /\ \A y \in refusing : 6 <= y
      BY <1>5, <2>3
    <3> QED BY <1>6, <1>7, <2>3, <3>1, LeastIs, Zenon
  <2>4. CASE ~NoKey(config, q) /\ ~Open(config, q, s) /\ ~Dry(config, s)
    <3>1. refusing = {}
      BY <1>5, <2>4, Zenon
    <3> QED BY <1>7, <2>4, <3>1, Zenon
  <2> QED BY <2>1, <2>2, <2>3, <2>4, Zenon
<1>9. answer = Answer(config, q, s)
  <2>1. /\ Chain!Refusal["auth"] = "unauthorized" /\ Chain!Refusal["breaker"] = "unavailable"
        /\ Chain!Refusal["limit"] = "limited"
    BY DEF Chain!Refusal
  <2>2. /\ Chain!Layers[3] = "auth" /\ Chain!Layers[5] = "breaker" /\ Chain!Layers[6] = "limit"
    BY <1>2
  <2>3. refusing = {} <=> ~NoKey(config, q) /\ ~Open(config, q, s) /\ ~Dry(config, s)
    BY <1>5, Zenon
  <2> QED BY <1>8, <2>1, <2>2, <2>3, Zenon DEF Answer
<1>10. Passed("limit") <=> /\ "limit" \in config.enabled
                           /\ ~NoKey(config, q) /\ ~Open(config, q, s) /\ ~Dry(config, s)
  <2>1. Passed("limit") <=> 6 \in on /\ 6 < last
    BY <1>2, <1>4
  <2>2. 6 < last <=> ~NoKey(config, q) /\ ~Open(config, q, s) /\ ~Dry(config, s)
    BY <1>8
  <2> QED BY <1>4, <2>1, <2>2, Zenon
<1>11. Passed("breaker") <=> "breaker" \in config.enabled /\ ~NoKey(config, q) /\ ~Open(config, q, s)
  <2>1. Passed("breaker") <=> 5 \in on /\ 5 < last
    BY <1>2, <1>4
  <2>2. 5 < last <=> ~NoKey(config, q) /\ ~Open(config, q, s)
    BY <1>8
  <2> QED BY <1>4, <2>1, <2>2, Zenon
<1> HIDE DEF answer, Passed
<1> QED BY <1>1, <1>9, <1>10, <1>11, Zenon DEF After

Answers == {"ok", "failed", "panic", "unauthorized", "unavailable", "limited"}
ChainStates(paths) == [tokens : Int, failures : [paths -> Nat]]
Servings(paths) == [answers : Seq(Answers), state : ChainStates(paths)]

\* States stay states, and answers are one for each request.
LEMMA AfterIn ==
  ASSUME NEW config, NEW paths, NEW q \in Visit, q.path \in paths, NEW s \in ChainStates(paths)
  PROVE  Answer(config, q, s) \in Answers /\ After(config, q, s) \in ChainStates(paths)
<1>1. Answer(config, q, s) \in Answers
  BY DEF Answer, Answers, Visit
<1>2. ASSUME NEW a PROVE [s.failures EXCEPT ![q.path] = Chain!Record(@, a)] \in [paths -> Nat]
  BY DEF Chain!Record, ChainStates
<1>3. s.tokens \in Int /\ s.failures \in [paths -> Nat]
  BY DEF ChainStates
<1> QED BY <1>1, <1>2, <1>3 DEF After, ChainStates

LEMMA ServeNextIn ==
  ASSUME NEW config, NEW paths, NEW q \in Visit, q.path \in paths, NEW so \in Servings(paths)
  PROVE  /\ Chain!ServeNext(config, so, q) \in Servings(paths)
         /\ Chain!ServeNext(config, so, q) =
              [answers |-> Append(so.answers, Answer(config, q, so.state)),
               state |-> After(config, q, so.state)]
<1>1. so.state \in ChainStates(paths) /\ so.answers \in Seq(Answers)
  BY DEF Servings
<1>2. Chain!Serve(config, q, so.state) =
        [answer |-> Answer(config, q, so.state), state |-> After(config, q, so.state)]
  BY ServeIs, Zenon
<1>3. Chain!ServeNext(config, so, q) =
        [answers |-> Append(so.answers, Chain!Serve(config, q, so.state).answer),
         state |-> Chain!Serve(config, q, so.state).state]
  BY Zenon DEF Chain!ServeNext
<1>4. Answer(config, q, so.state) \in Answers /\ After(config, q, so.state) \in ChainStates(paths)
  BY <1>1, AfterIn, Zenon
<1>5. Chain!ServeNext(config, so, q) =
        [answers |-> Append(so.answers, Answer(config, q, so.state)),
         state |-> After(config, q, so.state)]
  BY <1>2, <1>3
<1> QED BY <1>1, <1>4, <1>5 DEF Servings

ServeIter(config, requests, start, D, it) ==
  it = [s \in SUBSET D |->
          IF s = {} THEN start
          ELSE Chain!ServeNext(config, it[s \ {Chain!Max(s)}], requests[Chain!Max(s)])]

\* The answers and the states, one after the other.
Runs(config, requests, p) ==
  /\ \A k \in 0 .. Len(requests) : p[k] \in Servings({q.path : q \in Chain!ToSet(requests)})
  /\ p[0].answers = <<>> /\ p[0].state.tokens = config.burst
  /\ \A path \in {q.path : q \in Chain!ToSet(requests)} : p[0].state.failures[path] = 0
  /\ \A k \in 1 .. Len(requests) : p[k] = Chain!ServeNext(config, p[k - 1], requests[k])
  /\ Chain!ServeAll(config, requests) = p[Len(requests)]

\* Serving all requests is serving one after the other.
LEMMA RunExists ==
  ASSUME NEW config \in LayerConfig, NEW requests \in Seq(Visit)
  PROVE  \E p : Runs(config, requests, p)
<1> DEFINE n == Len(requests)
           paths == {q.path : q \in Chain!ToSet(requests)}
           X == Servings(paths)
           start == [answers |-> <<>>,
                     state |-> [tokens |-> config.burst, failures |-> [r \in paths |-> 0]]]
           F == [a \in X \X (1 .. n) |-> Chain!ServeNext(config, a[1], requests[a[2]])]
           it == CHOOSE f : ServeIter(config, requests, start, DOMAIN requests, f)
<1>1. Chain!ServeAll(config, requests) = it[DOMAIN requests]
  BY Zenon DEF Chain!ServeAll, Chain!FoldLeft, Chain!MapThenFoldSet, ServeIter
<1>2. n \in Nat /\ DOMAIN requests = 1 .. n /\ \A k \in 1 .. n : requests[k] \in Visit
  OBVIOUS
<1>3. \A k \in 1 .. n : requests[k].path \in paths
  <2>1. Chain!ToSet(requests) = {requests[i] : i \in 1 .. n}
    BY <1>2, Zenon DEF Chain!ToSet
  <2> HIDE DEF n
  <2> QED BY <2>1, Zenon
<1> HIDE DEF paths, n
<1>4. start \in X /\ start.answers = <<>> /\ start.state.tokens = config.burst
        /\ \A path \in paths : start.state.failures[path] = 0
  BY DEF Servings, ChainStates, LayerConfig
<1> HIDE DEF X, start
<1>5. ASSUME NEW x \in X, NEW k \in 1 .. n
      PROVE  /\ F[<<x, k>>] = Chain!ServeNext(config, x, requests[k])
             /\ Chain!ServeNext(config, x, requests[k]) \in X
  <2>1. F[<<x, k>>] = Chain!ServeNext(config, x, requests[k])
    OBVIOUS
  <2>2. Chain!ServeNext(config, x, requests[k]) \in X
    BY <1>2, <1>3, ServeNextIn, Zenon DEF X
  <2> QED BY <2>1, <2>2
<1>6. F \in [X \X (1 .. n) -> X]
  <2>1. \A a \in X \X (1 .. n) : a[1] \in X /\ a[2] \in 1 .. n
    OBVIOUS
  <2>2. \A a \in X \X (1 .. n) : Chain!ServeNext(config, a[1], requests[a[2]]) \in X
    BY <1>5, <2>1, Zenon
  <2> QED BY <2>2
<1> HIDE DEF F
<1>7. PICK g \in [SUBSET (1 .. n) -> X] : FoldsPlaces(n, start, F, g)
  BY <1>2, <1>4, <1>6, FoldLeftExists, Zenon
<1>8. /\ \A s \in SUBSET (1 .. n) : Chain!Max(s) = Largest(s) /\ s \ {Largest(s)} \in SUBSET (1 .. n)
      /\ \A s \in SUBSET (1 .. n) : s # {} => Largest(s) \in 1 .. n
  <2>1. \A s \in SUBSET (1 .. n) : Chain!Max(s) = Largest(s) /\ s \ {Largest(s)} \in SUBSET (1 .. n)
    BY Zenon DEF Chain!Max, Largest
  <2>2. \A s \in SUBSET (1 .. n) : s # {} => Largest(s) \in 1 .. n
    BY <1>2, LargestIn, Zenon
  <2> QED BY <2>1, <2>2
<1>9. ServeIter(config, requests, start, 1 .. n, g)
  <2>1. ASSUME NEW s \in SUBSET (1 .. n)
        PROVE  g[s] = IF s = {} THEN start
                      ELSE Chain!ServeNext(config, g[s \ {Chain!Max(s)}], requests[Chain!Max(s)])
    <3>1. g[s \ {Largest(s)}] \in X
      BY <1>8
    <3>2. g[s] = IF s = {} THEN start ELSE F[<<g[s \ {Largest(s)}], Largest(s)>>]
      BY <1>7, Zenon DEF FoldsPlaces
    <3>3. CASE s = {}
      BY <3>2, <3>3, Zenon
    <3>4. CASE s # {}
      <4>1. Chain!Max(s) = Largest(s) /\ Largest(s) \in 1 .. n
        BY <1>8, <3>4, Zenon
      <4>2. g[s] = Chain!ServeNext(config, g[s \ {Largest(s)}], requests[Largest(s)])
        BY <1>5, <3>1, <3>2, <3>4, <4>1, Zenon
      <4> QED BY <3>4, <4>1, <4>2, Zenon
    <3> QED BY <3>3, <3>4
  <2>2. g = [s \in SUBSET (1 .. n) |-> g[s]]
    OBVIOUS
  <2> QED BY <2>1, <2>2, Zenon DEF ServeIter
<1>10. ServeIter(config, requests, start, 1 .. n, it)
  <2>1. ServeIter(config, requests, start, DOMAIN requests, g)
    BY <1>2, <1>9, Zenon
  <2>2. ServeIter(config, requests, start, DOMAIN requests, it)
    BY <2>1, Zenon
  <2> QED BY <1>2, <2>2, Zenon
<1> HIDE DEF it
<1>11. FoldsOn(n, X, start, F, it)
  <2>1. {} \in SUBSET (1 .. n)
    OBVIOUS
  <2>2. it[{}] = start
    BY <1>10, <2>1, Zenon DEF ServeIter
  <2>3. ASSUME NEW s \in SUBSET (1 .. n), s # {}, it[s \ {Largest(s)}] \in X
        PROVE  it[s] = F[<<it[s \ {Largest(s)}], Largest(s)>>]
    <3>1. Chain!Max(s) = Largest(s) /\ Largest(s) \in 1 .. n
      BY <1>8, <2>3, Zenon
    <3>2. it[s] = Chain!ServeNext(config, it[s \ {Chain!Max(s)}], requests[Chain!Max(s)])
      BY <1>10, <2>3, Zenon DEF ServeIter
    <3> QED BY <1>5, <2>3, <3>1, <3>2, Zenon
  <2> QED BY <2>2, <2>3, Zenon DEF FoldsOn
<1>12. StepsOn(n, X, start, F, it)
  BY <1>2, <1>4, <1>6, <1>11, FoldLeftSteps, Zenon
<1> DEFINE p == [k \in 0 .. n |-> it[1 .. k]]
<1>13. \A k \in 0 .. n : p[k] = it[1 .. k] /\ p[k] \in X
  BY <1>12, Zenon DEF StepsOn
<1>14. p[0] = start /\ Chain!ServeAll(config, requests) = p[n]
  <2>1. 0 \in 0 .. n /\ n \in 0 .. n
    BY <1>2
  <2> QED BY <1>1, <1>2, <1>12, <1>13, <2>1, Zenon DEF StepsOn
<1>15. ASSUME NEW k \in 1 .. n PROVE p[k] = Chain!ServeNext(config, p[k - 1], requests[k])
  <2>1. k \in 0 .. n /\ k - 1 \in 0 .. n
    BY <1>2
  <2>2. it[1 .. k] = F[<<it[1 .. (k - 1)], k>>]
    BY <1>12, Zenon DEF StepsOn
  <2> HIDE DEF p
  <2> QED BY <1>5, <1>13, <2>1, <2>2, Zenon
<1> HIDE DEF p
<1> QED BY <1>4, <1>13, <1>14, <1>15, Zenon DEF Runs, n, paths, X

\* The states between the requests, with the answers.
PathsOf(requests) == {q.path : q \in Chain!ToSet(requests)}
Served(config, requests, answers, st) ==
  /\ \A k \in 0 .. Len(requests) : st[k] \in ChainStates(PathsOf(requests))
  /\ st[0].tokens = config.burst
  /\ \A path \in PathsOf(requests) : st[0].failures[path] = 0
  /\ \A k \in 1 .. Len(requests) :
       /\ answers[k] = Answer(config, requests[k], st[k - 1])
       /\ st[k] = After(config, requests[k], st[k - 1])

\* There are states between the requests, each made from the one before.
LEMMA ServedIs ==
  ASSUME NEW config \in LayerConfig, NEW requests \in Seq(Visit)
  PROVE  LET run == Chain!ServeAll(config, requests)
         IN \E st : Served(config, requests, run.answers, st) /\ run.state = st[Len(requests)]
<1> DEFINE n == Len(requests)
           paths == PathsOf(requests)
           run == Chain!ServeAll(config, requests)
<1>1. PICK p : Runs(config, requests, p)
  BY RunExists, Zenon
<1>2. /\ \A k \in 0 .. n : p[k] \in Servings(paths)
      /\ p[0].answers = <<>> /\ p[0].state.tokens = config.burst
      /\ \A path \in paths : p[0].state.failures[path] = 0
      /\ \A k \in 1 .. n : p[k] = Chain!ServeNext(config, p[k - 1], requests[k])
      /\ run = p[n]
  BY <1>1, Zenon DEF Runs, PathsOf
<1>3. n \in Nat /\ \A k \in 1 .. n : requests[k] \in Visit
  OBVIOUS
<1>4. \A k \in 1 .. n : requests[k].path \in paths
  <2>1. paths = {q.path : q \in {requests[i] : i \in 1 .. n}}
    BY <1>3 DEF PathsOf, Chain!ToSet
  <2> HIDE DEF n, paths
  <2> QED BY <2>1, Zenon
<1> HIDE DEF n, paths, run
<1>5. ASSUME NEW k \in 1 .. n
      PROVE  p[k] = [answers |-> Append(p[k - 1].answers, Answer(config, requests[k], p[k - 1].state)),
                     state |-> After(config, requests[k], p[k - 1].state)]
  <2>1. k - 1 \in 0 .. n
    BY <1>3
  <2>2. p[k - 1] \in Servings(paths)
    BY <1>2, <2>1, Zenon
  <2>3. Chain!ServeNext(config, p[k - 1], requests[k]) =
          [answers |-> Append(p[k - 1].answers, Answer(config, requests[k], p[k - 1].state)),
           state |-> After(config, requests[k], p[k - 1].state)]
    BY <1>3, <1>4, <2>2, ServeNextIn, Zenon
  <2> QED BY <1>2, <2>3, Zenon
<1> DEFINE Right(k) == /\ Len(p[k].answers) = k
                       /\ \A i \in 1 .. k : p[k].answers[i] = Answer(config, requests[i], p[i - 1].state)
           S == {k \in 0 .. n : Right(k)}
<1>6. 0 \in S
  <2>1. 0 \in 0 .. n /\ Len(<<>>) = 0 /\ \A i \in 1 .. 0 : FALSE
    BY <1>3
  <2> QED BY <1>2, <2>1, Zenon
<1>7. ASSUME NEW k \in 0 .. n - 1, k \in S PROVE k + 1 \in S
  <2>1. k + 1 \in 1 .. n /\ k + 1 \in 0 .. n /\ (k + 1) - 1 = k /\ k \in 0 .. n /\ k \in Nat
    BY <1>3
  <2> DEFINE old == p[k].answers
             a == Answer(config, requests[k + 1], p[k].state)
  <2>2. p[k + 1].answers = Append(old, a)
    <3>1. p[k + 1] = [answers |-> Append(p[(k + 1) - 1].answers,
                                          Answer(config, requests[k + 1], p[(k + 1) - 1].state)),
                      state |-> After(config, requests[k + 1], p[(k + 1) - 1].state)]
      BY <1>5, <2>1
    <3>2. p[k + 1].answers = Append(p[(k + 1) - 1].answers,
                                    Answer(config, requests[k + 1], p[(k + 1) - 1].state))
      BY <3>1
    <3> QED BY <2>1, <3>2
  <2>3. old \in Seq(Answers)
    <3>1. p[k] \in Servings(paths)
      BY <1>2, <2>1, Zenon
    <3> QED BY <3>1 DEF Servings
  <2>4. Len(old) = k /\ \A i \in 1 .. k : old[i] = Answer(config, requests[i], p[i - 1].state)
    BY <1>7, Zenon
  <2> DEFINE new == p[k + 1].answers
  <2> HIDE DEF old, a, new
  <2>5. Len(new) = k + 1 /\ new[k + 1] = a /\ \A i \in 1 .. k : new[i] = old[i]
    BY <2>1, <2>2, <2>3, <2>4 DEF new
  <2>6. ASSUME NEW i \in 1 .. (k + 1)
        PROVE  new[i] = Answer(config, requests[i], p[i - 1].state)
    <3>1. CASE i \in 1 .. k
      BY <2>4, <2>5, <3>1, Zenon
    <3>2. CASE i = k + 1
      <4>1. new[i] = a /\ i - 1 = k
        BY <2>1, <2>5, <3>2
      <4> QED BY <3>2, <4>1, Zenon DEF a
    <3> QED BY <2>1, <3>1, <3>2
  <2> HIDE DEF Right
  <2>7. Right(k + 1)
    BY <2>5, <2>6, Zenon DEF Right, new
  <2> QED BY <2>1, <2>7, Zenon
<1> HIDE DEF S
<1>8. \A k \in 0 .. n : k \in S
  BY <1>3, <1>6, <1>7, UpTo, Zenon
<1>9. n \in 0 .. n
  BY <1>3
<1>10. \A i \in 1 .. n : run.answers[i] = Answer(config, requests[i], p[i - 1].state)
  BY <1>2, <1>8, <1>9, Zenon DEF S
<1> DEFINE st == [k \in 0 .. n |-> p[k].state]
<1>11. \A k \in 0 .. n : st[k] = p[k].state
  BY Zenon
<1>12. \A k \in 0 .. n : p[k].state \in ChainStates(paths)
  <2>1. \A so \in Servings(paths) : so.state \in ChainStates(paths)
    BY DEF Servings
  <2> QED BY <1>2, <2>1, Zenon
<1>13. 0 \in 0 .. n /\ \A k \in 1 .. n : k \in 0 .. n /\ k - 1 \in 0 .. n
  BY <1>3
<1> HIDE DEF st
<1>14. \A k \in 1 .. n : st[k] = After(config, requests[k], st[k - 1])
  <2>1. ASSUME NEW k \in 1 .. n PROVE p[k].state = After(config, requests[k], p[k - 1].state)
    <3>1. p[k] = [answers |-> Append(p[k - 1].answers, Answer(config, requests[k], p[k - 1].state)),
                  state |-> After(config, requests[k], p[k - 1].state)]
      BY <1>5, <2>1, Zenon
    <3> QED BY <3>1
  <2> QED BY <1>11, <1>13, <2>1, Zenon
<1>15. \A k \in 1 .. n : run.answers[k] = Answer(config, requests[k], st[k - 1])
  BY <1>10, <1>11, <1>13, Zenon
<1>16. /\ \A k \in 0 .. n : st[k] \in ChainStates(paths)
       /\ st[0].tokens = config.burst
       /\ \A path \in paths : st[0].failures[path] = 0
  BY <1>2, <1>11, <1>12, <1>13, Zenon
<1>17. Served(config, requests, run.answers, st)
  BY <1>14, <1>15, <1>16, Zenon DEF Served, n, paths
<1>18. run.state = st[n]
  BY <1>2, <1>9, <1>11, Zenon
<1> QED BY <1>17, <1>18, Zenon DEF run, n

\* The limiter takes a token for every request that comes to the handler, here of the first k.
TokensLeft(config, answers, k) ==
  config.burst - Cardinality({i \in 1 .. k : answers[i] \in {"ok", "failed", "panic"}})

\* At any time the bucket has lost a token for each request that was handled.
LEMMA TokensAreCharged ==
  ASSUME NEW config \in LayerConfig, NEW requests \in Seq(Visit), NEW answers, NEW st,
         Served(config, requests, answers, st), "limit" \in config.enabled
  PROVE  \A k \in 0 .. Len(requests) : st[k].tokens = TokensLeft(config, answers, k)
<1> DEFINE n == Len(requests)
           fit == [i \in 1 .. n |-> answers[i] \in {"ok", "failed", "panic"}]
           S == {k \in 0 .. n : st[k].tokens = config.burst - Cardinality(Marked(fit, 1, k))}
<1>1. n \in Nat /\ DOMAIN requests = 1 .. n /\ config.burst \in Nat /\ \A k \in 1 .. n : requests[k] \in Visit
  BY DEF LayerConfig
<1>2. /\ \A k \in 0 .. n : st[k] \in ChainStates(PathsOf(requests))
      /\ st[0].tokens = config.burst
      /\ \A k \in 1 .. n : /\ answers[k] = Answer(config, requests[k], st[k - 1])
                           /\ st[k] = After(config, requests[k], st[k - 1])
  BY Zenon DEF Served
<1>3. \A k \in 1 .. n : fit[k] <=> answers[k] \in {"ok", "failed", "panic"}
  OBVIOUS
<1> HIDE DEF n, fit
<1>4. 0 \in S
  <2>1. Cardinality(Marked(fit, 1, 0)) = 0
    <3>1. 1 \in Int /\ 0 \in Int /\ 0 < 1
      OBVIOUS
    <3> QED BY <3>1, MarkedNone, Zenon
  <2> QED BY <1>1, <1>2, <2>1
<1>5. ASSUME NEW k \in 0 .. n - 1, k \in S PROVE k + 1 \in S
  <2> DEFINE c == Cardinality(Marked(fit, 1, k))
             d == Cardinality(Marked(fit, 1, k + 1))
             q == requests[k + 1]
             s == st[k]
             passed == ~NoKey(config, q) /\ ~Open(config, q, s) /\ ~Dry(config, s)
  <2>1. k + 1 \in 1 .. n /\ k + 1 \in 0 .. n /\ (k + 1) - 1 = k /\ k \in 0 .. n
    BY <1>1
  <2>2. c \in Nat /\ d = IF fit[k + 1] THEN c + 1 ELSE c
    <3>1. 1 \in Int /\ k \in Int /\ 1 <= k + 1
      OBVIOUS
    <3> QED BY <3>1, MarkedGrow, Zenon
  <2>3. st[k + 1] = After(config, q, s) /\ answers[k + 1] = Answer(config, q, s)
    BY <1>2, <2>1
  <2>4. q \in Visit /\ s \in ChainStates(PathsOf(requests)) /\ s.tokens = config.burst - c
    BY <1>1, <1>2, <1>5, <2>1
  <2> HIDE DEF c, d, q, s
  <2>5. answers[k + 1] \in {"ok", "failed", "panic"} <=> passed
    BY <2>3, <2>4 DEF Answer, Visit
  <2>6. st[k + 1].tokens = IF passed THEN s.tokens - 1 ELSE s.tokens
    BY <2>3 DEF After
  <2> HIDE DEF passed
  <2>7. fit[k + 1] <=> passed
    BY <1>3, <2>1, <2>5, Zenon
  <2>8. st[k + 1].tokens = config.burst - d
    <3>1. c \in Nat /\ config.burst \in Nat /\ s.tokens = config.burst - c
      BY <1>1, <2>2, <2>4
    <3>2. CASE passed
      <4>1. st[k + 1].tokens = s.tokens - 1 /\ d = c + 1
        BY <2>2, <2>6, <2>7, <3>2, Zenon
      <4> QED BY <3>1, <4>1
    <3>3. CASE ~passed
      <4>1. st[k + 1].tokens = s.tokens /\ d = c
        BY <2>2, <2>6, <2>7, <3>3, Zenon
      <4> QED BY <3>1, <4>1
    <3> QED BY <3>2, <3>3
  <2> QED BY <2>1, <2>8 DEF d
<1> HIDE DEF S
<1>6. \A k \in 0 .. n : k \in S
  BY <1>1, <1>4, <1>5, UpTo, Zenon
<1>7. ASSUME NEW k \in 0 .. n PROVE st[k].tokens = TokensLeft(config, answers, k)
  <2>1. st[k].tokens = config.burst - Cardinality(Marked(fit, 1, k))
    BY <1>6, Zenon DEF S
  <2>2. 1 .. k \subseteq 1 .. n
    BY <1>1
  <2>3. Marked(fit, 1, k) = {i \in 1 .. k : answers[i] \in {"ok", "failed", "panic"}}
    BY <1>3, <2>2, Zenon DEF Marked
  <2> QED BY <2>1, <2>3, Zenon DEF TokensLeft
<1> QED BY <1>7, Zenon DEF n

\* By how much failures of a path are ahead after request k, counted from place j on.
Failed(requests, answers, path) ==
  [i \in DOMAIN requests |-> requests[i].path = path /\ answers[i] \in {"failed"}]
Passed(requests, answers, path) ==
  [i \in DOMAIN requests |-> requests[i].path = path /\ answers[i] \in {"ok", "limited"}]
Lead(requests, answers, path, j, k) ==
  Cardinality(Marked(Failed(requests, answers, path), j, k))
    - Cardinality(Marked(Passed(requests, answers, path), j, k))

\* f is the greatest of those.
IsLead(requests, answers, path, k, f) ==
  /\ f \in Nat
  /\ \E j \in 1 .. k + 1 : Lead(requests, answers, path, j, k) = f
  /\ \A j \in 1 .. k + 1 : Lead(requests, answers, path, j, k) <= f

\* In no places failures do not lead.
LEMMA LeadNone ==
  ASSUME NEW requests, NEW answers, NEW path, NEW k \in Nat
  PROVE  Lead(requests, answers, path, k + 1, k) = 0
<1>1. k + 1 \in Int /\ k \in Int /\ k < k + 1
  OBVIOUS
<1>2. /\ Cardinality(Marked(Failed(requests, answers, path), k + 1, k)) = 0
      /\ Cardinality(Marked(Passed(requests, answers, path), k + 1, k)) = 0
  BY <1>1, MarkedNone, Zenon
<1> QED BY <1>2 DEF Lead

\* The difference that an answer makes to the lead, and to what the breaker keeps.
Difference(q, answer, path) ==
  IF q.path # path THEN 0
  ELSE IF answer = "failed" THEN 1 ELSE IF answer \in {"ok", "limited"} THEN -1 ELSE 0
Kept(n, difference) == IF n + difference > 0 THEN n + difference ELSE 0

LEMMA LeadGrows ==
  ASSUME NEW requests, NEW answers, NEW path, NEW k \in Nat, k + 1 \in DOMAIN requests,
         NEW j \in 1 .. k + 1
  PROVE  /\ Lead(requests, answers, path, j, k) \in Int
         /\ Lead(requests, answers, path, j, k + 1) =
              Lead(requests, answers, path, j, k) + Difference(requests[k + 1], answers[k + 1], path)
<1> DEFINE F == Failed(requests, answers, path)
           P == Passed(requests, answers, path)
           f == Cardinality(Marked(F, j, k))
           p == Cardinality(Marked(P, j, k))
           ff == Cardinality(Marked(F, j, k + 1))
           pp == Cardinality(Marked(P, j, k + 1))
<1>1. j \in Int /\ k \in Int /\ j <= k + 1
  OBVIOUS
<1>2. /\ F[k + 1] <=> requests[k + 1].path = path /\ answers[k + 1] = "failed"
      /\ P[k + 1] <=> requests[k + 1].path = path /\ answers[k + 1] \in {"ok", "limited"}
  BY DEF Failed, Passed
<1> HIDE DEF F, P
<1>3. f \in Nat /\ ff = IF F[k + 1] THEN f + 1 ELSE f
  BY <1>1, MarkedGrow, Zenon
<1>4. p \in Nat /\ pp = IF P[k + 1] THEN p + 1 ELSE p
  BY <1>1, MarkedGrow, Zenon
<1>5. Lead(requests, answers, path, j, k) = f - p /\ Lead(requests, answers, path, j, k + 1) = ff - pp
  BY Zenon DEF Lead, F, P
<1> HIDE DEF f, p, ff, pp
<1>6. "failed" \notin {"ok", "limited"}
  OBVIOUS
<1> QED BY <1>2, <1>3, <1>4, <1>5, <1>6 DEF Difference

\* What the breaker keeps of a request.
KeepsFailures(config, q, s, path) ==
  /\ s.failures[path] \in Nat
  /\ After(config, q, s).failures[path] =
       Kept(s.failures[path], Difference(q, Answer(config, q, s), path))

\* An answer changes what the breaker has counted for its path by one, but not below zero.
LEMMA FailuresAfter ==
  ASSUME NEW config, NEW q \in Visit, NEW paths, q.path \in paths, NEW s \in ChainStates(paths),
         "breaker" \in config.enabled, NEW path \in paths
  PROVE  KeepsFailures(config, q, s, path)
<1> DEFINE a == Answer(config, q, s)
           passed == ~NoKey(config, q) /\ ~Open(config, q, s)
<1>1. s.failures \in [paths -> Nat]
  BY DEF ChainStates
<1>2. /\ a \in {"unauthorized", "unavailable"} <=> ~passed
      /\ a \in {"unauthorized", "unavailable", "failed", "ok", "limited", "panic"}
  BY DEF Answer, Visit
<1>3. After(config, q, s).failures =
        IF passed THEN [s.failures EXCEPT ![q.path] = Chain!Record(@, a)] ELSE s.failures
  BY DEF After
<1> HIDE DEF a, passed
<1>4. CASE ~passed
  <2>1. Difference(q, a, path) = 0
    BY <1>2, <1>4 DEF Difference
  <2>2. After(config, q, s).failures[path] = s.failures[path] /\ s.failures[path] \in Nat
    BY <1>1, <1>3, <1>4
  <2>3. After(config, q, s).failures[path] = Kept(s.failures[path], Difference(q, a, path))
    BY <2>1, <2>2 DEF Kept
  <2> QED BY <2>2, <2>3, Zenon DEF a, KeepsFailures
<1>5. CASE passed
  <2>1. After(config, q, s).failures[path] =
          IF q.path = path THEN Chain!Record(s.failures[path], a) ELSE s.failures[path]
    BY <1>1, <1>3, <1>5
  <2>2. a \in {"failed", "ok", "limited", "panic"}
    BY <1>2, <1>5
  <2>3. Chain!Record(s.failures[path], a) =
          IF a = "failed" THEN s.failures[path] + 1
          ELSE IF a \in {"ok", "limited"} THEN IF s.failures[path] > 0 THEN s.failures[path] - 1 ELSE 0
          ELSE s.failures[path]
    BY <2>2 DEF Chain!Record
  <2>4. s.failures[path] \in Nat
    BY <1>1
  <2>5. After(config, q, s).failures[path] = Kept(s.failures[path], Difference(q, a, path))
    BY <2>1, <2>2, <2>3, <2>4 DEF Kept, Difference
  <2> QED BY <2>4, <2>5, Zenon DEF a, KeepsFailures
<1> QED BY <1>4, <1>5

\* What the breaker keeps is the lead of the failures.
LEMMA FailuresLead ==
  ASSUME NEW config \in LayerConfig, NEW requests \in Seq(Visit), NEW answers, NEW st,
         Served(config, requests, answers, st), "breaker" \in config.enabled,
         NEW path \in PathsOf(requests)
  PROVE  \A k \in 0 .. Len(requests) : IsLead(requests, answers, path, k, st[k].failures[path])
<1> DEFINE n == Len(requests)
           L(j, k) == Lead(requests, answers, path, j, k)
           S == {k \in 0 .. n : IsLead(requests, answers, path, k, st[k].failures[path])}
<1>1. n \in Nat /\ DOMAIN requests = 1 .. n /\ \A k \in 1 .. n : requests[k] \in Visit
  OBVIOUS
<1>2. /\ \A k \in 0 .. n : st[k] \in ChainStates(PathsOf(requests))
      /\ st[0].failures[path] = 0
      /\ \A k \in 1 .. n : /\ answers[k] = Answer(config, requests[k], st[k - 1])
                           /\ st[k] = After(config, requests[k], st[k - 1])
  BY Zenon DEF Served
<1>3. \A k \in 1 .. n : requests[k].path \in PathsOf(requests)
  <2>1. PathsOf(requests) = {q.path : q \in {requests[i] : i \in 1 .. n}}
    BY <1>1 DEF PathsOf, Chain!ToSet
  <2> HIDE DEF n
  <2> QED BY <2>1, Zenon
<1> HIDE DEF n
<1>4. 0 \in S
  <2>1. 0 \in Nat /\ 0 \in 0 .. n /\ 1 .. 0 + 1 = {1} /\ 0 + 1 = 1
    BY <1>1
  <2>2. Lead(requests, answers, path, 0 + 1, 0) = 0
    BY <2>1, LeadNone, Zenon
  <2>3. Lead(requests, answers, path, 1, 0) = 0
    BY <2>1, <2>2
  <2>4. IsLead(requests, answers, path, 0, 0)
    BY <2>1, <2>3 DEF IsLead
  <2> QED BY <1>2, <2>1, <2>4, Zenon
<1>5. ASSUME NEW k \in 0 .. n - 1, k \in S PROVE k + 1 \in S
  <2> DEFINE q == requests[k + 1]
             f == st[k].failures[path]
             g == st[k + 1].failures[path]
             a == answers[k + 1]
             by == Difference(q, a, path)
  <2>1. k + 1 \in 1 .. n /\ k + 1 \in 0 .. n /\ (k + 1) - 1 = k /\ k \in 0 .. n /\ k \in Nat /\ k + 1 \in Nat
    BY <1>1
  <2>2. st[k + 1] = After(config, q, st[k]) /\ a = Answer(config, q, st[k])
    BY <1>2, <2>1
  <2>3. q \in Visit /\ q.path \in PathsOf(requests) /\ st[k] \in ChainStates(PathsOf(requests))
    BY <1>1, <1>2, <1>3, <2>1, Zenon
  <2>4. f \in Nat /\ g = Kept(f, by)
    <3>1. KeepsFailures(config, q, st[k], path)
      <4> HIDE DEF q
      <4> QED BY <2>3, FailuresAfter, Zenon
    <3> QED BY <2>2, <3>1, Zenon DEF KeepsFailures
  <2>5. IsLead(requests, answers, path, k, f)
    BY <1>5, Zenon
  <2>6. ASSUME NEW j \in 1 .. k + 1
        PROVE  L(j, k) \in Int /\ L(j, k + 1) = L(j, k) + by
    <3>1. k + 1 \in DOMAIN requests
      BY <1>1, <2>1, Zenon
    <3> QED BY <2>1, <3>1, LeadGrows, Zenon
  <2>7. L(k + 2, k + 1) = 0 /\ L(k + 1, k) = 0
    <3>1. L((k + 1) + 1, k + 1) = 0 /\ L(k + 1, k) = 0
      BY <2>1, LeadNone, Zenon
    <3>2. (k + 1) + 1 = k + 2
      BY <2>1
    <3> HIDE DEF L
    <3> QED BY <3>1, <3>2
  <2>8. by \in {-1, 0, 1} /\ (g = IF f + by > 0 THEN f + by ELSE 0)
    <3>1. by \in {-1, 0, 1}
      <4> HIDE DEF q, a
      <4> QED BY DEF Difference
    <3> HIDE DEF by, f, g
    <3> QED BY <2>4, <3>1 DEF Kept
  <2> HIDE DEF q, f, g, a, by
  <2>9. /\ \E j \in 1 .. k + 1 : L(j, k) = f
        /\ \A j \in 1 .. k + 1 : L(j, k) <= f
    BY <2>5, Zenon DEF IsLead
  <2> HIDE DEF L
  <2>10. \A j \in 1 .. k + 2 : j \in 1 .. k + 1 \/ j = k + 2
    BY <2>1
  <2>11. g \in Nat
    BY <2>4, <2>8
  <2>12. \A j \in 1 .. k + 2 : L(j, k + 1) <= g
    <3>1. ASSUME NEW j \in 1 .. k + 1 PROVE L(j, k + 1) <= g
      <4>1. L(j, k) \in Int /\ L(j, k + 1) = L(j, k) + by /\ L(j, k) <= f
        BY <2>6, <2>9, <3>1
      <4> QED BY <2>4, <2>8, <4>1
    <3>2. L(k + 2, k + 1) <= g
      BY <2>7, <2>11
    <3> QED BY <2>10, <3>1, <3>2
  <2>13. \E j \in 1 .. k + 2 : L(j, k + 1) = g
    <3>1. CASE f + by > 0
      <4>1. PICK j \in 1 .. k + 1 : L(j, k) = f
        BY <2>9
      <4>2. L(j, k + 1) = g
        BY <2>4, <2>6, <2>8, <3>1, <4>1
      <4>3. j \in 1 .. k + 2
        BY <2>1
      <4> QED BY <4>2, <4>3
    <3>2. CASE ~(f + by > 0)
      <4>1. g = 0
        BY <2>4, <2>8, <3>2
      <4>2. k + 2 \in 1 .. k + 2
        BY <2>1
      <4> QED BY <2>7, <4>1, <4>2
    <3> QED BY <3>1, <3>2
  <2>14. (k + 1) + 1 = k + 2
    BY <2>1
  <2>15. IsLead(requests, answers, path, k + 1, g)
    BY <2>11, <2>12, <2>13, <2>14 DEF IsLead, L
  <2> QED BY <2>1, <2>15 DEF g
<1> HIDE DEF S
<1>6. \A k \in 0 .. n : k \in S
  BY <1>1, <1>4, <1>5, UpTo, Zenon
<1> QED BY <1>6, Zenon DEF S, n

\* The property counts them so.
AheadOf(requests, answers, path, n) ==
  Chain!Max({Chain!Cardinality({i \in k .. n : requests[i].path = path /\ answers[i] \in {"failed"}})
             - Chain!Cardinality({i \in k .. n : requests[i].path = path /\ answers[i] \in {"ok", "limited"}})
             : k \in 1 .. n + 1})

\* The lead that the property speaks of is the one that was computed.
LEMMA AheadIs ==
  ASSUME NEW requests \in Seq(Visit), NEW answers, NEW path, NEW n \in 0 .. Len(requests),
         NEW f, IsLead(requests, answers, path, n, f)
  PROVE  AheadOf(requests, answers, path, n) = f
<1> DEFINE S == {Lead(requests, answers, path, k, n) : k \in 1 .. n + 1}
           x == Chain!Max(S)
<1>1. DOMAIN requests = 1 .. Len(requests) /\ Len(requests) \in Nat
  OBVIOUS
<1>2. ASSUME NEW k \in 1 .. n + 1
      PROVE  Chain!Cardinality({i \in k .. n : requests[i].path = path /\ answers[i] \in {"failed"}})
               - Chain!Cardinality({i \in k .. n : requests[i].path = path /\ answers[i] \in {"ok", "limited"}})
             = Lead(requests, answers, path, k, n)
  <2>1. \A i \in k .. n : i \in DOMAIN requests
    BY <1>1
  <2>2. /\ Marked(Failed(requests, answers, path), k, n)
             = {i \in k .. n : requests[i].path = path /\ answers[i] \in {"failed"}}
        /\ Marked(Passed(requests, answers, path), k, n)
             = {i \in k .. n : requests[i].path = path /\ answers[i] \in {"ok", "limited"}}
    BY <2>1, Zenon DEF Marked, Failed, Passed
  <2>3. \A s : Chain!Cardinality(s) = Cardinality(s)
    BY Zenon DEF Chain!Cardinality, Cardinality
  <2> QED BY <2>2, <2>3, Zenon DEF Lead
<1>3. AheadOf(requests, answers, path, n) = x
  BY <1>2, Zenon DEF AheadOf
<1>4. f \in S /\ (\A y \in S : f >= y) /\ f \in Int
  <2>1. /\ f \in Nat
        /\ \E j \in 1 .. n + 1 : Lead(requests, answers, path, j, n) = f
        /\ \A j \in 1 .. n + 1 : Lead(requests, answers, path, j, n) <= f
    BY Zenon DEF IsLead
  <2> QED BY <2>1
<1>5. S \subseteq Int
  <2>1. ASSUME NEW k \in 1 .. n + 1 PROVE Lead(requests, answers, path, k, n) \in Int
    <3>1. k \in Int /\ n \in Int /\ k <= n + 1
      BY <1>1
    <3>2. /\ Cardinality(Marked(Failed(requests, answers, path), k, n)) \in Nat
          /\ Cardinality(Marked(Passed(requests, answers, path), k, n)) \in Nat
      BY <3>1, MarkedGrow, Zenon
    <3> QED BY <3>2 DEF Lead
  <2> QED BY <2>1
<1> HIDE DEF S
<1>6. x \in S /\ \A y \in S : x >= y
  BY <1>4, Zenon DEF Chain!Max
<1> HIDE DEF x
<1>7. x = f
  <2>1. x >= f /\ f >= x /\ x \in Int /\ f \in Int
    BY <1>4, <1>5, <1>6
  <2> QED BY <2>1
<1> QED BY <1>3, <1>7

\* A path stays refused.
LEMMA StaysOpen ==
  ASSUME NEW config \in LayerConfig, NEW requests \in Seq(Visit), NEW answers, NEW st,
         Served(config, requests, answers, st), "breaker" \in config.enabled,
         NEW path \in PathsOf(requests)
  PROVE  \A k \in 0 .. Len(requests) : \A n \in 0 .. k :
           st[n].failures[path] >= config.threshold => st[k].failures[path] >= config.threshold
<1> DEFINE m == Len(requests)
           Hot(k) == st[k].failures[path] >= config.threshold
           S == {k \in 0 .. m : \A n \in 0 .. k : Hot(n) => Hot(k)}
<1>1. m \in Nat /\ \A k \in 1 .. m : requests[k] \in Visit
  OBVIOUS
<1>2. /\ \A k \in 0 .. m : st[k] \in ChainStates(PathsOf(requests))
      /\ \A k \in 1 .. m : st[k] = After(config, requests[k], st[k - 1])
  BY Zenon DEF Served
<1> HIDE DEF m
<1>3. 0 \in S
  <2>1. 0 \in 0 .. m /\ \A n \in 0 .. 0 : n = 0
    BY <1>1
  <2> QED BY <2>1, Zenon
<1>4. ASSUME NEW k \in 0 .. m - 1, k \in S PROVE k + 1 \in S
  <2> DEFINE q == requests[k + 1]
             s == st[k]
  <2>1. k + 1 \in 1 .. m /\ k + 1 \in 0 .. m /\ (k + 1) - 1 = k /\ k \in 0 .. m
    BY <1>1
  <2>2. st[k + 1] = After(config, q, s) /\ s \in ChainStates(PathsOf(requests))
    BY <1>2, <2>1
  <2>3. After(config, q, s).failures =
          IF "breaker" \in config.enabled /\ ~NoKey(config, q) /\ ~Open(config, q, s)
            THEN [s.failures EXCEPT ![q.path] = Chain!Record(@, Answer(config, q, s))]
            ELSE s.failures
    BY DEF After
  <2>4. s.failures \in [PathsOf(requests) -> Nat]
    BY <2>2 DEF ChainStates
  <2> HIDE DEF q, s
  <2>5. ASSUME Hot(k) PROVE Hot(k + 1)
    <3>1. s.failures[path] >= config.threshold
      BY <2>5 DEF s
    <3>2. CASE q.path = path
      <4>1. Open(config, q, s)
        BY <3>1, <3>2, Zenon DEF Open
      <4>2. After(config, q, s).failures = s.failures
        BY <2>3, <4>1, Zenon
      <4> QED BY <2>2, <3>1, <4>2
    <3>3. CASE q.path # path
      <4>1. After(config, q, s).failures[path] = s.failures[path]
        BY <2>3, <2>4, <3>3
      <4> QED BY <2>2, <3>1, <4>1
    <3> QED BY <3>2, <3>3
  <2>6. \A n \in 0 .. k + 1 : n \in 0 .. k \/ n = k + 1
    BY <2>1
  <2> HIDE DEF Hot
  <2> QED BY <1>4, <2>1, <2>5, <2>6, Zenon
<1> HIDE DEF S
<1>5. \A k \in 0 .. m : k \in S
  BY <1>1, <1>3, <1>4, UpTo, Zenon
<1> QED BY <1>5, Zenon DEF S, m

\* Each layer is charged for what it lets through.
LEMMA ChainsHold ==
  ASSUME NEW config \in LayerConfig, NEW requests \in Seq(Visit)
  PROVE  Chain!LayersAreCharged(config, requests)
<1> DEFINE run == Chain!ServeAll(config, requests)
           answers == run.answers
           m == Len(requests)
<1>1. PICK st : Served(config, requests, answers, st) /\ run.state = st[m]
  BY ServedIs, Zenon
<1>2. /\ m \in Nat /\ DOMAIN requests = 1 .. m /\ m \in 0 .. m
      /\ \A k \in 1 .. m : requests[k] \in Visit /\ k - 1 \in 0 .. m /\ 0 .. k - 1 \subseteq 0 .. m
  OBVIOUS
<1>3. /\ \A k \in 0 .. m : st[k] \in ChainStates(PathsOf(requests))
      /\ \A k \in 1 .. m : answers[k] = Answer(config, requests[k], st[k - 1])
  BY <1>1, Zenon DEF Served
<1>4. \A k \in 1 .. m : requests[k].path \in PathsOf(requests)
  <2>1. PathsOf(requests) = {q.path : q \in {requests[i] : i \in 1 .. m}}
    BY <1>2 DEF PathsOf, Chain!ToSet
  <2> HIDE DEF m
  <2> QED BY <2>1, Zenon
<1>5. DOMAIN run.state.failures = PathsOf(requests)
  <2>1. run.state \in ChainStates(PathsOf(requests))
    BY <1>1, <1>2, <1>3, Zenon
  <2> HIDE DEF run
  <2> QED BY <2>1 DEF ChainStates
<1> HIDE DEF run, m
<1>6. ASSUME "breaker" \in config.enabled, NEW path \in PathsOf(requests), NEW n \in 0 .. m
      PROVE  AheadOf(requests, answers, path, n) = st[n].failures[path]
  <2>1. IsLead(requests, answers, path, n, st[n].failures[path])
    BY <1>1, <1>6, FailuresLead, Zenon DEF m
  <2> QED BY <2>1, AheadIs, Zenon DEF m
<1>7. ASSUME "limit" \in config.enabled
      PROVE  run.state.tokens =
               config.burst - Chain!Cardinality({i \in DOMAIN requests : answers[i] \in {"ok", "failed", "panic"}})
  <2>1. \A s : Chain!Cardinality(s) = Cardinality(s)
    BY Zenon DEF Chain!Cardinality, Cardinality
  <2>2. st[m].tokens = TokensLeft(config, answers, m)
    BY <1>1, <1>2, <1>7, TokensAreCharged, Zenon DEF m
  <2> QED BY <1>1, <1>2, <2>1, <2>2, Zenon DEF TokensLeft
<1>8. ASSUME "breaker" \in config.enabled, NEW path \in DOMAIN run.state.failures
      PROVE  run.state.failures[path] = AheadOf(requests, answers, path, m)
  BY <1>1, <1>2, <1>5, <1>6, <1>8, Zenon
<1>9. ASSUME NEW i \in DOMAIN requests
      PROVE  /\ answers[i] \in {"unauthorized"} <=> "auth" \in config.enabled /\ ~requests[i].known
             /\ answers[i] \in {"unavailable"} <=>
                  /\ "breaker" \in config.enabled /\ answers[i] \notin {"unauthorized"}
                  /\ \E n \in 0 .. i - 1 : AheadOf(requests, answers, requests[i].path, n) >= config.threshold
             /\ answers[i] \in {"limited"} <=>
                  /\ "limit" \in config.enabled /\ answers[i] \notin {"unauthorized", "unavailable"}
                  /\ Chain!Cardinality({j \in {k \in DOMAIN requests : answers[k] \in {"ok", "failed", "panic"}} : j < i})
                       = config.burst
  <2> DEFINE q == requests[i]
             s == st[i - 1]
  <2>1. i \in 1 .. m /\ q \in Visit /\ i - 1 \in 0 .. m /\ 0 .. i - 1 \subseteq 0 .. m
    BY <1>2
  <2>2. answers[i] = Answer(config, q, s) /\ q.path \in PathsOf(requests)
    BY <1>3, <1>4, <2>1, Zenon
  <2>3. /\ answers[i] = "unauthorized" <=> NoKey(config, q)
        /\ answers[i] = "unavailable" <=> ~NoKey(config, q) /\ Open(config, q, s)
        /\ answers[i] = "limited" <=> ~NoKey(config, q) /\ ~Open(config, q, s) /\ Dry(config, s)
    <3> HIDE DEF q, s
    <3> QED BY <2>1, <2>2 DEF Answer, Visit
  <2>4. ASSUME "breaker" \in config.enabled
        PROVE  (\E n \in 0 .. i - 1 : AheadOf(requests, answers, q.path, n) >= config.threshold)
                 <=> s.failures[q.path] >= config.threshold
    <3>1. \A n \in 0 .. i - 1 : AheadOf(requests, answers, q.path, n) = st[n].failures[q.path]
      BY <1>6, <2>1, <2>2, <2>4, Zenon
    <3>2. i - 1 \in 0 .. i - 1
      BY <2>1, <1>2
    <3>3. \A n \in 0 .. i - 1 : st[n].failures[q.path] >= config.threshold
                                 => s.failures[q.path] >= config.threshold
      <4>1. \A k \in 0 .. m : \A n \in 0 .. k :
              st[n].failures[q.path] >= config.threshold => st[k].failures[q.path] >= config.threshold
        <5> HIDE DEF q
        <5> QED BY <1>1, <2>2, <2>4, StaysOpen, Zenon DEF m
      <4> QED BY <2>1, <4>1, Zenon
    <3> QED BY <3>1, <3>2, <3>3, Zenon
  <2>5. ASSUME "limit" \in config.enabled
        PROVE  s.tokens = 0 <=>
                 Chain!Cardinality({j \in {k \in DOMAIN requests : answers[k] \in {"ok", "failed", "panic"}} : j < i})
                   = config.burst
    <3> DEFINE before == {j \in 1 .. i - 1 : answers[j] \in {"ok", "failed", "panic"}}
    <3>1. {j \in {k \in DOMAIN requests : answers[k] \in {"ok", "failed", "panic"}} : j < i} = before
      BY <1>2, <2>1
    <3>2. s.tokens = config.burst - Cardinality(before)
      <4>1. \A k \in 0 .. m : st[k].tokens = TokensLeft(config, answers, k)
        BY <1>1, <2>5, TokensAreCharged, Zenon DEF m
      <4> QED BY <2>1, <4>1, Zenon DEF TokensLeft
    <3>3. Cardinality(before) \in Nat
      <4>1. IsFiniteSet(1 .. i - 1) /\ before \subseteq 1 .. i - 1
        BY <1>2, <2>1, FS_Interval
      <4> QED BY <4>1, FS_Subset, FS_CardinalityType, Zenon
    <3>4. config.burst \in Nat
      BY DEF LayerConfig
    <3>5. Chain!Cardinality(before) = Cardinality(before)
      BY Zenon DEF Chain!Cardinality, Cardinality
    <3> HIDE DEF before, s
    <3>6. s.tokens = 0 <=> Cardinality(before) = config.burst
      BY <3>2, <3>3, <3>4
    <3> QED BY <3>1, <3>5, <3>6, Zenon
  <2> HIDE DEF q, s
  <2>6. answers[i] \in {"limited"} <=>
          "limit" \in config.enabled /\ answers[i] \notin {"unauthorized", "unavailable"} /\ s.tokens = 0
    BY <2>3, Zenon DEF Dry
  <2>7. answers[i] \in {"limited"} <=>
          /\ "limit" \in config.enabled /\ answers[i] \notin {"unauthorized", "unavailable"}
          /\ Chain!Cardinality({j \in {k \in DOMAIN requests : answers[k] \in {"ok", "failed", "panic"}} : j < i})
               = config.burst
    BY <2>5, <2>6, Zenon
  <2> QED BY <2>3, <2>4, <2>7, Zenon DEF NoKey, Open, q, s
<1> QED BY <1>7, <1>8, <1>9, Zenon DEF Chain!LayersAreCharged, AheadOf, run, m

-----------------------------------------------------------------------------
(* Writers *)

\* What a layer is given, and leaves.
Texts == STRING \cup {None, "ok", "error"}
Written == [status : Texts, panicked : BOOLEAN, seen : Seq(Texts)]

\* What the program does before it panics.
Handled(program) ==
  LET stop == Chain!SelectInSeq(program, LAMBDA op : op = "panic")
      done == IF stop = 0 THEN program ELSE SubSeq(program, 1, stop - 1)
  IN [status |-> IF done = <<>> THEN None ELSE done[1], panicked |-> stop # 0, seen |-> <<>>]

\* What a handler has sent, and whether it panicked.
LEMMA HandledIs ==
  ASSUME NEW program \in Seq(STRING)
  PROVE  LET h == Handled(program)
         IN /\ h \in Written /\ h.seen = <<>>
            /\ h.panicked <=> "panic" \in Chain!ToSet(program)
            /\ h.status = IF program = <<>> THEN None
                          ELSE IF program[1] = "panic" THEN None ELSE program[1]
            /\ program # <<>> /\ program[1] = "panic" => h.panicked
            /\ program = <<>> => ~h.panicked
<1> DEFINE n == Len(program)
           fit == [i \in 1 .. n |-> program[i] = "panic"]
           I == {i \in 1 .. n : fit[i]}
           stop == IF I # {} THEN Chain!Min(I) ELSE 0
           done == IF stop = 0 THEN program ELSE SubSeq(program, 1, stop - 1)
           h == Handled(program)
<1>1. n \in Nat /\ DOMAIN program = 1 .. n /\ \A i \in 1 .. n : program[i] \in STRING
  OBVIOUS
<1>2. h = [status |-> IF done = <<>> THEN None ELSE done[1], panicked |-> stop # 0, seen |-> <<>>]
  <2>1. \A i \in 1 .. n : fit[i] <=> program[i] = "panic"
    OBVIOUS
  <2>2. I = {i \in 1 .. n : program[i] = "panic"}
    <3> HIDE DEF fit
    <3> QED BY <2>1, Zenon
  <2>3. Chain!SelectInSeq(program, LAMBDA op : op = "panic") = stop
    <3> HIDE DEF I
    <3> QED BY <2>2, Zenon DEF Chain!SelectInSeq
  <2> HIDE DEF stop
  <2> QED BY <2>3, Zenon DEF Handled
<1>3. I # {} => /\ Chain!Min(I) \in 1 .. n /\ fit[Chain!Min(I)]
                /\ \A j \in 1 .. n : fit[j] => Chain!Min(I) <= j
  <2> HIDE DEF n, fit
  <2> QED BY <1>1, FirstIs, Zenon
<1>4. \/ stop = 0 /\ \A j \in 1 .. n : program[j] # "panic"
      \/ /\ stop \in 1 .. n /\ program[stop] = "panic"
         /\ \A j \in 1 .. n : program[j] = "panic" => stop <= j
  <2>1. \A i \in 1 .. n : fit[i] <=> program[i] = "panic"
    OBVIOUS
  <2>2. CASE I = {}
    <3>1. \A j \in 1 .. n : program[j] # "panic"
      BY <2>2
    <3> QED BY <2>2, <3>1
  <2>3. CASE I # {}
    <3>1. stop = Chain!Min(I)
      BY <2>3
    <3> HIDE DEF stop, I, fit
    <3> QED BY <1>3, <2>1, <2>3, <3>1, Zenon
  <2> QED BY <2>2, <2>3
<1> HIDE DEF stop
<1>5. "panic" \in Chain!ToSet(program) <=> stop # 0
  <2>1. Chain!ToSet(program) = {program[i] : i \in 1 .. n}
    BY <1>1, Zenon DEF Chain!ToSet
  <2> HIDE DEF n
  <2>2. 0 \notin 1 .. n
    BY <1>1
  <2> QED BY <1>4, <2>1, <2>2, Zenon
<1>6. /\ done = <<>> <=> program = <<>> \/ program[1] = "panic"
      /\ done # <<>> => done[1] = program[1] /\ program[1] \in STRING
  <2>1. CASE stop = 0
    BY <1>1, <1>4, <2>1
  <2>2. CASE stop = 1
    BY <1>1, <1>4, <2>2
  <2>3. CASE stop \in 2 .. n
    <3>1. program[1] # "panic" /\ program # <<>> /\ program[1] \in STRING
      BY <1>1, <1>4, <2>3
    <3>2. done = SubSeq(program, 1, stop - 1) /\ done[1] = program[1] /\ Len(done) = stop - 1
      BY <1>1, <2>3
    <3>3. done # <<>>
      BY <2>3, <3>2
    <3> QED BY <3>1, <3>2, <3>3
  <2> QED BY <1>1, <1>4, <2>1, <2>2, <2>3
<1>7. program # <<>> /\ program[1] = "panic" => stop # 0
  BY <1>1, <1>4
<1>8. program = <<>> => stop = 0
  BY <1>1, <1>4
<1> HIDE DEF done, h
<1>9. h.status = (IF done = <<>> THEN None ELSE done[1]) /\ h.panicked = (stop # 0) /\ h.seen = <<>>
  BY <1>2
<1>10. h \in Written
  <2>1. (IF done = <<>> THEN None ELSE done[1]) \in Texts
    BY <1>6 DEF Texts
  <2>2. \A x \in Texts, b \in BOOLEAN : [status |-> x, panicked |-> b, seen |-> <<>>] \in Written
    BY DEF Written
  <2> QED BY <1>2, <2>1, <2>2
<1> QED BY <1>5, <1>6, <1>7, <1>8, <1>9, <1>10 DEF h

\* What a layer makes of an answer.
Wrapped(layer, r) == IF layer = "recovery" THEN Chain!Recover(r) ELSE Chain!Capture(r)

\* A layer leaves what layers are given.
LEMMA WrappedIn ==
  ASSUME NEW layer, NEW r \in Written
  PROVE  Wrapped(layer, r) \in Written
<1>1. r.status \in Texts /\ r.panicked \in BOOLEAN /\ r.seen \in Seq(Texts)
  BY DEF Written
<1>2. "ok" \in Texts /\ "error" \in Texts
  BY DEF Texts
<1>3. Chain!Recover(r) \in Written
  BY <1>1, <1>2 DEF Chain!Recover, Written
<1>4. Chain!Capture(r) \in Written
  <2>1. ASSUME NEW x \in Texts PROVE [r EXCEPT !.seen = Append(@, x)] \in Written
    BY <1>1 DEF Written
  <2> QED BY <1>1, <1>2, <2>1 DEF Chain!Capture
<1> QED BY <1>3, <1>4 DEF Wrapped

ThenIter(layers, base, D, it) ==
  it = [s \in SUBSET D |->
          IF s = {} THEN base ELSE Wrapped(layers[Chain!Min(s)], it[s \ {Chain!Min(s)}])]

\* The answers within each layer.
Wraps(layers, program, r) ==
  /\ \A k \in 1 .. Len(layers) + 1 : r[k] \in Written
  /\ r[Len(layers) + 1] = Handled(program)
  /\ \A k \in 1 .. Len(layers) : r[k] = Wrapped(layers[k], r[k + 1])
  /\ Chain!Then(layers, program) = r[1]

LEMMA LeastOff ==
  ASSUME NEW n \in Nat, NEW k \in 1 .. n
  PROVE  /\ (k .. n) \ {k} = (k + 1) .. n /\ k .. n \in SUBSET (1 .. n) /\ k .. n # {}
         /\ k \in k .. n /\ \A y \in k .. n : k <= y
OBVIOUS

LEMMA WrapsExist ==
  ASSUME NEW layers \in Seq({"recovery", "capture"}), NEW program \in Seq(STRING)
  PROVE  \E r : Wraps(layers, program, r)
<1> DEFINE n == Len(layers)
           base == Handled(program)
           X == Written
           F == [a \in X \X (1 .. n) |-> Wrapped(layers[a[2]], a[1])]
           c == [s \in SUBSET (1 .. n) |-> Chain!Min(s)]
           it == CHOOSE f : ThenIter(layers, base, DOMAIN layers, f)
<1>1. Chain!Then(layers, program) = it[DOMAIN layers]
  BY Zenon DEF Chain!Then, Chain!FoldRight, Chain!MapThenFoldSet, ThenIter, Wrapped, Handled
<1>2. n \in Nat /\ DOMAIN layers = 1 .. n
  OBVIOUS
<1>3. base \in X
  BY HandledIs, Zenon
<1> HIDE DEF n, base, X
<1>4. ASSUME NEW x \in X, NEW k \in 1 .. n
      PROVE  F[<<x, k>>] = Wrapped(layers[k], x) /\ Wrapped(layers[k], x) \in X
  <2>1. F[<<x, k>>] = Wrapped(layers[k], x)
    OBVIOUS
  <2>2. Wrapped(layers[k], x) \in X
    BY WrappedIn, Zenon DEF X
  <2> QED BY <2>1, <2>2
<1>5. F \in [X \X (1 .. n) -> X]
  <2>1. \A a \in X \X (1 .. n) : a[1] \in X /\ a[2] \in 1 .. n
    OBVIOUS
  <2>2. \A a \in X \X (1 .. n) : Wrapped(layers[a[2]], a[1]) \in X
    BY <1>4, <2>1, Zenon
  <2> QED BY <2>2
<1> HIDE DEF F
<1>6. \A s \in SUBSET (1 .. n) : c[s] = Chain!Min(s)
  BY Zenon
<1> HIDE DEF c
<1>7. \A s \in SUBSET (1 .. n) : s # {} => /\ Chain!Min(s) \in s /\ Chain!Min(s) \in 1 .. n
                                            /\ \A y \in s : Chain!Min(s) <= y
  <2> SUFFICES ASSUME NEW s \in SUBSET (1 .. n), s # {}
               PROVE  Chain!Min(s) \in s /\ Chain!Min(s) \in 1 .. n /\ \A y \in s : Chain!Min(s) <= y
    OBVIOUS
  <2>1. s \in SUBSET Nat
    BY <1>2
  <2>2. Chain!Min(s) = Tools!Min(s)
    BY Zenon DEF Chain!Min, Tools!Min
  <2>3. Tools!Min(s) \in s /\ \A y \in s : Tools!Min(s) =< y
    BY <2>1, LeastIn, Zenon
  <2> DEFINE x == Chain!Min(s)
  <2>4. x \in s /\ \A y \in s : x =< y
    BY <2>2, <2>3, Zenon
  <2> HIDE DEF x
  <2>5. x \in s /\ x \in 1 .. n /\ \A y \in s : x <= y
    BY <2>4
  <2> QED BY <2>5 DEF x
<1>8. PICK g \in [SUBSET (1 .. n) -> X] : Folds(g, SUBSET (1 .. n), base, F, c)
  <2>1. IsFiniteSet(1 .. n)
    <3>1. 1 \in Int /\ n \in Int
      BY <1>2
    <3> QED BY <3>1, FS_Interval, Zenon
  <2>2. \A s \in SUBSET (1 .. n) : s # {} => c[s] \in s
    BY <1>6, <1>7, Zenon
  <2> QED BY <1>3, <1>5, <2>1, <2>2, FoldExists, Zenon
<1>9. ThenIter(layers, base, 1 .. n, g)
  <2>1. ASSUME NEW s \in SUBSET (1 .. n)
        PROVE  g[s] = IF s = {} THEN base
                      ELSE Wrapped(layers[Chain!Min(s)], g[s \ {Chain!Min(s)}])
    <3>1. g[s] = IF s = {} THEN base ELSE F[<<g[s \ {c[s]}], c[s]>>]
      BY <1>8, Zenon DEF Folds
    <3>2. CASE s = {}
      BY <3>1, <3>2, Zenon
    <3>3. CASE s # {}
      <4>1. g[s \ {Chain!Min(s)}] \in X
        <5>1. s \ {Chain!Min(s)} \in SUBSET (1 .. n)
          OBVIOUS
        <5> QED BY <5>1
      <4> QED BY <1>4, <1>6, <1>7, <3>1, <3>3, <4>1, Zenon
    <3> QED BY <3>2, <3>3
  <2>2. g = [s \in SUBSET (1 .. n) |-> g[s]]
    OBVIOUS
  <2> QED BY <2>1, <2>2, Zenon DEF ThenIter
<1>10. ThenIter(layers, base, 1 .. n, it)
  <2>1. ThenIter(layers, base, DOMAIN layers, g)
    BY <1>2, <1>9, Zenon
  <2>2. ThenIter(layers, base, DOMAIN layers, it)
    BY <2>1, Zenon
  <2> QED BY <1>2, <2>2, Zenon
<1> HIDE DEF it
<1>11. ASSUME NEW k \in 1 .. n PROVE it[k .. n] = Wrapped(layers[k], it[(k + 1) .. n])
  <2>1. k .. n \in SUBSET (1 .. n) /\ k .. n # {} /\ k \in k .. n /\ (\A y \in k .. n : k <= y)
    BY <1>2, LeastOff, Zenon
  <2>2. (k .. n) \ {k} = (k + 1) .. n
    BY <1>2, LeastOff, Zenon
  <2>3. Chain!Min(k .. n) = k
    <3> DEFINE x == Chain!Min(k .. n)
    <3>1. x \in k .. n /\ \A y \in k .. n : x <= y
      BY <1>7, <2>1, Zenon
    <3> HIDE DEF x
    <3>2. x = k
      BY <1>2, <2>1, <3>1
    <3> QED BY <3>2 DEF x
  <2>4. it[k .. n] = Wrapped(layers[Chain!Min(k .. n)], it[(k .. n) \ {Chain!Min(k .. n)}])
    BY <1>10, <2>1, Zenon DEF ThenIter
  <2> QED BY <2>2, <2>3, <2>4, Zenon
<1>12. it[(n + 1) .. n] = base
  <2>1. (n + 1) .. n = {} /\ {} \in SUBSET (1 .. n)
    BY <1>2
  <2>2. it[{}] = base
    BY <1>10, <2>1, Zenon DEF ThenIter
  <2> QED BY <2>1, <2>2, Zenon
<1> DEFINE r == [k \in 1 .. n + 1 |-> it[k .. n]]
<1>13. /\ \A k \in 1 .. n + 1 : r[k] = it[k .. n]
       /\ n + 1 \in 1 .. n + 1 /\ 1 \in 1 .. n + 1
       /\ \A k \in 1 .. n : k \in 1 .. n + 1 /\ k + 1 \in 1 .. n + 1
  BY <1>2
<1> HIDE DEF r
<1>14. \A k \in 1 .. n : r[k] = Wrapped(layers[k], r[k + 1])
  BY <1>11, <1>13, Zenon
<1>15. r[n + 1] = base /\ Chain!Then(layers, program) = r[1]
  BY <1>1, <1>2, <1>12, <1>13, Zenon
<1>16. \A k \in 1 .. n + 1 : r[k] \in X
  <2> DEFINE S == {d \in 0 .. n : r[n + 1 - d] \in X}
  <2>1. 0 \in S
    <3>1. n + 1 - 0 = n + 1 /\ 0 \in 0 .. n
      BY <1>2
    <3> QED BY <1>3, <1>15, <3>1
  <2>2. ASSUME NEW d \in 0 .. n - 1, d \in S PROVE d + 1 \in S
    <3>1. n - d \in 1 .. n /\ (n - d) + 1 = n + 1 - d /\ n + 1 - (d + 1) = n - d /\ d + 1 \in 0 .. n
      BY <1>2
    <3>2. r[(n - d) + 1] \in X
      BY <2>2, <3>1
    <3>3. r[n - d] \in X
      BY <1>4, <1>14, <3>1, <3>2, Zenon
    <3> QED BY <3>1, <3>3
  <2> HIDE DEF S
  <2>3. \A d \in 0 .. n : d \in S
    BY <1>2, <2>1, <2>2, UpTo, Zenon
  <2>4. ASSUME NEW k \in 1 .. n + 1 PROVE r[k] \in X
    <3>1. n + 1 - k \in 0 .. n /\ n + 1 - (n + 1 - k) = k
      BY <1>2
    <3>2. r[n + 1 - (n + 1 - k)] \in X
      BY <2>3, <3>1 DEF S
    <3> QED BY <3>1, <3>2
  <2> QED BY <2>4
<1> QED BY <1>14, <1>15, <1>16, Zenon DEF Wraps, n, base, X

\* What is so after the layers from k on, if a Recovery is among them (rec) or not.
Shown(r) == IF r.status = None THEN "ok" ELSE r.status
Answered(h, rec, r) ==
  /\ r.panicked <=> h.panicked /\ ~rec
  /\ r.status = IF h.status # None THEN h.status ELSE IF h.panicked /\ rec THEN "error" ELSE None
  /\ r.panicked => r.seen = <<>>
  /\ Chain!ToSet(r.seen) \subseteq {Shown(r)}

\* With a Recovery inside no panic passes, and the client gets what was sent first.
LEMMA RecoverAnswers ==
  ASSUME NEW h, NEW rec, NEW r \in Written, Answered(h, rec, r), NEW now, now
  PROVE  Answered(h, now, Chain!Recover(r))
<1> DEFINE x == Chain!Recover(r)
<1>1. r.status \in Texts /\ r.panicked \in BOOLEAN /\ r.seen \in Seq(Texts)
  BY DEF Written
<1>2. CASE r.panicked
  <2>1. x = [r EXCEPT !.status = IF @ = None THEN "error" ELSE @, !.panicked = FALSE]
    BY <1>2 DEF Chain!Recover
  <2>2. x.status = (IF r.status = None THEN "error" ELSE r.status) /\ x.panicked = FALSE /\ x.seen = r.seen
    BY <2>1 DEF Written
  <2>3. r.seen = <<>> /\ h.panicked
    BY <1>2 DEF Answered
  <2>4. Chain!ToSet(x.seen) = {}
    <3>1. x.seen = <<>>
      BY <2>2, <2>3
    <3> HIDE DEF x
    <3> QED BY <3>1 DEF Chain!ToSet
  <2> HIDE DEF x
  <2>5. x.status = IF h.status # None THEN h.status ELSE "error"
    BY <1>2, <2>2, <2>3 DEF Answered
  <2>6. ~x.panicked
    BY <2>2
  <2>7. x.status = IF h.status # None THEN h.status ELSE IF h.panicked /\ now THEN "error" ELSE None
    BY <2>3, <2>5, Zenon
  <2>8. x.panicked <=> h.panicked /\ ~now
    BY <2>6, Zenon
  <2>9. Chain!ToSet(x.seen) \subseteq {Shown(x)}
    BY <2>4, Zenon
  <2> QED BY <2>6, <2>7, <2>8, <2>9, Zenon DEF Answered, x
<1>3. CASE ~r.panicked
  <2>1. x = r
    BY <1>3 DEF Chain!Recover
  <2> HIDE DEF x
  <2>2. ~(h.panicked /\ ~rec)
    BY <1>3 DEF Answered
  <2>3. h.panicked => rec
    BY <2>2
  <2>4. r.status = IF h.status # None THEN h.status ELSE IF h.panicked /\ rec THEN "error" ELSE None
    BY Zenon DEF Answered
  <2>5. r.status = IF h.status # None THEN h.status ELSE IF h.panicked /\ now THEN "error" ELSE None
    BY <2>3, <2>4, Zenon
  <2>6. r.panicked <=> h.panicked /\ ~now
    BY <1>3, Zenon
  <2>7. Chain!ToSet(r.seen) \subseteq {Shown(r)}
    BY Zenon DEF Answered
  <2> QED BY <1>3, <2>1, <2>5, <2>6, <2>7, Zenon DEF Answered, x
<1> QED BY <1>1, <1>2, <1>3

\* What was captured is what the client gets.
LEMMA CaptureAnswers ==
  ASSUME NEW h, NEW rec, NEW r \in Written, Answered(h, rec, r)
  PROVE  /\ Answered(h, rec, Chain!Capture(r))
         /\ ~r.panicked => Chain!Capture(r).seen # <<>>
<1> DEFINE x == Chain!Capture(r)
           a == IF r.status = None THEN "ok" ELSE r.status
<1>1. r.status \in Texts /\ r.panicked \in BOOLEAN /\ r.seen \in Seq(Texts)
  BY DEF Written
<1>2. CASE r.panicked
  <2>1. x = r
    BY <1>2 DEF Chain!Capture
  <2> HIDE DEF x
  <2> QED BY <1>2, <2>1 DEF x
<1>3. CASE ~r.panicked
  <2>1. x = [r EXCEPT !.seen = Append(@, a)]
    BY <1>3 DEF Chain!Capture
  <2>2. x.seen = Append(r.seen, a) /\ x.status = r.status /\ x.panicked = r.panicked
    BY <2>1 DEF Written
  <2>3. a \in Texts
    BY <1>1 DEF Texts
  <2>4. Shown(x) = a /\ Shown(r) = a
    <3> HIDE DEF x
    <3> QED BY <2>2 DEF Shown
  <2> HIDE DEF x, a
  <2>5. Chain!ToSet(Append(r.seen, a)) \subseteq {a} /\ Append(r.seen, a) # <<>>
    <3>1. Chain!ToSet(r.seen) \subseteq {a}
      BY <2>4, Zenon DEF Answered
    <3>2. \A i \in DOMAIN r.seen : r.seen[i] = a
      BY <3>1, Zenon DEF Chain!ToSet
    <3>3. \A i \in DOMAIN Append(r.seen, a) : Append(r.seen, a)[i] = a
      BY <1>1, <2>3, <3>2
    <3>4. Chain!ToSet(Append(r.seen, a)) \subseteq {a}
      BY <3>3, Zenon DEF Chain!ToSet
    <3> QED BY <1>1, <2>3, <3>4
  <2>6. Answered(h, rec, x)
    BY <1>3, <2>2, <2>4, <2>5, Zenon DEF Answered
  <2> QED BY <1>3, <2>2, <2>5, <2>6, Zenon DEF x
<1> QED BY <1>1, <1>2, <1>3

\* A panic is answered, and the answer is captured as it is sent.
LEMMA WritersHold ==
  ASSUME NEW layers \in Seq({"recovery", "capture"}), NEW program \in Seq(STRING)
  PROVE  Chain!PanicsAreAnswered(layers, program)
<1> DEFINE n == Len(layers)
           h == Handled(program)
           Rec(k) == \E i \in k .. n : layers[i] = "recovery"
           R == Chain!Then(layers, program)
<1>1. PICK r : Wraps(layers, program, r)
  BY WrapsExist, Zenon
<1>2. /\ \A k \in 1 .. n + 1 : r[k] \in Written
      /\ r[n + 1] = h /\ R = r[1]
      /\ \A k \in 1 .. n : r[k] = Wrapped(layers[k], r[k + 1])
  BY <1>1, Zenon DEF Wraps
<1>3. /\ n \in Nat /\ DOMAIN layers = 1 .. n
      /\ \A k \in 1 .. n : layers[k] \in {"recovery", "capture"}
  OBVIOUS
<1>4. /\ h \in Written /\ h.seen = <<>>
      /\ h.panicked <=> "panic" \in Chain!ToSet(program)
      /\ h.status = IF program = <<>> THEN None
                    ELSE IF program[1] = "panic" THEN None ELSE program[1]
      /\ program # <<>> /\ program[1] = "panic" => h.panicked
      /\ program = <<>> => ~h.panicked
  BY HandledIs, Zenon
<1> HIDE DEF n, h, R
<1>5. h.panicked \in BOOLEAN
  BY <1>4 DEF Written
<1> DEFINE S == {d \in 0 .. n : Answered(h, Rec(n + 1 - d), r[n + 1 - d])}
<1>6. 0 \in S
  <2>1. 0 \in 0 .. n /\ n + 1 - 0 = n + 1 /\ (n + 1) .. n = {}
    BY <1>3
  <2>2. ~Rec(n + 1)
    BY <2>1, Zenon
  <2>3. Chain!ToSet(h.seen) = {}
    BY <1>4 DEF Chain!ToSet
  <2>4. Answered(h, FALSE, h)
    BY <1>4, <1>5, <2>3 DEF Answered
  <2>5. Rec(n + 1) = FALSE
    BY <2>2
  <2> HIDE DEF Rec
  <2> QED BY <1>2, <2>1, <2>4, <2>5
<1>7. ASSUME NEW d \in 0 .. n - 1, d \in S PROVE d + 1 \in S
  <2> DEFINE k == n - d
  <2>1. k \in 1 .. n /\ k + 1 = n + 1 - d /\ n + 1 - (d + 1) = k /\ d + 1 \in 0 .. n /\ k + 1 \in 1 .. n + 1
    BY <1>3
  <2>2. Answered(h, Rec(k + 1), r[k + 1]) /\ r[k + 1] \in Written
    BY <1>2, <1>7, <2>1
  <2>3. Rec(k) <=> layers[k] = "recovery" \/ Rec(k + 1)
    <3>1. \A i : i \in k .. n <=> i = k \/ i \in (k + 1) .. n
      BY <1>3, <2>1
    <3> HIDE DEF k
    <3> QED BY <3>1, Zenon
  <2>4. Rec(k) \in BOOLEAN /\ Rec(k + 1) \in BOOLEAN
    BY Zenon
  <2> HIDE DEF k, Rec
  <2>5. CASE layers[k] = "recovery"
    <3>1. r[k] = Chain!Recover(r[k + 1])
      BY <1>2, <2>1, <2>5, Zenon DEF Wrapped
    <3>2. Rec(k)
      BY <2>3, <2>5, Zenon
    <3>3. Answered(h, Rec(k), Chain!Recover(r[k + 1]))
      BY <2>2, <3>2, RecoverAnswers, Zenon
    <3> QED BY <2>1, <3>1, <3>3
  <2>6. CASE layers[k] # "recovery"
    <3>1. r[k] = Chain!Capture(r[k + 1])
      BY <1>2, <2>1, <2>6, Zenon DEF Wrapped
    <3>2. Answered(h, Rec(k + 1), Chain!Capture(r[k + 1]))
      BY <2>2, CaptureAnswers, Zenon
    <3>3. Rec(k) = Rec(k + 1)
      BY <2>3, <2>4, <2>6
    <3> QED BY <2>1, <3>1, <3>2, <3>3
  <2> QED BY <2>5, <2>6
<1> HIDE DEF S
<1>8. \A d \in 0 .. n : d \in S
  BY <1>3, <1>6, <1>7, UpTo, Zenon
<1>9. ASSUME NEW k \in 1 .. n + 1 PROVE Answered(h, Rec(k), r[k])
  <2>1. n + 1 - k \in 0 .. n /\ n + 1 - (n + 1 - k) = k
    BY <1>3
  <2>2. Answered(h, Rec(n + 1 - (n + 1 - k)), r[n + 1 - (n + 1 - k)])
    BY <1>8, <2>1, Zenon DEF S
  <2> HIDE DEF Rec
  <2> QED BY <2>1, <2>2
<1>10. Answered(h, Rec(1), R)
  <2>1. 1 \in 1 .. n + 1
    BY <1>3
  <2> HIDE DEF Rec
  <2> QED BY <1>2, <1>9, <2>1
<1>11. Rec(1) <=> "recovery" \in Chain!ToSet(layers)
  BY <1>3, Zenon DEF Chain!ToSet
<1>12. None # "error" /\ \A i \in DOMAIN program : program[i] # None
  <2>1. \A i \in DOMAIN program : program[i] \in STRING
    OBVIOUS
  <2> QED BY <2>1, NoneAssumption DEF NoneAssumption
<1>13. ASSUME "recovery" \in Chain!ToSet(layers)
       PROVE  /\ ~R.panicked
              /\ Shown(R) = IF program = <<>> THEN "ok"
                            ELSE IF program[1] = "panic" THEN "error" ELSE program[1]
  <2>1. Rec(1)
    BY <1>11, <1>13, Zenon
  <2> HIDE DEF Rec
  <2>2. /\ ~R.panicked
        /\ R.status = IF h.status # None THEN h.status ELSE IF h.panicked THEN "error" ELSE None
    BY <1>10, <2>1, Zenon DEF Answered
  <2>3. program # <<>> => program[1] # None
    <3>1. program # <<>> => 1 \in DOMAIN program
      OBVIOUS
    <3> QED BY <1>12, <3>1, Zenon
  <2> QED BY <1>4, <1>12, <2>2, <2>3 DEF Shown
<1>14. ASSUME "recovery" \in Chain!ToSet(layers) \/ "panic" \notin Chain!ToSet(program),
              layers # <<>>, layers[1] = "capture"
       PROVE  R.seen # <<>>
  <2>1. 1 \in 1 .. n /\ 1 + 1 \in 1 .. n + 1
    <3>1. n # 0
      BY <1>14 DEF n
    <3> QED BY <1>3, <3>1
  <2>2. Answered(h, Rec(1 + 1), r[1 + 1]) /\ r[1 + 1] \in Written
    BY <1>2, <1>9, <2>1
  <2>3. R = Chain!Capture(r[1 + 1])
    <3>1. "capture" # "recovery"
      OBVIOUS
    <3> QED BY <1>2, <1>14, <2>1, <3>1, Zenon DEF Wrapped
  <2>4. Rec(1) => Rec(1 + 1)
    <3>1. \A i \in 1 .. n : i = 1 \/ i \in (1 + 1) .. n
      BY <1>3
    <3>2. layers[1] # "recovery"
      BY <1>14
    <3> QED BY <3>1, <3>2, Zenon
  <2>5. ~r[1 + 1].panicked
    <3>1. Rec(1 + 1) \/ ~h.panicked
      BY <1>4, <1>11, <1>14, <2>4, Zenon
    <3> HIDE DEF Rec
    <3> QED BY <2>2, <3>1, Zenon DEF Answered
  <2> HIDE DEF Rec
  <2> QED BY <2>2, <2>3, <2>5, CaptureAnswers, Zenon
<1>15. Chain!ToSet(R.seen) \subseteq {Shown(R)}
  BY <1>10, Zenon DEF Answered
<1> QED BY <1>13, <1>14, <1>15, Zenon DEF Chain!PanicsAreAnswered, Shown, R

-----------------------------------------------------------------------------
(* Origins *)

Names == STRING \X BOOLEAN

\* What is kept of the names that were asked for.
Keep(config, kept, h) ==
  IF Chain!InSomeCase(h, config.headers) THEN Append(kept, h) ELSE kept

KeepIter(config, requested, D, it) ==
  it = [s \in SUBSET D |->
          IF s = {} THEN <<>> ELSE Keep(config, it[s \ {Chain!Max(s)}], requested[Chain!Max(s)])]

Keeps(config, requested, p) ==
  /\ \A k \in 0 .. Len(requested) : p[k] \in Seq(Names)
  /\ p[0] = <<>>
  /\ \A k \in 1 .. Len(requested) : p[k] = Keep(config, p[k - 1], requested[k])
  /\ Chain!FilterAllowedHeaders(config, requested) = p[Len(requested)]

\* Filtering headers, one after the other.
LEMMA KeepsExist ==
  ASSUME NEW config, NEW requested \in Seq(Names)
  PROVE  \E p : Keeps(config, requested, p)
<1> DEFINE n == Len(requested)
           X == Seq(Names)
           e == <<>>
           F == [a \in X \X (1 .. n) |-> Keep(config, a[1], requested[a[2]])]
           it == CHOOSE f : KeepIter(config, requested, DOMAIN requested, f)
<1>1. Chain!FilterAllowedHeaders(config, requested) = it[DOMAIN requested]
  BY Zenon DEF Chain!FilterAllowedHeaders, Chain!FoldLeft, Chain!MapThenFoldSet, KeepIter, Keep
<1>2. n \in Nat /\ DOMAIN requested = 1 .. n /\ \A k \in 1 .. n : requested[k] \in Names
  <2> HIDE DEF Names
  <2> QED OBVIOUS
<1> HIDE DEF n
<1>3. e \in X
  OBVIOUS
<1>4. ASSUME NEW x \in X, NEW k \in 1 .. n
      PROVE  F[<<x, k>>] = Keep(config, x, requested[k]) /\ Keep(config, x, requested[k]) \in X
  <2>1. F[<<x, k>>] = Keep(config, x, requested[k])
    OBVIOUS
  <2>2. requested[k] \in Names
    BY <1>2
  <2>3. Keep(config, x, requested[k]) \in X
    <3>1. Append(x, requested[k]) \in X
      BY <2>2
    <3> QED BY <3>1, Zenon DEF Keep
  <2> QED BY <2>1, <2>3
<1> HIDE DEF X, e
<1>5. F \in [X \X (1 .. n) -> X]
  <2>1. \A a \in X \X (1 .. n) : a[1] \in X /\ a[2] \in 1 .. n
    OBVIOUS
  <2>2. \A a \in X \X (1 .. n) : Keep(config, a[1], requested[a[2]]) \in X
    BY <1>4, <2>1, Zenon
  <2> QED BY <2>2
<1> HIDE DEF F
<1>6. PICK g \in [SUBSET (1 .. n) -> X] : FoldsPlaces(n, e, F, g)
  BY <1>2, <1>3, <1>5, FoldLeftExists, Zenon
<1>7. /\ \A s \in SUBSET (1 .. n) : Chain!Max(s) = Largest(s) /\ s \ {Largest(s)} \in SUBSET (1 .. n)
      /\ \A s \in SUBSET (1 .. n) : s # {} => Largest(s) \in 1 .. n
  <2>1. \A s \in SUBSET (1 .. n) : Chain!Max(s) = Largest(s) /\ s \ {Largest(s)} \in SUBSET (1 .. n)
    BY Zenon DEF Chain!Max, Largest
  <2>2. \A s \in SUBSET (1 .. n) : s # {} => Largest(s) \in 1 .. n
    BY <1>2, LargestIn, Zenon
  <2> QED BY <2>1, <2>2
<1>8. KeepIter(config, requested, 1 .. n, g)
  <2>1. ASSUME NEW s \in SUBSET (1 .. n)
        PROVE  g[s] = IF s = {} THEN e
                      ELSE Keep(config, g[s \ {Chain!Max(s)}], requested[Chain!Max(s)])
    <3>1. g[s \ {Largest(s)}] \in X
      BY <1>7
    <3>2. g[s] = IF s = {} THEN e ELSE F[<<g[s \ {Largest(s)}], Largest(s)>>]
      BY <1>6, Zenon DEF FoldsPlaces
    <3>3. CASE s = {}
      BY <3>2, <3>3, Zenon
    <3>4. CASE s # {}
      <4>1. Chain!Max(s) = Largest(s) /\ Largest(s) \in 1 .. n
        BY <1>7, <3>4, Zenon
      <4>2. g[s] = Keep(config, g[s \ {Largest(s)}], requested[Largest(s)])
        BY <1>4, <3>1, <3>2, <3>4, <4>1, Zenon
      <4> QED BY <3>4, <4>1, <4>2, Zenon
    <3> QED BY <3>3, <3>4
  <2>2. g = [s \in SUBSET (1 .. n) |-> g[s]]
    OBVIOUS
  <2> QED BY <2>1, <2>2, Zenon DEF KeepIter, e
<1>9. KeepIter(config, requested, 1 .. n, it)
  <2>1. KeepIter(config, requested, DOMAIN requested, g)
    BY <1>2, <1>8, Zenon
  <2>2. KeepIter(config, requested, DOMAIN requested, it)
    BY <2>1, Zenon
  <2> QED BY <1>2, <2>2, Zenon
<1> HIDE DEF it
<1>10. FoldsOn(n, X, e, F, it)
  <2>1. {} \in SUBSET (1 .. n)
    OBVIOUS
  <2>2. it[{}] = e
    BY <1>9, <2>1, Zenon DEF KeepIter, e
  <2>3. ASSUME NEW s \in SUBSET (1 .. n), s # {}, it[s \ {Largest(s)}] \in X
        PROVE  it[s] = F[<<it[s \ {Largest(s)}], Largest(s)>>]
    <3>1. Chain!Max(s) = Largest(s) /\ Largest(s) \in 1 .. n
      BY <1>7, <2>3, Zenon
    <3>2. it[s] = Keep(config, it[s \ {Chain!Max(s)}], requested[Chain!Max(s)])
      BY <1>9, <2>3, Zenon DEF KeepIter
    <3> QED BY <1>4, <2>3, <3>1, <3>2, Zenon
  <2> QED BY <2>2, <2>3, Zenon DEF FoldsOn
<1>11. StepsOn(n, X, e, F, it)
  BY <1>2, <1>3, <1>5, <1>10, FoldLeftSteps, Zenon
<1> DEFINE p == [k \in 0 .. n |-> it[1 .. k]]
<1>12. \A k \in 0 .. n : p[k] = it[1 .. k] /\ p[k] \in X
  BY <1>11, Zenon DEF StepsOn
<1>13. p[0] = e /\ Chain!FilterAllowedHeaders(config, requested) = p[n]
  <2>1. 0 \in 0 .. n /\ n \in 0 .. n
    BY <1>2
  <2> QED BY <1>1, <1>2, <1>11, <1>12, <2>1, Zenon DEF StepsOn
<1>14. ASSUME NEW k \in 1 .. n PROVE p[k] = Keep(config, p[k - 1], requested[k])
  <2>1. k \in 0 .. n /\ k - 1 \in 0 .. n
    BY <1>2
  <2>2. it[1 .. k] = F[<<it[1 .. (k - 1)], k>>]
    BY <1>11, Zenon DEF StepsOn
  <2> HIDE DEF p
  <2> QED BY <1>4, <1>12, <2>1, <2>2, Zenon
<1> HIDE DEF p
<1> QED BY <1>12, <1>13, <1>14, Zenon DEF Keeps, n, X, e

\* f finds the names that are kept among those that were asked for.
Finds(f, kept, requested, k, grant) ==
  /\ f \in [1 .. Len(kept) -> 1 .. k]
  /\ \A i \in 1 .. k : grant[i] <=> \E j \in 1 .. Len(kept) : f[j] = i
  /\ \A i, j \in 1 .. Len(kept) : i < j => f[i] < f[j]
  /\ \A i \in 1 .. Len(kept) : kept[i] = requested[f[i]]

\* A filtered sequence with one header more.
LEMMA FindsMore ==
  ASSUME NEW requested, NEW k \in Nat, NEW kept \in Seq(Names), requested[k + 1] \in Names,
         NEW grant, NEW f, Finds(f, kept, requested, k, grant)
  PROVE  \E g : Finds(g, IF grant[k + 1] THEN Append(kept, requested[k + 1]) ELSE kept,
                      requested, k + 1, grant)
<1> DEFINE n == Len(kept)
           h == requested[k + 1]
           g == [i \in 1 .. n + 1 |-> IF i = n + 1 THEN k + 1 ELSE f[i]]
           more == Append(kept, h)
<1>1. /\ n \in Nat /\ f \in [1 .. n -> 1 .. k]
      /\ \A i \in 1 .. k : grant[i] <=> \E j \in 1 .. n : f[j] = i
      /\ \A i, j \in 1 .. n : i < j => f[i] < f[j]
      /\ \A i \in 1 .. n : kept[i] = requested[f[i]]
  BY DEF Finds
<1>2. \A i \in 1 .. k + 1 : i \in 1 .. k \/ i = k + 1
  OBVIOUS
<1>3. CASE grant[k + 1]
  <2>1. /\ Len(more) = n + 1 /\ more[n + 1] = h /\ \A i \in 1 .. n : more[i] = kept[i]
    <3> HIDE DEF h, Names
    <3>1. h \in Names
      BY DEF h
    <3> QED BY <1>1, <3>1
  <2> HIDE DEF n, more, h
  <2>2. /\ g \in [1 .. n + 1 -> 1 .. k + 1] /\ g[n + 1] = k + 1
        /\ \A i \in 1 .. n : g[i] = f[i] /\ f[i] \in 1 .. k
    BY <1>1
  <2>3. /\ n + 1 \in 1 .. n + 1 /\ n + 1 \notin 1 .. n
        /\ \A i \in 1 .. n + 1 : i \in 1 .. n \/ i = n + 1
        /\ \A i \in 1 .. n : i \in 1 .. n + 1
    BY <1>1
  <2> HIDE DEF g
  <2>4. \A i \in 1 .. k + 1 : grant[i] <=> \E j \in 1 .. n + 1 : g[j] = i
    <3>1. ASSUME NEW i \in 1 .. k PROVE grant[i] <=> \E j \in 1 .. n + 1 : g[j] = i
      <4>1. g[n + 1] # i
        BY <2>2
      <4>2. ASSUME grant[i] PROVE \E j \in 1 .. n + 1 : g[j] = i
        <5>1. PICK j \in 1 .. n : f[j] = i
          BY <1>1, <4>2, Zenon
        <5> QED BY <2>2, <2>3, <5>1, Zenon
      <4>3. ASSUME NEW j \in 1 .. n + 1, g[j] = i PROVE grant[i]
        <5>1. j \in 1 .. n /\ f[j] = i
          BY <2>2, <2>3, <4>1, <4>3, Zenon
        <5> QED BY <1>1, <5>1, Zenon
      <4> QED BY <4>2, <4>3, Zenon
    <3>2. grant[k + 1] <=> \E j \in 1 .. n + 1 : g[j] = k + 1
      BY <1>3, <2>2, <2>3, Zenon
    <3> QED BY <1>2, <3>1, <3>2, Zenon
  <2>5. ASSUME NEW i \in 1 .. n + 1, NEW j \in 1 .. n + 1, i < j PROVE g[i] < g[j]
    <3>1. i \in 1 .. n
      BY <1>1, <2>5
    <3>2. CASE j \in 1 .. n
      BY <1>1, <2>2, <2>5, <3>1, <3>2
    <3>3. CASE j = n + 1
      BY <2>2, <3>1, <3>3
    <3> QED BY <2>3, <3>2, <3>3
  <2>6. \A i \in 1 .. n + 1 : more[i] = requested[g[i]]
    BY <1>1, <2>1, <2>2, <2>3, Zenon DEF h
  <2>7. Finds(g, more, requested, k + 1, grant)
    BY <2>1, <2>2, <2>4, <2>5, <2>6, Zenon DEF Finds
  <2> QED BY <1>3, <2>7, Zenon DEF more, h
<1>4. CASE ~grant[k + 1]
  <2>1. f \in [1 .. n -> 1 .. k + 1] /\ \A j \in 1 .. n : f[j] # k + 1
    BY <1>1
  <2>2. Finds(f, kept, requested, k + 1, grant)
    BY <1>1, <1>2, <1>4, <2>1, Zenon DEF Finds
  <2> QED BY <1>4, <2>2, Zenon
<1> QED BY <1>3, <1>4

\* The headers that were kept are the configured ones, in the order of the request.
LEMMA KeptAre ==
  ASSUME NEW config, NEW requested \in Seq(Names)
  PROVE  \E f : Finds(f, Chain!FilterAllowedHeaders(config, requested), requested, Len(requested),
                      [i \in 1 .. Len(requested) |-> Chain!InSomeCase(requested[i], config.headers)])
<1> DEFINE n == Len(requested)
           grant == [i \in 1 .. n |-> Chain!InSomeCase(requested[i], config.headers)]
<1>1. PICK p : Keeps(config, requested, p)
  BY KeepsExist, Zenon
<1>2. /\ \A k \in 0 .. n : p[k] \in Seq(Names)
      /\ p[0] = <<>>
      /\ \A k \in 1 .. n : p[k] = Keep(config, p[k - 1], requested[k])
      /\ Chain!FilterAllowedHeaders(config, requested) = p[n]
  BY <1>1, Zenon DEF Keeps
<1>3. n \in Nat /\ \A k \in 1 .. n : requested[k] \in Names
  <2> HIDE DEF Names
  <2> QED OBVIOUS
<1>4. \A k \in 1 .. n : grant[k] <=> Chain!InSomeCase(requested[k], config.headers)
  BY Zenon
<1> HIDE DEF n, grant
<1> DEFINE S == {k \in 0 .. n : \E f : Finds(f, p[k], requested, k, grant)}
<1>5. 0 \in S
  <2>1. 0 \in 0 .. n /\ Len(p[0]) = 0 /\ 1 .. 0 = {}
    BY <1>2, <1>3
  <2>2. [i \in {} |-> i] \in [1 .. Len(p[0]) -> 1 .. 0]
    BY <2>1
  <2>3. \A i \in 1 .. 0 : FALSE
    BY <2>1
  <2>4. \A i \in 1 .. Len(p[0]) : FALSE
    BY <2>1
  <2>5. Finds([i \in {} |-> i], p[0], requested, 0, grant)
    BY <2>2, <2>3, <2>4, Zenon DEF Finds
  <2> QED BY <2>1, <2>5, Zenon
<1>6. ASSUME NEW k \in 0 .. n - 1, k \in S PROVE k + 1 \in S
  <2>1. k + 1 \in 1 .. n /\ k + 1 \in 0 .. n /\ (k + 1) - 1 = k /\ k \in 0 .. n /\ k \in Nat
    BY <1>3
  <2>2. PICK f : Finds(f, p[k], requested, k, grant)
    BY <1>6, Zenon
  <2>3. p[k] \in Seq(Names) /\ requested[k + 1] \in Names
    BY <1>2, <1>3, <2>1, Zenon
  <2>4. p[k + 1] = IF grant[k + 1] THEN Append(p[k], requested[k + 1]) ELSE p[k]
    <3>1. p[k + 1] = Keep(config, p[(k + 1) - 1], requested[k + 1])
      BY <1>2, <2>1, Zenon
    <3>2. p[k + 1] = Keep(config, p[k], requested[k + 1])
      BY <2>1, <3>1
    <3> QED BY <1>4, <2>1, <3>2, Zenon DEF Keep
  <2>5. \E g : Finds(g, IF grant[k + 1] THEN Append(p[k], requested[k + 1]) ELSE p[k],
                     requested, k + 1, grant)
    BY <2>1, <2>2, <2>3, FindsMore, Zenon
  <2> QED BY <2>1, <2>4, <2>5, Zenon
<1> HIDE DEF S
<1>7. \A k \in 0 .. n : k \in S
  BY <1>3, <1>5, <1>6, UpTo, Zenon
<1>8. n \in 0 .. n
  BY <1>3
<1> QED BY <1>2, <1>7, <1>8, Zenon DEF S, n, grant

\* A browser that asks first is promised what it is then given.
LEMMA OriginsHold ==
  ASSUME NEW config, NEW origin, NEW requested \in Seq(Names)
  PROVE  Chain!PreflightsAgree(config, origin, requested)
<1> DEFINE asked == Chain!CORS(config, "OPTIONS", origin, requested)
           sent == Chain!CORS(config, "GET", origin, <<>>)
           allowed == config.enabled /\ origin # None /\ Chain!IsOriginAllowed(config, origin)
           name == IF allowed THEN Chain!OriginNamed(config, origin) ELSE None
           granted == {i \in DOMAIN requested :
                         Chain!AllowsAny(config.headers) \/ Chain!InSomeCase(requested[i], config.headers)}
           n == Len(requested)
<1>1. asked = [handled |-> ~(config.enabled /\ "OPTIONS" = "OPTIONS"), origin |-> name,
               credentials |-> allowed /\ config.credentials,
               headers |-> IF allowed /\ (config.enabled /\ "OPTIONS" = "OPTIONS")
                             THEN Chain!AllowHeaders(config, requested) ELSE <<>>]
  BY Zenon DEF Chain!CORS
<1>2. sent = [handled |-> ~(config.enabled /\ "GET" = "OPTIONS"), origin |-> name,
              credentials |-> allowed /\ config.credentials,
              headers |-> IF allowed /\ (config.enabled /\ "GET" = "OPTIONS")
                            THEN Chain!AllowHeaders(config, <<>>) ELSE <<>>]
  BY Zenon DEF Chain!CORS
<1>3. name \in {None, origin} /\ (name # None => allowed)
  <2> HIDE DEF allowed
  <2> QED BY Zenon DEF Chain!OriginNamed
<1> HIDE DEF name
<1>4. /\ sent.handled
      /\ asked.origin = name /\ sent.origin = name /\ asked.credentials = sent.credentials
  <2> HIDE DEF allowed, asked, sent
  <2> QED BY <1>1, <1>2
<1>5. ASSUME config.enabled, name # None, requested # <<>>
      PROVE  asked.headers = IF Chain!AllowsAny(config.headers) THEN requested
                             ELSE Chain!FilterAllowedHeaders(config, requested)
  <2>1. allowed
    BY <1>3, <1>5, Zenon
  <2>2. Chain!AllowHeaders(config, requested) =
          IF Chain!AllowsAny(config.headers) THEN requested
          ELSE Chain!FilterAllowedHeaders(config, requested)
    BY <1>5, Zenon DEF Chain!AllowHeaders
  <2> HIDE DEF allowed, asked
  <2>3. asked.headers = Chain!AllowHeaders(config, requested)
    BY <1>1, <1>5, <2>1
  <2> QED BY <2>2, <2>3, Zenon
<1>6. n \in Nat /\ DOMAIN requested = 1 .. n
  <2> HIDE DEF Names
  <2> QED OBVIOUS
<1>7. ASSUME config.enabled, name # None, requested # <<>>
      PROVE  \E f : Finds(f, asked.headers, requested, n, [i \in 1 .. n |-> i \in granted])
  <2> HIDE DEF asked, name
  <2>1. CASE Chain!AllowsAny(config.headers)
    <3>1. asked.headers = requested
      BY <1>5, <1>7, <2>1, Zenon
    <3> DEFINE f == [i \in 1 .. n |-> i]
    <3>2. f \in [1 .. n -> 1 .. n] /\ \A i \in 1 .. n : f[i] = i
      OBVIOUS
    <3>3. \A i \in 1 .. n : [j \in 1 .. n |-> j \in granted][i]
      BY <1>6, <2>1, Zenon
    <3>4. \A i, j \in 1 .. n : i < j => f[i] < f[j]
      BY <3>2, Zenon
    <3> HIDE DEF f, granted
    <3>5. Finds(f, requested, requested, n, [i \in 1 .. n |-> i \in granted])
      BY <3>2, <3>3, <3>4, Zenon DEF Finds
    <3> QED BY <3>1, <3>5, Zenon
  <2>2. CASE ~Chain!AllowsAny(config.headers)
    <3>1. asked.headers = Chain!FilterAllowedHeaders(config, requested)
      BY <1>5, <1>7, <2>2, Zenon
    <3> DEFINE kept == Chain!FilterAllowedHeaders(config, requested)
               cases == [i \in 1 .. n |-> Chain!InSomeCase(requested[i], config.headers)]
               grant == [i \in 1 .. n |-> i \in granted]
    <3>2. PICK f : Finds(f, kept, requested, n, cases)
      BY KeptAre, Zenon
    <3>3. \A i \in 1 .. n : grant[i] <=> cases[i]
      <4>1. \A i \in 1 .. n : grant[i] <=> i \in granted
        BY Zenon
      <4>2. \A i \in 1 .. n : cases[i] <=> Chain!InSomeCase(requested[i], config.headers)
        BY Zenon
      <4> HIDE DEF grant, cases
      <4> QED BY <1>6, <2>2, <4>1, <4>2, Zenon
    <3> HIDE DEF grant, cases, kept
    <3>4. Finds(f, kept, requested, n, grant)
      BY <3>2, <3>3, Zenon DEF Finds
    <3> QED BY <3>1, <3>4, Zenon DEF grant, kept
  <2> QED BY <2>1, <2>2
<1>8. ASSUME config.enabled, name # None, requested # <<>>
      PROVE  \E f \in Chain!Injection(1 .. Len(asked.headers), DOMAIN requested) :
               /\ Chain!Range(f) = granted
               /\ \A i, j \in DOMAIN f : i < j => f[i] < f[j]
               /\ \A i \in DOMAIN f : asked.headers[i] = requested[f[i]]
  <2> DEFINE m == Len(asked.headers)
  <2>1. PICK f : Finds(f, asked.headers, requested, n, [i \in 1 .. n |-> i \in granted])
    BY <1>7, <1>8, Zenon
  <2>2. /\ f \in [1 .. m -> 1 .. n]
        /\ \A i \in 1 .. n : [j \in 1 .. n |-> j \in granted][i] <=> \E j \in 1 .. m : f[j] = i
        /\ \A i, j \in 1 .. m : i < j => f[i] < f[j]
        /\ \A i \in 1 .. m : asked.headers[i] = requested[f[i]]
    BY <2>1, Zenon DEF Finds
  <2>3. \A i \in 1 .. n : i \in granted <=> \E j \in 1 .. m : f[j] = i
    <3> HIDE DEF granted, m
    <3> QED BY <2>2, Zenon
  <2>4. granted \subseteq 1 .. n
    BY <1>6
  <2> HIDE DEF granted, m, n, asked
  <2>5. DOMAIN f = 1 .. m /\ \A i \in 1 .. m : f[i] \in 1 .. n
    BY <2>2
  <2>6. Chain!Range(f) = granted
    BY <2>3, <2>4, <2>5, Zenon DEF Chain!Range
  <2>7. \A i, j \in 1 .. m : f[i] = f[j] => i = j
    <3>1. \A i, j \in 1 .. m : i < j => f[i] # f[j]
      BY <1>6, <2>2, <2>5
    <3>2. \A i, j \in 1 .. m : i < j \/ j < i \/ i = j
      OBVIOUS
    <3> QED BY <3>1, <3>2, Zenon
  <2>8. f \in Chain!Injection(1 .. m, DOMAIN requested)
    BY <1>6, <2>2, <2>5, <2>7, Zenon DEF Chain!Injection, Chain!IsInjective
  <2> QED BY <2>2, <2>5, <2>6, <2>8, Zenon DEF m
<1> HIDE DEF asked, sent
<1> QED BY <1>3, <1>4, <1>8, Zenon DEF Chain!PreflightsAgree, asked, sent

-----------------------------------------------------------------------------
(* All inputs *)

\* What was taken is one of its topic.
Taken ==
  input # None =>
    /\ topic = "plan" => input \in FieldsAsked
    /\ topic = "route" => input \in Routes
    /\ topic = "token" => input \in Tokens
    /\ topic = "chain" => input \in Chains
    /\ topic = "writer" => input \in Writers
    /\ topic = "origin" => input \in Origins

\* The inductive invariant: the input is one of its topic.
LEMMA TakenAlways == RequestSpec => []Taken
<1>1. topic \in RequestTopics /\ input = None => Taken
  BY Zenon DEF Taken
<1>2. Taken /\ [RequestNext]_<<topic, input>> => Taken'
  <2> SUFFICES ASSUME Taken, [RequestNext]_<<topic, input>> PROVE Taken'
    OBVIOUS
  <2>1. CASE RequestNext
    <3>1. topic' = topic /\ TakeRequest
      BY <2>1, Zenon DEF RequestNext
    <3>2. /\ topic = "plan" => input' \in FieldsAsked
          /\ topic = "route" => input' \in Routes
          /\ topic = "token" => input' \in Tokens
          /\ topic = "chain" => input' \in Chains
          /\ topic = "writer" => input' \in Writers
          /\ topic = "origin" => input' \in Origins
      BY <3>1 DEF TakeRequest
    <3> QED BY <3>1, <3>2 DEF Taken
  <2>2. CASE UNCHANGED <<topic, input>>
    BY <2>2 DEF Taken
  <2> QED BY <2>1, <2>2
<1> QED BY <1>1, <1>2, PTL DEF RequestSpec

\* For all operations, a plan has every field once and after those that it depends on, and
\* is refused when there is a cycle (schema/planner.go).
THEOREM PlansOrdered == RequestSpec => []PlansAreOrdered
<1>1. Taken => PlansAreOrdered
  <2> SUFFICES ASSUME topic = "plan", input \in FieldsAsked PROVE Tools!PlansAreOrdered(input)
    BY Zenon DEF Taken, PlansAreOrdered
  <2>1. input \in Seq(PlanField)
    BY FieldsAskedAssumption, Zenon
  <2> QED BY <2>1, PlansHold, Zenon
<1> QED BY <1>1, TakenAlways, PTL

\* For all configurations, paths, tokens, requests, programs and origins: a request goes to the
\* longest prefix, a token is checked as it was made, each layer is charged for what it lets
\* through, a panic is answered, and a preflight promises what the answer then allows
\* (proxy/router, cmd/tentaserve, gateway/auth, gateway/middleware, gateway/cors).
THEOREM RequestsAdmitted == RequestSpec => []RequestsAreAdmitted
<1>1. ASSUME input \in Routes PROVE Chain!LongestPrefixWins(input[1], input[2])
  <2>1. IsFiniteSet(DOMAIN input[1].upstreams) /\ DOMAIN input[1].upstreams \subseteq Text
    BY <1>1, RoutesAssumption, Zenon
  <2> QED BY <2>1, RoutesHold, Zenon
<1>2. ASSUME input \in Tokens
      PROVE  Chain!TokensAreChecked(input[1], input[2], input[3], input[4], input[5])
  <2>1. /\ {input[2].expires, input[4], input[5]} \subseteq Int
        /\ "exp" \in DOMAIN input[3] /\ input[3].exp[1] = "number" => input[3].exp[2] \in Int
        /\ Chain!GenerateJWT("s", "HS256", Chain!GenerateClaims(input[2], input[3], input[4])) # None
    BY <1>2, TokensAssumption, Zenon
  <2>2. input[2].expires \in Int /\ input[4] \in Int /\ input[5] \in Int
    BY <2>1, Zenon
  <2> QED BY <2>1, <2>2, TokensHold, Zenon
<1>3. ASSUME input \in Chains PROVE Chain!LayersAreCharged(input[1], input[2])
  <2>1. input \in LayerConfig \X Seq(Visit)
    BY <1>3, ChainsAssumption, Zenon
  <2>2. input[1] \in LayerConfig /\ input[2] \in Seq(Visit)
    BY <2>1
  <2> QED BY <2>2, ChainsHold, Zenon
<1>4. ASSUME input \in Writers PROVE Chain!PanicsAreAnswered(input[1], input[2])
  <2>1. input \in Seq({"recovery", "capture"}) \X Seq(STRING)
    BY <1>4, WritersAssumption, Zenon
  <2>2. input[1] \in Seq({"recovery", "capture"}) /\ input[2] \in Seq(STRING)
    BY <2>1
  <2> QED BY <2>2, WritersHold, Zenon
<1>5. ASSUME input \in Origins PROVE Chain!PreflightsAgree(input[1], input[2], input[3])
  <2>1. input[3] \in Seq(Names)
    BY <1>5, OriginsAssumption, Zenon DEF Names
  <2> QED BY <2>1, OriginsHold, Zenon
<1>6. Taken => RequestsAreAdmitted
  BY <1>1, <1>2, <1>3, <1>4, <1>5, Zenon DEF Taken, RequestsAreAdmitted
<1> QED BY <1>6, TakenAlways, PTL
=============================================================================
