------------------------- MODULE Communities_proofs -------------------------
(***************************************************************************)
(* Placing entities in communities is sound for every graph, and whatever  *)
(* the indexer does meanwhile and wherever a run is cut off, the rows of   *)
(* the summarizer say what they were made of, a run that missed nothing    *)
(* leaves the summaries of the present communities, and the next one makes *)
(* no new ones.  Entities and the tables of the indexer are any.  The      *)
(* neighborhoods that local retrieval is shown are fair, for any table.    *)
(***************************************************************************)
EXTENDS Communities, Parts_proofs

(***************************************************************************)
(* Entities are finitely many; weights are numbers.                        *)
(***************************************************************************)
LEMMA EntityFinite ==
    /\ IsFiniteSet(Entity) /\ Entity \subseteq Nat /\ Cardinality(Entity) \in Nat
    /\ \A S \in SUBSET Entity : /\ IsFiniteSet(S) /\ Cardinality(S) \in Nat
                                /\ Cardinality(S) <= Cardinality(Entity)
BY ClusteringAssumption, FS_Subset, FS_CardinalityType DEF ClusteringAssumption

LEMMA WeightType ==
    ASSUME NEW ties, CooccurrenceGraph(ties), NEW a, NEW b
    PROVE  /\ Weight(ties, a, b) \in Nat
           /\ Weight(ties, a, b) > 0 <=> Ordered(a, b) \in DOMAIN ties
BY DEF CooccurrenceGraph, Weight

(***************************************************************************)
(* The sum over a set of entities is a natural number.  It is a recursive  *)
(* function over the subsets; that there is one is shown over the number   *)
(* of their elements, as the absence of a least number without one.        *)
(***************************************************************************)
AnyOf(s) == CHOOSE x \in s : TRUE
UpTo(S, n) == {s \in SUBSET S : Cardinality(s) <= n}
IsSum(ties, e, S, n, g) ==
    g = [s \in UpTo(S, n) |-> IF s = {} THEN 0 ELSE Weight(ties, AnyOf(s), e) + g[s \ {AnyOf(s)}]]

LEMMA SumExists ==
    ASSUME NEW ties, CooccurrenceGraph(ties), NEW e, NEW S, IsFiniteSet(S)
    PROVE  \A n \in Nat : \E g \in [UpTo(S, n) -> Nat] : IsSum(ties, e, S, n, g)
<1> DEFINE Missing == {n \in Nat : ~\E g \in [UpTo(S, n) -> Nat] : IsSum(ties, e, S, n, g)}
<1>1. SUFFICES ASSUME Missing # {} PROVE FALSE
  OBVIOUS
<1>2. PICK n \in Missing : \A m \in Missing : n <= m
  <2> HIDE DEF Missing
  <2>1. Missing \in SUBSET Nat
    BY DEF Missing
  <2> QED BY <1>1, <2>1, LeastExists
<1>3. \A s \in SUBSET S : IsFiniteSet(s) /\ Cardinality(s) \in Nat /\ (Cardinality(s) = 0 <=> s = {})
  BY FS_Subset, FS_CardinalityType, FS_EmptySet
<1>4. ASSUME NEW s \in SUBSET S, s # {}
      PROVE  /\ AnyOf(s) \in s /\ s \ {AnyOf(s)} \in SUBSET S
             /\ Cardinality(s \ {AnyOf(s)}) = Cardinality(s) - 1
  <2>1. AnyOf(s) \in s
    BY <1>4 DEF AnyOf
  <2> QED BY <1>3, <2>1, FS_RemoveElement
<1>5. CASE n = 0
  <2> DEFINE g == [s \in UpTo(S, 0) |-> 0]
  <2>1. \A s \in UpTo(S, 0) : s = {}
    BY <1>3 DEF UpTo
  <2>2. IsSum(ties, e, S, 0, g) /\ g \in [UpTo(S, 0) -> Nat]
    BY <2>1 DEF IsSum
  <2> QED BY <1>5, <2>2
<1>6. CASE n # 0
  <2>1. n \in Nat /\ n - 1 \in Nat /\ n - 1 \notin Missing
    BY <1>2, <1>6
  <2>2. PICK g \in [UpTo(S, n - 1) -> Nat] : IsSum(ties, e, S, n - 1, g)
    BY <2>1
  <2> DEFINE Less(s) == s \ {AnyOf(s)}
             h == [s \in UpTo(S, n) |-> IF s = {} THEN 0 ELSE Weight(ties, AnyOf(s), e) + g[Less(s)]]
  <2>3. ASSUME NEW s \in UpTo(S, n), s # {}
        PROVE  Less(s) \in UpTo(S, n - 1) /\ AnyOf(s) \in S
    BY <1>3, <1>4, <2>1, <2>3 DEF UpTo
  <2>4. h \in [UpTo(S, n) -> Nat]
    <3> SUFFICES ASSUME NEW s \in UpTo(S, n), s # {} PROVE Weight(ties, AnyOf(s), e) + g[Less(s)] \in Nat
      OBVIOUS
    <3>1. Weight(ties, AnyOf(s), e) \in Nat /\ g[Less(s)] \in Nat
      BY <2>3, WeightType
    <3> QED BY <3>1
  <2>5. ASSUME NEW s \in UpTo(S, n - 1) PROVE s \in UpTo(S, n) /\ h[s] = g[s]
    <3>1. s \in UpTo(S, n)
      BY <1>3, <2>1 DEF UpTo
    <3>2. g[s] = IF s = {} THEN 0 ELSE Weight(ties, AnyOf(s), e) + g[Less(s)]
      BY <2>2 DEF IsSum
    <3> QED BY <3>1, <3>2
  <2>6. ASSUME NEW s \in UpTo(S, n)
        PROVE  h[s] = IF s = {} THEN 0 ELSE Weight(ties, AnyOf(s), e) + h[Less(s)]
    BY <2>3, <2>5
  <2>7. IsSum(ties, e, S, n, h)
    BY <2>4, <2>6 DEF IsSum
  <2> QED BY <2>1, <2>4, <2>7
<1> QED BY <1>5, <1>6

SumOf(ties, e, S) ==
    (CHOOSE g : g = [s \in SUBSET S |->
        IF s = {} THEN 0 ELSE Weight(ties, AnyOf(s), e) + g[s \ {AnyOf(s)}]])[S]

LEMMA SumType ==
    ASSUME NEW ties, CooccurrenceGraph(ties), NEW e, NEW S, IsFiniteSet(S)
    PROVE  SumOf(ties, e, S) \in Nat
<1> DEFINE Sum(g) == g = [s \in SUBSET S |-> IF s = {} THEN 0 ELSE Weight(ties, AnyOf(s), e) + g[s \ {AnyOf(s)}]]
<1>1. Cardinality(S) \in Nat /\ \A s \in SUBSET S : Cardinality(s) <= Cardinality(S)
  BY FS_CardinalityType, FS_Subset
<1>2. UpTo(S, Cardinality(S)) = SUBSET S
  BY <1>1 DEF UpTo
<1>3. PICK g \in [SUBSET S -> Nat] : Sum(g)
  <2>1. \E g \in [UpTo(S, Cardinality(S)) -> Nat] : IsSum(ties, e, S, Cardinality(S), g)
    BY <1>1, SumExists
  <2>2. \E g \in [SUBSET S -> Nat] : IsSum(ties, e, S, Cardinality(S), g)
    BY <1>2, <2>1
  <2>3. \A g : IsSum(ties, e, S, Cardinality(S), g) <=> Sum(g)
    BY <1>2 DEF IsSum
  <2> HIDE DEF Sum
  <2> QED BY <2>2, <2>3
<1> DEFINE it == CHOOSE h : Sum(h)
<1>4. Sum(it)
  BY <1>3
<1> DEFINE Differ == {n \in Nat : \E s \in SUBSET S : Cardinality(s) = n /\ it[s] # g[s]}
<1>5. Differ = {}
  <2> SUFFICES ASSUME Differ # {} PROVE FALSE
    OBVIOUS
  <2>1. PICK n \in Differ : \A m \in Differ : n <= m
    <3> HIDE DEF Differ
    <3>1. Differ \in SUBSET Nat
      BY DEF Differ
    <3> QED BY <3>1, LeastExists
  <2>2. PICK s \in SUBSET S : Cardinality(s) = n /\ it[s] # g[s]
    BY <2>1
  <2> DEFINE t == s \ {AnyOf(s)}
  <2> HIDE DEF it
  <2>3. s # {}
    BY <1>3, <1>4, <2>2
  <2>4. AnyOf(s) \in s
    BY <2>3 DEF AnyOf
  <2>5. t \in SUBSET S /\ Cardinality(t) \in Nat /\ Cardinality(t) < n
    <3>1. IsFiniteSet(s) /\ IsFiniteSet(t)
      BY FS_Subset
    <3> QED BY <2>2, <2>4, <3>1, FS_RemoveElement, FS_CardinalityType
  <2>6. it[t] = g[t]
    BY <2>1, <2>5
  <2>7. it[s] = Weight(ties, AnyOf(s), e) + it[t] /\ g[s] = Weight(ties, AnyOf(s), e) + g[t]
    BY <1>3, <1>4, <2>3
  <2> QED BY <2>2, <2>6, <2>7
<1>6. it[S] = g[S]
  <2>1. Cardinality(S) \notin Differ
    BY <1>5
  <2> HIDE DEF it
  <2> QED BY <1>1, <2>1
<1>7. it[S] \in Nat
  BY <1>6
<1> QED BY <1>7 DEF SumOf

(***************************************************************************)
(* Affinities, and a round.                                                *)
(***************************************************************************)
Placing(of) == of \in [DOMAIN of -> Nat] /\ DOMAIN of \in SUBSET Entity

LEMMA AffinityType ==
    ASSUME NEW ties, CooccurrenceGraph(ties), NEW of, Placing(of), NEW e, NEW i
    PROVE  Affinity(ties, of, e, i) \in Nat
<1> DEFINE S == {a \in DOMAIN of : of[a] = i}
<1>1. IsFiniteSet(S)
  BY EntityFinite DEF Placing
<1>2. Affinity(ties, of, e, i) = SumOf(ties, e, S)
  BY DEF Affinity, MapThenSumSet, MapThenFoldSet, SumOf, AnyOf
<1> HIDE DEF S
<1> QED BY <1>1, <1>2, SumType

\* The entities join the community that pulls them most.
LEMMA ClosestBest ==
    ASSUME NEW ties, CooccurrenceGraph(ties), NEW of, Placing(of), DOMAIN of # {}, NEW e
    PROVE  /\ Closest(ties, of, e) \in Range(of)
           /\ \A j \in Range(of) :
                 LET i == Closest(ties, of, e)
                 IN  \/ Affinity(ties, of, e, i) > Affinity(ties, of, e, j)
                     \/ /\ Affinity(ties, of, e, i) = Affinity(ties, of, e, j)
                        /\ i <= j
<1> DEFINE all == {of[a] : a \in DOMAIN of}
           key == [i \in all |-> Affinity(ties, of, e, i)]
<1>1. all = Range(of)
  BY DEF Range
<1>2. all \in SUBSET Nat /\ all # {}
  BY DEF Placing
<1>3. IsFiniteSet(all)
  <2>1. of \in Surjection(DOMAIN of, all)
    BY DEF Surjection, Placing
  <2> QED BY <2>1, EntityFinite, FS_Surjection DEF Placing
<1>4. key \in [all -> Nat]
  BY AffinityType
<1>5. \E x \in all : \A y \in all : key[x] > key[y] \/ (key[x] = key[y] /\ x <= y)
  <2> HIDE DEF all, key
  <2> QED BY <1>2, <1>3, <1>4, BestOf
<1>6. \E i \in all : \A j \in all :
         \/ Affinity(ties, of, e, i) > Affinity(ties, of, e, j)
         \/ Affinity(ties, of, e, i) = Affinity(ties, of, e, j) /\ i <= j
  BY <1>5
<1> QED BY <1>1, <1>6 DEF Closest

LEMMA RoundPlaces ==
    ASSUME NEW ties, CooccurrenceGraph(ties), NEW of, Placing(of)
    PROVE  LET next == Round(ties, of)
           IN  /\ Placing(next) /\ Range(next) = Range(of)
               /\ DOMAIN next = DOMAIN of \cup Joining(ties, of)
               /\ \A e \in DOMAIN of : next[e] = of[e]
               /\ \A e \in Joining(ties, of) : next[e] = Closest(ties, of, e)
<1> DEFINE next == Round(ties, of)
           J == Joining(ties, of)
<1>1. J \subseteq Entity /\ J \cap DOMAIN of = {} /\ (J # {} => DOMAIN of # {})
  BY DEF Joining
<1>2. /\ next = [e \in DOMAIN of \cup J |-> IF e \in DOMAIN of THEN of[e] ELSE Closest(ties, of, e)]
      /\ DOMAIN next = DOMAIN of \cup J
      /\ \A e \in DOMAIN of : next[e] = of[e]
      /\ \A e \in J : next[e] = Closest(ties, of, e)
  BY <1>1 DEF Round
<1>3. \A e \in J : Closest(ties, of, e) \in Range(of)
  BY <1>1, ClosestBest
<1>4. Range(of) \subseteq Nat
  BY DEF Range, Placing
<1> HIDE DEF next, J
<1>5. Placing(next)
  BY <1>1, <1>2, <1>3, <1>4 DEF Placing
<1>6. Range(next) = Range(of)
  BY <1>2, <1>3 DEF Range
<1> QED BY <1>2, <1>5, <1>6 DEF next, J
-----------------------------------------------------------------------------
(***************************************************************************)
(* The rounds are a recursive function; that there is one is shown as for  *)
(* the sums.                                                               *)
(***************************************************************************)
IsRounds(ties, of, n, g) ==
    g = [k \in 0..n |-> IF k = 0 THEN of ELSE Round(ties, g[k - 1])]

LEMMA RoundsExist ==
    ASSUME NEW ties, NEW of PROVE \A n \in Nat : \E g : IsRounds(ties, of, n, g)
<1> DEFINE Missing == {n \in Nat : ~\E g : IsRounds(ties, of, n, g)}
<1>1. SUFFICES ASSUME Missing # {} PROVE FALSE
  OBVIOUS
<1>2. PICK n \in Missing : \A m \in Missing : n <= m
  <2> HIDE DEF Missing
  <2>1. Missing \in SUBSET Nat
    BY DEF Missing
  <2> QED BY <1>1, <2>1, LeastExists
<1>3. CASE n = 0
  <2> DEFINE g == [k \in 0..0 |-> of]
  <2>1. IsRounds(ties, of, 0, g)
    BY DEF IsRounds
  <2> QED BY <1>3, <2>1
<1>4. CASE n # 0
  <2>1. n \in Nat /\ n - 1 \in Nat /\ n - 1 \notin Missing
    BY <1>2, <1>4
  <2>2. PICK g : IsRounds(ties, of, n - 1, g)
    BY <2>1
  <2> DEFINE h == [k \in 0..n |-> IF k = n THEN Round(ties, g[n - 1]) ELSE g[k]]
  <2>3. ASSUME NEW k \in 0..n PROVE h[k] = IF k = 0 THEN of ELSE Round(ties, h[k - 1])
    <3>1. CASE k = n
      BY <1>4, <2>1, <3>1
    <3>2. CASE k # n
      <4>1. k \in 0..(n - 1)
        BY <2>1, <3>2
      <4>2. g[k] = IF k = 0 THEN of ELSE Round(ties, g[k - 1])
        BY <2>2, <4>1 DEF IsRounds
      <4>3. k # 0 => k - 1 \in 0..n /\ k - 1 # n
        BY <2>1
      <4> QED BY <3>2, <4>2, <4>3
    <3> QED BY <3>1, <3>2
  <2>4. IsRounds(ties, of, n, h)
    BY <2>3 DEF IsRounds
  <2> QED BY <2>1, <2>4
<1> QED BY <1>3, <1>4

LEMMA RoundsStep ==
    ASSUME NEW ties, NEW of
    PROVE  /\ Rounds(ties, of)[0] = of
           /\ \A n \in 1..Cardinality(Entity) :
                 Rounds(ties, of)[n] = Round(ties, Rounds(ties, of)[n - 1])
<1>1. Cardinality(Entity) \in Nat
  BY EntityFinite
<1>2. Rounds(ties, of) = CHOOSE g : IsRounds(ties, of, Cardinality(Entity), g)
  BY DEF Rounds, IsRounds
<1>3. IsRounds(ties, of, Cardinality(Entity), Rounds(ties, of))
  BY <1>1, <1>2, RoundsExist
<1> QED BY <1>1, <1>3 DEF IsRounds

\* Rounds keep who is placed, and where.
LEMMA RoundsPlace ==
    ASSUME NEW ties, CooccurrenceGraph(ties), NEW of, Placing(of)
    PROVE  \A n \in 0..Cardinality(Entity) :
              LET now == Rounds(ties, of)[n]
              IN  /\ Placing(now) /\ Range(now) = Range(of) /\ DOMAIN of \subseteq DOMAIN now
                  /\ \A e \in DOMAIN of : now[e] = of[e]
<1> DEFINE R == Rounds(ties, of)
           Good(now) == /\ Placing(now) /\ Range(now) = Range(of) /\ DOMAIN of \subseteq DOMAIN now
                        /\ \A e \in DOMAIN of : now[e] = of[e]
           Bad == {n \in 0..Cardinality(Entity) : ~Good(R[n])}
<1>1. SUFFICES ASSUME Bad # {} PROVE FALSE
  OBVIOUS
<1>2. Cardinality(Entity) \in Nat
  BY EntityFinite
<1>3. PICK n \in Bad : \A m \in Bad : n <= m
  <2>1. Bad \in SUBSET Nat
    BY <1>2
  <2> HIDE DEF Bad
  <2> QED BY <1>1, <2>1, LeastExists
<1>4. R[0] = of /\ \A k \in 1..Cardinality(Entity) : R[k] = Round(ties, R[k - 1])
  BY RoundsStep
<1> HIDE DEF R
<1>5. n # 0
  BY <1>3, <1>4
<1>6. n \in 1..Cardinality(Entity) /\ n - 1 \in 0..Cardinality(Entity) /\ n - 1 \notin Bad
  BY <1>2, <1>3, <1>5
<1>7. Good(R[n - 1]) /\ R[n] = Round(ties, R[n - 1])
  BY <1>4, <1>6
<1>8. Good(R[n])
  <2> DEFINE last == R[n - 1]
  <2>0. Placing(last) /\ R[n] = Round(ties, last)
    BY <1>7
  <2>1. /\ Placing(R[n]) /\ Range(R[n]) = Range(last)
        /\ DOMAIN R[n] = DOMAIN last \cup Joining(ties, last)
        /\ \A e \in DOMAIN last : R[n][e] = last[e]
    <3> HIDE DEF last
    <3> QED BY <2>0, RoundPlaces
  <2> QED BY <1>7, <2>1
<1> QED BY <1>3, <1>8

\* Later rounds keep what earlier ones have placed.
LEMMA RoundsKeep ==
    ASSUME NEW ties, CooccurrenceGraph(ties), NEW of, Placing(of),
           NEW n \in 0..Cardinality(Entity)
    PROVE  \A m \in n..Cardinality(Entity) :
              LET R == Rounds(ties, of)
              IN  /\ DOMAIN R[n] \subseteq DOMAIN R[m]
                  /\ \A e \in DOMAIN R[n] : R[m][e] = R[n][e]
                  /\ Joining(ties, R[n]) = {} => R[m] = R[n]
<1> DEFINE R == Rounds(ties, of)
           Stay(m) == /\ DOMAIN R[n] \subseteq DOMAIN R[m]
                      /\ \A e \in DOMAIN R[n] : R[m][e] = R[n][e]
                      /\ Joining(ties, R[n]) = {} => R[m] = R[n]
           Bad == {m \in n..Cardinality(Entity) : ~Stay(m)}
<1>1. SUFFICES ASSUME Bad # {} PROVE FALSE
  OBVIOUS
<1>2. Cardinality(Entity) \in Nat
  BY EntityFinite
<1>3. PICK m \in Bad : \A k \in Bad : m <= k
  <2>1. Bad \in SUBSET Nat
    BY <1>2
  <2> HIDE DEF Bad
  <2> QED BY <1>1, <2>1, LeastExists
<1>4. /\ \A k \in 1..Cardinality(Entity) : R[k] = Round(ties, R[k - 1])
      /\ \A k \in 0..Cardinality(Entity) : Placing(R[k])
  BY RoundsStep, RoundsPlace
<1> HIDE DEF R
<1>5. m # n
  BY <1>3
<1>6. m \in 1..Cardinality(Entity) /\ m - 1 \in n..Cardinality(Entity) /\ m - 1 \notin Bad
  BY <1>2, <1>3, <1>5
<1>7. Stay(m - 1) /\ R[m] = Round(ties, R[m - 1]) /\ Placing(R[m - 1])
  BY <1>4, <1>6
<1>8. Stay(m)
  <2> DEFINE last == R[m - 1]
  <2>1. /\ DOMAIN R[m] = DOMAIN last \cup Joining(ties, last)
        /\ \A e \in DOMAIN last : R[m][e] = last[e]
        /\ Placing(R[m]) /\ Placing(last)
    <3>1. Placing(last) /\ R[m] = Round(ties, last)
      BY <1>7
    <3> HIDE DEF last
    <3> QED BY <3>1, RoundPlaces
  <2>2. Joining(ties, last) = {} => R[m] = last
    BY <2>1 DEF Placing
  <2> QED BY <1>7, <2>1, <2>2
<1> QED BY <1>3, <1>8

\* A round that places somebody places one more at least, so that as many rounds as there
\* are entities place all that can be.
LEMMA RoundsGrow ==
    ASSUME NEW ties, CooccurrenceGraph(ties), NEW of, Placing(of)
    PROVE  \A n \in 0..Cardinality(Entity) :
              \/ n <= Cardinality(DOMAIN Rounds(ties, of)[n])
              \/ Joining(ties, Rounds(ties, of)[n]) = {}
<1> DEFINE R == Rounds(ties, of)
           Bad == {n \in 0..Cardinality(Entity) :
                      ~(n <= Cardinality(DOMAIN R[n]) \/ Joining(ties, R[n]) = {})}
<1>1. SUFFICES ASSUME Bad # {} PROVE FALSE
  OBVIOUS
<1>2. Cardinality(Entity) \in Nat
  BY EntityFinite
<1>3. PICK n \in Bad : \A k \in Bad : n <= k
  <2>1. Bad \in SUBSET Nat
    BY <1>2
  <2> HIDE DEF Bad
  <2> QED BY <1>1, <2>1, LeastExists
<1>4. /\ \A k \in 1..Cardinality(Entity) : R[k] = Round(ties, R[k - 1])
      /\ \A k \in 0..Cardinality(Entity) : Placing(R[k])
  BY RoundsStep, RoundsPlace
<1>5. \A k \in 0..Cardinality(Entity) : IsFiniteSet(DOMAIN R[k]) /\ Cardinality(DOMAIN R[k]) \in Nat
  BY <1>4, EntityFinite DEF Placing
<1> HIDE DEF R
<1>6. n # 0
  BY <1>2, <1>3, <1>5
<1>7. n \in 1..Cardinality(Entity) /\ n - 1 \in 0..Cardinality(Entity) /\ n - 1 \notin Bad
  BY <1>2, <1>3, <1>6
<1> DEFINE last == R[n - 1]
<1>8. /\ DOMAIN R[n] = DOMAIN last \cup Joining(ties, last)
      /\ \A e \in DOMAIN last : R[n][e] = last[e]
      /\ Placing(R[n]) /\ Placing(last)
  <2>1. Placing(last) /\ R[n] = Round(ties, last)
    BY <1>4, <1>7
  <2> HIDE DEF last
  <2> QED BY <2>1, RoundPlaces
<1>9. CASE Joining(ties, last) = {}
  <2>1. R[n] = last
    BY <1>8, <1>9 DEF Placing
  <2> QED BY <1>3, <1>9, <2>1
<1>10. CASE Joining(ties, last) # {}
  <2>1. n - 1 <= Cardinality(DOMAIN last)
    BY <1>7, <1>10
  <2>2. PICK e \in Joining(ties, last) : e \notin DOMAIN last
    BY <1>10 DEF Joining
  <2>3. Cardinality(DOMAIN last \cup {e}) = Cardinality(DOMAIN last) + 1
    BY <1>5, <1>7, <2>2, FS_AddElement
  <2>4. Cardinality(DOMAIN last \cup {e}) <= Cardinality(DOMAIN R[n])
    BY <1>5, <1>7, <1>8, FS_Subset
  <2>5. n <= Cardinality(DOMAIN R[n])
    <3>1. Cardinality(DOMAIN last) \in Nat /\ Cardinality(DOMAIN R[n]) \in Nat /\ n \in Nat
      BY <1>5, <1>7
    <3> HIDE DEF last
    <3> QED BY <2>1, <2>3, <2>4, <3>1
  <2> QED BY <1>3, <2>5
<1> QED BY <1>9, <1>10

LEMMA AttachComplete ==
    ASSUME NEW ties, CooccurrenceGraph(ties), NEW of, Placing(of)
    PROVE  Joining(ties, Attach(ties, of)) = {}
<1> DEFINE last == Attach(ties, of)
<1>1. /\ Placing(last) /\ last = Rounds(ties, of)[Cardinality(Entity)]
      /\ Cardinality(Entity) <= Cardinality(DOMAIN last) \/ Joining(ties, last) = {}
  <2>1. Cardinality(Entity) \in 0..Cardinality(Entity)
    BY EntityFinite
  <2> QED BY <2>1, RoundsPlace, RoundsGrow DEF Attach
<1>2. CASE Cardinality(Entity) <= Cardinality(DOMAIN last)
  <2>1. DOMAIN last = Entity
    <3>1. DOMAIN last \in SUBSET Entity /\ Cardinality(DOMAIN last) = Cardinality(Entity)
      BY <1>1, <1>2, EntityFinite DEF Placing
    <3> QED BY <3>1, EntityFinite, FS_Subset
  <2> QED BY <2>1 DEF Joining
<1> QED BY <1>1, <1>2

(***************************************************************************)
(* The numbers of communities.                                             *)
(***************************************************************************)
LEMMA FewCommunities ==
    ASSUME NEW of, Placing(of)
    PROVE  /\ IsFiniteSet(DOMAIN of) /\ Cardinality(DOMAIN of) \in Nat
           /\ IsFiniteSet(Range(of)) /\ Cardinality(Range(of)) \in Nat
           /\ Cardinality(Range(of)) <= Cardinality(DOMAIN of)
<1>1. IsFiniteSet(DOMAIN of) /\ Cardinality(DOMAIN of) \in Nat
  BY EntityFinite DEF Placing
<1>2. of \in Surjection(DOMAIN of, Range(of))
  BY DEF Surjection, Range, Placing
<1> QED BY <1>1, <1>2, FS_Surjection, FS_CardinalityType

LEMMA AppendedNumbered ==
    ASSUME NEW of, Placing(of), Numbered(of), NEW rest, Placing(rest), Numbered(rest),
           DOMAIN of \cap DOMAIN rest = {}
    PROVE  LET all == Appended(of, rest)
           IN  /\ Placing(all) /\ DOMAIN all = DOMAIN of \cup DOMAIN rest
               /\ Range(all) = 0..Cardinality(Range(all)) - 1
               /\ \A e \in DOMAIN all : all[e] \in 0..Cardinality(Entity) - 1
               /\ \A e \in DOMAIN of : all[e] = of[e]
               /\ \A e \in DOMAIN rest : all[e] \notin Range(of)
<1> DEFINE n == Cardinality(Range(of))
           m == Cardinality(Range(rest))
           all == Appended(of, rest)
<1>1. /\ n \in Nat /\ m \in Nat /\ Range(of) = 0..n - 1 /\ Range(rest) = 0..m - 1
      /\ IsFiniteSet(DOMAIN of) /\ IsFiniteSet(DOMAIN rest)
      /\ n <= Cardinality(DOMAIN of) /\ m <= Cardinality(DOMAIN rest)
      /\ Cardinality(DOMAIN of) \in Nat /\ Cardinality(DOMAIN rest) \in Nat
  BY FewCommunities DEF Numbered
<1>2. all = [e \in DOMAIN of \cup DOMAIN rest |-> IF e \in DOMAIN of THEN of[e] ELSE n + rest[e]]
  BY DEF Appended
<1>3. /\ DOMAIN all = DOMAIN of \cup DOMAIN rest
      /\ \A e \in DOMAIN of : all[e] = of[e] /\ all[e] \in 0..n - 1
      /\ \A e \in DOMAIN rest : all[e] = n + rest[e] /\ rest[e] \in 0..m - 1
  <2>1. \A e \in DOMAIN of : of[e] \in Range(of)
    BY DEF Range
  <2>2. \A e \in DOMAIN rest : rest[e] \in Range(rest)
    BY DEF Range
  <2> HIDE DEF n, m, all
  <2> QED BY <1>1, <1>2, <2>1, <2>2
<1>4. n + m <= Cardinality(Entity)
  <2>1. Cardinality(DOMAIN of \cup DOMAIN rest) = Cardinality(DOMAIN of) + Cardinality(DOMAIN rest)
    <3>1. Cardinality(DOMAIN of \cap DOMAIN rest) = 0
      BY FS_EmptySet
    <3>2. Cardinality(DOMAIN of \cup DOMAIN rest)
            = Cardinality(DOMAIN of) + Cardinality(DOMAIN rest) - Cardinality(DOMAIN of \cap DOMAIN rest)
      BY <1>1, FS_Union
    <3> QED BY <1>1, <3>1, <3>2
  <2>2. Cardinality(DOMAIN of \cup DOMAIN rest) <= Cardinality(Entity)
    BY EntityFinite DEF Placing
  <2> HIDE DEF n, m
  <2> QED BY <1>1, <2>1, <2>2, EntityFinite
<1>5. Range(all) = 0..(n + m) - 1
  <2>1. ASSUME NEW e \in DOMAIN all PROVE all[e] \in 0..(n + m) - 1
    <3> HIDE DEF n, m, all
    <3>1. CASE e \in DOMAIN of
      BY <1>1, <1>3, <3>1
    <3>2. CASE e \in DOMAIN rest
      BY <1>1, <1>3, <3>2
    <3> QED BY <1>3, <3>1, <3>2
  <2>2. ASSUME NEW i \in 0..(n + m) - 1 PROVE \E e \in DOMAIN all : all[e] = i
    <3>1. CASE i < n
      <4>1. i \in Range(of)
        BY <1>1, <3>1
      <4>2. PICK e \in DOMAIN of : of[e] = i
        BY <4>1 DEF Range
      <4> HIDE DEF all
      <4> QED BY <1>3, <4>2
    <3>2. CASE i >= n
      <4>1. i - n \in 0..m - 1
        BY <1>1, <3>2
      <4>2. PICK e \in DOMAIN rest : rest[e] = i - n
        BY <1>1, <4>1 DEF Range
      <4>3. n + (i - n) = i
        BY <1>1
      <4> HIDE DEF all, n
      <4> QED BY <1>3, <4>2, <4>3
    <3> QED BY <1>1, <3>1, <3>2
  <2> HIDE DEF all, n, m
  <2> QED BY <2>1, <2>2 DEF Range
<1>6. Cardinality(Range(all)) = n + m
  <2>1. n + m \in Nat /\ 0 \in Int /\ (n + m) - 1 \in Int
    BY <1>1
  <2>2. Cardinality(0..(n + m) - 1) = IF 0 > (n + m) - 1 THEN 0 ELSE (n + m) - 1 - 0 + 1
    BY <2>1, FS_Interval
  <2> HIDE DEF n, m, all
  <2> QED BY <1>5, <2>1, <2>2
<1>7. \A e \in DOMAIN all : all[e] \in Range(all)
  BY DEF Range
<1>8. \A e \in DOMAIN all : all[e] \in 0..Cardinality(Entity) - 1 /\ all[e] \in Nat
  <2> HIDE DEF n, m, all
  <2> QED BY <1>1, <1>4, <1>5, <1>7, EntityFinite
<1>9. Placing(all)
  <2>1. DOMAIN all \in SUBSET Entity
    BY <1>3 DEF Placing
  <2>2. all = [e \in DOMAIN all |-> all[e]]
    BY DEF Appended
  <2> HIDE DEF all
  <2> QED BY <1>8, <2>1, <2>2 DEF Placing
<1>10. \A e \in DOMAIN rest : all[e] \notin Range(of)
  <2> HIDE DEF n, m, all
  <2> QED BY <1>1, <1>3
<1> HIDE DEF all, n, m
<1>11. Range(all) = 0..Cardinality(Range(all)) - 1
  BY <1>5, <1>6
<1> QED BY <1>3, <1>8, <1>9, <1>10, <1>11 DEF all

LEMMA ResidualApart ==
    ASSUME NEW ties, CooccurrenceGraph(ties), NEW of, Divides(Residual(ties, of))
    PROVE  LET rest == Louvain(Residual(ties, of))
           IN  /\ Placing(rest) /\ Numbered(rest) /\ DOMAIN of \cap DOMAIN rest = {}
               /\ DOMAIN rest = Ends({e \in DOMAIN ties : e[1] \notin DOMAIN of /\ e[2] \notin DOMAIN of})
<1> DEFINE edges == {e \in DOMAIN ties : e[1] \notin DOMAIN of /\ e[2] \notin DOMAIN of}
           rest == Louvain(Residual(ties, of))
<1>1. DOMAIN Residual(ties, of) = edges
  BY DEF Residual, Restrict
<1>2. rest \in [Ends(edges) -> Nat] /\ Numbered(rest)
  BY <1>1 DEF Divides
<1>3. \A e \in edges : e[1] \in Entity \ DOMAIN of /\ e[2] \in Entity \ DOMAIN of
  BY DEF CooccurrenceGraph
<1> HIDE DEF edges
<1>4. Ends(edges) \subseteq Entity \ DOMAIN of
  BY <1>3 DEF Ends
<1> QED BY <1>2, <1>4 DEF Placing, edges
-----------------------------------------------------------------------------
(***************************************************************************)
(* The entities at most n co-occurrences away are those of the first n     *)
(* rounds.                                                                 *)
(***************************************************************************)
LEMMA ReachedIsPlaced ==
    ASSUME NEW ties, CooccurrenceGraph(ties), NEW of, Placing(of),
           NEW n \in 0..Cardinality(Entity)
    PROVE  Reached(ties, DOMAIN of, n) = DOMAIN Rounds(ties, of)[n]
<1> DEFINE R == Rounds(ties, of)
           Next1(S) == S \cup {e \in Entity : \E a \in S : Weight(ties, a, e) > 0}
           Near(g) == g = [k \in 0..n |-> IF k = 0 THEN DOMAIN of ELSE Next1(g[k - 1])]
           near == CHOOSE g : Near(g)
           mine == [k \in 0..n |-> DOMAIN R[k]]
<1>1. Cardinality(Entity) \in Nat /\ n \in Nat
  BY EntityFinite
<1>2. R[0] = of
  BY RoundsStep
<1>3. ASSUME NEW k \in 1..n PROVE DOMAIN R[k] = Next1(DOMAIN R[k - 1])
  <2>1. k \in 1..Cardinality(Entity) /\ k - 1 \in 0..Cardinality(Entity)
    BY <1>1
  <2>2. Placing(R[k - 1]) /\ R[k] = Round(ties, R[k - 1])
    BY <2>1, RoundsPlace, RoundsStep
  <2> DEFINE last == R[k - 1]
  <2>3. DOMAIN R[k] = DOMAIN last \cup Joining(ties, last)
    <3>1. Placing(last) /\ R[k] = Round(ties, last)
      BY <2>2
    <3> HIDE DEF last, R
    <3> QED BY <3>1, RoundPlaces
  <2> HIDE DEF R
  <2> QED BY <2>3 DEF Joining
<1> HIDE DEF R, Next1
<1>4. Near(mine)
  <2> SUFFICES ASSUME NEW k \in 0..n
               PROVE  mine[k] = IF k = 0 THEN DOMAIN of ELSE Next1(mine[k - 1])
    OBVIOUS
  <2>1. k # 0 => k \in 1..n /\ k - 1 \in 0..n
    BY <1>1
  <2> QED BY <1>2, <1>3, <2>1
<1>5. Near(near)
  BY <1>4
<1> DEFINE Bad == {k \in 0..n : near[k] # DOMAIN R[k]}
<1> HIDE DEF near
<1>6. Bad = {}
  <2> SUFFICES ASSUME Bad # {} PROVE FALSE
    OBVIOUS
  <2>1. PICK k \in Bad : \A j \in Bad : k <= j
    <3>1. Bad \in SUBSET Nat
      BY <1>1
    <3> HIDE DEF Bad
    <3> QED BY <3>1, LeastExists
  <2>2. k # 0
    BY <1>1, <1>2, <1>5, <2>1
  <2>3. k \in 1..n /\ k - 1 \in 0..n /\ k - 1 \notin Bad
    BY <1>1, <2>1, <2>2
  <2>4. near[k] = Next1(near[k - 1]) /\ near[k - 1] = DOMAIN R[k - 1]
    BY <1>5, <2>2, <2>3
  <2> QED BY <1>3, <2>1, <2>3, <2>4
<1>7. near[n] = DOMAIN R[n]
  BY <1>1, <1>6
<1>8. Reached(ties, DOMAIN of, n) = near[n]
  BY DEF Reached, near, Next1
<1> QED BY <1>7, <1>8 DEF R
-----------------------------------------------------------------------------
\* Whoever is placed in a round joins the community that pulls most, of those placed before.
LEMMA PlacedWell ==
    ASSUME NEW ties, CooccurrenceGraph(ties), NEW of, Placing(of),
           NEW e \in DOMAIN Attach(ties, of), e \notin DOMAIN of, NEW i \in Range(of)
    PROVE  LET placed == Attach(ties, of)
               nearer == Reached(ties, DOMAIN of, Distance(ties, DOMAIN of, e) - 1)
               pull(j) == Affinity(ties, Restrict(placed, nearer), e, j)
           IN  \/ pull(placed[e]) > pull(i)
               \/ pull(placed[e]) = pull(i) /\ placed[e] <= i
<1> DEFINE C == Cardinality(Entity)
           R == Rounds(ties, of)
           placed == Attach(ties, of)
           Dist == {n \in 0..C : e \in Reached(ties, DOMAIN of, n)}
           d == Distance(ties, DOMAIN of, e)
<1>1. C \in Nat /\ placed = R[C]
  BY EntityFinite DEF Attach
<1>2. \A n \in 0..C : Reached(ties, DOMAIN of, n) = DOMAIN R[n]
  BY ReachedIsPlaced
<1> HIDE DEF C, R, placed
<1>3. d \in Dist /\ \A n \in Dist : d <= n
  <2>1. Dist \in SUBSET Nat
    BY <1>1
  <2>2. C \in Dist
    BY <1>1, <1>2 DEF placed
  <2>3. d = Min(Dist)
    BY DEF Distance, C
  <2> HIDE DEF Dist, d
  <2> QED BY <2>1, <2>2, <2>3, MinExists
<1>4. R[0] = of /\ e \notin DOMAIN R[0]
  BY RoundsStep DEF R
<1> HIDE DEF d
<1>5. d # 0 /\ d \in 1..C /\ d - 1 \in 0..C /\ d \in 0..C
  BY <1>1, <1>2, <1>3, <1>4
<1>6. e \in DOMAIN R[d] /\ e \notin DOMAIN R[d - 1]
  BY <1>1, <1>2, <1>3, <1>5
<1> DEFINE last == R[d - 1]
<1>7. Placing(last) /\ Range(last) = Range(of) /\ R[d] = Round(ties, last)
  BY <1>5, RoundsPlace, RoundsStep DEF R, C
<1>8. Reached(ties, DOMAIN of, d - 1) = DOMAIN last
  BY <1>2, <1>5
<1>9. DOMAIN last \subseteq DOMAIN placed /\ \A a \in DOMAIN last : placed[a] = last[a]
  <2>1. C \in (d - 1)..C
    BY <1>1, <1>5
  <2> QED BY <1>1, <1>5, <2>1, RoundsKeep DEF R, C
<1>10. Restrict(placed, DOMAIN last) = last
  <2>1. last = [a \in DOMAIN last |-> last[a]]
    BY <1>7 DEF Placing
  <2> HIDE DEF last
  <2> QED BY <1>9, <2>1 DEF Restrict
<1>11. placed[e] = R[d][e]
  <2>1. C \in d..C
    BY <1>1, <1>5
  <2> QED BY <1>1, <1>5, <1>6, <2>1, RoundsKeep DEF R, C
<1>12. e \in Joining(ties, last) /\ R[d][e] = Closest(ties, last, e)
  <2>1. e \in DOMAIN R[d] /\ e \notin DOMAIN last
    BY <1>6
  <2>2. Placing(last) /\ R[d] = Round(ties, last)
    BY <1>7
  <2> HIDE DEF last
  <2>3. /\ DOMAIN Round(ties, last) = DOMAIN last \cup Joining(ties, last)
        /\ \A a \in Joining(ties, last) :
              Round(ties, last)[a] = Closest(ties, last, a)
    BY <2>2, RoundPlaces
  <2> QED BY <2>1, <2>2, <2>3
<1>13. placed[e] = Closest(ties, last, e) /\ DOMAIN last # {}
  BY <1>11, <1>12 DEF Joining
<1> HIDE DEF last
<1>14. \/ Affinity(ties, last, e, placed[e]) > Affinity(ties, last, e, i)
       \/ /\ Affinity(ties, last, e, placed[e]) = Affinity(ties, last, e, i)
          /\ placed[e] <= i
  BY <1>7, <1>13, ClosestBest
<1> QED BY <1>8, <1>10, <1>14 DEF placed, d

\* Entities without a community, whatever the co-occurrences, are placed with the heaviest of
\* the nearer ones if anything leads to one, and no community of Louvain's is lost or
\* renumbered (community_store.py:28-60), provided Louvain divides the graph that is left.
THEOREM ClusteringIsSound ==
    ASSUME NEW ties, CooccurrenceGraph(ties),
           NEW of, Numbered(of), DOMAIN of \subseteq Entity,
           Divides(Residual(ties, Attach(ties, of)))
    PROVE  ClusteringSound(ties, of)
<1> DEFINE C == Cardinality(Entity)
           start == DOMAIN of
           placed == Attach(ties, of)
           reached == Reached(ties, start, C)
           rest == Louvain(Residual(ties, placed))
           all == Appended(placed, rest)
<1>1. Placing(of)
  BY DEF Numbered, Placing
<1>2. C \in Nat /\ placed = Rounds(ties, of)[C]
  BY EntityFinite DEF Attach
<1>3. DOMAIN placed = reached
  BY <1>1, <1>2, ReachedIsPlaced
<1>4. /\ Placing(placed) /\ Range(placed) = Range(of) /\ start \subseteq DOMAIN placed
      /\ \A e \in start : placed[e] = of[e]
  BY <1>1, <1>2, RoundsPlace
<1>5. Numbered(placed)
  BY <1>4 DEF Numbered, Placing
<1>6. /\ Placing(rest) /\ Numbered(rest) /\ DOMAIN placed \cap DOMAIN rest = {}
      /\ DOMAIN rest = Ends({e \in DOMAIN ties : e[1] \notin DOMAIN placed /\ e[2] \notin DOMAIN placed})
  BY ResidualApart
<1> HIDE DEF placed, rest, reached, C
<1>7. /\ DOMAIN all = DOMAIN placed \cup DOMAIN rest
      /\ Range(all) = 0..Cardinality(Range(all)) - 1
      /\ \A e \in DOMAIN placed : all[e] = placed[e]
      /\ \A e \in DOMAIN rest : all[e] \notin Range(placed)
  BY <1>4, <1>5, <1>6, AppendedNumbered
<1> HIDE DEF all
<1>8. DOMAIN rest = Ends(DOMAIN ties) \ DOMAIN placed
  <2>1. ASSUME NEW e \in DOMAIN ties
        PROVE  e[1] \in DOMAIN placed <=> e[2] \in DOMAIN placed
    <3>1. PICK a \in Entity, b \in Entity : e = <<a, b>> /\ a < b
      BY DEF CooccurrenceGraph
    <3>2. Ordered(a, b) = e /\ Ordered(b, a) = e
      <4>1. a \in Nat /\ b \in Nat
        BY ClusteringAssumption DEF ClusteringAssumption
      <4> QED BY <3>1, <4>1 DEF Ordered
    <3>3. Weight(ties, a, b) > 0 /\ Weight(ties, b, a) > 0
      BY <3>2, WeightType
    <3>4. Joining(ties, placed) = {}
      BY <1>1, AttachComplete DEF placed
    <3>5. a \in DOMAIN placed <=> b \in DOMAIN placed
      BY <3>3, <3>4 DEF Joining
    <3> QED BY <3>1, <3>5
  <2>2. ASSUME NEW x \in DOMAIN rest PROVE x \in Ends(DOMAIN ties) \ DOMAIN placed
    BY <1>6 DEF Ends
  <2>3. ASSUME NEW x \in Ends(DOMAIN ties), x \notin DOMAIN placed PROVE x \in DOMAIN rest
    <3>1. PICK e \in DOMAIN ties : x \in {e[1], e[2]}
      BY DEF Ends
    <3>2. e[1] \notin DOMAIN placed /\ e[2] \notin DOMAIN placed
      BY <2>1, <2>3, <3>1
    <3> QED BY <1>6, <3>1, <3>2 DEF Ends
  <2> QED BY <2>2, <2>3
<1>9. DOMAIN all = reached \cup Ends(DOMAIN ties)
  BY <1>3, <1>7, <1>8
<1>10. \A e \in DOMAIN all : IF e \in reached THEN all[e] = placed[e] ELSE all[e] \notin Range(of)
  BY <1>3, <1>4, <1>7
<1>11. ASSUME NEW e \in reached \ start, NEW i \in Range(of)
       PROVE  LET nearer == Reached(ties, start, Distance(ties, start, e) - 1)
                  pull(j) == Affinity(ties, Restrict(placed, nearer), e, j)
              IN  \/ pull(placed[e]) > pull(i)
                  \/ pull(placed[e]) = pull(i) /\ placed[e] <= i
  BY <1>1, <1>3, PlacedWell DEF placed
<1> QED BY <1>3, <1>4, <1>7, <1>9, <1>10, <1>11 DEF ClusteringSound, placed, reached, rest, all, C
-----------------------------------------------------------------------------
(***************************************************************************)
(* What the summarizer finds.                                              *)
(***************************************************************************)
LEMMA WorldOK ==
    ASSUME NEW w \in World
    PROVE  /\ DOMAIN w.row = Entity /\ w.rels \subseteq Entity \X Entity
           /\ CooccurrenceGraph(w.together)
           /\ Placing(Louvain(LlmGraph(w.rels))) /\ Numbered(Louvain(LlmGraph(w.rels)))
<1>1. /\ DOMAIN w.row = Entity /\ w.rels \subseteq Entity \X Entity
      /\ CooccurrenceGraph(w.together) /\ Divides(LlmGraph(w.rels))
  BY CommunitiesAssumption DEF CommunitiesAssumption
<1>2. Ends(DOMAIN LlmGraph(w.rels)) \subseteq Entity
  <2>1. \A e \in DOMAIN LlmGraph(w.rels) : e[1] \in Entity /\ e[2] \in Entity
    BY <1>1 DEF LlmGraph, Ordered
  <2> QED BY <2>1 DEF Ends
<1> QED BY <1>1, <1>2 DEF Divides, Placing

LEMMA ResidualDivides ==
    ASSUME NEW w \in World, NEW of, Placing(of) PROVE Divides(Residual(w.together, of))
BY CommunitiesAssumption DEF CommunitiesAssumption, Residual, Placing

\* There are no more communities than ids for them.
LEMMA ClusterType ==
    ASSUME NEW v \in World, NEW w \in World
    PROVE  LET found == Cluster(LlmGraph(v.rels), w.together)
           IN  DOMAIN found \subseteq Entity /\ \A e \in DOMAIN found : found[e] \in Id
<1> DEFINE of == Louvain(LlmGraph(v.rels))
           placed == Attach(w.together, of)
           rest == Louvain(Residual(w.together, placed))
<1>1. CooccurrenceGraph(w.together) /\ Placing(of) /\ Numbered(of)
  BY WorldOK
<1>2. Placing(placed) /\ Range(placed) = Range(of)
  <2>1. Cardinality(Entity) \in 0..Cardinality(Entity)
    BY EntityFinite
  <2> HIDE DEF of
  <2> QED BY <1>1, <2>1, RoundsPlace DEF Attach
<1>3. Numbered(placed)
  BY <1>1, <1>2 DEF Numbered, Placing
<1>4. Placing(rest) /\ Numbered(rest) /\ DOMAIN placed \cap DOMAIN rest = {}
  <2>1. Divides(Residual(w.together, placed))
    BY <1>2, ResidualDivides
  <2> HIDE DEF placed
  <2> QED BY <1>1, <2>1, ResidualApart
<1>5. Cluster(LlmGraph(v.rels), w.together) = Appended(placed, rest)
  BY DEF Cluster
<1> HIDE DEF placed, rest
<1> QED BY <1>2, <1>3, <1>4, <1>5, AppendedNumbered DEF Placing, Id

\* A round of the loop, and its end.
LEMMA OneMoreRound ==
    ASSUME NEW v \in World, NEW w \in World, NEW n \in 0..Cardinality(Entity), NEW of,
           of = Rounds(w.together, Louvain(LlmGraph(v.rels)))[n],
           Joining(w.together, of) # {}
    PROVE  /\ n + 1 \in 0..Cardinality(Entity)
           /\ Round(w.together, of) = Rounds(w.together, Louvain(LlmGraph(v.rels)))[n + 1]
<1> DEFINE start == Louvain(LlmGraph(v.rels))
<1>1. CooccurrenceGraph(w.together) /\ Placing(start)
  BY WorldOK
<1> HIDE DEF start
<1>2. Cardinality(Entity) \in Nat
  BY EntityFinite
<1>3. Placing(of) /\ n <= Cardinality(DOMAIN of)
  BY <1>1, RoundsPlace, RoundsGrow DEF start
<1>4. PICK e \in Entity : e \notin DOMAIN of
  BY DEF Joining
<1>5. Cardinality(DOMAIN of) < Cardinality(Entity)
  <2>1. Cardinality(DOMAIN of \cup {e}) = Cardinality(DOMAIN of) + 1
    BY <1>3, <1>4, EntityFinite, FS_AddElement DEF Placing
  <2>2. DOMAIN of \cup {e} \in SUBSET Entity
    BY <1>3, <1>4 DEF Placing
  <2>3. Cardinality(DOMAIN of) \in Nat
    BY <1>3, EntityFinite DEF Placing
  <2> QED BY <1>2, <2>1, <2>2, <2>3, EntityFinite
<1>6. n + 1 \in 1..Cardinality(Entity) /\ (n + 1) - 1 = n
  <2>1. Cardinality(DOMAIN of) \in Nat /\ n \in Nat
    BY <1>2, <1>3, EntityFinite DEF Placing
  <2> QED BY <1>2, <1>3, <1>5, <2>1
<1>7. Rounds(w.together, start)[n + 1] = Round(w.together, Rounds(w.together, start)[(n + 1) - 1])
  BY <1>6, RoundsStep
<1> QED BY <1>2, <1>6, <1>7 DEF start

LEMMA NoMoreRounds ==
    ASSUME NEW v \in World, NEW w \in World, NEW n \in 0..Cardinality(Entity), NEW of,
           of = Rounds(w.together, Louvain(LlmGraph(v.rels)))[n],
           Joining(w.together, of) = {}
    PROVE  Appended(of, Louvain(Residual(w.together, of))) = Cluster(LlmGraph(v.rels), w.together)
<1> DEFINE start == Louvain(LlmGraph(v.rels))
<1>1. CooccurrenceGraph(w.together) /\ Placing(start)
  BY WorldOK
<1>2. Cardinality(Entity) \in n..Cardinality(Entity)
  BY EntityFinite
<1>3. Attach(w.together, start) = of
  <2> HIDE DEF start
  <2>1. Rounds(w.together, start)[Cardinality(Entity)] = Rounds(w.together, start)[n]
    BY <1>1, <1>2, RoundsKeep DEF start
  <2> QED BY <2>1 DEF Attach, start
<1> QED BY <1>3 DEF Cluster
-----------------------------------------------------------------------------
(***************************************************************************)
(* What the tables say.                                                    *)
(***************************************************************************)
Descriptions == UNION {Range(w.row) : w \in World}

LEMMA DataType ==
    ASSUME TypeOK
    PROVE  /\ \A i : EntitiesOf(i) \in SUBSET (Entity \X Descriptions)
           /\ \A i : RelationshipsOf(i) \in SUBSET (Entity \X Entity)
           /\ \A i : DataOf(i) \in Data
           /\ ActiveIds \subseteq Id /\ Id \subseteq Nat
<1>1. DOMAIN world.row = Entity /\ world.rels \subseteq Entity \X Entity /\ world \in World
  BY WorldOK DEF TypeOK
<1>2. \A e \in Entity : world.row[e] \in Descriptions
  BY <1>1 DEF Descriptions, Range
<1>3. \A i : EntitiesOf(i) \in SUBSET (Entity \X Descriptions)
  BY <1>2 DEF EntitiesOf, Members, Present
<1>4. \A i : RelationshipsOf(i) \in SUBSET (Entity \X Entity)
  BY <1>1 DEF RelationshipsOf
<1>5. \A i : DataOf(i) \in Data
  BY <1>3, <1>4 DEF DataOf, Data, Descriptions
<1>6. ActiveIds \subseteq Id
  BY DEF TypeOK, ActiveIds
<1>7. Id \subseteq Nat
  BY EntityFinite DEF Id
<1> QED BY <1>3, <1>4, <1>5, <1>6, <1>7

\* An id is active only with entities to read.
LEMMA ActiveHasEntities ==
    ASSUME TypeOK, GoneHaveNone,
           NEW i \in ActiveIds
    PROVE  EntitiesOf(i) # {}
<1>1. PICK e \in Entity : community[e] = i /\ i # NoCommunity
  BY DEF ActiveIds
<1>2. e \in Members(i)
  BY <1>1 DEF Members, Present, GoneHaveNone
<1> QED BY <1>2 DEF EntitiesOf

LEMMA PriorFound ==
    ASSUME TypeOK, HasPrior PROVE Prior \in Id /\ previous[Prior].hash = hash
<1> DEFINE S == {i \in Id : previous[i].hash = hash}
<1>1. Id \in SUBSET Nat /\ IsFiniteSet(Id)
  BY DataType, EntityFinite, FS_Interval DEF Id
<1>2. S \in SUBSET Nat /\ IsFiniteSet(S) /\ S # {}
  BY <1>1, FS_Subset DEF HasPrior
<1>3. Prior = Max(S)
  BY DEF Prior
<1> HIDE DEF S
<1>4. Prior \in S
  BY <1>2, <1>3, MaxExists
<1> QED BY <1>4 DEF S

\* What the tables say is the same while they are.
LEMMA SameEntities ==
    ASSUME UNCHANGED <<world, community>>
    PROVE  /\ Assigned' <=> Assigned
           /\ ActiveIds' = ActiveIds
           /\ \A i : EntitiesOf(i)' = EntitiesOf(i) /\ DataOf(i)' = DataOf(i)
           /\ GoneHaveNone' <=> GoneHaveNone
BY DEF Assigned, ActiveIds, EntitiesOf, DataOf, RelationshipsOf, Members, GoneHaveNone

LEMMA SameRows ==
    ASSUME UNCHANGED tables
    PROVE  /\ \A i : Current(i)' <=> Current(i)
           /\ Honest(communities)' <=> Honest(communities)
BY SameEntities DEF tables, Current, Honest
-----------------------------------------------------------------------------
(***************************************************************************)
(* One lemma for each action.                                              *)
(***************************************************************************)
LEMMA InitInv == ASSUME Init PROVE CommunitiesInv
<1>1. TypeOK
  BY EntityFinite DEF Init, TypeOK, Row, NoRow
<1>2. FoundOK /\ QuietOK /\ SettledOK /\ OnlyFailedStale /\ GoneHaveNone
  BY DEF Init, FoundOK, QuietOK, SettledOK, OnlyFailedStale, GoneHaveNone
<1>3. RowsOK
  BY DEF Init, RowsOK, Honest, Pending
<1> QED BY <1>1, <1>2, <1>3 DEF CommunitiesInv

LEMMA StartInv == ASSUME CommunitiesInv, Start PROVE CommunitiesInv'
<1> USE DEF CommunitiesInv
<1>1. UNCHANGED tables /\ pc' = "detect"
  BY DEF Start
<1>2. TypeOK'
  BY DEF Start, TypeOK, tables, Row, NoRow
<1>3. FoundOK' /\ QuietOK' /\ OnlyFailedStale'
  BY <1>1 DEF FoundOK, QuietOK, OnlyFailedStale
<1>4. RowsOK'
  <2>1. Honest(communities)' /\ Honest(previous)'
    BY DEF Start, RowsOK, Honest, tables
  <2>2. Pending' \subseteq Id
    BY DEF Pending
  <2> QED BY <1>1, <2>1, <2>2 DEF Start, RowsOK, tables
<1>5. SettledOK'
  <2> SUFFICES ASSUME settled' PROVE SettledOK'
    BY DEF SettledOK
  <2>1. quiet' /\ Assigned'
    BY <1>1, SameEntities DEF Start, SettledOK, tables
  <2>2. ASSUME NEW i \in ActiveIds'
        PROVE  Current(i)' /\ (~force' => previous'[i].hash = DataOf(i)')
    <3>1. Current(i) /\ i \in ActiveIds
      BY <1>1, <2>2, SameEntities DEF Start, SettledOK, tables
    <3>2. DataOf(i)' = DataOf(i) /\ Current(i)'
      BY <1>1, <3>1, SameEntities, SameRows DEF tables
    <3> QED BY <3>1, <3>2 DEF Start, Current
  <2> QED BY <2>1, <2>2 DEF SettledOK
<1>6. GoneHaveNone'
  BY <1>1, SameEntities DEF tables
<1> QED BY <1>2, <1>3, <1>4, <1>5, <1>6

\* The steps that leave the tables and the rows read from them alone keep what was settled.
LEMMA SettledKept ==
    ASSUME SettledOK, OnlyFailedStale, GoneHaveNone, UNCHANGED <<tables, force, previous>>,
           pc # "idle", settled' = settled, quiet => quiet', pc' # "idle"
    PROVE  SettledOK' /\ OnlyFailedStale' /\ GoneHaveNone'
<1>1. \A i : (Current(i)' <=> Current(i)) /\ DataOf(i)' = DataOf(i)
  BY SameEntities, SameRows DEF tables
<1>2. ActiveIds' = ActiveIds /\ (Assigned' <=> Assigned) /\ GoneHaveNone'
  BY SameEntities DEF tables
<1>3. SettledOK'
  <2> SUFFICES ASSUME settled'
               PROVE  /\ quiet' /\ Assigned'
                      /\ \A i \in ActiveIds' : Current(i)' /\ (~force' => previous'[i].hash = DataOf(i)')
    BY DEF SettledOK
  <2>1. quiet' /\ Assigned'
    BY <1>2 DEF SettledOK
  <2>2. ASSUME NEW i \in ActiveIds'
        PROVE  Current(i)' /\ (~force' => previous'[i].hash = DataOf(i)')
    <3>1. i \in ActiveIds /\ Current(i) /\ (~force => previous[i].hash = DataOf(i))
      BY <1>2, <2>2 DEF SettledOK
    <3>2. (Current(i)' <=> Current(i)) /\ DataOf(i)' = DataOf(i)
      BY <1>1
    <3> QED BY <3>1, <3>2
  <2> QED BY <2>1, <2>2
<1>4. OnlyFailedStale'
  BY DEF OnlyFailedStale
<1> QED BY <1>2, <1>3, <1>4

LEMMA ReadGraphInv == ASSUME CommunitiesInv, ReadGraph PROVE CommunitiesInv'
<1> USE DEF CommunitiesInv
<1>1. TypeOK'
  BY DEF ReadGraph, TypeOK, tables
<1>2. FoundOK'
  BY DEF ReadGraph, FoundOK, TypeOK, tables
<1>3. RowsOK'
  <2>1. Pending' \subseteq Pending
    BY DEF ReadGraph, Pending
  <2> QED BY <2>1 DEF ReadGraph, RowsOK, tables, Honest
<1>4. QuietOK'
  BY DEF ReadGraph, QuietOK
<1>5. SettledOK' /\ OnlyFailedStale' /\ GoneHaveNone'
  BY SettledKept DEF ReadGraph
<1> QED BY <1>1, <1>2, <1>3, <1>4, <1>5

LEMMA ReadCooccurrenceInv == ASSUME CommunitiesInv, ReadCooccurrence PROVE CommunitiesInv'
<1> USE DEF CommunitiesInv
<1>1. TypeOK'
  BY DEF ReadCooccurrence, TypeOK, tables, history
<1>2. FoundOK'
  <2>1. PICK v \in World : graph = LlmGraph(v.rels) /\ (quiet => v = world)
    BY DEF ReadCooccurrence, FoundOK
  <2>2. 0 \in 0..Cardinality(Entity)
    BY EntityFinite
  <2>3. partition' = Rounds(world.together, Louvain(LlmGraph(v.rels)))[0]
    <3>1. Placing(Louvain(LlmGraph(v.rels)))
      BY WorldOK
    <3> QED BY <2>1, RoundsStep DEF ReadCooccurrence
  <2> QED BY <2>1, <2>2, <2>3 DEF ReadCooccurrence, FoundOK, TypeOK, tables, history
<1>3. RowsOK'
  <2>1. Pending' \subseteq Pending
    BY DEF ReadCooccurrence, Pending
  <2> QED BY <2>1 DEF ReadCooccurrence, RowsOK, tables, Honest
<1>4. QuietOK'
  BY DEF ReadCooccurrence, QuietOK
<1>5. SettledOK' /\ OnlyFailedStale' /\ GoneHaveNone'
  BY SettledKept DEF ReadCooccurrence, history
<1> QED BY <1>1, <1>2, <1>3, <1>4, <1>5

LEMMA AttachRoundInv == ASSUME CommunitiesInv, AttachRound PROVE CommunitiesInv'
<1> USE DEF CommunitiesInv
<1>1. TypeOK'
  BY DEF AttachRound, TypeOK, tables, history
<1>2. FoundOK'
  <2>1. PICK v \in World, w \in World, n \in 0..Cardinality(Entity) :
          /\ together = w.together
          /\ partition = Rounds(w.together, Louvain(LlmGraph(v.rels)))[n]
          /\ quiet => v = world /\ w = world
    BY DEF AttachRound, FoundOK
  <2>2. CASE Joining(together, partition) # {}
    <3>1. /\ pc' = "attach" /\ partition' = Round(together, partition)
          /\ together' = together /\ quiet' = quiet /\ world' = world
      BY <2>2 DEF AttachRound, tables, history
    <3>2. /\ n + 1 \in 0..Cardinality(Entity)
          /\ partition' = Rounds(w.together, Louvain(LlmGraph(v.rels)))[n + 1]
      BY <2>1, <2>2, <3>1, OneMoreRound
    <3> QED BY <2>1, <3>1, <3>2 DEF FoundOK
  <2>3. CASE Joining(together, partition) = {}
    <3>1. /\ pc' = "assign" /\ quiet' = quiet /\ world' = world
          /\ partition' = Appended(partition, Louvain(Residual(together, partition)))
      BY <2>3 DEF AttachRound, tables, history
    <3>2. partition' = Cluster(LlmGraph(v.rels), w.together)
      BY <2>1, <2>3, <3>1, NoMoreRounds
    <3> QED BY <2>1, <3>1, <3>2 DEF FoundOK
  <2> QED BY <2>2, <2>3
<1>3. RowsOK'
  <2>1. Pending' \subseteq Pending
    BY DEF AttachRound, Pending
  <2> QED BY <2>1 DEF AttachRound, RowsOK, tables, Honest
<1>4. QuietOK'
  BY DEF AttachRound, QuietOK
<1>5. SettledOK' /\ OnlyFailedStale' /\ GoneHaveNone'
  BY SettledKept DEF AttachRound, history
<1> QED BY <1>1, <1>2, <1>3, <1>4, <1>5

LEMMA AssignInv == ASSUME CommunitiesInv, Assign PROVE CommunitiesInv'
<1> USE DEF CommunitiesInv
<1>1. PICK v \in World, w \in World :
          /\ partition = Cluster(LlmGraph(v.rels), w.together)
          /\ quiet => v = world /\ w = world
  BY DEF Assign, FoundOK
<1>2. \A e \in DOMAIN partition : partition[e] \in Id
  BY <1>1, ClusterType
<1>3. TypeOK'
  BY <1>2 DEF Assign, TypeOK, locals, history
<1>4. FoundOK' /\ OnlyFailedStale'
  BY DEF Assign, FoundOK, OnlyFailedStale
<1>5. RowsOK'
  <2>1. Pending' \subseteq Pending
    BY DEF Assign, Pending
  <2> QED BY <2>1 DEF Assign, RowsOK, locals, Honest
<1>6. quiet' => Assigned'
  BY <1>1 DEF Assign, Assigned, locals, history, Present
<1>7. QuietOK'
  BY <1>6 DEF Assign, QuietOK
<1>8. SettledOK'
  <2> SUFFICES ASSUME settled' PROVE SettledOK'
    BY DEF SettledOK
  <2>1. quiet /\ quiet' /\ Assigned /\ Assigned' /\ settled
    BY <1>6 DEF Assign, SettledOK, history
  <2>2. community' = community
    <3>1. \A e \in Entity : community'[e] = community[e]
      BY <2>1 DEF Assigned, Assign, Present
    <3> QED BY <3>1, <1>3 DEF TypeOK
  <2>3. UNCHANGED <<tables, force, previous>> /\ pc # "idle" /\ pc' # "idle" /\ settled' = settled
    BY <2>2 DEF Assign, locals, history, tables
  <2> QED BY <2>1, <2>3, SettledKept
<1>9. GoneHaveNone'
  BY DEF Assign, GoneHaveNone
<1> QED BY <1>3, <1>4, <1>5, <1>7, <1>8, <1>9

LEMMA ListActiveInv == ASSUME CommunitiesInv, ListActive PROVE CommunitiesInv'
<1> USE DEF CommunitiesInv
<1>1. ActiveIds \subseteq Id /\ ActiveIds' = ActiveIds
  BY DataType, SameEntities DEF ListActive, tables
<1>2. TypeOK'
  BY <1>1 DEF ListActive, TypeOK, tables, history
<1>3. FoundOK'
  BY DEF ListActive, FoundOK
<1>4. Pending' = ActiveIds /\ Pending = Id
  BY <1>1 DEF ListActive, Pending
<1>5. RowsOK'
  BY <1>1, <1>4 DEF ListActive, RowsOK, tables, Honest
<1>6. QuietOK'
  <2>1. quiet' => Assigned'
    BY SameEntities DEF ListActive, QuietOK, tables, history
  <2> QED BY <1>1, <1>4, <2>1 DEF ListActive, QuietOK
<1>7. SettledOK' /\ OnlyFailedStale' /\ GoneHaveNone'
  BY SettledKept DEF ListActive, history
<1> QED BY <1>2, <1>3, <1>5, <1>6, <1>7

LEMMA ReadEntitiesInv == ASSUME CommunitiesInv, ReadEntities PROVE CommunitiesInv'
<1> USE DEF CommunitiesInv
<1>1. id' \in todo /\ id' \in Id
  <2>1. todo \in SUBSET Nat /\ todo # {} /\ todo \subseteq Id
    BY DataType DEF ReadEntities, TypeOK
  <2>2. id' = Min(todo)
    BY DEF ReadEntities
  <2> QED BY <2>1, <2>2, MinExists
<1>2. /\ \A i : /\ EntitiesOf(i) \in SUBSET (Entity \X Descriptions)
                /\ EntitiesOf(i)' = EntitiesOf(i) /\ (Current(i)' <=> Current(i))
      /\ ActiveIds' = ActiveIds /\ (Assigned' <=> Assigned) /\ Id \subseteq Nat
  BY DataType, SameEntities, SameRows DEF ReadEntities, tables
<1>3. TypeOK'
  <2>1. ents' = EntitiesOf(id')
    BY DEF ReadEntities
  <2>2. ents' \subseteq Entity \X Descriptions
    BY <1>2, <2>1
  <2> QED BY <1>1, <1>2, <2>2 DEF ReadEntities, TypeOK, tables, history, Descriptions
<1>4. FoundOK'
  BY DEF ReadEntities, FoundOK
<1>5. Pending' = IF ents' = {} THEN Pending \ {id'} ELSE Pending
  BY <1>1 DEF ReadEntities, Pending
<1>6. RowsOK'
  <2>1. Pending' \subseteq Pending
    BY <1>5
  <2> QED BY <1>1, <2>1 DEF ReadEntities, RowsOK, tables, Honest
<1>7. QuietOK'
  <2> SUFFICES ASSUME quiet'
               PROVE  /\ Assigned' /\ Pending' \subseteq ActiveIds'
                      /\ \A i \in ActiveIds' \ (Pending' \cup failed') : Current(i)'
                      /\ ents' = EntitiesOf(id)'
    BY DEF QuietOK, ReadEntities
  <2>1. quiet /\ pc = "next" /\ failed' = failed /\ ents' = EntitiesOf(id')
    BY DEF ReadEntities, history
  <2>2. Assigned' /\ Pending \subseteq ActiveIds'
    BY <1>2, <2>1 DEF QuietOK
  <2>3. ents' = EntitiesOf(id)' /\ ents' # {}
    <3>1. id' \in ActiveIds
      BY <1>1, <2>1, <2>2, <1>2 DEF Pending
    <3>2. EntitiesOf(id') # {}
      BY <3>1, ActiveHasEntities
    <3>3. EntitiesOf(id)' = EntitiesOf(id')
      BY DEF ReadEntities, tables, EntitiesOf, Members
    <3> QED BY <2>1, <3>2, <3>3
  <2>4. Pending' = Pending
    BY <1>5, <2>3
  <2>5. ASSUME NEW i \in ActiveIds' \ (Pending' \cup failed') PROVE Current(i)'
    <3>1. Current(i)
      BY <1>2, <2>1, <2>4, <2>5 DEF QuietOK
    <3> QED BY <1>2, <3>1
  <2> QED BY <2>2, <2>3, <2>4, <2>5
<1>8. SettledOK' /\ OnlyFailedStale' /\ GoneHaveNone'
  BY SettledKept DEF ReadEntities, history
<1> QED BY <1>3, <1>4, <1>6, <1>7, <1>8

LEMMA ReadRelationshipsInv == ASSUME CommunitiesInv, ReadRelationships PROVE CommunitiesInv'
<1> USE DEF CommunitiesInv
<1>1. /\ \A i : (Current(i)' <=> Current(i)) /\ DataOf(i)' = DataOf(i)
      /\ ActiveIds' = ActiveIds /\ (Assigned' <=> Assigned)
      /\ RelationshipsOf(id) \in SUBSET (Entity \X Entity)
  BY DataType, SameEntities, SameRows DEF ReadRelationships, tables
<1>2. hash' = [ents |-> ents, rels |-> RelationshipsOf(id)] /\ id' = id /\ ents' = ents
  BY DEF ReadRelationships
<1>3. hash' \in Data /\ hash'.ents = ents'
  BY <1>1, <1>2 DEF TypeOK, Data
<1>4. TypeOK'
  BY <1>3 DEF ReadRelationships, TypeOK, tables, history
<1>5. FoundOK'
  BY DEF ReadRelationships, FoundOK
<1>6. Pending' = Pending
  BY DEF ReadRelationships, Pending
<1>7. RowsOK'
  BY <1>3, <1>6 DEF ReadRelationships, RowsOK, tables, Honest
<1>8. QuietOK'
  <2> SUFFICES ASSUME quiet'
               PROVE  /\ Assigned' /\ Pending' \subseteq ActiveIds'
                      /\ \A i \in ActiveIds' \ (Pending' \cup failed') : Current(i)'
                      /\ hash' = DataOf(id)'
    BY DEF QuietOK, ReadRelationships
  <2>1. quiet /\ pc = "rels" /\ failed' = failed
    BY DEF ReadRelationships, history
  <2>2. Assigned' /\ Pending' \subseteq ActiveIds'
    BY <1>1, <1>6, <2>1 DEF QuietOK
  <2>3. hash' = DataOf(id)
    BY <1>2, <2>1 DEF QuietOK, DataOf
  <2>4. ASSUME NEW i \in ActiveIds' \ (Pending' \cup failed') PROVE Current(i)'
    <3>1. Current(i)
      BY <1>1, <1>6, <2>1, <2>4 DEF QuietOK
    <3> QED BY <1>1, <3>1
  <2> QED BY <1>1, <1>2, <2>2, <2>3, <2>4
<1>9. SettledOK' /\ OnlyFailedStale' /\ GoneHaveNone'
  BY SettledKept DEF ReadRelationships, history
<1> QED BY <1>4, <1>5, <1>7, <1>8, <1>9

\* A row for the data at hand, whoever wrote its summary, takes the place of a pending one.
LEMMA WriteInv ==
    ASSUME CommunitiesInv, pc = "write", pc' = "next",
           UNCHANGED <<world, community, locals, history>>,
           NEW row \in Row, row.hash = hash, row.summary = hash,
           row.members = {e[1] : e \in ents},
           communities' = [communities EXCEPT ![id] = row]
    PROVE  CommunitiesInv'
<1> USE DEF CommunitiesInv
<1>1. id \in Id \ todo /\ hash \in Data /\ hash.ents = ents
  BY DEF RowsOK
<1>2. TypeOK'
  BY DEF TypeOK, locals, history
<1>3. FoundOK' /\ OnlyFailedStale'
  BY DEF FoundOK, OnlyFailedStale
<1>4. Pending' = Pending \ {id} /\ id \in Pending
  BY <1>1 DEF Pending, locals
<1>5. communities'[id] = row /\ \A i \in Id \ {id} : communities'[i] = communities[i]
  BY <1>1 DEF TypeOK
<1>6. RowsOK'
  <2>1. Honest(communities')
    BY <1>1, <1>5 DEF RowsOK, Honest
  <2>2. IF force' THEN previous' = [i \in Id |-> NoRow]
        ELSE \A i \in Pending' : previous'[i] = communities'[i]
    BY <1>4, <1>5 DEF RowsOK, locals, Pending
  <2> QED BY <2>1, <2>2 DEF RowsOK, locals, Honest
<1>7. /\ \A i : EntitiesOf(i)' = EntitiesOf(i) /\ DataOf(i)' = DataOf(i)
      /\ ActiveIds' = ActiveIds /\ (Assigned' <=> Assigned) /\ GoneHaveNone' /\ ActiveIds \subseteq Id
  BY SameEntities, DataType
<1>8. ASSUME NEW i \in Id, IF i = id THEN hash = DataOf(i) ELSE Current(i) PROVE Current(i)'
  <2>1. DataOf(i)' = DataOf(i)
    BY <1>7
  <2> QED BY <1>5, <1>8, <2>1 DEF Current
<1>9. QuietOK'
  <2> SUFFICES ASSUME quiet'
               PROVE  /\ Assigned' /\ Pending' \subseteq ActiveIds'
                      /\ \A i \in ActiveIds' \ (Pending' \cup failed') : Current(i)'
    BY DEF QuietOK
  <2>1. quiet /\ failed' = failed
    BY DEF history
  <2>2. Assigned' /\ Pending' \subseteq ActiveIds' /\ hash = DataOf(id)
    BY <1>4, <1>7, <2>1 DEF QuietOK
  <2>3. ASSUME NEW i \in ActiveIds' \ (Pending' \cup failed') PROVE Current(i)'
    <3>1. i \in Id
      BY <1>7
    <3>2. i # id => Current(i)
      BY <1>4, <1>7, <2>1, <2>3 DEF QuietOK
    <3> QED BY <1>8, <2>2, <3>1, <3>2
  <2> QED BY <2>2, <2>3
<1>10. SettledOK'
  <2> SUFFICES ASSUME settled'
               PROVE  /\ quiet' /\ Assigned'
                      /\ \A i \in ActiveIds' : Current(i)' /\ (~force' => previous'[i].hash = DataOf(i)')
    BY DEF SettledOK
  <2>1. settled /\ quiet /\ quiet' /\ hash = DataOf(id) /\ Assigned' /\ force' = force /\ previous' = previous
    BY <1>7 DEF SettledOK, QuietOK, history, locals
  <2>2. ASSUME NEW i \in ActiveIds'
        PROVE  Current(i)' /\ (~force' => previous'[i].hash = DataOf(i)')
    <3>1. i \in Id /\ i \in ActiveIds
      BY <1>7
    <3>2. Current(i) /\ (~force => previous[i].hash = DataOf(i))
      BY <2>1, <3>1 DEF SettledOK
    <3>3. DataOf(i)' = DataOf(i)
      BY <1>7
    <3>4. Current(i)'
      BY <1>8, <2>1, <3>1, <3>2
    <3> QED BY <2>1, <3>2, <3>3, <3>4
  <2> QED BY <2>1, <2>2
<1> QED BY <1>2, <1>3, <1>6, <1>7, <1>9, <1>10

LEMMA ReuseInv == ASSUME CommunitiesInv, Reuse PROVE CommunitiesInv'
<1>1. /\ TypeOK /\ RowsOK /\ pc = "write" /\ HasPrior /\ pc' = "next"
      /\ UNCHANGED <<world, community, locals, history>>
  BY DEF Reuse, CommunitiesInv
<1>2. Prior \in Id /\ previous[Prior].hash = hash
  BY <1>1, PriorFound
<1>3. hash \in Data /\ hash.ents = ents /\ id \in Id \ todo
  BY <1>1 DEF RowsOK
<1>4. hash # None
  BY <1>3, CommunitiesAssumption DEF CommunitiesAssumption
<1>5. previous[Prior] # NoRow
  BY <1>2, <1>4 DEF NoRow
<1>6. previous[Prior].summary = hash /\ previous[Prior].members = {e[1] : e \in ents}
  BY <1>1, <1>2, <1>3, <1>5 DEF RowsOK, Honest
<1> DEFINE row == [summary |-> hash, members |-> {e[1] : e \in ents}, hash |-> hash]
<1>7. row \in Row
  BY <1>1, <1>3 DEF TypeOK, Row
<1>8. communities' = [communities EXCEPT ![id] = row]
  <2>1. CASE Prior # id
    BY <1>6, <2>1 DEF Reuse, Upsert
  <2>2. CASE Prior = id
    <3>1. ~force
      <4>1. CASE force
        BY <1>1, <1>2, <1>5, <4>1 DEF RowsOK
      <4> QED BY <4>1
    <3>2. communities[id] = previous[id]
      BY <1>1, <1>3, <3>1 DEF RowsOK, Pending
    <3>3. communities[id] = row
      <4>1. previous[id] \in Row
        BY <1>1, <1>3 DEF TypeOK
      <4> QED BY <1>2, <1>6, <2>2, <3>2, <4>1 DEF Row
    <3>4. communities' = communities
      BY <2>2 DEF Reuse
    <3> QED BY <1>1, <3>3, <3>4 DEF TypeOK
  <2> QED BY <2>1, <2>2
<1> QED BY <1>1, <1>7, <1>8, WriteInv

LEMMA SummarizeInv == ASSUME CommunitiesInv, Summarize PROVE CommunitiesInv'
<1> DEFINE row == [summary |-> hash, members |-> {e[1] : e \in ents}, hash |-> hash]
<1>1. row \in Row
  BY DEF Summarize, CommunitiesInv, TypeOK, RowsOK, Row
<1> QED BY <1>1, WriteInv DEF Summarize, Upsert

LEMMA FailsInv == ASSUME CommunitiesInv, Fails PROVE CommunitiesInv'
<1> USE DEF CommunitiesInv
<1>1. /\ UNCHANGED <<tables, locals, quiet, settled>>
      /\ pc \in {"rels", "write"} /\ pc' = "next" /\ failed' = failed \cup {id}
  BY DEF Fails
<1>2. TypeOK'
  BY <1>1 DEF TypeOK, RowsOK, tables, locals
<1>3. FoundOK'
  BY <1>1 DEF FoundOK
<1>4. Pending' \subseteq Pending /\ Pending \subseteq Pending' \cup failed'
  BY <1>1 DEF Pending, locals
<1>5. RowsOK'
  BY <1>1, <1>4 DEF RowsOK, tables, locals, Honest
<1>6. QuietOK'
  <2> SUFFICES ASSUME quiet'
               PROVE  /\ Assigned' /\ Pending' \subseteq ActiveIds'
                      /\ \A i \in ActiveIds' \ (Pending' \cup failed') : Current(i)'
    BY <1>1 DEF QuietOK
  <2>1. /\ ActiveIds' = ActiveIds /\ (Assigned' <=> Assigned)
        /\ \A i : Current(i)' <=> Current(i)
    BY <1>1, SameEntities, SameRows DEF tables
  <2>2. Assigned' /\ Pending' \subseteq ActiveIds'
    BY <1>1, <1>4, <2>1 DEF QuietOK
  <2>3. ASSUME NEW i \in ActiveIds' \ (Pending' \cup failed') PROVE Current(i)'
    <3>1. Current(i)
      BY <1>1, <1>4, <2>1, <2>3 DEF QuietOK
    <3> QED BY <2>1, <3>1
  <2> QED BY <2>2, <2>3
<1>7. SettledOK' /\ OnlyFailedStale' /\ GoneHaveNone'
  BY <1>1, SettledKept DEF locals
<1> QED BY <1>2, <1>3, <1>5, <1>6, <1>7

LEMMA DeleteStaleInv == ASSUME CommunitiesInv, DeleteStale PROVE CommunitiesInv'
<1> USE DEF CommunitiesInv
<1>1. /\ pc = "next" /\ todo = {} /\ pc' = "idle" /\ UNCHANGED <<world, community, locals, failed, quiet>>
      /\ communities' = [i \in Id |-> IF i \in ActiveIds THEN communities[i] ELSE NoRow]
      /\ settled' = (quiet /\ failed = {})
  BY DEF DeleteStale
<1>2. /\ \A i : DataOf(i)' = DataOf(i)
      /\ ActiveIds' = ActiveIds /\ (Assigned' <=> Assigned) /\ GoneHaveNone' /\ ActiveIds \subseteq Id
  BY <1>1, SameEntities, DataType
<1>3. TypeOK'
  BY <1>1 DEF TypeOK, locals, Row, NoRow
<1>4. FoundOK'
  BY <1>1 DEF FoundOK
<1>5. Pending = {} /\ Pending' = {}
  BY <1>1 DEF Pending
<1>6. RowsOK'
  <2>1. Honest(communities')
    BY <1>1 DEF RowsOK, Honest
  <2> QED BY <1>1, <1>5, <2>1 DEF RowsOK, locals, Honest
<1>7. ASSUME NEW i \in ActiveIds, Current(i) PROVE Current(i)'
  <2>1. DataOf(i)' = DataOf(i) /\ communities'[i] = communities[i]
    BY <1>1, <1>2
  <2> QED BY <1>7, <2>1 DEF Current
<1>8. quiet' => Assigned' /\ \A i \in ActiveIds' \ failed' : Current(i)'
  <2> SUFFICES ASSUME quiet' PROVE Assigned' /\ \A i \in ActiveIds' \ failed' : Current(i)'
    OBVIOUS
  <2>1. Assigned' /\ \A i \in ActiveIds \ failed : Current(i)
    BY <1>1, <1>2, <1>5 DEF QuietOK
  <2>2. ASSUME NEW i \in ActiveIds' \ failed' PROVE Current(i)'
    BY <1>1, <1>2, <1>7, <2>1
  <2> QED BY <2>1, <2>2
<1>9. QuietOK' /\ SettledOK'
  BY <1>1, <1>8 DEF QuietOK, SettledOK
<1>10. OnlyFailedStale'
  BY <1>1, <1>2, <1>8 DEF OnlyFailedStale
<1> QED BY <1>2, <1>3, <1>4, <1>6, <1>9, <1>10

LEMMA IndexInv == ASSUME CommunitiesInv, Index PROVE CommunitiesInv'
<1> USE DEF CommunitiesInv
<1>1. /\ UNCHANGED <<communities, pc, locals, failed>> /\ world' \in World /\ ~quiet' /\ ~settled'
      /\ community' = [e \in Entity |->
             IF world.row[e] # None /\ world'.row[e] # None THEN community[e] ELSE NoCommunity]
  BY DEF Index
<1>2. TypeOK'
  BY <1>1 DEF Index, TypeOK, locals
<1>3. FoundOK'
  <2> HIDE DEF CommunitiesInv
  <2>1. FoundOK /\ UNCHANGED <<pc, graph, together, partition>> /\ ~quiet'
    BY <1>1 DEF locals, CommunitiesInv
  <2> QED BY <2>1 DEF FoundOK
<1>4. Pending' = Pending
  BY <1>1 DEF Pending, locals
<1>5. RowsOK'
  BY <1>1, <1>4 DEF RowsOK, locals, Honest
<1>6. QuietOK' /\ SettledOK' /\ OnlyFailedStale'
  BY <1>1 DEF QuietOK, SettledOK, OnlyFailedStale
<1>7. GoneHaveNone'
  BY <1>1 DEF GoneHaveNone, Present
<1> QED BY <1>2, <1>3, <1>5, <1>6, <1>7

LEMMA CrashInv == ASSUME CommunitiesInv, Crash PROVE CommunitiesInv'
<1> USE DEF CommunitiesInv
<1>1. UNCHANGED <<tables, locals, failed>> /\ pc' = "idle" /\ ~quiet' /\ ~settled'
  BY DEF Crash
<1>2. TypeOK'
  BY <1>1 DEF Crash, TypeOK, tables, locals
<1>3. FoundOK' /\ QuietOK' /\ SettledOK' /\ OnlyFailedStale'
  BY <1>1 DEF FoundOK, QuietOK, SettledOK, OnlyFailedStale
<1>4. Pending' = {}
  BY <1>1 DEF Pending
<1>5. RowsOK'
  BY <1>1, <1>4 DEF RowsOK, tables, locals, Honest
<1>6. GoneHaveNone'
  BY <1>1, SameEntities DEF tables
<1> QED BY <1>2, <1>3, <1>5, <1>6

LEMMA SameInv == ASSUME CommunitiesInv, UNCHANGED vars PROVE CommunitiesInv'
<1> USE DEF CommunitiesInv
<1>1. UNCHANGED <<tables, pc, locals, failed, quiet, settled>>
  BY DEF vars, history
<1>2. /\ \A i : (Current(i)' <=> Current(i)) /\ EntitiesOf(i)' = EntitiesOf(i) /\ DataOf(i)' = DataOf(i)
      /\ ActiveIds' = ActiveIds /\ (Assigned' <=> Assigned) /\ GoneHaveNone'
  BY <1>1, SameEntities, SameRows DEF tables
<1>3. TypeOK' /\ FoundOK' /\ RowsOK'
  <2>1. Pending' = Pending
    BY <1>1 DEF Pending, locals
  <2> QED BY <1>1, <2>1 DEF TypeOK, FoundOK, RowsOK, tables, locals, Honest
<1>4. QuietOK' /\ SettledOK' /\ OnlyFailedStale'
  BY <1>1 DEF QuietOK, SettledOK, OnlyFailedStale, Pending, Current, DataOf, EntitiesOf,
     RelationshipsOf, Members, ActiveIds, Assigned, tables, locals
<1> QED BY <1>2, <1>3, <1>4

-----------------------------------------------------------------------------
LEMMA CommunitiesStep == ASSUME CommunitiesInv, [Next]_vars PROVE CommunitiesInv'
<1>1. CASE SummarizerStep
  BY <1>1, StartInv, ReadGraphInv, ReadCooccurrenceInv, AttachRoundInv, AssignInv, ListActiveInv,
     ReadEntitiesInv, ReadRelationshipsInv, ReuseInv, SummarizeInv, DeleteStaleInv DEF SummarizerStep
<1>2. CASE Fails \/ Index \/ Crash \/ UNCHANGED vars
  BY <1>2, FailsInv, IndexInv, CrashInv, SameInv
<1> QED BY <1>1, <1>2 DEF Next

\* CommunitiesInv is inductive: what the run has read is of some state of the tables, and
\* while the indexer is idle of the present one.
THEOREM CommunitiesInvariant == Spec => []CommunitiesInv
<1>1. Init => CommunitiesInv
  BY InitInv
<1>2. CommunitiesInv /\ [Next]_vars => CommunitiesInv'
  BY CommunitiesStep
<1> QED BY <1>1, <1>2, PTL DEF Spec

\* The types of the tables and of the summarizer's variables.
THEOREM CommunitiesTypeCorrect == Spec => []TypeOK
<1>1. CommunitiesInv => TypeOK
  BY DEF CommunitiesInv
<1> QED BY <1>1, CommunitiesInvariant, PTL

\* A row holds the summary of exactly the data its hash stands for, whatever was copied,
\* renumbered and overwritten (summarizer.py:118-133).
THEOREM SummariesHonest == Spec => []RowsHonest
<1>1. CommunitiesInv => RowsHonest
  BY DEF CommunitiesInv, RowsOK, RowsHonest
<1> QED BY <1>1, CommunitiesInvariant, PTL

\* A run beside an idle indexer leaves the communities of the present graph, each with the
\* summary of its data unless that failed, and no other row (summarizer.py:165-171).
THEOREM RunLeavesCurrent == Spec => []OnlyFailedStale
<1>1. CommunitiesInv => OnlyFailedStale
  BY DEF CommunitiesInv
<1> QED BY <1>1, CommunitiesInvariant, PTL

\* After one that missed nothing, further runs over an unchanged graph find every summary
\* among the rows they begin with (summarizer.py:146-150).
THEOREM SecondRunIsFree == Spec => []UnchangedIsFree
<1>1. CommunitiesInv => UnchangedIsFree
  <2> SUFFICES ASSUME CommunitiesInv, settled, ~force, pc = "write" PROVE HasPrior
    BY DEF UnchangedIsFree
  <2>1. quiet /\ id \in Pending /\ Pending \subseteq ActiveIds /\ hash = DataOf(id)
    BY DEF CommunitiesInv, SettledOK, QuietOK, RowsOK, Pending
  <2>2. previous[id].hash = DataOf(id) /\ id \in Id
    BY <2>1 DEF CommunitiesInv, SettledOK, RowsOK
  <2> QED BY <2>1, <2>2 DEF HasPrior
<1> QED BY <1>1, CommunitiesInvariant, PTL
-----------------------------------------------------------------------------
(***************************************************************************)
(* Neighborhoods.  The list of a parent is sorted by ranks, which are      *)
(* cardinalities; in the list of a hop the first places are those of the   *)
(* lists' first elements, and so on (tiers), and only first occurrences    *)
(* stay.  After each turn of the loop the selection is a prefix of what    *)
(* the hops reach, nearer hops first, or all of it (Spread).               *)
(***************************************************************************)
\* What Distinct has seen after n elements.
Seen(s, N, f) ==
    \A n \in 0..N : f[n] = IF n = 0 THEN <<>>
                           ELSE IF Contains(f[n - 1], s[n]) THEN f[n - 1]
                                ELSE Append(f[n - 1], s[n])

\* dict.fromkeys as a recursion.
LEMMA DistinctStep ==
    ASSUME NEW S, NEW s \in Seq(S)
    PROVE  \E f \in [0..Len(s) -> Seq(S)] : Seen(s, Len(s), f) /\ Distinct(s) = f[Len(s)]
<1> DEFINE N == Len(s)
           T == Seq(S)
           step == [x \in (1..N) \X T |->
                       IF Contains(x[2], s[x[1]]) THEN x[2] ELSE Append(x[2], s[x[1]])]
           Is(f) == f = [n \in 0..N |->
                            IF n = 0 THEN <<>>
                            ELSE LET prev == f[n - 1]
                                 IN  IF Contains(prev, s[n]) THEN prev ELSE Append(prev, s[n])]
<1>1. N \in Nat /\ <<>> \in T /\ step \in [(1..N) \X T -> T]
  OBVIOUS
<1>2. ASSUME NEW f, \A n \in 0..N : f[n] \in T, NEW n \in 0..N
      PROVE  (IF n = 0 THEN <<>> ELSE step[<<n, f[n - 1]>>])
               = IF n = 0 THEN <<>>
                 ELSE IF Contains(f[n - 1], s[n]) THEN f[n - 1] ELSE Append(f[n - 1], s[n])
  <2>1. n # 0 => n - 1 \in 0..N /\ n \in 1..N
    OBVIOUS
  <2>2. n # 0 => <<n, f[n - 1]>> \in (1..N) \X T
    BY <1>2, <2>1
  <2> QED BY <2>2
<1>3. PICK g \in [0..N -> T] : Iterates(N, <<>>, step, g)
  <2> HIDE DEF N, T, step
  <2> QED BY <1>1, RecursionExists
<1>4. Is(g)
  <2>1. \A n \in 0..N : g[n] \in T
    OBVIOUS
  <2>2. \A n \in 0..N : g[n] = IF n = 0 THEN <<>> ELSE step[<<n, g[n - 1]>>]
    BY <1>3 DEF Iterates
  <2> HIDE DEF step, T, N
  <2> QED BY <1>2, <2>1, <2>2
<1> DEFINE f == CHOOSE h : Is(h)
<1>5. Is(f)
  BY <1>4
<1>6. Distinct(s) = f[N]
  BY DEF Distinct
<1>7. Seen(s, N, f)
  <2> HIDE DEF f
  <2> QED BY <1>5 DEF Seen
<1>8. \A n \in 0..N : f[n] \in T
  <2> DEFINE A == {n \in 0..N : f[n] \in T}
  <2>1. 0 \in A
    <3> HIDE DEF f
    <3> QED BY <1>1, <1>5
  <2>2. ASSUME NEW n \in 0..(N - 1), n \in A PROVE n + 1 \in A
    <3>1. n + 1 \in 1..N /\ n + 1 \in 0..N /\ n + 1 # 0 /\ (n + 1) - 1 = n
      BY <1>1
    <3> HIDE DEF f
    <3>2. f[n] \in T /\ s[n + 1] \in S
      BY <2>2, <3>1
    <3>3. f[n + 1] = IF Contains(f[n], s[n + 1]) THEN f[n] ELSE Append(f[n], s[n + 1])
      BY <1>7, <3>1 DEF Seen
    <3>4. f[n + 1] \in T
      BY <3>2, <3>3
    <3> QED BY <3>1, <3>4
  <2> HIDE DEF A, N
  <2>3. \A n \in 0..N : n \in A
    BY <1>1, <2>1, <2>2, AllUpTo
  <2> QED BY <2>3 DEF A
<1>9. f \in [0..N -> T]
  <2> HIDE DEF f, N, T
  <2>1. f = [n \in 0..N |-> f[n]]
    BY <1>5
  <2> QED BY <1>8, <2>1
<1> HIDE DEF f
<1> QED BY <1>6, <1>7, <1>9

\* d lists where the elements of the first n of s occur first: at w.
Firsts(s, n, d, w) ==
    /\ w \in [1..Len(d) -> 1..n]
    /\ \A i, j \in 1..Len(d) : i < j => w[i] < w[j]
    /\ \A i \in 1..Len(d) : d[i] = s[w[i]] /\ \A j \in 1..n : j < w[i] => s[j] # d[i]
    /\ \A j \in 1..n : \E i \in 1..Len(d) : d[i] = s[j]

\* Distinct keeps exactly the first occurrences, in their order.
LEMMA DistinctFirsts ==
    ASSUME NEW S, NEW s \in Seq(S)
    PROVE  Distinct(s) \in Seq(S) /\ \E w : Firsts(s, Len(s), Distinct(s), w)
<1>1. PICK f \in [0..Len(s) -> Seq(S)] : Seen(s, Len(s), f) /\ Distinct(s) = f[Len(s)]
  BY DistinctStep
<1> DEFINE N == Len(s)
           A == {n \in 0..N : \E w : Firsts(s, n, f[n], w)}
<1>2. N \in Nat
  OBVIOUS
<1>3. 0 \in A
  <2>1. f[0] = <<>>
    BY <1>1, <1>2 DEF Seen
  <2>2. Firsts(s, 0, f[0], <<>>)
    BY <2>1 DEF Firsts
  <2> QED BY <1>2, <2>2
<1>4. ASSUME NEW n \in 0..(N - 1), n \in A PROVE n + 1 \in A
  <2>1. n + 1 \in 1..N /\ n + 1 \in 0..N /\ n + 1 # 0 /\ (n + 1) - 1 = n /\ n \in Nat
        /\ n \in 0..N
    BY <1>2
  <2>2. PICK w : Firsts(s, n, f[n], w)
    BY <1>4
  <2> DEFINE d == f[n]
             e == f[n + 1]
             x == s[n + 1]
  <2>3. d \in Seq(S) /\ x \in S /\ Len(d) \in Nat /\ e = IF Contains(d, x) THEN d ELSE Append(d, x)
    <3>1. d \in Seq(S) /\ x \in S
      BY <2>1
    <3>2. e = IF Contains(d, x) THEN d ELSE Append(d, x)
      BY <1>1, <2>1 DEF Seen
    <3> QED BY <3>1, <3>2
  <2>4. CASE Contains(d, x)
    <3>1. e = d
      BY <2>3, <2>4
    <3>2. Firsts(s, n + 1, d, w)
      <4> HIDE DEF d
      <4>1. w \in [1..Len(d) -> 1..n]
        BY <2>2 DEF Firsts, d
      <4>2. w \in [1..Len(d) -> 1..(n + 1)]
        <5>1. 1..n \subseteq 1..(n + 1)
          BY <2>1
        <5> QED BY <4>1, <5>1
      <4>3. ASSUME NEW j \in 1..(n + 1) PROVE \E i \in 1..Len(d) : d[i] = s[j]
        <5>1. CASE j = n + 1
          BY <5>1, <2>4 DEF Contains
        <5>2. CASE j # n + 1
          <6>1. j \in 1..n
            BY <5>2, <2>1
          <6> QED BY <6>1, <2>2 DEF Firsts, d
        <5> QED BY <5>1, <5>2
      <4>4. ASSUME NEW i \in 1..Len(d) PROVE \A j \in 1..(n + 1) : j < w[i] => s[j] # d[i]
        <5>1. w[i] \in 1..n
          BY <4>1
        <5>2. \A j \in 1..(n + 1) : j < w[i] => j \in 1..n
          BY <5>1, <2>1
        <5> QED BY <5>2, <2>2 DEF Firsts, d
      <4> QED BY <2>2, <4>2, <4>3, <4>4 DEF Firsts, d
    <3> QED BY <2>1, <3>1, <3>2
  <2>5. CASE ~Contains(d, x)
    <3> DEFINE m == Len(d)
               v == [i \in 1..(m + 1) |-> IF i = m + 1 THEN n + 1 ELSE w[i]]
    <3>1. e = Append(d, x) /\ Len(e) = m + 1 /\ m \in Nat /\ e[m + 1] = x
          /\ \A i \in 1..m : e[i] = d[i]
      BY <2>3, <2>5
    <3> HIDE DEF m, d, e, x
    <3>2. w \in [1..m -> 1..n] /\ \A i \in 1..(m + 1) : i # m + 1 => i \in 1..m
      BY <2>2, <3>1 DEF Firsts, d, m
    <3>3. v \in [1..(m + 1) -> 1..(n + 1)]
      <4>1. \A i \in 1..m : w[i] \in 1..(n + 1)
        BY <3>2, <2>1
      <4> QED BY <3>2, <4>1, <2>1
    <3>4. ASSUME NEW i \in 1..(m + 1), NEW j \in 1..(m + 1), i < j PROVE v[i] < v[j]
      <4>1. i \in 1..m
        BY <3>1, <3>4
      <4>2. v[i] = w[i] /\ w[i] \in 1..n
        BY <3>1, <3>2, <4>1
      <4>3. CASE j = m + 1
        BY <4>2, <4>3, <2>1
      <4>4. CASE j # m + 1
        <5>1. j \in 1..m /\ v[j] = w[j]
          BY <3>2, <4>4
        <5> QED BY <3>4, <4>1, <4>2, <5>1, <2>2 DEF Firsts, d, m
      <4> QED BY <4>3, <4>4
    <3>5. ASSUME NEW i \in 1..(m + 1)
          PROVE  e[i] = s[v[i]] /\ \A j \in 1..(n + 1) : j < v[i] => s[j] # e[i]
      <4>1. CASE i = m + 1
        <5>1. v[i] = n + 1 /\ e[i] = x
          BY <3>1, <4>1
        <5>2. \A j \in 1..(n + 1) : j < n + 1 => j \in 1..n
          BY <2>1
        <5>3. ASSUME NEW j \in 1..n PROVE s[j] # x
          <6>1. PICK k \in 1..m : d[k] = s[j]
            BY <2>2 DEF Firsts, d, m
          <6> QED BY <6>1, <2>5 DEF Contains, m
        <5> QED BY <5>1, <5>2, <5>3 DEF x
      <4>2. CASE i # m + 1
        <5>1. i \in 1..m /\ v[i] = w[i] /\ e[i] = d[i] /\ w[i] \in 1..n
          BY <3>1, <3>2, <4>2
        <5>2. \A j \in 1..(n + 1) : j < w[i] => j \in 1..n
          BY <5>1, <2>1
        <5>3. d[i] = s[w[i]] /\ \A j \in 1..n : j < w[i] => s[j] # d[i]
          BY <2>2, <5>1 DEF Firsts, d, m
        <5> QED BY <5>1, <5>2, <5>3
      <4> QED BY <4>1, <4>2
    <3>6. ASSUME NEW j \in 1..(n + 1) PROVE \E i \in 1..(m + 1) : e[i] = s[j]
      <4>1. CASE j = n + 1
        <5>1. m + 1 \in 1..(m + 1)
          BY <3>1
        <5> QED BY <3>1, <4>1, <5>1 DEF x
      <4>2. CASE j # n + 1
        <5>1. j \in 1..n
          BY <4>2, <2>1
        <5>2. PICK k \in 1..m : d[k] = s[j]
          BY <5>1, <2>2 DEF Firsts, d, m
        <5>3. k \in 1..(m + 1) /\ e[k] = d[k]
          BY <3>1
        <5> QED BY <5>2, <5>3
      <4> QED BY <4>1, <4>2
    <3>7. Firsts(s, n + 1, e, v)
      <4> HIDE DEF v
      <4> QED BY <3>1, <3>3, <3>4, <3>5, <3>6 DEF Firsts
    <3> QED BY <2>1, <3>7 DEF e
  <2> QED BY <2>4, <2>5
<1>5. N \in A
  <2> HIDE DEF A, N
  <2>1. \A n \in 0..N : n \in A
    BY <1>2, <1>3, <1>4, AllUpTo
  <2> QED BY <1>2, <2>1
<1> QED BY <1>1, <1>5

\* Each element of flat is of the seqs[o[i]] it came from, in their order.
Origins(seqs, n, flat, o) ==
    /\ o \in [1..Len(flat) -> 1..n]
    /\ \A i, j \in 1..Len(flat) : i <= j => o[i] <= o[j]
    /\ \A i \in 1..Len(flat) : flat[i] \in ToSet(seqs[o[i]])
    /\ \A m \in 1..n : \A x \in ToSet(seqs[m]) :
          \E i \in 1..Len(flat) : o[i] = m /\ flat[i] = x

\* Where the elements of a sequence of sequences come from when it is flattened.
LEMMA ConcatOrigins ==
    ASSUME NEW S, NEW seqs \in Seq(Seq(S)), NEW n \in Nat, n + 1 \in 1..Len(seqs),
           NEW flat \in Seq(S), NEW o, Origins(seqs, n, flat, o)
    PROVE  \E v : Origins(seqs, n + 1, flat \o seqs[n + 1], v)
<1> DEFINE t == seqs[n + 1]
           L == Len(flat)
           M == Len(t)
           e == flat \o t
           v == [i \in 1..(L + M) |-> IF i <= L THEN o[i] ELSE n + 1]
<1>1. t \in Seq(S)
  OBVIOUS
<1>2. L \in Nat /\ M \in Nat /\ Len(e) = L + M
      /\ \A i \in 1..(L + M) : e[i] = IF i <= L THEN flat[i] ELSE t[i - L]
  BY <1>1, ConcatProperties
<1>3. o \in [1..L -> 1..n] /\ \A i \in 1..(L + M) : i <= L => i \in 1..L
  BY <1>2 DEF Origins
<1> HIDE DEF t, L, M, e
<1>4. v \in [1..(L + M) -> 1..(n + 1)]
  <2>1. 1..n \subseteq 1..(n + 1)
    OBVIOUS
  <2>3. \A i \in 1..L : o[i] \in 1..(n + 1)
    <3> HIDE DEF v
    <3> QED BY <1>3, <2>1
  <2>2. n + 1 \in 1..(n + 1)
    OBVIOUS
  <2> QED BY <1>3, <2>3, <2>2
<1>5. ASSUME NEW i \in 1..(L + M), NEW j \in 1..(L + M), i <= j PROVE v[i] <= v[j]
  <2>1. CASE j <= L
    <3>1. i \in 1..L /\ j \in 1..L /\ v[i] = o[i] /\ v[j] = o[j]
      BY <1>2, <1>3, <1>5, <2>1
    <3> QED BY <1>5, <3>1 DEF Origins, L
  <2>2. CASE ~(j <= L)
    <3>1. v[j] = n + 1 /\ v[i] \in 1..(n + 1)
      BY <1>4, <2>2
    <3> QED BY <3>1
  <2> QED BY <2>1, <2>2
<1>6. ASSUME NEW i \in 1..(L + M) PROVE e[i] \in ToSet(seqs[v[i]])
  <2>1. CASE i <= L
    <3>1. i \in 1..L /\ v[i] = o[i] /\ e[i] = flat[i]
      BY <1>2, <1>3, <2>1
    <3> QED BY <3>1 DEF Origins, L
  <2>2. CASE ~(i <= L)
    <3>1. v[i] = n + 1 /\ e[i] = t[i - L] /\ i - L \in 1..M
      BY <1>2, <2>2
    <3>2. i - L \in DOMAIN t
      BY <1>1, <3>1 DEF M
    <3> QED BY <3>1, <3>2 DEF ToSet, t
  <2> QED BY <2>1, <2>2
<1>7. ASSUME NEW m \in 1..(n + 1), NEW x \in ToSet(seqs[m])
      PROVE  \E i \in 1..(L + M) : v[i] = m /\ e[i] = x
  <2>1. CASE m = n + 1
    <3>1. PICK k \in DOMAIN t : t[k] = x
      BY <2>1 DEF ToSet, t
    <3>2. k \in 1..M
      BY <1>1, <3>1 DEF M
    <3>3. k + L \in 1..(L + M) /\ ~(k + L <= L) /\ (k + L) - L = k
      BY <1>2, <3>2
    <3>4. v[k + L] = n + 1 /\ e[k + L] = t[k]
      BY <1>2, <3>3
    <3> QED BY <2>1, <3>1, <3>3, <3>4
  <2>2. CASE m # n + 1
    <3>1. m \in 1..n
      BY <2>2
    <3>2. PICK i \in 1..L : o[i] = m /\ flat[i] = x
      BY <3>1 DEF Origins, L
    <3>3. i \in 1..(L + M) /\ i <= L
      BY <1>2
    <3>4. v[i] = o[i] /\ e[i] = flat[i]
      BY <1>2, <3>3
    <3> QED BY <3>2, <3>3, <3>4
  <2> QED BY <2>1, <2>2
<1>8. Origins(seqs, n + 1, e, v)
  <2> HIDE DEF v
  <2> QED BY <1>2, <1>4, <1>5, <1>6, <1>7 DEF Origins
<1> QED BY <1>8 DEF e, t

\* The same for all of a sequence.
LEMMA FlattenOrigins ==
    ASSUME NEW S, NEW seqs \in Seq(Seq(S))
    PROVE  FlattenSeq(seqs) \in Seq(S) /\ \E o : Origins(seqs, Len(seqs), FlattenSeq(seqs), o)
<1> DEFINE N == Len(seqs)
           T == Seq(S)
<1>1. N \in Nat /\ <<>> \in T /\ \A n \in 1..N : seqs[n] \in T
  OBVIOUS
<1>2. CASE N = 0
  <2>1. FlattenSeq(seqs) = <<>>
    BY <1>2, EmptySeq DEF FlattenSeq
  <2>2. Origins(seqs, N, <<>>, <<>>)
    BY <1>2 DEF Origins
  <2> QED BY <2>1, <2>2
<1>3. CASE N # 0
  <2> DEFINE step == [x \in (1..N) \X T |-> x[2] \o seqs[x[1]]]
             Is(f) == f = [n \in 1..N |-> IF n = 1 THEN seqs[n] ELSE f[n - 1] \o seqs[n]]
  <2>1. step \in [(1..N) \X T -> T]
    <3>1. ASSUME NEW x \in (1..N) \X T PROVE x[2] \o seqs[x[1]] \in T
      <4>1. x[1] \in 1..N /\ x[2] \in T
        OBVIOUS
      <4>2. seqs[x[1]] \in T
        BY <1>1, <4>1
      <4> QED BY <4>1, <4>2, ConcatProperties
    <3> HIDE DEF T, N
    <3> QED BY <3>1
  <2>2. PICK g \in [0..N -> T] : Iterates(N, <<>>, step, g)
    <3> HIDE DEF N, T, step
    <3> QED BY <1>1, <2>1, RecursionExists
  <2> DEFINE h == [n \in 1..N |-> g[n]]
  <2>3. ASSUME NEW n \in 1..N PROVE h[n] = IF n = 1 THEN seqs[n] ELSE h[n - 1] \o seqs[n]
    <3>1. n \in 0..N /\ n # 0 /\ n - 1 \in 0..N /\ (n # 1 => n - 1 \in 1..N)
      BY <1>1
    <3>2. g[n] = step[<<n, g[n - 1]>>] /\ g[n - 1] \in T
      BY <2>2, <3>1 DEF Iterates
    <3>3. g[n] = g[n - 1] \o seqs[n]
      BY <3>2
    <3>4. CASE n = 1
      <4>1. 0 \in 0..N
        BY <1>1
      <4>2. g[0] = <<>>
        BY <2>2, <4>1 DEF Iterates
      <4>3. seqs[1] \in T
        BY <1>1, <3>4
      <4>4. <<>> \o seqs[1] = seqs[1]
        <5> HIDE DEF N
        <5> QED BY <4>3, ConcatEmptySeq
      <4>5. n - 1 = 0 /\ h[n] = g[n]
        BY <3>4
      <4> HIDE DEF N, h
      <4> QED BY <3>3, <3>4, <4>2, <4>4, <4>5
    <3>5. CASE n # 1
      <4> HIDE DEF N
      <4> QED BY <3>1, <3>3, <3>5
    <3> QED BY <3>4, <3>5
  <2>4. Is(h)
    <3> HIDE DEF N, T
    <3> QED BY <2>3
  <2> DEFINE f == CHOOSE k : Is(k)
  <2>5. Is(f)
    BY <2>4
  <2>6. FlattenSeq(seqs) = f[N]
    BY <1>3 DEF FlattenSeq
  <2> HIDE DEF f
  <2> DEFINE A == {n \in 0..N : n > 0 => f[n] \in T /\ \E o : Origins(seqs, n, f[n], o)}
  <2>7. 0 \in A
    BY <1>1
  <2>8. ASSUME NEW n \in 0..(N - 1), n \in A PROVE n + 1 \in A
    <3>1. n + 1 \in 1..N /\ n + 1 \in 0..N /\ (n + 1) - 1 = n /\ n \in Nat
      BY <1>1
    <3>2. f[n + 1] = IF n + 1 = 1 THEN seqs[n + 1] ELSE f[n] \o seqs[n + 1]
      BY <2>5, <3>1
    <3>3. CASE n = 0
      <4>1. Origins(seqs, 0, <<>>, <<>>)
        BY DEF Origins
      <4>2. \E v : Origins(seqs, n + 1, <<>> \o seqs[n + 1], v)
        BY <1>1, <3>1, <3>3, <4>1, ConcatOrigins
      <4>3. seqs[n + 1] \in T /\ <<>> \o seqs[n + 1] = seqs[n + 1]
        BY <1>1, <3>1, ConcatEmptySeq
      <4> QED BY <3>1, <3>2, <3>3, <4>2, <4>3
    <3>4. CASE n # 0
      <4>1. f[n] \in T /\ n + 1 # 1
        BY <2>8, <3>1, <3>4
      <4>2. PICK o : Origins(seqs, n, f[n], o)
        BY <2>8, <3>1, <3>4
      <4>3. \E v : Origins(seqs, n + 1, f[n] \o seqs[n + 1], v)
        BY <3>1, <4>1, <4>2, ConcatOrigins
      <4>4. f[n] \o seqs[n + 1] \in T
        BY <1>1, <3>1, <4>1, ConcatProperties
      <4> QED BY <3>1, <3>2, <4>1, <4>3, <4>4
    <3> QED BY <3>3, <3>4
  <2>9. N \in A
    <3> HIDE DEF A, N
    <3>1. \A n \in 0..N : n \in A
      BY <1>1, <2>7, <2>8, AllUpTo
    <3> QED BY <1>1, <3>1
  <2> QED BY <1>1, <1>3, <2>6, <2>9
<1> QED BY <1>2, <1>3

\* A strict total order of S.
OrderOf(S, R) ==
    /\ \A x \in S : <<x, x>> \notin R
    /\ \A x, y, z \in S : <<x, y>> \in R /\ <<y, z>> \in R => <<x, z>> \in R
    /\ \A x, y \in S : x # y => <<x, y>> \in R \/ <<y, x>> \in R

\* Ranks by number of smaller ones are places: sorting gives each member one, in order.
LEMMA SortedInOrder ==
    ASSUME NEW S, IsFiniteSet(S), NEW R, OrderOf(S, R)
    PROVE  /\ Sorted(S, R) \in [1..Cardinality(S) -> S] /\ Cardinality(S) \in Nat
           /\ \A i, j \in 1..Cardinality(S) :
                 i < j => <<Sorted(S, R)[i], Sorted(S, R)[j]>> \in R
           /\ \A x \in S : \E i \in 1..Cardinality(S) : Sorted(S, R)[i] = x
<1> DEFINE Pre(x) == {y \in S : <<y, x>> \in R}
           n == Cardinality(S)
           rank == [x \in S |-> Cardinality(Pre(x))]
           q == Sorted(S, R)
<1>1. n \in Nat
  BY FS_CardinalityType
<1>2. ASSUME NEW x \in S, NEW T \in SUBSET S, T \subseteq Pre(x)
      PROVE  IsFiniteSet(T) /\ Cardinality(T) \in Nat
  BY FS_Subset, FS_CardinalityType
<1>3. ASSUME NEW x \in S PROVE rank[x] \in 0..(n - 1)
  <2>1. Pre(x) \in SUBSET S /\ Pre(x) # S
    BY DEF OrderOf
  <2> HIDE DEF Pre
  <2>2. Cardinality(Pre(x)) <= n /\ Cardinality(Pre(x)) # n /\ IsFiniteSet(Pre(x))
    BY <2>1, FS_Subset
  <2>3. Cardinality(Pre(x)) \in Nat
    BY <2>2, FS_CardinalityType
  <2> HIDE DEF n
  <2>4. Cardinality(Pre(x)) \in 0..(n - 1)
    BY <1>1, <2>2, <2>3
  <2> QED BY <2>4
<1>4. ASSUME NEW x \in S, NEW y \in S, <<x, y>> \in R PROVE rank[x] < rank[y]
  <2>1. Pre(x) \in SUBSET Pre(y) /\ x \in Pre(y) /\ x \notin Pre(x)
    BY <1>4 DEF OrderOf
  <2>2. Pre(y) \in SUBSET S
    OBVIOUS
  <2> HIDE DEF Pre
  <2>3. IsFiniteSet(Pre(y))
    BY <2>2, FS_Subset
  <2>4. Cardinality(Pre(x)) <= Cardinality(Pre(y)) /\ Cardinality(Pre(x)) # Cardinality(Pre(y))
    BY <2>1, <2>3, FS_Subset
  <2>5. rank[x] = Cardinality(Pre(x)) /\ rank[y] = Cardinality(Pre(y))
    OBVIOUS
  <2>6. rank[x] \in 0..(n - 1) /\ rank[y] \in 0..(n - 1)
    BY <1>3
  <2> HIDE DEF rank, n
  <2> QED BY <1>1, <2>4, <2>5, <2>6
<1>5. \A i \in 0..(n - 1) : \E x \in S : rank[x] = i
  <2>1. rank \in [S -> 0..(n - 1)]
    <3> HIDE DEF n, Pre
    <3>1. \A x \in S : Cardinality(Pre(x)) \in 0..(n - 1)
      BY <1>3
    <3> QED BY <3>1
  <2>2. ASSUME NEW x \in S, NEW y \in S, rank[x] = rank[y] PROVE x = y
    <3>1. rank[x] \in 0..(n - 1) /\ rank[y] \in 0..(n - 1)
      BY <1>3
    <3> HIDE DEF n, rank
    <3>2. ~(rank[x] < rank[y]) /\ ~(rank[y] < rank[x])
      BY <1>1, <2>2, <3>1
    <3> QED BY <1>4, <3>2 DEF OrderOf
  <2> HIDE DEF rank
  <2>3. rank \in Injection(S, 0..(n - 1))
    <3> DEFINE T == 0..(n - 1)
    <3>1. rank \in [S -> T] /\ \A x, y \in S : rank[x] = rank[y] => x = y
      BY <2>1, <2>2
    <3> HIDE DEF T
    <3>2. rank \in Injection(S, T)
      BY <3>1, Fun_IsInj
    <3> QED BY <3>2 DEF T
  <2>4. IsFiniteSet(0..(n - 1)) /\ Cardinality(0..(n - 1)) = n
    <3> HIDE DEF n
    <3> QED BY <1>1, FS_Interval
  <2>5. rank \in Surjection(S, 0..(n - 1))
    BY <2>3, <2>4, FS_Injection
  <2> HIDE DEF n
  <2> QED BY <2>5, Fun_SurjectionProperties
<1>6. ASSUME NEW i \in 1..n PROVE q[i] \in S /\ rank[q[i]] = i - 1
  <2>1. i - 1 \in 0..(n - 1)
    BY <1>1
  <2>2. PICK x \in S : rank[x] = i - 1
    BY <1>5, <2>1
  <2>3. Cardinality(Pre(x)) = i - 1
    BY <2>2
  <2>4. q[i] = CHOOSE z \in S : Cardinality(Pre(z)) = i - 1
    BY DEF Sorted
  <2> HIDE DEF q, Pre
  <2>5. q[i] \in S /\ Cardinality(Pre(q[i])) = i - 1
    BY <2>3, <2>4
  <2> QED BY <2>5
<1>7. q \in [1..n -> S]
  <2>1. q = [i \in 1..n |-> CHOOSE z \in S : Cardinality(Pre(z)) = i - 1]
    BY DEF Sorted
  <2> HIDE DEF q, n, Pre
  <2>2. q = [i \in 1..n |-> q[i]]
    BY <2>1
  <2> QED BY <1>6, <2>2
<1>8. ASSUME NEW i \in 1..n, NEW j \in 1..n, i < j PROVE <<q[i], q[j]>> \in R
  <2>1. q[i] \in S /\ q[j] \in S /\ rank[q[i]] = i - 1 /\ rank[q[j]] = j - 1
    BY <1>6
  <2> HIDE DEF q, rank, n
  <2>2. rank[q[i]] < rank[q[j]] /\ ~(rank[q[j]] < rank[q[i]])
    BY <1>1, <1>8, <2>1
  <2>3. q[i] # q[j]
    BY <1>1, <1>8, <2>1
  <2> QED BY <1>4, <2>1, <2>2, <2>3 DEF OrderOf
<1>9. ASSUME NEW x \in S PROVE \E i \in 1..n : q[i] = x
  <2>1. rank[x] \in 0..(n - 1)
    BY <1>3
  <2> DEFINE i == rank[x] + 1
  <2> HIDE DEF n, q, rank
  <2>2. i \in 1..n /\ i - 1 = rank[x]
    BY <1>1, <2>1
  <2>3. q[i] \in S /\ rank[q[i]] = rank[x]
    BY <1>6, <2>2
  <2>4. ~(rank[q[i]] < rank[x]) /\ ~(rank[x] < rank[q[i]])
    BY <2>1, <2>3
  <2>5. q[i] = x
    BY <1>4, <2>3, <2>4 DEF OrderOf
  <2> QED BY <2>2, <2>5
<1> QED BY <1>1, <1>7, <1>8, <1>9

\* A tier has exactly the members of that rank, one of each list long enough.
LEMMA TierMembers ==
    ASSUME NEW S, NEW lists \in Seq(Seq(S)), NEW t \in Nat, t >= 1
    PROVE  /\ Tier(lists, t) \in Seq(S)
           /\ ToSet(Tier(lists, t)) = {lists[i][t] : i \in {j \in 1..Len(lists) : t <= Len(lists[j])}}
<1> DEFINE N == Len(lists)
           one == [i \in DOMAIN lists |-> IF t <= Len(lists[i]) THEN <<lists[i][t]>> ELSE <<>>]
           flat == FlattenSeq(one)
<1>1. N \in Nat /\ DOMAIN lists = 1..N
  OBVIOUS
<1>2. ASSUME NEW i \in 1..N
      PROVE  /\ one[i] \in Seq(S)
             /\ ToSet(one[i]) = IF t <= Len(lists[i]) THEN {lists[i][t]} ELSE {}
  <2>1. lists[i] \in Seq(S) /\ one[i] = IF t <= Len(lists[i]) THEN <<lists[i][t]>> ELSE <<>>
    BY <1>1
  <2>2. CASE t <= Len(lists[i])
    <3>1. lists[i][t] \in S
      BY <2>1, <2>2
    <3> HIDE DEF one
    <3> QED BY <2>1, <2>2, <3>1 DEF ToSet
  <2>3. CASE ~(t <= Len(lists[i]))
    <3> HIDE DEF one
    <3>1. one[i] = <<>>
      BY <2>1, <2>3
    <3> QED BY <2>3, <3>1 DEF ToSet
  <2> QED BY <2>2, <2>3
<1>3. one \in Seq(Seq(S)) /\ Len(one) = N
  <2>1. one \in [1..N -> Seq(S)]
    <3>1. one = [i \in 1..N |-> one[i]]
      BY <1>1
    <3> HIDE DEF one, N
    <3> QED BY <1>2, <3>1
  <2> HIDE DEF one, N
  <2> QED BY <1>1, <2>1, SeqDef, LenProperties
<1>4. flat \in Seq(S) /\ \E o : Origins(one, N, flat, o)
  <2> HIDE DEF one, N
  <2> QED BY <1>3, FlattenOrigins
<1>5. PICK o : Origins(one, N, flat, o)
  BY <1>4
<1>6. Tier(lists, t) = flat
  BY DEF Tier
<1> HIDE DEF one, N, flat
<1>7. ASSUME NEW x \in ToSet(flat)
      PROVE  x \in {lists[i][t] : i \in {j \in 1..N : t <= Len(lists[j])}}
  <2>1. PICK k \in 1..Len(flat) : flat[k] = x
    BY <1>4, <1>7 DEF ToSet
  <2>2. o[k] \in 1..N /\ x \in ToSet(one[o[k]])
    BY <1>5, <2>1 DEF Origins
  <2> QED BY <1>2, <2>2
<1>8. ASSUME NEW i \in 1..N, t <= Len(lists[i]) PROVE lists[i][t] \in ToSet(flat)
  <2>1. lists[i][t] \in ToSet(one[i])
    BY <1>2, <1>8
  <2>2. PICK k \in 1..Len(flat) : flat[k] = lists[i][t]
    BY <1>5, <2>1 DEF Origins
  <2>3. k \in DOMAIN flat
    BY <1>4
  <2> QED BY <2>2, <2>3 DEF ToSet
<1> QED BY <1>4, <1>6, <1>7, <1>8 DEF N

\* Each element of flat is at rank o[i] of some list, in the order of ranks.
AtRanks(lists, flat, o) ==
    /\ o \in [1..Len(flat) -> Nat]
    /\ \A i, j \in 1..Len(flat) : i <= j => o[i] <= o[j]
    /\ \A i \in 1..Len(flat) :
          \E k \in 1..Len(lists) : o[i] \in 1..Len(lists[k]) /\ flat[i] = lists[k][o[i]]
    /\ \A k \in 1..Len(lists) : \A r \in 1..Len(lists[k]) :
          \E i \in 1..Len(flat) : o[i] = r /\ flat[i] = lists[k][r]

\* A place in the tiers carries a rank, and ranks ascend.
LEMMA TiersAtRanks ==
    ASSUME NEW S, NEW lists \in Seq(Seq(S))
    PROVE  Tiers(lists) \in Seq(S) /\ \E o : AtRanks(lists, Tiers(lists), o)
<1> DEFINE N == Len(lists)
           lens == {0} \cup {Len(lists[i]) : i \in DOMAIN lists}
           depth == Max(lens)
           tiers == [t \in 1..depth |-> Tier(lists, t)]
           flat == FlattenSeq(tiers)
<1>1. N \in Nat /\ DOMAIN lists = 1..N /\ \A k \in 1..N : lists[k] \in Seq(S) /\ Len(lists[k]) \in Nat
  OBVIOUS
<1>2. depth \in Nat /\ \A k \in 1..N : Len(lists[k]) <= depth
  <2>1. lens \in SUBSET Nat /\ lens # {}
    BY <1>1
  <2>2. IsFiniteSet(lens)
    <3> DEFINE size == [i \in 1..N |-> Len(lists[i])]
               image == {Len(lists[i]) : i \in DOMAIN lists}
    <3>1. IsFiniteSet(1..N)
      <4> HIDE DEF N
      <4> QED BY <1>1, FS_Interval
    <3>2. IsFiniteSet(image)
      <4>1. size \in [1..N -> image] /\ \A t \in image : \E i \in 1..N : size[i] = t
        BY <1>1
      <4> HIDE DEF size, image, N
      <4>2. size \in Surjection(1..N, image)
        BY <4>1, Fun_IsSurj
      <4> QED BY <3>1, <4>2, FS_Surjection
    <3>3. IsFiniteSet({0})
      BY FS_Singleton
    <3> QED BY <3>2, <3>3, FS_Union
  <2> HIDE DEF lens
  <2>3. depth \in lens /\ \A y \in lens : depth >= y
    BY <2>1, <2>2, MaxExists
  <2>4. \A k \in 1..N : Len(lists[k]) \in lens
    BY <1>1 DEF lens
  <2> QED BY <1>1, <2>1, <2>3, <2>4
<1> HIDE DEF depth
<1>3. tiers \in Seq(Seq(S)) /\ Len(tiers) = depth
  <2>1. \A t \in 1..depth : Tier(lists, t) \in Seq(S)
    BY <1>2, TierMembers
  <2>2. tiers \in [1..depth -> Seq(S)]
    BY <2>1
  <2> HIDE DEF tiers
  <2> QED BY <1>2, <2>2, SeqDef, LenProperties
<1>4. flat \in Seq(S) /\ \E o : Origins(tiers, depth, flat, o)
  <2> HIDE DEF tiers
  <2> QED BY <1>3, FlattenOrigins
<1>5. PICK o : Origins(tiers, depth, flat, o)
  BY <1>4
<1>6. Tiers(lists) = flat
  BY DEF Tiers, depth
<1>7. ASSUME NEW t \in 1..depth
      PROVE  ToSet(tiers[t]) = {lists[i][t] : i \in {j \in 1..N : t <= Len(lists[j])}}
  <2>1. t \in Nat /\ t >= 1 /\ tiers[t] = Tier(lists, t)
    BY <1>2
  <2> HIDE DEF tiers
  <2> QED BY <2>1, TierMembers
<1> HIDE DEF tiers, flat, N
<1>8. o \in [1..Len(flat) -> Nat]
  <2>1. 1..depth \subseteq Nat
    OBVIOUS
  <2> QED BY <1>5, <2>1 DEF Origins
<1>9. ASSUME NEW i \in 1..Len(flat)
      PROVE  \E k \in 1..N : o[i] \in 1..Len(lists[k]) /\ flat[i] = lists[k][o[i]]
  <2>1. o[i] \in 1..depth /\ flat[i] \in ToSet(tiers[o[i]])
    BY <1>5 DEF Origins
  <2>2. PICK k \in 1..N : o[i] <= Len(lists[k]) /\ flat[i] = lists[k][o[i]]
    BY <1>7, <2>1
  <2>3. o[i] \in 1..Len(lists[k])
    BY <1>1, <2>1, <2>2
  <2> QED BY <2>2, <2>3
<1>10. ASSUME NEW k \in 1..N, NEW r \in 1..Len(lists[k])
       PROVE  \E i \in 1..Len(flat) : o[i] = r /\ flat[i] = lists[k][r]
  <2>1. r \in 1..depth /\ r <= Len(lists[k])
    BY <1>1, <1>2
  <2>2. lists[k][r] \in ToSet(tiers[r])
    BY <1>7, <2>1
  <2> QED BY <1>5, <2>1, <2>2 DEF Origins
<1>11. AtRanks(lists, flat, o)
  BY <1>5, <1>8, <1>9, <1>10 DEF AtRanks, Origins, N
<1> QED BY <1>4, <1>6, <1>11

Apart(s) == \A i, j \in 1..Len(s) : i # j => s[i] # s[j]

LEMMA FirstOfSeq ==
    ASSUME NEW S, NEW s \in Seq(S), NEW n \in Nat
    PROVE  /\ FirstOf(s, n) \in Seq(S)
           /\ Len(FirstOf(s, n)) = IF n <= Len(s) THEN n ELSE Len(s)
           /\ \A i \in 1..Len(FirstOf(s, n)) : FirstOf(s, n)[i] = s[i]
<1> DEFINE m == Min({n, Len(s)})
<1>1. Len(s) \in Nat
  OBVIOUS
<1>2. m \in {n, Len(s)} /\ m <= n /\ m <= Len(s)
  <2>1. {n, Len(s)} \in SUBSET Nat /\ {n, Len(s)} # {}
    BY <1>1
  <2>2. Min({n, Len(s)}) \in {n, Len(s)} /\ \A y \in {n, Len(s)} : Min({n, Len(s)}) <= y
    BY <2>1, MinExists
  <2> QED BY <2>2
<1>3. FirstOf(s, n) = SubSeq(s, 1, m)
  BY DEF FirstOf
<1> HIDE DEF m
<1>4. m \in Nat /\ \A i \in 1..m : i \in 1..Len(s)
  BY <1>1, <1>2
<1>5. SubSeq(s, 1, m) \in Seq(S) /\ Len(SubSeq(s, 1, m)) = m
      /\ \A i \in 1..m : SubSeq(s, 1, m)[i] = s[i]
  <2>1. SubSeq(s, 1, m) = [i \in 1..m |-> s[i]]
    BY <1>4
  <2>2. \A i \in 1..m : s[i] \in S
    BY <1>4
  <2>3. SubSeq(s, 1, m) \in [1..m -> S]
    BY <2>1, <2>2
  <2> QED BY <1>4, <2>1, <2>3, SeqDef, LenProperties
<1> QED BY <1>1, <1>2, <1>3, <1>5

\* No element twice, and none lost.
LEMMA DistinctIsSet ==
    ASSUME NEW S, NEW s \in Seq(S)
    PROVE  /\ Distinct(s) \in Seq(S) /\ ToSet(Distinct(s)) = ToSet(s) /\ Apart(Distinct(s))
<1> DEFINE d == Distinct(s)
<1>1. d \in Seq(S)
  BY DistinctFirsts
<1>2. PICK w : Firsts(s, Len(s), d, w)
  BY DistinctFirsts
<1> HIDE DEF d
<1>3. Len(s) \in Nat /\ Len(d) \in Nat /\ DOMAIN s = 1..Len(s) /\ DOMAIN d = 1..Len(d)
  BY <1>1
<1>4. w \in [1..Len(d) -> 1..Len(s)]
  BY <1>2 DEF Firsts
<1>5. \A i \in 1..Len(d) : d[i] = s[w[i]] /\ w[i] \in 1..Len(s)
  BY <1>2, <1>4 DEF Firsts
<1>6. ToSet(d) = ToSet(s)
  <2>1. ToSet(d) \subseteq ToSet(s)
    BY <1>3, <1>5 DEF ToSet
  <2>2. \A j \in 1..Len(s) : \E i \in 1..Len(d) : d[i] = s[j]
    BY <1>2 DEF Firsts
  <2> QED BY <1>3, <2>1, <2>2 DEF ToSet
<1>7. ASSUME NEW i \in 1..Len(d), NEW j \in 1..Len(d), i < j PROVE d[i] # d[j]
  <2>1. w[i] < w[j] /\ w[i] \in 1..Len(s)
    BY <1>2, <1>5, <1>7 DEF Firsts
  <2>2. s[w[i]] # d[j]
    BY <1>2, <2>1 DEF Firsts
  <2> QED BY <1>5, <2>2
<1>8. Apart(d)
  <2> SUFFICES ASSUME NEW i \in 1..Len(d), NEW j \in 1..Len(d), i # j PROVE d[i] # d[j]
    BY DEF Apart
  <2>1. i < j \/ j < i
    OBVIOUS
  <2> QED BY <1>7, <2>1
<1> QED BY <1>1, <1>6, <1>8 DEF d

TableOK(E, table) == E \subseteq Nat /\ IsFiniteSet(E) /\ table \in [E \X E -> Nat]

LEMMA NeighborsType ==
    ASSUME NEW E, NEW table, TableOK(E, table), NEW p \in E
    PROVE  /\ Neighbors(table, p) \subseteq E /\ IsFiniteSet(Neighbors(table, p))
           /\ \A n \in E : Between(table, p, n) \in Nat
<1>1. Neighbors(table, p) \subseteq E
  <2>1. DOMAIN table = E \X E
    BY DEF TableOK
  <2>2. Entities(table) \subseteq E
    BY <2>1 DEF Entities
  <2> QED BY <2>2 DEF Neighbors
<1>2. IsFiniteSet(Neighbors(table, p))
  BY <1>1, FS_Subset DEF TableOK
<1>3. ASSUME NEW n \in E PROVE Between(table, p, n) \in Nat
  <2>1. table[<<p, n>>] \in Nat /\ table[<<n, p>>] \in Nat
    BY DEF TableOK
  <2> QED BY <2>1 DEF Between
<1> QED BY <1>1, <1>2, <1>3

\* The list of a parent is its neighbors that are not chosen, each once.
LEMMA RankedNeighbors ==
    ASSUME NEW E, NEW table, TableOK(E, table), NEW p \in E, NEW chosen
    PROVE  /\ Ranked(table, p, chosen) \in Seq(E) /\ Apart(Ranked(table, p, chosen))
           /\ ToSet(Ranked(table, p, chosen)) = Neighbors(table, p) \ chosen
<1> DEFINE new == Neighbors(table, p) \ chosen
           key(n) == Between(table, p, n)
           before(m, n) == \/ key(m) > key(n)
                           \/ key(m) = key(n) /\ m < n
           R == {e \in new \X new : before(e[1], e[2])}
           q == Ranked(table, p, chosen)
<1>1. new \subseteq E /\ IsFiniteSet(new)
  <2>1. new \in SUBSET Neighbors(table, p)
    OBVIOUS
  <2> HIDE DEF new
  <2> QED BY <2>1, NeighborsType, FS_Subset
<1>2. \A n \in new : n \in Nat /\ key(n) \in Nat
  BY <1>1, NeighborsType DEF TableOK
<1>3. OrderOf(new, R)
  <2> HIDE DEF new, key
  <2>1. ASSUME NEW x \in new PROVE <<x, x>> \notin R
    BY <1>2
  <2>2. ASSUME NEW x \in new, NEW y \in new, NEW z \in new, <<x, y>> \in R, <<y, z>> \in R
        PROVE  <<x, z>> \in R
    <3>1. key(x) \in Nat /\ key(y) \in Nat /\ key(z) \in Nat /\ x \in Nat /\ y \in Nat /\ z \in Nat
      BY <1>2
    <3>2. before(x, y) /\ before(y, z)
      BY <2>2
    <3>3. before(x, z)
      BY <3>1, <3>2
    <3> QED BY <3>3
  <2>3. ASSUME NEW x \in new, NEW y \in new, x # y PROVE <<x, y>> \in R \/ <<y, x>> \in R
    <3>1. key(x) \in Nat /\ key(y) \in Nat /\ x \in Nat /\ y \in Nat
      BY <1>2
    <3>2. before(x, y) \/ before(y, x)
      BY <2>3, <3>1
    <3> QED BY <3>2
  <2> HIDE DEF R
  <2> QED BY <2>1, <2>2, <2>3 DEF OrderOf
<1>4. q = Sorted(new, R)
  BY DEF Ranked
<1> DEFINE n == Cardinality(new)
<1> HIDE DEF new, R
<1>5. /\ q \in [1..n -> new] /\ n \in Nat
      /\ \A i, j \in 1..n : i < j => <<q[i], q[j]>> \in R
      /\ \A x \in new : \E i \in 1..n : q[i] = x
  BY <1>1, <1>3, <1>4, SortedInOrder
<1> HIDE DEF q, n
<1>6. q \in Seq(E) /\ Len(q) = n
  <2>1. q \in [1..n -> E]
    BY <1>1, <1>5
  <2> QED BY <1>5, <2>1, SeqDef, LenProperties
<1>7. Apart(q)
  <2> SUFFICES ASSUME NEW i \in 1..n, NEW j \in 1..n, i # j PROVE q[i] # q[j]
    BY <1>6 DEF Apart
  <2>1. i < j \/ j < i
    OBVIOUS
  <2>2. <<q[i], q[j]>> \in R \/ <<q[j], q[i]>> \in R
    BY <1>5, <2>1
  <2>3. q[i] \in new
    BY <1>5
  <2> QED BY <1>3, <2>2, <2>3 DEF OrderOf
<1>8. ToSet(q) = new
  BY <1>5, <1>6 DEF ToSet
<1> QED BY <1>6, <1>7, <1>8 DEF q, new

\* Some of S ranks m at least as high as any of S ranks n.
Outranks(table, S, chosen, m, n) ==
    \E k \in Nat :
        /\ \E p \in S : k \in DOMAIN Ranked(table, p, chosen) /\ Ranked(table, p, chosen)[k] = m
        /\ \A q \in S : \A l \in DOMAIN Ranked(table, q, chosen) :
              Ranked(table, q, chosen)[l] = n => k <= l

\* A hop takes neighbors of best rank, all of them if the budget allows.
LEMMA NextHopFair ==
    ASSUME NEW E, NEW table, TableOK(E, table), NEW frontier \in Seq(E), NEW chosen,
           NEW budget \in Nat
    PROVE  LET hop == NextHop(table, frontier, chosen, budget)
               new == (UNION {Neighbors(table, p) : p \in ToSet(frontier)}) \ chosen
           IN  /\ hop \in Seq(E) /\ Apart(hop) /\ Len(hop) <= budget
               /\ ToSet(hop) \subseteq new
               /\ Len(hop) < budget => ToSet(hop) = new
               /\ \A m \in ToSet(hop), n \in new \ ToSet(hop) :
                     Outranks(table, ToSet(frontier), chosen, m, n)
<1> DEFINE lists == [i \in DOMAIN frontier |-> Ranked(table, frontier[i], chosen)]
           T == Tiers(lists)
           d == Distinct(T)
           hop == FirstOf(d, budget)
           new == (UNION {Neighbors(table, p) : p \in ToSet(frontier)}) \ chosen
           N == Len(frontier)
<1>1. N \in Nat /\ DOMAIN frontier = 1..N /\ \A i \in 1..N : frontier[i] \in E
  OBVIOUS
<1>2. NextHop(table, frontier, chosen, budget) = hop
  BY DEF NextHop
<1>3. ASSUME NEW i \in 1..N
      PROVE  /\ lists[i] = Ranked(table, frontier[i], chosen)
             /\ lists[i] \in Seq(E) /\ DOMAIN lists[i] = 1..Len(lists[i])
             /\ ToSet(lists[i]) = Neighbors(table, frontier[i]) \ chosen
  <2>1. lists[i] = Ranked(table, frontier[i], chosen) /\ frontier[i] \in E
    BY <1>1
  <2> HIDE DEF lists
  <2>2. lists[i] \in Seq(E) /\ ToSet(lists[i]) = Neighbors(table, frontier[i]) \ chosen
    BY <2>1, RankedNeighbors
  <2> QED BY <2>1, <2>2
<1>4. lists \in Seq(Seq(E)) /\ Len(lists) = N
  <2>1. lists = [i \in 1..N |-> lists[i]]
    BY <1>1
  <2> HIDE DEF lists, N
  <2>2. lists \in [1..N -> Seq(E)]
    BY <1>3, <2>1
  <2> QED BY <1>1, <2>2, SeqDef, LenProperties
<1> HIDE DEF lists, N
<1>5. T \in Seq(E) /\ \E o : AtRanks(lists, T, o)
  BY <1>4, TiersAtRanks
<1>6. PICK o : AtRanks(lists, T, o)
  BY <1>5
<1> HIDE DEF T
<1>7. d \in Seq(E) /\ ToSet(d) = ToSet(T) /\ Apart(d)
  BY <1>5, DistinctIsSet
<1>8. PICK w : Firsts(T, Len(T), d, w)
  BY <1>5, DistinctFirsts
<1> HIDE DEF d
<1>9. /\ hop \in Seq(E)
      /\ Len(hop) = IF budget <= Len(d) THEN budget ELSE Len(d)
      /\ \A i \in 1..Len(hop) : hop[i] = d[i]
  BY <1>7, FirstOfSeq
<1> HIDE DEF hop
<1>10. /\ Len(T) \in Nat /\ Len(d) \in Nat /\ Len(hop) \in Nat
       /\ DOMAIN T = 1..Len(T) /\ DOMAIN d = 1..Len(d) /\ DOMAIN hop = 1..Len(hop)
  BY <1>5, <1>7, <1>9
<1>11. \A i \in 1..Len(hop) : i \in 1..Len(d)
  BY <1>9, <1>10
<1>22. \A x : x \in new <=> \E p \in ToSet(frontier) : x \in Neighbors(table, p) /\ x \notin chosen
  <2> DEFINE near == {Neighbors(table, p) : p \in ToSet(frontier)}
  <2>1. \A x : x \in UNION near <=> \E p \in ToSet(frontier) : x \in Neighbors(table, p)
    OBVIOUS
  <2>2. new = (UNION near) \ chosen
    OBVIOUS
  <2> HIDE DEF near, new
  <2> QED BY <2>1, <2>2
<1> HIDE DEF new
<1>23. ToSet(T) = new
  <2>1. ASSUME NEW x \in ToSet(T) PROVE x \in new
    <3>1. PICK i \in 1..Len(T) : T[i] = x
      BY <1>10 DEF ToSet
    <3>2. PICK k \in 1..N : o[i] \in 1..Len(lists[k]) /\ T[i] = lists[k][o[i]]
      BY <1>4, <1>6, <3>1 DEF AtRanks
    <3>3. x \in ToSet(lists[k])
      BY <1>3, <3>1, <3>2 DEF ToSet
    <3>4. frontier[k] \in ToSet(frontier)
      BY <1>1 DEF ToSet
    <3> QED BY <1>3, <1>22, <3>3, <3>4
  <2>2. ASSUME NEW x \in new PROVE x \in ToSet(T)
    <3>1. PICK p \in ToSet(frontier) : x \in Neighbors(table, p) /\ x \notin chosen
      BY <1>22
    <3>2. PICK k \in 1..N : frontier[k] = p
      BY <1>1 DEF ToSet
    <3>3. x \in ToSet(lists[k])
      BY <1>3, <3>1, <3>2
    <3>4. PICK r \in 1..Len(lists[k]) : lists[k][r] = x
      BY <1>3, <3>3 DEF ToSet
    <3>5. PICK i \in 1..Len(T) : T[i] = x
      BY <1>4, <1>6, <3>4 DEF AtRanks
    <3> QED BY <1>10, <3>5 DEF ToSet
  <2> QED BY <2>1, <2>2
<1>13. Apart(hop)
  BY <1>7, <1>9, <1>11 DEF Apart
<1>14. ToSet(hop) \subseteq new
  BY <1>7, <1>9, <1>10, <1>11, <1>23 DEF ToSet
<1>15. Len(hop) < budget => ToSet(hop) = new
  <2> SUFFICES ASSUME Len(hop) < budget PROVE ToSet(hop) = new
    OBVIOUS
  <2>1. Len(hop) = Len(d)
    <3>1. Len(hop) = IF budget <= Len(d) THEN budget ELSE Len(d)
      BY <1>9
    <3>2. ~(budget <= Len(d))
      BY <1>10, <3>1
    <3> QED BY <3>1, <3>2
  <2> QED BY <1>7, <1>9, <1>10, <1>23, <2>1 DEF ToSet
<1>16. ASSUME NEW m \in ToSet(hop), NEW n \in new \ ToSet(hop)
       PROVE  Outranks(table, ToSet(frontier), chosen, m, n)
  <2>1. PICK i \in 1..Len(hop) : hop[i] = m
    BY <1>10 DEF ToSet
  <2>2. i \in 1..Len(d) /\ d[i] = m
    BY <1>9, <1>11, <2>1
  <2>3. PICK j \in 1..Len(d) : d[j] = n
    BY <1>7, <1>10, <1>23 DEF ToSet
  <2>4. i < j
    <3>1. j \notin 1..Len(hop)
      BY <1>9, <1>10, <2>3 DEF ToSet
    <3> QED BY <1>10, <2>1, <2>3, <3>1
  <2>5. w \in [1..Len(d) -> 1..Len(T)] /\ w[i] < w[j] /\ d[i] = T[w[i]]
        /\ \A l \in 1..Len(T) : l < w[j] => T[l] # d[j]
    BY <1>8, <2>2, <2>3, <2>4 DEF Firsts
  <2>6. w[i] \in 1..Len(T) /\ w[j] \in 1..Len(T)
    BY <2>2, <2>3, <2>5
  <2>7. PICK a \in 1..N : o[w[i]] \in 1..Len(lists[a]) /\ m = lists[a][o[w[i]]]
    <3>1. \E b \in 1..N : o[w[i]] \in 1..Len(lists[b]) /\ T[w[i]] = lists[b][o[w[i]]]
      BY <1>4, <1>6, <2>6 DEF AtRanks
    <3> QED BY <2>2, <2>5, <3>1
  <2> DEFINE k == o[w[i]]
  <2>8. k \in Nat
    BY <1>6, <2>6 DEF AtRanks
  <2>9. \E p \in ToSet(frontier) :
           k \in DOMAIN Ranked(table, p, chosen) /\ Ranked(table, p, chosen)[k] = m
    <3>1. frontier[a] \in ToSet(frontier)
      BY <1>1 DEF ToSet
    <3> QED BY <1>3, <2>7, <3>1
  <2>10. ASSUME NEW q \in ToSet(frontier), NEW l \in DOMAIN Ranked(table, q, chosen),
                Ranked(table, q, chosen)[l] = n
         PROVE  k <= l
    <3>1. PICK b \in 1..N : frontier[b] = q
      BY <1>1 DEF ToSet
    <3>2. l \in 1..Len(lists[b]) /\ lists[b][l] = n
      BY <1>3, <2>10, <3>1
    <3>3. PICK c \in 1..Len(T) : o[c] = l /\ T[c] = n
      BY <1>4, <1>6, <3>2 DEF AtRanks
    <3>4. w[i] <= c
      BY <1>10, <2>3, <2>5, <2>6, <3>3
    <3> QED BY <1>6, <2>6, <3>3, <3>4 DEF AtRanks
  <2> HIDE DEF k
  <2> QED BY <2>8, <2>9, <2>10 DEF Outranks
<1>17. Len(hop) <= budget
  BY <1>9, <1>10
<1> QED BY <1>2, <1>9, <1>13, <1>14, <1>15, <1>16, <1>17 DEF new

Reach(table, A) == A \cup UNION {Neighbors(table, p) : p \in A}

LEMMA ReachType ==
    ASSUME NEW E, NEW table, TableOK(E, table), NEW A \in SUBSET E
    PROVE  Reach(table, A) \in SUBSET E
<1>1. ASSUME NEW p \in A PROVE Neighbors(table, p) \subseteq E
  BY NeighborsType
<1> QED BY <1>1 DEF Reach

Nearing(table, S, h, f) ==
    \A k \in 0..h : f[k] = IF k = 0 THEN S ELSE Reach(table, f[k - 1])

\* Within is a recursion.
LEMMA NearExists ==
    ASSUME NEW E, NEW table, TableOK(E, table), NEW S \in SUBSET E, NEW h \in Nat
    PROVE  \E f : /\ Nearing(table, S, h, f) /\ Within(table, S, h) = f[h]
                  /\ \A k \in 0..h : f[k] \in SUBSET E
<1> DEFINE T == SUBSET E
           step == [x \in (1..h) \X T |-> Reach(table, x[2])]
           Is(f) == f = [k \in 0..h |->
                            IF k = 0 THEN S
                            ELSE f[k - 1] \cup UNION {Neighbors(table, p) : p \in f[k - 1]}]
<1>1. step \in [(1..h) \X T -> T]
  <2>1. \A x \in (1..h) \X T : Reach(table, x[2]) \in T
    BY ReachType
  <2> HIDE DEF T
  <2> QED BY <2>1
<1>2. PICK g \in [0..h -> T] : Iterates(h, S, step, g)
  <2> HIDE DEF step
  <2> QED BY <1>1, RecursionExists
<1>3. ASSUME NEW k \in 0..h PROVE g[k] = IF k = 0 THEN S ELSE Reach(table, g[k - 1])
  <2>1. g[k] = IF k = 0 THEN S ELSE step[<<k, g[k - 1]>>]
    BY <1>2 DEF Iterates
  <2>2. k # 0 => k - 1 \in 0..h /\ k \in 1..h
    OBVIOUS
  <2>3. k # 0 => <<k, g[k - 1]>> \in (1..h) \X T
    BY <1>2, <2>2
  <2> QED BY <2>1, <2>3
<1>4. Is(g)
  <2>1. \A k \in 0..h :
           g[k] = IF k = 0 THEN S
                  ELSE g[k - 1] \cup UNION {Neighbors(table, p) : p \in g[k - 1]}
    BY <1>3 DEF Reach
  <2> HIDE DEF step, T
  <2> QED BY <2>1
<1> DEFINE f == CHOOSE u : Is(u)
<1>5. Is(f)
  BY <1>4
<1>6. Within(table, S, h) = f[h]
  BY DEF Within
<1> HIDE DEF f
<1>7. Nearing(table, S, h, f)
  BY <1>5 DEF Nearing, Reach
<1>8. \A k \in 0..h : f[k] \in T
  <2> DEFINE A == {k \in 0..h : f[k] \in T}
  <2>1. 0 \in 0..h
    OBVIOUS
  <2>2. 0 \in A
    BY <1>7, <2>1 DEF Nearing
  <2>3. ASSUME NEW k \in 0..(h - 1), k \in A PROVE k + 1 \in A
    <3>1. k + 1 \in 0..h /\ k + 1 # 0 /\ (k + 1) - 1 = k
      OBVIOUS
    <3>2. f[k + 1] = Reach(table, f[k])
      BY <1>7, <3>1 DEF Nearing
    <3>3. f[k + 1] \in T
      BY <2>3, <3>2, ReachType
    <3> QED BY <3>1, <3>3
  <2> HIDE DEF A
  <2>4. \A k \in 0..h : k \in A
    BY <2>2, <2>3, AllUpTo
  <2> QED BY <2>4 DEF A
<1> QED BY <1>6, <1>7, <1>8

\* Another hop adds the neighbors of all that are reached.
LEMMA WithinStep ==
    ASSUME NEW E, NEW table, TableOK(E, table), NEW S \in SUBSET E, NEW h \in Nat
    PROVE  /\ Within(table, S, 0) = S /\ Within(table, S, h) \in SUBSET E
           /\ Within(table, S, h + 1) = Reach(table, Within(table, S, h))
<1>1. Within(table, S, 0) = S
  <2>1. PICK f : Nearing(table, S, 0, f) /\ Within(table, S, 0) = f[0]
    BY NearExists
  <2>2. 0 \in 0..0
    OBVIOUS
  <2> QED BY <2>1, <2>2 DEF Nearing
<1>2. PICK f : /\ Nearing(table, S, h, f) /\ Within(table, S, h) = f[h]
               /\ \A k \in 0..h : f[k] \in SUBSET E
  BY NearExists
<1>3. PICK g : Nearing(table, S, h + 1, g) /\ Within(table, S, h + 1) = g[h + 1]
  <2>1. h + 1 \in Nat
    OBVIOUS
  <2> QED BY <2>1, NearExists
<1>4. g[h] = f[h]
  <2> DEFINE A == {k \in 0..h : g[k] = f[k]}
  <2>1. 0 \in 0..h /\ 0 \in 0..(h + 1)
    OBVIOUS
  <2>2. 0 \in A
    BY <1>2, <1>3, <2>1 DEF Nearing
  <2>3. ASSUME NEW k \in 0..(h - 1), k \in A PROVE k + 1 \in A
    <3>1. k + 1 \in 0..h /\ k + 1 \in 0..(h + 1) /\ k + 1 # 0 /\ (k + 1) - 1 = k
      OBVIOUS
    <3>2. f[k + 1] = Reach(table, f[k]) /\ g[k + 1] = Reach(table, g[k])
      BY <1>2, <1>3, <3>1 DEF Nearing
    <3> QED BY <2>3, <3>1, <3>2
  <2> HIDE DEF A
  <2>4. \A k \in 0..h : k \in A
    BY <2>2, <2>3, AllUpTo
  <2> QED BY <2>4 DEF A
<1>5. h + 1 \in 0..(h + 1) /\ h + 1 # 0 /\ (h + 1) - 1 = h /\ h \in 0..h
  OBVIOUS
<1> QED BY <1>1, <1>2, <1>3, <1>4, <1>5 DEF Nearing

LEMMA WithinNext ==
    ASSUME NEW E, NEW table, TableOK(E, table), NEW S \in SUBSET E
    PROVE  \A n \in Nat : Within(table, S, n + 1) = Reach(table, Within(table, S, n))
<1>1. ASSUME NEW n \in Nat
      PROVE  /\ Within(table, S, 0) = S /\ Within(table, S, n) \in SUBSET E
             /\ Within(table, S, n + 1) = Reach(table, Within(table, S, n))
  BY <1>1, WithinStep
<1> QED BY <1>1

LEMMA WithinGrows ==
    ASSUME NEW E, NEW table, TableOK(E, table), NEW S \in SUBSET E,
           NEW h \in Nat, NEW k \in Nat, h <= k
    PROVE  Within(table, S, h) \subseteq Within(table, S, k)
<1> DEFINE A == {n \in 0..k : h <= n => Within(table, S, h) \subseteq Within(table, S, n)}
<1>5. \A n \in Nat : Within(table, S, n + 1) = Reach(table, Within(table, S, n))
  BY WithinStep
<1>1. 0 \in A
  <2>1. h <= 0 => h = 0
    OBVIOUS
  <2>2. 0 \in 0..k
    OBVIOUS
  <2> QED BY <2>1, <2>2
<1>2. ASSUME NEW n \in 0..(k - 1), n \in A PROVE n + 1 \in A
  <2>1. n \in Nat /\ n + 1 \in 0..k
    OBVIOUS
  <2>2. Within(table, S, n + 1) = Reach(table, Within(table, S, n))
    BY <1>5, <2>1
  <2>3. Within(table, S, n) \subseteq Within(table, S, n + 1)
    BY <2>2 DEF Reach
  <2>4. h <= n + 1 => h <= n \/ h = n + 1
    BY <2>1
  <2> QED BY <1>2, <2>1, <2>3, <2>4
<1> HIDE DEF A
<1>3. \A n \in 0..k : n \in A
  BY <1>1, <1>2, AllUpTo
<1>4. k \in A
  BY <1>3
<1> QED BY <1>4 DEF A

LEMMA ConcatSet ==
    ASSUME NEW S, NEW s \in Seq(S), NEW t \in Seq(S)
    PROVE  /\ s \o t \in Seq(S) /\ Len(s \o t) = Len(s) + Len(t)
           /\ \A i \in 1..Len(s) : (s \o t)[i] = s[i]
           /\ \A i \in 1..Len(s) + Len(t) : i > Len(s) =>
                 i - Len(s) \in 1..Len(t) /\ (s \o t)[i] = t[i - Len(s)]
           /\ ToSet(s \o t) = ToSet(s) \cup ToSet(t)
<1> DEFINE L == Len(s)
           M == Len(t)
           e == s \o t
<1>1. L \in Nat /\ M \in Nat /\ DOMAIN s = 1..L /\ DOMAIN t = 1..M
  OBVIOUS
<1>2. e \in Seq(S) /\ Len(e) = L + M
      /\ \A i \in 1..(L + M) : e[i] = IF i <= L THEN s[i] ELSE t[i - L]
  BY ConcatProperties
<1>6. DOMAIN e = 1..(L + M)
  BY <1>2
<1> HIDE DEF L, M, e
<1>3. \A i \in 1..L : i \in 1..(L + M) /\ e[i] = s[i]
  BY <1>1, <1>2
<1>4. \A i \in 1..(L + M) : i > L => i - L \in 1..M /\ e[i] = t[i - L]
  BY <1>1, <1>2
<1>5. ToSet(e) = ToSet(s) \cup ToSet(t)
  <2>1. ASSUME NEW x \in ToSet(e) PROVE x \in ToSet(s) \cup ToSet(t)
    <3>1. PICK i \in 1..(L + M) : e[i] = x
      BY <1>6 DEF ToSet
    <3>2. i \in 1..L \/ i > L
      BY <1>1
    <3> QED BY <1>1, <1>3, <1>4, <3>1, <3>2 DEF ToSet
  <2>2. ASSUME NEW x \in ToSet(s) PROVE x \in ToSet(e)
    BY <1>1, <1>3, <1>6 DEF ToSet
  <2>3. ASSUME NEW x \in ToSet(t) PROVE x \in ToSet(e)
    <3>1. PICK k \in 1..M : t[k] = x
      BY <1>1 DEF ToSet
    <3>2. k + L \in 1..(L + M) /\ k + L > L /\ (k + L) - L = k
      BY <1>1
    <3>3. e[k + L] = x
      BY <1>4, <3>1, <3>2
    <3> QED BY <1>6, <3>2, <3>3 DEF ToSet
  <2> QED BY <2>1, <2>2, <2>3
<1> QED BY <1>2, <1>3, <1>4, <1>5 DEF L, M, e

LEMMA ConcatApart ==
    ASSUME NEW S, NEW s \in Seq(S), NEW t \in Seq(S), Apart(s), Apart(t),
           ToSet(s) \cap ToSet(t) = {}
    PROVE  Apart(s \o t)
<1> DEFINE L == Len(s)
           M == Len(t)
           e == s \o t
<1>1. L \in Nat /\ M \in Nat /\ DOMAIN s = 1..L /\ DOMAIN t = 1..M
  OBVIOUS
<1>2. /\ Len(e) = L + M
      /\ \A i \in 1..L : e[i] = s[i]
      /\ \A i \in 1..(L + M) : i > L => i - L \in 1..M /\ e[i] = t[i - L]
  BY ConcatSet
<1> HIDE DEF L, M, e
<1>3. ASSUME NEW i \in 1..(L + M), NEW j \in 1..(L + M), i < j PROVE e[i] # e[j]
  <2>1. CASE j <= L
    <3>1. i \in 1..L /\ j \in 1..L /\ i # j
      BY <1>1, <1>3, <2>1
    <3> QED BY <1>2, <3>1 DEF Apart, L
  <2>2. CASE i <= L /\ ~(j <= L)
    <3>1. i \in 1..L /\ j > L
      BY <1>1, <2>2
    <3>2. e[i] \in ToSet(s)
      BY <1>1, <1>2, <3>1 DEF ToSet
    <3>3. e[j] \in ToSet(t)
      BY <1>1, <1>2, <3>1 DEF ToSet
    <3> QED BY <3>2, <3>3
  <2>3. CASE ~(i <= L)
    <3>1. i > L /\ j > L /\ i - L # j - L
      BY <1>1, <1>3, <2>3
    <3>2. i - L \in 1..M /\ j - L \in 1..M /\ e[i] = t[i - L] /\ e[j] = t[j - L]
      BY <1>2, <3>1
    <3> QED BY <3>1, <3>2 DEF Apart, M
  <2> QED BY <2>1, <2>2, <2>3
<1>4. Apart(e)
  <2> SUFFICES ASSUME NEW i \in 1..(L + M), NEW j \in 1..(L + M), i # j PROVE e[i] # e[j]
    BY <1>2 DEF Apart
  <2>1. i < j \/ j < i
    BY <1>1
  <2> QED BY <1>3, <2>1
<1> QED BY <1>4 DEF e

Around(table, S) == UNION {Neighbors(table, p) : p \in S}

\* What holds of the loop after h hops from first.
Spread(E, table, first, max, h, st) ==
    LET W(k) == Within(table, ToSet(first), k)
        all == st.all
    IN  /\ all \in Seq(E) /\ st.frontier \in Seq(E) /\ Apart(all) /\ Len(all) <= max
        /\ Len(first) <= Len(all) /\ \A i \in 1..Len(first) : all[i] = first[i]
        /\ ToSet(st.frontier) \subseteq ToSet(all) /\ ToSet(all) \subseteq W(h)
        /\ Len(all) < max =>
              ToSet(all) = W(h) /\ Reach(table, W(h)) = W(h) \cup Around(table, ToSet(st.frontier))
        /\ \A k \in Nat : \A i \in 1..Len(all) :
              all[i] \in W(k) => \A j \in 1..i : all[j] \in W(k)
        /\ \A m \in ToSet(all), n \in W(1) \ ToSet(all) :
              m \in W(1) \ ToSet(first) => Outranks(table, ToSet(first), ToSet(first), m, n)

\* The invariant of the loop holds of the seeds before the first hop.
LEMMA SpreadStart ==
    ASSUME NEW E, NEW table, TableOK(E, table), NEW first \in Seq(E), NEW max \in Nat,
           Apart(first), Len(first) <= max
    PROVE  Spread(E, table, first, max, 0, [all |-> first, frontier |-> first])
<1> DEFINE F == ToSet(first)
           W(k) == Within(table, F, k)
<1>1. F \in SUBSET E
  BY DEF ToSet
<1>2. W(0) = F
  BY <1>1, WithinStep
<1>3. Reach(table, W(0)) = W(0) \cup Around(table, F)
  BY <1>2 DEF Reach, Around
<1>4. \A k \in Nat : F \subseteq W(k)
  <2>1. \A k \in Nat : W(0) \subseteq W(k)
    BY <1>1, WithinGrows
  <2> QED BY <1>2, <2>1
<1>5. Len(first) \in Nat /\ \A i \in 1..Len(first) : first[i] \in F
  BY DEF ToSet
<1>6. \A k \in Nat : \A i \in 1..Len(first) : \A j \in 1..i : first[j] \in W(k)
  <2>1. \A i \in 1..Len(first) : \A j \in 1..i : j \in 1..Len(first)
    BY <1>5
  <2> HIDE DEF W, F
  <2> QED BY <1>4, <1>5, <2>1
<1> HIDE DEF W
<1> QED BY <1>2, <1>3, <1>6 DEF Spread, W

\* Without a frontier or a budget nothing changes.
LEMMA SpreadNone ==
    ASSUME NEW E, NEW table, TableOK(E, table), NEW first \in Seq(E), NEW max \in Nat,
           NEW h \in Nat, NEW st, Spread(E, table, first, max, h, st),
           st.frontier = <<>> \/ Len(st.all) >= max
    PROVE  Spread(E, table, first, max, h + 1, [all |-> st.all, frontier |-> <<>>])
<1> DEFINE F == ToSet(first)
           W(k) == Within(table, F, k)
<1>1. F \in SUBSET E
  BY DEF ToSet
<1>2. W(h + 1) = Reach(table, W(h))
  <2>1. \A n \in Nat : W(n + 1) = Reach(table, W(n))
    <3> HIDE DEF F
    <3> QED BY <1>1, WithinNext
  <2> QED BY <2>1
<1>3. W(h) \subseteq W(h + 1)
  BY <1>2 DEF Reach
<1>4. Around(table, {}) = {}
  BY DEF Around
<1>5. ToSet(<<>>) = {} /\ <<>> \in Seq(E)
  BY DEF ToSet
<1>6. ASSUME Len(st.all) < max
      PROVE  ToSet(st.all) = W(h + 1) /\ Reach(table, W(h + 1)) = W(h + 1) \cup {}
  <2>1. st.frontier = <<>>
    <3>1. Len(st.all) \in Nat
      BY DEF Spread
    <3> QED BY <1>6, <3>1
  <2>2. ToSet(st.all) = W(h) /\ Reach(table, W(h)) = W(h) \cup Around(table, ToSet(st.frontier))
    BY <1>6 DEF Spread
  <2>3. W(h + 1) = W(h)
    BY <1>2, <1>4, <1>5, <2>1, <2>2
  <2> QED BY <1>2, <2>2, <2>3
<1> HIDE DEF W
<1> QED BY <1>3, <1>4, <1>5, <1>6 DEF Spread, W

\* A hop keeps the invariant of the loop.
LEMMA SpreadHop ==
    ASSUME NEW E, NEW table, TableOK(E, table), NEW first \in Seq(E), NEW max \in Nat,
           NEW h \in Nat, NEW st, Spread(E, table, first, max, h, st),
           h = 0 => st.frontier = first /\ st.all = first,
           ~(Len(st.all) >= max),
           NEW hop, hop = NextHop(table, st.frontier, ToSet(st.all), max - Len(st.all))
    PROVE  Spread(E, table, first, max, h + 1, [all |-> st.all \o hop, frontier |-> hop])
<1> DEFINE F == ToSet(first)
           W(k) == Within(table, F, k)
           all == st.all
           both == all \o hop
           L == Len(all)
           new == Around(table, ToSet(st.frontier)) \ ToSet(all)
<1>1. F \in SUBSET E
  BY DEF ToSet
<1>2. all \in Seq(E) /\ st.frontier \in Seq(E) /\ L \in Nat /\ L < max
  BY DEF Spread
<1>3. W(h + 1) = Reach(table, W(h)) /\ W(h) \subseteq W(h + 1)
  <2>1. \A n \in Nat : W(n + 1) = Reach(table, W(n))
    <3> HIDE DEF F
    <3> QED BY <1>1, WithinNext
  <2> QED BY <2>1 DEF Reach
<1>4. ToSet(all) = W(h) /\ W(h + 1) = W(h) \cup new
  <2>1. ToSet(all) = W(h) /\ Reach(table, W(h)) = W(h) \cup Around(table, ToSet(st.frontier))
    BY <1>2 DEF Spread
  <2> HIDE DEF W
  <2> QED BY <1>3, <2>1
<1>5. /\ hop \in Seq(E) /\ Apart(hop) /\ Len(hop) <= max - L
      /\ ToSet(hop) \subseteq new
      /\ Len(hop) < max - L => ToSet(hop) = new
      /\ \A m \in ToSet(hop), n \in new \ ToSet(hop) :
            Outranks(table, ToSet(st.frontier), ToSet(all), m, n)
  <2>1. max - L \in Nat
    BY <1>2
  <2> DEFINE budget == max - L
             chosen == ToSet(all)
             frontier == st.frontier
  <2>2. hop = NextHop(table, frontier, chosen, budget)
    OBVIOUS
  <2>3. frontier \in Seq(E) /\ budget \in Nat
    BY <1>2, <2>1
  <2>4. new = (UNION {Neighbors(table, p) : p \in ToSet(frontier)}) \ chosen
    BY DEF Around
  <2> HIDE DEF budget, chosen, frontier, new
  <2>5. /\ hop \in Seq(E) /\ Apart(hop) /\ Len(hop) <= budget
        /\ ToSet(hop) \subseteq new
        /\ Len(hop) < budget => ToSet(hop) = new
        /\ \A m \in ToSet(hop), n \in new \ ToSet(hop) :
              Outranks(table, ToSet(frontier), chosen, m, n)
    BY <2>2, <2>3, <2>4, NextHopFair
  <2> QED BY <2>5 DEF budget, chosen, frontier
<1>6. /\ both \in Seq(E) /\ Len(both) = L + Len(hop) /\ Len(hop) \in Nat
      /\ \A i \in 1..L : both[i] = all[i]
      /\ \A i \in 1..(L + Len(hop)) : i > L => i - L \in 1..Len(hop) /\ both[i] = hop[i - L]
      /\ ToSet(both) = ToSet(all) \cup ToSet(hop)
  <2>1. all \in Seq(E) /\ hop \in Seq(E)
    BY <1>2, <1>5
  <2>2. Len(hop) \in Nat
    BY <2>1
  <2> HIDE DEF all
  <2> QED BY <2>1, <2>2, ConcatSet
<1>7. Apart(both)
  <2>1. ToSet(all) \cap ToSet(hop) = {} /\ Apart(all)
    BY <1>5 DEF Spread
  <2> QED BY <1>2, <1>5, <2>1, ConcatApart
<1>8. ToSet(both) \subseteq W(h + 1) /\ ToSet(hop) \subseteq ToSet(both)
  <2> HIDE DEF new, W
  <2> QED BY <1>4, <1>5, <1>6
<1>9. Len(both) <= max
  <2> HIDE DEF L, both
  <2> QED BY <1>2, <1>5, <1>6
<1>10. Len(first) <= Len(both) /\ \A i \in 1..Len(first) : both[i] = first[i]
  <2>1. Len(first) <= L /\ Len(first) \in Nat /\ \A i \in 1..Len(first) : all[i] = first[i]
    BY DEF Spread
  <2>2. \A i \in 1..Len(first) : i \in 1..L
    BY <1>2, <2>1
  <2>3. Len(both) = L + Len(hop) /\ Len(hop) \in Nat /\ \A i \in 1..L : both[i] = all[i]
    BY <1>5, <1>6
  <2> HIDE DEF L, both, all
  <2>4. Len(first) <= Len(both)
    BY <1>2, <2>1, <2>3
  <2>5. \A i \in 1..Len(first) : both[i] = first[i]
    BY <2>1, <2>2, <2>3
  <2> QED BY <2>4, <2>5
<1>11. ASSUME Len(both) < max
       PROVE  /\ ToSet(both) = W(h + 1)
              /\ Reach(table, W(h + 1)) = W(h + 1) \cup Around(table, ToSet(hop))
  <2>1. Len(hop) < max - L
    <3> HIDE DEF L, both
    <3> QED BY <1>2, <1>6, <1>11
  <2>2. ToSet(hop) = new
    BY <1>5, <2>1
  <2> HIDE DEF new, W, both
  <2>3. ToSet(both) = W(h + 1)
    BY <1>4, <1>6, <2>2
  <2>4. W(h + 1) = W(h) \cup ToSet(hop)
    BY <1>4, <2>2
  <2>5. Around(table, W(h)) \subseteq W(h + 1)
    BY <1>3 DEF Reach, Around
  <2>6. Around(table, W(h + 1)) = Around(table, W(h)) \cup Around(table, ToSet(hop))
    BY <2>4 DEF Around
  <2>7. Reach(table, W(h + 1)) = W(h + 1) \cup Around(table, W(h + 1))
    BY DEF Reach, Around
  <2> QED BY <2>3, <2>5, <2>6, <2>7
<1>12. ASSUME NEW k \in Nat, NEW i \in 1..Len(both), both[i] \in W(k), NEW j \in 1..i
       PROVE  both[j] \in W(k)
  <2>1. i \in 1..(L + Len(hop)) /\ j \in 1..(L + Len(hop))
    <3> HIDE DEF L, both
    <3> QED BY <1>2, <1>6
  <2>2. CASE i <= L
    <3>1. i \in 1..L /\ j \in 1..L
      <4> HIDE DEF L, both
      <4> QED BY <1>2, <2>1, <2>2
    <3>2. both[i] = all[i] /\ both[j] = all[j]
      BY <1>6, <3>1
    <3>3. all[i] \in W(k) => all[j] \in W(k)
      BY <3>1 DEF Spread
    <3> QED BY <1>12, <3>2, <3>3
  <2>3. CASE ~(i <= L)
    <3>1. both[i] = hop[i - L] /\ i - L \in 1..Len(hop)
      <4> HIDE DEF L, both
      <4>1. i > L
        BY <1>2, <2>1, <2>3
      <4> QED BY <1>6, <2>1, <4>1
    <3>2. both[i] \in ToSet(hop)
      <4>1. DOMAIN hop = 1..Len(hop)
        BY <1>5
      <4> HIDE DEF both, L
      <4> QED BY <3>1, <4>1 DEF ToSet
    <3>3. both[i] \notin W(h)
      BY <1>4, <1>5, <3>2
    <3>4. ~(k <= h)
      BY <1>1, <1>12, <3>3, WithinGrows
    <3>5. h + 1 <= k /\ h + 1 \in Nat
      BY <3>4
    <3>6. W(h + 1) \subseteq W(k)
      BY <1>1, <3>5, WithinGrows
    <3>7. both[j] \in ToSet(both)
      <4>1. DOMAIN both = 1..Len(both)
        BY <1>6
      <4>2. j \in 1..Len(both)
        <5> HIDE DEF L, both
        <5> QED BY <1>6, <2>1
      <4> HIDE DEF both
      <4> QED BY <4>1, <4>2 DEF ToSet
    <3> QED BY <1>8, <3>6, <3>7
  <2> QED BY <2>2, <2>3
<1>13. ASSUME NEW m \in ToSet(both), NEW n \in W(1) \ ToSet(both), m \in W(1) \ F
       PROVE  Outranks(table, F, F, m, n)
  <2>1. CASE h = 0
    <3>1. st.frontier = first /\ all = first /\ W(h) = F
      BY <1>1, <2>1, WithinStep
    <3>2. m \in ToSet(hop)
      BY <1>6, <1>13, <3>1
    <3>3. W(1) = W(h + 1)
      BY <2>1
    <3>4. n \in new \ ToSet(hop)
      <4> HIDE DEF new, W, both
      <4> QED BY <1>4, <1>6, <3>1, <3>3
    <3> HIDE DEF new
    <3> QED BY <1>5, <3>1, <3>2, <3>4
  <2>2. CASE h # 0
    <3>1. W(1) \subseteq W(h)
      BY <1>1, <2>2, WithinGrows
    <3>2. n \in ToSet(all)
      BY <1>4, <3>1
    <3> QED BY <1>6, <3>2
  <2> QED BY <2>1, <2>2
<1> DEFINE next == [all |-> both, frontier |-> hop]
<1>14. next.all = both /\ next.frontier = hop
  OBVIOUS
<1> HIDE DEF next, both, W, new
<1> QED BY <1>5, <1>6, <1>7, <1>8, <1>9, <1>10, <1>11, <1>12, <1>13, <1>14 DEF Spread, W, next, both

\* A sequence without repetition is as long as its set is large.
LEMMA ApartSize ==
    ASSUME NEW S, NEW s \in Seq(S), Apart(s)
    PROVE  IsFiniteSet(ToSet(s)) /\ Cardinality(ToSet(s)) = Len(s)
<1> DEFINE N == Len(s)
           T == ToSet(s)
<1>1. N \in Nat /\ DOMAIN s = 1..N /\ s \in [1..N -> T] /\ \A t \in T : \E i \in 1..N : s[i] = t
  <2>1. N \in Nat /\ DOMAIN s = 1..N /\ s = [i \in 1..N |-> s[i]]
    OBVIOUS
  <2>2. \A i \in 1..N : s[i] \in T
    BY <2>1 DEF ToSet
  <2>3. \A t \in T : \E i \in 1..N : s[i] = t
    BY <2>1 DEF ToSet
  <2> HIDE DEF N, T
  <2> QED BY <2>1, <2>2, <2>3
<1>2. \A i, j \in 1..N : s[i] = s[j] => i = j
  BY DEF Apart
<1> HIDE DEF N, T
<1>3. s \in Surjection(1..N, T) /\ s \in Injection(1..N, T)
  BY <1>1, <1>2, Fun_IsSurj, Fun_IsInj
<1>4. IsFiniteSet(1..N) /\ Cardinality(1..N) = N
  BY <1>1, FS_Interval
<1>5. IsFiniteSet(T) /\ Cardinality(T) = N
  BY <1>3, <1>4, FS_Surjection
<1> QED BY <1>5 DEF N, T

LEMMA HopType ==
    ASSUME NEW E, NEW table, TableOK(E, table), NEW max \in Nat,
           NEW st \in [all : Seq(E), frontier : Seq(E)]
    PROVE  Hop(table, st, max) \in [all : Seq(E), frontier : Seq(E)]
<1> DEFINE hop == IF st.frontier = <<>> \/ Len(st.all) >= max THEN <<>>
                  ELSE NextHop(table, st.frontier, ToSet(st.all), max - Len(st.all))
<1>1. st.all \in Seq(E) /\ st.frontier \in Seq(E) /\ Len(st.all) \in Nat
  OBVIOUS
<1>2. hop \in Seq(E)
  <2>1. CASE st.frontier = <<>> \/ Len(st.all) >= max
    BY <2>1
  <2>2. CASE ~(st.frontier = <<>> \/ Len(st.all) >= max)
    <3>1. max - Len(st.all) \in Nat
      BY <1>1, <2>2
    <3>2. NextHop(table, st.frontier, ToSet(st.all), max - Len(st.all)) \in Seq(E)
      BY <1>1, <3>1, NextHopFair
    <3> QED BY <2>2, <3>2
  <2> QED BY <2>1, <2>2
<1>3. Hop(table, st, max) = [all |-> st.all \o hop, frontier |-> hop]
  BY DEF Hop
<1> HIDE DEF hop
<1>4. st.all \o hop \in Seq(E)
  BY <1>1, <1>2, ConcatProperties
<1> QED BY <1>2, <1>3, <1>4

\* The loop over hops ends in its invariant.
LEMMA SelectedSpread ==
    ASSUME NEW E, NEW table, TableOK(E, table), NEW seeds \in Seq(E), NEW hops \in Nat,
           NEW max \in Nat
    PROVE  LET first == FirstOf(Distinct(seeds), max)
           IN  \E st : /\ Spread(E, table, first, max, hops, st)
                       /\ Selected(table, seeds, hops, max) = st.all
<1> DEFINE first == FirstOf(Distinct(seeds), max)
           T == [all : Seq(E), frontier : Seq(E)]
           base == [all |-> first, frontier |-> first]
           step == [x \in (1..hops) \X T |-> Hop(table, x[2], max)]
           Is(f) == f = [h \in 0..hops |-> IF h = 0 THEN [all |-> first, frontier |-> first]
                                           ELSE Hop(table, f[h - 1], max)]
<1>1. first \in Seq(E) /\ Apart(first) /\ Len(first) <= max
  <2> DEFINE d == Distinct(seeds)
  <2>1. d \in Seq(E) /\ Apart(d)
    BY DistinctIsSet
  <2> HIDE DEF d
  <2>2. /\ first \in Seq(E) /\ Len(first) = IF max <= Len(d) THEN max ELSE Len(d)
        /\ \A i \in 1..Len(first) : first[i] = d[i]
    BY <2>1, FirstOfSeq DEF d
  <2>3. Len(d) \in Nat
    BY <2>1
  <2> HIDE DEF first
  <2>4. Len(first) <= max /\ \A i \in 1..Len(first) : i \in 1..Len(d)
    BY <2>2, <2>3
  <2>5. Apart(first)
    BY <2>1, <2>2, <2>4 DEF Apart
  <2> QED BY <2>2, <2>4, <2>5
<1>2. base \in T /\ step \in [(1..hops) \X T -> T]
  <2>1. \A x \in (1..hops) \X T : Hop(table, x[2], max) \in T
    <3> SUFFICES ASSUME NEW x \in (1..hops) \X T PROVE Hop(table, x[2], max) \in T
      OBVIOUS
    <3>1. x[2] \in T
      OBVIOUS
    <3> QED BY <3>1, HopType
  <2>2. base \in T
    <3> HIDE DEF first
    <3> QED BY <1>1
  <2> HIDE DEF T, base
  <2> QED BY <2>1, <2>2
<1> HIDE DEF first
<1>3. PICK g \in [0..hops -> T] : Iterates(hops, base, step, g)
  <2> HIDE DEF step, T, base
  <2> QED BY <1>2, RecursionExists
<1>4. ASSUME NEW h \in 0..hops PROVE g[h] = IF h = 0 THEN base ELSE Hop(table, g[h - 1], max)
  <2>1. g[h] = IF h = 0 THEN base ELSE step[<<h, g[h - 1]>>]
    BY <1>3 DEF Iterates
  <2>2. h # 0 => h - 1 \in 0..hops /\ h \in 1..hops
    OBVIOUS
  <2> HIDE DEF T, base
  <2>3. h # 0 => <<h, g[h - 1]>> \in (1..hops) \X T
    BY <1>3, <2>2
  <2> QED BY <2>1, <2>3
<1>5. Is(g)
  <2> HIDE DEF T, step
  <2> QED BY <1>4
<1> DEFINE f == CHOOSE u : Is(u)
<1>6. Is(f)
  BY <1>5
<1>7. Selected(table, seeds, hops, max) = f[hops].all
  BY DEF Selected, first
<1> HIDE DEF f
<1>8. \A h \in 0..hops : f[h] = IF h = 0 THEN base ELSE Hop(table, f[h - 1], max)
  BY <1>6
<1> DEFINE A == {h \in 0..hops : Spread(E, table, first, max, h, f[h])}
<1>9. 0 \in 0..hops
  OBVIOUS
<1>10. f[0] = base
  BY <1>8, <1>9
<1>11. 0 \in A
  <2>1. Spread(E, table, first, max, 0, base)
    BY <1>1, SpreadStart
  <2> HIDE DEF base
  <2> QED BY <1>9, <1>10, <2>1
<1>12. ASSUME NEW h \in 0..(hops - 1), h \in A PROVE h + 1 \in A
  <2>1. h + 1 \in 0..hops /\ h + 1 # 0 /\ (h + 1) - 1 = h /\ h \in Nat
    OBVIOUS
  <2> DEFINE st == f[h]
  <2>2. f[h + 1] = Hop(table, st, max) /\ Spread(E, table, first, max, h, st)
    BY <1>8, <1>12, <2>1
  <2>3. h = 0 => st.frontier = first /\ st.all = first
    BY <1>10
  <2> HIDE DEF st
  <2>4. Spread(E, table, first, max, h + 1, Hop(table, st, max))
    <3>1. CASE st.frontier = <<>> \/ Len(st.all) >= max
      <4>1. st.all \in Seq(E)
        BY <2>2 DEF Spread
      <4>2. Hop(table, st, max) = [all |-> st.all, frontier |-> <<>>]
        BY <3>1, <4>1, ConcatEmptySeq DEF Hop
      <4>3. Spread(E, table, first, max, h + 1, [all |-> st.all, frontier |-> <<>>])
        BY <1>1, <2>1, <2>2, <3>1, SpreadNone
      <4> QED BY <4>2, <4>3
    <3>2. CASE ~(st.frontier = <<>> \/ Len(st.all) >= max)
      <4> DEFINE hop == NextHop(table, st.frontier, ToSet(st.all), max - Len(st.all))
      <4>1. Hop(table, st, max) = [all |-> st.all \o hop, frontier |-> hop]
        BY <3>2 DEF Hop
      <4>2. hop = NextHop(table, st.frontier, ToSet(st.all), max - Len(st.all))
        OBVIOUS
      <4> HIDE DEF hop
      <4>3. Spread(E, table, first, max, h + 1, [all |-> st.all \o hop, frontier |-> hop])
        BY <1>1, <2>1, <2>2, <2>3, <3>2, <4>2, SpreadHop
      <4> QED BY <4>1, <4>3
    <3> QED BY <3>1, <3>2
  <2> QED BY <2>1, <2>2, <2>4
<1>13. hops \in A
  <2> HIDE DEF A
  <2>1. \A h \in 0..hops : h \in A
    BY <1>11, <1>12, AllUpTo
  <2> QED BY <2>1
<1>14. Spread(E, table, first, max, hops, f[hops])
  BY <1>13
<1> QED BY <1>7, <1>14 DEF first

\* Nearer entities first, none twice, complete within the budget (community_store.py:134-142).
LEMMA SelectedBreadthFirst ==
    ASSUME NEW E, NEW table, TableOK(E, table), NEW seeds \in Seq(E), NEW hops \in Nat,
           NEW max \in Nat
    PROVE  BreadthFirst(table, seeds, hops, max, Selected(table, seeds, hops, max))
<1> DEFINE first == FirstOf(Distinct(seeds), max)
           found == Selected(table, seeds, hops, max)
           W(k) == Within(table, ToSet(first), k)
<1>1. PICK st : Spread(E, table, first, max, hops, st) /\ found = st.all
  BY SelectedSpread
<1>2. Distinct(seeds) \in Seq(E) /\ ToSet(Distinct(seeds)) = ToSet(seeds)
  BY DistinctIsSet
<1>3. /\ first \in Seq(E)
      /\ Len(first) = IF max <= Len(Distinct(seeds)) THEN max ELSE Len(Distinct(seeds))
      /\ \A i \in 1..Len(first) : first[i] = Distinct(seeds)[i]
  BY <1>2, FirstOfSeq
<1> HIDE DEF first, found
<1>4. /\ found \in Seq(E) /\ Apart(found) /\ Len(found) <= max
      /\ Len(first) <= Len(found) /\ \A i \in 1..Len(first) : found[i] = first[i]
      /\ Len(found) < max => ToSet(found) = W(hops)
      /\ \A k \in Nat : \A i \in 1..Len(found) :
            found[i] \in W(k) => \A j \in 1..i : found[j] \in W(k)
  BY <1>1 DEF Spread
<1>5. Cardinality(ToSet(found)) = Len(found)
  BY <1>4, ApartSize
<1>6. IsPrefix(first, found)
  <2> DEFINE n == Len(first)
  <2>1. n \in Nat /\ Len(found) \in Nat /\ n <= Len(found)
    BY <1>3, <1>4
  <2>2. SubSeq(first, 1, n) = [i \in 1..n |-> first[i]] /\ SubSeq(found, 1, n) = [i \in 1..n |-> found[i]]
    BY <2>1
  <2>3. [i \in 1..n |-> first[i]] = [i \in 1..n |-> found[i]]
    BY <1>4
  <2> QED BY <2>1, <2>2, <2>3 DEF IsPrefix
<1>7. ASSUME Len(found) < max PROVE ToSet(found) = Within(table, ToSet(seeds), hops)
  <2> DEFINE d == Distinct(seeds)
  <2>1. Len(first) \in Nat /\ Len(found) \in Nat /\ Len(d) \in Nat
    BY <1>2, <1>3, <1>4
  <2>2. Len(first) < max
    BY <1>4, <1>7, <2>1
  <2>3. Len(first) = Len(d)
    BY <1>3, <2>1, <2>2
  <2>4. ToSet(first) = ToSet(d)
    <3>1. DOMAIN first = 1..Len(first) /\ DOMAIN d = 1..Len(d)
      BY <1>2, <1>3
    <3> HIDE DEF d
    <3>2. \A i \in 1..Len(d) : first[i] = d[i]
      BY <1>3, <2>3 DEF d
    <3> QED BY <2>3, <3>1, <3>2 DEF ToSet
  <2> QED BY <1>2, <1>4, <1>7, <2>4
<1>8. \A h \in 0..hops, i \in 1..Len(found) :
         found[i] \in W(h) => \A j \in 1..i : found[j] \in W(h)
  <2>1. \A h \in 0..hops : h \in Nat
    OBVIOUS
  <2> HIDE DEF W
  <2> QED BY <1>4, <2>1
<1> QED BY <1>4, <1>5, <1>6, <1>7, <1>8 DEF BreadthFirst, first, found

\* The first hop is shared by rank (community_store.py:165-191).
LEMMA SelectedShared ==
    ASSUME NEW E, NEW table, TableOK(E, table), NEW seeds \in Seq(E), NEW hops \in Nat,
           NEW max \in Nat
    PROVE  Shared(table, seeds, max, Selected(table, seeds, hops, max))
<1> DEFINE start == FirstOf(Distinct(seeds), max)
           first == ToSet(start)
           found == Selected(table, seeds, hops, max)
           list(p) == Ranked(table, p, first)
           rank(p, n) == CHOOSE k \in DOMAIN list(p) : list(p)[k] = n
           of(n) == {rank(p, n) : p \in {q \in first : n \in Neighbors(table, q)}}
           best(n) == Min(of(n))
           hop == Within(table, first, 1) \ first
<1>1. PICK st : Spread(E, table, start, max, hops, st) /\ found = st.all
  BY SelectedSpread
<1>2. start \in Seq(E)
  <2>1. Distinct(seeds) \in Seq(E)
    BY DistinctIsSet
  <2> QED BY <2>1, FirstOfSeq
<1> HIDE DEF start, found
<1>3. \A m \in ToSet(found), n \in Within(table, first, 1) \ ToSet(found) :
         m \in hop => Outranks(table, first, first, m, n)
  BY <1>1 DEF Spread
<1>4. first \in SUBSET E
  BY <1>2 DEF ToSet
<1> HIDE DEF first
<1>5. ASSUME NEW n \in hop PROVE \E q \in first : n \in Neighbors(table, q)
  <2>1. Within(table, first, 0 + 1) = Reach(table, Within(table, first, 0))
        /\ Within(table, first, 0) = first
    BY <1>4, WithinStep
  <2>2. n \in Reach(table, first)
    BY <2>1
  <2> QED BY <1>5, <2>2 DEF Reach
<1>6. ASSUME NEW q \in first, NEW n \in Neighbors(table, q), n \notin first
      PROVE  rank(q, n) \in DOMAIN list(q) /\ list(q)[rank(q, n)] = n /\ rank(q, n) \in Nat
  <2>1. list(q) \in Seq(E) /\ ToSet(list(q)) = Neighbors(table, q) \ first
    BY <1>4, RankedNeighbors
  <2>2. PICK k \in DOMAIN list(q) : list(q)[k] = n
    <3>1. n \in ToSet(list(q))
      BY <1>6, <2>1
    <3> HIDE DEF list
    <3> QED BY <3>1 DEF ToSet
  <2>3. \A j \in DOMAIN list(q) : j \in Nat
    BY <2>1
  <2> HIDE DEF list
  <2> QED BY <2>2, <2>3
<1> HIDE DEF rank
<1>7. ASSUME NEW n \in hop PROVE best(n) \in of(n) /\ \A k \in of(n) : best(n) <= k
  <2>1. \A k \in of(n) : k \in Nat
    BY <1>6, <1>7
  <2>2. of(n) # {}
    BY <1>5, <1>7
  <2> HIDE DEF of
  <2> QED BY <2>1, <2>2, MinExists
<1>8. ASSUME NEW n \in hop \ ToSet(found), NEW m \in hop \cap ToSet(found)
      PROVE  best(m) <= best(n)
  <2>1. Outranks(table, first, first, m, n)
    BY <1>3, <1>8
  <2>2. PICK k \in Nat :
           /\ \E p \in first : k \in DOMAIN list(p) /\ list(p)[k] = m
           /\ \A q \in first : \A l \in DOMAIN list(q) : list(q)[l] = n => k <= l
    BY <2>1 DEF Outranks
  <2>3. PICK p \in first : k \in DOMAIN list(p) /\ list(p)[k] = m
    BY <2>2
  <2>4. PICK q \in first : n \in Neighbors(table, q) /\ best(n) = rank(q, n)
    <3> HIDE DEF best, hop
    <3>1. best(n) \in of(n)
      BY <1>7, <1>8
    <3> QED BY <3>1
  <2>5. k <= best(n) /\ best(n) \in Nat
    <3>1. rank(q, n) \in DOMAIN list(q) /\ list(q)[rank(q, n)] = n /\ rank(q, n) \in Nat
      BY <1>6, <1>8, <2>4
    <3> HIDE DEF best, list
    <3> QED BY <2>2, <2>4, <3>1
  <2>6. m \in Neighbors(table, p) /\ m \notin first /\ list(p) \in Seq(E) /\ Apart(list(p))
    <3>1. list(p) \in Seq(E) /\ ToSet(list(p)) = Neighbors(table, p) \ first /\ Apart(list(p))
      BY <1>4, RankedNeighbors
    <3> HIDE DEF list
    <3>2. m \in ToSet(list(p))
      BY <2>3 DEF ToSet
    <3> QED BY <3>1, <3>2
  <2>7. rank(p, m) = k
    <3>1. rank(p, m) \in DOMAIN list(p) /\ list(p)[rank(p, m)] = m
      BY <1>6, <2>6
    <3>2. DOMAIN list(p) = 1..Len(list(p))
      BY <2>6
    <3> HIDE DEF list
    <3> QED BY <2>3, <2>6, <3>1, <3>2 DEF Apart
  <2>8. k \in of(m)
    BY <2>6, <2>7
  <2>9. best(m) <= k /\ best(m) \in Nat
    <3>1. best(m) \in of(m) /\ best(m) <= k
      <4> HIDE DEF of, best, hop
      <4> QED BY <1>7, <1>8, <2>8
    <3>2. \A l \in of(m) : l \in Nat
      BY <1>6, <1>8
    <3> HIDE DEF of, best
    <3> QED BY <3>1, <3>2
  <2> HIDE DEF best
  <2> QED BY <2>5, <2>9
<1> QED BY <1>8 DEF Shared, start, first, found, rank

\* Relationships inside the selection first (community_store.py:152-161).
LEMMA RelationshipsInside ==
    ASSUME NEW E, NEW table, TableOK(E, table), NEW selected, NEW max \in Nat
    PROVE  InsideFirst(table, selected, max, Relationships(table, selected, max))
<1> DEFINE inside(r) == {r[1], r[2]} \subseteq selected
           rows == {r \in DOMAIN table : table[r] > 0 /\ {r[1], r[2]} \cap selected # {}}
           before(r, s) ==
              \/ inside(r) /\ ~inside(s)
              \/ inside(r) = inside(s) /\ table[r] > table[s]
              \/ /\ inside(r) = inside(s) /\ table[r] = table[s]
                 /\ \/ r[1] < s[1]
                    \/ r[1] = s[1] /\ r[2] < s[2]
           R == {e \in rows \X rows : before(e[1], e[2])}
           n == Cardinality(rows)
           q == Sorted(rows, R)
           shown == FirstOf(q, max)
<1>1. rows \subseteq E \X E /\ \A r \in rows : table[r] \in Nat
  <2>1. DOMAIN table = E \X E /\ \A r \in E \X E : table[r] \in Nat
    BY DEF TableOK
  <2> QED BY <2>1
<1>2. IsFiniteSet(rows)
  <2>1. IsFiniteSet(E \X E)
    BY FS_Product DEF TableOK
  <2> HIDE DEF rows
  <2> QED BY <1>1, <2>1, FS_Subset
<1>3. \A r \in rows : r = <<r[1], r[2]>> /\ r[1] \in Nat /\ r[2] \in Nat
  <2> HIDE DEF rows
  <2>1. E \subseteq Nat
    BY DEF TableOK
  <2> SUFFICES ASSUME NEW r \in rows PROVE r = <<r[1], r[2]>> /\ r[1] \in Nat /\ r[2] \in Nat
    OBVIOUS
  <2>2. r \in E \X E
    BY <1>1
  <2>3. r = <<r[1], r[2]>> /\ r[1] \in E /\ r[2] \in E
    BY <2>2
  <2> QED BY <2>1, <2>3
<1>4. Relationships(table, selected, max) = shown
  BY DEF Relationships
<1>5. \A r, s \in rows : <<r, s>> \in R <=> before(r, s)
  <2> HIDE DEF rows, before
  <2> QED OBVIOUS
<1> HIDE DEF rows, R, inside
<1>6. OrderOf(rows, R)
  <2>1. ASSUME NEW x \in rows PROVE <<x, x>> \notin R
    BY <1>1, <1>3, <1>5
  <2>2. ASSUME NEW x \in rows, NEW y \in rows, NEW z \in rows, <<x, y>> \in R, <<y, z>> \in R
        PROVE  <<x, z>> \in R
    <3> DEFINE a == table[x]
               b == table[y]
               c == table[z]
    <3>1. a \in Nat /\ b \in Nat /\ c \in Nat
      BY <1>1
    <3>2. x[1] \in Nat /\ x[2] \in Nat /\ y[1] \in Nat /\ y[2] \in Nat /\ z[1] \in Nat /\ z[2] \in Nat
      BY <1>3
    <3>3. before(x, y) /\ before(y, z)
      BY <1>5, <2>2
    <3> HIDE DEF a, b, c
    <3>4. before(x, z)
      BY <3>1, <3>2, <3>3 DEF a, b, c, inside
    <3> QED BY <1>5, <3>4
  <2>3. ASSUME NEW x \in rows, NEW y \in rows, x # y PROVE <<x, y>> \in R \/ <<y, x>> \in R
    <3> DEFINE a == table[x]
               b == table[y]
    <3>1. a \in Nat /\ b \in Nat /\ x[1] \in Nat /\ x[2] \in Nat /\ y[1] \in Nat /\ y[2] \in Nat
      BY <1>1, <1>3
    <3>2. x[1] # y[1] \/ x[2] # y[2]
      BY <1>3, <2>3
    <3>3. before(x, y) \/ before(y, x)
      BY <3>1, <3>2 DEF inside
    <3> QED BY <1>5, <3>3
  <2> QED BY <2>1, <2>2, <2>3 DEF OrderOf
<1>7. /\ q \in [1..n -> rows] /\ n \in Nat
      /\ \A i, j \in 1..n : i < j => <<q[i], q[j]>> \in R
      /\ \A x \in rows : \E i \in 1..n : q[i] = x
  BY <1>2, <1>6, SortedInOrder
<1> HIDE DEF q, n
<1>8. q \in Seq(rows) /\ Len(q) = n
  BY <1>7, SeqDef, LenProperties
<1>9. /\ shown \in Seq(rows)
      /\ Len(shown) = IF max <= n THEN max ELSE n
      /\ \A i \in 1..Len(shown) : shown[i] = q[i]
  BY <1>8, FirstOfSeq
<1> HIDE DEF shown
<1>10. DOMAIN shown = 1..Len(shown) /\ Len(shown) \in Nat
  BY <1>9
<1>11. ToSet(shown) \subseteq rows
  BY <1>9 DEF ToSet
<1>12. Len(shown) = Min({max, n})
  <2>1. {max, n} \in SUBSET Nat /\ {max, n} # {}
    BY <1>7
  <2>2. Min({max, n}) \in {max, n} /\ \A y \in {max, n} : Min({max, n}) <= y
    BY <2>1, MinExists
  <2>3. Min({max, n}) <= max /\ Min({max, n}) <= n
    BY <2>2
  <2> QED BY <1>7, <1>9, <2>2, <2>3
<1>13. ASSUME NEW r \in ToSet(shown), NEW s \in rows \ ToSet(shown)
       PROVE  \/ inside(r) /\ ~inside(s)
              \/ inside(r) = inside(s) /\ table[r] >= table[s]
  <2>1. PICK i \in 1..Len(shown) : shown[i] = r
    BY <1>10 DEF ToSet
  <2>2. PICK j \in 1..n : q[j] = s
    BY <1>7
  <2>3. j \notin 1..Len(shown)
    BY <1>9, <1>10, <2>2 DEF ToSet
  <2>4. i \in 1..n /\ i < j /\ q[i] = r
    BY <1>7, <1>9, <1>10, <2>1, <2>2, <2>3
  <2>5. <<r, s>> \in R
    BY <1>7, <2>2, <2>4
  <2>6. before(r, s)
    BY <1>5, <1>11, <2>5
  <2>7. table[r] \in Nat /\ table[s] \in Nat
    BY <1>1, <1>11
  <2> QED BY <2>6, <2>7
<1> QED BY <1>4, <1>11, <1>12, <1>13 DEF InsideFirst, rows, inside, n
-----------------------------------------------------------------------------
\* Every entity that can be placed by co-occurrence is, for any graph and any communities
\* (community_store.py:28-60).
THEOREM EntitiesPlaced == PartsSpec => []CommunitiesPlaced
<1>1. problem.input \in Inputs(problem.part) => CommunitiesPlaced
  BY PartsAssumption, ClusteringIsSound DEF CommunitiesPlaced, Given
<1> QED BY <1>1, ProblemKept, PTL

\* Local retrieval is shown the nearest entities, none of a hub's before better ones of
\* another seed, and the relationships among them before others, for any table, seeds and
\* limits (community_store.py:117-191).
THEOREM NeighborhoodsAreFair == PartsSpec => []NeighborhoodsFair
<1>1. problem.input \in Inputs(problem.part) => NeighborhoodsFair
  <2> SUFFICES ASSUME problem.input \in Inputs(problem.part), Given("neighborhood")
               PROVE  NeighborhoodsFair
    BY DEF NeighborhoodsFair
  <2> DEFINE p == problem.input
             found == Selected(p.table, p.seeds, p.hops, p.max)
             E == Entities(p.table)
  <2>1. /\ RelationshipTable(p.table) /\ p.seeds \in Seq(E)
        /\ p.hops \in Nat /\ p.max \in Nat
    BY PartsAssumption DEF Given
  <2>2. TableOK(E, p.table)
    BY <2>1 DEF RelationshipTable, TableOK
  <2> HIDE DEF E
  <2>3. /\ BreadthFirst(p.table, p.seeds, p.hops, p.max, found)
        /\ Shared(p.table, p.seeds, p.max, found)
    BY <2>1, <2>2, SelectedBreadthFirst, SelectedShared
  <2>4. InsideFirst(p.table, ToSet(found), p.max, Relationships(p.table, ToSet(found), p.max))
    BY <2>1, <2>2, RelationshipsInside
  <2> QED BY <2>3, <2>4 DEF NeighborhoodsFair
<1> QED BY <1>1, ProblemKept, PTL
=============================================================================
