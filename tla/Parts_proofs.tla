---------------------------- MODULE Parts_proofs ----------------------------
(***************************************************************************)
(* The parts that are algorithms keep their promises to whoever hands them *)
(* what they rely on, for any size: no error costs a history document but  *)
(* the one being written, nothing of a text, a Markdown document or a      *)
(* Python module is lost on its way into chunks, and every chunk is within *)
(* its bound. The loops are recursive functions; each is shown to exist,   *)
(* and to keep what each step keeps, by induction over sets of numbers.    *)
(***************************************************************************)
EXTENDS Parts, FunctionTheorems, SequenceTheorems, FiniteSetTheorems, WellFoundedInduction, TLAPS

(***************************************************************************)
(* Numbers, finite sets and recursive functions over numbers.              *)
(***************************************************************************)
\* Induction over the numbers up to N.
LEMMA AllUpTo ==
    ASSUME NEW N \in Nat, NEW S, 0 \in S, \A n \in 0..(N - 1) : n \in S => n + 1 \in S
    PROVE  \A n \in 0..N : n \in S
<1> DEFINE Bad == {n \in 0..N : n \notin S}
<1>1. SUFFICES ASSUME Bad # {} PROVE FALSE
  OBVIOUS
<1>2. PICK n \in Bad : \A m \in Bad : ~(m < n)
  <2>1. Bad \subseteq Nat /\ Bad # {}
    BY <1>1
  <2> HIDE DEF Bad
  <2>2. PICK n \in Bad : \A m \in Bad : <<m, n>> \notin OpToRel(<, Nat)
    BY <2>1, NatLessThanWellFounded, WFMin
  <2> QED BY <2>1, <2>2 DEF OpToRel
<1>3. n - 1 \in 0..(N - 1) /\ n - 1 < n
  BY <1>2
<1>4. n - 1 \in S
  BY <1>2, <1>3
<1>5. (n - 1) + 1 = n
  BY <1>2
<1> QED BY <1>2, <1>3, <1>4, <1>5

LEMMA LeastExists ==
    ASSUME NEW S \in SUBSET Nat, S # {} PROVE \E n \in S : \A m \in S : n <= m
<1>1. PICK n \in S : \A m \in S : <<m, n>> \notin OpToRel(<, Nat)
  BY NatLessThanWellFounded, WFMin
<1>2. \A m \in S : ~(m < n)
  BY <1>1 DEF OpToRel
<1> QED BY <1>2

\* The best of finitely many has none better.
LEMMA BestOf ==
    ASSUME NEW S \in SUBSET Nat, IsFiniteSet(S), S # {}, NEW key \in [S -> Nat]
    PROVE  \E x \in S : \A y \in S : key[x] > key[y] \/ (key[x] = key[y] /\ x <= y)
<1> DEFINE Better(x) == {y \in S : key[y] > key[x] \/ (key[y] = key[x] /\ y < x)}
           Sizes == {Cardinality(Better(x)) : x \in S}
<1>1. \A x \in S : IsFiniteSet(Better(x)) /\ Cardinality(Better(x)) \in Nat
  BY FS_Subset, FS_CardinalityType
<1>2. PICK n \in Sizes : \A m \in Sizes : n <= m
  <2>1. Sizes \in SUBSET Nat /\ Sizes # {}
    BY <1>1
  <2> HIDE DEF Sizes
  <2> QED BY <2>1, LeastExists
<1>3. PICK x \in S : n = Cardinality(Better(x))
  BY <1>2
<1>4. Better(x) = {}
  <2> SUFFICES ASSUME NEW y \in Better(x) PROVE FALSE
    OBVIOUS
  <2>1. y \in S /\ key[y] \in Nat /\ key[x] \in Nat /\ x \in Nat /\ y \in Nat
    OBVIOUS
  <2>2. Better(y) \in SUBSET Better(x)
    <3> SUFFICES ASSUME NEW z \in Better(y) PROVE z \in Better(x)
      OBVIOUS
    <3>1. z \in S /\ key[z] \in Nat /\ z \in Nat
      OBVIOUS
    <3> QED BY <2>1, <3>1
  <2>3. Better(y) # Better(x)
    BY <2>1
  <2>4. Cardinality(Better(x)) <= Cardinality(Better(y))
    <3>1. Cardinality(Better(y)) \in Sizes
      BY <2>1
    <3> HIDE DEF Sizes, Better
    <3> QED BY <1>2, <1>3, <3>1
  <2> HIDE DEF Better
  <2> QED BY <1>1, <2>1, <2>2, <2>3, <2>4, FS_Subset
<1>5. ASSUME NEW y \in S PROVE key[x] > key[y] \/ (key[x] = key[y] /\ x <= y)
  <2>1. y \notin Better(x) /\ key[x] \in Nat /\ key[y] \in Nat /\ x \in Nat /\ y \in Nat
    BY <1>4
  <2> QED BY <2>1
<1> QED BY <1>5

LEMMA MaxExists ==
    ASSUME NEW S \in SUBSET Nat, IsFiniteSet(S), S # {}
    PROVE  Max(S) \in S /\ \A y \in S : Max(S) >= y
<1> DEFINE key == [x \in S |-> x]
<1>1. PICK x \in S : \A y \in S : key[x] > key[y] \/ (key[x] = key[y] /\ x <= y)
  <2>1. key \in [S -> Nat]
    OBVIOUS
  <2> HIDE DEF key
  <2> QED BY <2>1, BestOf
<1>2. \A y \in S : x >= y
  BY <1>1
<1> QED BY <1>2 DEF Max

LEMMA MinExists ==
    ASSUME NEW S \in SUBSET Nat, S # {}
    PROVE  Min(S) \in S /\ \A y \in S : Min(S) <= y
BY LeastExists DEF Min

\* The function that starts with base and goes on by step.
Iterates(N, base, step, f) ==
    \A n \in 0..N : f[n] = IF n = 0 THEN base ELSE step[<<n, f[n - 1]>>]

\* A function defined step by step over the numbers up to N exists.
LEMMA RecursionExists ==
    ASSUME NEW N \in Nat, NEW T, NEW base \in T, NEW step \in [(1..N) \X T -> T]
    PROVE  \E f \in [0..N -> T] : Iterates(N, base, step, f)
<1> DEFINE Some == {n \in 0..N : \E f \in [0..n -> T] : Iterates(n, base, step, f)}
<1>1. 0 \in Some
  <2> DEFINE f == [i \in 0..0 |-> base]
  <2>1. f \in [0..0 -> T] /\ Iterates(0, base, step, f)
    BY DEF Iterates
  <2> QED BY <2>1
<1>2. ASSUME NEW n \in 0..(N - 1), n \in Some PROVE n + 1 \in Some
  <2>1. PICK f \in [0..n -> T] : Iterates(n, base, step, f)
    BY <1>2
  <2> DEFINE g == [i \in 0..(n + 1) |-> IF i = n + 1 THEN step[<<n + 1, f[n]>>] ELSE f[i]]
  <2>2. f[n] \in T /\ n + 1 \in 1..N /\ n \in Nat /\ n + 1 \in 0..N
    OBVIOUS
  <2>3. step[<<n + 1, f[n]>>] \in T
    BY <2>2
  <2>4. g \in [0..(n + 1) -> T]
    BY <2>2, <2>3
  <2>5. ASSUME NEW i \in 0..(n + 1)
        PROVE  g[i] = IF i = 0 THEN base ELSE step[<<i, g[i - 1]>>]
    <3>1. CASE i = n + 1
      <4>1. i # 0 /\ i - 1 = n /\ n \in 0..(n + 1) /\ n # n + 1
        BY <2>2, <3>1
      <4>2. g[i - 1] = f[n]
        BY <4>1
      <4> QED BY <3>1, <4>1, <4>2
    <3>2. CASE i # n + 1
      <4>1. i \in 0..n /\ (i # 0 => i - 1 \in 0..n /\ i - 1 \in 0..(n + 1) /\ i - 1 # n + 1)
        BY <2>2, <3>2
      <4>2. f[i] = IF i = 0 THEN base ELSE step[<<i, f[i - 1]>>]
        BY <2>1, <4>1 DEF Iterates
      <4> QED BY <3>2, <4>1, <4>2
    <3> QED BY <3>1, <3>2
  <2>6. Iterates(n + 1, base, step, g)
    BY <2>5 DEF Iterates
  <2> HIDE DEF g
  <2> QED BY <2>2, <2>4, <2>6
<1>3. N \in Some
  <2> HIDE DEF Some
  <2>1. \A n \in 0..N : n \in Some
    BY <1>1, <1>2, AllUpTo
  <2> QED BY <2>1
<1> QED BY <1>3

\* Whatever goes on like that stays within T.
LEMMA RecursionType ==
    ASSUME NEW N \in Nat, NEW T, NEW base \in T, NEW step \in [(1..N) \X T -> T],
           NEW f, Iterates(N, base, step, f)
    PROVE  \A n \in 0..N : f[n] \in T
<1> DEFINE S == {n \in 0..N : f[n] \in T}
<1>1. 0 \in S
  <2>1. 0 \in 0..N
    OBVIOUS
  <2> QED BY <2>1 DEF Iterates
<1>2. ASSUME NEW n \in 0..(N - 1), n \in S PROVE n + 1 \in S
  <2>1. n + 1 \in 1..N /\ n + 1 \in 0..N /\ n + 1 # 0 /\ (n + 1) - 1 = n
    OBVIOUS
  <2>2. f[n + 1] = step[<<n + 1, f[n]>>]
    BY <2>1 DEF Iterates
  <2>3. f[n] \in T
    BY <1>2
  <2> QED BY <2>1, <2>2, <2>3
<1> HIDE DEF S
<1>3. \A n \in 0..N : n \in S
  BY <1>1, <1>2, AllUpTo
<1> QED BY <1>3 DEF S
-----------------------------------------------------------------------------
(***************************************************************************)
(* Histories.                                                              *)
(***************************************************************************)
\* The children of all roots, a sequence.
LEMMA FlattenType ==
    ASSUME NEW S, NEW seqs \in Seq(Seq(S)) PROVE FlattenSeq(seqs) \in Seq(S)
<1>1. CASE Len(seqs) = 0
  <2>1. seqs = <<>>
    BY <1>1, EmptySeq
  <2> QED BY <1>1, <2>1 DEF FlattenSeq
<1>2. CASE Len(seqs) # 0
  <2> DEFINE N == Len(seqs)
             Is(f, n) == f = [i \in 1..n |-> IF i = 1 THEN seqs[i] ELSE f[i - 1] \o seqs[i]]
             Some == {n \in Nat : n > 0 => \E f \in [1..n -> Seq(S)] : Is(f, n)}
  <2>1. N \in Nat /\ N > 0 /\ \A i \in 1..N : seqs[i] \in Seq(S)
    BY <1>2
  <2> HIDE DEF N
  <2>2. ASSUME NEW n \in 0..(N - 1), n \in Some PROVE n + 1 \in Some
    <3>1. n \in Nat /\ seqs[n + 1] \in Seq(S)
      BY <2>1
    <3>2. CASE n = 0
      <4> DEFINE f == [i \in 1..1 |-> seqs[1]]
      <4>1. n + 1 = 1 /\ n + 1 \in Nat
        BY <3>2
      <4>2. f \in [1..(n + 1) -> Seq(S)] /\ Is(f, n + 1)
        BY <3>1, <4>1
      <4> HIDE DEF f, Is
      <4> QED BY <4>1, <4>2
    <3>3. CASE n # 0
      <4>1. PICK f \in [1..n -> Seq(S)] : Is(f, n)
        <5> HIDE DEF Is
        <5> QED BY <2>2, <3>1, <3>3
      <4> DEFINE h == [i \in 1..(n + 1) |-> IF i = n + 1 THEN f[n] \o seqs[n + 1] ELSE f[i]]
      <4>2. f[n] \o seqs[n + 1] \in Seq(S)
        BY <3>1, <3>3, ConcatProperties
      <4>3. h \in [1..(n + 1) -> Seq(S)]
        BY <3>1, <4>2
      <4>4. ASSUME NEW i \in 1..(n + 1)
            PROVE  h[i] = IF i = 1 THEN seqs[i] ELSE h[i - 1] \o seqs[i]
        <5>1. CASE i = n + 1
          <6>1. n \in 1..(n + 1) /\ n # n + 1 /\ n + 1 # 1 /\ (n + 1) - 1 = n
            BY <3>1, <3>3
          <6>2. h[n] = f[n]
            BY <6>1
          <6> QED BY <5>1, <6>1, <6>2
        <5>2. CASE i # n + 1
          <6>1. i \in 1..n /\ (i # 1 => i - 1 \in 1..n /\ i - 1 \in 1..(n + 1) /\ i - 1 # n + 1)
            BY <3>1, <5>2
          <6>2. f[i] = IF i = 1 THEN seqs[i] ELSE f[i - 1] \o seqs[i]
            BY <4>1, <6>1
          <6> QED BY <5>2, <6>1, <6>2
        <5> QED BY <5>1, <5>2
      <4>5. Is(h, n + 1)
        BY <4>3, <4>4
      <4>6. n + 1 \in Nat
        BY <3>1
      <4> HIDE DEF h, Is
      <4> QED BY <4>3, <4>5, <4>6
    <3> QED BY <3>2, <3>3
  <2>3. N \in Some
    <3>1. 0 \in Some
      OBVIOUS
    <3> HIDE DEF Some
    <3>2. \A n \in 0..N : n \in Some
      BY <2>1, <2>2, <3>1, AllUpTo
    <3> QED BY <2>1, <3>2
  <2>4. PICK f \in [1..N -> Seq(S)] : Is(f, N)
    BY <2>1, <2>3
  <2> DEFINE it == CHOOSE h : Is(h, N)
  <2>5. Is(it, N)
    BY <2>4
  <2>6. \A n \in 0..N : n \in {m \in Nat : m > 0 => it[m] = f[m]}
    <3> DEFINE Same == {m \in Nat : m > 0 => it[m] = f[m]}
    <3> HIDE DEF it
    <3>1. ASSUME NEW n \in 0..(N - 1), n \in Same PROVE n + 1 \in Same
      <4>1. n + 1 \in 1..N /\ (n + 1) - 1 = n /\ n \in Nat
        BY <2>1
      <4>2. it[n + 1] = IF n + 1 = 1 THEN seqs[n + 1] ELSE it[n] \o seqs[n + 1]
        BY <2>5, <4>1
      <4>3. f[n + 1] = IF n + 1 = 1 THEN seqs[n + 1] ELSE f[n] \o seqs[n + 1]
        BY <2>4, <4>1
      <4> QED BY <3>1, <4>1, <4>2, <4>3
    <3>2. 0 \in Same
      OBVIOUS
    <3> HIDE DEF Same
    <3>3. \A n \in 0..N : n \in Same
      BY <2>1, <3>1, <3>2, AllUpTo
    <3> QED BY <3>3 DEF Same
  <2>7. it[N] \in Seq(S)
    <3> HIDE DEF it, Is
    <3>1. it[N] = f[N] /\ f[N] \in Seq(S)
      BY <2>1, <2>6
    <3> QED BY <3>1
  <2>8. FlattenSeq(seqs) = it[N]
    BY <1>2 DEF FlattenSeq, N
  <2> HIDE DEF it
  <2> QED BY <2>7, <2>8
<1> QED BY <1>1, <1>2

IsVisits(children, docs, n, g) ==
    g = [k \in 0..n |-> IF k = 0 THEN [present |-> {}, raised |-> FALSE, docs |-> docs]
                        ELSE Visit(g[k - 1], children[k])]

\* The loop over the children is a recursion.
LEMMA VisitsStep ==
    ASSUME NEW S, NEW children \in Seq(S), NEW docs
    PROVE  /\ Visits(children, docs)[0] = [present |-> {}, raised |-> FALSE, docs |-> docs]
           /\ \A n \in 1..Len(children) :
                 Visits(children, docs)[n] = Visit(Visits(children, docs)[n - 1], children[n])
<1> DEFINE N == Len(children)
           Some == {n \in Nat : \E g : IsVisits(children, docs, n, g)}
<1>1. N \in Nat
  OBVIOUS
<1>2. 0 \in Some
  <2> DEFINE g == [k \in 0..0 |-> [present |-> {}, raised |-> FALSE, docs |-> docs]]
  <2>1. IsVisits(children, docs, 0, g)
    BY DEF IsVisits
  <2> QED BY <2>1
<1>3. ASSUME NEW n \in 0..(N - 1), n \in Some PROVE n + 1 \in Some
  <2>1. PICK g : IsVisits(children, docs, n, g)
    BY <1>3
  <2> DEFINE h == [k \in 0..(n + 1) |-> IF k = n + 1 THEN Visit(g[n], children[n + 1]) ELSE g[k]]
  <2>2. ASSUME NEW k \in 0..(n + 1)
        PROVE  h[k] = IF k = 0 THEN [present |-> {}, raised |-> FALSE, docs |-> docs]
                      ELSE Visit(h[k - 1], children[k])
    <3>1. CASE k = n + 1
      <4>1. n \in 0..(n + 1) /\ n # n + 1 /\ n + 1 # 0 /\ (n + 1) - 1 = n
        BY <1>1
      <4>2. h[n] = g[n]
        BY <4>1
      <4> QED BY <3>1, <4>1, <4>2
    <3>2. CASE k # n + 1
      <4>1. k \in 0..n /\ (k # 0 => k - 1 \in 0..n /\ k - 1 \in 0..(n + 1) /\ k - 1 # n + 1)
        BY <3>2
      <4>2. g[k] = IF k = 0 THEN [present |-> {}, raised |-> FALSE, docs |-> docs]
                   ELSE Visit(g[k - 1], children[k])
        BY <2>1, <4>1 DEF IsVisits
      <4> QED BY <3>2, <4>1, <4>2
    <3> QED BY <3>1, <3>2
  <2>3. IsVisits(children, docs, n + 1, h)
    BY <2>2 DEF IsVisits
  <2>4. n + 1 \in Nat
    BY <1>1
  <2> HIDE DEF h
  <2> QED BY <2>3, <2>4
<1>4. \E g : IsVisits(children, docs, N, g)
  <2> HIDE DEF Some
  <2>1. \A n \in 0..N : n \in Some
    BY <1>1, <1>2, <1>3, AllUpTo
  <2> QED BY <1>1, <2>1 DEF Some
<1>5. Visits(children, docs) = CHOOSE g : IsVisits(children, docs, N, g)
  BY DEF Visits, IsVisits
<1>6. IsVisits(children, docs, N, Visits(children, docs))
  BY <1>4, <1>5
<1>7. DOMAIN Visits(children, docs) = 0..N
  BY <1>6 DEF IsVisits
<1>8. ASSUME NEW k \in 0..N
      PROVE  Visits(children, docs)[k] =
                IF k = 0 THEN [present |-> {}, raised |-> FALSE, docs |-> docs]
                ELSE Visit(Visits(children, docs)[k - 1], children[k])
  BY <1>6 DEF IsVisits
<1>9. 0 \in 0..N /\ \A n \in 1..N : n \in 0..N /\ n # 0
  BY <1>1
<1> HIDE DEF N
<1> QED BY <1>8, <1>9 DEF N

\* A child of a root of projects.
Child(names, outs) == [name : names, repo : BOOLEAN, out : outs]

\* What the first n children have done: until an error every repository among them counts as
\* present, only a history that git has printed replaces a document, and without an error
\* every repository has one.
Done(children, docs, n, st) ==
    LET repos == {i \in 1..n : children[i].repo}
        fails == {i \in repos : children[i].out \in {Unwritable, Cut}}
    IN  /\ DOMAIN st.docs = DOMAIN docs /\ st.raised \in BOOLEAN /\ (st.raised <=> fails # {})
        /\ ~st.raised => st.present = {children[i].name : i \in repos}
        /\ \A d \in DOMAIN docs :
              \/ st.docs[d] = docs[d]
              \/ \E i \in repos : /\ children[i].name = d /\ st.docs[d] = children[i].out
                                  /\ children[i].out \notin {NoLog, Unwritable}
        /\ (\A i \in repos : children[i].out \notin {NoLog, Unwritable, Cut}) =>
              \A i \in repos : \E j \in repos : /\ children[j].name = children[i].name
                                                /\ st.docs[children[i].name] = children[j].out

\* What n visits have done is kept by the next.
LEMMA VisitsDone ==
    ASSUME NEW names, NEW outs, NEW docs, DOMAIN docs = names,
           NEW children \in Seq(Child(names, outs))
    PROVE  \A n \in 0..Len(children) : Done(children, docs, n, Visits(children, docs)[n])
<1> DEFINE N == Len(children)
           V == Visits(children, docs)
           All == {n \in 0..N : Done(children, docs, n, V[n])}
<1>1. N \in Nat /\ \A i \in 1..N : children[i] \in Child(names, outs)
  OBVIOUS
<1>2. /\ V[0] = [present |-> {}, raised |-> FALSE, docs |-> docs]
      /\ \A n \in 1..N : V[n] = Visit(V[n - 1], children[n])
  BY VisitsStep
<1> HIDE DEF V, N
<1>3. 0 \in All
  <2> DEFINE st == V[0]
             repos == {i \in 1..0 : children[i].repo}
  <2>1. repos = {} /\ 0 \in 0..N
    BY <1>1
  <2>2. st.present = {} /\ st.raised = FALSE /\ st.docs = docs
    BY <1>2
  <2>3. Done(children, docs, 0, st)
    <3> HIDE DEF st
    <3> QED BY <2>1, <2>2 DEF Done
  <2> QED BY <2>1, <2>3
<1>4. ASSUME NEW n \in 0..(N - 1), n \in All PROVE n + 1 \in All
  <2> DEFINE st == V[n]
             c == children[n + 1]
             new == V[n + 1]
  <2>1. n \in Nat /\ n + 1 \in 1..N /\ (n + 1) - 1 = n /\ n + 1 \in 0..N
    BY <1>1
  <2>2. new = Visit(st, c) /\ c \in Child(names, outs) /\ Done(children, docs, n, st)
    BY <1>1, <1>2, <1>4, <2>1
  <2>3. c.name \in names /\ c.repo \in BOOLEAN /\ c.out \in outs
    BY <2>2 DEF Child
  <2>4. \A i \in 1..(n + 1) : i \in 1..n \/ i = n + 1
    BY <2>1
  <2>5. \A i \in 1..n : i \in 1..(n + 1)
    BY <2>1
  <2> HIDE DEF st, new
  <2>6. CASE st.raised \/ ~c.repo
    <3>1. new = st
      BY <2>2, <2>6 DEF Visit
    <3>3. Done(children, docs, n + 1, new)
      <4> DEFINE repos == {i \in 1..(n + 1) : children[i].repo}
                 fails == {i \in repos : children[i].out \in {Unwritable, Cut}}
      <4>1. DOMAIN new.docs = DOMAIN docs /\ new.raised \in BOOLEAN /\ (new.raised <=> fails # {})
        BY <2>2, <2>3, <2>4, <2>5, <3>1, <2>6 DEF Done
      <4>2. ~new.raised => new.present = {children[i].name : i \in repos}
        BY <2>2, <2>3, <2>4, <2>5, <3>1, <2>6 DEF Done
      <4>3. ASSUME NEW d \in DOMAIN docs
            PROVE  \/ new.docs[d] = docs[d]
                   \/ \E i \in repos : /\ children[i].name = d /\ new.docs[d] = children[i].out
                                       /\ children[i].out \notin {NoLog, Unwritable}
        BY <2>1, <2>2, <2>3, <2>4, <2>5, <3>1, <2>6 DEF Done
      <4>4. ASSUME \A i \in repos : children[i].out \notin {NoLog, Unwritable, Cut}, NEW i \in repos
            PROVE  \E j \in repos : /\ children[j].name = children[i].name
                                    /\ new.docs[children[i].name] = children[j].out
        BY <2>1, <2>2, <2>3, <2>4, <2>5, <3>1, <4>4, <2>6 DEF Done
      <4> QED BY <4>1, <4>2, <4>3, <4>4 DEF Done
    <3> QED BY <2>1, <3>3 DEF new
  <2>7. CASE ~st.raised /\ c.repo
    <3>1. /\ new.present = st.present \cup {c.name} /\ new.raised = (c.out \in {Unwritable, Cut})
          /\ new.docs = IF c.out \in {NoLog, Unwritable} THEN st.docs
                        ELSE [st.docs EXCEPT ![c.name] = c.out]
      BY <2>2, <2>7 DEF Visit
    <3>3. Done(children, docs, n + 1, new)
      <4> DEFINE repos == {i \in 1..(n + 1) : children[i].repo}
                 fails == {i \in repos : children[i].out \in {Unwritable, Cut}}
      <4>1. DOMAIN new.docs = DOMAIN docs /\ new.raised \in BOOLEAN /\ (new.raised <=> fails # {})
        <5>1. DOMAIN new.docs = DOMAIN docs /\ new.raised \in BOOLEAN
          BY <2>2, <3>1 DEF Done
        <5>2. \A i \in 1..n : children[i].repo => children[i].out \notin {Unwritable, Cut}
          BY <2>2, <2>7 DEF Done
        <5>3. n + 1 \in 1..(n + 1) /\ (n + 1 \in fails <=> c.out \in {Unwritable, Cut})
          BY <2>1, <2>7
        <5>4. fails # {} <=> n + 1 \in fails
          BY <2>4, <5>2
        <5> QED BY <3>1, <5>1, <5>3, <5>4
      <4>2. ~new.raised => new.present = {children[i].name : i \in repos}
        BY <2>2, <2>3, <2>4, <2>5, <3>1, <2>7 DEF Done
      <4>3. ASSUME NEW d \in DOMAIN docs
            PROVE  \/ new.docs[d] = docs[d]
                   \/ \E i \in repos : /\ children[i].name = d /\ new.docs[d] = children[i].out
                                       /\ children[i].out \notin {NoLog, Unwritable}
        BY <2>1, <2>2, <2>3, <2>4, <2>5, <3>1, <2>7 DEF Done
      <4>4. ASSUME \A i \in repos : children[i].out \notin {NoLog, Unwritable, Cut}, NEW i \in repos
            PROVE  \E j \in repos : /\ children[j].name = children[i].name
                                    /\ new.docs[children[i].name] = children[j].out
        <5>1. n + 1 \in repos /\ c.out \notin {NoLog, Unwritable, Cut}
          BY <2>1, <2>7, <4>4
        <5>2. new.docs = [st.docs EXCEPT ![c.name] = c.out] /\ DOMAIN st.docs = names
          BY <2>2, <3>1, <5>1 DEF Done
        <5>3. CASE children[i].name = c.name
          <6>1. new.docs[c.name] = c.out
            BY <2>3, <5>2
          <6> QED BY <5>1, <5>3, <6>1
        <5>4. CASE children[i].name # c.name
          <6> DEFINE first == {j \in 1..n : children[j].repo}
          <6>1. i \in first /\ children[i].name \in names /\ first \subseteq repos
            <7>1. i \in 1..n
              BY <2>4, <5>4
            <7>2. children[i] \in Child(names, outs)
              BY <1>1, <2>1, <7>1
            <7> QED BY <2>5, <7>1, <7>2 DEF Child
          <6>2. \A j \in first : children[j].out \notin {NoLog, Unwritable, Cut}
            BY <4>4, <6>1
          <6>3. PICK j \in first : /\ children[j].name = children[i].name
                                   /\ st.docs[children[i].name] = children[j].out
            BY <2>2, <6>1, <6>2 DEF Done
          <6>4. new.docs[children[i].name] = st.docs[children[i].name]
            BY <5>2, <5>4, <6>1
          <6> QED BY <6>1, <6>3, <6>4
        <5> QED BY <5>3, <5>4
      <4> QED BY <4>1, <4>2, <4>3, <4>4 DEF Done
    <3> QED BY <2>1, <3>3 DEF new
  <2> QED BY <2>3, <2>2, <2>6, <2>7 DEF Done
<1> HIDE DEF All
<1>5. \A n \in 0..N : n \in All
  BY <1>1, <1>3, <1>4, AllUpTo
<1> QED BY <1>5 DEF All, V, N

\* For any roots, repositories, outcomes and earlier documents, only the document of a
\* repository that is gone is deleted, and only if that can be told; an error costs no other
\* document (git_history.py:93-98, 112-139).
THEOREM HistoriesAreKept ==
    ASSUME NEW names, NEW outs, NoDoc \notin outs,
           NEW docs, DOMAIN docs = names,
           NEW roots \in Seq(Seq(Child(names, outs)))
    PROVE  HistoriesKept(roots, docs)
<1> DEFINE children == FlattenSeq(roots)
           N == Len(children)
           end == Visits(children, docs)[N]
           new == Sync(roots, docs)
           repos == {c \in ToSet(children) : c.repo}
           gone == {n \in DOMAIN docs : docs[n] # NoDoc /\ new[n] = NoDoc}
           failing == {c \in repos : c.out \in {NoLog, Unwritable, Cut}}
           listed == \A i \in DOMAIN roots : roots[i] # <<>>
           clean == roots # <<>> /\ ~end.raised /\ listed
<1>1. children \in Seq(Child(names, outs)) /\ N \in Nat /\ DOMAIN children = 1..N
  BY FlattenType
<1>2. /\ \A c \in repos : /\ c.name \in names /\ c.out \in outs
                          /\ \E i \in 1..N : children[i] = c /\ children[i].repo
      /\ \A i \in 1..N : children[i].repo => children[i] \in repos
  <2>1. ToSet(children) = {children[i] : i \in 1..N}
    BY <1>1 DEF ToSet
  <2>2. \A i \in 1..N : children[i] \in Child(names, outs)
    BY <1>1
  <2> HIDE DEF children, N
  <2> QED BY <2>1, <2>2 DEF Child
<1>3. Done(children, docs, N, end)
  <2>1. N \in 0..N
    BY <1>1
  <2> HIDE DEF N
  <2> QED BY <1>1, <2>1, VisitsDone DEF N
<1>4. new = IF clean THEN [n \in names |-> IF n \in end.present THEN end.docs[n] ELSE NoDoc]
            ELSE end.docs
  BY DEF Sync
<1> HIDE DEF children, N, end, new
<1>5. /\ end.raised <=> \E c \in repos : c.out \in {Unwritable, Cut}
      /\ ~end.raised => end.present = {c.name : c \in repos}
      /\ \A n \in names : \/ end.docs[n] = docs[n]
                          \/ \E c \in repos : /\ c.name = n /\ end.docs[n] = c.out
                                              /\ c.out \notin {NoLog, Unwritable}
      /\ failing = {} =>
            \A c \in repos : \E d \in repos : d.name = c.name /\ end.docs[c.name] = d.out
  <2> HIDE DEF repos
  <2>1. end.raised <=> \E c \in repos : c.out \in {Unwritable, Cut}
    BY <1>2, <1>3 DEF Done
  <2>2. ~end.raised => end.present = {c.name : c \in repos}
    BY <1>2, <1>3 DEF Done
  <2>3. \A n \in names : \/ end.docs[n] = docs[n]
                         \/ \E c \in repos : /\ c.name = n /\ end.docs[n] = c.out
                                             /\ c.out \notin {NoLog, Unwritable}
    BY <1>2, <1>3 DEF Done
  <2>4. ASSUME failing = {}, NEW c \in repos
        PROVE  \E d \in repos : d.name = c.name /\ end.docs[c.name] = d.out
    <3>1. \A i \in {j \in 1..N : children[j].repo} : children[i].out \notin {NoLog, Unwritable, Cut}
      BY <1>2, <2>4
    <3>2. PICK i \in {j \in 1..N : children[j].repo} : children[i] = c
      BY <1>2
    <3>3. PICK j \in {k \in 1..N : children[k].repo} : /\ children[j].name = children[i].name
                                                       /\ end.docs[children[i].name] = children[j].out
      BY <1>3, <3>1 DEF Done
    <3> QED BY <1>2, <3>2, <3>3
  <2> QED BY <2>1, <2>2, <2>3, <2>4
<1> HIDE DEF clean, listed
<1>6. \A n \in names : new[n] \in {docs[n], NoDoc} \cup {c.out : c \in repos}
  BY <1>4, <1>5
<1>7. ASSUME NEW n \in gone PROVE clean /\ n \notin end.present /\ n \in names
  <2>1. n \in names /\ docs[n] # NoDoc /\ new[n] = NoDoc
    BY <1>7
  <2>2. end.docs[n] # NoDoc
    <3>1. CASE end.docs[n] = docs[n]
      BY <2>1, <3>1
    <3>2. CASE \E c \in repos : end.docs[n] = c.out
      BY <1>2, <3>2
    <3> QED BY <1>5, <2>1, <3>1, <3>2
  <2> QED BY <1>4, <2>1, <2>2
<1>8. gone \cap {c.name : c \in repos} = {}
  BY <1>5, <1>7 DEF clean
<1>9. gone # {} => listed /\ \A c \in failing : c.out = NoLog
  BY <1>5, <1>7 DEF clean
<1>10. ASSUME NEW c \in failing, c.out = NoLog, \A d \in repos : d.name = c.name => d = c
       PROVE  new[c.name] = docs[c.name]
  <2>1. end.docs[c.name] = docs[c.name] /\ c.name \in names
    BY <1>2, <1>5, <1>10
  <2>2. clean => c.name \in end.present
    BY <1>5 DEF clean
  <2> QED BY <1>4, <2>1, <2>2
<1>11. ASSUME roots # <<>>, listed, failing = {}, NEW n \in names
       PROVE  LET mine == {c \in repos : c.name = n}
              IN  IF mine = {} THEN new[n] = NoDoc ELSE \E c \in mine : new[n] = c.out
  <2>1. clean /\ end.present = {c.name : c \in repos}
    BY <1>5, <1>11 DEF clean
  <2>2. CASE {c \in repos : c.name = n} = {}
    BY <1>4, <2>1, <2>2
  <2>3. CASE {c \in repos : c.name = n} # {}
    BY <1>4, <1>5, <1>11, <2>1, <2>3
  <2> QED BY <2>2, <2>3
<1> QED BY <1>6, <1>8, <1>9, <1>10, <1>11 DEF HistoriesKept, new, listed, children
-----------------------------------------------------------------------------
(***************************************************************************)
(* Texts.  The length of parts a to b, Span, is a difference of lengths of *)
(* initial segments; every state of the merging loop is that of some parts *)
(* pending (At), and the chunks done are made of ranges of parts, each     *)
(* linked to the next (Merging).                                           *)
(***************************************************************************)
\* The recursive function Lengths up to n.
IsLengths(splits, sep, n, g) ==
    g = [k \in 0..n |-> IF k = 0 THEN 0 ELSE g[k - 1] + splits[k].len + sep]

LEMMA LengthsStep ==
    ASSUME NEW S, NEW splits \in Seq(S), NEW sep
    PROVE  /\ Lengths(splits, sep)[0] = 0
           /\ \A n \in 1..Len(splits) :
                 Lengths(splits, sep)[n] = Lengths(splits, sep)[n - 1] + splits[n].len + sep
<1> DEFINE N == Len(splits)
           Some == {n \in Nat : \E g : IsLengths(splits, sep, n, g)}
<1>1. N \in Nat
  OBVIOUS
<1>2. 0 \in Some
  <2> DEFINE g == [k \in 0..0 |-> 0]
  <2>1. IsLengths(splits, sep, 0, g)
    BY DEF IsLengths
  <2> QED BY <2>1
<1>3. ASSUME NEW n \in 0..(N - 1), n \in Some PROVE n + 1 \in Some
  <2>1. PICK g : IsLengths(splits, sep, n, g)
    BY <1>3
  <2> DEFINE h == [k \in 0..(n + 1) |-> IF k = n + 1 THEN g[n] + splits[n + 1].len + sep ELSE g[k]]
  <2>2. ASSUME NEW k \in 0..(n + 1)
        PROVE  h[k] = IF k = 0 THEN 0 ELSE h[k - 1] + splits[k].len + sep
    <3>1. CASE k = n + 1
      <4>1. n \in 0..(n + 1) /\ n # n + 1 /\ n + 1 # 0 /\ (n + 1) - 1 = n
        BY <1>1
      <4>2. h[n] = g[n]
        BY <4>1
      <4> QED BY <3>1, <4>1, <4>2
    <3>2. CASE k # n + 1
      <4>1. k \in 0..n /\ (k # 0 => k - 1 \in 0..n /\ k - 1 \in 0..(n + 1) /\ k - 1 # n + 1)
        BY <3>2
      <4>2. g[k] = IF k = 0 THEN 0 ELSE g[k - 1] + splits[k].len + sep
        BY <2>1, <4>1 DEF IsLengths
      <4> QED BY <3>2, <4>1, <4>2
    <3> QED BY <3>1, <3>2
  <2>3. IsLengths(splits, sep, n + 1, h)
    BY <2>2 DEF IsLengths
  <2>4. n + 1 \in Nat
    BY <1>1
  <2> HIDE DEF h
  <2> QED BY <2>3, <2>4
<1>4. \E g : IsLengths(splits, sep, N, g)
  <2> HIDE DEF Some
  <2>1. \A n \in 0..N : n \in Some
    BY <1>1, <1>2, <1>3, AllUpTo
  <2> QED BY <1>1, <2>1 DEF Some
<1>5. Lengths(splits, sep) = CHOOSE g : IsLengths(splits, sep, N, g)
  BY DEF Lengths, IsLengths
<1>6. IsLengths(splits, sep, N, Lengths(splits, sep))
  BY <1>4, <1>5
<1>7. ASSUME NEW k \in 0..N
      PROVE  Lengths(splits, sep)[k] =
                IF k = 0 THEN 0 ELSE Lengths(splits, sep)[k - 1] + splits[k].len + sep
  BY <1>6 DEF IsLengths
<1>8. 0 \in 0..N /\ \A n \in 1..N : n \in 0..N /\ n # 0
  BY <1>1
<1> HIDE DEF N
<1> QED BY <1>7, <1>8 DEF N

\* The parts of a text that follow one another and fit a chunk.
PartsIn(S, splits) ==
    /\ splits \in Seq(S)
    /\ \A i \in 1..Len(splits) :
          /\ splits[i].from \in Int /\ splits[i].to \in Int /\ splits[i].from <= splits[i].to
          /\ splits[i].len \in Nat /\ splits[i].len <= CHUNK_SIZE
    /\ \A i \in 1..Len(splits) - 1 : splits[i + 1].from = splits[i].to + 1

LEMMA LengthsType ==
    ASSUME NEW S, NEW splits, PartsIn(S, splits), NEW sep \in Nat
    PROVE  \A n \in 0..Len(splits) : Lengths(splits, sep)[n] \in Nat
<1> DEFINE L == Lengths(splits, sep)
           All == {n \in 0..Len(splits) : L[n] \in Nat}
<1>1. splits \in Seq(S) /\ Len(splits) \in Nat
  BY DEF PartsIn
<1>2. L[0] = 0 /\ \A n \in 1..Len(splits) : L[n] = L[n - 1] + splits[n].len + sep
  BY <1>1, LengthsStep
<1> HIDE DEF L
<1>3. 0 \in All
  BY <1>1, <1>2
<1>4. ASSUME NEW n \in 0..(Len(splits) - 1), n \in All PROVE n + 1 \in All
  <2>1. n + 1 \in 1..Len(splits) /\ (n + 1) - 1 = n /\ n + 1 \in 0..Len(splits)
    BY <1>1
  <2>2. L[n + 1] = L[n] + splits[n + 1].len + sep
    BY <1>2, <2>1
  <2>3. splits[n + 1].len \in Nat
    BY <2>1 DEF PartsIn
  <2> QED BY <1>4, <2>1, <2>2, <2>3
<1> HIDE DEF All
<1>5. \A n \in 0..Len(splits) : n \in All
  BY <1>1, <1>3, <1>4, AllUpTo
<1> QED BY <1>5 DEF All, L

\* The length of neighboring parts.
LEMMA JoinedRange ==
    ASSUME NEW S, NEW splits, PartsIn(S, splits), NEW sep \in Nat,
           NEW a \in 1..Len(splits) + 1, NEW b \in a - 1..Len(splits)
    PROVE  Joined(SubSeq(splits, a, b), sep) =
              IF b < a THEN 0 ELSE Lengths(splits, sep)[b] - Lengths(splits, sep)[a - 1] - sep
<1> DEFINE L == Lengths(splits, sep)
           part == SubSeq(splits, a, b)
           M == Lengths(part, sep)
           All == {n \in 0..Len(part) : M[n] = L[a - 1 + n] - L[a - 1]}
<1>1. splits \in Seq(S) /\ Len(splits) \in Nat /\ a \in Nat /\ b \in Nat
  BY DEF PartsIn
<1>2. /\ part \in Seq(S) /\ Len(part) = b - a + 1 /\ Len(part) \in Nat
      /\ \A n \in 1..Len(part) : part[n] = splits[a - 1 + n]
  BY <1>1, SubSeqProperties
<1> HIDE DEF part
<1>3. L[0] = 0 /\ \A n \in 1..Len(splits) : L[n] = L[n - 1] + splits[n].len + sep
  BY <1>1, LengthsStep
<1>4. M[0] = 0 /\ \A n \in 1..Len(part) : M[n] = M[n - 1] + part[n].len + sep
  <2>1. part \in Seq(S)
    BY <1>2
  <2> QED BY <2>1, LengthsStep
<1>5. \A n \in 0..Len(splits) : L[n] \in Nat
  BY LengthsType
<1> HIDE DEF L, M
<1>6. 0 \in All
  BY <1>1, <1>2, <1>4, <1>5
<1>7. ASSUME NEW n \in 0..(Len(part) - 1), n \in All PROVE n + 1 \in All
  <2>1. /\ n + 1 \in 1..Len(part) /\ n + 1 \in 0..Len(part) /\ (n + 1) - 1 = n
        /\ a - 1 + (n + 1) \in 1..Len(splits) /\ (a - 1 + (n + 1)) - 1 = a - 1 + n
        /\ a - 1 + n \in 0..Len(splits) /\ a - 1 \in 0..Len(splits)
    BY <1>1, <1>2
  <2>2. M[n + 1] = M[n] + splits[a - 1 + (n + 1)].len + sep
    BY <1>2, <1>4, <2>1
  <2>3. L[a - 1 + (n + 1)] = L[a - 1 + n] + splits[a - 1 + (n + 1)].len + sep
    BY <1>3, <2>1
  <2>4. splits[a - 1 + (n + 1)].len \in Nat
    BY <2>1 DEF PartsIn
  <2>5. M[n] = L[a - 1 + n] - L[a - 1] /\ L[a - 1 + n] \in Nat /\ L[a - 1] \in Nat
    BY <1>5, <1>7, <2>1
  <2>6. M[n + 1] = L[a - 1 + (n + 1)] - L[a - 1]
    <3> DEFINE x == L[a - 1 + n]
               y == L[a - 1]
               l == splits[a - 1 + (n + 1)].len
    <3>1. M[n + 1] = (x - y) + l + sep /\ L[a - 1 + (n + 1)] = x + l + sep
      BY <2>2, <2>3, <2>5
    <3>2. x \in Nat /\ y \in Nat /\ l \in Nat
      BY <2>4, <2>5
    <3> HIDE DEF x, y, l
    <3>3. (x - y) + l + sep = (x + l + sep) - y
      BY <3>2
    <3>4. L[a - 1] = y
      BY DEF y
    <3> QED BY <3>1, <3>3, <3>4
  <2> QED BY <2>1, <2>6
<1>8. M[Len(part)] = L[b] - L[a - 1]
  <2> HIDE DEF All
  <2>1. \A n \in 0..Len(part) : n \in All
    BY <1>2, <1>6, <1>7, AllUpTo
  <2>2. a - 1 + Len(part) = b /\ Len(part) \in 0..Len(part)
    BY <1>1, <1>2
  <2> QED BY <2>1, <2>2 DEF All
<1>9. part = <<>> <=> b < a
  BY <1>1, <1>2, EmptySeq
<1> QED BY <1>8, <1>9 DEF Joined, part, L, M

\* The length of the parts a to b.
Span(splits, sep, a, b) ==
    IF b < a THEN 0 ELSE Lengths(splits, sep)[b] - Lengths(splits, sep)[a - 1] - sep

LEMMA SpanSteps ==
    ASSUME NEW S, NEW splits, PartsIn(S, splits), NEW sep \in Nat,
           NEW a \in 1..Len(splits) + 1, NEW b \in a - 1..Len(splits)
    PROVE  /\ b < a => Span(splits, sep, a, b) = 0
           /\ b < Len(splits) => Span(splits, sep, a, b + 1) =
                 Span(splits, sep, a, b) + splits[b + 1].len + IF a <= b THEN sep ELSE 0
           /\ a <= b => Span(splits, sep, a, b) =
                 Span(splits, sep, a + 1, b) + splits[a].len + IF a < b THEN sep ELSE 0
<1> DEFINE L == Lengths(splits, sep)
<1>1. splits \in Seq(S) /\ Len(splits) \in Nat /\ a \in Nat /\ b \in Nat
  BY DEF PartsIn
<1>2. L[0] = 0 /\ \A n \in 1..Len(splits) : L[n] = L[n - 1] + splits[n].len + sep
  BY <1>1, LengthsStep
<1>3. \A n \in 0..Len(splits) : L[n] \in Nat
  BY LengthsType
<1> HIDE DEF L
<1>4. ASSUME b < Len(splits)
      PROVE  Span(splits, sep, a, b + 1) =
                Span(splits, sep, a, b) + splits[b + 1].len + IF a <= b THEN sep ELSE 0
  <2> DEFINE x == L[b]
             y == L[a - 1]
             l == splits[b + 1].len
  <2>1. b + 1 \in 1..Len(splits) /\ b \in 0..Len(splits) /\ a - 1 \in 0..Len(splits)
        /\ (b + 1) - 1 = b /\ ~(b + 1 < a) /\ (b < a <=> ~(a <= b)) /\ (b < a => b = a - 1)
    BY <1>1, <1>4
  <2>2. x \in Nat /\ y \in Nat /\ l \in Nat /\ L[b + 1] = x + l + sep
    BY <1>2, <1>3, <2>1 DEF PartsIn
  <2>3. b < a => x = y
    BY <2>1
  <2>4. /\ Span(splits, sep, a, b + 1) = L[b + 1] - y - sep
        /\ Span(splits, sep, a, b) = IF b < a THEN 0 ELSE x - y - sep
    BY <2>1 DEF Span, L
  <2> HIDE DEF x, y, l
  <2>5. Span(splits, sep, a, b + 1) = (x + l + sep) - y - sep
    BY <2>2, <2>4
  <2>6. Span(splits, sep, a, b + 1) = Span(splits, sep, a, b) + l + IF a <= b THEN sep ELSE 0
    BY <2>1, <2>2, <2>3, <2>4, <2>5
  <2> QED BY <2>6 DEF l
<1>5. ASSUME a <= b
      PROVE  Span(splits, sep, a, b) =
                Span(splits, sep, a + 1, b) + splits[a].len + IF a < b THEN sep ELSE 0
  <2> DEFINE x == L[b]
             y == L[a - 1]
             z == L[a]
             l == splits[a].len
  <2>1. a \in 1..Len(splits) /\ b \in 0..Len(splits) /\ a \in 0..Len(splits)
        /\ a - 1 \in 0..Len(splits) /\ (a + 1) - 1 = a /\ ~(b < a) /\ (b < a + 1 <=> b = a)
        /\ (a < b <=> b # a)
    BY <1>1, <1>5
  <2>2. x \in Nat /\ y \in Nat /\ z \in Nat /\ l \in Nat /\ z = y + l + sep
    BY <1>2, <1>3, <2>1 DEF PartsIn
  <2>3. b = a => x = z
    OBVIOUS
  <2>4. /\ Span(splits, sep, a, b) = x - y - sep
        /\ Span(splits, sep, a + 1, b) = IF b = a THEN 0 ELSE x - z - sep
    BY <2>1 DEF Span, L
  <2> HIDE DEF x, y, z, l
  <2>5. Span(splits, sep, a, b) = Span(splits, sep, a + 1, b) + l + IF a < b THEN sep ELSE 0
    BY <2>1, <2>2, <2>3, <2>4
  <2> QED BY <2>5 DEF l
<1>6. b < a => Span(splits, sep, a, b) = 0
  BY DEF Span
<1> QED BY <1>4, <1>5, <1>6

LEMMA SpanNat ==
    ASSUME NEW S, NEW splits, PartsIn(S, splits), NEW sep \in Nat,
           NEW a \in 1..Len(splits) + 1, NEW b \in a - 1..Len(splits)
    PROVE  Span(splits, sep, a, b) \in Nat
<1> DEFINE N == Len(splits)
           All == {k \in 0..(N + 1 - a) : Span(splits, sep, a, a - 1 + k) \in Nat}
<1>1. N \in Nat /\ a \in Nat /\ b \in Nat /\ N + 1 - a \in Nat
  BY DEF PartsIn
<1>2. 0 \in All
  <2>1. a - 1 + 0 = a - 1 /\ a - 1 < a /\ a - 1 \in a - 1..Len(splits)
    BY <1>1
  <2>2. Span(splits, sep, a, a - 1) = 0
    BY <2>1, SpanSteps
  <2> QED BY <1>1, <2>1, <2>2
<1>3. ASSUME NEW k \in 0..(N + 1 - a) - 1, k \in All PROVE k + 1 \in All
  <2> DEFINE m == a - 1 + k
  <2>1. m \in a - 1..Len(splits) /\ m < Len(splits) /\ m + 1 \in 1..Len(splits)
        /\ a - 1 + (k + 1) = m + 1 /\ k + 1 \in 0..(N + 1 - a)
    BY <1>1
  <2>2. Span(splits, sep, a, m) \in Nat
    BY <1>3
  <2> HIDE DEF m
  <2>3. Span(splits, sep, a, m + 1) =
           Span(splits, sep, a, m) + splits[m + 1].len + IF a <= m THEN sep ELSE 0
    BY <2>1, SpanSteps
  <2>4. splits[m + 1].len \in Nat
    BY <2>1 DEF PartsIn
  <2> DEFINE gap == IF a <= m THEN sep ELSE 0
  <2>5. gap \in Nat /\ Span(splits, sep, a, m + 1) = Span(splits, sep, a, m) + splits[m + 1].len + gap
    BY <2>3
  <2> DEFINE x == Span(splits, sep, a, m)
             l == splits[m + 1].len
  <2> HIDE DEF gap
  <2>6. Span(splits, sep, a, m + 1) \in Nat
    <3>1. Span(splits, sep, a, m + 1) = x + l + gap /\ x \in Nat /\ l \in Nat /\ gap \in Nat
      BY <2>2, <2>4, <2>5
    <3> HIDE DEF x, l
    <3> QED BY <3>1
  <2> QED BY <2>1, <2>6
<1> HIDE DEF All
<1>4. \A k \in 0..(N + 1 - a) : k \in All
  BY <1>1, <1>2, <1>3, AllUpTo
<1>5. b - a + 1 \in 0..(N + 1 - a) /\ a - 1 + (b - a + 1) = b
  BY <1>1
<1> QED BY <1>4, <1>5 DEF All

\* The state of the loop when parts a to b are pending.
At(splits, sep, done, a, b) ==
    [chunks |-> done, current |-> SubSeq(splits, a, b), len |-> Span(splits, sep, a, b)]

\* What is pending.
LEMMA PendingParts ==
    ASSUME NEW S, NEW splits, PartsIn(S, splits),
           NEW a \in 1..Len(splits) + 1, NEW b \in a - 1..Len(splits)
    PROVE  /\ SubSeq(splits, a, b) \in Seq(S)
           /\ Len(SubSeq(splits, a, b)) = b - a + 1 /\ Len(SubSeq(splits, a, b)) \in Nat
           /\ \A n \in 1..Len(SubSeq(splits, a, b)) : SubSeq(splits, a, b)[n] = splits[a - 1 + n]
<1>1. splits \in Seq(S) /\ Len(splits) \in Nat /\ a \in Nat /\ b \in Nat
  BY DEF PartsIn
<1> QED BY <1>1, SubSeqProperties

LEMMA PendingNone ==
    ASSUME NEW S, NEW splits, PartsIn(S, splits),
           NEW a \in 1..Len(splits) + 1, NEW b \in a - 1..Len(splits)
    PROVE  SubSeq(splits, a, b) = <<>> <=> b < a
<1> DEFINE part == SubSeq(splits, a, b)
<1>1. Len(splits) \in Nat /\ a \in Nat /\ b \in Nat
  BY DEF PartsIn
<1>2. part \in Seq(S) /\ Len(part) = b - a + 1
  BY PendingParts
<1> HIDE DEF part
<1>3. part = <<>> <=> b < a
  BY <1>1, <1>2, EmptySeq
<1> QED BY <1>3 DEF part

LEMMA PendingEnds ==
    ASSUME NEW S, NEW splits, PartsIn(S, splits),
           NEW a \in 1..Len(splits), NEW b \in a..Len(splits)
    PROVE  /\ SubSeq(splits, a, b)[1] = splits[a]
           /\ Head(SubSeq(splits, a, b)) = splits[a]
           /\ Tail(SubSeq(splits, a, b)) = SubSeq(splits, a + 1, b)
           /\ Last(SubSeq(splits, a, b)) = splits[b]
<1> DEFINE part == SubSeq(splits, a, b)
<1>1. splits \in Seq(S) /\ Len(splits) \in Nat /\ a \in Nat /\ b \in Nat
  BY DEF PartsIn
<1>2. a \in 1..Len(splits) + 1 /\ b \in a - 1..Len(splits)
  BY <1>1
<1>3. Len(part) = b - a + 1 /\ \A n \in 1..Len(part) : part[n] = splits[a - 1 + n]
  BY <1>2, PendingParts
<1>4. 1 \in 1..Len(part) /\ a - 1 + 1 = a /\ Len(part) \in 1..Len(part) /\ a - 1 + Len(part) = b
  BY <1>1, <1>3
<1>5. part[1] = splits[a] /\ Last(part) = splits[b]
  BY <1>3, <1>4 DEF Last
<1>6. Head(part) = splits[a] /\ Tail(part) = SubSeq(splits, a + 1, b)
  BY <1>1, HeadTailOfSubSeq
<1> QED BY <1>5, <1>6

LEMMA PendingAppend ==
    ASSUME NEW S, NEW splits, PartsIn(S, splits),
           NEW a \in 1..Len(splits), NEW b \in a - 1..Len(splits) - 1
    PROVE  Append(SubSeq(splits, a, b), splits[b + 1]) = SubSeq(splits, a, b + 1)
<1> DEFINE part == SubSeq(splits, a, b)
           more == SubSeq(splits, a, b + 1)
           new == Append(part, splits[b + 1])
<1>1. splits \in Seq(S) /\ Len(splits) \in Nat /\ a \in Nat /\ b \in Nat
  BY DEF PartsIn
<1>2. a \in 1..Len(splits) + 1 /\ b \in a - 1..Len(splits) /\ b + 1 \in a - 1..Len(splits)
      /\ b + 1 \in 1..Len(splits)
  BY <1>1
<1>3. /\ part \in Seq(S) /\ Len(part) = b - a + 1 /\ Len(part) \in Nat
      /\ \A n \in 1..Len(part) : part[n] = splits[a - 1 + n]
  BY <1>2, PendingParts
<1>4. /\ more \in Seq(S) /\ Len(more) = b + 1 - a + 1
      /\ \A n \in 1..Len(more) : more[n] = splits[a - 1 + n]
  BY <1>2, PendingParts
<1>5. splits[b + 1] \in S
  BY <1>1, <1>2
<1> HIDE DEF part, more
<1>6. /\ new \in Seq(S) /\ Len(new) = Len(part) + 1
      /\ \A n \in 1..Len(part) : new[n] = part[n]
      /\ new[Len(part) + 1] = splits[b + 1]
  <2>1. new \in Seq(S) /\ Len(new) = Len(part) + 1
    BY <1>3, <1>5, AppendProperties
  <2>2. \A n \in 1..Len(part) : new[n] = part[n]
    BY <1>3, <1>5, AppendProperties
  <2>3. new[Len(part) + 1] = splits[b + 1]
    BY <1>3, <1>5, AppendProperties
  <2> QED BY <2>1, <2>2, <2>3
<1>7. Len(more) = Len(part) + 1 /\ a - 1 + (Len(part) + 1) = b + 1
  BY <1>1, <1>3, <1>4
<1> HIDE DEF new
<1>8. ASSUME NEW n \in 1..Len(new) PROVE new[n] = more[n]
  <2>1. CASE n = Len(part) + 1
    BY <1>4, <1>6, <1>7, <2>1
  <2>2. CASE n # Len(part) + 1
    <3>1. n \in 1..Len(part) /\ n \in 1..Len(more)
      BY <1>3, <1>6, <1>7, <2>2
    <3> QED BY <1>3, <1>4, <1>6, <3>1
  <2> QED BY <2>1, <2>2
<1>9. new = more
  BY <1>4, <1>6, <1>7, <1>8, SeqEqual
<1> QED BY <1>9 DEF new, more, part

LEMMA ChunkAt ==
    ASSUME NEW S, NEW splits, PartsIn(S, splits), NEW sep \in Nat,
           NEW a \in 1..Len(splits), NEW b \in a..Len(splits)
    PROVE  Chunk(SubSeq(splits, a, b), sep) =
              [from |-> splits[a].from, to |-> splits[b].to, len |-> Span(splits, sep, a, b)]
<1>1. Len(splits) \in Nat
  BY DEF PartsIn
<1>2. a \in 1..Len(splits) + 1 /\ b \in a - 1..Len(splits) /\ a <= b
  BY <1>1
<1>3. SubSeq(splits, a, b)[1] = splits[a] /\ Last(SubSeq(splits, a, b)) = splits[b]
  BY PendingEnds
<1>4. Joined(SubSeq(splits, a, b), sep) = Span(splits, sep, a, b)
  BY <1>2, JoinedRange DEF Span
<1> QED BY <1>3, <1>4 DEF Chunk

\* Dropping the first part that is pending leaves the state of the others.
LEMMA DropAt ==
    ASSUME NEW S, NEW splits, PartsIn(S, splits), NEW sep \in Nat, NEW done,
           NEW a \in 1..Len(splits), NEW b \in a..Len(splits)
    PROVE  Drop(At(splits, sep, done, a, b), sep) = At(splits, sep, done, a + 1, b)
<1> DEFINE st == At(splits, sep, done, a, b)
           x == Span(splits, sep, a, b)
           y == Span(splits, sep, a + 1, b)
           l == splits[a].len
           gap == IF a < b THEN sep ELSE 0
<1>1. Len(splits) \in Nat /\ a \in Nat /\ b \in Nat /\ l \in Nat
  BY DEF PartsIn
<1>2. a \in 1..Len(splits) + 1 /\ b \in a - 1..Len(splits) /\ a <= b
      /\ a + 1 \in 1..Len(splits) + 1 /\ b \in (a + 1) - 1..Len(splits)
  BY <1>1
<1>3. /\ Tail(st.current) = SubSeq(splits, a + 1, b) /\ Head(st.current) = splits[a]
      /\ Len(st.current) = b - a + 1
  BY <1>2, PendingParts, PendingEnds DEF At
<1>4. Len(st.current) > 1 <=> a < b
  BY <1>1, <1>3
<1>5. x = y + l + gap /\ x \in Nat /\ y \in Nat /\ gap \in Nat
  BY <1>2, SpanSteps, SpanNat
<1>6. Drop(st, sep) = [chunks |-> done, current |-> Tail(st.current),
                       len |-> x - Head(st.current).len - IF Len(st.current) > 1 THEN sep ELSE 0]
  <2> DEFINE current == SubSeq(splits, a, b)
  <2>1. st = [chunks |-> done, current |-> current, len |-> x]
    BY DEF At
  <2> HIDE DEF st, x, current
  <2> DEFINE rest == Tail(st.current)
             len == x - Head(st.current).len - IF Len(st.current) > 1 THEN sep ELSE 0
  <2>2. Drop(st, sep) = [st EXCEPT !.current = rest, !.len = len]
    BY <2>1 DEF Drop
  <2> HIDE DEF rest, len
  <2>3. Drop(st, sep) = [chunks |-> done, current |-> rest, len |-> len]
    BY <2>1, <2>2
  <2> QED BY <2>3 DEF rest, len
<1>7. Drop(st, sep) = [chunks |-> done, current |-> SubSeq(splits, a + 1, b), len |-> x - l - gap]
  BY <1>3, <1>4, <1>6
<1>8. x - l - gap = y
  <2> HIDE DEF x, y, l, gap
  <2> QED BY <1>1, <1>5
<1> QED BY <1>7, <1>8 DEF At

\* The loop that drops, turn by turn.
IsDrops(st, sep, n, g) ==
    g = [k \in 0..n |->
            IF k = 0 THEN st
            ELSE IF g[k - 1].current # <<>> /\ g[k - 1].len > CHUNK_OVERLAP
                 THEN Drop(g[k - 1], sep) ELSE g[k - 1]]

LEMMA DropsExist ==
    ASSUME NEW st, NEW sep, NEW N \in Nat
    PROVE  \E g : IsDrops(st, sep, N, g)
<1> DEFINE Some == {n \in Nat : \E g : IsDrops(st, sep, n, g)}
           Turn(prev) == IF prev.current # <<>> /\ prev.len > CHUNK_OVERLAP
                         THEN Drop(prev, sep) ELSE prev
<1>1. 0 \in Some
  <2> DEFINE g == [k \in 0..0 |-> st]
  <2>1. IsDrops(st, sep, 0, g)
    BY DEF IsDrops
  <2> QED BY <2>1
<1>2. ASSUME NEW n \in 0..(N - 1), n \in Some PROVE n + 1 \in Some
  <2>1. PICK g : IsDrops(st, sep, n, g)
    BY <1>2
  <2> DEFINE h == [k \in 0..(n + 1) |-> IF k = n + 1 THEN Turn(g[n]) ELSE g[k]]
  <2> HIDE DEF Turn
  <2>2. ASSUME NEW k \in 0..(n + 1) PROVE h[k] = IF k = 0 THEN st ELSE Turn(h[k - 1])
    <3>1. CASE k = n + 1
      <4>1. n \in 0..(n + 1) /\ n # n + 1 /\ n + 1 # 0 /\ (n + 1) - 1 = n
        OBVIOUS
      <4>2. h[n] = g[n]
        BY <4>1
      <4> QED BY <3>1, <4>1, <4>2
    <3>2. CASE k # n + 1
      <4>1. k \in 0..n /\ (k # 0 => k - 1 \in 0..n /\ k - 1 \in 0..(n + 1) /\ k - 1 # n + 1)
        BY <3>2
      <4>2. g[k] = IF k = 0 THEN st ELSE Turn(g[k - 1])
        BY <2>1, <4>1 DEF IsDrops, Turn
      <4> QED BY <3>2, <4>1, <4>2
    <3> QED BY <3>1, <3>2
  <2>3. IsDrops(st, sep, n + 1, h)
    BY <2>2 DEF IsDrops, Turn
  <2>4. n + 1 \in Nat
    OBVIOUS
  <2> HIDE DEF h
  <2> QED BY <2>3, <2>4
<1> HIDE DEF Some
<1>3. \A n \in 0..N : n \in Some
  BY <1>1, <1>2, AllUpTo
<1> QED BY <1>3 DEF Some

\* What it leaves pending is the longest that fits the overlap.
LEMMA OverlapAt ==
    ASSUME NEW S, NEW splits, PartsIn(S, splits), NEW sep \in Nat, NEW done,
           NEW a \in 1..Len(splits), NEW b \in a..Len(splits)
    PROVE  \E c \in a..b + 1 :
              /\ Overlap(At(splits, sep, done, a, b), sep) = At(splits, sep, done, c, b)
              /\ Span(splits, sep, c, b) <= CHUNK_OVERLAP
              /\ c > a => Span(splits, sep, c - 1, b) > CHUNK_OVERLAP
<1> DEFINE st == At(splits, sep, done, a, b)
           N == b - a + 1
           Long(c) == Span(splits, sep, c, b) > CHUNK_OVERLAP
           After(k) == CHOOSE g : IsDrops(st, sep, N, g)
<1>1. Len(splits) \in Nat /\ a \in Nat /\ b \in Nat /\ N \in Nat /\ CHUNK_OVERLAP \in Nat
  BY WindowsAssumption DEF PartsIn
<1>2. a \in 1..Len(splits) + 1 /\ b \in a - 1..Len(splits)
  BY <1>1
<1>3. Len(st.current) = N
  BY <1>2, PendingParts DEF At
<1>4. PICK g : IsDrops(st, sep, N, g) /\ Overlap(st, sep) = g[N]
  <2> DEFINE after == CHOOSE g : IsDrops(st, sep, N, g)
  <2>1. IsDrops(st, sep, N, after)
    BY <1>1, DropsExist
  <2>2. Overlap(st, sep) = after[N]
    BY <1>3 DEF Overlap, IsDrops
  <2> HIDE DEF after
  <2> QED BY <2>1, <2>2
<1>5. /\ g[0] = st
      /\ \A k \in 1..N : g[k] = IF g[k - 1].current # <<>> /\ g[k - 1].len > CHUNK_OVERLAP
                                THEN Drop(g[k - 1], sep) ELSE g[k - 1]
  <2>1. 0 \in 0..N /\ \A k \in 1..N : k \in 0..N /\ k # 0
    BY <1>1
  <2> HIDE DEF st, N
  <2>2. \A k \in 0..N : g[k] = IF k = 0 THEN st
            ELSE IF g[k - 1].current # <<>> /\ g[k - 1].len > CHUNK_OVERLAP
                 THEN Drop(g[k - 1], sep) ELSE g[k - 1]
    BY <1>4 DEF IsDrops
  <2> QED BY <2>1, <2>2
<1> DEFINE Good(k, c) == /\ g[k] = At(splits, sep, done, c, b)
                         /\ c > a => Long(c - 1)
                         /\ Long(c) => c = a + k
           All == {k \in 0..N : \E c \in a..b + 1 : Good(k, c)}
<1>6. 0 \in All
  <2>1. a \in a..b + 1 /\ ~(a > a) /\ a = a + 0 /\ 0 \in 0..N
    BY <1>1
  <2> QED BY <1>5, <2>1
<1>7. ASSUME NEW k \in 0..(N - 1), k \in All PROVE k + 1 \in All
  <2>1. PICK c \in a..b + 1 : Good(k, c)
    BY <1>7
  <2>2. k + 1 \in 1..N /\ (k + 1) - 1 = k /\ k + 1 \in 0..N /\ a + k <= b /\ c \in Nat
    BY <1>1
  <2>3. c \in 1..Len(splits) + 1 /\ b \in c - 1..Len(splits)
    BY <1>1, <2>2
  <2>4. g[k].len = Span(splits, sep, c, b) /\ (g[k].current = <<>> <=> b < c)
    <3>1. g[k].len = Span(splits, sep, c, b) /\ g[k].current = SubSeq(splits, c, b)
      BY <2>1 DEF At
    <3>2. SubSeq(splits, c, b) = <<>> <=> b < c
      BY <2>3, PendingNone
    <3> QED BY <3>1, <3>2
  <2>5. b < c => Span(splits, sep, c, b) = 0
    BY <2>3, SpanSteps
  <2>6. Span(splits, sep, c, b) \in Nat
    BY <2>3, SpanNat
  <2>7. CASE Long(c)
    <3>1. c \in 1..Len(splits) /\ b \in c..Len(splits) /\ c <= b /\ c + 1 \in a..b + 1
          /\ (c + 1) - 1 = c /\ c + 1 = a + (k + 1)
      BY <1>1, <2>1, <2>2, <2>7
    <3>2. g[k + 1] = Drop(g[k], sep)
      BY <1>5, <2>2, <2>4, <2>7, <3>1
    <3>3. g[k + 1] = At(splits, sep, done, c + 1, b)
      BY <2>1, <3>1, <3>2, DropAt
    <3>4. Good(k + 1, c + 1)
      BY <2>7, <3>1, <3>3
    <3> HIDE DEF Good
    <3> QED BY <2>2, <3>1, <3>4
  <2>8. CASE ~Long(c)
    <3>1. g[k + 1] = g[k]
      BY <1>5, <2>2, <2>4, <2>8
    <3>2. Good(k + 1, c)
      BY <2>1, <2>8, <3>1
    <3> HIDE DEF Good
    <3> QED BY <2>2, <3>2
  <2> QED BY <2>7, <2>8
<1>8. N \in All
  <2> HIDE DEF All
  <2>1. \A k \in 0..N : k \in All
    BY <1>1, <1>6, <1>7, AllUpTo
  <2>2. N \in 0..N
    BY <1>1
  <2> QED BY <2>1, <2>2
<1>9. PICK c \in a..b + 1 : Good(N, c)
  BY <1>8
<1>10. c \in 1..Len(splits) + 1 /\ b \in c - 1..Len(splits) /\ (c = a + N => b < c)
  BY <1>1
<1>11. Span(splits, sep, c, b) \in Nat /\ (b < c => Span(splits, sep, c, b) = 0)
  BY <1>10, SpanNat, SpanSteps
<1>12. ~Long(c)
  BY <1>1, <1>9, <1>10, <1>11
<1>13. Span(splits, sep, c, b) <= CHUNK_OVERLAP
  BY <1>1, <1>11, <1>12
<1> QED BY <1>4, <1>9, <1>13

\* The next part becomes the last that is pending.
LEMMA PushAt ==
    ASSUME NEW S, NEW splits, PartsIn(S, splits), NEW sep \in Nat, NEW done,
           NEW a \in 1..Len(splits), NEW b \in a - 1..Len(splits) - 1, NEW st,
           st = At(splits, sep, done, a, b)
    PROVE  [chunks |-> st.chunks, current |-> Append(st.current, splits[b + 1]),
            len |-> st.len + splits[b + 1].len
                      + IF Len(Append(st.current, splits[b + 1])) > 1 THEN sep ELSE 0]
              = At(splits, sep, done, a, b + 1)
<1> DEFINE new == Append(st.current, splits[b + 1])
           x == Span(splits, sep, a, b)
           l == splits[b + 1].len
           gap == IF a <= b THEN sep ELSE 0
<1>1. Len(splits) \in Nat /\ a \in Nat /\ b \in Nat
  BY DEF PartsIn
<1>2. a \in 1..Len(splits) + 1 /\ b \in a - 1..Len(splits) /\ b < Len(splits)
      /\ b + 1 \in a - 1..Len(splits)
  BY <1>1
<1>3. new = SubSeq(splits, a, b + 1)
  <2>1. st.current = SubSeq(splits, a, b)
    BY DEF At
  <2>2. Append(SubSeq(splits, a, b), splits[b + 1]) = SubSeq(splits, a, b + 1)
    BY PendingAppend
  <2> QED BY <2>1, <2>2
<1>4. Len(new) > 1 <=> a <= b
  <2>1. Len(SubSeq(splits, a, b + 1)) = b + 1 - a + 1
    BY <1>2, PendingParts
  <2> HIDE DEF new
  <2> QED BY <1>1, <1>3, <2>1
<1>5. Span(splits, sep, a, b + 1) = x + l + gap
  BY <1>2, SpanSteps
<1>6. st.len = x /\ st.chunks = done
  BY DEF At
<1> HIDE DEF new, x, l
<1>7. [chunks |-> st.chunks, current |-> new, len |-> st.len + l + IF Len(new) > 1 THEN sep ELSE 0]
        = [chunks |-> done, current |-> SubSeq(splits, a, b + 1), len |-> x + l + gap]
  BY <1>3, <1>4, <1>6
<1> QED BY <1>5, <1>7 DEF At, new, l

\* A part that fits becomes the last that is pending; otherwise a chunk is done, and the
\* part follows the overlap.
LEMMA AddAt ==
    ASSUME NEW S, NEW splits, PartsIn(S, splits), NEW sep \in Nat, NEW done,
           NEW a \in 1..Len(splits), NEW b \in a..Len(splits) - 1
    PROVE  LET st == Add(At(splits, sep, done, a, b), splits[b + 1], sep)
           IN  \/ /\ st = At(splits, sep, done, a, b + 1)
                  /\ Span(splits, sep, a, b + 1) <= CHUNK_SIZE
               \/ \E c \in a..b + 1 :
                     /\ st = At(splits, sep, Append(done, Chunk(SubSeq(splits, a, b), sep)), c, b + 1)
                     /\ Span(splits, sep, c, b + 1) <= CHUNK_SIZE + CHUNK_OVERLAP + sep
                     /\ Span(splits, sep, c, b) <= CHUNK_OVERLAP
                     /\ c > a => Span(splits, sep, c - 1, b) > CHUNK_OVERLAP
<1> DEFINE st == At(splits, sep, done, a, b)
           split == splits[b + 1]
           more == Append(done, Chunk(SubSeq(splits, a, b), sep))
           cut == [st EXCEPT !.chunks = Append(@, Chunk(st.current, sep))]
           full == st.current # <<>>
                     /\ st.len + (split.len + IF st.current # <<>> THEN sep ELSE 0) > CHUNK_SIZE
           kept == IF full THEN Overlap(cut, sep) ELSE st
<1>1. Len(splits) \in Nat /\ a \in Nat /\ b \in Nat /\ CHUNK_SIZE \in Nat /\ CHUNK_OVERLAP \in Nat
  BY WindowsAssumption DEF PartsIn
<1>2. a \in 1..Len(splits) + 1 /\ b \in a - 1..Len(splits) /\ b < Len(splits) /\ a <= b
      /\ b + 1 \in a - 1..Len(splits) /\ b \in a - 1..Len(splits) - 1 /\ b \in a..Len(splits)
      /\ b + 1 \in 1..Len(splits)
  BY <1>1
<1>3. split.len \in Nat /\ split.len <= CHUNK_SIZE
  BY <1>2 DEF PartsIn
<1>4. st.current = SubSeq(splits, a, b) /\ st.len = Span(splits, sep, a, b)
  BY DEF At
<1>5. st.current # <<>>
  BY <1>1, <1>2, <1>4, PendingNone
<1>6. Span(splits, sep, a, b) \in Nat
  BY <1>2, SpanNat
<1>7. Span(splits, sep, a, b + 1) = Span(splits, sep, a, b) + split.len + sep
  BY <1>2, SpanSteps
<1>8. Add(st, split, sep) =
        [chunks |-> kept.chunks, current |-> Append(kept.current, split),
         len |-> kept.len + split.len + IF Len(Append(kept.current, split)) > 1 THEN sep ELSE 0]
  BY DEF Add
<1> HIDE DEF split
<1>9. CASE ~full
  <2>1. Span(splits, sep, a, b + 1) <= CHUNK_SIZE
    <3> DEFINE x == Span(splits, sep, a, b)
               l == split.len
    <3>1. ~(x + (l + sep) > CHUNK_SIZE)
      <4>1. ~(st.len + (split.len + IF st.current # <<>> THEN sep ELSE 0) > CHUNK_SIZE)
        BY <1>5, <1>9
      <4> HIDE DEF st
      <4> QED BY <1>4, <1>5, <4>1
    <3>2. x \in Nat /\ l \in Nat
      BY <1>3, <1>6
    <3> HIDE DEF x, l
    <3>3. x + l + sep <= CHUNK_SIZE
      BY <1>1, <3>1, <3>2
    <3> QED BY <1>7, <3>3 DEF x, l
  <2>2. kept = st
    BY <1>9
  <2> HIDE DEF kept, st
  <2>3. st = At(splits, sep, done, a, b)
    BY DEF st
  <2>4. Add(st, split, sep) = At(splits, sep, done, a, b + 1)
    BY <1>2, <1>8, <2>2, <2>3, PushAt DEF split
  <2> QED BY <2>1, <2>4 DEF st, split
<1>10. CASE full
  <2>1. cut = At(splits, sep, more, a, b)
    <3> DEFINE current == SubSeq(splits, a, b)
               x == Span(splits, sep, a, b)
    <3>1. st = [chunks |-> done, current |-> current, len |-> x]
      BY DEF At
    <3>2. cut = [st EXCEPT !.chunks = more]
      <4>1. st.chunks = done /\ st.current = current
        BY <3>1
      <4> HIDE DEF st
      <4> QED BY <4>1
    <3> HIDE DEF st, cut, more, current, x
    <3>3. cut = [chunks |-> more, current |-> current, len |-> x]
      BY <3>1, <3>2
    <3> QED BY <3>3 DEF At, current, x
  <2>2. PICK c \in a..b + 1 :
           /\ Overlap(cut, sep) = At(splits, sep, more, c, b)
           /\ Span(splits, sep, c, b) <= CHUNK_OVERLAP
           /\ c > a => Span(splits, sep, c - 1, b) > CHUNK_OVERLAP
    BY <1>2, <2>1, OverlapAt
  <2>3. kept = At(splits, sep, more, c, b)
    BY <1>10, <2>2
  <2>4. c \in 1..Len(splits) /\ b \in c - 1..Len(splits) - 1 /\ c \in 1..Len(splits) + 1
        /\ b \in c - 1..Len(splits)
    BY <1>1
  <2> HIDE DEF kept, st, more
  <2>5. Add(st, split, sep) = At(splits, sep, more, c, b + 1)
    BY <1>8, <2>3, <2>4, PushAt DEF split
  <2>6. Span(splits, sep, c, b + 1) <= CHUNK_SIZE + CHUNK_OVERLAP + sep
    <3> DEFINE x == Span(splits, sep, c, b)
               l == split.len
               gap == IF c <= b THEN sep ELSE 0
    <3>1. Span(splits, sep, c, b + 1) = x + l + gap
      BY <1>2, <2>4, SpanSteps DEF split
    <3>2. x \in Nat /\ l \in Nat /\ x <= CHUNK_OVERLAP /\ l <= CHUNK_SIZE
      BY <1>3, <2>2, <2>4, SpanNat
    <3> HIDE DEF x, l
    <3>3. x + l + gap <= CHUNK_SIZE + CHUNK_OVERLAP + sep
      BY <1>1, <3>2
    <3> QED BY <3>1, <3>3
  <2> QED BY <2>2, <2>5, <2>6 DEF st, split, more
<1> QED BY <1>9, <1>10

\* The first part begins what is pending.
LEMMA AddFirst ==
    ASSUME NEW S, NEW splits, PartsIn(S, splits), NEW sep \in Nat, Len(splits) >= 1
    PROVE  /\ Add([chunks |-> <<>>, current |-> <<>>, len |-> 0], splits[1], sep)
                = At(splits, sep, <<>>, 1, 1)
           /\ Span(splits, sep, 1, 1) <= CHUNK_SIZE
<1> DEFINE st == [chunks |-> <<>>, current |-> <<>>, len |-> 0]
<1>1. Len(splits) \in Nat /\ 1 \in 1..Len(splits) /\ 0 \in 1 - 1..Len(splits) - 1
      /\ 1 \in 1..Len(splits) + 1 /\ 0 \in 1 - 1..Len(splits) /\ 0 + 1 = 1 /\ 0 < 1 /\ ~(1 <= 0)
      /\ 0 < Len(splits)
  BY DEF PartsIn
<1>2. SubSeq(splits, 1, 0) = <<>>
  BY <1>1, PendingNone
<1>3. Span(splits, sep, 1, 0) = 0
  BY <1>1, SpanSteps
<1>4. st = At(splits, sep, <<>>, 1, 0)
  BY <1>2, <1>3 DEF At
<1>5. Add(st, splits[1], sep) =
        [chunks |-> st.chunks, current |-> Append(st.current, splits[1]),
         len |-> st.len + splits[1].len + IF Len(Append(st.current, splits[1])) > 1 THEN sep ELSE 0]
  BY DEF Add
<1>6. Span(splits, sep, 1, 1) = 0 + splits[1].len + 0
  BY <1>1, <1>3, SpanSteps
<1>7. splits[1].len \in Nat /\ splits[1].len <= CHUNK_SIZE
  BY <1>1 DEF PartsIn
<1>8. Span(splits, sep, 1, 1) <= CHUNK_SIZE
  BY <1>6, <1>7
<1> HIDE DEF st
<1>9. Add(st, splits[1], sep) = At(splits, sep, <<>>, 1, 1)
  BY <1>1, <1>4, <1>5, PushAt
<1> QED BY <1>8, <1>9 DEF st

\* The loop, part by part.
IsAdds(splits, sep, n, g) ==
    g = [k \in 0..n |-> IF k = 0 THEN [chunks |-> <<>>, current |-> <<>>, len |-> 0]
                        ELSE Add(g[k - 1], splits[k], sep)]

LEMMA AddsStep ==
    ASSUME NEW S, NEW splits \in Seq(S), NEW sep
    PROVE  /\ Adds(splits, sep)[0] = [chunks |-> <<>>, current |-> <<>>, len |-> 0]
           /\ \A n \in 1..Len(splits) :
                 Adds(splits, sep)[n] = Add(Adds(splits, sep)[n - 1], splits[n], sep)
<1> DEFINE N == Len(splits)
           none == [chunks |-> <<>>, current |-> <<>>, len |-> 0]
           Some == {n \in Nat : \E g : IsAdds(splits, sep, n, g)}
<1>1. N \in Nat
  OBVIOUS
<1> HIDE DEF none
<1>2. 0 \in Some
  <2> DEFINE g == [k \in 0..0 |-> none]
  <2>1. IsAdds(splits, sep, 0, g)
    BY DEF IsAdds, none
  <2> QED BY <2>1
<1>3. ASSUME NEW n \in 0..(N - 1), n \in Some PROVE n + 1 \in Some
  <2>1. PICK g : IsAdds(splits, sep, n, g)
    BY <1>3
  <2> DEFINE h == [k \in 0..(n + 1) |-> IF k = n + 1 THEN Add(g[n], splits[n + 1], sep) ELSE g[k]]
  <2>2. ASSUME NEW k \in 0..(n + 1)
        PROVE  h[k] = IF k = 0 THEN none ELSE Add(h[k - 1], splits[k], sep)
    <3>1. CASE k = n + 1
      <4>1. n \in 0..(n + 1) /\ n # n + 1 /\ n + 1 # 0 /\ (n + 1) - 1 = n
        BY <1>1
      <4>2. h[n] = g[n]
        BY <4>1
      <4> QED BY <3>1, <4>1, <4>2
    <3>2. CASE k # n + 1
      <4>1. k \in 0..n /\ (k # 0 => k - 1 \in 0..n /\ k - 1 \in 0..(n + 1) /\ k - 1 # n + 1)
        BY <3>2
      <4>2. g[k] = IF k = 0 THEN none ELSE Add(g[k - 1], splits[k], sep)
        BY <2>1, <4>1 DEF IsAdds, none
      <4> QED BY <3>2, <4>1, <4>2
    <3> QED BY <3>1, <3>2
  <2>3. IsAdds(splits, sep, n + 1, h)
    BY <2>2 DEF IsAdds, none
  <2>4. n + 1 \in Nat
    BY <1>1
  <2> HIDE DEF h
  <2> QED BY <2>3, <2>4
<1>4. \E g : IsAdds(splits, sep, N, g)
  <2> HIDE DEF Some
  <2>1. \A n \in 0..N : n \in Some
    BY <1>1, <1>2, <1>3, AllUpTo
  <2> QED BY <1>1, <2>1 DEF Some
<1>5. Adds(splits, sep) = CHOOSE g : IsAdds(splits, sep, N, g)
  BY DEF Adds, IsAdds
<1>6. IsAdds(splits, sep, N, Adds(splits, sep))
  BY <1>4, <1>5
<1>7. ASSUME NEW k \in 0..N
      PROVE  Adds(splits, sep)[k] =
                IF k = 0 THEN none ELSE Add(Adds(splits, sep)[k - 1], splits[k], sep)
  BY <1>6 DEF IsAdds, none
<1>8. 0 \in 0..N /\ \A n \in 1..N : n \in 0..N /\ n # 0
  BY <1>1
<1> HIDE DEF N
<1> QED BY <1>7, <1>8 DEF N, none

\* Parts a to b make a chunk, and c to d the next.
Linked(splits, sep, a, b, c, d) ==
    /\ a <= c /\ c <= b + 1 /\ b < d
    /\ Span(splits, sep, c, b) <= CHUNK_OVERLAP
    /\ c > a => Span(splits, sep, c - 1, b) > CHUNK_OVERLAP

\* The first n parts are merged: k - 1 chunks are done, and the k-th is pending; the i-th is
\* made of the parts A[i] to B[i].
Merging(splits, sep, done, k, n, A, B) ==
    /\ k \in Nat /\ k >= 1 /\ A \in [Nat -> Nat] /\ B \in [Nat -> Nat]
    /\ A[1] = 1 /\ B[k] = n
    /\ \A i \in 1..k : /\ 1 <= A[i] /\ A[i] <= B[i] /\ B[i] <= n
                       /\ Span(splits, sep, A[i], B[i]) <= CHUNK_SIZE + CHUNK_OVERLAP + sep
    /\ \A i \in 1..k - 1 : Linked(splits, sep, A[i], B[i], A[i + 1], B[i + 1])
    /\ Len(done) = k - 1
    /\ \A i \in 1..k - 1 : done[i] = Chunk(SubSeq(splits, A[i], B[i]), sep)

\* T holds all chunks.
ChunksIn(splits, sep, T) == \A a, b \in Nat : Chunk(SubSeq(splits, a, b), sep) \in T

Merged(splits, sep, T, st, n) ==
    \E done \in Seq(T), k \in Nat, A \in [Nat -> Nat], B \in [Nat -> Nat] :
        Merging(splits, sep, done, k, n, A, B) /\ st = At(splits, sep, done, A[k], n)

\* One more part keeps what is known of the chunks done and the parts pending.
LEMMA MergingStep ==
    ASSUME NEW S, NEW splits, PartsIn(S, splits), NEW sep \in Nat, NEW T, ChunksIn(splits, sep, T),
           NEW n \in 1..Len(splits) - 1, NEW state, Merged(splits, sep, T, state, n)
    PROVE  Merged(splits, sep, T, Add(state, splits[n + 1], sep), n + 1)
<1>0. PICK done \in Seq(T), k \in Nat, A \in [Nat -> Nat], B \in [Nat -> Nat] :
         Merging(splits, sep, done, k, n, A, B) /\ state = At(splits, sep, done, A[k], n)
  BY DEF Merged
<1> DEFINE a == A[k]
           st == Add(state, splits[n + 1], sep)
           D1 == [B EXCEPT ![k] = n + 1]
           new == Chunk(SubSeq(splits, a, n), sep)
           more == Append(done, new)
<1>1. /\ k \in Nat /\ k >= 1 /\ A \in [Nat -> Nat] /\ B \in [Nat -> Nat] /\ n \in Nat
      /\ Len(splits) \in Nat /\ n + 1 \in Nat /\ k + 1 \in Nat /\ k + 1 >= 1 /\ k \in 1..k /\ k # k + 1
      /\ CHUNK_SIZE \in Nat /\ CHUNK_OVERLAP \in Nat
  <2>1. k \in Nat /\ k >= 1 /\ A \in [Nat -> Nat] /\ B \in [Nat -> Nat]
    BY <1>0 DEF Merging
  <2>2. Len(splits) \in Nat
    BY DEF PartsIn
  <2>3. CHUNK_SIZE \in Nat /\ CHUNK_OVERLAP \in Nat
    BY WindowsAssumption
  <2>4. k \in Nat /\ k + 1 \in Nat /\ k + 1 >= 1 /\ k \in 1..k /\ k # k + 1
    BY <2>1
  <2>5. n \in Nat /\ n + 1 \in Nat
    BY <2>2
  <2> QED BY <2>1, <2>2, <2>3, <2>4, <2>5
<1>2. /\ A[1] = 1 /\ B[k] = n
      /\ \A i \in 1..k : /\ 1 <= A[i] /\ A[i] <= B[i] /\ B[i] <= n
                         /\ Span(splits, sep, A[i], B[i]) <= CHUNK_SIZE + CHUNK_OVERLAP + sep
      /\ \A i \in 1..k - 1 : Linked(splits, sep, A[i], B[i], A[i + 1], B[i + 1])
      /\ Len(done) = k - 1
      /\ \A i \in 1..k - 1 : done[i] = Chunk(SubSeq(splits, A[i], B[i]), sep)
  BY <1>0 DEF Merging
<1>3. a \in Nat /\ 1 <= a /\ a <= n
  BY <1>1, <1>2
<1> HIDE DEF a
<1>4. a \in 1..Len(splits) /\ n \in a..Len(splits) - 1
  BY <1>1, <1>3
<1>5. \/ /\ st = At(splits, sep, done, a, n + 1)
         /\ Span(splits, sep, a, n + 1) <= CHUNK_SIZE
      \/ \E c \in a..n + 1 :
            /\ st = At(splits, sep, more, c, n + 1)
            /\ Span(splits, sep, c, n + 1) <= CHUNK_SIZE + CHUNK_OVERLAP + sep
            /\ Span(splits, sep, c, n) <= CHUNK_OVERLAP
            /\ c > a => Span(splits, sep, c - 1, n) > CHUNK_OVERLAP
  <2>1. state = At(splits, sep, done, a, n)
    BY <1>0 DEF a
  <2> HIDE DEF a
  <2> QED BY <1>4, <2>1, AddAt
<1>6. CASE /\ st = At(splits, sep, done, a, n + 1)
           /\ Span(splits, sep, a, n + 1) <= CHUNK_SIZE
  <2>1. D1 \in [Nat -> Nat] /\ D1[k] = n + 1 /\ \A i \in Nat : i # k => D1[i] = B[i]
    BY <1>1
  <2> HIDE DEF D1
  <2>2. ASSUME NEW i \in 1..k
        PROVE  /\ 1 <= A[i] /\ A[i] <= D1[i] /\ D1[i] <= n + 1
               /\ Span(splits, sep, A[i], D1[i]) <= CHUNK_SIZE + CHUNK_OVERLAP + sep
    <3>1. CASE i = k
      <4>1. A[i] = a /\ D1[i] = n + 1
        BY <2>1, <3>1 DEF a
      <4>2. Span(splits, sep, a, n + 1) \in Nat
        <5>1. a \in 1..Len(splits) + 1 /\ n + 1 \in a - 1..Len(splits)
          BY <1>1, <1>3
        <5> QED BY <5>1, SpanNat
      <4>3. Span(splits, sep, a, n + 1) <= CHUNK_SIZE + CHUNK_OVERLAP + sep
        BY <1>1, <1>6, <4>2
      <4> QED BY <1>1, <1>3, <4>1, <4>3
    <3>2. CASE i # k
      <4>1. i \in Nat /\ n \in Nat
        BY <1>1
      <4>2. D1[i] = B[i] /\ B[i] \in Nat
        BY <1>1, <2>1, <3>2, <4>1
      <4>3. B[i] <= n
        BY <1>2
      <4>4. B[i] <= n + 1
        BY <4>1, <4>2, <4>3
      <4> QED BY <1>2, <4>2, <4>4
    <3> QED BY <3>1, <3>2
  <2>3. ASSUME NEW i \in 1..k - 1
        PROVE  /\ Linked(splits, sep, A[i], D1[i], A[i + 1], D1[i + 1])
               /\ done[i] = Chunk(SubSeq(splits, A[i], D1[i]), sep)
    <3>4. k \in Nat
      BY <1>1
    <3>5. i \in Nat /\ i # k /\ i + 1 \in 1..k /\ i \in 1..k
      BY <3>4
    <3>1. i \in Nat /\ i # k /\ D1[i] = B[i] /\ i + 1 \in 1..k /\ i \in 1..k
      BY <2>1, <3>5
    <3>2. Linked(splits, sep, A[i], B[i], A[i + 1], B[i + 1])
      BY <1>2
    <3>3. B[i] < D1[i + 1]
      <4>1. B[i] \in Nat /\ B[i] <= n
        BY <1>1, <1>2, <3>1
      <4>2. CASE i + 1 = k
        <5>1. D1[i + 1] = n + 1
          BY <2>1, <4>2
        <5>2. n \in Nat
          BY <1>1
        <5>3. B[i] < n + 1
          <6> DEFINE b == B[i]
          <6>1. b \in Nat /\ b <= n
            BY <4>1
          <6> HIDE DEF b
          <6>2. b < n + 1
            BY <5>2, <6>1
          <6> QED BY <6>2 DEF b
        <5> QED BY <5>1, <5>3
      <4>3. CASE i + 1 # k
        <5>1. i + 1 \in Nat
          BY <3>1
        <5>2. D1[i + 1] = B[i + 1]
          BY <2>1, <4>3, <5>1
        <5> QED BY <3>2, <5>2 DEF Linked
      <4> QED BY <4>2, <4>3
    <3> QED BY <1>2, <3>1, <3>2, <3>3 DEF Linked
  <2>4. Merging(splits, sep, done, k, n + 1, A, D1)
    BY <1>1, <1>2, <2>1, <2>2, <2>3 DEF Merging
  <2>5. st = At(splits, sep, done, A[k], n + 1)
    BY <1>6 DEF a
  <2>6. D1 \in [Nat -> Nat]
    BY <2>1
  <2> HIDE DEF st
  <2>7. \E new_done \in Seq(T), j \in Nat, C \in [Nat -> Nat], D \in [Nat -> Nat] :
           Merging(splits, sep, new_done, j, n + 1, C, D) /\ st = At(splits, sep, new_done, C[j], n + 1)
    <3> USE <2>6
    <3> WITNESS done \in Seq(T), k \in Nat, A \in [Nat -> Nat], D1 \in [Nat -> Nat]
    <3> QED BY <2>4, <2>5
  <2> QED BY <2>7 DEF Merged, st
<1>7. CASE \E c \in a..n + 1 :
              /\ st = At(splits, sep, more, c, n + 1)
              /\ Span(splits, sep, c, n + 1) <= CHUNK_SIZE + CHUNK_OVERLAP + sep
              /\ Span(splits, sep, c, n) <= CHUNK_OVERLAP
              /\ c > a => Span(splits, sep, c - 1, n) > CHUNK_OVERLAP
  <2>1. PICK c \in a..n + 1 :
              /\ st = At(splits, sep, more, c, n + 1)
              /\ Span(splits, sep, c, n + 1) <= CHUNK_SIZE + CHUNK_OVERLAP + sep
              /\ Span(splits, sep, c, n) <= CHUNK_OVERLAP
              /\ c > a => Span(splits, sep, c - 1, n) > CHUNK_OVERLAP
    BY <1>7
  <2> DEFINE C2 == [A EXCEPT ![k + 1] = c]
             D2 == [B EXCEPT ![k + 1] = n + 1]
  <2>2. c \in Nat /\ a <= c /\ c <= n + 1
    BY <1>1, <1>3
  <2>3. /\ C2 \in [Nat -> Nat] /\ C2[k + 1] = c /\ \A i \in Nat : i # k + 1 => C2[i] = A[i]
        /\ D2 \in [Nat -> Nat] /\ D2[k + 1] = n + 1 /\ \A i \in Nat : i # k + 1 => D2[i] = B[i]
    BY <1>1, <2>2
  <2> HIDE DEF C2, D2
  <2>4. /\ more \in Seq(T) /\ Len(more) = k /\ more[k] = new
        /\ \A i \in 1..k - 1 : more[i] = done[i]
    <3>1. new \in T
      BY <1>1, <1>3 DEF ChunksIn
    <3> HIDE DEF new
    <3>2. more \in Seq(T) /\ Len(more) = Len(done) + 1
      BY <3>1, AppendProperties
    <3>3. \A i \in 1..Len(done) : more[i] = done[i]
      BY <3>1, AppendProperties
    <3>4. more[Len(done) + 1] = new
      BY <3>1, AppendProperties
    <3>5. Len(done) = k - 1 /\ Len(done) + 1 = k
      BY <1>1, <1>2
    <3> HIDE DEF more
    <3> QED BY <3>2, <3>3, <3>4, <3>5
  <2>5. ASSUME NEW i \in 1..k + 1
        PROVE  /\ 1 <= C2[i] /\ C2[i] <= D2[i] /\ D2[i] <= n + 1
               /\ Span(splits, sep, C2[i], D2[i]) <= CHUNK_SIZE + CHUNK_OVERLAP + sep
    <3>1. CASE i = k + 1
      <4>1. C2[i] = c /\ D2[i] = n + 1
        BY <2>3, <3>1
      <4>2. 1 <= c /\ n + 1 <= n + 1
        BY <1>1, <1>3, <2>2
      <4> QED BY <2>1, <2>2, <4>1, <4>2
    <3>2. CASE i # k + 1
      <4>1. k \in Nat /\ n \in Nat
        BY <1>1
      <4>2. i \in 1..k /\ i \in Nat
        BY <3>2, <4>1
      <4>3. C2[i] = A[i] /\ D2[i] = B[i] /\ B[i] \in Nat
        BY <1>1, <2>3, <3>2, <4>2
      <4>4. B[i] <= n
        BY <1>2, <4>2
      <4>5. B[i] <= n + 1
        <5> DEFINE b == B[i]
        <5>1. b \in Nat /\ b <= n
          BY <4>3, <4>4
        <5> HIDE DEF b
        <5>2. b <= n + 1
          BY <4>1, <5>1
        <5> QED BY <5>2 DEF b
      <4> QED BY <1>2, <4>2, <4>3, <4>5
    <3> QED BY <3>1, <3>2
  <2>6. ASSUME NEW i \in 1..k
        PROVE  /\ Linked(splits, sep, C2[i], D2[i], C2[i + 1], D2[i + 1])
               /\ more[i] = Chunk(SubSeq(splits, C2[i], D2[i]), sep)
    <3>4. k \in Nat
      BY <1>1
    <3>5. i \in Nat /\ i # k + 1
      BY <3>4
    <3>1. i \in Nat /\ i # k + 1 /\ C2[i] = A[i] /\ D2[i] = B[i]
      BY <2>3, <3>5
    <3>2. CASE i = k
      <4>1. C2[i] = a /\ D2[i] = n /\ C2[i + 1] = c /\ D2[i + 1] = n + 1
        BY <1>2, <2>3, <3>1, <3>2 DEF a
      <4>2. Linked(splits, sep, a, n, c, n + 1)
        BY <1>1, <2>1, <2>2 DEF Linked
      <4> QED BY <2>4, <3>2, <4>1, <4>2
    <3>3. CASE i # k
      <4>1. i \in 1..k - 1 /\ i + 1 \in Nat /\ i + 1 # k + 1
        BY <3>3, <3>4
      <4>2. C2[i + 1] = A[i + 1] /\ D2[i + 1] = B[i + 1]
        BY <2>3, <4>1
      <4> QED BY <1>2, <2>4, <3>1, <4>1, <4>2
    <3> QED BY <3>2, <3>3
  <2>7. Merging(splits, sep, more, k + 1, n + 1, C2, D2)
    <3>1. C2[1] = 1 /\ (k + 1) - 1 = k
      BY <1>1, <1>2, <2>3
    <3> HIDE DEF more
    <3> QED BY <1>1, <2>3, <2>4, <2>5, <2>6, <3>1 DEF Merging
  <2>8. st = At(splits, sep, more, C2[k + 1], n + 1)
    BY <2>1, <2>3
  <2>9. C2 \in [Nat -> Nat] /\ D2 \in [Nat -> Nat] /\ k + 1 \in Nat
    BY <1>1, <2>3
  <2> HIDE DEF more, st
  <2>10. \E new_done \in Seq(T), j \in Nat, C \in [Nat -> Nat], D \in [Nat -> Nat] :
            Merging(splits, sep, new_done, j, n + 1, C, D) /\ st = At(splits, sep, new_done, C[j], n + 1)
    <3> USE <2>4, <2>9
    <3> WITNESS more \in Seq(T), k + 1 \in Nat, C2 \in [Nat -> Nat], D2 \in [Nat -> Nat]
    <3> QED BY <2>7, <2>8
  <2> QED BY <2>10 DEF Merged, st
<1> QED BY <1>5, <1>6, <1>7 DEF st

\* The loop merges all parts.
LEMMA MergingAt ==
    ASSUME NEW S, NEW splits, PartsIn(S, splits), NEW sep \in Nat, Len(splits) >= 1,
           NEW T, ChunksIn(splits, sep, T)
    PROVE  Merged(splits, sep, T, MergeLoop(splits, sep), Len(splits))
<1> DEFINE N == Len(splits)
           Good(n) == Merged(splits, sep, T, Adds(splits, sep)[n], n)
           All == {m \in 0..N - 1 : Good(m + 1)}
<1>1. splits \in Seq(S) /\ N \in Nat /\ N >= 1
  BY DEF PartsIn
<1>2. /\ Adds(splits, sep)[0] = [chunks |-> <<>>, current |-> <<>>, len |-> 0]
      /\ \A n \in 1..N : Adds(splits, sep)[n] = Add(Adds(splits, sep)[n - 1], splits[n], sep)
  BY <1>1, AddsStep
<1>3. Good(1)
  <2> DEFINE A == [i \in Nat |-> 1]
  <2>1. Adds(splits, sep)[1] = At(splits, sep, <<>>, 1, 1) /\ Span(splits, sep, 1, 1) <= CHUNK_SIZE
    <3>1. 1 \in 1..N /\ 1 - 1 = 0
      BY <1>1
    <3>2. Adds(splits, sep)[1] = Add([chunks |-> <<>>, current |-> <<>>, len |-> 0], splits[1], sep)
      BY <1>2, <3>1
    <3> QED BY <3>2, AddFirst
  <2>2. A \in [Nat -> Nat] /\ A[1] = 1 /\ <<>> \in Seq(T) /\ Len(<<>>) = 0
    BY EmptySeq
  <2>3. Span(splits, sep, 1, 1) \in Nat
    <3>1. 1 \in 1..Len(splits) + 1 /\ 1 \in 1 - 1..Len(splits)
      BY <1>1
    <3> QED BY <3>1, SpanNat
  <2>4. Span(splits, sep, 1, 1) <= CHUNK_SIZE + CHUNK_OVERLAP + sep
    BY <2>1, <2>3, WindowsAssumption
  <2> HIDE DEF A
  <2>5. Merging(splits, sep, <<>>, 1, 1, A, A)
    <3>1. \A i \in 1..1 : /\ 1 <= A[i] /\ A[i] <= A[i] /\ A[i] <= 1
                          /\ Span(splits, sep, A[i], A[i]) <= CHUNK_SIZE + CHUNK_OVERLAP + sep
      <4>1. \A i \in 1..1 : i = 1
        OBVIOUS
      <4>2. 1 <= A[1] /\ A[1] <= A[1] /\ A[1] <= 1
        BY <2>2
      <4> QED BY <2>2, <2>4, <4>1, <4>2
    <3>2. 1..1 - 1 = {}
      OBVIOUS
    <3>3. Len(<<>>) = 1 - 1 /\ 1 \in Nat /\ 1 >= 1
      OBVIOUS
    <3> QED BY <2>2, <3>1, <3>2, <3>3 DEF Merging
  <2>6. Adds(splits, sep)[1] = At(splits, sep, <<>>, A[1], 1)
    BY <2>1, <2>2
  <2>7. 1 \in Nat
    OBVIOUS
  <2> QED BY <2>2, <2>5, <2>6, <2>7 DEF Merged
<1>4. ASSUME NEW n \in 1..N - 1, Good(n) PROVE Good(n + 1)
  <2>1. n + 1 \in 1..N /\ (n + 1) - 1 = n
    BY <1>1
  <2>2. Adds(splits, sep)[n + 1] = Add(Adds(splits, sep)[n], splits[n + 1], sep)
    BY <1>2, <2>1
  <2> QED BY <1>4, <2>2, MergingStep
<1> HIDE DEF Good
<1>5. 0 \in All
  BY <1>1, <1>3
<1>6. ASSUME NEW m \in 0..(N - 1) - 1, m \in All PROVE m + 1 \in All
  <2>1. m + 1 \in 1..N - 1 /\ m + 1 \in 0..N - 1
    BY <1>1
  <2>2. Good(m + 1)
    BY <1>6
  <2>3. Good((m + 1) + 1)
    BY <1>4, <2>1, <2>2
  <2> QED BY <2>1, <2>3
<1>7. Good(N)
  <2>1. N - 1 \in Nat /\ N - 1 \in 0..N - 1 /\ (N - 1) + 1 = N
    BY <1>1
  <2> HIDE DEF All
  <2>2. \A m \in 0..N - 1 : m \in All
    BY <1>5, <1>6, <2>1, AllUpTo
  <2> QED BY <2>1, <2>2 DEF All
<1> QED BY <1>7 DEF Good, MergeLoop

\* The parts follow one another.
LEMMA PartsAscend ==
    ASSUME NEW S, NEW splits, PartsIn(S, splits)
    PROVE  \A i, j \in 1..Len(splits) : i < j => splits[i].to < splits[j].from
<1> DEFINE N == Len(splits)
           All == {n \in 0..N : \A i \in 1..N : i < n => splits[i].to < splits[n].from}
<1>1. N \in Nat
  BY DEF PartsIn
<1>2. 0 \in All
  BY <1>1
<1>3. ASSUME NEW n \in 0..N - 1, n \in All PROVE n + 1 \in All
  <2>1. n + 1 \in 1..N /\ n + 1 \in 0..N /\ n \in Nat
    BY <1>1
  <2>2. ASSUME NEW i \in 1..N, i < n + 1 PROVE splits[i].to < splits[n + 1].from
    <3>1. n \in 1..N /\ n \in 1..N - 1 /\ (i < n \/ i = n)
      BY <1>1, <2>1, <2>2
    <3> DEFINE f == splits[n].from
               t == splits[n].to
               g == splits[n + 1].from
               u == splits[i].to
    <3>2. g = t + 1 /\ f <= t /\ f \in Int /\ t \in Int /\ u \in Int
      BY <3>1 DEF PartsIn
    <3>3. i < n => u < f
      BY <1>3
    <3>4. i = n => u = t
      OBVIOUS
    <3> HIDE DEF f, t, g, u
    <3>5. u < g
      BY <3>1, <3>2, <3>3, <3>4
    <3> QED BY <3>5 DEF u, g
  <2> QED BY <2>1, <2>2
<1> HIDE DEF All
<1>4. \A n \in 0..N : n \in All
  BY <1>1, <1>2, <1>3, AllUpTo
<1>5. \A n \in 1..N : n \in 0..N
  BY <1>1
<1> QED BY <1>4, <1>5 DEF All

\* The characters of a part tell which it is.
LEMMA PartsDistinct ==
    ASSUME NEW S, NEW splits, PartsIn(S, splits), NEW i \in 1..Len(splits)
    PROVE  /\ (CHOOSE j \in DOMAIN splits : splits[j].from = splits[i].from) = i
           /\ (CHOOSE j \in DOMAIN splits : splits[j].to = splits[i].to) = i
<1>1. DOMAIN splits = 1..Len(splits) /\ Len(splits) \in Nat
  BY DEF PartsIn
<1>2. \A j, l \in 1..Len(splits) : j < l => splits[j].to < splits[l].from
  BY PartsAscend
<1>3. \A j \in 1..Len(splits) : /\ splits[j].from \in Int /\ splits[j].to \in Int
                                /\ splits[j].from <= splits[j].to
  BY DEF PartsIn
<1>4. ASSUME NEW j \in 1..Len(splits), NEW l \in 1..Len(splits), j < l
      PROVE  splits[j].from # splits[l].from /\ splits[j].to # splits[l].to
  <2> DEFINE f == splits[j].from
             t == splits[j].to
             g == splits[l].from
             u == splits[l].to
  <2>1. t < g /\ f <= t /\ g <= u /\ f \in Int /\ t \in Int /\ g \in Int /\ u \in Int
    BY <1>2, <1>3, <1>4
  <2> HIDE DEF f, t, g, u
  <2>2. f # g /\ t # u
    BY <2>1
  <2> QED BY <2>2 DEF f, t, g, u
<1>5. ASSUME NEW j \in 1..Len(splits)
      PROVE  (splits[j].from = splits[i].from \/ splits[j].to = splits[i].to) => j = i
  <2>1. j < i \/ j = i \/ i < j
    BY <1>1
  <2> QED BY <1>4, <2>1
<1> QED BY <1>1, <1>5

\* The chunks, in terms of the parts they are made of.
LEMMA MergedChunks ==
    ASSUME NEW S, NEW splits, PartsIn(S, splits), NEW sep \in Nat, Len(splits) >= 1
    PROVE  \E k \in Nat, A \in [Nat -> Nat], B \in [Nat -> Nat] :
              LET cs == MergeSplits(splits, sep)
                  end == MergeLoop(splits, sep)
              IN  /\ k >= 1 /\ A[1] = 1 /\ B[k] = Len(splits)
                  /\ Len(cs) = k /\ cs = [i \in 1..k |-> cs[i]] /\ DOMAIN cs = 1..k
                  /\ end.len = Joined(end.current, sep)
                  /\ \A i \in 1..k : /\ 1 <= A[i] /\ A[i] <= B[i] /\ B[i] <= Len(splits)
                                     /\ cs[i] = Chunk(SubSeq(splits, A[i], B[i]), sep)
                                     /\ Span(splits, sep, A[i], B[i]) <= CHUNK_SIZE + CHUNK_OVERLAP + sep
                  /\ \A i \in 1..k - 1 : Linked(splits, sep, A[i], B[i], A[i + 1], B[i + 1])
<1> DEFINE N == Len(splits)
           T == {Chunk(SubSeq(splits, a, b), sep) : a \in Nat, b \in Nat}
           end == MergeLoop(splits, sep)
           cs == MergeSplits(splits, sep)
<1>1. N \in Nat /\ N >= 1
  BY DEF PartsIn
<1>2. ChunksIn(splits, sep, T)
  BY DEF ChunksIn
<1> HIDE DEF T
<1>3. Merged(splits, sep, T, end, N)
  BY <1>2, MergingAt
<1>4. PICK done \in Seq(T), k \in Nat, A \in [Nat -> Nat], B \in [Nat -> Nat] :
         Merging(splits, sep, done, k, N, A, B) /\ end = At(splits, sep, done, A[k], N)
  BY <1>3 DEF Merged
<1>5. /\ k >= 1 /\ A[1] = 1 /\ B[k] = N
      /\ \A i \in 1..k : /\ 1 <= A[i] /\ A[i] <= B[i] /\ B[i] <= N
                         /\ Span(splits, sep, A[i], B[i]) <= CHUNK_SIZE + CHUNK_OVERLAP + sep
      /\ \A i \in 1..k - 1 : Linked(splits, sep, A[i], B[i], A[i + 1], B[i + 1])
      /\ Len(done) = k - 1
      /\ \A i \in 1..k - 1 : done[i] = Chunk(SubSeq(splits, A[i], B[i]), sep)
  BY <1>4 DEF Merging
<1> DEFINE a == A[k]
           new == Chunk(SubSeq(splits, a, N), sep)
<1>6. a \in 1..N /\ N \in a..N /\ a \in 1..N + 1 /\ N \in a - 1..N /\ ~(N < a)
  <2>1. a \in Nat /\ 1 <= a /\ a <= N
    BY <1>5
  <2> HIDE DEF a, N
  <2> QED BY <1>1, <2>1
<1>7. end.chunks = done /\ end.current = SubSeq(splits, a, N) /\ end.len = Span(splits, sep, a, N)
  <2>1. end = At(splits, sep, done, a, N)
    BY <1>4
  <2> HIDE DEF end, a, N
  <2> QED BY <2>1 DEF At
<1> HIDE DEF a, end
<1>8. end.current # <<>>
  BY <1>6, <1>7, PendingNone
<1>9. end.len = Joined(end.current, sep)
  <2>1. Joined(SubSeq(splits, a, N), sep) = Span(splits, sep, a, N)
    BY <1>6, JoinedRange DEF Span
  <2> QED BY <1>7, <2>1
<1>10. cs = Append(done, new)
  BY <1>7, <1>8 DEF MergeSplits, end
<1>11. new \in T
  <2>1. a \in Nat /\ N \in Nat
    BY <1>1, <1>6
  <2> HIDE DEF N
  <2> QED BY <2>1 DEF T
<1> HIDE DEF new, cs
<1>12. cs \in Seq(T) /\ Len(cs) = Len(done) + 1
  BY <1>10, <1>11, AppendProperties
<1>13. \A i \in 1..Len(done) : cs[i] = done[i]
  BY <1>10, <1>11, AppendProperties
<1>14. cs[Len(done) + 1] = new
  BY <1>10, <1>11, AppendProperties
<1>15. Len(cs) = k /\ cs = [i \in 1..k |-> cs[i]] /\ DOMAIN cs = 1..k
  BY <1>5, <1>12
<1>16. ASSUME NEW i \in 1..k PROVE cs[i] = Chunk(SubSeq(splits, A[i], B[i]), sep)
  <2>1. CASE i = k
    <3>1. cs[k] = new
      BY <1>5, <1>14
    <3> QED BY <1>5, <2>1, <3>1 DEF new, a
  <2>2. CASE i # k
    <3>1. i \in 1..k - 1
      BY <2>2
    <3> QED BY <1>5, <1>13, <3>1
  <2> QED BY <2>1, <2>2
<1> WITNESS k \in Nat, A \in [Nat -> Nat], B \in [Nat -> Nat]
<1> QED BY <1>5, <1>9, <1>15, <1>16 DEF cs, end

\* Whatever parts that fit are merged, with whatever separator: nothing is lost, the length
\* that is kept is right, a chunk begins with as much of the one before as fits CHUNK_OVERLAP
\* and no more, and is no longer than a window with it (chunkers.py:33-54).
THEOREM MergeIsSound ==
    ASSUME NEW S, NEW splits, PartsIn(S, splits), splits # <<>>, NEW sep \in Nat
    PROVE  MergeSound(splits, sep)
<1> DEFINE N == Len(splits)
           cs == MergeSplits(splits, sep)
           end == MergeLoop(splits, sep)
           first(c) == CHOOSE i \in DOMAIN splits : splits[i].from = c.from
           last(c) == CHOOSE i \in DOMAIN splits : splits[i].to = c.to
<1>1. N \in Nat /\ N >= 1
  BY EmptySeq DEF PartsIn
<1>2. PICK k \in Nat, A \in [Nat -> Nat], B \in [Nat -> Nat] :
         /\ k >= 1 /\ A[1] = 1 /\ B[k] = N
         /\ Len(cs) = k /\ DOMAIN cs = 1..k
         /\ end.len = Joined(end.current, sep)
         /\ \A i \in 1..k : /\ 1 <= A[i] /\ A[i] <= B[i] /\ B[i] <= N
                            /\ cs[i] = Chunk(SubSeq(splits, A[i], B[i]), sep)
                            /\ Span(splits, sep, A[i], B[i]) <= CHUNK_SIZE + CHUNK_OVERLAP + sep
         /\ \A i \in 1..k - 1 : Linked(splits, sep, A[i], B[i], A[i + 1], B[i + 1])
  BY <1>1, MergedChunks
<1> HIDE DEF cs, end
<1>3. ASSUME NEW i \in 1..k
      PROVE  /\ A[i] \in 1..N /\ B[i] \in A[i]..N /\ B[i] \in 1..N
             /\ cs[i].from = splits[A[i]].from /\ cs[i].to = splits[B[i]].to
             /\ cs[i].len = Span(splits, sep, A[i], B[i])
  <2> DEFINE a == A[i]
             b == B[i]
  <2>1. a \in Nat /\ b \in Nat /\ 1 <= a /\ a <= b /\ b <= N
    <3>1. i \in Nat
      OBVIOUS
    <3>2. a \in Nat /\ b \in Nat
      BY <3>1
    <3>3. 1 <= a /\ a <= b /\ b <= N
      BY <1>2
    <3> QED BY <3>2, <3>3
  <2>2. cs[i] = Chunk(SubSeq(splits, a, b), sep)
    BY <1>2
  <2> HIDE DEF a, b, N
  <2>3. a \in 1..N /\ b \in a..N /\ b \in 1..N
    BY <1>1, <2>1
  <2>4. Chunk(SubSeq(splits, a, b), sep) =
           [from |-> splits[a].from, to |-> splits[b].to, len |-> Span(splits, sep, a, b)]
    BY <2>3, ChunkAt DEF N
  <2>5. cs[i].from = splits[a].from /\ cs[i].to = splits[b].to /\ cs[i].len = Span(splits, sep, a, b)
    BY <2>2, <2>4
  <2> QED BY <2>3, <2>5 DEF a, b
<1>4. ASSUME NEW i \in 1..k PROVE first(cs[i]) = A[i] /\ last(cs[i]) = B[i]
  <2>1. cs[i].from = splits[A[i]].from /\ cs[i].to = splits[B[i]].to
    BY <1>3
  <2>2. (CHOOSE j \in DOMAIN splits : splits[j].from = splits[A[i]].from) = A[i]
    BY <1>3, PartsDistinct
  <2>3. (CHOOSE j \in DOMAIN splits : splits[j].to = splits[B[i]].to) = B[i]
    BY <1>3, PartsDistinct
  <2> QED BY <2>1, <2>2, <2>3
<1> HIDE DEF first, last
<1>5. \A j, l \in 1..N : j < l => splits[j].to < splits[l].from
  BY PartsAscend
<1>6. \A j \in 1..N : /\ splits[j].from \in Int /\ splits[j].to \in Int
                      /\ splits[j].from <= splits[j].to
  BY DEF PartsIn
<1>7. \A j \in 1..N - 1 : splits[j + 1].from = splits[j].to + 1
  BY DEF PartsIn
<1>8. Covers(cs, splits[1].from, Last(splits).to)
  <2>1. cs # <<>> /\ cs[1].from = splits[1].from /\ Last(cs).to = Last(splits).to
    <3>1. 1 \in 1..k /\ k \in 1..k
      BY <1>2
    <3>2. cs # <<>>
      BY <1>2, EmptySeq
    <3>3. Last(cs) = cs[k] /\ Last(splits) = splits[N]
      BY <1>2 DEF Last
    <3>4. cs[1].from = splits[1].from
      BY <1>2, <1>3, <3>1
    <3>5. cs[k].to = splits[N].to
      BY <1>2, <1>3, <3>1
    <3> QED BY <3>2, <3>3, <3>4, <3>5
  <2>2. ASSUME NEW i \in 1..k - 1
        PROVE  /\ cs[i + 1].from <= cs[i].to + 1
               /\ cs[i].from <= cs[i + 1].from /\ cs[i].to < cs[i + 1].to
    <3> DEFINE a == A[i]
               b == B[i]
               c == A[i + 1]
               d == B[i + 1]
    <3>1. i \in 1..k /\ i + 1 \in 1..k
      BY <1>2
    <3>2. /\ a \in 1..N /\ b \in 1..N /\ c \in 1..N /\ d \in 1..N
          /\ cs[i].from = splits[a].from /\ cs[i].to = splits[b].to
          /\ cs[i + 1].from = splits[c].from /\ cs[i + 1].to = splits[d].to
      BY <1>3, <3>1
    <3>3. a <= c /\ c <= b + 1 /\ b < d
      BY <1>2 DEF Linked
    <3> HIDE DEF a, b, c, d
    <3>4. splits[c].from <= splits[b].to + 1
      <4>1. CASE c = b + 1
        <5> DEFINE f == splits[c].from
                   u == splits[b].to
        <5>1. b \in 1..N - 1
          BY <1>1, <3>2, <4>1
        <5>2. f = u + 1 /\ u \in Int
          BY <1>6, <1>7, <3>2, <4>1, <5>1
        <5> HIDE DEF f, u
        <5>3. f <= u + 1
          BY <5>2
        <5> QED BY <5>3 DEF f, u
      <4>2. CASE c = b
        <5> DEFINE f == splits[b].from
                   u == splits[b].to
        <5>1. f \in Int /\ u \in Int /\ f <= u
          BY <1>6, <3>2
        <5> HIDE DEF f, u
        <5>2. f <= u + 1
          BY <5>1
        <5> QED BY <4>2, <5>2 DEF f, u
      <4>3. CASE c < b
        <5>1. splits[c].to < splits[b].from
          BY <1>5, <3>2, <4>3
        <5> DEFINE f == splits[c].from
                   t == splits[c].to
                   g == splits[b].from
                   u == splits[b].to
        <5>2. f \in Int /\ t \in Int /\ g \in Int /\ u \in Int /\ f <= t /\ t < g /\ g <= u
          BY <1>6, <3>2, <5>1
        <5> HIDE DEF f, t, g, u
        <5>3. f <= u + 1
          BY <5>2
        <5> QED BY <5>3 DEF f, u
      <4>4. c = b + 1 \/ c = b \/ c < b
        BY <3>2, <3>3
      <4> QED BY <4>1, <4>2, <4>3, <4>4
    <3>5. splits[a].from <= splits[c].from
      <4> DEFINE f == splits[a].from
                 t == splits[a].to
                 g == splits[c].from
      <4>1. f \in Int /\ t \in Int /\ g \in Int /\ f <= t
        BY <1>6, <3>2
      <4>2. a = c => f = g
        OBVIOUS
      <4>3. a < c => t < g
        BY <1>5, <3>2
      <4>4. a = c \/ a < c
        BY <3>2, <3>3
      <4> HIDE DEF f, t, g
      <4>5. f <= g
        BY <4>1, <4>2, <4>3, <4>4
      <4> QED BY <4>5 DEF f, g
    <3>6. splits[b].to < splits[d].to
      <4> DEFINE t == splits[b].to
                 g == splits[d].from
                 u == splits[d].to
      <4>1. t \in Int /\ g \in Int /\ u \in Int /\ g <= u /\ t < g
        BY <1>5, <1>6, <3>2, <3>3
      <4> HIDE DEF t, g, u
      <4>2. t < u
        BY <4>1
      <4> QED BY <4>2 DEF t, u
    <3> QED BY <3>2, <3>4, <3>5, <3>6
  <2> QED BY <1>2, <2>1, <2>2 DEF Covers
<1>9. ASSUME NEW i \in 1..k
      PROVE  /\ cs[i].len = Joined(SubSeq(splits, first(cs[i]), last(cs[i])), sep)
             /\ cs[i].len <= CHUNK_SIZE + CHUNK_OVERLAP + sep
  <2> DEFINE a == A[i]
             b == B[i]
  <2>1. a \in 1..N /\ b \in a..N /\ cs[i].len = Span(splits, sep, a, b)
    BY <1>3
  <2>2. Span(splits, sep, a, b) <= CHUNK_SIZE + CHUNK_OVERLAP + sep
    BY <1>2
  <2>3. first(cs[i]) = a /\ last(cs[i]) = b
    BY <1>4
  <2> HIDE DEF a, b
  <2>4. a \in 1..Len(splits) + 1 /\ b \in a - 1..Len(splits)
    BY <1>1, <2>1
  <2>5. Joined(SubSeq(splits, a, b), sep) = Span(splits, sep, a, b)
    BY <2>4, JoinedRange DEF Span
  <2> QED BY <2>1, <2>2, <2>3, <2>5
<1>10. ASSUME NEW i \in 1..k - 1
       PROVE  LET f == first(cs[i + 1])
                  l == last(cs[i])
              IN  /\ Joined(SubSeq(splits, f, l), sep) <= CHUNK_OVERLAP
                  /\ f > first(cs[i]) => Joined(SubSeq(splits, f - 1, l), sep) > CHUNK_OVERLAP
  <2> DEFINE a == A[i]
             b == B[i]
             c == A[i + 1]
  <2>1. i \in 1..k /\ i + 1 \in 1..k
    BY <1>2
  <2>2. a \in 1..N /\ b \in a..N /\ c \in 1..N
    BY <1>3, <2>1
  <2>3. /\ a <= c /\ c <= b + 1
        /\ Span(splits, sep, c, b) <= CHUNK_OVERLAP
        /\ c > a => Span(splits, sep, c - 1, b) > CHUNK_OVERLAP
    BY <1>2 DEF Linked
  <2>4. first(cs[i]) = a /\ last(cs[i]) = b /\ first(cs[i + 1]) = c
    BY <1>4, <2>1
  <2> HIDE DEF a, b, c
  <2>5. c \in 1..Len(splits) + 1 /\ b \in c - 1..Len(splits)
    BY <1>1, <2>2, <2>3
  <2>6. Joined(SubSeq(splits, c, b), sep) = Span(splits, sep, c, b)
    BY <2>5, JoinedRange DEF Span
  <2>7. ASSUME c > a
        PROVE  Joined(SubSeq(splits, c - 1, b), sep) = Span(splits, sep, c - 1, b)
    <3>1. c - 1 \in 1..Len(splits) + 1 /\ b \in (c - 1) - 1..Len(splits)
      BY <1>1, <2>2, <2>3, <2>7
    <3> QED BY <3>1, JoinedRange DEF Span
  <2> QED BY <2>3, <2>4, <2>6, <2>7
<1> QED BY <1>2, <1>8, <1>9, <1>10 DEF MergeSound, cs, end, first, last
-----------------------------------------------------------------------------
(***************************************************************************)
(* Python. A module is pieces, the nodes and what is between them. Every   *)
(* chunk is owned by one piece and every piece that has something to emit  *)
(* owns one (Owned), kept by the loop over the nodes; a line is then in    *)
(* the chunks of the pieces it is in.                                      *)
(***************************************************************************)
\* Chunks of Python, and what its loop keeps.
PythonChunk == [lines : SUBSET Nat, def : Nat]
BodyState == [end : Nat, chunks : Seq(PythonChunk)]

\* Lines that are all blank give no chunk.
LEMMA EmitType ==
    ASSUME NEW chunks \in Seq(PythonChunk), NEW from \in Nat, NEW to \in Int, NEW tag \in Nat,
           NEW blank
    PROVE  /\ Emit(chunks, from, to, tag, blank) \in Seq(PythonChunk)
           /\ (from..to) \ blank = {} => Emit(chunks, from, to, tag, blank) = chunks
           /\ (from..to) \ blank # {} =>
                 /\ Len(Emit(chunks, from, to, tag, blank)) = Len(chunks) + 1
                 /\ Emit(chunks, from, to, tag, blank)[Len(chunks) + 1]
                        = [lines |-> from..to, def |-> tag]
                 /\ \A c \in 1..Len(chunks) : Emit(chunks, from, to, tag, blank)[c] = chunks[c]
<1> DEFINE new == [lines |-> from..to, def |-> tag]
<1>1. new \in PythonChunk
  <2>1. from..to \in SUBSET Nat
    OBVIOUS
  <2> QED BY <2>1 DEF PythonChunk
<1> HIDE DEF new
<1>2. CASE (from..to) \ blank = {}
  BY <1>2 DEF Emit
<1>3. CASE (from..to) \ blank # {}
  <2>1. Emit(chunks, from, to, tag, blank) = Append(chunks, new)
    BY <1>3 DEF Emit, new
  <2> QED BY <1>1, <1>3, <2>1, AppendProperties DEF new
<1> QED BY <1>2, <1>3

LEMMA AddNodeType ==
    ASSUME NEW nodes, NEW total, NEW blank, Module(nodes, total, blank),
           NEW n \in 1..Len(nodes), NEW st \in BodyState
    PROVE  AddNode(st, nodes[n], n, blank) \in BodyState
<1> DEFINE node == nodes[n]
           gap == IF node.first > st.end + 1
                  THEN Emit(st.chunks, st.end + 1, node.first - 1, 0, blank) ELSE st.chunks
           tag == IF node.kind = "def" THEN n ELSE 0
           all == IF node.kind = "import" THEN gap
                  ELSE Emit(gap, node.first, node.last, tag, blank)
<1>1. node.first \in Nat /\ node.last \in Nat /\ n \in Nat
  <2> DEFINE R == [first : 1..total, last : 1..total, kind : {"import", "def", "other"}]
  <2>1. nodes \in Seq(R) /\ total \in Nat
    BY DEF Module
  <2>2. nodes[n] \in R /\ n \in Nat
    <3> HIDE DEF R
    <3> QED BY <2>1, ElementOfSeq
  <2> QED BY <2>1, <2>2
<1>2. st.end + 1 \in Nat /\ st.chunks \in Seq(PythonChunk)
  BY DEF BodyState
<1> HIDE DEF node
<1>3. gap \in Seq(PythonChunk)
  <2>1. node.first - 1 \in Int
    BY <1>1
  <2> QED BY <1>2, <2>1, EmitType
<1>4. tag \in Nat
  BY <1>1
<1> HIDE DEF gap, tag
<1>5. all \in Seq(PythonChunk)
  <2>1. Emit(gap, node.first, node.last, tag, blank) \in Seq(PythonChunk)
    <3>1. node.last \in Int
      BY <1>1
    <3> QED BY <1>1, <1>3, <1>4, <3>1, EmitType
  <2> QED BY <1>3, <2>1
<1>6. AddNode(st, node, n, blank) = [end |-> node.last, chunks |-> all]
  BY DEF AddNode, gap, tag
<1> HIDE DEF all
<1>7. AddNode(st, node, n, blank) \in BodyState
  BY <1>1, <1>5, <1>6 DEF BodyState
<1> QED BY <1>7 DEF node

\* The loop over the nodes is a recursion.
LEMMA BodiesStep ==
    ASSUME NEW nodes, NEW total, NEW blank, Module(nodes, total, blank)
    PROVE  LET after == Bodies(nodes, blank)
           IN  /\ after[0] = [end |-> 0, chunks |-> <<>>]
               /\ \A n \in 0..Len(nodes) : after[n] \in BodyState
               /\ \A n \in 1..Len(nodes) : after[n] = AddNode(after[n - 1], nodes[n], n, blank)
<1> DEFINE N == Len(nodes)
           T == BodyState
           base == [end |-> 0, chunks |-> <<>>]
           step == [x \in (1..N) \X T |-> AddNode(x[2], nodes[x[1]], x[1], blank)]
           Is(f) == f = [n \in 0..N |-> IF n = 0 THEN [end |-> 0, chunks |-> <<>>]
                                        ELSE AddNode(f[n - 1], nodes[n], n, blank)]
<1>1. N \in Nat
  BY DEF Module
<1>2. base \in T /\ step \in [(1..N) \X T -> T]
  <2>1. \A x \in (1..N) \X T : AddNode(x[2], nodes[x[1]], x[1], blank) \in T
    <3> SUFFICES ASSUME NEW x \in (1..N) \X T
                 PROVE  AddNode(x[2], nodes[x[1]], x[1], blank) \in T
      OBVIOUS
    <3> QED BY AddNodeType
  <2>2. base \in T
    BY EmptySeq DEF BodyState
  <2> HIDE DEF T, base
  <2> QED BY <2>1, <2>2
<1> HIDE DEF N
<1>3. PICK g \in [0..N -> T] : Iterates(N, base, step, g)
  <2> HIDE DEF step, T, base
  <2> QED BY <1>1, <1>2, RecursionExists
<1>4. ASSUME NEW n \in 0..N
      PROVE  g[n] = IF n = 0 THEN base ELSE AddNode(g[n - 1], nodes[n], n, blank)
  <2>1. g[n] = IF n = 0 THEN base ELSE step[<<n, g[n - 1]>>]
    BY <1>3 DEF Iterates
  <2>2. n # 0 => n - 1 \in 0..N /\ n \in 1..N
    BY <1>1
  <2> HIDE DEF T, base
  <2>3. n # 0 => <<n, g[n - 1]>> \in (1..N) \X T
    BY <1>3, <2>2
  <2> QED BY <2>1, <2>3
<1>5. Is(g)
  <2> HIDE DEF T, step
  <2> QED BY <1>4
<1> DEFINE f == CHOOSE u : Is(u)
<1>6. Is(f)
  BY <1>5
<1>7. Bodies(nodes, blank) = f
  BY DEF Bodies, N
<1> HIDE DEF f
<1>8. \A n \in 0..N : f[n] = IF n = 0 THEN base ELSE AddNode(f[n - 1], nodes[n], n, blank)
  BY <1>6
<1>9. ASSUME NEW n \in 0..N PROVE f[n] \in T
  <2> DEFINE A == {k \in 0..N : f[k] \in T}
  <2>1. 0 \in A
    <3>1. 0 \in 0..N
      BY <1>1
    <3> HIDE DEF T, base
    <3> QED BY <1>2, <1>8, <3>1
  <2>2. ASSUME NEW k \in 0..(N - 1), k \in A PROVE k + 1 \in A
    <3>1. k + 1 \in 0..N /\ k + 1 \in 1..N /\ k + 1 # 0 /\ (k + 1) - 1 = k
      BY <1>1
    <3>2. f[k + 1] = AddNode(f[k], nodes[k + 1], k + 1, blank)
      BY <1>8, <3>1
    <3>3. f[k + 1] \in T
      BY <2>2, <3>1, <3>2, AddNodeType DEF N
    <3> QED BY <3>1, <3>3
  <2> HIDE DEF A
  <2>3. \A k \in 0..N : k \in A
    BY <1>1, <2>1, <2>2, AllUpTo
  <2> QED BY <2>3 DEF A
<1>10. 0 \in 0..N /\ \A n \in 1..N : n \in 0..N /\ n # 0
  BY <1>1
<1> HIDE DEF T
<1>11. /\ f[0] = base
       /\ \A n \in 0..N : f[n] \in T
       /\ \A n \in 1..N : f[n] = AddNode(f[n - 1], nodes[n], n, blank)
  BY <1>8, <1>9, <1>10
<1> QED BY <1>7, <1>11 DEF N, T

\* The pieces of a module: <<i, "node">> is node i, <<i, "gap">> what is between the one before
\* and it, or the end.
PieceEnd(nodes, i) == IF i = 1 THEN 0 ELSE nodes[i - 1].last
PieceLines(nodes, total, x) ==
    IF x[2] = "node" THEN nodes[x[1]].first..nodes[x[1]].last
    ELSE PieceEnd(nodes, x[1]) + 1
             ..(IF x[1] = Len(nodes) + 1 THEN total ELSE nodes[x[1]].first - 1)
PieceTag(nodes, x) == IF x[2] = "node" /\ nodes[x[1]].kind = "def" THEN x[1] ELSE 0

\* Those that make a chunk.
PieceDue(nodes, total, blank, x) ==
    /\ PieceLines(nodes, total, x) \ blank # {}
    /\ x[2] = "node" => nodes[x[1]].kind # "import"

\* The chunks are those of the pieces X, each of one.
OwnedBy(nodes, total, blank, X, cs, own) ==
    /\ own \in [1..Len(cs) -> X]
    /\ \A c, d \in 1..Len(cs) : c # d => own[c] # own[d]
    /\ \A c \in 1..Len(cs) : /\ PieceDue(nodes, total, blank, own[c])
                             /\ cs[c].lines = PieceLines(nodes, total, own[c])
                             /\ cs[c].def = PieceTag(nodes, own[c])
    /\ \A x \in X : PieceDue(nodes, total, blank, x) => \E c \in 1..Len(cs) : own[c] = x

Owned(nodes, total, blank, X, cs) == \E own : OwnedBy(nodes, total, blank, X, cs, own)

\* A piece that is not due owns no chunk.
LEMMA OwnedSkip ==
    ASSUME NEW nodes, NEW total, NEW blank, NEW X, NEW cs, Owned(nodes, total, blank, X, cs),
           NEW x, ~PieceDue(nodes, total, blank, x)
    PROVE  Owned(nodes, total, blank, X \cup {x}, cs)
<1>1. PICK own : OwnedBy(nodes, total, blank, X, cs, own)
  BY DEF Owned
<1>2. own \in [1..Len(cs) -> X \cup {x}]
  BY <1>1 DEF OwnedBy
<1>3. OwnedBy(nodes, total, blank, X \cup {x}, cs, own)
  BY <1>1, <1>2 DEF OwnedBy
<1> QED BY <1>3 DEF Owned

\* A piece that is due owns the chunk it emits.
LEMMA OwnedEmit ==
    ASSUME NEW nodes, NEW total, NEW blank, NEW X, NEW cs \in Seq(PythonChunk),
           Owned(nodes, total, blank, X, cs),
           NEW x, x \notin X, NEW from \in Nat, NEW to \in Int,
           from..to = PieceLines(nodes, total, x), PieceTag(nodes, x) \in Nat,
           x[2] = "node" => nodes[x[1]].kind # "import"
    PROVE  /\ Emit(cs, from, to, PieceTag(nodes, x), blank) \in Seq(PythonChunk)
           /\ Owned(nodes, total, blank, X \cup {x}, Emit(cs, from, to, PieceTag(nodes, x), blank))
<1> DEFINE tag == PieceTag(nodes, x)
           ds == Emit(cs, from, to, tag, blank)
           n == Len(cs)
<1>0. tag \in Nat
  OBVIOUS
<1> HIDE DEF tag
<1>1. /\ ds \in Seq(PythonChunk) /\ n \in Nat
      /\ (from..to) \ blank = {} => ds = cs
      /\ (from..to) \ blank # {} =>
            /\ Len(ds) = n + 1 /\ ds[n + 1] = [lines |-> from..to, def |-> tag]
            /\ \A c \in 1..n : ds[c] = cs[c]
  <2>1. n \in Nat
    BY LenProperties
  <2> QED BY <1>0, <2>1, EmitType
<1>2. PieceDue(nodes, total, blank, x) <=> (from..to) \ blank # {}
  BY DEF PieceDue
<1>3. CASE (from..to) \ blank = {}
  BY <1>1, <1>2, <1>3, OwnedSkip DEF tag
<1>4. CASE (from..to) \ blank # {}
  <2>1. PICK own : OwnedBy(nodes, total, blank, X, cs, own)
    BY DEF Owned
  <2> DEFINE new == [c \in 1..n + 1 |-> IF c = n + 1 THEN x ELSE own[c]]
  <2>2. \A c \in 1..n + 1 : c = n + 1 \/ (c \in 1..n /\ c # n + 1)
    BY <1>1
  <2>3. /\ \A c \in 1..n : c \in 1..n + 1 /\ own[c] \in X /\ own[c] # x /\ new[c] = own[c]
        /\ n + 1 \in 1..n + 1 /\ new[n + 1] = x
    <3>1. \A c \in 1..n : c \in 1..n + 1 /\ c # n + 1
      BY <1>1
    <3>2. \A c \in 1..n : own[c] \in X
      BY <2>1 DEF OwnedBy
    <3>3. n + 1 \in 1..n + 1
      BY <1>1
    <3> HIDE DEF n
    <3> QED BY <3>1, <3>2, <3>3
  <2>4. new \in [1..n + 1 -> X \cup {x}]
    <3>1. \A c \in 1..n + 1 : new[c] \in X \cup {x}
      BY <2>2, <2>3
    <3> QED BY <3>1
  <2> HIDE DEF new
  <2>5. \A c, d \in 1..n + 1 : c # d => new[c] # new[d]
    BY <2>1, <2>2, <2>3 DEF OwnedBy
  <2> HIDE DEF ds, tag, n
  <2>6. ASSUME NEW c \in 1..n + 1
        PROVE  /\ PieceDue(nodes, total, blank, new[c])
               /\ ds[c].lines = PieceLines(nodes, total, new[c])
               /\ ds[c].def = PieceTag(nodes, new[c])
    <3>1. CASE c = n + 1
      BY <1>1, <1>2, <1>4, <2>3, <3>1 DEF tag
    <3>2. CASE c \in 1..n
      BY <1>1, <1>4, <2>1, <2>3, <3>2 DEF OwnedBy, n
    <3> QED BY <2>2, <3>1, <3>2
  <2>7. ASSUME NEW y \in X \cup {x}, PieceDue(nodes, total, blank, y)
        PROVE  \E c \in 1..n + 1 : new[c] = y
    <3>1. CASE y = x
      BY <2>3, <3>1
    <3>2. CASE y \in X
      <4>1. PICK c \in 1..n : own[c] = y
        BY <2>1, <2>7, <3>2 DEF OwnedBy, n
      <4> QED BY <2>3, <4>1
    <3> QED BY <3>1, <3>2
  <2>8. OwnedBy(nodes, total, blank, X \cup {x}, ds, new)
    BY <1>1, <1>4, <2>4, <2>5, <2>6, <2>7 DEF OwnedBy
  <2> QED BY <1>1, <2>8 DEF Owned, ds, tag
<1> QED BY <1>3, <1>4

\* A module, field by field.
LEMMA ModuleNodes ==
    ASSUME NEW nodes, NEW total, NEW blank, Module(nodes, total, blank)
    PROVE  /\ Len(nodes) \in Nat /\ total \in Nat /\ DOMAIN nodes = 1..Len(nodes)
           /\ \A i \in 1..Len(nodes) :
                 /\ nodes[i].first \in 1..total /\ nodes[i].last \in 1..total
                 /\ nodes[i].first <= nodes[i].last
                 /\ nodes[i].first \notin blank /\ nodes[i].last \notin blank
           /\ \A i \in 1..Len(nodes) - 1 : nodes[i].last <= nodes[i + 1].first
<1> DEFINE R == [first : 1..total, last : 1..total, kind : {"import", "def", "other"}]
<1>1. nodes \in Seq(R) /\ total \in Nat
  BY DEF Module
<1>2. \A i \in 1..Len(nodes) : nodes[i] \in R
  <2> HIDE DEF R
  <2> QED BY <1>1, ElementOfSeq
<1>3. \A i \in 1..Len(nodes) : /\ nodes[i].first <= nodes[i].last
                               /\ {nodes[i].first, nodes[i].last} \cap blank = {}
  BY DEF Module
<1>4. \A i \in 1..Len(nodes) : nodes[i].first \notin blank /\ nodes[i].last \notin blank
  BY <1>3
<1>5. \A i \in 1..Len(nodes) - 1 : nodes[i].last <= nodes[i + 1].first
  BY DEF Module
<1>6. \A i \in 1..Len(nodes) : nodes[i].first \in 1..total /\ nodes[i].last \in 1..total
  BY <1>2
<1>7. Len(nodes) \in Nat /\ DOMAIN nodes = 1..Len(nodes)
  <2> HIDE DEF R
  <2> QED BY <1>1
<1> QED BY <1>1, <1>3, <1>4, <1>5, <1>6, <1>7

PieceKind == {"node", "gap"}

\* A node adds two pieces, what is before it and itself.
LEMMA AddNodeOwned ==
    ASSUME NEW nodes, NEW total, NEW blank, Module(nodes, total, blank),
           NEW n \in 1..Len(nodes), NEW st \in BodyState, st.end = PieceEnd(nodes, n),
           Owned(nodes, total, blank, (1..n - 1) \X PieceKind, st.chunks)
    PROVE  LET new == AddNode(st, nodes[n], n, blank)
           IN  /\ new.end = PieceEnd(nodes, n + 1)
               /\ Owned(nodes, total, blank, (1..n) \X PieceKind, new.chunks)
<1> DEFINE node == nodes[n]
           X == (1..n - 1) \X PieceKind
           g == <<n, "gap">>
           b == <<n, "node">>
           gap == Emit(st.chunks, st.end + 1, node.first - 1, 0, blank)
           tag == IF node.kind = "def" THEN n ELSE 0
           all == IF node.kind = "import" THEN gap
                  ELSE Emit(gap, node.first, node.last, tag, blank)
<1>1. /\ node.first \in Nat /\ node.last \in Nat /\ n \in Nat /\ n # Len(nodes) + 1
      /\ node.first - 1 \in Int /\ node.last \in Int
  BY ModuleNodes
<1>2. st.end \in Nat /\ st.end + 1 \in Nat /\ st.chunks \in Seq(PythonChunk)
  BY DEF BodyState
<1>3. AddNode(st, node, n, blank) = [end |-> node.last, chunks |-> all]
  <2>1. ~(node.first > st.end + 1) => gap = st.chunks
    <3>1. ~(node.first > st.end + 1) => (st.end + 1..node.first - 1) \ blank = {}
      <4> HIDE DEF node
      <4> QED BY <1>1, <1>2
    <3> HIDE DEF node
    <3> QED BY <3>1 DEF Emit
  <2> HIDE DEF node
  <2> QED BY <2>1 DEF AddNode
<1>4. /\ g \notin X /\ b \notin X \cup {g}
      /\ (1..n) \X PieceKind = (X \cup {g}) \cup {b}
  BY <1>1 DEF PieceKind
<1>5. /\ PieceLines(nodes, total, g) = st.end + 1..node.first - 1
      /\ PieceTag(nodes, g) = 0 /\ PieceTag(nodes, b) = tag
      /\ PieceLines(nodes, total, b) = node.first..node.last
  BY <1>1 DEF PieceLines, PieceTag
<1> HIDE DEF X
<1>6. gap \in Seq(PythonChunk) /\ Owned(nodes, total, blank, X \cup {g}, gap)
  <2> DEFINE from == st.end + 1
             to == node.first - 1
  <2>1. from \in Nat /\ to \in Int /\ from..to = PieceLines(nodes, total, g)
    BY <1>1, <1>2, <1>5
  <2>2. PieceTag(nodes, g) \in Nat /\ g[2] # "node"
    BY <1>5
  <2>3. Owned(nodes, total, blank, X, st.chunks)
    BY DEF X
  <2> HIDE DEF from, to, g
  <2>4. /\ Emit(st.chunks, from, to, PieceTag(nodes, g), blank) \in Seq(PythonChunk)
        /\ Owned(nodes, total, blank, X \cup {g},
                 Emit(st.chunks, from, to, PieceTag(nodes, g), blank))
    BY <1>2, <1>4, <2>1, <2>2, <2>3, OwnedEmit
  <2> QED BY <1>5, <2>4 DEF from, to
<1> HIDE DEF gap
<1>7. Owned(nodes, total, blank, (X \cup {g}) \cup {b}, all)
  <2>1. CASE node.kind = "import"
    <3>1. ~PieceDue(nodes, total, blank, b)
      BY <2>1 DEF PieceDue
    <3> HIDE DEF g, b
    <3>2. Owned(nodes, total, blank, (X \cup {g}) \cup {b}, gap)
      BY <1>6, <3>1, OwnedSkip
    <3> QED BY <2>1, <3>2
  <2>2. CASE node.kind # "import"
    <3> DEFINE from == node.first
               to == node.last
               Y == X \cup {g}
    <3>1. from \in Nat /\ to \in Int /\ from..to = PieceLines(nodes, total, b)
      BY <1>1, <1>5
    <3>2. PieceTag(nodes, b) \in Nat /\ nodes[b[1]].kind # "import"
      BY <1>1, <1>5, <2>2
    <3>3. b \notin Y /\ Owned(nodes, total, blank, Y, gap)
      BY <1>4, <1>6
    <3> HIDE DEF from, to, Y, b
    <3>4. Owned(nodes, total, blank, Y \cup {b}, Emit(gap, from, to, PieceTag(nodes, b), blank))
      BY <1>6, <3>1, <3>2, <3>3, OwnedEmit
    <3> QED BY <1>5, <2>2, <3>4 DEF from, to, Y
  <2> QED BY <2>1, <2>2
<1> HIDE DEF all
<1>8. Owned(nodes, total, blank, (1..n) \X PieceKind, all)
  BY <1>4, <1>7
<1>9. PieceEnd(nodes, n + 1) = node.last
  <2>1. n + 1 # 1 /\ (n + 1) - 1 = n
    BY <1>1
  <2> QED BY <2>1 DEF PieceEnd
<1> QED BY <1>3, <1>8, <1>9

\* After each number of nodes the chunks are owned by the pieces so far.
LEMMA BodiesOwned ==
    ASSUME NEW nodes, NEW total, NEW blank, Module(nodes, total, blank)
    PROVE  \A n \in 0..Len(nodes) :
              /\ Bodies(nodes, blank)[n] \in BodyState
              /\ Bodies(nodes, blank)[n].end = PieceEnd(nodes, n + 1)
              /\ Owned(nodes, total, blank, (1..n) \X PieceKind, Bodies(nodes, blank)[n].chunks)
<1> DEFINE N == Len(nodes)
           f == Bodies(nodes, blank)
           A == {n \in 0..N : /\ f[n].end = PieceEnd(nodes, n + 1)
                              /\ Owned(nodes, total, blank, (1..n) \X PieceKind, f[n].chunks)}
<1>1. N \in Nat
  BY ModuleNodes
<1>2. /\ f[0] = [end |-> 0, chunks |-> <<>>]
      /\ \A n \in 0..N : f[n] \in BodyState
      /\ \A n \in 1..N : f[n] = AddNode(f[n - 1], nodes[n], n, blank)
  BY BodiesStep
<1> HIDE DEF f, N
<1>3. 0 \in A
  <2>1. f[0].end = PieceEnd(nodes, 1)
    BY <1>2 DEF PieceEnd
  <2>2. (1..0) \X PieceKind = {} /\ f[0].chunks = <<>> /\ 0 \in 0..N
    BY <1>1, <1>2
  <2> DEFINE own == [c \in 1..0 |-> c]
  <2>3. OwnedBy(nodes, total, blank, {}, <<>>, own)
    <3>1. Len(<<>>) = 0 /\ own \in [1..0 -> {}]
      BY EmptySeq
    <3> QED BY <3>1 DEF OwnedBy
  <2> HIDE DEF own
  <2>4. Owned(nodes, total, blank, (1..0) \X PieceKind, f[0].chunks)
    BY <2>2, <2>3 DEF Owned
  <2> QED BY <2>1, <2>2, <2>4
<1>4. ASSUME NEW k \in 0..(N - 1), k \in A PROVE k + 1 \in A
  <2>1. k + 1 \in 1..N /\ k + 1 \in 0..N /\ (k + 1) - 1 = k /\ k \in 0..N
    BY <1>1
  <2>2. f[k + 1] = AddNode(f[k], nodes[k + 1], k + 1, blank) /\ f[k] \in BodyState
    BY <1>2, <2>1
  <2>3. /\ f[k].end = PieceEnd(nodes, k + 1)
        /\ Owned(nodes, total, blank, (1..(k + 1) - 1) \X PieceKind, f[k].chunks)
    BY <1>4, <2>1
  <2>4. /\ f[k + 1].end = PieceEnd(nodes, (k + 1) + 1)
        /\ Owned(nodes, total, blank, (1..k + 1) \X PieceKind, f[k + 1].chunks)
    <3> DEFINE m == k + 1
    <3> HIDE DEF m
    <3>1. m \in 1..Len(nodes) /\ f[k].end = PieceEnd(nodes, m)
      BY <2>1, <2>3 DEF m, N
    <3>2. Owned(nodes, total, blank, (1..m - 1) \X PieceKind, f[k].chunks)
      BY <2>3 DEF m
    <3>3. LET new == AddNode(f[k], nodes[m], m, blank)
          IN  /\ new.end = PieceEnd(nodes, m + 1)
              /\ Owned(nodes, total, blank, (1..m) \X PieceKind, new.chunks)
      BY <2>2, <3>1, <3>2, AddNodeOwned
    <3> QED BY <2>2, <3>3 DEF m
  <2> QED BY <2>1, <2>4
<1> HIDE DEF A
<1>5. \A n \in 0..N : n \in A
  BY <1>1, <1>3, <1>4, AllUpTo
<1> QED BY <1>2, <1>5 DEF A, N, f

\* Nodes come one after the other.
LEMMA NodesAscend ==
    ASSUME NEW nodes, NEW total, NEW blank, Module(nodes, total, blank)
    PROVE  \A i, j \in 1..Len(nodes) : i < j => nodes[i].last <= nodes[j].first
<1> DEFINE N == Len(nodes)
           A == {n \in 0..N : \A i \in 1..N : i < n => nodes[i].last <= nodes[n].first}
<1>1. /\ N \in Nat
      /\ \A i \in 1..N : /\ nodes[i].first \in Nat /\ nodes[i].last \in Nat
                         /\ nodes[i].first <= nodes[i].last
      /\ \A i \in 1..N - 1 : nodes[i].last <= nodes[i + 1].first
  BY ModuleNodes
<1> HIDE DEF N
<1>2. 0 \in A
  BY <1>1
<1>3. ASSUME NEW k \in 0..(N - 1), k \in A PROVE k + 1 \in A
  <2>1. k + 1 \in 1..N /\ k + 1 \in 0..N
    BY <1>1
  <2>2. ASSUME NEW i \in 1..N, i < k + 1 PROVE nodes[i].last <= nodes[k + 1].first
    <3> DEFINE a == nodes[i].last
               b == nodes[k].first
               c == nodes[k].last
               d == nodes[k + 1].first
    <3>1. k \in 1..N /\ k \in 1..N - 1 /\ (i < k \/ i = k)
      BY <1>1, <2>1, <2>2
    <3>2. a \in Nat /\ b \in Nat /\ c \in Nat /\ d \in Nat /\ b <= c /\ c <= d
      BY <1>1, <2>1, <3>1
    <3>3. (i < k => a <= b) /\ (i = k => a = c)
      BY <1>3
    <3> HIDE DEF a, b, c, d
    <3>4. a <= d
      BY <3>1, <3>2, <3>3
    <3> QED BY <3>4 DEF a, d
  <2> QED BY <2>1, <2>2
<1> HIDE DEF A
<1>4. \A n \in 0..N : n \in A
  BY <1>1, <1>2, <1>3, AllUpTo
<1>5. \A j \in 1..N : j \in 0..N
  BY <1>1
<1> QED BY <1>4, <1>5 DEF A, N

\* The pieces of a module.
Pieces(nodes) == ((1..Len(nodes)) \X PieceKind) \cup {<<Len(nodes) + 1, "gap">>}

\* A gap lies after the nodes before it and before those after it.
LEMMA GapApart ==
    ASSUME NEW nodes, NEW total, NEW blank, Module(nodes, total, blank),
           NEW i \in 1..Len(nodes) + 1, NEW l \in PieceLines(nodes, total, <<i, "gap">>)
    PROVE  /\ l \in 1..total
           /\ \A j \in 1..Len(nodes) : IF j < i THEN nodes[j].last < l ELSE l < nodes[j].first
<1> DEFINE N == Len(nodes)
           e == PieceEnd(nodes, i)
           t == IF i = N + 1 THEN total ELSE nodes[i].first - 1
<1>1. /\ N \in Nat /\ total \in Nat
      /\ \A j \in 1..N : /\ nodes[j].first \in 1..total /\ nodes[j].last \in 1..total
                         /\ nodes[j].first \in Nat /\ nodes[j].last \in Nat
                         /\ nodes[j].first <= nodes[j].last
  BY ModuleNodes
<1>2. l \in e + 1..t
  BY DEF PieceLines
<1>3. e \in Nat /\ t \in Int /\ t <= total
  <2>1. i # 1 => i - 1 \in 1..N
    BY <1>1
  <2>2. i # N + 1 => i \in 1..N
    BY <1>1
  <2>3. e \in Nat
    BY <1>1, <2>1 DEF PieceEnd
  <2>4. t \in Int /\ t <= total
    <3>1. CASE i = N + 1
      BY <1>1, <3>1
    <3>2. CASE i # N + 1
      <4> DEFINE a == nodes[i].first
      <4>1. a \in 1..total
        BY <1>1, <2>2, <3>2
      <4> HIDE DEF a
      <4>2. a - 1 \in Int /\ a - 1 <= total
        BY <1>1, <4>1
      <4> QED BY <3>2, <4>2 DEF a
    <3> QED BY <3>1, <3>2
  <2> QED BY <2>3, <2>4
<1>4. ASSUME NEW j \in 1..N, j < i PROVE nodes[j].last <= e
  <2>1. i # 1 /\ i - 1 \in 1..N /\ (j < i - 1 \/ j = i - 1)
    BY <1>1, <1>4
  <2>2. e = nodes[i - 1].last
    BY <2>1 DEF PieceEnd
  <2> DEFINE a == nodes[j].last
             b == nodes[i - 1].first
             c == nodes[i - 1].last
  <2>3. a \in Nat /\ b \in Nat /\ c \in Nat /\ b <= c
    BY <1>1, <2>1
  <2>4. j < i - 1 => a <= b
    BY <2>1, NodesAscend
  <2>5. j = i - 1 => a = c
    OBVIOUS
  <2> HIDE DEF a, b, c
  <2>6. a <= c
    BY <2>1, <2>3, <2>4, <2>5
  <2> QED BY <2>2, <2>6 DEF a, c
<1>5. ASSUME NEW j \in 1..N, ~(j < i) PROVE t < nodes[j].first
  <2>1. i \in 1..N /\ i # N + 1 /\ (i < j \/ i = j)
    BY <1>1, <1>5
  <2> DEFINE a == nodes[i].first
             b == nodes[i].last
             c == nodes[j].first
  <2>2. a \in Nat /\ b \in Nat /\ c \in Nat /\ a <= b /\ t = a - 1
    BY <1>1, <2>1
  <2>3. i < j => b <= c
    BY <2>1, NodesAscend
  <2>4. i = j => a = c
    OBVIOUS
  <2> HIDE DEF a, b, c, t
  <2>5. t < c
    BY <2>1, <2>2, <2>3, <2>4
  <2> QED BY <2>5 DEF c
<1> HIDE DEF e, t
<1>6. ASSUME NEW j \in 1..N PROVE IF j < i THEN nodes[j].last < l ELSE l < nodes[j].first
  <2> DEFINE a == nodes[j].first
             b == nodes[j].last
  <2>1. a \in Nat /\ b \in Nat
    BY <1>1
  <2>2. (j < i => b <= e) /\ (~(j < i) => t < a)
    BY <1>4, <1>5
  <2> HIDE DEF a, b
  <2>3. IF j < i THEN b < l ELSE l < a
    BY <1>2, <1>3, <2>1, <2>2
  <2> QED BY <2>3 DEF a, b
<1> QED BY <1>1, <1>2, <1>3, <1>6

\* Every line is in some piece.
LEMMA LinesPlaced ==
    ASSUME NEW nodes, NEW total, NEW blank, Module(nodes, total, blank), NEW l \in 1..total
    PROVE  \E x \in Pieces(nodes) : l \in PieceLines(nodes, total, x)
<1> DEFINE N == Len(nodes)
           S == {i \in 1..N + 1 : PieceEnd(nodes, i) < l}
<1>1. /\ N \in Nat /\ total \in Nat
      /\ \A j \in 1..N : /\ nodes[j].first \in Nat /\ nodes[j].last \in Nat
  BY ModuleNodes
<1> HIDE DEF N
<1>2. PICK i \in S : \A j \in S : i >= j
  <2>1. 1 \in S
    BY <1>1 DEF PieceEnd
  <2>2. S \in SUBSET (1..N + 1) /\ IsFiniteSet(1..N + 1) /\ S \in SUBSET Nat
    <3>1. 1 \in Int /\ N + 1 \in Int
      BY <1>1
    <3>2. IsFiniteSet(1..N + 1)
      BY <3>1, FS_Interval
    <3> QED BY <3>2
  <2> HIDE DEF S
  <2>3. IsFiniteSet(S)
    BY <2>2, FS_Subset
  <2> QED BY <2>1, <2>2, <2>3, MaxExists
<1>3. i \in 1..N + 1 /\ PieceEnd(nodes, i) < l
  OBVIOUS
<1>4. CASE i = N + 1
  <2> DEFINE x == <<N + 1, "gap">>
  <2>1. PieceEnd(nodes, i) \in Int
    <3>1. i # 1 => i - 1 \in 1..N
      BY <1>1, <1>3
    <3> QED BY <1>1, <3>1 DEF PieceEnd
  <2>2. x \in Pieces(nodes)
    BY DEF Pieces, N
  <2>3. l \in PieceEnd(nodes, i) + 1..total
    BY <1>1, <1>3, <2>1
  <2>4. l \in PieceLines(nodes, total, x)
    BY <1>4, <2>3 DEF PieceLines, N
  <2> QED BY <2>2, <2>4
<1>5. CASE i # N + 1
  <2>1. i \in 1..N /\ i + 1 \in 1..N + 1 /\ i + 1 # 1 /\ (i + 1) - 1 = i /\ ~(i >= i + 1)
    BY <1>1, <1>3, <1>5
  <2>2. ~(nodes[i].last < l)
    <3>1. i + 1 \notin S
      BY <1>2, <2>1
    <3> QED BY <2>1, <3>1 DEF PieceEnd
  <2> DEFINE a == nodes[i].first
             b == nodes[i].last
             e == PieceEnd(nodes, i)
  <2>3. a \in Nat /\ b \in Nat /\ ~(b < l) /\ e < l
    BY <1>1, <1>3, <2>1, <2>2
  <2>4. e \in Int
    <3>1. i # 1 => i - 1 \in 1..N
      BY <1>1, <1>3
    <3> QED BY <1>1, <3>1 DEF PieceEnd
  <2>5. <<i, "gap">> \in Pieces(nodes) /\ <<i, "node">> \in Pieces(nodes)
    BY <2>1 DEF Pieces, PieceKind, N
  <2>6. /\ PieceLines(nodes, total, <<i, "gap">>) = e + 1..a - 1
        /\ PieceLines(nodes, total, <<i, "node">>) = a..b
    BY <1>5 DEF PieceLines, N
  <2> HIDE DEF a, b, e
  <2>7. l \in e + 1..a - 1 \/ l \in a..b
    BY <2>3, <2>4
  <2> QED BY <2>5, <2>6, <2>7
<1> QED BY <1>4, <1>5

LEMMA AtMostOne ==
    ASSUME NEW S, IsFiniteSet(S)
    PROVE  Cardinality(S) <= 1 <=> \A a, b \in S : a = b
<1>1. ASSUME Cardinality(S) <= 1, NEW a \in S, NEW b \in S, a # b PROVE FALSE
  <2>1. IsFiniteSet({a, b}) /\ Cardinality({a, b}) = 2
    <3>1. IsFiniteSet({a}) /\ Cardinality({a}) = 1
      BY FS_Singleton
    <3>2. b \notin {a} /\ {a, b} = {a} \cup {b}
      BY <1>1
    <3> QED BY <3>1, <3>2, FS_AddElement
  <2>2. Cardinality({a, b}) <= Cardinality(S) /\ Cardinality(S) \in Nat
    BY FS_Subset, FS_CardinalityType
  <2> QED BY <1>1, <2>1, <2>2
<1>2. ASSUME \A a, b \in S : a = b PROVE Cardinality(S) <= 1
  <2>1. CASE S = {}
    BY <2>1, FS_EmptySet
  <2>2. CASE S # {}
    <3>1. PICK a \in S : TRUE
      BY <2>2
    <3>2. S = {a}
      BY <1>2, <3>1
    <3> QED BY <3>2, FS_Singleton
  <2> QED BY <2>1, <2>2
<1> QED BY <1>1, <1>2

\* The chunks of a module belong to its pieces one to one, unless there are none.
LEMMA PythonOwned ==
    ASSUME NEW nodes, NEW total, NEW blank, Module(nodes, total, blank)
    PROVE  \E all \in Seq(PythonChunk) :
              /\ Owned(nodes, total, blank, Pieces(nodes), all)
              /\ all # <<>> => PythonChunks(nodes, total, blank) = all
<1> DEFINE N == Len(nodes)
           body == Bodies(nodes, blank)[N]
           X == (1..N) \X PieceKind
           g == <<N + 1, "gap">>
           all == Emit(body.chunks, body.end + 1, total, 0, blank)
<1>1. N \in Nat /\ total \in Nat /\ N \in 0..N
  <2>1. N \in Nat /\ total \in Nat
    BY ModuleNodes
  <2> QED BY <2>1
<1>2. /\ body \in BodyState /\ body.end = PieceEnd(nodes, N + 1)
      /\ Owned(nodes, total, blank, X, body.chunks)
  BY <1>1, BodiesOwned
<1> HIDE DEF body
<1>3. body.end + 1 \in Nat /\ body.chunks \in Seq(PythonChunk) /\ total \in Int
  BY <1>1, <1>2 DEF BodyState
<1>4. g \notin X /\ PieceTag(nodes, g) = 0
      /\ body.end + 1..total = PieceLines(nodes, total, g)
  BY <1>1, <1>2 DEF PieceTag, PieceLines
<1>5. all \in Seq(PythonChunk) /\ Owned(nodes, total, blank, X \cup {g}, all)
  <2> DEFINE from == body.end + 1
  <2>1. from \in Nat /\ from..total = PieceLines(nodes, total, g)
    BY <1>3, <1>4
  <2>2. PieceTag(nodes, g) \in Nat /\ g[2] # "node"
    BY <1>4
  <2> HIDE DEF from, X, g
  <2>3. LET ds == Emit(body.chunks, from, total, PieceTag(nodes, g), blank)
        IN  ds \in Seq(PythonChunk) /\ Owned(nodes, total, blank, X \cup {g}, ds)
    BY <1>2, <1>3, <1>4, <2>1, <2>2, OwnedEmit
  <2> QED BY <1>4, <2>3 DEF from
<1>6. ~(body.end < total) => all = body.chunks
  <2>1. ~(body.end < total) => (body.end + 1..total) \ blank = {}
    <3> DEFINE e == body.end
    <3>1. e \in Nat /\ total \in Nat
      BY <1>1, <1>2 DEF BodyState
    <3> HIDE DEF e
    <3>2. ~(e < total) => (e + 1..total) \ blank = {}
      BY <3>1
    <3> QED BY <3>2 DEF e
  <2> QED BY <2>1 DEF Emit
<1>7. all # <<>> => PythonChunks(nodes, total, blank) = all
  BY <1>6 DEF PythonChunks, body
<1> HIDE DEF all
<1>8. Owned(nodes, total, blank, Pieces(nodes), all)
  BY <1>5 DEF Pieces
<1> QED BY <1>5, <1>7, <1>8

\* Every line of code but imports gets into a chunk, once unless nodes share it; the first case
\* is that of some chunk, the second of none (chunkers.py:96-141).
THEOREM PythonIsSound ==
    ASSUME NEW nodes, NEW total, NEW blank, Module(nodes, total, blank)
    PROVE  PythonSound(nodes, total, blank)
<1> DEFINE N == Len(nodes)
           of(l) == {i \in DOMAIN nodes : l \in nodes[i].first..nodes[i].last}
           imports(l) == of(l) # {} /\ \A i \in of(l) : nodes[i].kind = "import"
           lines(x) == PieceLines(nodes, total, x)
           due(x) == PieceDue(nodes, total, blank, x)
           P == Pieces(nodes)
<1>1. PICK all \in Seq(PythonChunk) : /\ Owned(nodes, total, blank, P, all)
                                      /\ all # <<>> => PythonChunks(nodes, total, blank) = all
  BY PythonOwned
<1>2. PICK own : OwnedBy(nodes, total, blank, P, all, own)
  BY <1>1 DEF Owned
<1>3. DOMAIN all = 1..Len(all) /\ Len(all) \in Nat /\ N \in Nat /\ DOMAIN nodes = 1..N
  BY <1>1, ModuleNodes
<1>4. \A j \in 1..N : /\ <<j, "node">> \in P /\ lines(<<j, "node">>) = nodes[j].first..nodes[j].last
                      /\ nodes[j].first \in lines(<<j, "node">>)
                      /\ nodes[j].first \notin blank
  <2> SUFFICES ASSUME NEW j \in 1..N
               PROVE  /\ <<j, "node">> \in P
                      /\ lines(<<j, "node">>) = nodes[j].first..nodes[j].last
                      /\ nodes[j].first \in lines(<<j, "node">>)
                      /\ nodes[j].first \notin blank
    OBVIOUS
  <2>1. <<j, "node">> \in P
    BY DEF Pieces, PieceKind
  <2>2. lines(<<j, "node">>) = nodes[j].first..nodes[j].last
    BY DEF PieceLines
  <2>3. /\ nodes[j].first \in 1..total /\ nodes[j].last \in 1..total /\ total \in Nat
        /\ nodes[j].first <= nodes[j].last /\ nodes[j].first \notin blank
    BY ModuleNodes
  <2> DEFINE a == nodes[j].first
             b == nodes[j].last
  <2>4. a \in a..b
    <3>1. a \in 1..total /\ b \in 1..total /\ total \in Nat /\ a <= b
      BY <2>3
    <3> HIDE DEF a, b
    <3> QED BY <3>1
  <2> QED BY <2>1, <2>2, <2>3, <2>4
<1>5. ASSUME NEW x \in P
      PROVE  (\E i \in 1..N + 1 : x = <<i, "gap">>) \/ (\E j \in 1..N : x = <<j, "node">>)
  BY <1>3 DEF Pieces, PieceKind
<1>6. ASSUME NEW i \in 1..N + 1, NEW l \in lines(<<i, "gap">>) PROVE of(l) = {}
  <2> SUFFICES ASSUME NEW j \in of(l) PROVE FALSE
    OBVIOUS
  <2>1. j \in 1..N /\ l \in nodes[j].first..nodes[j].last
    BY <1>3
  <2>2. IF j < i THEN nodes[j].last < l ELSE l < nodes[j].first
    BY <2>1, GapApart
  <2>3. l \in 1..total
    BY GapApart
  <2>4. nodes[j].first \in 1..total /\ nodes[j].last \in 1..total /\ total \in Nat
    BY <2>1, ModuleNodes
  <2> DEFINE a == nodes[j].first
             b == nodes[j].last
  <2>5. a \in Nat /\ b \in Nat /\ l \in Nat /\ l \in a..b /\ (b < l \/ l < a)
    BY <2>1, <2>2, <2>3, <2>4
  <2> HIDE DEF a, b
  <2> QED BY <2>5
<1> HIDE DEF lines, due
<1>7. ASSUME NEW x \in P, due(x) PROVE \E c \in 1..Len(all) : own[c] = x
  BY <1>2, <1>7 DEF OwnedBy, due
<1>8. ASSUME NEW c \in 1..Len(all)
      PROVE  /\ own[c] \in P /\ due(own[c]) /\ all[c].lines = lines(own[c])
             /\ all[c].def = PieceTag(nodes, own[c])
  BY <1>2 DEF OwnedBy, due, lines
<1>9. ASSUME NEW l \in (1..total) \ blank, ~imports(l)
      PROVE  \E c \in 1..Len(all) : l \in all[c].lines
  <2>1. PICK x \in P : l \in lines(x) /\ due(x)
    <3>1. CASE of(l) = {}
      <4>1. PICK x \in P : l \in lines(x)
        BY LinesPlaced DEF lines
      <4>2. x[2] # "node"
        <5> SUFFICES ASSUME NEW j \in 1..N, x = <<j, "node">> PROVE FALSE
          BY <1>5
        <5>1. j \in of(l)
          BY <1>3, <1>4, <4>1
        <5> QED BY <3>1, <5>1
      <4> QED BY <4>1, <4>2 DEF due, PieceDue, lines
    <3>2. CASE of(l) # {}
      <4>1. PICK j \in of(l) : nodes[j].kind # "import"
        BY <1>9, <3>2
      <4>2. j \in 1..N /\ l \in lines(<<j, "node">>) /\ <<j, "node">> \in P
        BY <1>3, <1>4
      <4>3. due(<<j, "node">>)
        BY <4>1, <4>2 DEF due, PieceDue, lines
      <4> QED BY <4>2, <4>3
    <3> QED BY <3>1, <3>2
  <2> HIDE DEF P
  <2>2. PICK c \in 1..Len(all) : own[c] = x
    BY <1>7, <2>1
  <2> QED BY <1>8, <2>1, <2>2
<1>10. ASSUME NEW c \in 1..Len(all), NEW l \in all[c].lines PROVE ~imports(l)
  <2> DEFINE x == own[c]
  <2>1. x \in P /\ due(x) /\ l \in lines(x)
    BY <1>8
  <2>2. CASE \E i \in 1..N + 1 : x = <<i, "gap">>
    BY <1>6, <2>1, <2>2
  <2>3. CASE \E j \in 1..N : x = <<j, "node">>
    <3>1. PICK j \in 1..N : x = <<j, "node">>
      BY <2>3
    <3>2. l \in nodes[j].first..nodes[j].last
      BY <1>4, <2>1, <3>1
    <3>3. j \in of(l)
      BY <1>3, <3>2
    <3>4. nodes[j].kind # "import"
      <4>1. due(<<j, "node">>)
        BY <2>1, <3>1
      <4> QED BY <4>1 DEF due, PieceDue
    <3> QED BY <3>3, <3>4
  <2> QED BY <1>5, <2>1, <2>2, <2>3
<1>11. ASSUME NEW l \in 1..total, Cardinality(of(l)) <= 1,
              NEW c \in 1..Len(all), NEW d \in 1..Len(all), l \in all[c].lines, l \in all[d].lines
       PROVE  c = d
  <2> SUFFICES ASSUME c # d PROVE FALSE
    OBVIOUS
  <2> DEFINE x == own[c]
             y == own[d]
  <2>1. x \in P /\ y \in P /\ l \in lines(x) /\ l \in lines(y) /\ x # y
    BY <1>2, <1>8, <1>11 DEF OwnedBy
  <2> HIDE DEF x, y
  <2>2. ASSUME NEW i \in 1..N + 1, NEW j \in 1..N + 1, i < j,
               l \in lines(<<i, "gap">>), l \in lines(<<j, "gap">>)
        PROVE  FALSE
    <3>1. i \in 1..N /\ ~(i < i)
      BY <1>3, <2>2
    <3>2. l < nodes[i].first /\ nodes[i].last < l
      BY <2>2, <3>1, GapApart DEF lines
    <3> DEFINE a == nodes[i].first
               b == nodes[i].last
    <3>3. a \in 1..total /\ b \in 1..total /\ a <= b /\ total \in Nat
      BY <3>1, ModuleNodes
    <3> HIDE DEF a, b
    <3>4. l < a /\ b < l
      BY <3>2 DEF a, b
    <3> QED BY <3>3, <3>4
  <2>3. CASE (\E i \in 1..N + 1 : x = <<i, "gap">>) /\ (\E j \in 1..N + 1 : y = <<j, "gap">>)
    <3>1. PICK i \in 1..N + 1, j \in 1..N + 1 : x = <<i, "gap">> /\ y = <<j, "gap">>
      BY <2>3
    <3>2. i < j \/ j < i
      BY <1>3, <2>1, <3>1
    <3> QED BY <2>1, <2>2, <3>1, <3>2
  <2>4. ASSUME NEW i \in 1..N + 1, NEW j \in 1..N, l \in lines(<<i, "gap">>),
               l \in lines(<<j, "node">>)
        PROVE  FALSE
    <3>1. j \in of(l)
      BY <1>3, <1>4, <2>4
    <3> QED BY <1>6, <2>4, <3>1
  <2>5. CASE (\E i \in 1..N : x = <<i, "node">>) /\ (\E j \in 1..N : y = <<j, "node">>)
    <3>1. PICK i \in 1..N, j \in 1..N : x = <<i, "node">> /\ y = <<j, "node">>
      BY <2>5
    <3>2. i \in of(l) /\ j \in of(l) /\ i # j
      BY <1>3, <1>4, <2>1, <3>1
    <3>3. IsFiniteSet(of(l))
      <4>1. of(l) \in SUBSET (1..N) /\ IsFiniteSet(1..N)
        BY <1>3, FS_Interval
      <4> QED BY <4>1, FS_Subset
    <3> HIDE DEF of
    <3> QED BY <1>11, <3>2, <3>3, AtMostOne
  <2> QED BY <1>5, <2>1, <2>3, <2>4, <2>5
<1>12. ASSUME NEW i \in 1..N, nodes[i].kind = "def"
       PROVE  \E c \in 1..Len(all) : all[c].def = i /\ all[c].lines = nodes[i].first..nodes[i].last
  <2> DEFINE x == <<i, "node">>
  <2>1. x \in P /\ due(x)
    BY <1>4, <1>12 DEF due, PieceDue, lines
  <2>2. PICK c \in 1..Len(all) : own[c] = x
    BY <1>7, <2>1
  <2>3. PieceTag(nodes, x) = i
    BY <1>12 DEF PieceTag
  <2> QED BY <1>4, <1>8, <2>2, <2>3
<1>13. CASE all = <<>>
  <2>1. Len(all) = 0
    BY <1>13, EmptySeq
  <2>2. \A l \in (1..total) \ blank : imports(l)
    BY <1>3, <1>9, <2>1
  <2> QED BY <2>2 DEF PythonSound
<1>14. CASE all # <<>>
  <2>1. PythonChunks(nodes, total, blank) = all
    BY <1>1, <1>14
  <2> DEFINE in(l) == {c \in DOMAIN all : l \in all[c].lines}
  <2>2. \A l \in (1..total) \ blank : IF imports(l) THEN in(l) = {} ELSE in(l) # {}
    BY <1>3, <1>9, <1>10
  <2>3. ASSUME NEW l \in 1..total, Cardinality(of(l)) <= 1 PROVE Cardinality(in(l)) <= 1
    <3>1. \A a, b \in in(l) : a = b
      BY <1>3, <1>11, <2>3
    <3>2. in(l) \in SUBSET (1..Len(all)) /\ IsFiniteSet(1..Len(all))
      BY <1>3, FS_Interval
    <3> HIDE DEF in, of
    <3>3. IsFiniteSet(in(l))
      BY <3>2, FS_Subset
    <3> QED BY <3>1, <3>3, AtMostOne
  <2>4. \A i \in DOMAIN nodes : nodes[i].kind = "def" =>
           \E c \in DOMAIN all : all[c].def = i /\ all[c].lines = nodes[i].first..nodes[i].last
    BY <1>3, <1>12
  <2> QED BY <2>1, <2>2, <2>3, <2>4 DEF PythonSound
<1> QED BY <1>13, <1>14
-----------------------------------------------------------------------------
(***************************************************************************)
(* Markdown. The blocks of a document follow one another; the loop over    *)
(* the lines is in a fence where its line is in a block that is not yet    *)
(* closed, and has cut before the headers seen outside of blocks           *)
(* (Scanned).                                                              *)
(***************************************************************************)
\* The first line from i on that opens a fence, and the one that closes the fence of line o; one
\* after the last if there is none.
Opener(lines, i) == Min({j \in i..Len(lines) : Opens(lines[j])} \cup {Len(lines) + 1})
Closer(lines, o) ==
    Min({j \in o + 1..Len(lines) : Closes(lines[j], lines[o].mark)} \cup {Len(lines) + 1})

\* The end of each fenced block.
Blocks(lines, f) ==
    /\ f[0] = 0
    /\ \A n \in 0..Len(lines) : f[n] \in 0..Len(lines) + 1
    /\ \A n \in 1..Len(lines) : f[n] = Closer(lines, Opener(lines, f[n - 1] + 1))

Fenced(lines, f) ==
    UNION {Opener(lines, f[n - 1] + 1)..f[n] : n \in 1..Len(lines)}

\* The first line from i on that opens a fence, or one beyond the last.
LEMMA OpenerIs ==
    ASSUME NEW lines, Len(lines) \in Nat, NEW i \in 1..Len(lines) + 2
    PROVE  /\ Opener(lines, i) \in 1..Len(lines) + 1
           /\ Opener(lines, i) >= i \/ Opener(lines, i) = Len(lines) + 1
           /\ Opener(lines, i) # Len(lines) + 1 => Opens(lines[Opener(lines, i)])
           /\ \A j \in i..Len(lines) : Opens(lines[j]) => Opener(lines, i) <= j
<1> DEFINE N == Len(lines)
           S == {j \in i..N : Opens(lines[j])} \cup {N + 1}
<1>1. N \in Nat /\ i \in Nat /\ i >= 1
  OBVIOUS
<1> HIDE DEF N
<1>2. S \in SUBSET Nat /\ S # {}
  BY <1>1
<1>3. Min(S) \in S /\ \A j \in S : Min(S) <= j
  <2> HIDE DEF S
  <2> QED BY <1>2, MinExists
<1>4. Opener(lines, i) = Min(S)
  BY DEF Opener, N
<1> QED BY <1>1, <1>3, <1>4 DEF N

LEMMA CloserIs ==
    ASSUME NEW lines, Len(lines) \in Nat, NEW o \in 1..Len(lines) + 1
    PROVE  /\ Closer(lines, o) \in 1..Len(lines) + 1
           /\ Closer(lines, o) > o \/ Closer(lines, o) = Len(lines) + 1
           /\ Closer(lines, o) # Len(lines) + 1 =>
                 Closes(lines[Closer(lines, o)], lines[o].mark)
           /\ \A j \in o + 1..Len(lines) :
                 Closes(lines[j], lines[o].mark) => Closer(lines, o) <= j
<1> DEFINE N == Len(lines)
           S == {j \in o + 1..N : Closes(lines[j], lines[o].mark)} \cup {N + 1}
<1>1. N \in Nat /\ o \in Nat /\ o >= 1 /\ o <= N + 1
  OBVIOUS
<1> HIDE DEF N
<1>2. S \in SUBSET Nat /\ S # {}
  BY <1>1
<1>3. Min(S) \in S /\ \A j \in S : Min(S) <= j
  <2> HIDE DEF S
  <2> QED BY <1>2, MinExists
<1>4. Closer(lines, o) = Min(S)
  BY DEF Closer, N
<1> QED BY <1>1, <1>3, <1>4 DEF N

\* The reference of SectionsSound is of this kind.
LEMMA BlocksExist ==
    ASSUME NEW lines, MarkdownLines(lines)
    PROVE  \E f : /\ Blocks(lines, f)
                  /\ SectionsSound(lines) <=>
                         SectionStarts(lines) =
                             {i \in 2..Len(lines) : lines[i].header /\ lines[i].mark = 0
                                                       /\ i \notin Fenced(lines, f)}
<1> DEFINE N == Len(lines)
           T == 0..N + 1
           next(e) == Closer(lines, Opener(lines, e + 1))
           step == [x \in (1..N) \X T |-> next(x[2])]
           Is(f) == f = [n \in 0..N |->
                            IF n = 0 THEN 0
                            ELSE Min({j \in Min({k \in f[n - 1] + 1..N : Opens(lines[k])}
                                                \cup {N + 1}) + 1..N :
                                          Closes(lines[j],
                                                 lines[Min({k \in f[n - 1] + 1..N : Opens(lines[k])}
                                                           \cup {N + 1})].mark)} \cup {N + 1})]
<1>1. N \in Nat /\ 0 \in T
  BY DEF MarkdownLines
<1>2. \A e \in T : next(e) \in T
  <2> SUFFICES ASSUME NEW e \in T PROVE next(e) \in T
    OBVIOUS
  <2>1. e + 1 \in 1..Len(lines) + 2
    BY <1>1
  <2>2. Opener(lines, e + 1) \in 1..Len(lines) + 1
    BY <1>1, <2>1, OpenerIs
  <2>3. next(e) \in 1..Len(lines) + 1
    BY <1>1, <2>2, CloserIs
  <2> QED BY <1>1, <2>3
<1> HIDE DEF next
<1>3. step \in [(1..N) \X T -> T]
  <2> HIDE DEF T
  <2> QED BY <1>2
<1>4. PICK g \in [0..N -> T] : Iterates(N, 0, step, g)
  <2> HIDE DEF step, T, N
  <2> QED BY <1>1, <1>3, RecursionExists
<1> HIDE DEF N
<1>5. ASSUME NEW n \in 0..N PROVE g[n] = IF n = 0 THEN 0 ELSE next(g[n - 1])
  <2>1. g[n] = IF n = 0 THEN 0 ELSE step[<<n, g[n - 1]>>]
    BY <1>4 DEF Iterates
  <2>2. n # 0 => n - 1 \in 0..N /\ n \in 1..N
    BY <1>1
  <2> HIDE DEF T
  <2>3. n # 0 => <<n, g[n - 1]>> \in (1..N) \X T
    BY <1>4, <2>2
  <2> QED BY <2>1, <2>3
<1>6. Is(g)
  <2>1. \A n \in 0..N :
           g[n] = IF n = 0 THEN 0
                  ELSE Min({j \in Min({k \in g[n - 1] + 1..N : Opens(lines[k])}
                                      \cup {N + 1}) + 1..N :
                                Closes(lines[j],
                                       lines[Min({k \in g[n - 1] + 1..N : Opens(lines[k])}
                                                 \cup {N + 1})].mark)} \cup {N + 1})
    BY <1>5 DEF next, Opener, Closer, N
  <2> HIDE DEF step, T
  <2> QED BY <1>4, <2>1
<1> DEFINE f == CHOOSE u : Is(u)
<1>7. Is(f)
  BY <1>6
<1>8. SectionsSound(lines) <=>
          SectionStarts(lines) =
              {i \in 2..N : lines[i].header /\ lines[i].mark = 0 /\ i \notin Fenced(lines, f)}
  BY DEF SectionsSound, Fenced, Opener, N
<1> HIDE DEF f
<1>9. \A n \in 0..N : f[n] = IF n = 0 THEN 0 ELSE next(f[n - 1])
  BY <1>7 DEF next, Opener, Closer, N
<1>10. ASSUME NEW n \in 0..N PROVE f[n] \in T
  <2> DEFINE A == {k \in 0..N : f[k] \in T}
  <2>1. 0 \in A
    BY <1>1, <1>9
  <2>2. ASSUME NEW k \in 0..(N - 1), k \in A PROVE k + 1 \in A
    <3>1. k + 1 \in 0..N /\ k + 1 # 0 /\ (k + 1) - 1 = k
      BY <1>1
    <3>2. f[k + 1] = next(f[k])
      BY <1>9, <3>1
    <3>3. f[k + 1] \in T
      BY <1>2, <2>2, <3>2
    <3> QED BY <3>1, <3>3
  <2> HIDE DEF A
  <2>3. \A k \in 0..N : k \in A
    BY <1>1, <2>1, <2>2, AllUpTo
  <2> QED BY <2>3 DEF A
<1>11. Blocks(lines, f)
  <2>1. 0 \in 0..N /\ \A n \in 1..N : n \in 0..N /\ n # 0
    BY <1>1
  <2> QED BY <1>9, <1>10, <2>1 DEF Blocks, N, next
<1> QED BY <1>8, <1>11 DEF N

\* Blocks and what is between them go on.
LEMMA BlocksAscend ==
    ASSUME NEW lines, Len(lines) \in Nat, NEW f, Blocks(lines, f)
    PROVE  /\ \A n \in 1..Len(lines) : f[n - 1] <= f[n]
           /\ \A m, n \in 0..Len(lines) : m <= n => f[m] <= f[n]
           /\ \A m, n \in 1..Len(lines) :
                 m <= n => Opener(lines, f[m - 1] + 1) <= Opener(lines, f[n - 1] + 1)
<1> DEFINE N == Len(lines)
           o(n) == Opener(lines, f[n - 1] + 1)
           A == {n \in 0..N : \A m \in 0..n : f[m] <= f[n]}
<1>1. /\ N \in Nat /\ \A n \in 0..N : f[n] \in 0..N + 1
      /\ \A n \in 1..N : n - 1 \in 0..N /\ n \in 0..N
  BY DEF Blocks
<1>2. ASSUME NEW n \in 1..N
      PROVE  /\ f[n - 1] \in 0..N + 1 /\ f[n - 1] + 1 \in 1..Len(lines) + 2 /\ o(n) \in 1..N + 1
             /\ o(n) >= f[n - 1] + 1 \/ o(n) = N + 1
             /\ \A j \in f[n - 1] + 1..N : Opens(lines[j]) => o(n) <= j
             /\ o(n) # N + 1 => Opens(lines[o(n)])
             /\ f[n] > o(n) \/ f[n] = N + 1
  <2> DEFINE e == f[n - 1] + 1
  <2>1. f[n - 1] \in 0..N + 1
    BY <1>1
  <2>2. e \in 1..Len(lines) + 2
    BY <1>1, <2>1
  <2> HIDE DEF e
  <2>3. /\ Opener(lines, e) \in 1..Len(lines) + 1
        /\ Opener(lines, e) >= e \/ Opener(lines, e) = Len(lines) + 1
        /\ Opener(lines, e) # Len(lines) + 1 => Opens(lines[Opener(lines, e)])
        /\ \A j \in e..Len(lines) : Opens(lines[j]) => Opener(lines, e) <= j
    BY <2>2, OpenerIs
  <2>4. /\ o(n) \in 1..N + 1
        /\ o(n) >= e \/ o(n) = N + 1
        /\ o(n) # N + 1 => Opens(lines[o(n)])
        /\ \A j \in e..N : Opens(lines[j]) => o(n) <= j
    BY <2>3 DEF e
  <2>5. f[n] = Closer(lines, o(n))
    BY DEF Blocks
  <2> HIDE DEF o
  <2>6. f[n] > o(n) \/ f[n] = N + 1
    BY <2>4, <2>5, CloserIs
  <2> QED BY <2>1, <2>2, <2>4, <2>6 DEF e
<1> HIDE DEF o, N
<1>3. ASSUME NEW n \in 1..N PROVE f[n - 1] <= f[n]
  <2>1. f[n - 1] \in 0..N + 1 /\ f[n] \in 0..N + 1 /\ o(n) \in 1..N + 1
    BY <1>1, <1>2
  <2>2. (o(n) >= f[n - 1] + 1 \/ o(n) = N + 1) /\ (f[n] > o(n) \/ f[n] = N + 1)
    BY <1>2
  <2> QED BY <1>1, <2>1, <2>2
<1>4. \A m, n \in 0..N : m <= n => f[m] <= f[n]
  <2>1. 0 \in A
    BY <1>1
  <2>2. ASSUME NEW k \in 0..(N - 1), k \in A PROVE k + 1 \in A
    <3>1. k + 1 \in 1..N /\ k + 1 \in 0..N /\ (k + 1) - 1 = k /\ k \in 0..N
      BY <1>1
    <3>2. f[k] <= f[k + 1]
      BY <1>3, <3>1
    <3>3. ASSUME NEW m \in 0..k + 1 PROVE f[m] <= f[k + 1]
      <4> DEFINE a == f[m]
                 b == f[k]
                 c == f[k + 1]
      <4>1. m \in 0..N /\ (m = k + 1 \/ m \in 0..k)
        BY <1>1, <3>1
      <4>2. a \in 0..N + 1 /\ b \in 0..N + 1 /\ c \in 0..N + 1 /\ b <= c
        BY <1>1, <3>1, <3>2, <4>1
      <4>3. m \in 0..k => a <= b
        BY <2>2
      <4>4. m = k + 1 => a = c
        OBVIOUS
      <4> HIDE DEF a, b, c
      <4>5. a <= c
        BY <1>1, <4>1, <4>2, <4>3, <4>4
      <4> QED BY <4>5 DEF a, c
    <3> QED BY <3>1, <3>3
  <2> HIDE DEF A
  <2>3. \A k \in 0..N : k \in A
    BY <1>1, <2>1, <2>2, AllUpTo
  <2>4. \A m, n \in 0..N : m <= n => m \in 0..n
    BY <1>1
  <2> QED BY <2>3, <2>4 DEF A
<1>5. ASSUME NEW m \in 1..N, NEW n \in 1..N, m <= n PROVE o(m) <= o(n)
  <2> DEFINE a == f[m - 1]
             b == f[n - 1]
  <2>1. m - 1 \in 0..N /\ n - 1 \in 0..N /\ m - 1 <= n - 1
    BY <1>1, <1>5
  <2>2. a <= b /\ a \in 0..N + 1 /\ b \in 0..N + 1
    BY <1>1, <1>4, <2>1
  <2>3. /\ o(m) \in 1..N + 1 /\ o(n) \in 1..N + 1 /\ (o(n) >= b + 1 \/ o(n) = N + 1)
        /\ \A j \in a + 1..N : Opens(lines[j]) => o(m) <= j
        /\ o(n) # N + 1 => Opens(lines[o(n)])
    BY <1>2
  <2> HIDE DEF a, b
  <2>4. CASE o(n) = N + 1
    BY <1>1, <2>3, <2>4
  <2>5. CASE o(n) # N + 1
    <3> DEFINE p == o(n)
    <3>1. p \in 1..N + 1 /\ p # N + 1 /\ p >= b + 1 /\ Opens(lines[p])
      BY <2>3, <2>5
    <3> HIDE DEF p
    <3>2. p \in a + 1..N
      BY <1>1, <2>2, <3>1
    <3>3. o(m) <= p
      BY <2>3, <3>1, <3>2
    <3> QED BY <3>3 DEF p
  <2> QED BY <2>4, <2>5
<1> QED BY <1>3, <1>4, <1>5 DEF N, o

ScanState == [fence : Int, cuts : SUBSET Nat]

\* A line, field by field.
LEMMA LineType ==
    ASSUME NEW lines, MarkdownLines(lines)
    PROVE  /\ Len(lines) \in Nat
           /\ \A i \in 1..Len(lines) : lines[i].header \in BOOLEAN /\ lines[i].mark \in Int
<1> DEFINE R == [header : BOOLEAN, mark : Int, info : {"none", "text", "tick"}]
<1>1. lines \in Seq(R)
  BY DEF MarkdownLines
<1>2. \A i \in 1..Len(lines) : lines[i] \in R
  <2> HIDE DEF R
  <2> QED BY <1>1, ElementOfSeq
<1>3. Len(lines) \in Nat
  <2> HIDE DEF R
  <2> QED BY <1>1
<1> QED BY <1>2, <1>3

LEMMA ScanLineType ==
    ASSUME NEW line, line.mark \in Int, NEW i \in Nat, NEW st \in ScanState
    PROVE  ScanLine(st, line, i) \in ScanState
BY DEF ScanLine, ScanState

\* The loop over the lines is a recursion.
LEMMA ScansStep ==
    ASSUME NEW lines, MarkdownLines(lines)
    PROVE  LET after == Scans(lines)
           IN  /\ after[0] = [fence |-> 0, cuts |-> {}]
               /\ \A n \in 0..Len(lines) : after[n] \in ScanState
               /\ \A n \in 1..Len(lines) : after[n] = ScanLine(after[n - 1], lines[n], n)
<1> DEFINE N == Len(lines)
           T == ScanState
           base == [fence |-> 0, cuts |-> {}]
           step == [x \in (1..N) \X T |-> ScanLine(x[2], lines[x[1]], x[1])]
           Is(f) == f = [n \in 0..N |-> IF n = 0 THEN [fence |-> 0, cuts |-> {}]
                                        ELSE ScanLine(f[n - 1], lines[n], n)]
<1>1. N \in Nat /\ \A i \in 1..N : lines[i].mark \in Int
  BY LineType
<1>2. base \in T /\ step \in [(1..N) \X T -> T]
  <2>1. \A x \in (1..N) \X T : ScanLine(x[2], lines[x[1]], x[1]) \in T
    <3> SUFFICES ASSUME NEW x \in (1..N) \X T
                 PROVE  ScanLine(x[2], lines[x[1]], x[1]) \in T
      OBVIOUS
    <3>1. lines[x[1]].mark \in Int /\ x[1] \in Nat /\ x[2] \in T
      BY <1>1
    <3> QED BY <3>1, ScanLineType
  <2>2. base \in T
    BY DEF ScanState
  <2> HIDE DEF T, base
  <2> QED BY <2>1, <2>2
<1> HIDE DEF N
<1>3. PICK g \in [0..N -> T] : Iterates(N, base, step, g)
  <2> HIDE DEF step, T, base
  <2> QED BY <1>1, <1>2, RecursionExists
<1>4. ASSUME NEW n \in 0..N
      PROVE  g[n] = IF n = 0 THEN base ELSE ScanLine(g[n - 1], lines[n], n)
  <2>1. g[n] = IF n = 0 THEN base ELSE step[<<n, g[n - 1]>>]
    BY <1>3 DEF Iterates
  <2>2. n # 0 => n - 1 \in 0..N /\ n \in 1..N
    BY <1>1
  <2> HIDE DEF T, base
  <2>3. n # 0 => <<n, g[n - 1]>> \in (1..N) \X T
    BY <1>3, <2>2
  <2> QED BY <2>1, <2>3
<1>5. Is(g)
  <2> HIDE DEF T, step
  <2> QED BY <1>4
<1> DEFINE f == CHOOSE u : Is(u)
<1>6. Is(f)
  BY <1>5
<1>7. Scans(lines) = f
  BY DEF Scans, N
<1> HIDE DEF f
<1>8. \A n \in 0..N : f[n] = IF n = 0 THEN base ELSE ScanLine(f[n - 1], lines[n], n)
  BY <1>6
<1>9. ASSUME NEW n \in 0..N PROVE f[n] \in T
  <2> DEFINE A == {k \in 0..N : f[k] \in T}
  <2>1. 0 \in A
    <3>1. 0 \in 0..N
      BY <1>1
    <3> HIDE DEF T, base
    <3> QED BY <1>2, <1>8, <3>1
  <2>2. ASSUME NEW k \in 0..(N - 1), k \in A PROVE k + 1 \in A
    <3>1. k + 1 \in 0..N /\ k + 1 \in 1..N /\ k + 1 # 0 /\ (k + 1) - 1 = k /\ k + 1 \in Nat
      BY <1>1
    <3>2. f[k + 1] = ScanLine(f[k], lines[k + 1], k + 1)
      BY <1>8, <3>1
    <3>3. f[k + 1] \in T
      BY <1>1, <2>2, <3>1, <3>2, ScanLineType
    <3> QED BY <3>1, <3>3
  <2> HIDE DEF A
  <2>3. \A k \in 0..N : k \in A
    BY <1>1, <2>1, <2>2, AllUpTo
  <2> QED BY <2>3 DEF A
<1>10. 0 \in 0..N /\ \A n \in 1..N : n \in 0..N /\ n # 0
  BY <1>1
<1> HIDE DEF T
<1>11. /\ f[0] = base
       /\ \A n \in 0..N : f[n] \in T
       /\ \A n \in 1..N : f[n] = ScanLine(f[n - 1], lines[n], n)
  BY <1>8, <1>9, <1>10
<1> QED BY <1>7, <1>11 DEF N, T

\* The first n lines are scanned: k fenced blocks have ended, and the next one has begun or
\* not; the cuts among the lines are right.
Scanned(lines, f, n, st) ==
    /\ st.cuts = {i \in 2..n : lines[i].header /\ lines[i].mark = 0 /\ i \notin Fenced(lines, f)}
    /\ \E k \in 0..n :
          /\ k <= f[k] /\ f[k] <= n
          /\ LET o == Opener(lines, f[k] + 1)
             IN  \/ st.fence = 0 /\ o > n
                 \/ /\ st.fence # 0 /\ o <= n
                    /\ st.fence = lines[o].mark /\ Closer(lines, o) > n

\* A line that is no fence is in a block or not.
LEMMA FencedAt ==
    ASSUME NEW lines, MarkdownLines(lines), NEW f, Blocks(lines, f),
           NEW n \in 0..Len(lines) - 1, NEW k \in 0..n, k <= f[k], f[k] <= n
    PROVE  LET o == Opener(lines, f[k] + 1)
           IN  /\ o > n + 1 => n + 1 \notin Fenced(lines, f)
               /\ o <= n /\ Closer(lines, o) > n => n + 1 \in Fenced(lines, f)
<1> DEFINE N == Len(lines)
           o(m) == Opener(lines, f[m - 1] + 1)
<1>1. /\ N \in Nat /\ n \in Nat /\ k \in Nat /\ k <= n /\ n + 1 <= N
      /\ k + 1 \in 1..N /\ (k + 1) - 1 = k /\ k \in 0..N
  BY LineType
<1>2. \A m \in 0..N : f[m] \in 0..N + 1
  BY DEF Blocks
<1>3. /\ \A i, m \in 0..N : i <= m => f[i] <= f[m]
      /\ \A i, m \in 1..N : i <= m => o(i) <= o(m)
  BY <1>1, BlocksAscend
<1>4. \A m \in 1..N : o(m) \in 1..N + 1
  <2> SUFFICES ASSUME NEW m \in 1..N PROVE o(m) \in 1..N + 1
    OBVIOUS
  <2>1. f[m - 1] \in 0..N + 1
    BY <1>1, <1>2
  <2>2. f[m - 1] + 1 \in 1..Len(lines) + 2
    BY <1>1, <2>1
  <2> QED BY <1>1, <2>2, OpenerIs
<1>5. Opener(lines, f[k] + 1) = o(k + 1)
  BY <1>1
<1>6. Fenced(lines, f) = UNION {o(m)..f[m] : m \in 1..N}
  BY DEF Fenced
<1> HIDE DEF o, N
<1>7. ASSUME o(k + 1) > n + 1, n + 1 \in Fenced(lines, f) PROVE FALSE
  <2>1. PICK m \in 1..N : n + 1 \in o(m)..f[m]
    BY <1>6, <1>7
  <2>2. CASE m <= k
    <3>1. f[m] <= f[k] /\ f[m] \in 0..N + 1 /\ f[k] \in 0..N + 1
      BY <1>1, <1>2, <1>3, <2>2
    <3> QED BY <1>1, <2>1, <3>1
  <2>3. CASE ~(m <= k)
    <3>1. o(k + 1) <= o(m) /\ o(m) \in 1..N + 1 /\ o(k + 1) \in 1..N + 1
      BY <1>1, <1>3, <1>4, <2>3
    <3> QED BY <1>1, <1>7, <2>1, <3>1
  <2> QED BY <2>2, <2>3
<1>8. ASSUME o(k + 1) <= n, Closer(lines, o(k + 1)) > n PROVE n + 1 \in Fenced(lines, f)
  <2>1. f[k + 1] = Closer(lines, o(k + 1))
    BY <1>1, <1>5 DEF Blocks, N
  <2>2. k + 1 \in 0..N /\ f[k + 1] \in 0..N + 1 /\ o(k + 1) \in 1..N + 1
    BY <1>1, <1>2, <1>4
  <2>3. n + 1 \in o(k + 1)..f[k + 1]
    BY <1>1, <1>8, <2>1, <2>2
  <2> QED BY <1>1, <1>6, <2>3
<1> QED BY <1>5, <1>7, <1>8

\* One more line: the fence is open exactly in a block, the cuts are the headers outside.
LEMMA ScannedStep ==
    ASSUME NEW lines, MarkdownLines(lines), NEW f, Blocks(lines, f),
           NEW n \in 0..Len(lines) - 1, NEW st \in ScanState, Scanned(lines, f, n, st)
    PROVE  Scanned(lines, f, n + 1, ScanLine(st, lines[n + 1], n + 1))
<1> DEFINE N == Len(lines)
           line == lines[n + 1]
           mark == line.mark
           after == ScanLine(st, line, n + 1)
           head(i) == lines[i].header /\ lines[i].mark = 0 /\ i \notin Fenced(lines, f)
<1>1. /\ N \in Nat /\ n \in Nat /\ n + 1 <= N /\ n + 1 \in 1..N
      /\ mark \in Int /\ line.header \in BOOLEAN
  BY LineType
<1>2. PICK k \in 0..n :
          /\ k <= f[k] /\ f[k] <= n
          /\ LET o == Opener(lines, f[k] + 1)
             IN  \/ st.fence = 0 /\ o > n
                 \/ /\ st.fence # 0 /\ o <= n
                    /\ st.fence = lines[o].mark /\ Closer(lines, o) > n
  BY DEF Scanned
<1> DEFINE e == f[k]
           o == Opener(lines, e + 1)
           c == Closer(lines, o)
<1>3. e \in 0..n /\ k \in 0..N /\ k \in Nat /\ k + 1 \in 1..N /\ k <= e
  <2>1. k \in 0..N /\ k \in Nat /\ k + 1 \in 1..N
    BY <1>1
  <2>2. e \in 0..N + 1
    BY <2>1 DEF Blocks
  <2> QED BY <1>1, <1>2, <2>1, <2>2
<1>4. f[k + 1] = c
  <2>1. (k + 1) - 1 = k
    BY <1>3
  <2> QED BY <1>3, <2>1 DEF Blocks
<1>5. /\ o > n + 1 => n + 1 \notin Fenced(lines, f)
      /\ o <= n /\ c > n => n + 1 \in Fenced(lines, f)
  BY <1>2, FencedAt
<1>6. \/ st.fence = 0 /\ o > n
      \/ st.fence # 0 /\ o <= n /\ st.fence = lines[o].mark /\ c > n
  BY <1>2
<1>7. st.cuts = {i \in 2..n : head(i)}
  BY DEF Scanned
<1> HIDE DEF e, N
<1>8. e + 1 \in 1..Len(lines) + 2
  BY <1>1, <1>3 DEF N
<1>9. /\ o \in 1..N + 1 /\ (o # N + 1 => Opens(lines[o]))
      /\ \A j \in e + 1..N : Opens(lines[j]) => o <= j
  BY <1>8, OpenerIs, <1>1 DEF N
<1> HIDE DEF o
<1>10. /\ c \in 1..N + 1 /\ (c > o \/ c = N + 1)
       /\ c # N + 1 => Closes(lines[c], lines[o].mark)
       /\ \A j \in o + 1..N : Closes(lines[j], lines[o].mark) => c <= j
  BY <1>1, <1>9, CloserIs DEF N
<1> HIDE DEF c
<1>11. st.fence \in Int /\ st.cuts \in SUBSET Nat
  BY DEF ScanState
<1>12. SUFFICES /\ after.cuts = {i \in 2..n + 1 : head(i)}
                /\ \E q \in 0..n + 1 :
                      /\ q <= f[q] /\ f[q] <= n + 1
                      /\ \/ after.fence = 0 /\ Opener(lines, f[q] + 1) > n + 1
                         \/ /\ after.fence # 0 /\ Opener(lines, f[q] + 1) <= n + 1
                            /\ after.fence = lines[Opener(lines, f[q] + 1)].mark
                            /\ Closer(lines, Opener(lines, f[q] + 1)) > n + 1
  BY DEF Scanned
  \* The block that is going on or next remains so.
<1>13. ASSUME \/ after.fence = 0 /\ o > n + 1
              \/ after.fence # 0 /\ o <= n + 1 /\ after.fence = lines[o].mark /\ c > n + 1
       PROVE  \E q \in 0..n + 1 :
                  /\ q <= f[q] /\ f[q] <= n + 1
                  /\ \/ after.fence = 0 /\ Opener(lines, f[q] + 1) > n + 1
                     \/ /\ after.fence # 0 /\ Opener(lines, f[q] + 1) <= n + 1
                        /\ after.fence = lines[Opener(lines, f[q] + 1)].mark
                        /\ Closer(lines, Opener(lines, f[q] + 1)) > n + 1
  <2>1. k \in 0..n + 1 /\ k <= f[k] /\ f[k] <= n + 1
    BY <1>1, <1>3 DEF e
  <2> HIDE DEF after
  <2> QED BY <1>13, <2>1 DEF o, c, e
<1>14. ASSUME NEW new, new = IF head(n + 1) /\ n + 1 > 1 THEN {n + 1} ELSE {}
       PROVE  st.cuts \cup new = {i \in 2..n + 1 : head(i)}
  <2> HIDE DEF head
  <2> QED BY <1>1, <1>7, <1>14
<1>15. CASE mark = 0
  <2>1. after.fence = st.fence
    BY <1>15 DEF ScanLine, ScanState
  <2>2. ~Opens(line)
    BY <1>15 DEF Opens
  <2>3. CASE st.fence = 0
    <3>1. o # n + 1
      BY <1>1, <1>9, <2>2
    <3>2. o > n + 1
      BY <1>1, <1>6, <1>9, <2>3, <3>1
    <3>3. n + 1 \notin Fenced(lines, f)
      BY <1>5, <3>2
    <3>4. head(n + 1) <=> line.header
      BY <1>1, <1>15, <3>3
    <3>5. after.cuts = st.cuts \cup (IF line.header /\ n + 1 > 1 THEN {n + 1} ELSE {})
      BY <1>15, <2>3 DEF ScanLine, ScanState
    <3> HIDE DEF head, after, line
    <3>6. after.cuts = {i \in 2..n + 1 : head(i)}
      BY <1>14, <3>4, <3>5
    <3> QED BY <1>13, <2>1, <2>3, <3>2, <3>6
  <2>4. CASE st.fence # 0
    <3>1. lines[o].mark # 0 /\ lines[o].mark \in Int /\ o <= n /\ c > n
      BY <1>6, <1>11, <2>4
    <3>2. ~Closes(line, lines[o].mark)
      BY <1>15, <3>1 DEF Closes
    <3>3. c # n + 1
      BY <1>1, <1>10, <3>2
    <3>4. c > n + 1
      BY <1>1, <1>10, <3>1, <3>3
    <3>5. ~head(n + 1)
      BY <1>5, <3>1
    <3>6. after.cuts = st.cuts
      BY <1>15, <2>4 DEF ScanLine
    <3> HIDE DEF head, after, line
    <3>7. st.cuts \cup {} = {i \in 2..n + 1 : head(i)}
      BY <1>14, <3>5
    <3>9. after.cuts = {i \in 2..n + 1 : head(i)}
      BY <3>6, <3>7
    <3>8. o <= n + 1
      BY <1>1, <1>9, <3>1
    <3> QED BY <1>6, <1>13, <2>1, <2>4, <3>4, <3>8, <3>9
  <2> QED BY <2>3, <2>4
<1>16. CASE mark # 0
  <2>1. /\ after.cuts = st.cuts
        /\ after.fence = IF st.fence = 0 THEN (IF Opens(line) THEN mark ELSE 0)
                         ELSE IF Closes(line, st.fence) THEN 0 ELSE st.fence
    BY <1>16 DEF ScanLine, ScanState
  <2>2. ~head(n + 1)
    BY <1>16
  <2>3. after.cuts = {i \in 2..n + 1 : head(i)}
    <3> HIDE DEF head, after, line
    <3>1. st.cuts \cup {} = {i \in 2..n + 1 : head(i)}
      BY <1>14, <2>2
    <3> QED BY <2>1, <3>1
  <2>4. CASE st.fence = 0
    <3>1. o > n
      BY <1>6, <2>4
    <3>2. CASE Opens(line)
      <4>1. n + 1 \in e + 1..N
        BY <1>1, <1>3
      <4>2. o <= n + 1
        BY <1>9, <3>2, <4>1
      <4>3. o = n + 1
        BY <1>1, <1>9, <3>1, <4>2
      <4>4. c > n + 1
        BY <1>1, <1>10, <4>3
      <4>5. after.fence = lines[o].mark /\ after.fence # 0
        BY <1>16, <2>1, <2>4, <3>2, <4>3
      <4> HIDE DEF after, head
      <4> QED BY <1>13, <2>3, <4>2, <4>4, <4>5
    <3>3. CASE ~Opens(line)
      <4>1. o # n + 1
        BY <1>1, <1>9, <3>3
      <4>2. o > n + 1
        BY <1>1, <1>9, <3>1, <4>1
      <4>3. after.fence = 0
        BY <2>1, <2>4, <3>3
      <4> HIDE DEF after, head
      <4> QED BY <1>13, <2>3, <4>2, <4>3
    <3> QED BY <3>2, <3>3
  <2>5. CASE st.fence # 0
    <3>1. o <= n /\ st.fence = lines[o].mark /\ c > n
      BY <1>6, <2>5
    <3>2. CASE Closes(line, st.fence)
      <4>1. n + 1 \in o + 1..N
        BY <1>1, <1>9, <3>1
      <4>2. c <= n + 1
        BY <1>10, <3>1, <3>2, <4>1
      <4>3. c = n + 1
        BY <1>1, <1>10, <3>1, <4>2
      <4>4. f[k + 1] = n + 1 /\ (n + 1) + 1 \in 1..Len(lines) + 2
        BY <1>1, <1>4, <4>3 DEF N
      <4>5. /\ Opener(lines, (n + 1) + 1) \in 1..N + 1
            /\ Opener(lines, (n + 1) + 1) >= (n + 1) + 1
                 \/ Opener(lines, (n + 1) + 1) = N + 1
        BY <1>1, <4>4, OpenerIs DEF N
      <4>6. Opener(lines, (n + 1) + 1) > n + 1
        BY <1>1, <4>5
      <4>7. k + 1 \in 0..n + 1 /\ k + 1 <= f[k + 1] /\ f[k + 1] <= n + 1
        BY <1>1, <1>3, <4>4
      <4>8. after.fence = 0
        BY <2>1, <2>5, <3>2
      <4> HIDE DEF after, head
      <4> QED BY <2>3, <4>4, <4>6, <4>7, <4>8
    <3>3. CASE ~Closes(line, st.fence)
      <4>1. c # n + 1
        BY <1>1, <1>10, <3>1, <3>3
      <4>2. c > n + 1 /\ o <= n + 1
        BY <1>1, <1>9, <1>10, <3>1, <4>1
      <4>3. after.fence = st.fence
        BY <2>1, <2>5, <3>3
      <4> HIDE DEF after, head
      <4> QED BY <1>13, <2>3, <2>5, <3>1, <4>2, <4>3
    <3> QED BY <3>2, <3>3
  <2> QED BY <2>4, <2>5
<1> QED BY <1>15, <1>16

\* Whatever the lines, sections start at exactly the headers that are in no fenced block, an
\* unclosed one reaching to the end (chunkers.py:152-183).
THEOREM SectionsAreSound ==
    ASSUME NEW lines, MarkdownLines(lines)
    PROVE  SectionsSound(lines)
<1> DEFINE N == Len(lines)
           after == Scans(lines)
<1>1. N \in Nat
  BY LineType
<1>2. PICK f : /\ Blocks(lines, f)
               /\ SectionsSound(lines) <=>
                      SectionStarts(lines) =
                          {i \in 2..Len(lines) : lines[i].header /\ lines[i].mark = 0
                                                    /\ i \notin Fenced(lines, f)}
  BY BlocksExist
<1>3. /\ after[0] = [fence |-> 0, cuts |-> {}]
      /\ \A n \in 0..N : after[n] \in ScanState
      /\ \A n \in 1..N : after[n] = ScanLine(after[n - 1], lines[n], n)
  BY ScansStep
<1>4. SectionStarts(lines) = after[N].cuts
  BY DEF SectionStarts
<1> DEFINE A == {n \in 0..N : Scanned(lines, f, n, after[n])}
<1> HIDE DEF after
<1>5. 0 \in A
  <2>1. f[0] = 0 /\ 1 \in 1..Len(lines) + 2 /\ 0 \in 0..N
    BY <1>1, <1>2 DEF Blocks
  <2>2. /\ Opener(lines, 1) \in 1..Len(lines) + 1
    BY <1>1, <2>1, OpenerIs
  <2>3. Opener(lines, f[0] + 1) > 0
    BY <2>1, <2>2
  <2>4. 2..0 = {}
    OBVIOUS
  <2> HIDE DEF N
  <2>5. after[0].cuts = {} /\ after[0].fence = 0
    BY <1>3
  <2>6. 0 \in 0..0 /\ 0 <= f[0] /\ f[0] <= 0
    BY <2>1
  <2>7. Scanned(lines, f, 0, after[0])
    BY <2>3, <2>4, <2>5, <2>6 DEF Scanned
  <2> QED BY <2>1, <2>7
<1>6. ASSUME NEW n \in 0..(N - 1), n \in A PROVE n + 1 \in A
  <2>1. n + 1 \in 0..N /\ n + 1 \in 1..N /\ (n + 1) - 1 = n /\ n \in 0..N
    BY <1>1
  <2>2. after[n + 1] = ScanLine(after[n], lines[n + 1], n + 1)
    BY <1>3, <2>1
  <2>3. Scanned(lines, f, n + 1, after[n + 1])
    BY <1>2, <1>3, <1>6, <2>1, <2>2, ScannedStep
  <2> QED BY <2>1, <2>3
<1> HIDE DEF A
<1>7. \A n \in 0..N : n \in A
  BY <1>1, <1>5, <1>6, AllUpTo
<1>8. N \in A
  BY <1>1, <1>7
<1> QED BY <1>2, <1>4, <1>8 DEF A, Scanned
-----------------------------------------------------------------------------
(***************************************************************************)
(* Texts cut at their separators. Chunks fit from..to if they cover it and *)
(* none is longer than a window, its overlap and a separator (Fits). What  *)
(* is flushed fits what has been read of the parts (Pended), and a level   *)
(* fits because the next one does, by induction from the last level up.    *)
(***************************************************************************)
\* Neighboring elements of a sequence.
LEMMA Slice ==
    ASSUME NEW S, NEW s \in Seq(S), NEW a \in 1..Len(s) + 1, NEW b \in a - 1..Len(s)
    PROVE  /\ SubSeq(s, a, b) \in Seq(S)
           /\ Len(SubSeq(s, a, b)) = b - a + 1 /\ Len(SubSeq(s, a, b)) \in Nat
           /\ \A n \in 1..Len(SubSeq(s, a, b)) : SubSeq(s, a, b)[n] = s[a - 1 + n]
           /\ SubSeq(s, a, b) = <<>> <=> b < a
<1>1. Len(s) \in Nat /\ a \in Nat /\ b \in Nat /\ a >= 1 /\ b >= a - 1
  OBVIOUS
<1>2. /\ SubSeq(s, a, b) \in Seq(S)
      /\ Len(SubSeq(s, a, b)) = b - a + 1 /\ Len(SubSeq(s, a, b)) \in Nat
      /\ \A n \in 1..Len(SubSeq(s, a, b)) : SubSeq(s, a, b)[n] = s[a - 1 + n]
  BY <1>1, SubSeqProperties
<1> DEFINE part == SubSeq(s, a, b)
<1> HIDE DEF part
<1>3. part = <<>> <=> b < a
  <2>1. part \in Seq(S) /\ Len(part) = b - a + 1
    BY <1>2 DEF part
  <2> QED BY <1>1, <2>1, EmptySeq
<1> QED BY <1>2, <1>3 DEF part

LEMMA SliceEnds ==
    ASSUME NEW S, NEW s \in Seq(S), NEW a \in 1..Len(s), NEW b \in a..Len(s)
    PROVE  SubSeq(s, a, b)[1] = s[a] /\ Last(SubSeq(s, a, b)) = s[b]
<1> DEFINE part == SubSeq(s, a, b)
<1>1. Len(s) \in Nat /\ a \in Nat /\ b \in Nat /\ a \in 1..Len(s) + 1 /\ b \in a - 1..Len(s)
  OBVIOUS
<1>2. Len(part) = b - a + 1 /\ \A n \in 1..Len(part) : part[n] = s[a - 1 + n]
  BY <1>1, Slice
<1>3. 1 \in 1..Len(part) /\ a - 1 + 1 = a /\ Len(part) \in 1..Len(part) /\ a - 1 + Len(part) = b
  BY <1>1, <1>2
<1> QED BY <1>2, <1>3 DEF Last

LEMMA SliceAppend ==
    ASSUME NEW S, NEW s \in Seq(S), NEW a \in 1..Len(s), NEW b \in a - 1..Len(s) - 1
    PROVE  Append(SubSeq(s, a, b), s[b + 1]) = SubSeq(s, a, b + 1)
<1> DEFINE part == SubSeq(s, a, b)
           more == SubSeq(s, a, b + 1)
           new == Append(part, s[b + 1])
<1>1. /\ Len(s) \in Nat /\ a \in Nat /\ b \in Nat /\ b + 1 \in 1..Len(s)
      /\ a \in 1..Len(s) + 1 /\ b \in a - 1..Len(s) /\ b + 1 \in a - 1..Len(s)
  OBVIOUS
<1>2. /\ part \in Seq(S) /\ Len(part) = b - a + 1 /\ Len(part) \in Nat
      /\ \A n \in 1..Len(part) : part[n] = s[a - 1 + n]
  BY <1>1, Slice
<1>3. /\ more \in Seq(S) /\ Len(more) = b + 1 - a + 1
      /\ \A n \in 1..Len(more) : more[n] = s[a - 1 + n]
  BY <1>1, Slice
<1>4. s[b + 1] \in S
  BY <1>1, ElementOfSeq
<1> HIDE DEF part, more
<1>5. /\ new \in Seq(S) /\ Len(new) = Len(part) + 1 /\ new[Len(part) + 1] = s[b + 1]
      /\ \A n \in 1..Len(part) : new[n] = part[n]
  BY <1>2, <1>4, AppendProperties
<1> HIDE DEF new
<1>6. Len(new) = Len(more)
  BY <1>1, <1>2, <1>3, <1>5
<1>7. ASSUME NEW n \in 1..Len(new) PROVE new[n] = more[n]
  <2>1. n \in 1..Len(part) \/ n = Len(part) + 1
    BY <1>2, <1>5, <1>7
  <2>2. a - 1 + (Len(part) + 1) = b + 1
    BY <1>1, <1>2
  <2> QED BY <1>2, <1>3, <1>5, <1>6, <1>7, <2>1, <2>2
<1>8. new = more
  BY <1>3, <1>5, <1>6, <1>7, SeqEqual
<1> QED BY <1>8 DEF new, more, part

ChunkType == [from : Int, to : Int, len : Int]

\* No chunk is longer than a window, its overlap and a separator.
Limit == CHUNK_SIZE + CHUNK_OVERLAP + Max({SepLen[l] : l \in DOMAIN SepLen})

Fits(chunks, from, to) ==
    /\ chunks \in Seq(ChunkType) /\ Covers(chunks, from, to)
    /\ \A i \in 1..Len(chunks) : chunks[i].from <= chunks[i].to /\ chunks[i].len <= Limit

\* No separator is longer than the longest.
LEMMA SepBound ==
    /\ Levels \in Nat /\ Levels >= 2
    /\ Max({SepLen[l] : l \in DOMAIN SepLen}) \in Nat
    /\ \A level \in 1..Levels :
          /\ Sep(level) \in Nat
          /\ CHUNK_SIZE + CHUNK_OVERLAP + Sep(level) <= Limit
<1> DEFINE N == Len(SepLen)
           S == {SepLen[l] : l \in DOMAIN SepLen}
           g == [l \in DOMAIN SepLen |-> SepLen[l]]
<1>1. SepLen \in Seq(Nat) /\ SepLen # <<>> /\ DOMAIN SepLen = 1..N /\ N \in Nat
  BY ChunkersAssumption
<1>2. N >= 1
  BY <1>1, EmptySeq
<1>3. \A l \in 1..N : SepLen[l] \in Nat
  BY <1>1, ElementOfSeq
<1>4. IsFiniteSet(S)
  <2>1. IsFiniteSet(1..N)
    BY <1>1, FS_Interval
  <2>2. g \in Surjection(DOMAIN SepLen, S)
    BY DEF Surjection
  <2> HIDE DEF S, g
  <2> QED BY <1>1, <2>1, <2>2, FS_Surjection
<1>5. S \in SUBSET Nat /\ S # {}
  BY <1>1, <1>2, <1>3
<1>6. Max(S) \in S /\ \A y \in S : Max(S) >= y
  <2> HIDE DEF S
  <2> QED BY <1>4, <1>5, MaxExists
<1>7. Max(S) \in Nat
  <2> HIDE DEF S
  <2> QED BY <1>5, <1>6
<1> DEFINE M == Max(S)
<1>8. \A l \in 1..N : SepLen[l] <= M
  <2>1. \A l \in 1..N : SepLen[l] \in S
    BY <1>1
  <2>2. \A l \in 1..N : M >= SepLen[l]
    <3> HIDE DEF S
    <3> QED BY <1>6, <2>1
  <2> HIDE DEF M
  <2> QED BY <1>3, <1>7, <2>2 DEF M
<1>9. Limit = CHUNK_SIZE + CHUNK_OVERLAP + M
  BY DEF Limit
<1>10. CHUNK_SIZE \in Nat /\ CHUNK_OVERLAP \in Nat
  BY WindowsAssumption
<1>11. M \in Nat
  BY <1>7
<1> HIDE DEF M, S, N
<1>12. Levels = N + 1
  BY DEF Levels, N
<1>13. ASSUME NEW level \in 1..Levels
       PROVE  Sep(level) \in Nat /\ CHUNK_SIZE + CHUNK_OVERLAP + Sep(level) <= Limit
  <2>1. CASE level < Levels
    <3>1. level \in 1..N
      BY <1>1, <1>12, <2>1
    <3>2. Sep(level) = SepLen[level]
      BY <2>1 DEF Sep
    <3>3. SepLen[level] \in Nat /\ SepLen[level] <= M
      BY <1>3, <1>8, <3>1
    <3> QED BY <1>9, <1>10, <1>11, <3>2, <3>3
  <2>2. CASE ~(level < Levels)
    <3>1. Sep(level) = 0
      BY <2>2 DEF Sep
    <3> QED BY <1>9, <1>10, <1>11, <3>1
  <2> QED BY <2>1, <2>2
<1> QED BY <1>1, <1>2, <1>11, <1>12, <1>13 DEF M, S

\* Merged parts fit.
LEMMA MergedFits ==
    ASSUME NEW splits, NEW sep \in Nat, Mergeable(splits, sep),
           CHUNK_SIZE + CHUNK_OVERLAP + sep <= Limit
    PROVE  Fits(MergeSplits(splits, sep), splits[1].from, Last(splits).to)
<1> DEFINE S == ToSet(splits)
           N == Len(splits)
           cs == MergeSplits(splits, sep)
<1>1. PartsIn(S, splits) /\ splits \in Seq(S) /\ N \in Nat /\ splits # <<>>
  BY DEF PartsIn, Mergeable, Adjoining
<1>2. N >= 1
  <2> HIDE DEF S
  <2> QED BY <1>1, EmptySeq
<1>3. Covers(cs, splits[1].from, Last(splits).to)
  <2>1. MergeSound(splits, sep)
    <3> HIDE DEF S
    <3> QED BY <1>1, MergeIsSound
  <2> QED BY <2>1 DEF MergeSound
<1> HIDE DEF S
<1>4. PICK k \in Nat, A \in [Nat -> Nat], B \in [Nat -> Nat] :
          /\ Len(cs) = k /\ cs = [i \in 1..k |-> cs[i]] /\ DOMAIN cs = 1..k
          /\ \A i \in 1..k : /\ 1 <= A[i] /\ A[i] <= B[i] /\ B[i] <= Len(splits)
                             /\ cs[i] = Chunk(SubSeq(splits, A[i], B[i]), sep)
                             /\ Span(splits, sep, A[i], B[i]) <= CHUNK_SIZE + CHUNK_OVERLAP + sep
  BY <1>1, <1>2, MergedChunks
<1> HIDE DEF cs, N
<1>5. ASSUME NEW i \in 1..k
      PROVE  cs[i] \in ChunkType /\ cs[i].from <= cs[i].to /\ cs[i].len <= Limit
  <2> DEFINE a == A[i]
             b == B[i]
             span == Span(splits, sep, a, b)
  <2>1. a \in Nat /\ b \in Nat /\ 1 <= a /\ a <= b /\ b <= N
    BY <1>4 DEF N
  <2>2. cs[i] = Chunk(SubSeq(splits, a, b), sep) /\ span <= CHUNK_SIZE + CHUNK_OVERLAP + sep
    BY <1>4
  <2> HIDE DEF a, b
  <2>3. a \in 1..N /\ b \in a..N /\ a \in 1..N + 1 /\ b \in a - 1..N /\ b \in 1..N
    BY <1>1, <2>1
  <2>4. cs[i] = [from |-> splits[a].from, to |-> splits[b].to, len |-> span]
    BY <1>1, <2>2, <2>3, ChunkAt DEF N
  <2>5. span \in Nat
    BY <1>1, <2>3, SpanNat DEF N
  <2>6. /\ splits[a].from \in Int /\ splits[b].to \in Int /\ splits[b].from \in Int
        /\ splits[a].to \in Int
        /\ splits[a].from <= splits[a].to /\ splits[b].from <= splits[b].to
    BY <1>1, <2>3 DEF PartsIn, N
  <2>7. a < b => splits[a].to < splits[b].from
    BY <1>1, <2>3, PartsAscend DEF N
  <2>8. splits[a].from <= splits[b].to
    <3>1. CASE a = b
      BY <2>6, <3>1
    <3>2. CASE a < b
      BY <2>6, <2>7, <3>2
    <3> QED BY <2>1, <3>1, <3>2
  <2>9. CHUNK_SIZE \in Nat /\ CHUNK_OVERLAP \in Nat /\ Limit \in Int
    BY WindowsAssumption, SepBound DEF Limit
  <2> HIDE DEF span
  <2>10. span <= Limit
    BY <2>2, <2>5, <2>9
  <2> QED BY <2>4, <2>5, <2>6, <2>8, <2>10 DEF ChunkType
<1>6. cs \in Seq(ChunkType)
  <2>1. cs = [i \in 1..k |-> cs[i]]
    BY <1>4
  <2>2. \A i \in 1..k : cs[i] \in ChunkType
    BY <1>5
  <2> HIDE DEF ChunkType
  <2>3. cs \in [1..k -> ChunkType]
    BY <2>1, <2>2
  <2> QED BY <2>3, SeqDef
<1> QED BY <1>3, <1>4, <1>5, <1>6 DEF Fits, cs

\* What fits goes on with what fits.
LEMMA FitsConcat ==
    ASSUME NEW c, NEW d, NEW from \in Int, NEW mid \in Int, NEW to \in Int,
           Fits(c, from, mid), Fits(d, mid + 1, to)
    PROVE  Fits(c \o d, from, to)
<1> DEFINE m == Len(c)
           n == Len(d)
           all == c \o d
<1>1. c \in Seq(ChunkType) /\ d \in Seq(ChunkType) /\ c # <<>> /\ d # <<>>
  BY DEF Fits, Covers
<1>2. m \in Nat /\ n \in Nat /\ m >= 1 /\ n >= 1
  <2> HIDE DEF ChunkType
  <2> QED BY <1>1, EmptySeq
<1>3. /\ all \in Seq(ChunkType) /\ Len(all) = m + n
      /\ \A i \in 1..m + n : all[i] = IF i <= m THEN c[i] ELSE d[i - m]
  BY <1>1, ConcatProperties
<1>4. \A i \in 1..m : /\ c[i] \in ChunkType /\ c[i].from <= c[i].to /\ c[i].len <= Limit
                      /\ c[i].from \in Int /\ c[i].to \in Int
  <2>1. \A i \in 1..m : c[i] \in ChunkType
    BY <1>1, ElementOfSeq
  <2> QED BY <2>1 DEF Fits, ChunkType
<1>5. \A i \in 1..n : /\ d[i] \in ChunkType /\ d[i].from <= d[i].to /\ d[i].len <= Limit
                      /\ d[i].from \in Int /\ d[i].to \in Int
  <2>1. \A i \in 1..n : d[i] \in ChunkType
    BY <1>1, ElementOfSeq
  <2> QED BY <2>1 DEF Fits, ChunkType
<1>6. /\ c[1].from = from /\ c[m].to = mid /\ d[1].from = mid + 1 /\ d[n].to = to
      /\ \A i \in 1..m - 1 : /\ c[i + 1].from <= c[i].to + 1
                             /\ c[i].from <= c[i + 1].from /\ c[i].to < c[i + 1].to
      /\ \A i \in 1..n - 1 : /\ d[i + 1].from <= d[i].to + 1
                             /\ d[i].from <= d[i + 1].from /\ d[i].to < d[i + 1].to
  BY DEF Fits, Covers, Last
<1> HIDE DEF all, m, n
<1>11. /\ \A i \in 1..m : all[i] = c[i]
       /\ \A i \in m + 1..m + n : all[i] = d[i - m]
  <2>1. ASSUME NEW i \in 1..m PROVE all[i] = c[i]
    <3>1. i \in 1..m + n /\ i <= m
      BY <1>2
    <3> QED BY <1>3, <3>1
  <2>2. ASSUME NEW i \in m + 1..m + n PROVE all[i] = d[i - m]
    <3>1. i \in 1..m + n /\ ~(i <= m)
      BY <1>2
    <3> QED BY <1>3, <3>1
  <2> QED BY <2>1, <2>2
<1>7. ASSUME NEW i \in 1..m + n PROVE all[i].from <= all[i].to /\ all[i].len <= Limit
  <2>1. i <= m => i \in 1..m
    BY <1>2
  <2>2. ~(i <= m) => i - m \in 1..n
    BY <1>2
  <2> QED BY <1>3, <1>4, <1>5, <2>1, <2>2
<1>8. all # <<>> /\ all[1].from = from /\ Last(all).to = to
  <2>1. Len(all) # 0
    BY <1>2, <1>3
  <2>2. 1 \in 1..m /\ m + n \in m + 1..m + n /\ m + n - m = n
    BY <1>2
  <2>3. all[1] = c[1] /\ all[m + n] = d[n]
    <3> DEFINE l == m + n
    <3>1. l \in m + 1..m + n /\ l - m = n
      BY <1>2
    <3> HIDE DEF l
    <3>2. all[l] = d[l - m]
      BY <1>11, <3>1
    <3>3. all[l] = d[n]
      BY <3>1, <3>2
    <3> QED BY <1>11, <2>2, <3>3 DEF l
  <2> QED BY <1>3, <1>6, <2>1, <2>3, EmptySeq DEF Last
<1>9. ASSUME NEW i \in 1..m + n - 1
      PROVE  /\ all[i + 1].from <= all[i].to + 1
             /\ all[i].from <= all[i + 1].from /\ all[i].to < all[i + 1].to
  <2>1. i \in 1..m + n /\ i + 1 \in 1..m + n /\ i \in Nat
    BY <1>2
  <2>2. CASE i < m
    <3>1. i <= m /\ i + 1 <= m /\ i \in 1..m - 1
      BY <1>2, <2>1, <2>2
    <3>2. all[i] = c[i] /\ all[i + 1] = c[i + 1]
      BY <1>3, <2>1, <3>1
    <3> QED BY <1>6, <3>1, <3>2
  <2>3. CASE i = m
    <3>1. i <= m /\ ~(i + 1 <= m) /\ i + 1 - m = 1 /\ 1 \in 1..n /\ m \in 1..m
      BY <1>2, <2>1, <2>3
    <3>2. all[i] = c[m] /\ all[i + 1] = d[1]
      BY <1>3, <2>1, <2>3, <3>1
    <3>3. /\ c[m].from \in Int /\ c[m].from <= c[m].to /\ c[m].to = mid
          /\ d[1].from = mid + 1 /\ d[1].from <= d[1].to /\ d[1].to \in Int
      BY <1>4, <1>5, <1>6, <3>1
    <3> QED BY <3>2, <3>3
  <2>4. CASE i > m
    <3>1. /\ i \in m + 1..m + n /\ i + 1 \in m + 1..m + n
          /\ (i + 1) - m = (i - m) + 1 /\ i - m \in 1..n - 1
      BY <1>2, <2>1, <2>4
    <3>2. all[i] = d[i - m] /\ all[i + 1] = d[(i + 1) - m]
      BY <1>11, <3>1
    <3>3. all[i + 1] = d[(i - m) + 1]
      BY <3>1, <3>2
    <3> QED BY <1>6, <3>1, <3>2, <3>3
  <2> QED BY <1>2, <2>1, <2>2, <2>3, <2>4
<1>10. Covers(all, from, to)
  <2>1. Len(all) - 1 = m + n - 1
    BY <1>2, <1>3
  <2>2. \A i \in 1..Len(all) - 1 : /\ all[i + 1].from <= all[i].to + 1
                                   /\ all[i].from <= all[i + 1].from
                                   /\ all[i].to < all[i + 1].to
    BY <1>9, <2>1
  <2> QED BY <1>8, <2>2 DEF Covers
<1> QED BY <1>3, <1>7, <1>10 DEF Fits, all

IsSplit(text, level, cut, n, g) ==
    g = [k \in 0..n |-> IF k = 0 THEN [good |-> <<>>, result |-> <<>>]
                        ELSE AddPart(g[k - 1], text.parts[k], level, cut)]

\* The loop over the parts is a recursion.
LEMMA SplitStep ==
    ASSUME NEW text, Len(text.parts) \in Nat, NEW level, NEW cut
    PROVE  \E after :
              /\ Split(text, level, cut) = Flushed(after[Len(text.parts)], level)
              /\ after[0] = [good |-> <<>>, result |-> <<>>]
              /\ \A n \in 1..Len(text.parts) :
                    after[n] = AddPart(after[n - 1], text.parts[n], level, cut)
<1> DEFINE N == Len(text.parts)
           Some == {n \in Nat : \E g : IsSplit(text, level, cut, n, g)}
           base == [good |-> <<>>, result |-> <<>>]
           Turn(st, k) == AddPart(st, text.parts[k], level, cut)
<1>1. N \in Nat
  OBVIOUS
<1>2. 0 \in Some
  <2> DEFINE g == [k \in 0..0 |-> base]
  <2>1. IsSplit(text, level, cut, 0, g)
    BY DEF IsSplit
  <2> QED BY <2>1
<1> HIDE DEF N
<1>3. ASSUME NEW n \in 0..(N - 1), n \in Some PROVE n + 1 \in Some
  <2>1. PICK g : IsSplit(text, level, cut, n, g)
    BY <1>3
  <2> DEFINE h == [k \in 0..(n + 1) |-> IF k = n + 1 THEN Turn(g[n], n + 1) ELSE g[k]]
  <2> HIDE DEF Turn, base
  <2>2. ASSUME NEW k \in 0..(n + 1) PROVE h[k] = IF k = 0 THEN base ELSE Turn(h[k - 1], k)
    <3>1. CASE k = n + 1
      <4>1. n \in 0..(n + 1) /\ n # n + 1 /\ n + 1 # 0 /\ (n + 1) - 1 = n
        BY <1>1
      <4>2. h[n] = g[n]
        BY <4>1
      <4> QED BY <3>1, <4>1, <4>2
    <3>2. CASE k # n + 1
      <4>1. k \in 0..n /\ (k # 0 => k - 1 \in 0..n /\ k - 1 \in 0..(n + 1) /\ k - 1 # n + 1)
        BY <1>1, <3>2
      <4>2. g[k] = IF k = 0 THEN base ELSE Turn(g[k - 1], k)
        BY <2>1, <4>1 DEF IsSplit, Turn, base
      <4> QED BY <3>2, <4>1, <4>2
    <3> QED BY <3>1, <3>2
  <2>3. IsSplit(text, level, cut, n + 1, h)
    BY <2>2 DEF IsSplit, Turn, base
  <2>4. n + 1 \in Nat
    BY <1>1
  <2> HIDE DEF h
  <2> QED BY <2>3, <2>4
<1>4. \E g : IsSplit(text, level, cut, N, g)
  <2> HIDE DEF Some
  <2>1. \A n \in 0..N : n \in Some
    BY <1>1, <1>2, <1>3, AllUpTo
  <2> QED BY <1>1, <2>1 DEF Some
<1> DEFINE f == CHOOSE g : IsSplit(text, level, cut, N, g)
<1>5. IsSplit(text, level, cut, N, f)
  BY <1>4
<1>6. Split(text, level, cut) = Flushed(f[N], level)
  BY DEF Split, IsSplit, N
<1> HIDE DEF f
<1>7. \A k \in 0..N : f[k] = IF k = 0 THEN base ELSE Turn(f[k - 1], k)
  BY <1>5 DEF IsSplit
<1>8. 0 \in 0..N /\ \A n \in 1..N : n \in 0..N /\ n # 0
  BY <1>1
<1> HIDE DEF base
<1>9. /\ f[0] = base
      /\ \A n \in 1..N : f[n] = AddPart(f[n - 1], text.parts[n], level, cut)
  BY <1>7, <1>8
<1> QED BY <1>6, <1>9 DEF N, base

\* Parts from the g-th on are pending, each good; those before are in the result.
Pended(parts, n, st) ==
    \E g \in 1..n + 1 :
        /\ st.good = SubSeq(parts, g, n)
        /\ \A i \in g..n : parts[i].len <= CHUNK_SIZE
        /\ IF g = 1 THEN st.result = <<>> ELSE Fits(st.result, parts[1].from, parts[g - 1].to)

\* Parts, and neighboring ones among them.
LEMMA AdjoiningPart ==
    ASSUME NEW parts, Adjoining(parts)
    PROVE  /\ parts \in Seq(ToSet(parts)) /\ Len(parts) \in Nat
           /\ \A i \in 1..Len(parts) :
                 /\ parts[i].from \in Int /\ parts[i].to \in Int /\ parts[i].from <= parts[i].to
                 /\ parts[i].len \in Nat
           /\ \A i \in 1..Len(parts) - 1 : parts[i + 1].from = parts[i].to + 1
           /\ \A g \in 1..Len(parts) : \A n \in g..Len(parts) :
                 (\A i \in g..n : parts[i].len <= CHUNK_SIZE) =>
                     /\ \A sep \in Nat : Mergeable(SubSeq(parts, g, n), sep)
                     /\ SubSeq(parts, g, n)[1] = parts[g] /\ Last(SubSeq(parts, g, n)) = parts[n]
<1> DEFINE S == ToSet(parts)
           N == Len(parts)
<1>1. /\ parts \in Seq(S) /\ N \in Nat
      /\ \A i \in 1..N :
            /\ parts[i].from \in Int /\ parts[i].to \in Int /\ parts[i].from <= parts[i].to
            /\ parts[i].len \in Nat
      /\ \A i \in 1..N - 1 : parts[i + 1].from = parts[i].to + 1
  BY DEF Adjoining
<1>2. ASSUME NEW g \in 1..N, NEW n \in g..N, \A i \in g..n : parts[i].len <= CHUNK_SIZE
      PROVE  /\ \A sep \in Nat : Mergeable(SubSeq(parts, g, n), sep)
             /\ SubSeq(parts, g, n)[1] = parts[g] /\ Last(SubSeq(parts, g, n)) = parts[n]
  <2> DEFINE part == SubSeq(parts, g, n)
             k == Len(part)
  <2>1. g \in Nat /\ n \in Nat /\ g >= 1 /\ g <= n /\ n <= N /\ g \in 1..N + 1 /\ n \in g - 1..N
    BY <1>1
  <2> HIDE DEF S, N
  <2>10. /\ part \in Seq(S) /\ k = n - g + 1 /\ (part = <<>> <=> n < g)
         /\ \A i \in 1..k : part[i] = parts[g - 1 + i]
    BY <1>1, <2>1, Slice DEF N
  <2> HIDE DEF k
  <2>2. /\ part \in Seq(S) /\ k = n - g + 1 /\ part # <<>>
        /\ \A i \in 1..k : part[i] = parts[g - 1 + i]
    <3> HIDE DEF part
    <3> QED BY <2>1, <2>10
  <2> USE DEF k
  <2>3. part[1] = parts[g] /\ Last(part) = parts[n]
    BY <1>1, <1>2, SliceEnds DEF N
  <2> HIDE DEF part
  <2>4. k \in Nat
    BY <2>1, <2>2
  <2>5. part \in Seq(ToSet(part))
    <3>1. \A i \in 1..k : part[i] \in ToSet(part)
      BY <2>2 DEF ToSet
    <3>2. part \in [1..k -> ToSet(part)]
      BY <2>2, <3>1
    <3> HIDE DEF k
    <3> QED BY <2>4, <3>2, SeqDef
  <2> HIDE DEF k
  <2>6. ASSUME NEW i \in 1..k
        PROVE  /\ part[i].from \in Int /\ part[i].to \in Int /\ part[i].from <= part[i].to
               /\ part[i].len \in Nat /\ part[i].len <= CHUNK_SIZE
    <3>1. g - 1 + i \in g..n /\ g - 1 + i \in 1..N
      BY <1>1, <2>1, <2>2
    <3> QED BY <1>1, <1>2, <2>2, <3>1
  <2>7. ASSUME NEW i \in 1..k - 1 PROVE part[i + 1].from = part[i].to + 1
    <3>1. /\ i \in 1..k /\ i + 1 \in 1..k /\ g - 1 + (i + 1) = (g - 1 + i) + 1
          /\ g - 1 + i \in 1..N - 1
      BY <1>1, <2>1, <2>2
    <3>2. part[i] = parts[g - 1 + i] /\ part[i + 1] = parts[g - 1 + (i + 1)]
      BY <2>2, <3>1
    <3>3. part[i + 1] = parts[(g - 1 + i) + 1]
      BY <3>1, <3>2
    <3> QED BY <1>1, <3>1, <3>2, <3>3
  <2>8. Adjoining(part)
    BY <2>5, <2>6, <2>7 DEF Adjoining, k
  <2>9. \A sep \in Nat : Mergeable(part, sep)
    BY <2>2, <2>6, <2>8 DEF Mergeable, k
  <2> QED BY <2>3, <2>9 DEF part
<1> QED BY <1>1, <1>2

\* What is pending is flushed.
LEMMA FlushedFits ==
    ASSUME NEW parts, Adjoining(parts), NEW n \in 1..Len(parts), NEW st, Pended(parts, n, st),
           NEW level \in 1..Levels
    PROVE  Fits(Flushed(st, level), parts[1].from, parts[n].to)
<1> DEFINE S == ToSet(parts)
           N == Len(parts)
<1>1. /\ parts \in Seq(S) /\ N \in Nat
      /\ \A i \in 1..N :
            /\ parts[i].from \in Int /\ parts[i].to \in Int /\ parts[i].from <= parts[i].to
      /\ \A i \in 1..N - 1 : parts[i + 1].from = parts[i].to + 1
  BY AdjoiningPart
<1> HIDE DEF S, N
<1>2. PICK g \in 1..n + 1 :
          /\ st.good = SubSeq(parts, g, n)
          /\ \A i \in g..n : parts[i].len <= CHUNK_SIZE
          /\ IF g = 1 THEN st.result = <<>> ELSE Fits(st.result, parts[1].from, parts[g - 1].to)
  BY DEF Pended
<1>3. n \in 1..N /\ n \in Nat /\ g \in Nat /\ g \in 1..N + 1 /\ n \in g - 1..N
  BY <1>1 DEF N
<1>4. st.good = <<>> <=> n < g
  BY <1>1, <1>2, <1>3, Slice DEF N
<1>5. Sep(level) \in Nat /\ CHUNK_SIZE + CHUNK_OVERLAP + Sep(level) <= Limit
  BY SepBound
<1>6. CASE n < g
  <2>1. g # 1 /\ g - 1 = n
    BY <1>3, <1>6
  <2> QED BY <1>2, <1>4, <1>6, <2>1 DEF Flushed
<1>7. CASE ~(n < g)
  <2>1. g \in 1..N /\ n \in g..N
    BY <1>1, <1>3, <1>7
  <2>2. /\ Mergeable(st.good, Sep(level))
        /\ st.good[1] = parts[g] /\ Last(st.good) = parts[n]
    BY <1>2, <1>5, <2>1, AdjoiningPart DEF N
  <2> DEFINE merged == MergeSplits(st.good, Sep(level))
  <2>3. Fits(merged, parts[g].from, parts[n].to)
    BY <1>5, <2>2, MergedFits
  <2>4. Flushed(st, level) = st.result \o merged
    BY <1>4, <1>7 DEF Flushed
  <2> HIDE DEF merged
  <2>5. CASE g = 1
    <3>1. merged \in Seq(ChunkType)
      BY <2>3 DEF Fits
    <3>2. st.result \o merged = merged
      BY <1>2, <2>5, <3>1, ConcatEmptySeq
    <3> QED BY <2>3, <2>4, <2>5, <3>2
  <2>6. CASE g # 1
    <3>1. g - 1 \in 1..N - 1 /\ (g - 1) + 1 = g /\ g - 1 \in 1..N /\ 1 \in 1..N
      BY <1>1, <1>3, <2>1, <2>6
    <3>2. parts[g].from = parts[g - 1].to + 1
      BY <1>1, <3>1
    <3>3. parts[1].from \in Int /\ parts[g - 1].to \in Int /\ parts[n].to \in Int
      BY <1>1, <1>3, <3>1
    <3>4. Fits(st.result, parts[1].from, parts[g - 1].to)
      BY <1>2, <2>6
    <3>5. Fits(merged, parts[g - 1].to + 1, parts[n].to)
      BY <2>3, <3>2
    <3>6. Fits(st.result \o merged, parts[1].from, parts[n].to)
      BY <3>3, <3>4, <3>5, FitsConcat
    <3> QED BY <2>4, <3>6
  <2> QED BY <2>5, <2>6
<1> QED BY <1>6, <1>7

\* One more part, kept for merging or cut into chunks of its own.
LEMMA PendedStep ==
    ASSUME NEW parts, Adjoining(parts), NEW n \in 0..Len(parts) - 1, NEW st, Pended(parts, n, st),
           NEW level \in 1..Levels, NEW cut,
           parts[n + 1].len > CHUNK_SIZE =>
               Fits(cut[parts[n + 1]], parts[n + 1].from, parts[n + 1].to)
    PROVE  Pended(parts, n + 1, AddPart(st, parts[n + 1], level, cut))
<1> DEFINE S == ToSet(parts)
           N == Len(parts)
           part == parts[n + 1]
           next == AddPart(st, part, level, cut)
<1>1. /\ parts \in Seq(S) /\ N \in Nat
      /\ \A i \in 1..N :
            /\ parts[i].from \in Int /\ parts[i].to \in Int /\ parts[i].from <= parts[i].to
            /\ parts[i].len \in Nat
      /\ \A i \in 1..N - 1 : parts[i + 1].from = parts[i].to + 1
  BY AdjoiningPart
<1> HIDE DEF S, N
<1>2. PICK g \in 1..n + 1 :
          /\ st.good = SubSeq(parts, g, n)
          /\ \A i \in g..n : parts[i].len <= CHUNK_SIZE
          /\ IF g = 1 THEN st.result = <<>> ELSE Fits(st.result, parts[1].from, parts[g - 1].to)
  BY DEF Pended
<1>3. /\ n \in Nat /\ n + 1 \in 1..N /\ n + 1 <= N /\ g \in Nat /\ g \in 1..N /\ n \in g - 1..N
      /\ g \in 1..N + 1 /\ n \in g - 1..N - 1
  BY <1>1 DEF N
<1>4. CHUNK_SIZE \in Nat /\ part.len \in Nat
  BY <1>1, <1>3, WindowsAssumption
<1>5. CASE part.len > CHUNK_SIZE
  <2> DEFINE more == Flushed(st, level) \o cut[part]
             h == n + 2
  <2>1. next.good = <<>> /\ next.result = more
    BY <1>5 DEF AddPart
  <2>2. Fits(cut[part], part.from, part.to)
    BY <1>5
  <2>3. Fits(more, parts[1].from, part.to)
    <3>1. CASE n = 0
      <4>1. g = 1 /\ n < g
        BY <1>3, <3>1
      <4>2. st.good = <<>>
        BY <1>1, <1>2, <1>3, <4>1, Slice DEF N
      <4>3. Flushed(st, level) = <<>>
        BY <1>2, <4>1, <4>2 DEF Flushed
      <4>4. cut[part] \in Seq(ChunkType)
        BY <2>2 DEF Fits
      <4>5. more = cut[part]
        BY <4>3, <4>4, ConcatEmptySeq
      <4> HIDE DEF more
      <4> QED BY <2>2, <3>1, <4>5
    <3>2. CASE n # 0
      <4>1. n \in 1..N /\ n \in 1..N - 1 /\ 1 \in 1..N
        BY <1>1, <1>3, <3>2
      <4>2. Fits(Flushed(st, level), parts[1].from, parts[n].to)
        BY <4>1, FlushedFits DEF N
      <4>3. part.from = parts[n].to + 1
        BY <1>1, <4>1
      <4>4. parts[1].from \in Int /\ parts[n].to \in Int /\ part.to \in Int
        BY <1>1, <1>3, <4>1
      <4>5. Fits(cut[part], parts[n].to + 1, part.to)
        BY <2>2, <4>3
      <4> HIDE DEF part
      <4> QED BY <4>2, <4>4, <4>5, FitsConcat
    <3> QED BY <3>1, <3>2
  <2>4. h \in 1..(n + 1) + 1 /\ h # 1 /\ h - 1 = n + 1 /\ h > n + 1
    BY <1>3
  <2>5. SubSeq(parts, h, n + 1) = <<>>
    BY <1>3, <2>4, SubSeqEmpty
  <2>6. h..n + 1 = {}
    BY <1>3
  <2> HIDE DEF h, more, next
  <2>7. \A i \in h..n + 1 : parts[i].len <= CHUNK_SIZE
    BY <2>6
  <2>8. /\ next.good = SubSeq(parts, h, n + 1)
        /\ IF h = 1 THEN next.result = <<>> ELSE Fits(next.result, parts[1].from, parts[h - 1].to)
    BY <2>1, <2>3, <2>4, <2>5
  <2>9. Pended(parts, n + 1, next)
    BY <2>4, <2>7, <2>8 DEF Pended
  <2> QED BY <2>9 DEF next
<1>6. CASE ~(part.len > CHUNK_SIZE)
  <2>1. next = [st EXCEPT !.good = Append(@, part)]
    BY <1>6 DEF AddPart
  <2>2. next.result = st.result
    BY <2>1
  <2>3. Append(SubSeq(parts, g, n), parts[n + 1]) = SubSeq(parts, g, n + 1)
    BY <1>1, <1>3, SliceAppend DEF N
  <2>4. next.good = SubSeq(parts, g, n + 1)
    BY <1>2, <2>1, <2>3
  <2>5. \A i \in g..n + 1 : parts[i].len <= CHUNK_SIZE
    <3>1. \A i \in g..n + 1 : i \in g..n \/ i = n + 1
      BY <1>3
    <3> QED BY <1>2, <1>4, <1>6, <3>1
  <2>6. g \in 1..(n + 1) + 1
    BY <1>3
  <2> HIDE DEF next, part
  <2>7. Pended(parts, n + 1, next)
    BY <1>2, <2>2, <2>4, <2>5, <2>6 DEF Pended
  <2> QED BY <2>7 DEF next, part
<1> QED BY <1>5, <1>6

\* Parts split at one level fit if those cut at the next do.
LEMMA SplitFits ==
    ASSUME NEW text, text.parts # <<>>, Adjoining(text.parts), NEW level \in 1..Levels, NEW cut,
           text.from = text.parts[1].from, text.to = Last(text.parts).to,
           \A i \in 1..Len(text.parts) :
               text.parts[i].len > CHUNK_SIZE =>
                   Fits(cut[text.parts[i]], text.parts[i].from, text.parts[i].to)
    PROVE  Fits(Split(text, level, cut), text.from, text.to)
<1> DEFINE parts == text.parts
           N == Len(parts)
           S == ToSet(parts)
<1>1. parts \in Seq(S) /\ N \in Nat
  BY AdjoiningPart
<1>2. N >= 1
  <2> HIDE DEF S
  <2> QED BY <1>1, EmptySeq
<1>3. PICK after :
          /\ Split(text, level, cut) = Flushed(after[N], level)
          /\ after[0] = [good |-> <<>>, result |-> <<>>]
          /\ \A n \in 1..N : after[n] = AddPart(after[n - 1], text.parts[n], level, cut)
  BY <1>1, SplitStep
<1> DEFINE A == {n \in 0..N : Pended(parts, n, after[n])}
<1>4. 0 \in A
  <2>1. 1 \in 1..0 + 1 /\ 1..0 = {} /\ 0 \in 0..N
    BY <1>1
  <2>2. SubSeq(parts, 1, 0) = <<>>
    BY SubSeqEmpty
  <2>3. after[0].good = <<>> /\ after[0].result = <<>>
    BY <1>3
  <2>4. Pended(parts, 0, after[0])
    BY <2>1, <2>2, <2>3 DEF Pended
  <2> QED BY <2>1, <2>4
<1>5. ASSUME NEW n \in 0..(N - 1), n \in A PROVE n + 1 \in A
  <2>1. n + 1 \in 0..N /\ n + 1 \in 1..N /\ (n + 1) - 1 = n
    BY <1>1
  <2>2. after[n + 1] = AddPart(after[n], parts[n + 1], level, cut)
    BY <1>3, <2>1
  <2>3. parts[n + 1].len > CHUNK_SIZE => Fits(cut[parts[n + 1]], parts[n + 1].from, parts[n + 1].to)
    BY <2>1
  <2>4. Pended(parts, n + 1, AddPart(after[n], parts[n + 1], level, cut))
    BY <1>5, <2>3, PendedStep
  <2> QED BY <2>1, <2>2, <2>4
<1> HIDE DEF A, N
<1>6. \A n \in 0..N : n \in A
  BY <1>1, <1>4, <1>5, AllUpTo
<1>7. N \in A /\ N \in 1..N
  BY <1>1, <1>2, <1>6
<1>8. Pended(parts, N, after[N])
  BY <1>7 DEF A
<1>9. Fits(Flushed(after[N], level), parts[1].from, parts[N].to)
  BY <1>7, <1>8, FlushedFits DEF N
<1> QED BY <1>3, <1>9 DEF Last, N

IsSubtexts(text, q, n, g) ==
    g = [l \in q..n |-> IF l = q THEN {text} ELSE UNION {ToSet(t.parts) : t \in g[l - 1]}]

\* The texts of a level are the parts of those of the level before.
LEMMA SubtextsStep ==
    ASSUME NEW text, NEW q \in 1..Levels
    PROVE  /\ Subtexts(text, q)[q] = {text}
           /\ \A l \in q..Levels :
                 Subtexts(text, q)[l + 1] = UNION {ToSet(t.parts) : t \in Subtexts(text, q)[l]}
<1> DEFINE N == Levels + 1 - q
           Some == {n \in Nat : \E g : IsSubtexts(text, q, q + n, g)}
           Turn(s) == UNION {ToSet(t.parts) : t \in s}
<1>1. N \in Nat /\ q \in Nat /\ Levels \in Nat /\ q + N = Levels + 1
  BY SepBound
<1>2. 0 \in Some
  <2> DEFINE g == [l \in q..q + 0 |-> {text}]
  <2>1. \A l \in q..q + 0 : l = q
    BY <1>1
  <2>2. IsSubtexts(text, q, q + 0, g)
    BY <2>1 DEF IsSubtexts
  <2> QED BY <2>2
<1> HIDE DEF N
<1>3. ASSUME NEW n \in 0..(N - 1), n \in Some PROVE n + 1 \in Some
  <2> DEFINE m == q + n
  <2>1. PICK g : IsSubtexts(text, q, m, g)
    BY <1>3
  <2>2. m \in Nat /\ m >= q /\ q + (n + 1) = m + 1
    BY <1>1
  <2> HIDE DEF m
  <2> DEFINE h == [l \in q..(m + 1) |-> IF l = m + 1 THEN Turn(g[m]) ELSE g[l]]
  <2> HIDE DEF Turn
  <2>3. ASSUME NEW l \in q..(m + 1) PROVE h[l] = IF l = q THEN {text} ELSE Turn(h[l - 1])
    <3>1. CASE l = m + 1
      <4>1. m \in q..(m + 1) /\ m # m + 1 /\ m + 1 # q /\ (m + 1) - 1 = m
        BY <1>1, <2>2
      <4>2. h[m] = g[m]
        BY <4>1
      <4> QED BY <3>1, <4>1, <4>2
    <3>2. CASE l # m + 1
      <4>1. l \in q..m /\ (l # q => l - 1 \in q..m /\ l - 1 \in q..(m + 1) /\ l - 1 # m + 1)
        BY <1>1, <2>2, <3>2
      <4>2. g[l] = IF l = q THEN {text} ELSE Turn(g[l - 1])
        BY <2>1, <4>1 DEF IsSubtexts, Turn
      <4> QED BY <3>2, <4>1, <4>2
    <3> QED BY <3>1, <3>2
  <2>4. IsSubtexts(text, q, m + 1, h)
    BY <2>3 DEF IsSubtexts, Turn
  <2>5. n + 1 \in Nat
    BY <1>1
  <2> HIDE DEF h
  <2> QED BY <2>2, <2>4, <2>5
<1>4. \E g : IsSubtexts(text, q, Levels + 1, g)
  <2> HIDE DEF Some
  <2>1. \A n \in 0..N : n \in Some
    BY <1>1, <1>2, <1>3, AllUpTo
  <2>2. N \in Some
    BY <1>1, <2>1
  <2> QED BY <1>1, <2>2 DEF Some
<1> DEFINE f == CHOOSE g : IsSubtexts(text, q, Levels + 1, g)
<1>5. IsSubtexts(text, q, Levels + 1, f)
  BY <1>4
<1>6. Subtexts(text, q) = f
  BY DEF Subtexts, IsSubtexts
<1> HIDE DEF f
<1>7. \A l \in q..Levels + 1 : f[l] = IF l = q THEN {text} ELSE Turn(f[l - 1])
  BY <1>5 DEF IsSubtexts
<1>8. q \in q..Levels + 1
  BY <1>1
<1>9. \A l \in q..Levels : l + 1 \in q..Levels + 1 /\ l + 1 # q /\ (l + 1) - 1 = l
  BY <1>1
<1> HIDE DEF Turn
<1>10. f[q] = {text} /\ \A l \in q..Levels : f[l + 1] = Turn(f[l])
  BY <1>7, <1>8, <1>9
<1> QED BY <1>6, <1>10 DEF Turn

IsCuts(text, q, n, g) ==
    g = [l \in n..Levels + 1 |->
            IF l > Levels THEN [t \in {} |-> <<>>]
            ELSE CutAt(Subtexts(text, q)[l], l, g[l + 1])]

\* The chunks of a level are made of those of the next.
LEMMA CutsStep ==
    ASSUME NEW text, NEW q \in 1..Levels, NEW l \in q..Levels
    PROVE  Cuts(text, q)[l] = CutAt(Subtexts(text, q)[l], l, Cuts(text, q)[l + 1])
<1> DEFINE N == Levels + 1 - q
           L == Levels + 1
           Some == {n \in Nat : \E g : IsCuts(text, q, L - n, g)}
           none == [t \in {} |-> <<>>]
           Turn(k, below) == CutAt(Subtexts(text, q)[k], k, below)
<1>1. N \in Nat /\ q \in Nat /\ Levels \in Nat /\ L - N = q /\ L \in Nat /\ l \in Nat
  BY SepBound
<1>2. 0 \in Some
  <2> DEFINE g == [k \in L - 0..Levels + 1 |-> none]
  <2>1. \A k \in L - 0..Levels + 1 : k > Levels
    BY <1>1
  <2>2. IsCuts(text, q, L - 0, g)
    BY <2>1 DEF IsCuts
  <2> QED BY <2>2
<1> HIDE DEF N
<1>3. ASSUME NEW n \in 0..(N - 1), n \in Some PROVE n + 1 \in Some
  <2> DEFINE m == L - n
  <2>1. PICK g : IsCuts(text, q, m, g)
    BY <1>3
  <2>2. m \in Nat /\ m > q /\ m <= Levels + 1 /\ L - (n + 1) = m - 1
    BY <1>1
  <2> HIDE DEF m, L
  <2> DEFINE h == [k \in m - 1..Levels + 1 |-> IF k = m - 1 THEN Turn(m - 1, g[m]) ELSE g[k]]
  <2> HIDE DEF Turn, none
  <2>3. ASSUME NEW k \in m - 1..Levels + 1
        PROVE  h[k] = IF k > Levels THEN none ELSE Turn(k, h[k + 1])
    <3>1. CASE k = m - 1
      <4>1. m \in m - 1..Levels + 1 /\ m # m - 1 /\ k + 1 = m /\ ~(k > Levels)
        BY <1>1, <2>2, <3>1
      <4>2. h[m] = g[m]
        BY <4>1
      <4> QED BY <3>1, <4>1, <4>2
    <3>2. CASE k # m - 1
      <4>1. /\ k \in m..Levels + 1
            /\ ~(k > Levels) => k + 1 \in m - 1..Levels + 1 /\ k + 1 # m - 1
        BY <1>1, <2>2, <3>2
      <4>2. g[k] = IF k > Levels THEN none ELSE Turn(k, g[k + 1])
        BY <2>1, <4>1 DEF IsCuts, Turn, none
      <4> QED BY <3>2, <4>1, <4>2
    <3> QED BY <3>1, <3>2
  <2>4. IsCuts(text, q, m - 1, h)
    BY <2>3 DEF IsCuts, Turn, none
  <2>5. n + 1 \in Nat
    BY <1>1
  <2> HIDE DEF h
  <2> QED BY <2>2, <2>4, <2>5
<1>4. \E g : IsCuts(text, q, q, g)
  <2> HIDE DEF Some
  <2>1. \A n \in 0..N : n \in Some
    BY <1>1, <1>2, <1>3, AllUpTo
  <2>2. N \in Some
    BY <1>1, <2>1
  <2> QED BY <1>1, <2>2 DEF Some
<1> DEFINE f == CHOOSE g : IsCuts(text, q, q, g)
<1>5. IsCuts(text, q, q, f)
  BY <1>4
<1>6. Cuts(text, q) = f
  BY DEF Cuts, IsCuts
<1> HIDE DEF f
<1>7. \A k \in q..Levels + 1 : f[k] = IF k > Levels THEN none ELSE Turn(k, f[k + 1])
  BY <1>5 DEF IsCuts
<1>8. l \in q..Levels + 1 /\ ~(l > Levels)
  BY <1>1
<1> HIDE DEF none, Turn
<1>9. f[l] = Turn(l, f[l + 1])
  BY <1>7, <1>8
<1> QED BY <1>6, <1>9 DEF Turn

\* A text of whatever parts, split at whatever level: nothing is lost, nothing is too long.
LEMMA TextFits ==
    ASSUME NEW text, NEW q \in 1..Levels, Text(text, q)
    PROVE  Fits(RecursiveSplit(text, q), text.from, text.to)
<1> DEFINE at == Subtexts(text, q)
           cut == Cuts(text, q)
           N == Levels - q
           Good(l) == \A t \in at[l] : Fits(cut[l][t], t.from, t.to)
           A == {n \in 0..N : Good(Levels - n)}
<1>1. N \in Nat /\ q \in Nat /\ Levels \in Nat /\ Levels - N = q /\ CHUNK_SIZE \in Nat /\ CHUNK_SIZE >= 1
  BY SepBound, WindowsAssumption
<1>2. at[q] = {text} /\ \A l \in q..Levels : at[l + 1] = UNION {ToSet(t.parts) : t \in at[l]}
  BY SubtextsStep
<1>3. \A l \in q..Levels : cut[l] = CutAt(at[l], l, cut[l + 1])
  BY CutsStep
<1>4. \A l \in q..Levels : \A t \in at[l] :
          /\ t.parts # <<>> /\ Adjoining(t.parts)
          /\ t.from = t.parts[1].from /\ t.to = Last(t.parts).to
          /\ l = Levels => \A i \in 1..Len(t.parts) : t.parts[i].len = 1
  BY DEF Text
<1>5. RecursiveSplit(text, q) = cut[q][text]
  BY DEF RecursiveSplit
<1> HIDE DEF at, cut, N
<1>6. ASSUME NEW l \in q..Levels, l < Levels => Good(l + 1) PROVE Good(l)
  <2> SUFFICES ASSUME NEW t \in at[l] PROVE Fits(cut[l][t], t.from, t.to)
    OBVIOUS
  <2> DEFINE parts == t.parts
             below == cut[l + 1]
  <2>1. /\ parts # <<>> /\ Adjoining(parts)
        /\ t.from = parts[1].from /\ t.to = Last(parts).to
        /\ l = Levels => \A i \in 1..Len(parts) : parts[i].len = 1
    BY <1>4
  <2>2. ASSUME NEW i \in 1..Len(parts), l < Levels
        PROVE  Fits(below[parts[i]], parts[i].from, parts[i].to)
    <3>1. parts[i] \in ToSet(parts)
      <4>1. parts \in Seq(ToSet(parts))
        BY <2>1, AdjoiningPart
      <4> QED BY <4>1, ElementOfSeq
    <3>2. parts[i] \in at[l + 1]
      BY <1>2, <3>1
    <3> QED BY <1>6, <2>2, <3>2
  <2>3. l \in 1..Levels /\ (l < Levels \/ l = Levels)
    BY <1>1
  <2> HIDE DEF below
  <2>4. cut[l][t] = IF l < Levels /\ Len(parts) = 1 /\ parts[1].len = t.len
                    THEN below[parts[1]] ELSE Split(t, l, below)
    <3>1. cut[l] = CutAt(at[l], l, below)
      BY <1>3 DEF below
    <3>2. CutAt(at[l], l, below) =
             [u \in at[l] |-> IF l < Levels /\ Len(u.parts) = 1 /\ u.parts[1].len = u.len
                              THEN below[u.parts[1]] ELSE Split(u, l, below)]
      BY DEF CutAt
    <3> QED BY <3>1, <3>2
  <2>5. CASE l < Levels /\ Len(parts) = 1 /\ parts[1].len = t.len
    <3>1. 1 \in 1..Len(parts) /\ Last(parts) = parts[1]
      BY <2>5 DEF Last
    <3>2. Fits(below[parts[1]], parts[1].from, parts[1].to)
      BY <2>2, <2>5, <3>1
    <3> QED BY <2>1, <2>4, <2>5, <3>1, <3>2
  <2>6. CASE ~(l < Levels /\ Len(parts) = 1 /\ parts[1].len = t.len)
    <3>1. \A i \in 1..Len(parts) :
             parts[i].len > CHUNK_SIZE => Fits(below[parts[i]], parts[i].from, parts[i].to)
      <4>1. CASE l < Levels
        BY <2>2, <4>1
      <4>2. CASE l = Levels
        BY <1>1, <2>1, <4>2
      <4> QED BY <2>3, <4>1, <4>2
    <3>2. Fits(Split(t, l, below), t.from, t.to)
      BY <2>1, <2>3, <3>1, SplitFits
    <3> QED BY <2>4, <2>6, <3>2
  <2> QED BY <2>5, <2>6
<1> HIDE DEF Good
<1>7. 0 \in A
  <2>1. Levels \in q..Levels /\ ~(Levels < Levels) /\ Levels - 0 = Levels /\ 0 \in 0..N
    BY <1>1
  <2>2. Good(Levels)
    BY <1>6, <2>1
  <2> QED BY <2>1, <2>2
<1>8. ASSUME NEW n \in 0..(N - 1), n \in A PROVE n + 1 \in A
  <2> DEFINE l == Levels - (n + 1)
  <2>1. n + 1 \in 0..N /\ l \in q..Levels /\ l + 1 = Levels - n
    BY <1>1 DEF N
  <2>2. Good(l + 1)
    BY <1>8, <2>1
  <2> HIDE DEF l
  <2>3. Good(l)
    BY <1>6, <2>1, <2>2
  <2> QED BY <2>1, <2>3 DEF l
<1> HIDE DEF A
<1>9. \A n \in 0..N : n \in A
  BY <1>1, <1>7, <1>8, AllUpTo
<1>10. Good(q)
  <2>1. N \in A
    BY <1>1, <1>9
  <2> QED BY <1>1, <2>1 DEF A
<1> QED BY <1>2, <1>5, <1>10 DEF Good

\* Whatever a text is made of, all of it gets into chunks, none of them longer than a window and
\* its overlap: what has no separator of one level is left to the next, down to single
\* characters (chunkers.py:57-82).
THEOREM SplitIsSound ==
    ASSUME NEW text, Text(text, 1)
    PROVE  SplitSound(text)
<1> DEFINE chunks == RecursiveSplit(text, 1)
<1>1. 1 \in 1..Levels
  BY SepBound
<1>2. Fits(chunks, text.from, text.to)
  BY <1>1, TextFits
<1>3. DOMAIN chunks = 1..Len(chunks)
  <2>1. chunks \in Seq(ChunkType)
    BY <1>2 DEF Fits
  <2> HIDE DEF chunks
  <2> QED BY <2>1, LenProperties
<1> HIDE DEF chunks
<1> QED BY <1>2, <1>3 DEF Fits, Limit, SplitSound, chunks
-----------------------------------------------------------------------------
(***************************************************************************)
(* Sections. The chunks done hold every character of the paragraphs before *)
(* those in the buffer, and buf_len is the length of the buffer unless     *)
(* that begins with an empty paragraph (Buffered).                         *)
(***************************************************************************)
\* Chunks that fit are within their text, and every character of it is in one.
LEMMA FitsWithin ==
    ASSUME NEW c, NEW from \in Int, NEW to \in Int, Fits(c, from, to)
    PROVE  /\ c \in Seq(ChunkType) /\ Len(c) \in Nat
           /\ \A i \in 1..Len(c) : from <= c[i].from /\ c[i].to <= to
           /\ \A x \in from..to : \E i \in 1..Len(c) : x \in c[i].from..c[i].to
<1> DEFINE N == Len(c)
           A == {n \in 0..N - 1 : from <= c[n + 1].from}
           B == {n \in 0..N - 1 : c[N - n].to <= to}
<1>1. c \in Seq(ChunkType) /\ c # <<>>
  BY DEF Fits, Covers
<1>2. N \in Nat /\ N >= 1
  <2> HIDE DEF ChunkType
  <2> QED BY <1>1, EmptySeq
<1>3. \A i \in 1..N : c[i].from \in Int /\ c[i].to \in Int
  <2>1. \A i \in 1..N : c[i] \in ChunkType
    BY <1>1, ElementOfSeq
  <2> QED BY <2>1 DEF ChunkType
<1>4. /\ c[1].from = from /\ c[N].to = to
      /\ \A i \in 1..N - 1 : /\ c[i + 1].from <= c[i].to + 1
                             /\ c[i].from <= c[i + 1].from /\ c[i].to < c[i + 1].to
  BY DEF Fits, Covers, Last
<1> HIDE DEF N
<1>5. \A n \in 0..N - 1 : n \in A
  <2>1. 0 \in A
    BY <1>2, <1>4
  <2>2. ASSUME NEW n \in 0..((N - 1) - 1), n \in A PROVE n + 1 \in A
    <3>1. n + 1 \in 0..N - 1 /\ n + 1 \in 1..N - 1 /\ n + 1 \in 1..N /\ (n + 1) + 1 \in 1..N
      BY <1>2
    <3>2. c[n + 1].from <= c[(n + 1) + 1].from /\ from <= c[n + 1].from
      BY <1>4, <2>2, <3>1
    <3>3. c[n + 1].from \in Int /\ c[(n + 1) + 1].from \in Int
      BY <1>3, <3>1
    <3> QED BY <3>1, <3>2, <3>3
  <2>3. N - 1 \in Nat
    BY <1>2
  <2> HIDE DEF A
  <2> QED BY <2>1, <2>2, <2>3, AllUpTo
<1>6. \A n \in 0..N - 1 : n \in B
  <2>1. 0 \in B
    <3>1. N - 0 = N /\ 0 \in 0..N - 1 /\ N \in 1..N
      BY <1>2
    <3> QED BY <1>3, <1>4, <3>1
  <2>2. ASSUME NEW n \in 0..((N - 1) - 1), n \in B PROVE n + 1 \in B
    <3> DEFINE i == N - (n + 1)
    <3>1. n + 1 \in 0..N - 1 /\ i \in 1..N - 1 /\ i \in 1..N /\ i + 1 \in 1..N /\ N - n = i + 1
      BY <1>2
    <3> HIDE DEF i
    <3>2. c[i].to < c[i + 1].to /\ c[i + 1].to <= to
      BY <1>4, <2>2, <3>1
    <3>3. c[i].to \in Int /\ c[i + 1].to \in Int
      BY <1>3, <3>1
    <3>4. c[i].to <= to
      BY <3>2, <3>3
    <3> QED BY <3>1, <3>4 DEF i
  <2>3. N - 1 \in Nat
    BY <1>2
  <2> HIDE DEF B
  <2> QED BY <2>1, <2>2, <2>3, AllUpTo
<1>7. ASSUME NEW i \in 1..N PROVE from <= c[i].from /\ c[i].to <= to
  <2>1. i - 1 \in 0..N - 1 /\ (i - 1) + 1 = i /\ N - i \in 0..N - 1 /\ N - (N - i) = i
    BY <1>2
  <2>2. i - 1 \in A /\ N - i \in B
    BY <1>5, <1>6, <2>1
  <2>3. from <= c[(i - 1) + 1].from /\ c[N - (N - i)].to <= to
    BY <2>2
  <2> QED BY <2>1, <2>3
<1>8. ASSUME NEW x \in from..to PROVE \E i \in 1..N : x \in c[i].from..c[i].to
  <2> DEFINE S == {i \in 1..N : x <= c[i].to}
  <2>1. N \in S
    BY <1>2, <1>4
  <2>2. S \in SUBSET Nat /\ S # {}
    BY <2>1
  <2> HIDE DEF S
  <2>3. PICK i \in S : \A m \in S : i <= m
    BY <2>2, LeastExists
  <2>4. i \in 1..N /\ x <= c[i].to
    BY <2>3 DEF S
  <2>5. c[i].from <= x
    <3>1. CASE i = 1
      BY <1>4, <3>1
    <3>2. CASE i # 1
      <4> DEFINE j == i - 1
      <4>1. j \in 1..N - 1 /\ j \in 1..N /\ j + 1 = i /\ ~(i <= j)
        BY <1>2, <2>4, <3>2
      <4> HIDE DEF j
      <4>2. ~(x <= c[j].to)
        BY <2>3, <4>1 DEF S
      <4>3. c[i].from <= c[j].to + 1
        BY <1>4, <4>1
      <4>4. c[i].from \in Int /\ c[j].to \in Int
        BY <1>3, <2>4, <4>1
      <4> QED BY <4>2, <4>3, <4>4
    <3> QED BY <3>1, <3>2
  <2>6. x \in c[i].from..c[i].to
    BY <1>3, <2>4, <2>5
  <2> QED BY <2>4, <2>6
<1> QED BY <1>1, <1>2, <1>7, <1>8 DEF N

\* One more at the end of what is joined.
LEMMA JoinedAppend ==
    ASSUME NEW S, NEW s \in Seq(S), NEW e \in S, NEW sep \in Nat, e.len \in Nat,
           \A i \in 1..Len(s) : s[i].len \in Nat
    PROVE  /\ Joined(s, sep) \in Int
           /\ Joined(Append(s, e), sep) =
                  IF s = <<>> THEN e.len ELSE Joined(s, sep) + e.len + sep
<1> DEFINE N == Len(s)
           more == Append(s, e)
           L == Lengths(s, sep)
           M == Lengths(more, sep)
           A == {n \in 0..N : L[n] \in Nat /\ M[n] = L[n]}
<1>1. /\ N \in Nat /\ more \in Seq(S) /\ more # <<>> /\ Len(more) = N + 1
      /\ (\A i \in 1..N : more[i] = s[i]) /\ more[N + 1] = e
  BY AppendProperties
<1>2. L[0] = 0 /\ \A n \in 1..N : L[n] = L[n - 1] + s[n].len + sep
  BY LengthsStep
<1> HIDE DEF more
<1>3. M[0] = 0 /\ \A n \in 1..N + 1 : M[n] = M[n - 1] + more[n].len + sep
  BY <1>1, LengthsStep
<1>4. \A i \in 1..N : s[i].len \in Nat
  OBVIOUS
<1>5. Joined(s, sep) = IF s = <<>> THEN 0 ELSE L[N] - sep
  BY DEF Joined
<1>6. Joined(more, sep) = M[N + 1] - sep
  BY <1>1 DEF Joined
<1>7. s = <<>> => N = 0
  OBVIOUS
<1>8. s # <<>> => N # 0
  <2> HIDE DEF N
  <2> QED BY EmptySeq DEF N
<1> HIDE DEF L, M, N
<1>9. \A n \in 0..N : n \in A
  <2>1. 0 \in A
    BY <1>1, <1>2, <1>3
  <2>2. ASSUME NEW n \in 0..(N - 1), n \in A PROVE n + 1 \in A
    <3>1. n + 1 \in 0..N /\ n + 1 \in 1..N /\ n + 1 \in 1..N + 1 /\ (n + 1) - 1 = n
      BY <1>1
    <3>2. /\ L[n + 1] = L[n] + s[n + 1].len + sep
          /\ M[n + 1] = M[n] + s[n + 1].len + sep
      BY <1>1, <1>2, <1>3, <3>1
    <3>3. L[n] \in Nat /\ M[n] = L[n] /\ s[n + 1].len \in Nat
      BY <1>4, <2>2, <3>1
    <3> QED BY <3>1, <3>2, <3>3
  <2> HIDE DEF A
  <2> QED BY <1>1, <2>1, <2>2, AllUpTo
<1>10. L[N] \in Nat /\ M[N] = L[N]
  <2>1. N \in A
    BY <1>1, <1>9
  <2> QED BY <2>1
<1>11. M[N + 1] = L[N] + e.len + sep
  <2>1. N + 1 \in 1..N + 1 /\ (N + 1) - 1 = N
    BY <1>1
  <2>2. M[N + 1] = M[(N + 1) - 1] + more[N + 1].len + sep
    BY <1>3, <2>1
  <2> QED BY <1>1, <1>10, <2>1, <2>2
<1>12. Joined(more, sep) = L[N] + e.len
  BY <1>6, <1>10, <1>11
<1>13. CASE s = <<>>
  BY <1>2, <1>5, <1>7, <1>12, <1>13 DEF more
<1>14. CASE s # <<>>
  <2>1. Joined(s, sep) = L[N] - sep
    BY <1>5, <1>14
  <2> QED BY <1>10, <1>12, <1>14, <2>1 DEF more
<1> QED BY <1>13, <1>14

\* Paragraphs go on.
LEMMA ParagraphsAscend ==
    ASSUME NEW paragraphs, Section(paragraphs)
    PROVE  /\ paragraphs \in Seq(ToSet(paragraphs)) /\ Len(paragraphs) \in Nat
           /\ Len(paragraphs) >= 1
           /\ \A i \in 1..Len(paragraphs) :
                 /\ paragraphs[i].from \in Int /\ paragraphs[i].to \in Int
                 /\ paragraphs[i].len \in Nat /\ paragraphs[i] \in ToSet(paragraphs)
           /\ \A i, j \in 1..Len(paragraphs) :
                 i <= j => /\ paragraphs[i].from <= paragraphs[j].from
                           /\ paragraphs[i].to <= paragraphs[j].to
<1> DEFINE N == Len(paragraphs)
           S == ToSet(paragraphs)
           from(i) == paragraphs[i].from
           to(i) == paragraphs[i].to
           A == {n \in 0..N : \A i \in 1..n : from(i) <= from(n) /\ to(i) <= to(n)}
<1>1. paragraphs \in Seq(S) /\ paragraphs # <<>>
  BY DEF Section
<1>2. N \in Nat /\ N >= 1 /\ \A i \in 1..N : paragraphs[i] \in S
  <2> HIDE DEF S
  <2> QED BY <1>1, EmptySeq, ElementOfSeq
<1>3. \A i \in 1..N : /\ from(i) \in Int /\ to(i) \in Int /\ from(i) <= to(i) + 1
                      /\ paragraphs[i].len \in Nat
  BY DEF Section
<1>4. \A i \in 1..N - 1 : from(i + 1) = to(i) + 1
  BY DEF Section
<1> HIDE DEF N, from, to
<1>5. \A n \in 0..N : n \in A
  <2>1. 0 \in A
    BY <1>2
  <2>2. ASSUME NEW n \in 0..(N - 1), n \in A PROVE n + 1 \in A
    <3>1. n + 1 \in 0..N /\ n + 1 \in 1..N /\ \A i \in 1..n + 1 : i \in 1..n \/ i = n + 1
      BY <1>2
    <3>2. ASSUME NEW i \in 1..n + 1 PROVE from(i) <= from(n + 1) /\ to(i) <= to(n + 1)
      <4>1. CASE i = n + 1
        <5>1. from(i) \in Int /\ to(i) \in Int
          BY <1>3, <3>1, <4>1
        <5> QED BY <4>1, <5>1
      <4>2. CASE i \in 1..n
        <5>1. n \in 1..N - 1 /\ n \in 1..N /\ i \in 1..N
          BY <1>2, <4>2
        <5>2. from(i) <= from(n) /\ to(i) <= to(n)
          BY <2>2, <4>2
        <5>3. from(n + 1) = to(n) + 1 /\ from(n) <= to(n) + 1 /\ from(n + 1) <= to(n + 1) + 1
          BY <1>3, <1>4, <3>1, <5>1
        <5>4. /\ from(i) \in Int /\ to(i) \in Int /\ from(n) \in Int /\ to(n) \in Int
              /\ from(n + 1) \in Int /\ to(n + 1) \in Int
          BY <1>3, <3>1, <5>1
        <5> QED BY <5>2, <5>3, <5>4
      <4> QED BY <3>1, <4>1, <4>2
    <3> QED BY <3>1, <3>2
  <2> HIDE DEF A
  <2> QED BY <1>2, <2>1, <2>2, AllUpTo
<1>6. ASSUME NEW i \in 1..N, NEW j \in 1..N, i <= j PROVE from(i) <= from(j) /\ to(i) <= to(j)
  <2>1. j \in 0..N /\ i \in 1..j
    BY <1>2, <1>6
  <2>2. j \in A
    BY <1>5, <2>1
  <2> QED BY <2>1, <2>2
<1> HIDE DEF S, A
<1> QED BY <1>1, <1>2, <1>3, <1>6 DEF N, S, from, to

IsParagraphs(paragraphs, n, g) ==
    g = [k \in 0..n |-> IF k = 0 THEN [chunks |-> <<>>, buf |-> <<>>, len |-> 0]
                        ELSE AddParagraph(g[k - 1], paragraphs[k])]

\* The loop over the paragraphs is a recursion.
LEMMA ParagraphsStep ==
    ASSUME NEW paragraphs, Len(paragraphs) \in Nat
    PROVE  LET after == Paragraphs(paragraphs)
           IN  /\ after[0] = [chunks |-> <<>>, buf |-> <<>>, len |-> 0]
               /\ \A n \in 1..Len(paragraphs) :
                     after[n] = AddParagraph(after[n - 1], paragraphs[n])
<1> DEFINE N == Len(paragraphs)
           Some == {n \in Nat : \E g : IsParagraphs(paragraphs, n, g)}
           base == [chunks |-> <<>>, buf |-> <<>>, len |-> 0]
           Turn(st, k) == AddParagraph(st, paragraphs[k])
<1>1. N \in Nat
  OBVIOUS
<1>2. 0 \in Some
  <2> DEFINE g == [k \in 0..0 |-> base]
  <2>1. IsParagraphs(paragraphs, 0, g)
    BY DEF IsParagraphs
  <2> QED BY <2>1
<1> HIDE DEF N
<1>3. ASSUME NEW n \in 0..(N - 1), n \in Some PROVE n + 1 \in Some
  <2>1. PICK g : IsParagraphs(paragraphs, n, g)
    BY <1>3
  <2> DEFINE h == [k \in 0..(n + 1) |-> IF k = n + 1 THEN Turn(g[n], n + 1) ELSE g[k]]
  <2> HIDE DEF Turn, base
  <2>2. ASSUME NEW k \in 0..(n + 1) PROVE h[k] = IF k = 0 THEN base ELSE Turn(h[k - 1], k)
    <3>1. CASE k = n + 1
      <4>1. n \in 0..(n + 1) /\ n # n + 1 /\ n + 1 # 0 /\ (n + 1) - 1 = n
        BY <1>1
      <4>2. h[n] = g[n]
        BY <4>1
      <4> QED BY <3>1, <4>1, <4>2
    <3>2. CASE k # n + 1
      <4>1. k \in 0..n /\ (k # 0 => k - 1 \in 0..n /\ k - 1 \in 0..(n + 1) /\ k - 1 # n + 1)
        BY <1>1, <3>2
      <4>2. g[k] = IF k = 0 THEN base ELSE Turn(g[k - 1], k)
        BY <2>1, <4>1 DEF IsParagraphs, Turn, base
      <4> QED BY <3>2, <4>1, <4>2
    <3> QED BY <3>1, <3>2
  <2>3. IsParagraphs(paragraphs, n + 1, h)
    BY <2>2 DEF IsParagraphs, Turn, base
  <2>4. n + 1 \in Nat
    BY <1>1
  <2> HIDE DEF h
  <2> QED BY <2>3, <2>4
<1>4. \E g : IsParagraphs(paragraphs, N, g)
  <2> HIDE DEF Some
  <2>1. \A n \in 0..N : n \in Some
    BY <1>1, <1>2, <1>3, AllUpTo
  <2> QED BY <1>1, <2>1 DEF Some
<1> DEFINE f == CHOOSE g : IsParagraphs(paragraphs, N, g)
<1>5. IsParagraphs(paragraphs, N, f)
  BY <1>4
<1>6. Paragraphs(paragraphs) = f
  BY DEF Paragraphs, IsParagraphs, N
<1> HIDE DEF f
<1>7. \A k \in 0..N : f[k] = IF k = 0 THEN base ELSE Turn(f[k - 1], k)
  BY <1>5 DEF IsParagraphs
<1>8. 0 \in 0..N /\ \A n \in 1..N : n \in 0..N /\ n # 0
  BY <1>1
<1> HIDE DEF base
<1>9. /\ f[0] = base
      /\ \A n \in 1..N : f[n] = AddParagraph(f[n - 1], paragraphs[n])
  BY <1>7, <1>8
<1> QED BY <1>6, <1>9 DEF N, base

\* A chunk is of a long paragraph, begins with an empty one, or fits.
Allowed(paragraphs, c) ==
    \/ \E p \in ToSet(paragraphs) : p.len > MAX_MD_CHUNK /\ p.from <= c.from /\ c.to <= p.to
    \/ \E p \in ToSet(paragraphs) : p.len = 0 /\ p.from = c.from
    \/ c.len <= MAX_MD_CHUNK

\* Every character of a paragraph is in a chunk.
Held(p, chunks) ==
    \A x \in p.from..p.to : \E k \in 1..Len(chunks) : x \in chunks[k].from..chunks[k].to

\* The first n paragraphs are in these chunks.
Kept(paragraphs, n, chunks) ==
    /\ chunks \in Seq(ChunkType)
    /\ \A k \in 1..Len(chunks) : Allowed(paragraphs, chunks[k])
    /\ \A i \in 1..n : Held(paragraphs[i], chunks)

\* Chunks of some paragraphs and chunks of the one after, or of others.
LEMMA KeptConcat ==
    ASSUME NEW paragraphs, NEW m, NEW n, NEW chunks, Kept(paragraphs, m, chunks),
           NEW more \in Seq(ChunkType), \A k \in 1..Len(more) : Allowed(paragraphs, more[k]),
           \A i \in 1..n : i \in 1..m \/ Held(paragraphs[i], more)
    PROVE  Kept(paragraphs, n, chunks \o more)
<1> DEFINE a == Len(chunks)
           b == Len(more)
           all == chunks \o more
<1>1. chunks \in Seq(ChunkType) /\ more \in Seq(ChunkType) /\ a \in Nat /\ b \in Nat
  BY DEF Kept
<1>2. /\ all \in Seq(ChunkType) /\ Len(all) = a + b
      /\ \A i \in 1..a + b : all[i] = IF i <= a THEN chunks[i] ELSE more[i - a]
  BY <1>1, ConcatProperties
<1> HIDE DEF all
<1>3. \A k \in 1..a : k \in 1..a + b /\ all[k] = chunks[k]
  <2> SUFFICES ASSUME NEW k \in 1..a PROVE k \in 1..a + b /\ all[k] = chunks[k]
    OBVIOUS
  <2>1. k \in 1..a + b /\ k <= a
    BY <1>1
  <2> QED BY <1>2, <2>1
<1>4. \A k \in 1..b : a + k \in 1..a + b /\ all[a + k] = more[k]
  <2> SUFFICES ASSUME NEW k \in 1..b PROVE a + k \in 1..a + b /\ all[a + k] = more[k]
    OBVIOUS
  <2> DEFINE j == a + k
  <2>1. j \in 1..a + b /\ ~(j <= a) /\ j - a = k
    BY <1>1
  <2> HIDE DEF j
  <2>2. all[j] = more[j - a]
    BY <1>2, <2>1
  <2> QED BY <2>1, <2>2 DEF j
<1>5. \A k \in 1..a + b : k \in 1..a \/ \E j \in 1..b : k = a + j
  <2> SUFFICES ASSUME NEW k \in 1..a + b, k \notin 1..a PROVE \E j \in 1..b : k = a + j
    OBVIOUS
  <2>1. k - a \in 1..b /\ k = a + (k - a)
    BY <1>1
  <2> QED BY <2>1
<1> HIDE DEF a, b
<1>6. \A k \in 1..a + b : Allowed(paragraphs, all[k])
  <2>1. \A k \in 1..a : Allowed(paragraphs, chunks[k])
    BY DEF Kept, a
  <2>2. \A k \in 1..b : Allowed(paragraphs, more[k])
    BY DEF b
  <2>3. \A k \in 1..a : Allowed(paragraphs, all[k])
    BY <1>3, <2>1
  <2>4. \A k \in 1..b : Allowed(paragraphs, all[a + k])
    BY <1>4, <2>2
  <2> QED BY <1>5, <2>3, <2>4
<1>7. ASSUME NEW i \in 1..n PROVE Held(paragraphs[i], all)
  <2> DEFINE p == paragraphs[i]
  <2> SUFFICES ASSUME NEW x \in p.from..p.to
               PROVE  \E k \in 1..Len(all) : x \in all[k].from..all[k].to
    BY DEF Held
  <2>1. CASE i \in 1..m
    <3>1. Held(p, chunks)
      BY <2>1 DEF Kept
    <3>2. PICK k \in 1..a : x \in chunks[k].from..chunks[k].to
      BY <3>1 DEF Held, a
    <3>3. k \in 1..Len(all) /\ x \in all[k].from..all[k].to
      BY <1>2, <1>3, <3>2
    <3> QED BY <3>3
  <2>2. CASE i \notin 1..m
    <3>1. Held(p, more)
      BY <2>2
    <3>2. PICK k \in 1..b : x \in more[k].from..more[k].to
      BY <3>1 DEF Held, b
    <3>3. a + k \in 1..Len(all) /\ x \in all[a + k].from..all[a + k].to
      BY <1>2, <1>4, <3>2
    <3> QED BY <3>3
  <2> QED BY <2>1, <2>2
<1> QED BY <1>2, <1>6, <1>7 DEF Kept, all

\* The first n paragraphs: those from the g-th on are in the buffer.
Buffered(paragraphs, n, st) ==
    /\ st = [chunks |-> st.chunks, buf |-> st.buf, len |-> st.len]
    /\ st.len \in Nat /\ st.len <= MAX_MD_CHUNK
    /\ \E g \in 1..n + 1 :
          /\ Kept(paragraphs, g - 1, st.chunks)
          /\ st.buf = SubSeq(paragraphs, g, n)
          /\ IF n < g THEN st.len = 0
             ELSE paragraphs[g].len = 0 \/ (st.len = Joined(st.buf, 2) /\ st.len > 0)

\* Putting the buffer into a chunk keeps its characters, within the bound.
LEMMA BufferKept ==
    ASSUME NEW paragraphs, Section(paragraphs), NEW n \in 0..Len(paragraphs), NEW st,
           Buffered(paragraphs, n, st)
    PROVE  Kept(paragraphs, n, FlushedBuffer(st))
<1> DEFINE N == Len(paragraphs)
           S == ToSet(paragraphs)
<1>1. /\ paragraphs \in Seq(S) /\ N \in Nat
      /\ \A i \in 1..N :
            /\ paragraphs[i].from \in Int /\ paragraphs[i].to \in Int
            /\ paragraphs[i].len \in Nat /\ paragraphs[i] \in S
      /\ \A i, j \in 1..N :
            i <= j => /\ paragraphs[i].from <= paragraphs[j].from
                      /\ paragraphs[i].to <= paragraphs[j].to
  BY ParagraphsAscend
<1>2. PICK g \in 1..n + 1 :
          /\ Kept(paragraphs, g - 1, st.chunks)
          /\ st.buf = SubSeq(paragraphs, g, n)
          /\ IF n < g THEN st.len = 0
             ELSE paragraphs[g].len = 0 \/ (st.len = Joined(st.buf, 2) /\ st.len > 0)
  BY DEF Buffered
<1>3. st.len <= MAX_MD_CHUNK
  BY DEF Buffered
<1> HIDE DEF N, S
<1>4. n \in Nat /\ n <= N /\ g \in Nat /\ g >= 1 /\ g <= n + 1 /\ g \in 1..N + 1 /\ n \in g - 1..N
  BY <1>1 DEF N
<1>5. st.buf \in Seq(S) /\ (st.buf = <<>> <=> n < g)
  BY <1>1, <1>2, <1>4, Slice DEF N
<1>6. CASE n < g
  <2>1. g - 1 = n
    BY <1>4, <1>6
  <2> QED BY <1>2, <1>5, <1>6, <2>1 DEF FlushedBuffer
<1>7. CASE ~(n < g)
  <2> DEFINE J == Joined(st.buf, 2)
             from == paragraphs[g].from
             to == paragraphs[n].to
             c == [from |-> from, to |-> to, len |-> J]
             more == <<c>>
  <2>1. g \in 1..N /\ n \in g..N /\ n \in 1..N
    BY <1>1, <1>4, <1>7
  <2>2. st.buf[1] = paragraphs[g] /\ Last(st.buf) = paragraphs[n]
    BY <1>1, <1>2, <2>1, SliceEnds DEF N
  <2>3. Chunk(st.buf, 2) = c
    BY <2>2 DEF Chunk
  <2>4. J \in Int
    <3>1. \A i \in 1..Len(st.buf) : st.buf[i].len \in Nat
      <4>1. /\ Len(st.buf) = n - g + 1
            /\ \A i \in 1..Len(st.buf) : st.buf[i] = paragraphs[g - 1 + i]
        BY <1>1, <1>2, <1>4, Slice DEF N
      <4> SUFFICES ASSUME NEW i \in 1..Len(st.buf) PROVE st.buf[i].len \in Nat
        OBVIOUS
      <4>2. g - 1 + i \in 1..N
        BY <1>1, <1>4, <4>1
      <4> QED BY <1>1, <4>1, <4>2
    <3>2. paragraphs[n] \in S /\ paragraphs[n].len \in Nat
      BY <1>1, <2>1
    <3> QED BY <1>5, <3>1, <3>2, JoinedAppend
  <2>5. from \in Int /\ to \in Int
    BY <1>1, <2>1
  <2>6. c \in ChunkType
    <3> HIDE DEF from, to, J
    <3> QED BY <2>4, <2>5 DEF ChunkType
  <2>7. Allowed(paragraphs, c)
    <3>1. CASE paragraphs[g].len = 0
      <4>1. paragraphs[g] \in ToSet(paragraphs)
        BY <1>1, <2>1 DEF S
      <4> QED BY <3>1, <4>1 DEF Allowed
    <3>2. CASE paragraphs[g].len # 0
      <4>1. c.len = st.len
        BY <1>2, <1>7, <3>2
      <4> QED BY <1>3, <4>1 DEF Allowed
    <3> QED BY <3>1, <3>2
  <2>8. ASSUME NEW i \in 1..n, i \notin 1..g - 1 PROVE Held(paragraphs[i], more)
    <3>1. i \in 1..N /\ g <= i /\ i <= n
      BY <1>1, <1>4, <2>8
    <3>2. from <= paragraphs[i].from /\ paragraphs[i].to <= to
      BY <1>1, <2>1, <3>1
    <3>3. paragraphs[i].from \in Int /\ paragraphs[i].to \in Int
      BY <1>1, <3>1
    <3>4. Len(more) = 1 /\ more[1].from = from /\ more[1].to = to /\ 1 \in 1..1
      OBVIOUS
    <3> HIDE DEF more, from, to
    <3>5. \A x \in paragraphs[i].from..paragraphs[i].to : x \in from..to
      BY <2>5, <3>2, <3>3
    <3> QED BY <3>4, <3>5 DEF Held
  <2>9. more \in Seq(ChunkType) /\ Len(more) = 1 /\ more[1] = c
    <3> HIDE DEF c
    <3> QED BY <2>6
  <2>10. \A k \in 1..Len(more) : Allowed(paragraphs, more[k])
    <3> HIDE DEF more, c
    <3>1. \A k \in 1..1 : k = 1
      OBVIOUS
    <3> QED BY <2>7, <2>9, <3>1
  <2>11. FlushedBuffer(st) = st.chunks \o more
    <3>1. FlushedBuffer(st) = Append(st.chunks, c)
      BY <1>5, <1>7, <2>3 DEF FlushedBuffer
    <3>2. st.chunks \in Seq(ChunkType)
      BY <1>2 DEF Kept
    <3> HIDE DEF c
    <3> QED BY <2>6, <3>1, <3>2, AppendIsConcat
  <2> HIDE DEF more
  <2>12. Kept(paragraphs, n, st.chunks \o more)
    BY <1>2, <2>8, <2>9, <2>10, KeptConcat
  <2> QED BY <2>11, <2>12
<1> QED BY <1>6, <1>7

\* One more paragraph, buffered or cut into chunks of its own.
LEMMA BufferedStep ==
    ASSUME NEW paragraphs, Section(paragraphs), NEW n \in 0..Len(paragraphs) - 1, NEW st,
           Buffered(paragraphs, n, st)
    PROVE  Buffered(paragraphs, n + 1, AddParagraph(st, paragraphs[n + 1]))
<1> DEFINE N == Len(paragraphs)
           S == ToSet(paragraphs)
           p == paragraphs[n + 1]
           added == p.len + IF st.buf # <<>> THEN 2 ELSE 0
           full == st.buf # <<>> /\ st.len + added > MAX_MD_CHUNK
           kept == IF full THEN [chunks |-> FlushedBuffer(st), buf |-> <<>>, len |-> 0] ELSE st
           next == AddParagraph(st, p)
<1>1. /\ paragraphs \in Seq(S) /\ N \in Nat
      /\ \A i \in 1..N : /\ paragraphs[i].from \in Int /\ paragraphs[i].to \in Int
                         /\ paragraphs[i].len \in Nat /\ paragraphs[i] \in S
  BY ParagraphsAscend
<1> HIDE DEF N, S
<1>2. /\ n \in Nat /\ n + 1 \in 1..N /\ n + 1 <= N /\ n \in 0..Len(paragraphs)
      /\ MAX_MD_CHUNK \in Nat /\ p.len \in Nat /\ p.from \in Int /\ p.to \in Int
      /\ p \in ToSet(paragraphs)
  <2>1. n \in Nat /\ n + 1 \in 1..N /\ n + 1 <= N /\ n \in 0..Len(paragraphs)
    BY <1>1 DEF N
  <2>2. MAX_MD_CHUNK \in Nat
    BY ChunkersAssumption
  <2> QED BY <1>1, <2>1, <2>2 DEF S
<1>3. next = IF p.len > MAX_MD_CHUNK
             THEN [kept EXCEPT !.chunks = @ \o RecursiveSplit(p, 2)]
             ELSE [kept EXCEPT !.buf = Append(@, p), !.len = @ + p.len + IF @ # 0 THEN 2 ELSE 0]
  BY DEF AddParagraph
<1> HIDE DEF p, next
<1>4. Buffered(paragraphs, n, kept) /\ (kept.buf = <<>> \/ kept.len + p.len + 2 <= MAX_MD_CHUNK)
  <2>1. CASE full
    <3> DEFINE g == n + 1
    <3>1. g \in 1..n + 1 /\ g - 1 = n /\ n < g
      BY <1>2
    <3>2. SubSeq(paragraphs, g, n) = <<>>
      BY <1>2, <3>1, SubSeqEmpty
    <3>3. Kept(paragraphs, n, FlushedBuffer(st))
      BY <1>2, BufferKept
    <3>4. /\ kept = [chunks |-> kept.chunks, buf |-> kept.buf, len |-> kept.len]
          /\ kept.chunks = FlushedBuffer(st) /\ kept.buf = <<>> /\ kept.len = 0
      BY <2>1
    <3> HIDE DEF kept, g
    <3>5. Buffered(paragraphs, n, kept)
      BY <1>2, <3>1, <3>2, <3>3, <3>4 DEF Buffered
    <3> QED BY <3>4, <3>5
  <2>2. CASE ~full
    <3>1. kept = st
      BY <2>2
    <3>2. st.len \in Nat
      BY DEF Buffered
    <3>3. st.buf # <<>> => st.len + p.len + 2 <= MAX_MD_CHUNK
      BY <1>2, <2>2, <3>2
    <3> HIDE DEF kept
    <3> QED BY <3>1, <3>3
  <2> QED BY <2>1, <2>2
<1> HIDE DEF kept
<1>5. PICK g \in 1..n + 1 :
          /\ Kept(paragraphs, g - 1, kept.chunks)
          /\ kept.buf = SubSeq(paragraphs, g, n)
          /\ IF n < g THEN kept.len = 0
             ELSE paragraphs[g].len = 0 \/ (kept.len = Joined(kept.buf, 2) /\ kept.len > 0)
  BY <1>4 DEF Buffered
<1>6. /\ kept = [chunks |-> kept.chunks, buf |-> kept.buf, len |-> kept.len]
      /\ kept.len \in Nat /\ kept.len <= MAX_MD_CHUNK
  BY <1>4 DEF Buffered
<1>7. /\ g \in Nat /\ g >= 1 /\ g <= n + 1 /\ g \in 1..N + 1 /\ g \in 1..N
      /\ n \in g - 1..N /\ n \in g - 1..N - 1
  BY <1>1, <1>2
<1>8. kept.buf \in Seq(S) /\ (kept.buf = <<>> <=> n < g)
  BY <1>1, <1>5, <1>7, Slice DEF N
<1>9. CASE p.len > MAX_MD_CHUNK
  <2> DEFINE cut == RecursiveSplit(p, 2)
             h == n + 2
  <2>1. kept.buf = <<>> /\ g - 1 = n /\ kept.len = 0
    <3>1. kept.buf = <<>>
      BY <1>2, <1>4, <1>6, <1>9
    <3>2. n < g
      BY <1>8, <3>1
    <3> QED BY <1>5, <1>7, <3>1, <3>2
  <2>2. next = [chunks |-> kept.chunks \o cut, buf |-> <<>>, len |-> 0]
    <3>1. next = [kept EXCEPT !.chunks = @ \o cut]
      BY <1>3, <1>9
    <3> HIDE DEF cut
    <3> QED BY <1>6, <2>1, <3>1
  <2>3. Text(p, 2) /\ 2 \in 1..Levels
    <3>1. Text(paragraphs[n + 1], 2)
      BY <1>2, <1>9 DEF Section, p, N
    <3> QED BY <3>1, SepBound DEF p
  <2>4. Fits(cut, p.from, p.to)
    BY <2>3, TextFits
  <2> HIDE DEF cut
  <2>5. /\ cut \in Seq(ChunkType)
        /\ \A i \in 1..Len(cut) : p.from <= cut[i].from /\ cut[i].to <= p.to
        /\ \A x \in p.from..p.to : \E i \in 1..Len(cut) : x \in cut[i].from..cut[i].to
    BY <1>2, <2>4, FitsWithin
  <2>6. \A k \in 1..Len(cut) : Allowed(paragraphs, cut[k])
    BY <1>2, <1>9, <2>5 DEF Allowed
  <2>7. \A i \in 1..n + 1 : i \in 1..n \/ Held(paragraphs[i], cut)
    <3>1. Held(paragraphs[n + 1], cut)
      BY <2>5 DEF Held, p
    <3>2. \A i \in 1..n + 1 : i \in 1..n \/ i = n + 1
      BY <1>2
    <3> QED BY <3>1, <3>2
  <2>8. Kept(paragraphs, n, kept.chunks)
    BY <1>5, <2>1
  <2>9. Kept(paragraphs, n + 1, kept.chunks \o cut)
    BY <2>5, <2>6, <2>7, <2>8, KeptConcat
  <2>10. h \in 1..(n + 1) + 1 /\ h - 1 = n + 1 /\ n + 1 < h
    BY <1>2
  <2>11. SubSeq(paragraphs, h, n + 1) = <<>>
    BY <1>2, <2>10, SubSeqEmpty
  <2> HIDE DEF h
  <2>12. /\ next = [chunks |-> next.chunks, buf |-> next.buf, len |-> next.len]
         /\ next.chunks = kept.chunks \o cut /\ next.buf = <<>> /\ next.len = 0
    BY <2>2
  <2>14. /\ Kept(paragraphs, h - 1, next.chunks)
         /\ next.buf = SubSeq(paragraphs, h, n + 1)
         /\ IF n + 1 < h THEN next.len = 0
            ELSE paragraphs[h].len = 0 \/ (next.len = Joined(next.buf, 2) /\ next.len > 0)
    BY <2>9, <2>10, <2>11, <2>12
  <2>15. next.len \in Nat /\ next.len <= MAX_MD_CHUNK
    BY <1>2, <2>12
  <2>13. Buffered(paragraphs, n + 1, next)
    BY <2>10, <2>12, <2>14, <2>15 DEF Buffered
  <2> QED BY <2>13 DEF next, p
<1>10. CASE ~(p.len > MAX_MD_CHUNK)
  <2> DEFINE more == Append(kept.buf, p)
             len == kept.len + p.len + IF kept.len # 0 THEN 2 ELSE 0
  <2>1. next = [chunks |-> kept.chunks, buf |-> more, len |-> len]
    <3>1. next = [kept EXCEPT !.buf = Append(@, p), !.len = @ + p.len + IF @ # 0 THEN 2 ELSE 0]
      BY <1>3, <1>10
    <3> QED BY <1>6, <3>1
  <2>2. more = SubSeq(paragraphs, g, n + 1)
    <3>1. Append(SubSeq(paragraphs, g, n), paragraphs[n + 1]) = SubSeq(paragraphs, g, n + 1)
      BY <1>1, <1>7, SliceAppend DEF N
    <3> QED BY <1>5, <3>1 DEF p
  <2>3. len \in Nat /\ len <= MAX_MD_CHUNK
    <3>1. CASE kept.buf = <<>>
      <4>1. kept.len = 0
        BY <1>5, <1>8, <3>1
      <4> QED BY <1>2, <1>10, <4>1
    <3>2. CASE kept.buf # <<>>
      <4>1. kept.len + p.len + 2 <= MAX_MD_CHUNK
        BY <1>4, <3>2
      <4> QED BY <1>2, <1>6, <4>1
    <3> QED BY <3>1, <3>2
  <2>4. /\ Joined(kept.buf, 2) \in Int
        /\ Joined(more, 2) = IF kept.buf = <<>> THEN p.len ELSE Joined(kept.buf, 2) + p.len + 2
    <3> DEFINE buf == kept.buf
    <3>1. /\ Len(buf) = n - g + 1
          /\ \A i \in 1..Len(buf) : buf[i] = paragraphs[g - 1 + i]
      BY <1>1, <1>5, <1>7, Slice DEF N
    <3>2. ASSUME NEW i \in 1..Len(buf) PROVE buf[i].len \in Nat
      <4>1. g - 1 + i \in 1..N
        BY <1>1, <1>7, <3>1
      <4> QED BY <1>1, <3>1, <4>1
    <3>3. p \in S /\ p.len \in Nat /\ buf \in Seq(S)
      BY <1>2, <1>8 DEF S
    <3> HIDE DEF buf
    <3>4. /\ Joined(buf, 2) \in Int
          /\ Joined(Append(buf, p), 2) = IF buf = <<>> THEN p.len ELSE Joined(buf, 2) + p.len + 2
      BY <3>2, <3>3, JoinedAppend
    <3> QED BY <3>4 DEF buf
  <2>5. paragraphs[g].len = 0 \/ (len = Joined(more, 2) /\ len > 0)
    <3>1. CASE n < g
      <4>1. g = n + 1 /\ kept.buf = <<>> /\ kept.len = 0
        BY <1>5, <1>7, <1>8, <3>1
      <4>2. len = p.len /\ Joined(more, 2) = p.len /\ paragraphs[g] = p
        BY <1>2, <2>4, <4>1 DEF p
      <4> QED BY <1>2, <4>2
    <3>2. CASE ~(n < g)
      <4>1. SUFFICES ASSUME kept.len = Joined(kept.buf, 2), kept.len > 0
                     PROVE  len = Joined(more, 2) /\ len > 0
        BY <1>5, <3>2
      <4>2. kept.buf # <<>>
        BY <1>8, <3>2
      <4> QED BY <1>2, <1>6, <2>4, <4>1, <4>2
    <3> QED BY <3>1, <3>2
  <2>6. g \in 1..(n + 1) + 1 /\ ~(n + 1 < g)
    BY <1>2, <1>7
  <2> HIDE DEF more, len
  <2>7. /\ next = [chunks |-> next.chunks, buf |-> next.buf, len |-> next.len]
        /\ next.chunks = kept.chunks /\ next.buf = more /\ next.len = len
    BY <2>1
  <2>8. Buffered(paragraphs, n + 1, next)
    BY <1>5, <2>2, <2>3, <2>5, <2>6, <2>7 DEF Buffered
  <2> QED BY <2>8 DEF next, p
<1> QED BY <1>9, <1>10

\* Of whatever paragraphs, some of them empty and some too long, every character gets into a
\* chunk, and a chunk is within MAX_MD_CHUNK unless it begins with an empty paragraph or is cut
\* from one that is too long (chunkers.py:186-213).
THEOREM SectionIsSound ==
    ASSUME NEW paragraphs, Section(paragraphs)
    PROVE  SectionSound(paragraphs)
<1> DEFINE N == Len(paragraphs)
           S == ToSet(paragraphs)
           chunks == OversizedSection(paragraphs)
           after == Paragraphs(paragraphs)
<1>1. /\ paragraphs \in Seq(S) /\ N \in Nat /\ N >= 1
      /\ \A i \in 1..N : /\ paragraphs[i].from \in Int /\ paragraphs[i].to \in Int
                         /\ paragraphs[i].len \in Nat /\ paragraphs[i] \in S
      /\ \A i, j \in 1..N :
            i <= j => /\ paragraphs[i].from <= paragraphs[j].from
                      /\ paragraphs[i].to <= paragraphs[j].to
  BY ParagraphsAscend
<1>2. Last(paragraphs) = paragraphs[N]
  BY DEF Last
<1>3. \A i \in 1..N - 1 : paragraphs[i + 1].from = paragraphs[i].to + 1
  BY DEF Section
<1> HIDE DEF N, S
<1>4. SUFFICES /\ \A x \in paragraphs[1].from..paragraphs[N].to :
                     \E i \in DOMAIN chunks : x \in chunks[i].from..chunks[i].to
               /\ \A i \in DOMAIN chunks : Allowed(paragraphs, chunks[i])
  BY <1>2 DEF SectionSound, Allowed
<1>5. CASE Joined(paragraphs, 2) <= MAX_MD_CHUNK
  <2> DEFINE c == Chunk(paragraphs, 2)
  <2>1. chunks = <<c>>
    BY <1>5 DEF OversizedSection
  <2>2. c.from = paragraphs[1].from /\ c.to = paragraphs[N].to /\ c.len <= MAX_MD_CHUNK
    BY <1>2, <1>5 DEF Chunk
  <2> HIDE DEF chunks, c
  <2>3. DOMAIN chunks = {1} /\ chunks[1] = c
    BY <2>1
  <2> QED BY <2>2, <2>3 DEF Allowed
<1>6. CASE ~(Joined(paragraphs, 2) <= MAX_MD_CHUNK)
  <2> DEFINE A == {n \in 0..N : Buffered(paragraphs, n, after[n])}
  <2>1. /\ after[0] = [chunks |-> <<>>, buf |-> <<>>, len |-> 0]
        /\ \A n \in 1..N : after[n] = AddParagraph(after[n - 1], paragraphs[n])
    BY <1>1, ParagraphsStep DEF N
  <2>2. chunks = FlushedBuffer(after[N])
    BY <1>6 DEF OversizedSection, N
  <2> HIDE DEF after, chunks
  <2>3. 0 \in A
    <3>1. 1 \in 1..0 + 1 /\ 1 - 1 = 0 /\ 0 < 1 /\ 0 \in 0..N /\ 1..0 = {} /\ MAX_MD_CHUNK \in Nat
      BY <1>1, ChunkersAssumption
    <3>2. SubSeq(paragraphs, 1, 0) = <<>>
      BY SubSeqEmpty
    <3>3. Kept(paragraphs, 0, <<>>)
      <4>1. <<>> \in Seq(ChunkType) /\ Len(<<>>) = 0
        BY EmptySeq
      <4> QED BY <3>1, <4>1 DEF Kept
    <3>4. /\ after[0] = [chunks |-> after[0].chunks, buf |-> after[0].buf, len |-> after[0].len]
          /\ after[0].chunks = <<>> /\ after[0].buf = <<>> /\ after[0].len = 0
      BY <2>1
    <3>5. Buffered(paragraphs, 0, after[0])
      BY <3>1, <3>2, <3>3, <3>4 DEF Buffered
    <3> QED BY <3>1, <3>5
  <2>4. ASSUME NEW n \in 0..(N - 1), n \in A PROVE n + 1 \in A
    <3>1. n + 1 \in 0..N /\ n + 1 \in 1..N /\ (n + 1) - 1 = n /\ n \in 0..Len(paragraphs) - 1
      BY <1>1 DEF N
    <3>2. after[n + 1] = AddParagraph(after[n], paragraphs[n + 1])
      BY <2>1, <3>1
    <3>3. Buffered(paragraphs, n + 1, after[n + 1])
      BY <2>4, <3>1, <3>2, BufferedStep
    <3> QED BY <3>1, <3>3
  <2>5. \A n \in 0..N : n \in A
    <3> HIDE DEF A
    <3> QED BY <1>1, <2>3, <2>4, AllUpTo
  <2>6. Kept(paragraphs, N, chunks)
    <3>1. N \in A /\ N \in 0..Len(paragraphs)
      BY <1>1, <2>5 DEF N
    <3> QED BY <2>2, <3>1, BufferKept
  <2>7. DOMAIN chunks = 1..Len(chunks)
    BY <2>6, LenProperties DEF Kept
  <2>8. ASSUME NEW x \in paragraphs[1].from..paragraphs[N].to
        PROVE  \E i \in 1..N : x \in paragraphs[i].from..paragraphs[i].to
    <3> DEFINE T == {i \in 1..N : x <= paragraphs[i].to}
    <3>1. N \in T /\ paragraphs[1].from \in Int /\ 1 \in 1..N
      BY <1>1
    <3>2. T \in SUBSET Nat /\ T # {}
      BY <3>1
    <3> HIDE DEF T
    <3>3. PICK i \in T : \A m \in T : i <= m
      BY <3>2, LeastExists
    <3>4. i \in 1..N /\ x <= paragraphs[i].to
      BY <3>3 DEF T
    <3>5. paragraphs[i].from <= x
      <4>1. CASE i = 1
        BY <4>1
      <4>2. CASE i # 1
        <5> DEFINE j == i - 1
        <5>1. j \in 1..N - 1 /\ j \in 1..N /\ j + 1 = i /\ ~(i <= j)
          BY <1>1, <3>4, <4>2
        <5> HIDE DEF j
        <5>2. ~(x <= paragraphs[j].to)
          BY <3>3, <5>1 DEF T
        <5>3. paragraphs[i].from = paragraphs[j].to + 1 /\ paragraphs[j].to \in Int
          BY <1>1, <1>3, <5>1
        <5> QED BY <3>1, <5>2, <5>3
      <4> QED BY <4>1, <4>2
    <3>6. x \in paragraphs[i].from..paragraphs[i].to
      BY <1>1, <3>1, <3>4, <3>5
    <3> QED BY <3>4, <3>6
  <2> QED BY <2>6, <2>7, <2>8 DEF Kept, Held
<1> QED BY <1>5, <1>6
-----------------------------------------------------------------------------
(***************************************************************************)
(* What each part is handed, in every state: no step changes the problem.  *)
(***************************************************************************)
LEMMA ProblemKept == PartsSpec => [](problem.input \in Inputs(problem.part))
<1>1. PartsInit => problem.input \in Inputs(problem.part)
  BY DEF PartsInit, Inputs
<1>2. problem.input \in Inputs(problem.part) /\ [UNCHANGED problem]_problem
         => (problem.input \in Inputs(problem.part))'
  BY DEF Inputs
<1> QED BY <1>1, <1>2, PTL DEF PartsSpec

\* Cutting a document loses nothing and bounds the chunks, for texts, Markdown and Python of
\* any size and any windows (chunkers.py:33-213).
THEOREM ChunksCoverText == PartsSpec => []ChunksCover
<1>1. problem.input \in Inputs(problem.part) => ChunksCover
  <2> SUFFICES ASSUME problem.input \in Inputs(problem.part) PROVE ChunksCover
    OBVIOUS
  <2> DEFINE p == problem.input
  <2>1. ASSUME Given("splits") PROVE MergeSound(p.splits, p.sep)
    <3>1. Mergeable(p.splits, p.sep)
      BY <2>1, PartsAssumption DEF Given
    <3>2. PartsIn(ToSet(p.splits), p.splits) /\ p.splits # <<>> /\ p.sep \in Nat
      BY <3>1 DEF Mergeable, Adjoining, PartsIn
    <3> QED BY <3>2, MergeIsSound
  <2>2. ASSUME Given("text") PROVE SplitSound(p)
    BY <2>2, PartsAssumption, SplitIsSound DEF Given
  <2>3. ASSUME Given("markdown") PROVE SectionsSound(p)
    BY <2>3, PartsAssumption, SectionsAreSound DEF Given
  <2>4. ASSUME Given("section") PROVE SectionSound(p)
    BY <2>4, PartsAssumption, SectionIsSound DEF Given
  <2>5. ASSUME Given("python") PROVE PythonSound(p.nodes, p.total, p.blank)
    BY <2>5, PartsAssumption, PythonIsSound DEF Given
  <2> QED BY <2>1, <2>2, <2>3, <2>4, <2>5 DEF ChunksCover
<1> QED BY <1>1, ProblemKept, PTL

\* The histories of any roots survive whatever fails (git_history.py:93-98, 112-139).
THEOREM HistoriesSurviveErrors == PartsSpec => []HistoriesSurvive
<1>1. problem.input \in Inputs(problem.part) => HistoriesSurvive
  <2> SUFFICES ASSUME problem.input \in Inputs(problem.part), Given("histories")
               PROVE  HistoriesKept(problem.input.roots, problem.input.docs)
    BY DEF HistoriesSurvive
  <2> DEFINE roots == problem.input.roots
             docs == problem.input.docs
             outs == {c.out : c \in ToSet(FlattenSeq(roots))}
  <2>1. Listing(roots, docs)
    BY PartsAssumption DEF Given
  <2>2. NoDoc \notin outs /\ roots \in Seq(Seq(Child(DOMAIN docs, outs)))
    BY <2>1 DEF Listing, Child
  <2> HIDE DEF roots, docs, outs
  <2>3. HistoriesKept(roots, docs)
    BY <2>2, HistoriesAreKept
  <2> QED BY <2>3 DEF roots, docs
<1> QED BY <1>1, ProblemKept, PTL
=============================================================================
