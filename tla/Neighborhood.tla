----------------------------- MODULE Neighborhood -----------------------------
(***************************************************************************)
(* expand_neighborhood of graph/community_store.py: the entities and       *)
(* relationships that local retrieval shows to the model, around the       *)
(* entities it has found.  A table of relationships is a function from     *)
(* <<source, target>> to weights, summed over documents, 0 for no row;     *)
(* labels, which only break a last tie, are left out.  Entities are        *)
(* naturals, in the order of their slugs.                                  *)
(***************************************************************************)
EXTENDS Integers, Sequences, SequencesExt

\* The members of S in the order of the pairs <<earlier, later>>.
Sorted(S, order) ==
    [i \in 1..Cardinality(S) |->
        CHOOSE x \in S : Cardinality({y \in S : <<y, x>> \in order}) = i - 1]

FirstOf(s, n) == SubSeq(s, 1, Min({n, Len(s)}))

\* list(dict.fromkeys(s))
Distinct(s) ==
    LET seen[n \in 0..Len(s)] ==
            IF n = 0 THEN <<>>
            ELSE LET prev == seen[n - 1]
                 IN  IF Contains(prev, s[n]) THEN prev ELSE Append(prev, s[n])
    IN  seen[Len(s)]

Entities(table) == {e[1] : e \in DOMAIN table}

\* The weight of an edge, seen from either of its ends.
Between(table, a, b) == table[<<a, b>>] + IF a = b THEN 0 ELSE table[<<b, a>>]

Neighbors(table, p) == {n \in Entities(table) : Between(table, p, n) > 0}

\* ranked[p]: the heaviest first, then by id.
Ranked(table, p, chosen) ==
    LET new == Neighbors(table, p) \ chosen
        before(m, n) == \/ Between(table, p, m) > Between(table, p, n)
                        \/ Between(table, p, m) = Between(table, p, n) /\ m < n
    IN  Sorted(new, {e \in new \X new : before(e[1], e[2])})

\* zip_longest: the first of every list, then the second of every list, and so on.
Tier(lists, t) ==
    FlattenSeq([i \in DOMAIN lists |->
                   IF t <= Len(lists[i]) THEN <<lists[i][t]>> ELSE <<>>])
Tiers(lists) ==
    LET depth == Max({0} \cup {Len(lists[i]) : i \in DOMAIN lists})
    IN  FlattenSeq([t \in 1..depth |-> Tier(lists, t)])

\* Mutant: one parent's neighbors after the other's.
NextHopInOrder(table, frontier, chosen, budget) ==
    FirstOf(Distinct(FlattenSeq([i \in DOMAIN frontier |-> Ranked(table, frontier[i], chosen)])),
            budget)

\* _next_hop
NextHop(table, frontier, chosen, budget) ==
    FirstOf(Distinct(Tiers([i \in DOMAIN frontier |-> Ranked(table, frontier[i], chosen)])),
            budget)

\* One turn of the loop over hops: who is selected so far, and the last hop of them.
Hop(table, st, max) ==
    LET hop == IF st.frontier = <<>> \/ Len(st.all) >= max THEN <<>>
               ELSE NextHop(table, st.frontier, ToSet(st.all), max - Len(st.all))
    IN  [all |-> st.all \o hop, frontier |-> hop]

Selected(table, seeds, hops, max) ==
    LET start == FirstOf(Distinct(seeds), max)
        after[h \in 0..hops] ==
            IF h = 0 THEN [all |-> start, frontier |-> start]
            ELSE Hop(table, after[h - 1], max)
    IN  after[hops].all

\* The relationships: those inside the selection first, the heaviest first.
Relationships(table, selected, max) ==
    LET inside(r) == {r[1], r[2]} \subseteq selected
        rows == {r \in DOMAIN table : table[r] > 0 /\ {r[1], r[2]} \cap selected # {}}
        before(r, s) ==
            \/ inside(r) /\ ~inside(s)
            \/ inside(r) = inside(s) /\ table[r] > table[s]
            \/ /\ inside(r) = inside(s) /\ table[r] = table[s]
               /\ \/ r[1] < s[1]
                  \/ r[1] = s[1] /\ r[2] < s[2]
    IN  FirstOf(Sorted(rows, {e \in rows \X rows : before(e[1], e[2])}), max)
-----------------------------------------------------------------------------
(* What it relies on.                                                      *)

RelationshipTable(table) ==
    LET E == Entities(table)
    IN  E \subseteq Nat /\ IsFiniteSet(E) /\ table \in [E \X E -> Nat]
-----------------------------------------------------------------------------
(* What it promises, over the hops that lead to an entity.                 *)

\* The entities at most h hops from S.
Within(table, S, h) ==
    LET near[k \in 0..h] ==
            IF k = 0 THEN S
            ELSE near[k - 1] \cup UNION {Neighbors(table, p) : p \in near[k - 1]}
    IN  near[h]

\* Breadth first and complete: no entity twice, the seeds first, nearer ones before farther
\* ones, never more than max, and short of max only if nobody within reach is left.
BreadthFirst(table, seeds, hops, max, found) ==
    LET first == FirstOf(Distinct(seeds), max)
    IN  /\ Len(found) <= max /\ Cardinality(ToSet(found)) = Len(found)
        /\ IsPrefix(first, found)
        /\ \A h \in 0..hops, i \in 1..Len(found) :
              found[i] \in Within(table, ToSet(first), h) =>
                  \A j \in 1..i : found[j] \in Within(table, ToSet(first), h)
        /\ Len(found) < max => ToSet(found) = Within(table, ToSet(seeds), hops)

\* A hub cannot spend the budget: whoever is taken in the first hop is ranked by some seed
\* at least as high as any seed ranks a neighbor that is left out (community_store.py:127-130).
Shared(table, seeds, max, found) ==
    LET first == ToSet(FirstOf(Distinct(seeds), max))
        rank(p, n) == LET list == Ranked(table, p, first)
                      IN  CHOOSE k \in DOMAIN list : list[k] = n
        best(n) == Min({rank(p, n) : p \in {q \in first : n \in Neighbors(table, q)}})
        hop == Within(table, first, 1) \ first
    IN  \A n \in hop \ ToSet(found), m \in hop \cap ToSet(found) : best(m) <= best(n)

\* What links the selected entities comes before what leads out of them, and a
\* relationship is left out only for one that is at least as heavy or inside.
InsideFirst(table, selected, max, rows) ==
    LET inside(r) == {r[1], r[2]} \subseteq selected
        all == {r \in DOMAIN table : table[r] > 0 /\ {r[1], r[2]} \cap selected # {}}
    IN  /\ ToSet(rows) \subseteq all /\ Len(rows) = Min({max, Cardinality(all)})
        /\ \A r \in ToSet(rows), s \in all \ ToSet(rows) :
              \/ inside(r) /\ ~inside(s)
              \/ inside(r) = inside(s) /\ table[r] >= table[s]
=============================================================================
