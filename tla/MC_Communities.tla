---------------------------- MODULE MC_Communities ----------------------------
(***************************************************************************)
(* A small instance of Communities.  "pairs" has two communities; without  *)
(* its first pair, or with another description in it, the second pair is   *)
(* renumbered or unchanged; "joined" is one community; in "placed" the     *)
(* entity 1 joins the second pair by co-occurrence and 2 is on its own.    *)
(***************************************************************************)
EXTENDS Communities, TLC

FourEntities == 1..4
Rows(present, changed) ==
    [e \in FourEntities |-> IF e \notin present THEN None ELSE IF e \in changed THEN 2 ELSE 1]

pairs == [row |-> Rows(1..4, {}), rels |-> {<<1, 2>>, <<4, 3>>}, together |-> <<>>]
edited == [pairs EXCEPT !.row = Rows(1..4, {2})]
second == [row |-> Rows(3..4, {}), rels |-> {<<4, 3>>}, together |-> <<>>]
joined == [pairs EXCEPT !.rels = @ \cup {<<2, 3>>}]
placed == [row |-> Rows(1..4, {}), rels |-> {<<4, 3>>},
           together |-> Cooccurrence({<<"text", 1>>, <<"text", 3>>})]
MCWorld == {pairs, edited, second, joined, placed}

\* A stand-in for Louvain: the components, in the order of their smallest members.
Components(g) ==
    LET nodes == Ends(DOMAIN g)
        near == [n \in nodes |-> {n} \cup {m \in nodes : Weight(g, n, m) > 0}]
        reach == [n \in nodes |-> UNION {near[m] : m \in UNION {near[k] : k \in near[n]}}]
        first == [n \in nodes |-> Min(reach[n])]
    IN  [n \in nodes |-> Cardinality({m \in Range(first) : m < first[n]})]
=============================================================================
