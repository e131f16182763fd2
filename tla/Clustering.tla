------------------------------ MODULE Clustering ------------------------------
(***************************************************************************)
(* Communities, graph/community_store.py: Louvain over the relationships,  *)
(* then the entities without one placed by co-occurrence, then Louvain     *)
(* over what is left.  Louvain itself is the networkx library.             *)
(*                                                                         *)
(* A weighted graph is a function from its edges <<a, b>>, a <= b, to      *)
(* weights; a list of communities is the function that gives the index of  *)
(* each entity's community.  Entities are naturals, in the order of their  *)
(* slugs.                                                                  *)
(***************************************************************************)
EXTENDS Integers, FiniteSets, FiniteSetsExt, Functions

CONSTANTS
    Entity,
    Louvain(_)      \* from a graph to the communities of its nodes

ASSUME ClusteringAssumption == Entity \subseteq Nat /\ IsFiniteSet(Entity)

Ordered(a, b) == IF a <= b THEN <<a, b>> ELSE <<b, a>>
Ends(edges) == UNION {{e[1], e[2]} : e \in edges}

\* build_networkx_graph: one edge per pair of entities; here each row weighs 1.
LlmGraph(rels) ==
    [e \in {Ordered(r[1], r[2]) : r \in rels} |->
        Cardinality({r \in rels : Ordered(r[1], r[2]) = e})]

\* Half a unit, the weight of a chunk of two entities, in parts so small that one less than
\* the number of entities of any chunk divides it.
Half == ProductSet(1..Cardinality(Entity) - 1)

\* _cooccurrence_weights, of the chunk links <<chunk, entity>>, in those parts: a chunk adds
\* half a unit to a pair, divided by the number of entities it has besides one.  The sums
\* are exact, where the code's are of floats.
Cooccurrence(links) ==
    LET of(c) == {l[2] : l \in {k \in links : k[1] = c}}
        shared(e) == {c \in {l[1] : l \in links} : e[1] \in of(c) /\ e[2] \in of(c)}
    IN  [e \in {p \in Entity \X Entity : p[1] < p[2] /\ shared(p) # {}} |->
            MapThenSumSet(LAMBDA c : Half \div (Cardinality(of(c)) - 1), shared(e))]
-----------------------------------------------------------------------------
(* _cluster: together is a co-occurrence graph, of the communities so far. *)

Weight(together, a, b) ==
    IF Ordered(a, b) \in DOMAIN together THEN together[Ordered(a, b)] ELSE 0

Affinity(together, of, e, i) ==
    MapThenSumSet(LAMBDA a : Weight(together, a, e), {a \in DOMAIN of : of[a] = i})

\* Who joins in this round of the loop, and where: ties go to the lowest community.
Joining(together, of) ==
    {e \in Entity \ DOMAIN of : \E a \in DOMAIN of : Weight(together, a, e) > 0}

Closest(together, of, e) ==
    LET all == {of[a] : a \in DOMAIN of}
    IN  CHOOSE i \in all : \A j \in all :
            LET x == Affinity(together, of, e, i)
                y == Affinity(together, of, e, j)
            IN  x > y \/ (x = y /\ i <= j)

Round(together, of) ==
    [e \in DOMAIN of \cup Joining(together, of) |->
        IF e \in DOMAIN of THEN of[e] ELSE Closest(together, of, e)]

\* Mutant: one round.
AttachOnce(together, of) == Round(together, of)

\* The communities after each number of rounds.
Rounds(together, of) ==
    LET after[n \in 0..Cardinality(Entity)] ==
            IF n = 0 THEN of ELSE Round(together, after[n - 1])
    IN  after

\* Rounds until nothing new joins; every round but the last places somebody.
Attach(together, of) == Rounds(together, of)[Cardinality(Entity)]

Residual(together, of) ==
    Restrict(together, {e \in DOMAIN together : e[1] \notin DOMAIN of /\ e[2] \notin DOMAIN of})

\* communities + _louvain(residual)
Appended(of, rest) ==
    LET n == Cardinality(Range(of))
    IN  [e \in DOMAIN of \cup DOMAIN rest |-> IF e \in DOMAIN of THEN of[e] ELSE n + rest[e]]

Cluster(graph, together) ==
    LET placed == Attach(together, Louvain(graph))
    IN  Appended(placed, Louvain(Residual(together, placed)))
-----------------------------------------------------------------------------
(* What it relies on.                                                      *)

\* A list of communities: the indices are 0, 1, ... without a gap.
Numbered(of) == of \in [DOMAIN of -> Nat] /\ Range(of) = 0..Cardinality(Range(of)) - 1

\* Louvain puts each node of the graph in one community.
Divides(graph) ==
    Louvain(graph) \in [Ends(DOMAIN graph) -> Nat] /\ Numbered(Louvain(graph))

CooccurrenceGraph(together) ==
    /\ together \in [DOMAIN together -> Nat \ {0}]
    /\ DOMAIN together \subseteq {p \in Entity \X Entity : p[1] < p[2]}
-----------------------------------------------------------------------------
(* What it promises, over the distances at which entities co-occur.        *)

\* The entities at most n co-occurrences from those of placed, and the distance of one.
Reached(together, placed, n) ==
    LET near[k \in 0..n] ==
            IF k = 0 THEN placed
            ELSE near[k - 1]
                 \cup {e \in Entity : \E a \in near[k - 1] : Weight(together, a, e) > 0}
    IN  near[n]

Distance(together, placed, e) ==
    Min({n \in 0..Cardinality(Entity) : e \in Reached(together, placed, n)})

\* Nobody leaves a community of Louvain's; whoever co-occurs with one of theirs, through
\* whomever, is placed with the heaviest of the nearer ones, the lowest in a tie; the rest
\* get communities of their own, numbered after (community_store.py:28-60).
ClusteringSound(together, of) ==
    LET start == DOMAIN of
        reached == Reached(together, start, Cardinality(Entity))
        placed == Attach(together, of)
        all == Appended(placed, Louvain(Residual(together, placed)))
        nearer(e) == Reached(together, start, Distance(together, start, e) - 1)
        pull(e, i) == Affinity(together, Restrict(placed, nearer(e)), e, i)
    IN  /\ DOMAIN placed = reached /\ \A e \in start : placed[e] = of[e]
        /\ \A e \in reached \ start, i \in Range(of) :
              \/ pull(e, placed[e]) > pull(e, i)
              \/ pull(e, placed[e]) = pull(e, i) /\ placed[e] <= i
        /\ DOMAIN all = reached \cup Ends(DOMAIN together)
        /\ Range(all) = 0..Cardinality(Range(all)) - 1
        /\ \A e \in DOMAIN all : IF e \in reached THEN all[e] = placed[e]
                                  ELSE all[e] \notin Range(of)
=============================================================================
