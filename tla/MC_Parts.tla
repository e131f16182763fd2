------------------------------- MODULE MC_Parts -------------------------------
(***************************************************************************)
(* All small problems of the parts.  The connections of a store, the one   *)
(* part with steps, are run beside them: theirs is the problem that has a  *)
(* behavior of its own.                                                    *)
(***************************************************************************)
EXTENDS Parts, SqliteConnections

Texts(S, n) == UNION {[1..k -> S] : k \in 1..n}
-----------------------------------------------------------------------------
(* Clustering: four entities, up to three of them in up to two communities. *)

FourEntities == 1..4

\* A stand-in for Louvain: the components, in the order of their smallest members.
Components(g) ==
    LET nodes == Ends(DOMAIN g)
        near == [n \in nodes |-> {n} \cup {m \in nodes : Weight(g, n, m) > 0}]
        reach == [n \in nodes |-> UNION {near[m] : m \in UNION {near[k] : k \in near[n]}}]
        first == [n \in nodes |-> Min(reach[n])]
    IN  [n \in nodes |-> Cardinality({m \in Range(first) : m < first[n]})]

\* The first of the entities are placed, 1 in community 0.
Partitions ==
    {of \in UNION {[1..k -> 0..1] : k \in 0..3} : of = <<>> \/ of[1] = 0}

Together ==
    LET pairs == {p \in FourEntities \X FourEntities : p[1] < p[2]}
    IN  {Restrict(w, {p \in pairs : w[p] > 0}) : w \in [pairs -> 0..2]}

ClusteringProblems ==
    {[together |-> w, of |-> of] : w \in Together, of \in Partitions}
-----------------------------------------------------------------------------
(* Neighborhoods: two hubs, 1 and 2, and three entities around them.  An   *)
(* edge of weight 1 has one row, one of weight 3 a row in each direction.  *)

Table(spokes, rim) ==
    [r \in (1..5) \X (1..5) |->
        LET e == Ordered(r[1], r[2])
            w == IF e \in DOMAIN spokes THEN spokes[e]
                 ELSE IF e \in rim THEN 1 ELSE 0
        IN  IF w = 3 THEN (IF r = e THEN 1 ELSE 2)
            ELSE IF r = e THEN w ELSE 0]

NeighborhoodProblems ==
    {[table |-> Table(s, m), seeds |-> seeds, hops |-> h, max |-> n] :
        s \in [{1, 2} \X {3, 4, 5} -> {0, 1, 3}], m \in {{}, {<<3, 4>>}},
        seeds \in {<<1, 2, 1>>, <<3>>}, h \in {1, 2}, n \in {3, 4}}
-----------------------------------------------------------------------------
(* Chunking.                                                               *)

SmallSepLen == <<2, 1, 1>>

\* The text of a tree: at the last level a number of characters.
RECURSIVE TextOf(_, _, _)
TextOf(tree, level, from) ==
    LET parts == IF level = Levels
                 THEN [i \in 1..tree |->
                          [from |-> from + i - 1, to |-> from + i - 1, len |-> 1, parts |-> <<>>]]
                 ELSE FoldLeft(LAMBDA done, t :
                          Append(done, TextOf(t, level + 1,
                                              IF done = <<>> THEN from ELSE Last(done).to + 1)),
                          <<>>, tree)
    IN  [from |-> from, to |-> IF parts = <<>> THEN from - 1 ELSE Last(parts).to,
         len |-> Joined(parts, Sep(level)), parts |-> parts]

Lines == Texts({1, 3, 7}, 2)
ParagraphTrees == {<<>>, <<<<1>>>>, <<<<5>>>>, <<<<9>>>>, <<<<4, 2>>, <<2>>>>}

TextProblems ==
    {TextOf(t, 1, 1) : t \in Texts(Texts(Lines, 1), 3) \cup Texts(Texts(Lines, 2), 1)}

SplitsProblems ==
    {[sep |-> sep, splits |-> TextOf(s, 3, 1).parts] :
        s \in Texts(1..CHUNK_SIZE, 5), sep \in {0, 1, 2}}

Fences == {[header |-> FALSE, mark |-> f[1], info |-> f[2]] :
              f \in {<<3, "none">>, <<4, "none">>, <<3, "text">>, <<3, "tick">>,
                     <<-3, "none">>, <<-3, "tick">>}}

MarkdownProblems ==
    Texts(Fences \cup {[header |-> TRUE, mark |-> 0, info |-> "none"]}, 4)

\* A section neither begins nor ends with an empty paragraph.
SectionProblems ==
    {TextOf(t, 1, 1).parts :
        t \in {s \in Texts(ParagraphTrees, 4) : s[1] # <<>> /\ Last(s) # <<>>}}

\* Statements in order, two of them possibly on one line.
Nodes ==
    {n \in Texts([first : 1..5, last : 1..5, kind : {"import", "def", "other"}], 2) :
        /\ \A i \in DOMAIN n : n[i].first <= n[i].last
        /\ \A i \in 2..Len(n) : n[i].first >= n[i - 1].last}

\* A node neither begins nor ends with a blank line.
PythonProblems ==
    {p \in {[nodes |-> n, total |-> 5, blank |-> blank] :
               n \in Nodes, blank \in {{}, {1}, {3}, {3, 5}}} :
        \A i \in DOMAIN p.nodes : {p.nodes[i].first, p.nodes[i].last} \cap p.blank = {}}
-----------------------------------------------------------------------------
(* Histories: up to two roots with the repositories a and b.               *)

Roots ==
    LET child(n, x) == IF x = "absent" THEN <<>>
                       ELSE <<[name |-> n, repo |-> x # "plain", out |-> x]>>
        outs == {"absent", "plain", NoLog, Unwritable, Cut, "new"}
    IN  {child("a", x) \o child("b", y) : x \in outs, y \in outs}

HistoryProblems ==
    {[roots |-> roots, docs |-> docs] :
        roots \in Texts(Roots, 2) \cup {<<>>}, docs \in [{"a", "b", "c"} -> {NoDoc, "old"}]}
-----------------------------------------------------------------------------
AllProblems ==
    [clustering |-> ClusteringProblems, neighborhood |-> NeighborhoodProblems,
     splits |-> SplitsProblems, text |-> TextProblems, markdown |-> MarkdownProblems,
     section |-> SectionProblems, python |-> PythonProblems, histories |-> HistoryProblems,
     connections |-> {"any"}]
OnlyTexts == [text |-> TextProblems]

Init == PartsInit /\ ConnInit
Next == problem.part = "connections" /\ ConnNext /\ UNCHANGED problem
Spec == Init /\ [][Next]_<<problem, connVars>>
=============================================================================
