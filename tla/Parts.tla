--------------------------------- MODULE Parts ---------------------------------
(***************************************************************************)
(* The parts that are algorithms on data handed to them: communities,      *)
(* neighborhoods, chunks and histories.  A behavior is given one problem,  *)
(* which no step changes.                                                  *)
(***************************************************************************)
EXTENDS Clustering, Neighborhood, Chunkers, GitHistory

CONSTANT Problems       \* for each part a set of what it is handed

Inputs(part) == IF part \in DOMAIN Problems THEN Problems[part] ELSE {}

\* The callers hand each part what it relies on.
ASSUME PartsAssumption ==
    /\ \A p \in Inputs("clustering") :
          /\ CooccurrenceGraph(p.together) /\ Numbered(p.of) /\ DOMAIN p.of \subseteq Entity
          /\ Divides(Residual(p.together, Attach(p.together, p.of)))
    /\ \A p \in Inputs("neighborhood") :
          /\ RelationshipTable(p.table) /\ p.seeds \in Seq(Entities(p.table))
          /\ p.hops \in Nat /\ p.max \in Nat
    /\ \A p \in Inputs("splits") : Mergeable(p.splits, p.sep)
    /\ \A text \in Inputs("text") : Text(text, 1)
    /\ \A lines \in Inputs("markdown") : MarkdownLines(lines)
    /\ \A paragraphs \in Inputs("section") : Section(paragraphs)
    /\ \A p \in Inputs("python") : Module(p.nodes, p.total, p.blank)
    /\ \A p \in Inputs("histories") : Listing(p.roots, p.docs)

VARIABLE problem

PartsInit ==
    \E part \in DOMAIN Problems : \E input \in Problems[part] :
        problem = [part |-> part, input |-> input]
PartsSpec == PartsInit /\ [][UNCHANGED problem]_problem

Given(part) == problem.part = part
-----------------------------------------------------------------------------
(* The promises of each part, for its problems.                            *)

\* Every entity that can be placed by co-occurrence is, where it belongs, and the communities
\* of the others are kept and numbered (Clustering).
CommunitiesPlaced ==
    Given("clustering") => ClusteringSound(problem.input.together, problem.input.of)

\* What local retrieval is shown is nearest first, within its budget, which the neighbors of
\* one seed cannot use up (Neighborhood).
NeighborhoodsFair ==
    Given("neighborhood") =>
        LET p == problem.input
            found == Selected(p.table, p.seeds, p.hops, p.max)
        IN  /\ BreadthFirst(p.table, p.seeds, p.hops, p.max, found)
            /\ Shared(p.table, p.seeds, p.max, found)
            /\ InsideFirst(p.table, ToSet(found), p.max, Relationships(p.table, ToSet(found), p.max))

\* Cutting a document loses and repeats nothing it should not, and bounds the chunks
\* (Chunkers).
ChunksCover ==
    LET p == problem.input
    IN  /\ Given("splits") => MergeSound(p.splits, p.sep)
        /\ Given("text") => SplitSound(p)
        /\ Given("markdown") => SectionsSound(p)
        /\ Given("section") => SectionSound(p)
        /\ Given("python") => PythonSound(p.nodes, p.total, p.blank)

\* An error costs no history document but the one being written (GitHistory).
HistoriesSurvive ==
    Given("histories") => HistoriesKept(problem.input.roots, problem.input.docs)

\* A text cut at its separators gives chunks of at most CHUNK_SIZE (Chunkers).
WindowHolds == Given("text") => FitsWindow(problem.input)
=============================================================================
