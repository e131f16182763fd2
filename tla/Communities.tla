----------------------------- MODULE Communities -----------------------------
(***************************************************************************)
(* The summarizer, graph/summarizer.py, a process of its own, against the  *)
(* indexer, which goes on changing the entities it summarizes.  Reads and  *)
(* write transactions are one step each; calls to Ollama wait in between.  *)
(*                                                                         *)
(* What the indexer leaves behind in one transaction is a member of World: *)
(* rows of entities (type and description are one value), relationships    *)
(* (label and weight are left out) and the co-occurrence weights that the  *)
(* chunk links give.  A row that is deleted and written anew has lost its  *)
(* community.                                                              *)
(*                                                                         *)
(* A hash is the data it is computed from, a summary is the data it was    *)
(* written from; embeddings go with their summaries.  Names, which are in  *)
(* the prompt and not in the hash, are set once with the id.               *)
(***************************************************************************)
EXTENDS Clustering

CONSTANTS
    World,      \* a set of [row, rels, together]: the tables as the indexer leaves them
    None,       \* no row
    MaxChanges, MaxFailures     \* bounds

NoCommunity == -1
Id == 0..Cardinality(Entity) - 1    \* no more communities than entities
NoRow == [summary |-> None, members |-> {}, hash |-> None]

\* What is known of the entities and relationships of a community.
Data == [ents : SUBSET (Entity \X UNION {Range(w.row) : w \in World}),
         rels : SUBSET (Entity \X Entity)]

ASSUME CommunitiesAssumption ==
    /\ \A w \in World :
          /\ DOMAIN w.row = Entity /\ w.rels \subseteq Entity \X Entity
          /\ CooccurrenceGraph(w.together)
          /\ Divides(LlmGraph(w.rels))
          /\ \A S \in SUBSET Entity :
                Divides(Restrict(w.together, {e \in DOMAIN w.together : e[1] \notin S /\ e[2] \notin S}))
    /\ None \notin Data

VARIABLES
    world,
    community,      \* entities.community
    communities,    \* the table communities, by id
    \* the summarizer's:
    pc, force,
    previous,       \* the rows when it started, none with --force
    graph,          \* the graph of the relationships it has read
    together,       \* and that of the co-occurrences
    partition,      \* the communities found so far
    todo,           \* active ids it has not come to
    id, ents,       \* the community at hand and the entities it has read of it
    hash,           \* and the data it has read of it
    \* history, for the properties:
    failed,         \* ids whose summary failed in this run
    quiet,          \* the indexer has been idle since the relationships were read
    settled,        \* and was since a run that missed nothing
    changes, failures

tables == <<world, community, communities>>
locals == <<force, previous, graph, together, partition, todo, id, ents, hash>>
history == <<failed, quiet, settled, changes, failures>>
vars == <<tables, pc, locals, history>>

\* Entities that have a row.
Present(row) == {e \in Entity : row[e] # None}

Init ==
    /\ world \in World
    /\ community = [e \in Entity |-> NoCommunity]
    /\ communities = [i \in Id |-> NoRow]
    /\ pc = "idle" /\ force = FALSE
    /\ previous = communities /\ graph = <<>> /\ together = <<>> /\ partition = <<>> /\ todo = {}
    /\ id = 0 /\ ents = {} /\ hash = None
    /\ failed = {} /\ quiet = FALSE /\ settled = FALSE
    /\ changes = 0 /\ failures = 0
-----------------------------------------------------------------------------
(* Queries.                                                                *)

Members(i) == {e \in Present(world.row) : community[e] = i}
EntitiesOf(i) == {<<e, world.row[e]>> : e \in Members(i)}
RelationshipsOf(i) == {r \in world.rels : community[r[1]] = i /\ community[r[2]] = i}
ActiveIds == {community[e] : e \in Entity} \ {NoCommunity}
DataOf(i) == [ents |-> EntitiesOf(i), rels |-> RelationshipsOf(i)]

\* previous.get(new_hash): of rows with the same hash the dictionary keeps the last.
HasPrior == \E i \in Id : previous[i].hash = hash
Prior == Max({i \in Id : previous[i].hash = hash})
-----------------------------------------------------------------------------
(* The steps of summarize_all_communities.                                 *)

Start ==
    /\ pc = "idle" /\ pc' = "detect"
    /\ force' \in BOOLEAN
    /\ previous' = IF force' THEN [i \in Id |-> NoRow] ELSE communities
    /\ failed' = {}
    /\ UNCHANGED <<tables, graph, together, partition, todo, id, ents, hash, quiet, settled, changes, failures>>

\* build_networkx_graph
ReadGraph ==
    /\ pc = "detect" /\ pc' = "cluster"
    /\ graph' = LlmGraph(world.rels)
    /\ quiet' = TRUE
    /\ UNCHANGED <<tables, force, previous, together, partition, todo, id, ents, hash,
                   failed, settled, changes, failures>>

\* _cooccurrence_weights, and Louvain over the relationships
ReadCooccurrence ==
    /\ pc = "cluster" /\ pc' = "attach"
    /\ together' = world.together
    /\ partition' = Louvain(graph)
    /\ UNCHANGED <<tables, force, previous, graph, todo, id, ents, hash, history>>

\* A round of the loop of _cluster, or what follows it.
AttachRound ==
    /\ pc = "attach"
    /\ IF Joining(together, partition) # {}
       THEN /\ partition' = Round(together, partition)
            /\ UNCHANGED pc
       ELSE /\ partition' = Appended(partition, Louvain(Residual(together, partition)))
            /\ pc' = "assign"
    /\ UNCHANGED <<tables, force, previous, graph, together, todo, id, ents, hash, history>>

\* The write of detect_communities; entities that have gone meanwhile have no row to update.
Assign ==
    /\ pc = "assign" /\ pc' = "list"
    /\ community' = [e \in Entity |->
           IF e \in DOMAIN partition \cap Present(world.row) THEN partition[e] ELSE NoCommunity]
    /\ UNCHANGED <<world, communities, locals, history>>

ListActive ==
    /\ pc = "list" /\ pc' = "next"
    /\ todo' = ActiveIds
    /\ UNCHANGED <<tables, force, previous, graph, together, partition, id, ents, hash, history>>

\* get_entities_for_community; one that has none left is skipped.
ReadEntities ==
    /\ pc = "next" /\ todo # {}
    /\ id' = Min(todo) /\ todo' = todo \ {id'}
    /\ ents' = EntitiesOf(id')
    /\ pc' = IF ents' = {} THEN "next" ELSE "rels"
    /\ UNCHANGED <<tables, force, previous, graph, together, partition, hash, history>>

\* get_relationships_for_community and _compute_member_hash
ReadRelationships ==
    /\ pc = "rels" /\ pc' = "write"
    /\ hash' = [ents |-> ents, rels |-> RelationshipsOf(id)]
    /\ UNCHANGED <<tables, force, previous, graph, together, partition, todo, id, ents, history>>

Upsert(summary) ==
    communities' = [communities EXCEPT ![id] =
        [summary |-> summary, members |-> {e[1] : e \in ents}, hash |-> hash]]

\* Mutant: a summary that is there under any id is left where it is.
SkipAnyKnown ==
    /\ pc = "write" /\ HasPrior
    /\ UNCHANGED <<tables, locals, history>>
    /\ pc' = "next"

\* Mutant: takes the summary from the table as it is by then.
ReuseFromTable ==
    /\ pc = "write" /\ HasPrior
    /\ IF Prior # id THEN Upsert(communities[Prior].summary) ELSE UNCHANGED communities
    /\ pc' = "next"
    /\ UNCHANGED <<world, community, locals, history>>

\* Mutant: the copy has no hash.
ReuseUnhashed ==
    /\ pc = "write" /\ HasPrior
    /\ communities' = IF Prior = id THEN communities
                      ELSE [communities EXCEPT ![id] = [previous[Prior] EXCEPT !.hash = None]]
    /\ pc' = "next"
    /\ UNCHANGED <<world, community, locals, history>>

\* An unchanged community keeps its summary, copied if it was renumbered.
Reuse ==
    /\ pc = "write" /\ HasPrior
    /\ IF Prior # id THEN Upsert(previous[Prior].summary) ELSE UNCHANGED communities
    /\ pc' = "next"
    /\ UNCHANGED <<world, community, locals, history>>

\* generate, embed and upsert_community
Summarize ==
    /\ pc = "write" /\ ~HasPrior
    /\ Upsert(hash)
    /\ pc' = "next"
    /\ UNCHANGED <<world, community, locals, history>>

\* Any call for one community may raise: the run goes on with the next.
Fails ==
    /\ pc \in {"rels", "write"} /\ failures < MaxFailures
    /\ failures' = failures + 1
    /\ failed' = failed \cup {id}
    /\ pc' = "next"
    /\ UNCHANGED <<tables, locals, quiet, settled, changes>>

\* Mutant: rows are only ever replaced.
KeepStale ==
    /\ pc = "next" /\ todo = {} /\ pc' = "idle"
    /\ settled' = (quiet /\ failed = {})
    /\ UNCHANGED <<tables, locals, failed, quiet, changes, failures>>

DeleteStale ==
    /\ pc = "next" /\ todo = {} /\ pc' = "idle"
    /\ communities' = [i \in Id |-> IF i \in ActiveIds THEN communities[i] ELSE NoRow]
    /\ settled' = (quiet /\ failed = {})
    /\ UNCHANGED <<world, community, locals, failed, quiet, changes, failures>>
-----------------------------------------------------------------------------
\* A transaction of the indexer.
Index ==
    /\ changes < MaxChanges /\ changes' = changes + 1
    /\ world' \in World \ {world}
    /\ community' = [e \in Entity |->
           IF world.row[e] # None /\ world'.row[e] # None THEN community[e] ELSE NoCommunity]
    /\ quiet' = FALSE /\ settled' = FALSE
    /\ UNCHANGED <<communities, pc, locals, failed, failures>>

\* The summarizer is killed, or a call outside the loop raises.
Crash ==
    /\ pc # "idle" /\ failures < MaxFailures
    /\ failures' = failures + 1
    /\ pc' = "idle" /\ quiet' = FALSE /\ settled' = FALSE
    /\ UNCHANGED <<tables, locals, failed, changes>>

SummarizerStep ==
    \/ Start \/ ReadGraph \/ ReadCooccurrence \/ AttachRound \/ Assign \/ ListActive
    \/ ReadEntities \/ ReadRelationships \/ Reuse \/ Summarize \/ DeleteStale

Next == SummarizerStep \/ Fails \/ Index \/ Crash

Spec == Init /\ [][Next]_vars

\* The summarizer is run again and again.
FairSpec == Spec /\ WF_vars(SummarizerStep)
-----------------------------------------------------------------------------
(* Properties.                                                             *)

\* A row, copied or generated, in whatever order the communities were renumbered and
\* overwritten, holds the summary of exactly the data its hash stands for, and lists the
\* entities of that data (summarizer.py:118-133).
Honest(rows) ==
    \A i \in Id : rows[i] # NoRow =>
        /\ rows[i].hash \in Data
        /\ rows[i].summary = rows[i].hash
        /\ rows[i].members = {e[1] : e \in rows[i].hash.ents}

RowsHonest == Honest(communities)

Current(i) == communities[i].hash = DataOf(i)

\* The entities are in the communities of the present graph.
Assigned ==
    LET found == Cluster(LlmGraph(world.rels), world.together)
    IN  \A e \in Entity :
            community[e] = IF e \in DOMAIN found \cap Present(world.row) THEN found[e] ELSE NoCommunity

\* After a run during which the indexer was idle, the entities are in the communities of
\* the present graph, each community has the summary of its present data, and no other row
\* is left; only where a summary failed may there be an older row, even of a community
\* that had the id before (summarizer.py:165-171).
OnlyFailedStale ==
    pc = "idle" /\ quiet =>
        /\ Assigned
        /\ \A i \in Id : /\ i \in ActiveIds \ failed => Current(i)
                         /\ i \notin ActiveIds => communities[i] = NoRow

\* A further run over an unchanged graph calls no model (summarizer.py:146-150).
UnchangedIsFree == settled /\ ~force /\ pc = "write" => HasPrior

\* Once the indexer is idle and nothing fails, the runs that follow leave the tables with a
\* current summary of every community and nothing else, and keep them so.
SummariesConverge ==
    <>[](\A i \in Id : IF i \in ActiveIds THEN Current(i) ELSE communities[i] = NoRow)
-----------------------------------------------------------------------------
(* Why they hold.                                                          *)

Row == [summary : Data \cup {None}, members : SUBSET Entity, hash : Data \cup {None}]

TypeOK ==
    /\ world \in World
    /\ community \in [Entity -> Id \cup {NoCommunity}]
    /\ communities \in [Id -> Row] /\ previous \in [Id -> Row]
    /\ pc \in {"idle", "detect", "cluster", "attach", "assign", "list", "next", "rels", "write"}
    /\ force \in BOOLEAN /\ quiet \in BOOLEAN /\ settled \in BOOLEAN
    /\ todo \subseteq Id /\ failed \subseteq Id /\ id \in Nat
    /\ ents \subseteq Entity \X UNION {Range(w.row) : w \in World}
    /\ hash \in Data \cup {None}

\* What the summarizer has read and found is of some state of the tables, and of the present
\* one while the indexer has been idle.
FoundOK ==
    /\ pc = "cluster" => \E v \in World :
          graph = LlmGraph(v.rels) /\ (quiet => v = world)
    /\ pc = "attach" => \E v, w \in World, n \in 0..Cardinality(Entity) :
          /\ together = w.together
          /\ partition = Rounds(w.together, Louvain(LlmGraph(v.rels)))[n]
          /\ quiet => v = world /\ w = world
    /\ pc = "assign" => \E v, w \in World :
          /\ partition = Cluster(LlmGraph(v.rels), w.together)
          /\ quiet => v = world /\ w = world

\* Ids whose row the run has not come to: it is still as the run found it.
Pending == {i \in Id : \/ pc \in {"detect", "cluster", "attach", "assign", "list"}
                       \/ pc \in {"next", "rels", "write"} /\ i \in todo
                       \/ pc \in {"rels", "write"} /\ i = id}

RowsOK ==
    /\ Honest(communities) /\ Honest(previous)
    /\ IF force THEN previous = [i \in Id |-> NoRow]
       ELSE \A i \in Pending : previous[i] = communities[i]
    /\ pc \in {"rels", "write"} => id \in Id \ todo
    /\ pc = "write" => hash \in Data /\ hash.ents = ents

\* While the indexer is idle the run's reads agree, and what it has passed is current.
QuietOK ==
    quiet =>
        /\ pc \in {"idle", "list", "next", "rels", "write"} => Assigned
        /\ pc \in {"next", "rels", "write"} =>
              /\ Pending \subseteq ActiveIds
              /\ \A i \in ActiveIds \ (Pending \cup failed) : Current(i)
        /\ pc = "rels" => ents = EntitiesOf(id)
        /\ pc = "write" => hash = DataOf(id)

\* And stays so during further runs.
SettledOK ==
    settled =>
        /\ quiet /\ Assigned
        /\ \A i \in ActiveIds : /\ Current(i)
                                /\ pc # "idle" /\ ~force => previous[i].hash = DataOf(i)

GoneHaveNone == \A e \in Entity \ Present(world.row) : community[e] = NoCommunity

CommunitiesInv ==
    TypeOK /\ FoundOK /\ RowsOK /\ QuietOK /\ SettledOK /\ OnlyFailedStale /\ GoneHaveNone
=============================================================================
