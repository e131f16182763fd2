----------------------------- MODULE GraphStore -----------------------------
(***************************************************************************)
(* The SQLite store of graph/record_store.py: one variable per table and   *)
(* one action per write transaction.  A transaction is atomic (BEGIN       *)
(* IMMEDIATE ... COMMIT, GraphStore._write), foreign keys are enforced     *)
(* (PRAGMA foreign_keys=ON): a statement that would break one raises and   *)
(* the transaction rolls back, so the action is simply not enabled.        *)
(*                                                                         *)
(* Data.  File and Type are sets of naturals because SQL breaks ties by    *)
(* comparing source_doc and type; 0 is SQL's NULL.  A description is a     *)
(* natural too, with DescLen its length; 0 is NULL or ''.  A uuid chunk id *)
(* is <<gen, i>>: gen names the indexing that minted it, i its position.   *)
(* The name column of entities, set once by INSERT OR IGNORE, is left out. *)
(***************************************************************************)
EXTENDS Integers, FiniteSets

CONSTANTS
    File,           \* normalized paths, in path order
    Entity,         \* slugs
    Label,          \* relationship labels
    Type,           \* entity types, in text order
    Desc, DescLen,  \* non-empty descriptions and their lengths
    Hash,           \* SHA-256 digests of file contents
    Gen,            \* one value per minting of uuid4 chunk ids
    Prompt,         \* hashes of extraction requests
    MaxBatches,     \* bound: extraction batches of one file
    None            \* no row

NoType == 0
NoDesc == 0
Mention == [type : Type \cup {NoType}, desc : Desc \cup {NoDesc}]
Rel == Entity \X Entity \X Label
ChunkId == Gen \X (Nat \ {0})
BatchIndex == 1..MaxBatches

ASSUME GraphStoreAssumption ==
    /\ File \subseteq Nat /\ IsFiniteSet(File)
    /\ Type \subseteq Nat \ {0} /\ Desc \subseteq Nat \ {0}
    /\ DescLen \in [Desc -> Nat \ {0}]
    /\ Gen \subseteq Nat /\ MaxBatches \in Nat
    /\ None \notin Mention /\ None \notin Hash /\ None \notin Prompt

VARIABLES
    chunks,             \* chunks: [id, file], keyed by id
    links,              \* chunk_entities: <<chunk id, entity>>
    relationships,      \* relationships: weight by source_doc and edge, 0 = no row
    mentions,           \* entity_mentions by source_doc and entity
    entities,           \* entities: the derived type and description
    fingerprints,       \* fingerprints by filepath
    extraction_cache    \* the request cached for a filepath and batch index

storeVars == <<chunks, links, relationships, mentions, entities,
               fingerprints, extraction_cache>>

StoreInit ==
    /\ chunks = {}
    /\ links = {}
    /\ relationships = [f \in File |-> [r \in Rel |-> 0]]
    /\ mentions = [f \in File |-> [e \in Entity |-> None]]
    /\ entities = [e \in Entity |-> None]
    /\ fingerprints = [f \in File |-> None]
    /\ extraction_cache = [f \in File |-> [i \in BatchIndex |-> None]]
-----------------------------------------------------------------------------
(* Queries.                                                                *)

\* get_chunks_for_file
ChunkIdsOf(f) == {c.id : c \in {d \in chunks : d.file = f}}

\* Mutant: only files that were indexed to the end are listed.
CertifiedPaths == {f \in File : fingerprints[f] # None}

\* list_all_paths
TrackedPaths ==
    {f \in File : \/ fingerprints[f] # None
                  \/ ChunkIdsOf(f) # {}
                  \/ \E i \in BatchIndex : extraction_cache[f][i] # None}

\* Mutant: the links and relationships of the file are forgotten.
EntitiesMentionedIn(f) == {e \in Entity : mentions[f][e] # None}

\* _FILE_ENTITY_IDS_SQL
EntitiesOf(f) ==
    {e \in Entity : \/ mentions[f][e] # None
                    \/ \E l \in links : l[1] \in ChunkIdsOf(f) /\ l[2] = e
                    \/ \E r \in Rel : relationships[f][r] > 0 /\ e \in {r[1], r[2]}}

DocsMentioning(e, m) == {f \in File : m[f][e] # None}

\* ORDER BY key DESC, x LIMIT 1, over the naturals x of S.
Best(S, key) ==
    CHOOSE x \in S : \A y \in S : key[x] > key[y] \/ (key[x] = key[y] /\ x <= y)

\* The most common type of e's mentions, the first in text order among equals.
CommonType(e, m) ==
    LET votes == [t \in Type |-> Cardinality({f \in DocsMentioning(e, m) : m[f][e].type = t})]
        types == {t \in Type : \E f \in DocsMentioning(e, m) : m[f][e].type = t}
    IN  IF types = {} THEN NoType ELSE Best(types, votes)

\* The longest description of e, from the first document among equals.
LongestDesc(e, m) ==
    LET docs == {f \in DocsMentioning(e, m) : m[f][e].desc # NoDesc}
        lens == [f \in docs |-> DescLen[m[f][e].desc]]
    IN  IF docs = {} THEN NoDesc ELSE m[Best(docs, lens)][e].desc

Derived(e, m) == [type |-> CommonType(e, m), desc |-> LongestDesc(e, m)]

\* _REFRESH_ENTITIES_SQL: the touched rows that some document mentions.
Refresh(rows, touched, m) ==
    [e \in Entity |->
        IF e \in touched /\ rows[e] # None /\ DocsMentioning(e, m) # {}
        THEN Derived(e, m) ELSE rows[e]]

\* UNREFERENCED_ENTITY_SQL, over the tables as a transaction has left them.
Referenced(e, m, rels, lks) ==
    \/ DocsMentioning(e, m) # {}
    \/ \E f \in File, r \in Rel : rels[f][r] > 0 /\ e \in {r[1], r[2]}
    \/ \E l \in lks : l[2] = e
-----------------------------------------------------------------------------
(* Write transactions.                                                     *)

UpsertEntities(f, ments) ==
    LET named == {e \in Entity : ments[e] # None}
        blank == [type |-> NoType, desc |-> NoDesc]
    IN  /\ mentions' = [mentions EXCEPT ![f] =
               [e \in Entity |-> IF e \in named THEN ments[e] ELSE mentions[f][e]]]
        /\ entities' =
               Refresh([e \in Entity |-> IF e \in named /\ entities[e] = None
                                         THEN blank ELSE entities[e]],
                       named, mentions')
        /\ UNCHANGED <<chunks, links, relationships, fingerprints, extraction_cache>>

\* weights[r]: how often the edge is listed.  Each listing adds 1 to its row.
UpsertRelationships(f, weights) ==
    /\ \A r \in Rel : weights[r] > 0 => entities[r[1]] # None /\ entities[r[2]] # None
    /\ relationships' = [relationships EXCEPT ![f] =
           [r \in Rel |-> relationships[f][r] + weights[r]]]
    /\ UNCHANGED <<chunks, links, mentions, entities, fingerprints, extraction_cache>>

RegisterChunks(f, ids) ==
    /\ chunks' = {c \in chunks : c.id \notin ids} \cup {[id |-> i, file |-> f] : i \in ids}
    /\ UNCHANGED <<links, relationships, mentions, entities, fingerprints, extraction_cache>>

LinkChunks(pairs) ==
    /\ \A l \in pairs : entities[l[2]] # None /\ \E c \in chunks : c.id = l[1]
    /\ links' = links \cup pairs
    /\ UNCHANGED <<chunks, relationships, mentions, entities, fingerprints, extraction_cache>>

\* _delete_file_rows: everything but the extraction cache.
DeleteFileRows(f) ==
    LET touched == EntitiesOf(f)
    IN  /\ links' = {l \in links : l[1] \notin ChunkIdsOf(f)}
        /\ chunks' = {c \in chunks : c.file # f}
        /\ relationships' = [relationships EXCEPT ![f] = [r \in Rel |-> 0]]
        /\ mentions' = [mentions EXCEPT ![f] = [e \in Entity |-> None]]
        /\ entities' =
               Refresh([e \in Entity |->
                          IF e \in touched /\ ~Referenced(e, mentions', relationships', links')
                          THEN None ELSE entities[e]],
                       touched, mentions')
        /\ fingerprints' = [fingerprints EXCEPT ![f] = None]

DeleteFileData(f) == DeleteFileRows(f) /\ UNCHANGED extraction_cache

PurgeFile(f) ==
    /\ DeleteFileRows(f)
    /\ extraction_cache' = [extraction_cache EXCEPT ![f] =
           [i \in BatchIndex |-> None]]

CacheExtraction(f, i, prompt) ==
    /\ extraction_cache' = [extraction_cache EXCEPT ![f][i] = prompt]
    /\ UNCHANGED <<chunks, links, relationships, mentions, entities, fingerprints>>

UpsertHash(f, h) ==
    /\ fingerprints' = [fingerprints EXCEPT ![f] = h]
    /\ UNCHANGED <<chunks, links, relationships, mentions, entities, extraction_cache>>
-----------------------------------------------------------------------------
(* Properties.                                                             *)

\* The tables hold rows of their schema (store.py:18-63).
StoreTypeOK ==
    /\ chunks \subseteq [id : ChunkId, file : File]
    /\ links \subseteq ChunkId \X Entity
    /\ relationships \in [File -> [Rel -> Nat]]
    /\ mentions \in [File -> [Entity -> Mention \cup {None}]]
    /\ entities \in [Entity -> Mention \cup {None}]
    /\ fingerprints \in [File -> Hash \cup {None}]
    /\ extraction_cache \in [File -> [BatchIndex -> Prompt \cup {None}]]

\* The garbage collection of _delete_file_rows looks only at the entities the
\* deleted file touched, yet it is exact: a row lives while, and only while, a
\* mention, a relationship or a chunk link references it.  In one direction this
\* is referential integrity, in the other it is that no entity leaks.
EntityIffReferenced ==
    \A e \in Entity :
        entities[e] # None <=> Referenced(e, mentions, relationships, links)

\* A chunk link points at a registered chunk, and a chunk id has one row.
LinksHaveChunks ==
    /\ \A l \in links : \E c \in chunks : c.id = l[1]
    /\ \A c, d \in chunks : c.id = d.id => c = d

\* Although only touched rows are refreshed, the type and description of every
\* mentioned entity are at all times those its current mentions give, whatever the
\* order documents were indexed, re-indexed and deleted in: a deleted document
\* leaves no trace and an unrelated one never flips them (record_store.py:30-32).
EntityDerived ==
    \A e \in Entity :
        entities[e] # None /\ DocsMentioning(e, mentions) # {}
            => entities[e] = Derived(e, mentions)

(***************************************************************************)
(* The inductive invariant of the store: every transaction preserves it.   *)
(* Its parts need each other: that an untouched entity keeps a derived row *)
(* needs the types, that a row goes exactly when its last reference goes   *)
(* needs that it was there exactly as long as it had one.                  *)
(***************************************************************************)
StoreInv ==
    /\ StoreTypeOK
    /\ EntityIffReferenced
    /\ LinksHaveChunks
    /\ EntityDerived
=============================================================================
