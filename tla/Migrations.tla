------------------------------ MODULE Migrations ------------------------------
(***************************************************************************)
(* Opening the store, graph/store.py: the API, the indexer and the         *)
(* summarizer are processes of their own, any of them may be the first to  *)
(* open a database of an older release, and any may be killed.  A process  *)
(* reads user_version, and if it is old takes the write lock, reads it     *)
(* again and applies what is missing in one transaction.  Once open, it    *)
(* runs the transactions of GraphStoreApi.                                 *)
(*                                                                         *)
(* An older database is one whose rows satisfy the foreign keys, with      *)
(* entities that nothing references any more.  Before version 2 it has no  *)
(* table of mentions, which reads like an empty one; before version 3 its  *)
(* cached responses are not keyed by a request.  A new database is one of  *)
(* version 0 without rows.  Version 1 only adds indexes.                   *)
(***************************************************************************)
EXTENDS GraphStoreApi

CONSTANTS
    Process,
    Unkeyed     \* a cached response without prompt_sha256

ASSUME MigrationsAssumption == Unkeyed \notin Prompt \cup {None}

Latest == 3     \* len(_MIGRATIONS)

VARIABLES
    user_version,
    process         \* what each process is at

vars == <<user_version, process, storeVars>>

\* The rows of "refs" in version 2: f has a chunk or a relationship that names e.
RefersTo(f, e) ==
    \/ \E r \in Rel : relationships[f][r] > 0 /\ e \in {r[1], r[2]}
    \/ \E l \in links : l[1] \in ChunkIdsOf(f) /\ l[2] = e

\* INSERT OR IGNORE of the entity's present type and description.
Backfilled ==
    [f \in File |-> [e \in Entity |->
        IF mentions[f][e] = None /\ entities[e] # None /\ RefersTo(f, e)
        THEN entities[e] ELSE mentions[f][e]]]

OnlyReferenced(m) ==
    [e \in Entity |-> IF Referenced(e, m, relationships, links) THEN entities[e] ELSE None]

NoCache == [f \in File |-> [i \in BatchIndex |-> None]]
NoMentions == [f \in File |-> [e \in Entity |-> None]]

\* The rows of a database that satisfies its foreign keys.
OldRows ==
    /\ chunks \in SUBSET [id : Gen \X {1}, file : File]
    /\ \A c, d \in chunks : c.id = d.id => c = d
    /\ entities \in [Entity -> Mention \cup {None}]
    /\ links \in SUBSET ({c.id : c \in chunks} \X {e \in Entity : entities[e] # None})
    /\ relationships \in [File -> [Rel -> 0..1]]
    /\ Cardinality({x \in File \X Rel : relationships[x[1]][x[2]] > 0}) <= MaxEdges
    /\ \A f \in File, r \in Rel : relationships[f][r] > 0 =>
           entities[r[1]] # None /\ entities[r[2]] # None
    /\ fingerprints \in [File -> Hash \cup {None}]

Init ==
    /\ OldRows
    /\ user_version \in 0..Latest - 1
    /\ extraction_cache \in [File -> [BatchIndex -> {Unkeyed, None}]]
    /\ mentions = IF user_version < 2 THEN NoMentions
                  ELSE [f \in File |-> [e \in Entity |->
                           IF RefersTo(f, e) THEN entities[e] ELSE None]]
    /\ user_version = 2 => entities = OnlyReferenced(mentions)
    /\ process = [p \in Process |-> "stopped"]
-----------------------------------------------------------------------------
\* __init__, as far as the first look at the version; creating the tables that are not
\* there changes no row.
Open(p) ==
    /\ process[p] = "stopped"
    /\ process' = [process EXCEPT ![p] =
           IF user_version >= Latest THEN "open" ELSE "migrating"]
    /\ UNCHANGED <<user_version, storeVars>>

BackfillMentions ==
    /\ mentions' = Backfilled
    /\ entities' = OnlyReferenced(mentions')

\* Mutant: goes by the version seen before it had the lock.
MigrateAnyway(p) ==
    /\ process[p] = "migrating"
    /\ BackfillMentions
    /\ extraction_cache' = NoCache
    /\ user_version' = Latest
    /\ process' = [process EXCEPT ![p] = "open"]
    /\ UNCHANGED <<chunks, links, relationships, fingerprints>>

\* One transaction, from BEGIN IMMEDIATE to COMMIT.
Migrate(p) ==
    /\ process[p] = "migrating"
    /\ IF user_version < 2 THEN BackfillMentions ELSE UNCHANGED <<mentions, entities>>
    /\ extraction_cache' = IF user_version < 3 THEN NoCache ELSE extraction_cache
    /\ user_version' = Latest
    /\ process' = [process EXCEPT ![p] = "open"]
    /\ UNCHANGED <<chunks, links, relationships, fingerprints>>

\* Killed before it has opened: nothing was committed.  A process that has opened and is
\* killed would only come back to read the latest version.
Stop(p) ==
    /\ process[p] = "migrating"
    /\ process' = [process EXCEPT ![p] = "stopped"]
    /\ UNCHANGED <<user_version, storeVars>>

Transact ==
    /\ \E p \in Process : process[p] = "open"
    /\ StoreNext
    /\ UNCHANGED <<user_version, process>>

Next == (\E p \in Process : Open(p) \/ Migrate(p) \/ Stop(p)) \/ Transact

Spec == Init /\ [][Next]_vars
-----------------------------------------------------------------------------
\* Whoever has the store open finds it at the latest version and as sound as one that
\* was never migrated: every entity referenced, every reference to an entity and a
\* chunk that are there, and derived from its mentions, the backfilled ones included
\* (store.py:76-78).
OpenedSound ==
    \A p \in Process : process[p] = "open" =>
        /\ user_version = Latest
        /\ StoreTypeOK
        /\ EntityIffReferenced /\ LinksHaveChunks
        /\ EntityDerived

\* A database is migrated once: no process that opens or migrates it changes a row once
\* it is at the latest version, even if it had seen the old one (store.py:133).
MigratedOnce == [][user_version = Latest /\ process' # process => UNCHANGED storeVars]_vars

(***************************************************************************)
(* The inductive invariant.  Rows of an old version satisfy their foreign  *)
(* keys; what the migration makes of them, a row for exactly the           *)
(* referenced entities and equal mentions of each, is StoreInv.            *)
(***************************************************************************)
OldTypes ==
    /\ chunks \subseteq [id : ChunkId, file : File]
    /\ links \subseteq ChunkId \X Entity
    /\ relationships \in [File -> [Rel -> Nat]]
    /\ mentions \in [File -> [Entity -> Mention \cup {None}]]
    /\ entities \in [Entity -> Mention \cup {None}]
    /\ fingerprints \in [File -> Hash \cup {None}]

OldKeys ==
    /\ LinksHaveChunks
    /\ \A l \in links : entities[l[2]] # None
    /\ \A f \in File, r \in Rel : relationships[f][r] > 0 =>
           entities[r[1]] # None /\ entities[r[2]] # None

MigrationInv ==
    /\ user_version \in 0..Latest
    /\ process \in [Process -> {"stopped", "migrating", "open"}]
    /\ \A p \in Process : process[p] = "open" => user_version = Latest
    /\ user_version = Latest => StoreInv
    /\ user_version < Latest => OldTypes /\ OldKeys
    /\ user_version < 2 => mentions = NoMentions
    /\ user_version = 2 => EntityIffReferenced /\ EntityDerived
=============================================================================
