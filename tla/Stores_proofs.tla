---------------------------- MODULE Stores_proofs ----------------------------
(***************************************************************************)
(* What is stored is kept.  The record store keeps its invariants under    *)
(* every sequence of transactions; whatever an old database holds, and     *)
(* however processes that open it race and are killed, whoever has it open *)
(* finds a sound store; no connection is forgotten or used closed; no      *)
(* error costs a history document but the one being written; and nothing   *)
(* of a text is lost on its way into chunks.                               *)
(***************************************************************************)
EXTENDS Migrations, SqliteConnections, GitHistory, Windows, GraphStore_proofs, SequenceTheorems

LEMMA StoreStep == StoreInv /\ [StoreNext]_storeVars => StoreInv'
<1> SUFFICES ASSUME StoreInv, [StoreNext]_storeVars PROVE StoreInv'
  OBVIOUS
<1>1. CASE UNCHANGED storeVars
  BY <1>1, StoreUnchangedInv
<1>2. ASSUME NEW f \in File, NEW ments \in EntityRows, UpsertEntities(f, ments)
      PROVE  StoreInv'
  BY <1>2, UpsertEntitiesInv
<1>3. ASSUME NEW f \in File, NEW weights \in [Rel -> 0..1], UpsertRelationships(f, weights)
      PROVE  StoreInv'
  <2>1. weights \in [Rel -> Nat]
    OBVIOUS
  <2> QED BY <1>3, <2>1, UpsertRelationshipsInv
<1>4. ASSUME NEW f \in File, NEW g \in Gen, NEW n \in 1..MaxChunks,
             RegisterChunks(f, {<<g, i>> : i \in 1..n})
      PROVE  StoreInv'
  <2>1. {<<g, i>> : i \in 1..n} \in SUBSET ChunkId
    BY DEF ChunkId
  <2> QED BY <1>4, <2>1, RegisterChunksInv
<1>5. ASSUME NEW c \in chunks, NEW e \in Entity, LinkChunks({<<c.id, e>>})
      PROVE  StoreInv'
  <2>1. {<<c.id, e>>} \in SUBSET (ChunkId \X Entity)
    BY DEF StoreInv, StoreTypeOK
  <2> QED BY <1>5, <2>1, LinkChunksInv
<1>6. ASSUME NEW f \in File, DeleteFileData(f) PROVE StoreInv'
  BY <1>6, DeleteFileDataInv
<1>7. ASSUME NEW f \in File, PurgeFile(f) PROVE StoreInv'
  BY <1>7, PurgeFileInv
<1>8. ASSUME NEW f \in File, NEW i \in BatchIndex, NEW p \in Prompt, CacheExtraction(f, i, p)
      PROVE  StoreInv'
  BY <1>8, CacheExtractionInv
<1>9. ASSUME NEW f \in File, NEW h \in Hash, UpsertHash(f, h) PROVE StoreInv'
  BY <1>9, UpsertHashInv
<1> QED BY <1>1, <1>2, <1>3, <1>4, <1>5, <1>6, <1>7, <1>8, <1>9 DEF StoreNext, EntityRows

\* Whatever callers do in whatever order, every part of StoreInv holds.
THEOREM StoreInvariant == StoreSpec => []StoreInv
<1>1. StoreInit => StoreInv
  BY StoreInitInv
<1>2. StoreInv /\ [StoreNext]_storeVars => StoreInv'
  BY StoreStep
<1> QED BY <1>1, <1>2, PTL DEF StoreSpec

\* The tables keep to their schema (graph/store.py:18-63).
THEOREM StoreTypeCorrect == StoreSpec => []StoreTypeOK
<1>1. StoreInv => StoreTypeOK
  BY DEF StoreInv
<1> QED BY <1>1, StoreInvariant, PTL

\* Garbage collection is exact: no entity without a reference, no reference without
\* its entity (record_store.py:137-156).
THEOREM EntitiesExact == StoreSpec => []EntityIffReferenced
<1>1. StoreInv => EntityIffReferenced
  BY DEF StoreInv
<1> QED BY <1>1, StoreInvariant, PTL

\* Deleting a document with linked chunks leaves no dangling link.
THEOREM LinksSound == StoreSpec => []LinksHaveChunks
<1>1. StoreInv => LinksHaveChunks
  BY DEF StoreInv
<1> QED BY <1>1, StoreInvariant, PTL

\* The entities table is a view of the current mentions, although each transaction
\* refreshes only the rows it touched (record_store.py:30-47).
THEOREM EntitiesDerived == StoreSpec => []EntityDerived
<1>1. StoreInv => EntityDerived
  BY DEF StoreInv
<1> QED BY <1>1, StoreInvariant, PTL
-----------------------------------------------------------------------------
(***************************************************************************)
(* An entity whose mentions are all alike has that row: what lets the      *)
(* backfill copy the merged row into every mention.                        *)
(***************************************************************************)
LEMMA DerivedOfAlike ==
    ASSUME NEW m \in Mentions, NEW e \in Entity, NEW row \in Mention,
           DocsMentioning(e, m) # {},
           \A f \in DocsMentioning(e, m) : m[f][e] = row
    PROVE  Derived(e, m) = row
<1> DEFINE docs == DocsMentioning(e, m)
<1>1. docs \in SUBSET File /\ docs \in SUBSET Nat /\ IsFiniteSet(docs)
  BY FS_Subset, GraphStoreAssumption DEF DocsMentioning, GraphStoreAssumption
<1>2. row.type \in Type \cup {NoType} /\ row.desc \in Desc \cup {NoDesc}
  BY DEF Mention
<1>3. CommonType(e, m) = row.type
  <2> DEFINE types == {t \in Type : \E f \in docs : m[f][e].type = t}
             votes == [t \in Type |-> Cardinality({f \in docs : m[f][e].type = t})]
  <2>1. CASE row.type = NoType
    <3>1. types = {}
      BY <2>1, GraphStoreAssumption DEF GraphStoreAssumption, NoType
    <3> QED BY <2>1, <3>1 DEF CommonType
  <2>2. CASE row.type # NoType
    <3>1. types = {row.type}
      BY <1>2, <2>2
    <3>2. types \in SUBSET Nat /\ IsFiniteSet(types) /\ types \subseteq Type
      <4>1. types \subseteq Type /\ Type \subseteq Nat
        BY GraphStoreAssumption DEF GraphStoreAssumption
      <4>2. IsFiniteSet(types)
        BY <3>1, FS_Singleton
      <4> QED BY <4>1, <4>2
    <3> DEFINE key == [t \in types |-> votes[t]]
    <3>3. key \in [types -> Nat]
      <4> SUFFICES ASSUME NEW t \in types
                   PROVE  Cardinality({f \in docs : m[f][e].type = t}) \in Nat
        BY <3>2
      <4> QED BY <1>1, FS_Subset, FS_CardinalityType
    <3>4. Best(types, key) \in types
      BY <3>1, <3>2, <3>3, BestExists
    <3>5. Best(types, votes) = Best(types, key)
      BY <3>2 DEF Best
    <3>6. CommonType(e, m) = Best(types, votes)
      BY <3>1 DEF CommonType
    <3> QED BY <3>1, <3>4, <3>5, <3>6
  <2> QED BY <2>1, <2>2
<1>4. LongestDesc(e, m) = row.desc
  <2> DEFINE described == {f \in docs : m[f][e].desc # NoDesc}
             lens == [f \in described |-> DescLen[m[f][e].desc]]
  <2>1. CASE row.desc = NoDesc
    <3>1. described = {}
      BY <2>1
    <3> QED BY <2>1, <3>1 DEF LongestDesc
  <2>2. CASE row.desc # NoDesc
    <3>1. described = docs
      BY <2>2
    <3>2. lens \in [described -> Nat]
      BY <1>2, <2>2, GraphStoreAssumption DEF GraphStoreAssumption
    <3>3. Best(described, lens) \in described
      BY <1>1, <3>1, <3>2, BestExists
    <3>4. LongestDesc(e, m) = m[Best(described, lens)][e].desc
      BY <3>1 DEF LongestDesc
    <3> QED BY <3>3, <3>4
  <2> QED BY <2>1, <2>2
<1>5. row = [type |-> row.type, desc |-> row.desc]
  BY DEF Mention
<1> QED BY <1>3, <1>4, <1>5 DEF Derived
-----------------------------------------------------------------------------
(***************************************************************************)
(* Mentions m that repeat the row of each entity they name make a store    *)
(* sound once nothing but the referenced entities is left of its rows.     *)
(***************************************************************************)
Alike(m, rows) == \A f \in File, e \in Entity : m[f][e] \in {None, rows[e]}

KeysHold(rows, rels, lks) ==
    /\ \A f \in File, r \in Rel : rels[f][r] > 0 => rows[r[1]] # None /\ rows[r[2]] # None
    /\ \A l \in lks : rows[l[2]] # None

Left(left, m, rows, rels, lks) ==
    \A e \in Entity : left[e] = IF Referenced(e, m, rels, lks) THEN rows[e] ELSE None

Sound(left, m, rels, lks) ==
    \A e \in Entity :
        /\ left[e] # None <=> Referenced(e, m, rels, lks)
        /\ left[e] # None /\ DocsMentioning(e, m) # {} => left[e] = Derived(e, m)

LEMMA AlikeIsSound ==
    ASSUME NEW m \in Mentions, NEW rows \in EntityRows, NEW rels, NEW lks, NEW left,
           Alike(m, rows), KeysHold(rows, rels, lks), Left(left, m, rows, rels, lks)
    PROVE  Sound(left, m, rels, lks)
<1>1. \A e \in Entity : Referenced(e, m, rels, lks) => rows[e] # None
  BY DEF Referenced, DocsMentioning, EntityRows, Alike, KeysHold
<1>2. \A e \in Entity : left[e] # None <=> Referenced(e, m, rels, lks)
  BY <1>1 DEF Left
<1>3. ASSUME NEW e \in Entity, left[e] # None, DocsMentioning(e, m) # {}
      PROVE  left[e] = Derived(e, m)
  <2>1. left[e] = rows[e] /\ rows[e] \in Mention
    BY <1>3 DEF EntityRows, Left
  <2>2. \A f \in DocsMentioning(e, m) : m[f][e] = rows[e]
    BY DEF DocsMentioning, Alike
  <2> QED BY <1>3, <2>1, <2>2, DerivedOfAlike
<1> QED BY <1>2, <1>3 DEF Sound

LEMMA MigrationInitInv == Init => MigrationInv
<1> SUFFICES ASSUME Init PROVE MigrationInv
  OBVIOUS
<1>1. /\ user_version \in 0..2
      /\ process \in [Process -> {"stopped", "migrating", "open"}]
      /\ \A p \in Process : process[p] # "open"
      /\ OldRows
      /\ user_version < 2 => mentions = NoMentions
  BY DEF Init, Latest
<1>2. mentions \in Mentions /\ entities \in EntityRows
  BY <1>1 DEF Init, OldRows, NoMentions, Mentions, EntityRows
<1>3. OldTypes
  <2>1. chunks \subseteq [id : ChunkId, file : File]
    BY <1>1 DEF OldRows, ChunkId
  <2>2. links \subseteq ChunkId \X Entity
    BY <1>1, <2>1 DEF OldRows
  <2>3. relationships \in [File -> [Rel -> Nat]]
    <3>1. relationships \in [File -> [Rel -> 0..1]] /\ 0..1 \subseteq Nat
      BY <1>1 DEF OldRows
    <3> QED BY <3>1
  <2> QED BY <1>1, <1>2, <2>1, <2>2, <2>3 DEF OldTypes, OldRows, Mentions, EntityRows
<1>4. OldKeys
  BY <1>1 DEF OldKeys, OldRows, LinksHaveChunks
<1>5. user_version = 2 => EntityIffReferenced /\ EntityDerived
  <2> SUFFICES ASSUME user_version = 2 PROVE EntityIffReferenced /\ EntityDerived
    OBVIOUS
  <2>1. Alike(mentions, entities)
    <3>1. ~(user_version < 2)
      OBVIOUS
    <3>2. mentions = [f \in File |-> [e \in Entity |->
                         IF RefersTo(f, e) THEN entities[e] ELSE None]]
      BY <3>1, Zenon DEF Init
    <3> QED BY <3>2 DEF Alike
  <2>2. Left(entities, mentions, entities, relationships, links)
    <3>1. entities = OnlyReferenced(mentions)
      BY DEF Init
    <3>2. \A e \in Entity : OnlyReferenced(mentions)[e] =
             IF Referenced(e, mentions, relationships, links) THEN entities[e] ELSE None
      BY DEF OnlyReferenced
    <3> QED BY <3>1, <3>2, Zenon DEF Left
  <2>3. KeysHold(entities, relationships, links)
    BY <1>4 DEF OldKeys, KeysHold
  <2>4. Sound(entities, mentions, relationships, links)
    BY <1>2, <2>1, <2>2, <2>3, AlikeIsSound
  <2> QED BY <2>4 DEF EntityIffReferenced, EntityDerived, Sound
<1> QED BY <1>1, <1>3, <1>4, <1>5 DEF MigrationInv, Latest
-----------------------------------------------------------------------------
LEMMA BackfillSound ==
    ASSUME MigrationInv, user_version < 2, BackfillMentions,
           UNCHANGED <<chunks, links, relationships, fingerprints>>,
           extraction_cache' = NoCache
    PROVE  StoreInv'
<1>1. OldTypes /\ OldKeys /\ mentions = NoMentions
  BY DEF MigrationInv, Latest
<1>2. \A f \in File, e \in Entity :
         mentions'[f][e] = IF entities[e] # None /\ RefersTo(f, e) THEN entities[e] ELSE None
  BY <1>1 DEF BackfillMentions, Backfilled, NoMentions
<1>3. mentions' \in Mentions /\ entities \in EntityRows
  BY <1>1 DEF BackfillMentions, Backfilled, NoMentions, OldTypes, Mentions, EntityRows
<1>4. /\ entities' \in EntityRows
      /\ Left(entities', mentions', entities, relationships', links')
  BY <1>3 DEF BackfillMentions, OnlyReferenced, EntityRows, Left
<1>5. Alike(mentions', entities) /\ KeysHold(entities, relationships', links')
  BY <1>1, <1>2 DEF OldKeys, Alike, KeysHold
<1>6. EntityIffReferenced' /\ EntityDerived'
  <2>1. Sound(entities', mentions', relationships', links')
    BY <1>3, <1>4, <1>5, AlikeIsSound
  <2> QED BY <2>1 DEF EntityIffReferenced, EntityDerived, Sound
<1>7. extraction_cache' \in [File -> [BatchIndex -> Prompt \cup {None}]]
  BY DEF NoCache
<1>8. StoreTypeOK' /\ LinksHaveChunks'
  BY <1>1, <1>3, <1>4, <1>7
     DEF OldTypes, OldKeys, StoreTypeOK, LinksHaveChunks, Mentions, EntityRows
<1> QED BY <1>6, <1>8 DEF StoreInv

LEMMA MigrateSound ==
    ASSUME MigrationInv, NEW p \in Process, Migrate(p)
    PROVE  MigrationInv'
<1>1. StoreInv'
  <2>4. user_version \in 0..3
    BY DEF MigrationInv, Latest
  <2>1. CASE user_version < 2
    <3>1. /\ BackfillMentions /\ extraction_cache' = NoCache
          /\ UNCHANGED <<chunks, links, relationships, fingerprints>>
      BY <2>1, <2>4 DEF Migrate
    <3> QED BY <2>1, <3>1, BackfillSound
  <2>2. CASE user_version = 2
    <3>1. OldTypes /\ OldKeys /\ EntityIffReferenced /\ EntityDerived
      BY <2>2 DEF MigrationInv, Latest
    <3>2. /\ UNCHANGED <<chunks, links, relationships, mentions, entities, fingerprints>>
          /\ extraction_cache' = NoCache
      BY <2>2 DEF Migrate
    <3>3. extraction_cache' \in [File -> [BatchIndex -> Prompt \cup {None}]]
      BY <3>2 DEF NoCache
    <3>4. StoreTypeOK'
      BY <3>1, <3>2, <3>3 DEF OldTypes, StoreTypeOK
    <3>5. EntityIffReferenced' /\ EntityDerived' /\ LinksHaveChunks'
      BY <3>1, <3>2 DEF OldKeys, EntityIffReferenced, EntityDerived, LinksHaveChunks
    <3> QED BY <3>4, <3>5 DEF StoreInv
  <2>3. CASE user_version = 3
    <3>1. StoreInv
      BY <2>3 DEF MigrationInv, Latest
    <3>2. UNCHANGED storeVars
      BY <2>3 DEF Migrate, storeVars
    <3> QED BY <3>1, <3>2, StoreUnchangedInv
  <2> QED BY <2>1, <2>2, <2>3, <2>4
<1>2. user_version' = 3 /\ process' \in [Process -> {"stopped", "migrating", "open"}]
  BY DEF MigrationInv, Migrate, Latest
<1> QED BY <1>1, <1>2 DEF MigrationInv, Latest

LEMMA SameVersionInv ==
    ASSUME MigrationInv, UNCHANGED <<user_version, storeVars>>,
           process' \in [Process -> {"stopped", "migrating", "open"}],
           \A p \in Process : process'[p] = "open" => user_version = Latest
    PROVE  MigrationInv'
<1>1. user_version = Latest => StoreInv'
  BY StoreUnchangedInv DEF MigrationInv
<1>2. user_version < Latest => OldTypes' /\ OldKeys'
  BY DEF MigrationInv, OldTypes, OldKeys, LinksHaveChunks, storeVars
<1>3. /\ user_version < 2 => mentions' = NoMentions'
      /\ user_version = 2 => EntityIffReferenced' /\ EntityDerived'
  BY DEF MigrationInv, NoMentions, EntityIffReferenced, EntityDerived, storeVars
<1> QED BY <1>1, <1>2, <1>3 DEF MigrationInv

LEMMA MigrationStep == MigrationInv /\ [Next]_vars => MigrationInv'
<1> SUFFICES ASSUME MigrationInv, [Next]_vars PROVE MigrationInv'
  OBVIOUS
<1>1. CASE UNCHANGED vars
  BY <1>1, SameVersionInv DEF vars, MigrationInv
<1>2. ASSUME NEW p \in Process, Open(p) PROVE MigrationInv'
  <2>1. user_version \in 0..3
    BY DEF MigrationInv, Latest
  <2>2. /\ process' \in [Process -> {"stopped", "migrating", "open"}]
        /\ \A q \in Process : process'[q] = "open" => user_version = Latest
    BY <1>2, <2>1 DEF Open, MigrationInv, Latest
  <2> QED BY <1>2, <2>2, SameVersionInv DEF Open
<1>3. ASSUME NEW p \in Process, Migrate(p) PROVE MigrationInv'
  BY <1>3, MigrateSound
<1>4. ASSUME NEW p \in Process, Stop(p) PROVE MigrationInv'
  BY <1>4, SameVersionInv DEF Stop, MigrationInv
<1>5. CASE Transact
  <2>1. user_version = Latest /\ StoreInv
    BY <1>5 DEF Transact, MigrationInv
  <2>2. StoreInv'
    BY <1>5, <2>1, StoreStep DEF Transact
  <2>3. user_version' = Latest /\ UNCHANGED process
    BY <1>5, <2>1 DEF Transact
  <2> QED BY <2>1, <2>2, <2>3 DEF MigrationInv, Latest
<1> QED BY <1>1, <1>2, <1>3, <1>4, <1>5 DEF Next
-----------------------------------------------------------------------------
\* An old database keeps its foreign keys until it is migrated and is a sound store from
\* then on, whoever opens it in whatever order (store.py:123-138).
THEOREM MigrationInvariant == Spec => []MigrationInv
BY MigrationInitInv, MigrationStep, PTL DEF Spec

\* Whoever has the store open finds it migrated and sound (store.py:76-78).
THEOREM OpenedIsSound == Spec => []OpenedSound
<1>1. MigrationInv => OpenedSound
  BY DEF MigrationInv, OpenedSound, StoreInv
<1> QED BY <1>1, MigrationInvariant, PTL

\* A process that saw the old version before another migrated changes nothing: the second
\* look, under the lock, is enough (store.py:133).
THEOREM MigratesOnce == Spec => MigratedOnce
<1>1. [Next]_vars
        => [user_version = Latest /\ process' # process => UNCHANGED storeVars]_vars
  <2> SUFFICES ASSUME [Next]_vars, user_version = Latest, process' # process
               PROVE  UNCHANGED storeVars
    OBVIOUS
  <2>1. ASSUME NEW p \in Process, Open(p) \/ Stop(p) PROVE UNCHANGED storeVars
    BY <2>1 DEF Open, Stop
  <2>2. ASSUME NEW p \in Process, Migrate(p) PROVE UNCHANGED storeVars
    BY <2>2 DEF Migrate, Latest, storeVars
  <2> QED BY <2>1, <2>2 DEF Next, Transact, vars
<1> QED BY <1>1, PTL DEF Spec, MigratedOnce
-----------------------------------------------------------------------------
(***************************************************************************)
(* Connections: one lemma for each action.                                 *)
(***************************************************************************)
LEMMA ConnInitInv == ConnInit => ConnInv
BY DEF ConnInit, ConnInv, ConnTypeOK, ConnectionsSound

LEMMA LookupInv == ASSUME NEW t \in Thread, ConnInv, Lookup(t) PROVE ConnInv'
<1> USE DEF ConnInv, ConnTypeOK
<1>1. ConnTypeOK'
  BY DEF Lookup
<1>2. ConnectionsSound'
  BY DEF Lookup, ConnectionsSound
<1>3. ASSUME NEW u \in Thread, at'[u] = "registering"
      PROVE  /\ handle'[u] # NoConn
             /\ \A c \in conns' : c[2] # handle'[u]
             /\ \A v \in Thread \ {u} : handle'[v] # handle'[u]
  <2>1. u # t /\ at[u] = "registering" /\ handle'[u] = handle[u] /\ conns' = conns
    BY <1>3 DEF Lookup
  <2>2. handle'[t] # handle[u]
    <3>1. handle'[t] = cached[t] /\ handle[u] # NoConn /\ \A c \in conns : c[2] # handle[u]
      BY <2>1 DEF Lookup
    <3>2. cached[t] # NoConn => <<t, cached[t]>> \in conns
      BY DEF ConnectionsSound
    <3> QED BY <3>1, <3>2
  <2> QED BY <2>1, <2>2 DEF Lookup
<1> QED BY <1>1, <1>2, <1>3 DEF Lookup

LEMMA ConnectInv == ASSUME NEW t \in Thread, ConnInv, Connect(t) PROVE ConnInv'
<1> USE DEF ConnInv, ConnTypeOK
<1>1. PICK c \in Conn : /\ c \notin opened /\ \A d \in conns : d[2] # c
                        /\ \A u \in Thread : handle[u] # c
                        /\ handle' = [handle EXCEPT ![t] = c] /\ opened' = opened \cup {c}
  <2>1. PICK c \in Conn \ Used : handle' = [handle EXCEPT ![t] = c] /\ opened' = opened \cup {c}
    BY DEF Connect
  <2>2. c \notin opened /\ c \notin {d[2] : d \in conns} /\ c \notin {handle[u] : u \in Thread}
    BY <2>1 DEF Used
  <2>3. \A u \in Thread : handle[u] # c
    BY <2>2
  <2>4. \A d \in conns : d[2] # c
    BY <2>2
  <2> QED BY <2>1, <2>2, <2>3, <2>4
<1>2. ConnTypeOK'
  BY <1>1 DEF Connect
<1>3. ConnectionsSound'
  <2>1. ASSUME NEW d \in opened'
        PROVE  \/ \E u \in Thread : <<u, d>> \in conns'
               \/ \E u \in Thread : at'[u] = "registering" /\ handle'[u] = d
    <3>1. CASE d = c
      BY <1>1, <3>1 DEF Connect
    <3>2. CASE \E u \in Thread : <<u, d>> \in conns
      BY <3>2 DEF Connect
    <3>3. CASE \E u \in Thread : at[u] = "registering" /\ handle[u] = d
      <4>1. PICK u \in Thread : at[u] = "registering" /\ handle[u] = d
        BY <3>3
      <4>2. at'[u] = "registering" /\ handle'[u] = d
        BY <1>1, <4>1 DEF Connect
      <4> QED BY <4>2
    <3> QED BY <1>1, <3>1, <3>2, <3>3 DEF ConnectionsSound
  <2>2. \A u \in Thread : at'[u] = "registering" => handle'[u] \in opened'
    BY <1>1 DEF Connect, ConnectionsSound
  <2> QED BY <1>1, <2>1, <2>2 DEF Connect, ConnectionsSound
<1>4. c # NoConn
  BY ConnAssumption
<1> QED BY <1>1, <1>2, <1>3, <1>4 DEF Connect

\* Of connections that are closed none is a live thread's.
LEMMA RegisterInv == ASSUME NEW t \in Thread, ConnInv, Register(t) PROVE ConnInv'
<1> USE DEF ConnInv, ConnTypeOK
<1>1. /\ t \in alive /\ at[t] = "registering" /\ cached[t] = NoConn
      /\ handle[t] \in Conn /\ handle[t] \in opened
      /\ conns' = (conns \ Dead) \cup {<<t, handle[t]>>}
      /\ opened' = opened \ {c[2] : c \in Dead}
      /\ UNCHANGED <<alive, handle>>
  <2>1. at[t] = "registering"
    BY DEF Register
  <2>2. t \in alive /\ cached[t] = NoConn /\ handle[t] \in Conn
    BY <2>1
  <2>3. handle[t] \in opened
    BY <2>1 DEF ConnectionsSound
  <2> QED BY <2>1, <2>2, <2>3 DEF Register
<1>2. ConnTypeOK'
  BY <1>1 DEF Register
<1>3. \A c \in conns : c[2] # handle[t] /\ c[1] # t
  BY <1>1, ConnAssumption DEF ConnectionsSound
<1>4. \A c \in conns : c \in conns' \/ c[2] \notin opened'
  <2> SUFFICES ASSUME NEW c \in conns, c \in Dead PROVE c[2] \in {d[2] : d \in Dead}
    BY <1>1
  <2> QED OBVIOUS
<1>5. \A c \in conns : c \notin Dead => c[2] \in opened'
  <2>1. Dead \subseteq conns /\ \A c, d \in conns : d[2] = c[2] => d = c
    BY DEF ConnectionsSound, Dead
  <2>2. \A c \in conns : c[2] \in opened
    BY DEF ConnectionsSound
  <2> QED BY <1>1, <2>1, <2>2
<1>6. handle[t] \in opened'
  BY <1>1, <1>3 DEF Dead
<1>7. ConnectionsSound'
  <2>1. ASSUME NEW c \in opened'
        PROVE  \/ \E u \in Thread : <<u, c>> \in conns'
               \/ \E u \in Thread : at'[u] = "registering" /\ handle'[u] = c
    <3>1. c \in opened
      BY <1>1
    <3>2. CASE \E u \in Thread : <<u, c>> \in conns
      <4>1. PICK u \in Thread : <<u, c>> \in conns
        BY <3>2
      <4> QED BY <1>4, <4>1
    <3>3. CASE \E u \in Thread : at[u] = "registering" /\ handle[u] = c
      <4>1. PICK u \in Thread : at[u] = "registering" /\ handle[u] = c
        BY <3>3
      <4> QED BY <1>1, <4>1 DEF Register
    <3> QED BY <3>1, <3>2, <3>3 DEF ConnectionsSound
  <2>2. ASSUME NEW u \in Thread, cached'[u] # NoConn
        PROVE  cached'[u] \in opened' /\ <<u, cached'[u]>> \in conns'
    <3>1. CASE u = t
      BY <1>1, <1>6, <3>1 DEF Register
    <3>2. CASE u # t
      <4>1. cached'[u] = cached[u] /\ u \in alive /\ <<u, cached[u]>> \in conns
        BY <2>2, <3>2 DEF Register, ConnectionsSound
      <4> QED BY <1>1, <1>5, <4>1 DEF Dead
    <3> QED BY <3>1, <3>2
  <2>3. ASSUME NEW u \in Thread, at'[u] = "registering" PROVE handle'[u] \in opened'
    <3>1. at[u] = "registering" /\ \A c \in conns : c[2] # handle[u]
      BY <2>3 DEF Register
    <3>2. handle[u] \in opened
      BY <3>1 DEF ConnectionsSound
    <3> QED BY <1>1, <3>1, <3>2 DEF Dead
  <2>4. ASSUME NEW c \in conns'
        PROVE  c[2] \in opened' /\ \A d \in conns' : d[2] = c[2] => d = c
    BY <1>1, <1>3, <1>5, <1>6 DEF ConnectionsSound
  <2>5. ASSUME NEW c \in conns', c[1] \in alive' PROVE cached'[c[1]] = c[2]
    BY <1>1, <1>3, <2>5 DEF Register, ConnectionsSound
  <2> QED BY <2>1, <2>2, <2>3, <2>4, <2>5 DEF ConnectionsSound
<1> QED BY <1>1, <1>2, <1>7 DEF Register

LEMMA FinishInv == ASSUME NEW t \in Thread, ConnInv, Finish(t) PROVE ConnInv'
<1> USE DEF ConnInv, ConnTypeOK
<1>1. ConnTypeOK'
  BY DEF Finish
<1>2. \A u \in Thread : at'[u] = "registering" <=> at[u] = "registering"
  BY DEF Finish
<1>3. \A u \in Thread : at[u] = "registering" => handle'[u] = handle[u]
  BY DEF Finish
<1>4. ConnectionsSound'
  BY <1>2, <1>3 DEF Finish, ConnectionsSound
<1> QED BY <1>1, <1>2, <1>3, <1>4 DEF Finish

LEMMA ExitInv == ASSUME NEW t \in Thread, ConnInv, Exit(t) PROVE ConnInv'
<1> USE DEF ConnInv, ConnTypeOK
<1>1. ConnTypeOK'
  BY DEF Exit
<1>2. ASSUME NEW u \in Thread PROVE cached'[u] = IF u = t THEN NoConn ELSE cached[u]
  BY DEF Exit
<1>3. UNCHANGED <<at, handle, conns, opened>> /\ alive' = alive \ {t}
  BY DEF Exit
<1>4. ASSUME NEW u \in Thread, cached'[u] # NoConn
      PROVE  cached'[u] \in opened' /\ <<u, cached'[u]>> \in conns'
  BY <1>2, <1>3, <1>4 DEF ConnectionsSound
<1>5. ASSUME NEW c \in conns', c[1] \in alive' PROVE cached'[c[1]] = c[2]
  <2>1. c \in conns /\ c[1] \in alive /\ c[1] # t /\ c[1] \in Thread
    BY <1>3, <1>5
  <2>2. cached[c[1]] = c[2]
    BY <2>1 DEF ConnectionsSound
  <2> QED BY <1>2, <2>1, <2>2
<1>6. ConnectionsSound'
  <2>1. \A u \in Thread : at'[u] = "registering" => handle'[u] \in opened'
    BY <1>3 DEF ConnectionsSound
  <2>2. /\ \A c \in opened' : \/ \E u \in Thread : <<u, c>> \in conns'
                             \/ \E u \in Thread : at'[u] = "registering" /\ handle'[u] = c
        /\ \A c \in conns' : c[2] \in opened' /\ \A d \in conns' : d[2] = c[2] => d = c
    BY <1>3 DEF ConnectionsSound
  <2> QED BY <1>4, <1>5, <2>1, <2>2 DEF ConnectionsSound
<1> QED BY <1>1, <1>3, <1>6, <1>2 DEF Exit

LEMMA CloseInv == ASSUME ConnInv, Close PROVE ConnInv'
<1> USE DEF ConnInv, ConnTypeOK
<1>1. ConnTypeOK'
  BY DEF Close
<1>2. ConnectionsSound'
  <2>1. \A c \in opened' : c \in opened /\ \A u \in Thread : <<u, c>> \notin conns
    BY DEF Close
  <2>2. \A u \in Thread : at[u] = "registering" => handle[u] \in opened'
    BY DEF Close, ConnectionsSound
  <2>3. \A c \in opened' : \E u \in Thread : at[u] = "registering" /\ handle[u] = c
    BY <2>1 DEF ConnectionsSound
  <2> QED BY <2>2, <2>3 DEF Close, ConnectionsSound
<1> QED BY <1>1, <1>2 DEF Close

LEMMA ConnStep == ConnInv /\ [ConnNext]_connVars => ConnInv'
<1> SUFFICES ASSUME ConnInv, [ConnNext]_connVars PROVE ConnInv'
  OBVIOUS
<1>1. CASE UNCHANGED connVars
  BY <1>1 DEF connVars, ConnInv, ConnTypeOK, ConnectionsSound
<1>2. ASSUME NEW t \in Thread, Lookup(t) PROVE ConnInv'
  BY <1>2, LookupInv
<1>3. ASSUME NEW t \in Thread, Connect(t) PROVE ConnInv'
  BY <1>3, ConnectInv
<1>4. ASSUME NEW t \in Thread, Register(t) PROVE ConnInv'
  BY <1>4, RegisterInv
<1>5. ASSUME NEW t \in Thread, Finish(t) PROVE ConnInv'
  BY <1>5, FinishInv
<1>6. ASSUME NEW t \in Thread, Exit(t) PROVE ConnInv'
  BY <1>6, ExitInv
<1>7. CASE Close
  BY <1>7, CloseInv
<1> QED BY <1>1, <1>2, <1>3, <1>4, <1>5, <1>6, <1>7 DEF ConnNext

\* No open connection is forgotten and no closed one is cached, however threads look up,
\* connect, register and exit, and whenever one calls close() (sqlite_store.py:22-60).
THEOREM ConnectionsKept == ConnSpec => []ConnectionsSound
<1>1. ConnInv => ConnectionsSound
  BY DEF ConnInv
<1> QED BY <1>1, ConnInitInv, ConnStep, PTL DEF ConnSpec
=============================================================================
