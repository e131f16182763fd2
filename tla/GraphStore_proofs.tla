-------------------------- MODULE GraphStore_proofs --------------------------
(***************************************************************************)
(* Facts about the operators and transactions of GraphStore, for every     *)
(* value of its constants.                                                 *)
(***************************************************************************)
EXTENDS GraphStore, FiniteSetTheorems, WellFoundedInduction, TLAPS

Mentions == [File -> [Entity -> Mention \cup {None}]]
EntityRows == [Entity -> Mention \cup {None}]

(***************************************************************************)
(* ORDER BY ... LIMIT 1 picks a row whenever there is one: among finitely  *)
(* many rows one has no better row, for the sets of better rows are        *)
(* strictly smaller and smaller.                                           *)
(***************************************************************************)
LEMMA BestExists ==
    ASSUME NEW S \in SUBSET Nat, IsFiniteSet(S), S # {}, NEW key \in [S -> Nat]
    PROVE  /\ Best(S, key) \in S
           /\ \A y \in S : LET x == Best(S, key)
                          IN  key[x] > key[y] \/ (key[x] = key[y] /\ x <= y)
<1> DEFINE Better(x) == {y \in S : key[y] > key[x] \/ (key[y] = key[x] /\ y < x)}
           T == {Better(x) : x \in S}
<1>1. IsWellFoundedOn(StrictSubsetOrdering(S), FiniteSubsetsOf(S))
  BY FS_StrictSubsetOrderingWellFounded
<1>2. T \subseteq FiniteSubsetsOf(S)
  BY FS_Subset DEF FiniteSubsetsOf
<1>3. T # {}
  <2>1. PICK x : x \in S
    OBVIOUS
  <2>2. Better(x) \in T
    BY <2>1
  <2> QED BY <2>2
<1> HIDE DEF T
<1>4. PICK M \in T : \A N \in T : <<N, M>> \notin StrictSubsetOrdering(S)
  BY <1>1, <1>2, <1>3, WFMin
<1>5. PICK x \in S : M = Better(x)
  BY <1>4 DEF T
<1>6. Better(x) = {}
  <2> SUFFICES ASSUME NEW y \in Better(x) PROVE FALSE
    OBVIOUS
  <2>1. y \in S /\ key[y] \in Nat /\ key[x] \in Nat /\ x \in Nat /\ y \in Nat
    OBVIOUS
  <2>2. Better(y) \subseteq Better(x)
    <3> SUFFICES ASSUME NEW z \in Better(y) PROVE z \in Better(x)
      OBVIOUS
    <3>1. z \in S /\ key[z] \in Nat /\ z \in Nat
      OBVIOUS
    <3> QED BY <2>1, <3>1
  <2>3. y \notin Better(y)
    BY <2>1
  <2>4. Better(y) \in T /\ Better(y) # Better(x)
    BY <2>1, <2>3 DEF T
  <2>5. Better(y) \in SUBSET S /\ Better(x) \in SUBSET S
    OBVIOUS
  <2> HIDE DEF Better
  <2>6. <<Better(y), Better(x)>> \in StrictSubsetOrdering(S)
    BY <2>2, <2>4, <2>5 DEF StrictSubsetOrdering
  <2> QED BY <1>4, <1>5, <2>4, <2>6
<1>7. \A y \in S : key[x] > key[y] \/ (key[x] = key[y] /\ x <= y)
  <2> SUFFICES ASSUME NEW y \in S
               PROVE  key[x] > key[y] \/ (key[x] = key[y] /\ x <= y)
    OBVIOUS
  <2>1. y \notin Better(x) /\ key[x] \in Nat /\ key[y] \in Nat /\ x \in Nat /\ y \in Nat
    BY <1>6
  <2> QED BY <2>1
<1> QED BY <1>7 DEF Best

(***************************************************************************)
(* The derived row of a mentioned entity is a row of the table.            *)
(***************************************************************************)
LEMMA CommonTypeType ==
    ASSUME NEW m \in Mentions, NEW e \in Entity
    PROVE  CommonType(e, m) \in Type \cup {NoType}
<1> DEFINE docs == DocsMentioning(e, m)
           votes == [t \in Type |-> Cardinality({f \in docs : m[f][e].type = t})]
           types == {t \in Type : \E f \in docs : m[f][e].type = t}
<1>1. docs \in SUBSET File /\ IsFiniteSet(docs)
  BY FS_Subset, GraphStoreAssumption DEF DocsMentioning, GraphStoreAssumption
<1>2. \A t \in Type : votes[t] \in Nat
  <2> SUFFICES ASSUME NEW t \in Type PROVE Cardinality({f \in docs : m[f][e].type = t}) \in Nat
    OBVIOUS
  <2> QED BY <1>1, FS_Subset, FS_CardinalityType
<1>3. IsFiniteSet(types)
  <2> DEFINE typed == {f \in docs : m[f][e].type \in Type}
             typeOf == [f \in typed |-> m[f][e].type]
  <2>1. IsFiniteSet(typed)
    BY <1>1, FS_Subset
  <2>2. typeOf \in Surjection(typed, types)
    BY DEF Surjection
  <2> QED BY <2>1, <2>2, FS_Surjection
<1>4. types \in SUBSET Nat /\ types \subseteq Type
  BY GraphStoreAssumption DEF GraphStoreAssumption
<1> DEFINE key == [t \in types |-> votes[t]]
<1>5. CASE types = {}
  BY <1>5 DEF CommonType
<1>6. CASE types # {}
  <2>1. key \in [types -> Nat]
    BY <1>2, <1>4
  <2>2. Best(types, key) \in types
    BY <1>3, <1>4, <1>6, <2>1, BestExists
  <2>3. Best(types, votes) = Best(types, key)
    BY DEF Best
  <2>4. CommonType(e, m) = Best(types, votes)
    BY <1>6 DEF CommonType
  <2> QED BY <1>4, <2>2, <2>3, <2>4
<1> QED BY <1>5, <1>6

LEMMA LongestDescType ==
    ASSUME NEW m \in Mentions, NEW e \in Entity
    PROVE  LongestDesc(e, m) \in Desc \cup {NoDesc}
<1> DEFINE docs == {f \in DocsMentioning(e, m) : m[f][e].desc # NoDesc}
           lens == [f \in docs |-> DescLen[m[f][e].desc]]
<1>1. docs \in SUBSET Nat /\ IsFiniteSet(docs)
  BY FS_Subset, GraphStoreAssumption DEF DocsMentioning, GraphStoreAssumption
<1>2. \A f \in docs : m[f][e].desc \in Desc
  BY DEF DocsMentioning, Mentions, Mention
<1>3. lens \in [docs -> Nat]
  BY <1>2, GraphStoreAssumption DEF GraphStoreAssumption
<1>4. CASE docs = {}
  BY <1>4 DEF LongestDesc
<1>5. CASE docs # {}
  <2>1. Best(docs, lens) \in docs
    BY <1>1, <1>3, <1>5, BestExists
  <2>2. LongestDesc(e, m) = m[Best(docs, lens)][e].desc
    BY <1>5 DEF LongestDesc
  <2> QED BY <1>2, <2>1, <2>2
<1> QED BY <1>4, <1>5

LEMMA DerivedType ==
    ASSUME NEW m \in Mentions, NEW e \in Entity
    PROVE  Derived(e, m) \in Mention
BY CommonTypeType, LongestDescType DEF Derived, Mention

(***************************************************************************)
(* The derived row depends on the entity's own mentions only, so what      *)
(* happens to other entities never flips it.                               *)
(***************************************************************************)
LEMMA DerivedLocal ==
    ASSUME NEW m \in Mentions, NEW n \in Mentions, NEW e \in Entity,
           \A f \in File : m[f][e] = n[f][e]
    PROVE  /\ DocsMentioning(e, m) = DocsMentioning(e, n)
           /\ Derived(e, m) = Derived(e, n)
<1>1. DocsMentioning(e, m) = DocsMentioning(e, n)
  BY DEF DocsMentioning
<1> DEFINE docs == DocsMentioning(e, m)
<1>2. \A f \in docs : f \in File /\ m[f][e] = n[f][e]
  BY DEF DocsMentioning
<1>3. CommonType(e, m) = CommonType(e, n)
  <2>1. \A t \in Type : {f \in docs : m[f][e].type = t} = {f \in docs : n[f][e].type = t}
    BY <1>2
  <2>2. [t \in Type |-> Cardinality({f \in docs : m[f][e].type = t})]
          = [t \in Type |-> Cardinality({f \in docs : n[f][e].type = t})]
    BY <2>1
  <2>3. {t \in Type : \E f \in docs : m[f][e].type = t}
          = {t \in Type : \E f \in docs : n[f][e].type = t}
    BY <1>2
  <2> QED BY <1>1, <2>2, <2>3 DEF CommonType
<1>4. LongestDesc(e, m) = LongestDesc(e, n)
  <2> DEFINE dm == {f \in docs : m[f][e].desc # NoDesc}
             dn == {f \in docs : n[f][e].desc # NoDesc}
             lm == [f \in dm |-> DescLen[m[f][e].desc]]
             ln == [f \in dn |-> DescLen[n[f][e].desc]]
  <2>1. dm = dn
    BY <1>2
  <2>2. lm = ln
    BY <1>2, <2>1
  <2>3. CASE dm = {}
    BY <1>1, <2>1, <2>3 DEF LongestDesc
  <2>4. CASE dm # {}
    <3>1. dm \in SUBSET Nat /\ IsFiniteSet(dm)
      BY FS_Subset, GraphStoreAssumption DEF DocsMentioning, GraphStoreAssumption
    <3>2. lm \in [dm -> Nat]
      <4>1. \A f \in dm : m[f][e].desc \in Desc
        BY DEF DocsMentioning, Mentions, Mention
      <4> QED BY <4>1, GraphStoreAssumption DEF GraphStoreAssumption
    <3>3. Best(dm, lm) \in dm
      BY <2>4, <3>1, <3>2, BestExists
    <3>4. Best(dm, lm) = Best(dn, ln)
      BY <2>1, <2>2
    <3>5. LongestDesc(e, m) = m[Best(dm, lm)][e].desc
      BY <2>4 DEF LongestDesc
    <3>6. LongestDesc(e, n) = n[Best(dn, ln)][e].desc
      BY <1>1, <2>1, <2>4 DEF LongestDesc
    <3> QED BY <1>2, <3>3, <3>4, <3>5, <3>6
  <2> QED BY <2>3, <2>4
<1> QED BY <1>1, <1>3, <1>4 DEF Derived

LEMMA RefreshType ==
    ASSUME NEW rows \in EntityRows, NEW touched, NEW m \in Mentions
    PROVE  /\ Refresh(rows, touched, m) \in EntityRows
           /\ \A e \in Entity : Refresh(rows, touched, m)[e] = None <=> rows[e] = None
BY DerivedType, GraphStoreAssumption DEF Refresh, EntityRows, GraphStoreAssumption
-----------------------------------------------------------------------------
LEMMA StoreInitInv == StoreInit => StoreInv
<1> SUFFICES ASSUME StoreInit PROVE StoreInv
  OBVIOUS
<1>1. StoreTypeOK
  BY DEF StoreInit, StoreTypeOK
<1>2. \A e \in Entity : entities[e] = None /\ ~Referenced(e, mentions, relationships, links)
  BY DEF StoreInit, Referenced, DocsMentioning
<1>3. LinksHaveChunks
  BY DEF StoreInit, LinksHaveChunks
<1> QED BY <1>1, <1>2, <1>3 DEF StoreInv, EntityIffReferenced, EntityDerived

LEMMA UpsertEntitiesInv ==
    ASSUME StoreInv, NEW f \in File, NEW ments \in EntityRows, UpsertEntities(f, ments)
    PROVE  StoreInv'
<1> USE DEF EntityRows, Mentions
<1> DEFINE named == {e \in Entity : ments[e] # None}
           blank == [type |-> NoType, desc |-> NoDesc]
           rows == [e \in Entity |-> IF e \in named /\ entities[e] = None
                                     THEN blank ELSE entities[e]]
<1>1. mentions' \in Mentions
  BY DEF StoreInv, StoreTypeOK, UpsertEntities
<1>2. rows \in EntityRows
  BY DEF StoreInv, StoreTypeOK, Mention
<1>3. entities' = Refresh(rows, named, mentions')
  BY DEF UpsertEntities
<1>4. \A e \in Entity : \A g \in File :
         mentions'[g][e] = IF g = f /\ e \in named THEN ments[e] ELSE mentions[g][e]
  BY DEF StoreInv, StoreTypeOK, UpsertEntities
<1>5. UNCHANGED <<chunks, links, relationships, fingerprints, extraction_cache>>
  BY DEF UpsertEntities
<1>6. \A e \in Entity : entities'[e] = None <=> rows[e] = None
  BY <1>1, <1>2, <1>3, RefreshType
<1>7. \A e \in Entity : rows[e] = None <=> e \notin named /\ entities[e] = None
  BY GraphStoreAssumption DEF GraphStoreAssumption, Mention
<1> HIDE DEF rows
<1>8. StoreTypeOK'
  BY <1>1, <1>2, <1>3, <1>5, RefreshType DEF StoreInv, StoreTypeOK
<1>9. EntityIffReferenced'
  <2> SUFFICES ASSUME NEW e \in Entity
               PROVE  entities'[e] # None <=> Referenced(e, mentions', relationships', links')
    BY DEF EntityIffReferenced
  <2>1. e \in named => f \in DocsMentioning(e, mentions')
    BY <1>4 DEF DocsMentioning
  <2>2. e \notin named => DocsMentioning(e, mentions') = DocsMentioning(e, mentions)
    BY <1>4 DEF DocsMentioning
  <2>3. entities[e] # None <=> Referenced(e, mentions, relationships, links)
    BY DEF StoreInv, EntityIffReferenced
  <2> QED BY <1>5, <1>6, <1>7, <2>1, <2>2, <2>3 DEF Referenced
<1>10. LinksHaveChunks'
  BY <1>5 DEF StoreInv, LinksHaveChunks
<1>11. EntityDerived'
  <2> SUFFICES ASSUME NEW e \in Entity, entities'[e] # None,
                      DocsMentioning(e, mentions') # {}
               PROVE  entities'[e] = Derived(e, mentions')
    BY DEF EntityDerived
  <2>1. CASE e \in named
    BY <1>3, <1>6, <2>1 DEF Refresh
  <2>2. CASE e \notin named
    <3>1. entities'[e] = entities[e]
      BY <1>3, <2>2 DEF Refresh, rows
    <3>2. /\ DocsMentioning(e, mentions') = DocsMentioning(e, mentions)
          /\ Derived(e, mentions') = Derived(e, mentions)
      BY <1>1, <1>4, <2>2, DerivedLocal DEF StoreInv, StoreTypeOK
    <3> QED BY <3>1, <3>2 DEF StoreInv, EntityDerived
  <2> QED BY <2>1, <2>2
<1> QED BY <1>8, <1>9, <1>10, <1>11 DEF StoreInv

LEMMA UpsertRelationshipsInv ==
    ASSUME StoreInv, NEW f \in File, NEW weights \in [Rel -> Nat],
           UpsertRelationships(f, weights)
    PROVE  StoreInv'
<1>1. \A g \in File, r \in Rel :
         relationships'[g][r] = relationships[g][r] + IF g = f THEN weights[r] ELSE 0
  BY DEF StoreInv, StoreTypeOK, UpsertRelationships
<1>2. UNCHANGED <<chunks, links, mentions, entities, fingerprints, extraction_cache>>
  BY DEF UpsertRelationships
<1>3. StoreTypeOK'
  BY <1>2 DEF StoreInv, StoreTypeOK, UpsertRelationships
<1>4. EntityIffReferenced'
  <2> SUFFICES ASSUME NEW e \in Entity
               PROVE  entities'[e] # None <=> Referenced(e, mentions', relationships', links')
    BY DEF EntityIffReferenced
  <2>1. entities[e] # None <=> Referenced(e, mentions, relationships, links)
    BY DEF StoreInv, EntityIffReferenced
  <2>2. \A g \in File, r \in Rel : relationships[g][r] \in Nat /\ weights[r] \in Nat
    BY DEF StoreInv, StoreTypeOK
  <2>3. \A g \in File, r \in Rel : relationships[g][r] > 0 => relationships'[g][r] > 0
    BY <1>1, <2>2
  <2>4. \A g \in File, r \in Rel :
           relationships'[g][r] > 0 => relationships[g][r] > 0 \/ weights[r] > 0
    BY <1>1, <2>2
  <2>5. \A r \in Rel : weights[r] > 0 /\ e \in {r[1], r[2]} => entities[e] # None
    BY DEF UpsertRelationships
  <2> QED BY <1>2, <2>1, <2>3, <2>4, <2>5 DEF Referenced
<1>5. LinksHaveChunks' /\ EntityDerived'
  BY <1>2 DEF StoreInv, LinksHaveChunks, EntityDerived
<1> QED BY <1>3, <1>4, <1>5 DEF StoreInv

LEMMA RegisterChunksInv ==
    ASSUME StoreInv, NEW f \in File, NEW ids \in SUBSET ChunkId, RegisterChunks(f, ids)
    PROVE  StoreInv'
<1>1. UNCHANGED <<links, relationships, mentions, entities, fingerprints, extraction_cache>>
  BY DEF RegisterChunks
<1>2. StoreTypeOK'
  BY <1>1 DEF StoreInv, StoreTypeOK, RegisterChunks
<1>3. LinksHaveChunks'
  <2> DEFINE kept == {c \in chunks : c.id \notin ids}
             new == {[id |-> i, file |-> f] : i \in ids}
  <2>1. chunks' = kept \cup new
    BY DEF RegisterChunks
  <2>2. /\ \A c \in kept : c \in chunks /\ c.id \notin ids
        /\ \A c \in new : c.id \in ids /\ c = [id |-> c.id, file |-> f]
        /\ \A i \in ids : \E c \in new : c.id = i
    <3>1. \A c \in kept : c \in chunks /\ c.id \notin ids
      OBVIOUS
    <3>2. \A c \in new : c.id \in ids /\ c = [id |-> c.id, file |-> f]
      OBVIOUS
    <3>3. ASSUME NEW i \in ids PROVE \E c \in new : c.id = i
      <4>1. [id |-> i, file |-> f] \in new
        OBVIOUS
      <4>2. [id |-> i, file |-> f].id = i
        OBVIOUS
      <4> QED BY <4>1, <4>2
    <3> QED BY <3>1, <3>2, <3>3
  <2>3. \A c \in chunks : c.id \in ids \/ c \in kept
    OBVIOUS
  <2>4. \A l \in links' : \E c \in chunks' : c.id = l[1]
    <3> SUFFICES ASSUME NEW l \in links PROVE \E c \in chunks' : c.id = l[1]
      BY <1>1
    <3>1. PICK c \in chunks : c.id = l[1]
      BY DEF StoreInv, LinksHaveChunks
    <3> HIDE DEF kept, new
    <3> QED BY <2>1, <2>2, <2>3, <3>1
  <2>5. \A c, d \in chunks' : c.id = d.id => c = d
    <3> SUFFICES ASSUME NEW c \in chunks', NEW d \in chunks', c.id = d.id PROVE c = d
      OBVIOUS
    <3> HIDE DEF kept, new
    <3>1. CASE c \in kept
      BY <2>1, <2>2, <3>1 DEF StoreInv, LinksHaveChunks
    <3>2. CASE c \in new
      BY <2>1, <2>2, <3>2
    <3> QED BY <2>1, <3>1, <3>2
  <2> QED BY <2>4, <2>5 DEF LinksHaveChunks
<1>4. EntityIffReferenced' /\ EntityDerived'
  BY <1>1 DEF StoreInv, EntityIffReferenced, EntityDerived
<1> QED BY <1>2, <1>3, <1>4 DEF StoreInv

LEMMA LinkChunksInv ==
    ASSUME StoreInv, NEW pairs \in SUBSET (ChunkId \X Entity), LinkChunks(pairs)
    PROVE  StoreInv'
<1>1. UNCHANGED <<chunks, relationships, mentions, entities, fingerprints, extraction_cache>>
  BY DEF LinkChunks
<1>2. StoreTypeOK'
  BY <1>1 DEF StoreInv, StoreTypeOK, LinkChunks
<1>3. LinksHaveChunks'
  BY <1>1 DEF StoreInv, LinksHaveChunks, LinkChunks
<1>4. EntityIffReferenced'
  <2> SUFFICES ASSUME NEW e \in Entity
               PROVE  entities[e] # None <=> Referenced(e, mentions, relationships, links')
    BY <1>1 DEF EntityIffReferenced
  <2>1. entities[e] # None <=> Referenced(e, mentions, relationships, links)
    BY DEF StoreInv, EntityIffReferenced
  <2>2. links' = links \cup pairs /\ \A l \in pairs : entities[l[2]] # None
    BY DEF LinkChunks
  <2> QED BY <2>1, <2>2 DEF Referenced
<1>5. EntityDerived'
  BY <1>1 DEF StoreInv, EntityDerived
<1> QED BY <1>2, <1>3, <1>4, <1>5 DEF StoreInv

\* The heart of it: a delete looks at the entities its file touched, and at no other.
LEMMA DeleteFileRowsInv ==
    ASSUME StoreInv, NEW f \in File, DeleteFileRows(f),
           extraction_cache' \in [File -> [BatchIndex -> Prompt \cup {None}]]
    PROVE  StoreInv'
<1> USE DEF EntityRows, Mentions
<1> DEFINE ids == ChunkIdsOf(f)
           touched == {e \in Entity :
                         \/ mentions[f][e] # None
                         \/ \E l \in links : l[1] \in ids /\ l[2] = e
                         \/ \E r \in Rel : relationships[f][r] > 0 /\ e \in {r[1], r[2]}}
           gone(e) == e \in touched /\ ~Referenced(e, mentions', relationships', links')
           rows == [e \in Entity |-> IF gone(e) THEN None ELSE entities[e]]
<1>1. /\ links' = {l \in links : l[1] \notin ids}
      /\ chunks' = {c \in chunks : c.file # f}
      /\ \A g \in File, r \in Rel :
            relationships'[g][r] = IF g = f THEN 0 ELSE relationships[g][r]
      /\ \A g \in File, e \in Entity :
            mentions'[g][e] = IF g = f THEN None ELSE mentions[g][e]
  BY DEF DeleteFileRows, StoreInv, StoreTypeOK
<1>2. /\ mentions' \in Mentions
      /\ relationships' \in [File -> [Rel -> Nat]]
      /\ fingerprints' \in [File -> Hash \cup {None}]
  BY DEF DeleteFileRows, StoreInv, StoreTypeOK
<1>3. rows \in EntityRows
  BY DEF StoreInv, StoreTypeOK
<1>4. entities' = Refresh(rows, touched, mentions')
  BY DEF DeleteFileRows, EntitiesOf
<1>5. \A e \in Entity : entities'[e] = None <=> gone(e) \/ entities[e] = None
  <2>1. \A e \in Entity : rows[e] = None <=> gone(e) \/ entities[e] = None
    OBVIOUS
  <2> HIDE DEF rows, touched
  <2>2. \A e \in Entity : entities'[e] = None <=> rows[e] = None
    BY <1>2, <1>3, <1>4, RefreshType
  <2> QED BY <2>1, <2>2
<1>6. StoreTypeOK'
  <2>1. entities' \in EntityRows
    BY <1>2, <1>3, <1>4, RefreshType
  <2> QED BY <1>1, <1>2, <2>1 DEF StoreInv, StoreTypeOK
<1>7. \A e \in Entity : e \notin touched =>
         /\ \A g \in File : mentions'[g][e] = mentions[g][e]
         /\ Referenced(e, mentions, relationships, links)
              => Referenced(e, mentions', relationships', links')
  <2> SUFFICES ASSUME NEW e \in Entity, e \notin touched
               PROVE  /\ \A g \in File : mentions'[g][e] = mentions[g][e]
                      /\ Referenced(e, mentions, relationships, links)
                           => Referenced(e, mentions', relationships', links')
    OBVIOUS
  <2>1. \A g \in File : mentions'[g][e] = mentions[g][e]
    BY <1>1
  <2>2. \A g \in File, r \in Rel :
           relationships[g][r] > 0 /\ e \in {r[1], r[2]} => relationships'[g][r] > 0
    BY <1>1
  <2>3. \A l \in links : l[2] = e => l \in links'
    BY <1>1
  <2> QED BY <2>1, <2>2, <2>3 DEF Referenced, DocsMentioning
<1>8. \A e \in Entity : Referenced(e, mentions', relationships', links')
                          => Referenced(e, mentions, relationships, links)
  <2> SUFFICES ASSUME NEW e \in Entity, Referenced(e, mentions', relationships', links')
               PROVE  Referenced(e, mentions, relationships, links)
    OBVIOUS
  <2>1. DocsMentioning(e, mentions') \subseteq DocsMentioning(e, mentions)
    BY <1>1 DEF DocsMentioning
  <2>2. \A g \in File, r \in Rel : relationships'[g][r] > 0 => relationships[g][r] > 0
    BY <1>1
  <2> QED BY <1>1, <2>1, <2>2 DEF Referenced
<1>9. EntityIffReferenced'
  <2> SUFFICES ASSUME NEW e \in Entity
               PROVE  entities'[e] # None <=> Referenced(e, mentions', relationships', links')
    BY DEF EntityIffReferenced
  <2>1. entities[e] # None <=> Referenced(e, mentions, relationships, links)
    BY DEF StoreInv, EntityIffReferenced
  <2>2. CASE e \in touched
    BY <1>5, <1>8, <2>1, <2>2
  <2>3. CASE e \notin touched
    BY <1>5, <1>7, <1>8, <2>1, <2>3
  <2> QED BY <2>2, <2>3
<1>10. LinksHaveChunks'
  BY <1>1 DEF StoreInv, LinksHaveChunks, ChunkIdsOf
<1>11. EntityDerived'
  <2> SUFFICES ASSUME NEW e \in Entity, entities'[e] # None,
                      DocsMentioning(e, mentions') # {}
               PROVE  entities'[e] = Derived(e, mentions')
    BY DEF EntityDerived
  <2>1. rows[e] # None
    BY <1>5
  <2>2. CASE e \in touched
    BY <1>4, <2>1, <2>2 DEF Refresh
  <2>3. CASE e \notin touched
    <3>1. entities'[e] = entities[e]
      BY <1>4, <2>3 DEF Refresh
    <3>2. /\ DocsMentioning(e, mentions') = DocsMentioning(e, mentions)
          /\ Derived(e, mentions') = Derived(e, mentions)
      BY <1>2, <1>7, <2>3, DerivedLocal DEF StoreInv, StoreTypeOK
    <3> QED BY <3>1, <3>2 DEF StoreInv, EntityDerived
  <2> QED BY <2>2, <2>3
<1> QED BY <1>6, <1>9, <1>10, <1>11 DEF StoreInv

LEMMA DeleteFileDataInv ==
    ASSUME StoreInv, NEW f \in File, DeleteFileData(f)
    PROVE  StoreInv'
<1>1. extraction_cache' \in [File -> [BatchIndex -> Prompt \cup {None}]]
  BY DEF DeleteFileData, StoreInv, StoreTypeOK
<1> QED BY <1>1, DeleteFileRowsInv DEF DeleteFileData

LEMMA PurgeFileInv ==
    ASSUME StoreInv, NEW f \in File, PurgeFile(f)
    PROVE  StoreInv'
<1>1. extraction_cache' \in [File -> [BatchIndex -> Prompt \cup {None}]]
  BY DEF PurgeFile, StoreInv, StoreTypeOK
<1> QED BY <1>1, DeleteFileRowsInv DEF PurgeFile

LEMMA CacheExtractionInv ==
    ASSUME StoreInv, NEW f \in File, NEW i \in BatchIndex, NEW prompt \in Prompt,
           CacheExtraction(f, i, prompt)
    PROVE  StoreInv'
BY DEF StoreInv, StoreTypeOK, CacheExtraction, EntityIffReferenced, LinksHaveChunks,
       EntityDerived

LEMMA UpsertHashInv ==
    ASSUME StoreInv, NEW f \in File, NEW h \in Hash, UpsertHash(f, h)
    PROVE  StoreInv'
BY DEF StoreInv, StoreTypeOK, UpsertHash, EntityIffReferenced, LinksHaveChunks,
       EntityDerived

LEMMA StoreUnchangedInv == StoreInv /\ UNCHANGED storeVars => StoreInv'
BY DEF StoreInv, StoreTypeOK, EntityIffReferenced, LinksHaveChunks, EntityDerived,
       storeVars
=============================================================================
