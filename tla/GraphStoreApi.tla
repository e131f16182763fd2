--------------------------- MODULE GraphStoreApi ---------------------------
(***************************************************************************)
(* The store on its own: any caller, any transaction, in any order.  The   *)
(* caller mints the chunk ids, so they are new.                            *)
(***************************************************************************)
EXTENDS GraphStore

CONSTANTS MaxWeight, MaxEdges, MaxChunks    \* bounds on what the callers pass

StoreNext ==
    \E f \in File :
        \/ \E ments \in [Entity -> Mention \cup {None}] : UpsertEntities(f, ments)
        \/ \E weights \in [Rel -> 0..1] :
              /\ UpsertRelationships(f, weights)
              /\ \A r \in Rel : relationships'[f][r] <= MaxWeight
              /\ Cardinality({x \in File \X Rel : relationships'[x[1]][x[2]] > 0}) <= MaxEdges
        \/ \E g \in Gen, n \in 1..MaxChunks :
              /\ \A c \in chunks : c.id[1] # g
              /\ RegisterChunks(f, {<<g, i>> : i \in 1..n})
        \/ \E c \in chunks, e \in Entity : LinkChunks({<<c.id, e>>})
        \/ DeleteFileData(f)
        \/ PurgeFile(f)
        \/ \E i \in BatchIndex, p \in Prompt : CacheExtraction(f, i, p)
        \/ \E h \in Hash : UpsertHash(f, h)

StoreSpec == StoreInit /\ [][StoreNext]_storeVars
=============================================================================
