---------------------------- MODULE MC_Ingestion ----------------------------
(***************************************************************************)
(* A small instance of Ingestion.  File 1 lies in the index path itself,   *)
(* file 2 in a subdirectory of it.  Content "a" has two chunks in two      *)
(* batches, "b" is "a" without its first batch, "void" has no text.  Both  *)
(* batches name entity p, with other types and descriptions.               *)
(***************************************************************************)
EXTENDS IngestionInv

CONSTANTS a, b, void, reqX, reqY, p, q, calls, root, sub

MCFile == {1, 2}
MCType == {1, 2}
MCDesc == {1, 2}
MCDescLen == [d \in MCDesc |-> 3 * d]
MCGen == 1..4
MCDirOf == [f \in File |-> IF f = 1 THEN root ELSE sub]
MCDirsOf == [f \in File |-> IF f = 1 THEN {root} ELSE {root, sub}]
MCNumChunks == [c \in Content |-> CASE c = a -> 2 [] c = b -> 1 [] OTHER -> 0]
MCBatches == [c \in Content |-> CASE c = a -> <<reqX, reqY>> [] c = b -> <<reqY>> [] OTHER -> <<>>]
\* reqY relates p to itself, reqX relates p to q twice; q is named by reqX only.
MCReply ==
    [r \in {reqX, reqY} |->
        [ents |-> [n \in {p, q} |->
                     CASE n = p /\ r = reqX -> [type |-> NoType, desc |-> 2]
                       [] n = p /\ r = reqY -> [type |-> 1, desc |-> 1]
                       [] n = q /\ r = reqX -> [type |-> 2, desc |-> NoDesc]
                       [] OTHER -> None],
         rels |-> [k \in Rel |->
                     CASE k = <<p, p, calls>> -> 1
                       [] k = <<p, q, calls>> /\ r = reqX -> 2
                       [] k = <<q, p, calls>> /\ r = reqY -> 1
                       [] OTHER -> 0]]]
MCMatches ==
    [c \in Content |-> CASE c = a -> {<<1, p>>, <<2, q>>} [] c = b -> {<<1, p>>, <<1, q>>}
                         [] OTHER -> {}]
OneFile == {1}
=============================================================================
