---------------------------- MODULE MC_Migrations ----------------------------
(***************************************************************************)
(* A small instance of Migrations.                                         *)
(***************************************************************************)
EXTENDS Migrations, TLC

CONSTANTS api, cli, e1, e2

TwoFiles == 1..2
OneGen == {1}
Nothing == {}
OneDesc == {1}
Len5 == [d \in OneDesc |-> 5]
Alike == Permutations({api, cli}) \cup Permutations({e1, e2})
=============================================================================
