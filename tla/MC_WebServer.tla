----------------------------- MODULE MC_WebServer -----------------------------
(***************************************************************************)
(* A small instance of WebServer.                                          *)
(***************************************************************************)
EXTENDS WebServer, TLC

CONSTANTS p1, p2, l1, l2, l3

Alike == Permutations({p1, p2}) \cup Permutations({l1, l2, l3})
=============================================================================
