---------------------------- MODULE DocumentIndex ----------------------------
(***************************************************************************)
(* What indexing promises whoever searches: a file is served in exactly    *)
(* one version or not at all; a version appears over a clean slate, after  *)
(* the old vectors and then the old certificate are gone; a certificate    *)
(* (the fingerprint that makes later runs skip the file) is given to the   *)
(* version being served and is not changed in place.                       *)
(***************************************************************************)
CONSTANTS File, Content, None,
          Texts,        \* contents with something to search for
          Racy          \* may the hash be of another content than the one indexed?

VARIABLES served, certified

dvars == <<served, certified>>

DInit ==
    /\ served = [f \in File |-> None]
    /\ certified = [f \in File |-> None]

Withdraw(f) ==
    /\ served' = [served EXCEPT ![f] = None]
    /\ UNCHANGED certified

Revoke(f) ==
    /\ served[f] = None
    /\ certified' = [certified EXCEPT ![f] = None]
    /\ UNCHANGED served

Publish(f, c) ==
    /\ c \in Texts /\ served[f] = None /\ certified[f] = None
    /\ served' = [served EXCEPT ![f] = c]
    /\ UNCHANGED certified

Grant(f, c, h) ==
    /\ certified[f] = None
    /\ c \in Texts => served[f] = c
    /\ Racy \/ h = c
    /\ certified' = [certified EXCEPT ![f] = h]
    /\ UNCHANGED served

DNext ==
    \E f \in File :
        \/ Withdraw(f) \/ Revoke(f)
        \/ \E c \in Content : Publish(f, c)
        \/ \E c, h \in Content : Grant(f, c, h)

DSpec == DInit /\ [][DNext]_dvars
=============================================================================
