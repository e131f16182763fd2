------------------------------ MODULE GitHistory ------------------------------
(***************************************************************************)
(* sync_git_histories of ingest/git_history.py: before the indexer lists   *)
(* its files, each git repository directly under a root of projects gets a *)
(* history document.                                                       *)
(*                                                                         *)
(* A root is the sequence of its children [name, repo, out], empty if it   *)
(* cannot be listed: repo says whether it has a .git and is not excluded,  *)
(* out what becomes of it: the history git prints, or NoLog if git fails,  *)
(* or Unwritable or Cut if the document cannot be written, or only a part  *)
(* of it.  docs[name] is the document of that name, or NoDoc.              *)
(***************************************************************************)
EXTENDS Integers, Sequences, SequencesExt

CONSTANTS NoLog, Unwritable, Cut, NoDoc

\* Mutant: a repository counts as present once git has answered.
VisitLogged(st, c) ==
    IF st.raised \/ ~c.repo \/ c.out = NoLog THEN st
    ELSE [present |-> st.present \cup {c.name},
          raised |-> c.out \in {Unwritable, Cut},
          docs |-> IF c.out = Unwritable THEN st.docs ELSE [st.docs EXCEPT ![c.name] = c.out]]

\* One child of a root; an error other than git's ends the loop.
Visit(st, c) ==
    IF st.raised \/ ~c.repo THEN st
    ELSE [present |-> st.present \cup {c.name},
          raised |-> c.out \in {Unwritable, Cut},
          docs |-> IF c.out \in {NoLog, Unwritable} THEN st.docs
                   ELSE [st.docs EXCEPT ![c.name] = c.out]]

\* After each number of children.
Visits(children, docs) ==
    LET after[n \in 0..Len(children)] ==
            IF n = 0 THEN [present |-> {}, raised |-> FALSE, docs |-> docs]
            ELSE Visit(after[n - 1], children[n])
    IN  after

\* _sync; a kill in between leaves what an error there does.
Sync(roots, docs) ==
    LET children == FlattenSeq(roots)
        end == Visits(children, docs)[Len(children)]
        all_roots_listed == \A i \in DOMAIN roots : roots[i] # <<>>
    IN  IF roots = <<>> \/ end.raised \/ ~all_roots_listed THEN end.docs
        ELSE [n \in DOMAIN docs |-> IF n \in end.present THEN end.docs[n] ELSE NoDoc]
-----------------------------------------------------------------------------
(* What it relies on: a document has a name, and no history is NoDoc.      *)

Listing(roots, docs) ==
    LET outs == {c.out : c \in ToSet(FlattenSeq(roots))}
    IN  /\ NoDoc \notin outs
        /\ roots \in Seq(Seq([name : DOMAIN docs, repo : BOOLEAN, out : outs]))
-----------------------------------------------------------------------------
\* Only the document of a repository that is gone is ever deleted, and only if that can be
\* told; an error costs no document but the one being written, and without one the documents
\* are exactly the histories of the repositories (git_history.py:93-98, 112-139).
HistoriesKept(roots, docs) ==
    LET new == Sync(roots, docs)
        repos == {c \in ToSet(FlattenSeq(roots)) : c.repo}
        gone == {n \in DOMAIN docs : docs[n] # NoDoc /\ new[n] = NoDoc}
        failing == {c \in repos : c.out \in {NoLog, Unwritable, Cut}}
        listed == \A i \in DOMAIN roots : roots[i] # <<>>
    IN  /\ gone \cap {c.name : c \in repos} = {}
        /\ gone # {} => listed /\ \A c \in failing : c.out = NoLog
        /\ \A n \in DOMAIN docs : new[n] \in {docs[n], NoDoc} \cup {c.out : c \in repos}
        /\ \A c \in failing : c.out = NoLog /\ (\A d \in repos : d.name = c.name => d = c)
                                  => new[c.name] = docs[c.name]
        /\ roots # <<>> /\ listed /\ failing = {} =>
              \A n \in DOMAIN docs :
                  LET mine == {c \in repos : c.name = n}
                  IN  IF mine = {} THEN new[n] = NoDoc ELSE \E c \in mine : new[n] = c.out
=============================================================================
