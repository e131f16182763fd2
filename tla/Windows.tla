------------------------------- MODULE Windows -------------------------------
(***************************************************************************)
(* Merging the parts of a text into overlapping chunks, _merge_splits of   *)
(* ingest/chunkers.py, by lengths.                                         *)
(*                                                                         *)
(* A part is [from, to, len, parts]: it holds the characters from..to of   *)
(* the document, counted without separators, len characters with them; of  *)
(* its own parts Chunkers knows.  A chunk is [from, to, len].              *)
(***************************************************************************)
EXTENDS Integers, Sequences, SequencesExt

CONSTANTS CHUNK_SIZE, CHUNK_OVERLAP

ASSUME WindowsAssumption ==     \* settings.py:104-157
    CHUNK_SIZE \in Nat \ {0} /\ CHUNK_OVERLAP \in 0..CHUNK_SIZE - 1

\* The characters of each number of splits with a separator after each.
Lengths(splits, sep) ==
    LET upto[n \in 0..Len(splits)] == IF n = 0 THEN 0 ELSE upto[n - 1] + splits[n].len + sep
    IN  upto

\* len(separator.join(splits))
Joined(splits, sep) == IF splits = <<>> THEN 0 ELSE Lengths(splits, sep)[Len(splits)] - sep

Chunk(splits, sep) ==
    [from |-> splits[1].from, to |-> Last(splits).to, len |-> Joined(splits, sep)]
-----------------------------------------------------------------------------
(* The loop; a state of it is [chunks, current, len], len being            *)
(* current_len.                                                            *)

\* Mutant: the separator after what is dropped is forgotten.
DropWithoutSeparator(st, sep) ==
    [st EXCEPT !.current = Tail(@), !.len = @ - Head(st.current).len]

Drop(st, sep) ==
    [st EXCEPT !.current = Tail(@),
               !.len = @ - Head(st.current).len - (IF Len(st.current) > 1 THEN sep ELSE 0)]

\* Drops from the front what goes beyond the overlap.
Overlap(st, sep) ==
    LET after[n \in 0..Len(st.current)] ==
            IF n = 0 THEN st
            ELSE LET prev == after[n - 1]
                 IN  IF prev.current # <<>> /\ prev.len > CHUNK_OVERLAP
                     THEN Drop(prev, sep) ELSE prev
    IN  after[Len(st.current)]

Add(st, split, sep) ==
    LET added == split.len + IF st.current # <<>> THEN sep ELSE 0
        full == st.current # <<>> /\ st.len + added > CHUNK_SIZE
        kept == IF full
                THEN Overlap([st EXCEPT !.chunks = Append(@, Chunk(st.current, sep))], sep)
                ELSE st
        current == Append(kept.current, split)
    IN  [chunks |-> kept.chunks, current |-> current,
         len |-> kept.len + split.len + IF Len(current) > 1 THEN sep ELSE 0]

Adds(splits, sep) ==
    LET after[n \in 0..Len(splits)] ==
            IF n = 0 THEN [chunks |-> <<>>, current |-> <<>>, len |-> 0]
            ELSE Add(after[n - 1], splits[n], sep)
    IN  after

MergeLoop(splits, sep) == Adds(splits, sep)[Len(splits)]

MergeSplits(splits, sep) ==
    LET end == MergeLoop(splits, sep)
    IN  IF end.current = <<>> THEN end.chunks ELSE Append(end.chunks, Chunk(end.current, sep))
-----------------------------------------------------------------------------
(* What it relies on.                                                      *)

\* Parts in order, without anything between them or empty ones; each fits a chunk.
Adjoining(parts) ==
    /\ parts \in Seq(ToSet(parts))
    /\ \A i \in 1..Len(parts) :
          /\ parts[i].from \in Int /\ parts[i].to \in Int /\ parts[i].from <= parts[i].to
          /\ parts[i].len \in Nat
    /\ \A i \in 1..Len(parts) - 1 : parts[i + 1].from = parts[i].to + 1

Mergeable(splits, sep) ==
    /\ splits # <<>> /\ Adjoining(splits) /\ sep \in Nat
    /\ \A i \in 1..Len(splits) : splits[i].len <= CHUNK_SIZE
-----------------------------------------------------------------------------
(* What it promises.                                                       *)

\* The chunks hold the characters from..to, all of them, in order, and each goes further than
\* the one before; one that is all overlap is the beginning of the next.
Covers(chunks, from, to) ==
    /\ chunks # <<>> /\ chunks[1].from = from /\ Last(chunks).to = to
    /\ \A i \in 1..Len(chunks) - 1 :
          /\ chunks[i + 1].from <= chunks[i].to + 1
          /\ chunks[i].from <= chunks[i + 1].from /\ chunks[i].to < chunks[i + 1].to

\* Parts that fit are merged without loss, the length that is kept of what is pending is
\* its length, and two chunks overlap in as many parts as fit CHUNK_OVERLAP and no more; an
\* overlap may bring a chunk that much beyond CHUNK_SIZE (chunkers.py:33-54).
MergeSound(splits, sep) ==
    LET chunks == MergeSplits(splits, sep)
        end == MergeLoop(splits, sep)
        first(c) == CHOOSE i \in DOMAIN splits : splits[i].from = c.from
        last(c) == CHOOSE i \in DOMAIN splits : splits[i].to = c.to
    IN  /\ Covers(chunks, splits[1].from, Last(splits).to)
        /\ end.len = Joined(end.current, sep)
        /\ \A i \in DOMAIN chunks :
              /\ chunks[i].len = Joined(SubSeq(splits, first(chunks[i]), last(chunks[i])), sep)
              /\ chunks[i].len <= CHUNK_SIZE + CHUNK_OVERLAP + sep
        /\ \A i \in 1..Len(chunks) - 1 :
              LET f == first(chunks[i + 1])
                  l == last(chunks[i])
              IN  /\ Joined(SubSeq(splits, f, l), sep) <= CHUNK_OVERLAP
                  /\ f > first(chunks[i]) => Joined(SubSeq(splits, f - 1, l), sep) > CHUNK_OVERLAP
=============================================================================
