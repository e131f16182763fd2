------------------------------- MODULE Chunkers -------------------------------
(***************************************************************************)
(* Cutting documents into chunks, ingest/chunkers.py, by lengths: nothing  *)
(* in it depends on what the characters are beyond where the separators,   *)
(* the definitions and the fences are.                                     *)
(*                                                                         *)
(* A text is [from, to, len, parts]: it holds the characters from..to of   *)
(* the document, counted without separators, len characters with them, and *)
(* parts is what splitting it at its level's separator gives; at the last  *)
(* level, "", the parts are single characters.  Empty parts, which the     *)
(* code drops, are left out of it.  A chunk is [from, to, len].            *)
(***************************************************************************)
EXTENDS Windows

CONSTANTS
    MAX_MD_CHUNK,
    SepLen              \* lengths of the separators but the last, which is 0

ASSUME ChunkersAssumption ==
    /\ MAX_MD_CHUNK \in Nat /\ MAX_MD_CHUNK >= CHUNK_SIZE      \* settings.py:104-157
    /\ SepLen \in Seq(Nat) /\ SepLen # <<>>

Levels == Len(SepLen) + 1
Sep(level) == IF level < Levels THEN SepLen[level] ELSE 0

(***************************************************************************)
(* _recursive_split: at the first separator the text has; good parts are   *)
(* merged, the ones too long split further.                                *)
(***************************************************************************)
\* The texts that splitting a text at every level from this one on comes to.
Subtexts(text, level) ==
    LET at[l \in level..Levels + 1] ==
            IF l = level THEN {text} ELSE UNION {ToSet(t.parts) : t \in at[l - 1]}
    IN  at

\* good_splits are merged.
Flushed(st, level) ==
    IF st.good = <<>> THEN st.result ELSE st.result \o MergeSplits(st.good, Sep(level))

\* One part; cut has the chunks of those that are too long.
AddPart(st, part, level, cut) ==
    IF part.len > CHUNK_SIZE
    THEN [good |-> <<>>, result |-> Flushed(st, level) \o cut[part]]
    ELSE [st EXCEPT !.good = Append(@, part)]

Split(text, level, cut) ==
    LET after[n \in 0..Len(text.parts)] ==
            IF n = 0 THEN [good |-> <<>>, result |-> <<>>]
            ELSE AddPart(after[n - 1], text.parts[n], level, cut)
    IN  Flushed(after[Len(text.parts)], level)

\* One level of the recursion: a text without its separator is left to the next one.
CutAt(texts, level, below) ==
    [t \in texts |->
        IF level < Levels /\ Len(t.parts) = 1 /\ t.parts[1].len = t.len
        THEN below[t.parts[1]] ELSE Split(t, level, below)]

Cuts(text, level) ==
    LET cut[l \in level..Levels + 1] ==
            IF l > Levels THEN [t \in {} |-> <<>>]
            ELSE CutAt(Subtexts(text, level)[l], l, cut[l + 1])
    IN  cut

RecursiveSplit(text, level) == Cuts(text, level)[level][text]

(***************************************************************************)
(* Markdown.  A line is [header, mark, info]: mark is 0, or the length of  *)
(* its fence of backticks, or minus that of tildes; info says what follows *)
(* it: "none", "text" or "tick", a text with a backtick.                   *)
(***************************************************************************)
Opens(line) == line.mark # 0 /\ ~(line.mark > 0 /\ line.info = "tick")
Closes(line, fence) ==
    /\ line.info = "none"
    /\ IF fence > 0 THEN line.mark >= fence ELSE line.mark <= fence

\* One line of _split_markdown_sections: fence is the mark of the fence that is open, or 0,
\* cuts the lines before which it has cut.
ScanLine(st, line, i) ==
    IF line.mark # 0
    THEN [st EXCEPT !.fence = IF @ = 0 THEN (IF Opens(line) THEN line.mark ELSE 0)
                              ELSE IF Closes(line, @) THEN 0 ELSE @]
    ELSE IF st.fence = 0 /\ line.header /\ i > 1
         THEN [st EXCEPT !.cuts = @ \cup {i}]
         ELSE st

\* After each number of lines.
Scans(lines) ==
    LET after[n \in 0..Len(lines)] ==
            IF n = 0 THEN [fence |-> 0, cuts |-> {}] ELSE ScanLine(after[n - 1], lines[n], n)
    IN  after

SectionStarts(lines) == Scans(lines)[Len(lines)].cuts

(***************************************************************************)
(* _split_oversized_markdown_section, of paragraphs given like splits: the *)
(* ones too long to stand in a chunk are cut like other text.  A section   *)
(* that fits is left whole.                                                *)
(***************************************************************************)
FlushedBuffer(st) == IF st.buf = <<>> THEN st.chunks ELSE Append(st.chunks, Chunk(st.buf, 2))

\* One paragraph; len is buf_len.
AddParagraph(st, p) ==
    LET added == p.len + IF st.buf # <<>> THEN 2 ELSE 0
        kept == IF st.buf # <<>> /\ st.len + added > MAX_MD_CHUNK
                THEN [chunks |-> FlushedBuffer(st), buf |-> <<>>, len |-> 0] ELSE st
    IN  IF p.len > MAX_MD_CHUNK
        THEN [kept EXCEPT !.chunks = @ \o RecursiveSplit(p, 2)]
        ELSE [kept EXCEPT !.buf = Append(@, p), !.len = @ + p.len + IF @ # 0 THEN 2 ELSE 0]

\* After each number of paragraphs.
Paragraphs(paragraphs) ==
    LET after[n \in 0..Len(paragraphs)] ==
            IF n = 0 THEN [chunks |-> <<>>, buf |-> <<>>, len |-> 0]
            ELSE AddParagraph(after[n - 1], paragraphs[n])
    IN  after

OversizedSection(paragraphs) ==
    IF Joined(paragraphs, 2) <= MAX_MD_CHUNK THEN <<Chunk(paragraphs, 2)>>
    ELSE FlushedBuffer(Paragraphs(paragraphs)[Len(paragraphs)])

(***************************************************************************)
(* chunk_python.  A node is [first, last, kind], kind "import", "def" or   *)
(* "other"; blank is the set of lines with nothing on them.  A chunk is    *)
(* [lines, def]; that a long one is cut further, keeping its tag, is       *)
(* RecursiveSplit again.                                                   *)
(***************************************************************************)
Emit(chunks, from, to, tag, blank) ==
    IF (from..to) \ blank = {} THEN chunks
    ELSE Append(chunks, [lines |-> from..to, def |-> tag])

\* Node i of the module, and what is between the one before and it.
AddNode(st, n, i, blank) ==
    LET gap == IF n.first > st.end + 1
               THEN Emit(st.chunks, st.end + 1, n.first - 1, 0, blank) ELSE st.chunks
    IN  [end |-> n.last,
         chunks |-> IF n.kind = "import" THEN gap
                    ELSE Emit(gap, n.first, n.last, IF n.kind = "def" THEN i ELSE 0, blank)]

\* After each number of nodes.
Bodies(nodes, blank) ==
    LET after[n \in 0..Len(nodes)] ==
            IF n = 0 THEN [end |-> 0, chunks |-> <<>>]
            ELSE AddNode(after[n - 1], nodes[n], n, blank)
    IN  after

PythonChunks(nodes, total, blank) ==
    LET body == Bodies(nodes, blank)[Len(nodes)]
        all == IF body.end < total
               THEN Emit(body.chunks, body.end + 1, total, 0, blank) ELSE body.chunks
    IN  IF all = <<>> THEN Emit(<<>>, 1, total, 0, blank) ELSE all
-----------------------------------------------------------------------------
(* What they rely on.                                                      *)

\* A text is its parts in order, at every level: it is not made of separators only.
Text(text, level) ==
    LET at == Subtexts(text, level)
    IN  \A l \in level..Levels : \A t \in at[l] :
            /\ t.parts # <<>> /\ Adjoining(t.parts)
            /\ t.from = t.parts[1].from /\ t.to = Last(t.parts).to
            /\ l = Levels => \A i \in 1..Len(t.parts) : t.parts[i].len = 1

\* Empty paragraphs are no texts, but there may be some between others.
Section(paragraphs) ==
    /\ paragraphs # <<>> /\ paragraphs \in Seq(ToSet(paragraphs))
    /\ \A i \in 1..Len(paragraphs) :
          LET p == paragraphs[i]
          IN  /\ p.from \in Int /\ p.to \in Int /\ p.from <= p.to + 1 /\ p.len \in Nat
              /\ p.len > MAX_MD_CHUNK => Text(p, 2)
    /\ \A i \in 1..Len(paragraphs) - 1 : paragraphs[i + 1].from = paragraphs[i].to + 1

MarkdownLines(lines) ==
    lines \in Seq([header : BOOLEAN, mark : Int, info : {"none", "text", "tick"}])

\* Statements are in order, two of them possibly on one line, and neither begin nor end with a
\* line that is blank.
Module(nodes, total, blank) ==
    /\ total \in Nat
    /\ nodes \in Seq([first : 1..total, last : 1..total, kind : {"import", "def", "other"}])
    /\ \A i \in 1..Len(nodes) : /\ nodes[i].first <= nodes[i].last
                                /\ {nodes[i].first, nodes[i].last} \cap blank = {}
    /\ \A i \in 1..Len(nodes) - 1 : nodes[i].last <= nodes[i + 1].first
-----------------------------------------------------------------------------
(* What they promise.                                                      *)

\* Whatever a text is made of, all of it gets into chunks, none of them longer than a
\* window and its overlap (chunkers.py:57-82).
SplitSound(text) ==
    LET chunks == RecursiveSplit(text, 1)
    IN  /\ Covers(chunks, text.from, text.to)
        /\ \A i \in DOMAIN chunks :
              chunks[i].len <= CHUNK_SIZE + CHUNK_OVERLAP + Max({SepLen[l] : l \in DOMAIN SepLen})

\* "recursive character splitting with a 500-character window" (chunkers.py:10-11).
FitsWindow(text) ==
    \A i \in DOMAIN RecursiveSplit(text, 1) : RecursiveSplit(text, 1)[i].len <= CHUNK_SIZE

\* A document is cut at every header but those in a fenced block, which reaches from the
\* line that opens it to the first that closes it, or to the end (chunkers.py:152-160).
SectionsSound(lines) ==
    LET N == Len(lines)
        opener(i) == Min({j \in i..N : Opens(lines[j])} \cup {N + 1})
        closer(o) == Min({j \in o + 1..N : Closes(lines[j], lines[o].mark)} \cup {N + 1})
        closed[n \in 0..N] == IF n = 0 THEN 0 ELSE closer(opener(closed[n - 1] + 1))
        fenced == UNION {opener(closed[n - 1] + 1)..closed[n] : n \in 1..N}
    IN  SectionStarts(lines) =
            {i \in 2..N : lines[i].header /\ lines[i].mark = 0 /\ i \notin fenced}

\* A section is cut between paragraphs, and within those that are too long; a chunk that
\* does not begin with an empty paragraph fits (chunkers.py:186-213).
SectionSound(paragraphs) ==
    LET chunks == OversizedSection(paragraphs)
        long(c) == \E p \in ToSet(paragraphs) :
                       p.len > MAX_MD_CHUNK /\ p.from <= c.from /\ c.to <= p.to
        blank(c) == \E p \in ToSet(paragraphs) : p.len = 0 /\ p.from = c.from
    IN  /\ \A n \in paragraphs[1].from..Last(paragraphs).to :
              \E i \in DOMAIN chunks : n \in chunks[i].from..chunks[i].to
        /\ \A i \in DOMAIN chunks :
              long(chunks[i]) \/ blank(chunks[i]) \/ chunks[i].len <= MAX_MD_CHUNK

\* Every line of code but the imports gets into a chunk, once and in order, unless two nodes
\* share it; the lines of a definition are tagged with it (chunkers.py:96-141).
PythonSound(nodes, total, blank) ==
    LET chunks == PythonChunks(nodes, total, blank)
        of(l) == {i \in DOMAIN nodes : l \in nodes[i].first..nodes[i].last}
        in(l) == {c \in DOMAIN chunks : l \in chunks[c].lines}
        imports(l) == of(l) # {} /\ \A i \in of(l) : nodes[i].kind = "import"
    IN  \/ /\ \A l \in (1..total) \ blank : IF imports(l) THEN in(l) = {} ELSE in(l) # {}
           /\ \A l \in 1..total : Cardinality(of(l)) <= 1 => Cardinality(in(l)) <= 1
           /\ \A i \in DOMAIN nodes : nodes[i].kind = "def" =>
                  \E c \in DOMAIN chunks :
                      chunks[c].def = i /\ chunks[c].lines = nodes[i].first..nodes[i].last
        \/ \A l \in (1..total) \ blank : imports(l)
=============================================================================
