--------------------------- MODULE IngestionProps ---------------------------
(***************************************************************************)
(* What the indexer promises, as properties of Ingestion.                  *)
(***************************************************************************)
EXTENDS Ingestion

PointsOf(f) == {p \in points : p.file = f}
LinksOf(f) == {l \in links : l[1] \in ChunkIdsOf(f)}
Scanned(f) == DirsOf[f] \cap unscanned = {}

\* The result of extracting every batch of content c of file f.
Extraction(f, c) ==
    LET acc[n \in 0..Len(Batches[c])] ==
            IF n = 0 THEN NoReply ELSE MergeReply(acc[n - 1], Reply[Batches[c][n]])
    IN  IF f \in HistoryDoc THEN NoReply ELSE acc[Len(Batches[c])]

\* SQLite holds exactly what indexing content c of f from nothing writes.
GraphComplete(f, c) ==
    LET x == Extraction(f, c)
    IN  /\ mentions[f] = x.ents
        /\ relationships[f] =
              [r \in Rel |-> IF x.ents[r[1]] # None /\ x.ents[r[2]] # None THEN x.rels[r] ELSE 0]
        /\ \E g \in Gen :
              /\ ChunkIdsOf(f) = Ids(g, c)
              /\ LinksOf(f) = {<<<<g, m[1]>>, m[2]>> :
                                  m \in {n \in Matches[c] : x.ents[n[2]] # None}}
-----------------------------------------------------------------------------
\* The variables hold values the program's own can (index_documents.py:301-343,
\* 407-453).
TypeOK ==
    /\ StoreTypeOK
    /\ disk \in [File -> Content \cup {None}]
    /\ seen \in [File -> SUBSET Content]
    /\ edits \in 0..MaxEdits /\ faults \in 0..MaxFaults
    /\ schema \subseteq {SchemaSteps[i] : i \in 1..Len(SchemaSteps)}
    /\ points \subseteq Point
    /\ wal \in Seq(Op)
    /\ pc \in PC
    /\ torn \subseteq File /\ files \subseteq File
    /\ todo \subseteq File /\ stale \subseteq File /\ unscanned \subseteq Dir
    /\ failed \in BOOLEAN /\ settled \in BOOLEAN
    /\ exit \in {"none", "ok", "error"}
    /\ job \in Job

\* Every vector in Qdrant, and every one an operation still in its log will
\* add, has its id registered in SQLite under its file: whatever call failed,
\* timed out or was cut short by a kill, the next run can delete it
\* (index_documents.py:246-248, 274-276).
NoOrphanVectors ==
    /\ \A p \in points : [id |-> p.id, file |-> p.file] \in chunks
    /\ \A n \in 1..Len(wal) : \A p \in wal[n].add : [id |-> p.id, file |-> p.file] \in chunks

\* A search sees all the chunks of one version of a file or none of them:
\* never a part, never two versions side by side.
AllOrNothing ==
    \A f \in File :
        \/ PointsOf(f) = {}
        \/ \E c \in Content, g \in Gen : PointsOf(f) = Version(f, c, g)

\* No row or vector of a file escapes list_all_paths, so the leftovers of an
\* indexing that failed partway are still cleaned up when the file is deleted
\* (record_store.py:206-208).
LeftoversTracked ==
    \A f \in File :
        \/ PointsOf(f) # {}
        \/ \E e \in Entity : mentions[f][e] # None
        \/ \E r \in Rel : relationships[f][r] > 0
        => f \in TrackedPaths

\* A fingerprint vouches for the graph: the file's chunks, mentions, links and
\* relationship weights are those of one content indexed once from nothing, no
\* matter how many failed attempts, cached batches and earlier versions came
\* before; the vectors, if there, are of the same content.  That content is the
\* fingerprinted one unless the file changed between being hashed and read.
CertifiedIsComplete ==
    \A f \in File : fingerprints[f] # None =>
        \E c \in Content :
            /\ GraphComplete(f, c)
            /\ \A p \in PointsOf(f) : p.text = c
            /\ EditsWhileReading \/ c = fingerprints[f]

\* The collection and both payload indexes exist before the first vector, even
\* if a run was cut short between creating them (index_documents.py:172-198).
SchemaBeforePoints ==
    points # {} => \A i \in 1..Len(SchemaSteps) : SchemaSteps[i] \in schema

\* No insert of the indexer ever meets a missing foreign key.
ForeignKeysHold ==
    /\ pc = "rels" => \A r \in Rel : KeptRels[r] > 0 =>
                          entities[r[1]] # None /\ entities[r[2]] # None
    /\ pc = "link" => \A l \in LinkPairs :
                          entities[l[2]] # None /\ \E c \in chunks : c.id = l[1]

\* After a run that exits 0, with no edit since it listed the files, every file it
\* found has its vectors in Qdrant, if it has text at all (README.md:75-79).
CleanRunSearchable ==
    exit = "ok" /\ settled =>
        \A f \in files : NumChunks[disk[f]] = 0 \/ PointsOf(f) # {}

\* What is wrong with that: a file whose deletion ended between the two stores, and whose
\* content is again, or still, the one of the fingerprint that was left, is skipped.
Stranded(f) == f \in torn /\ fingerprints[f] # None /\ fingerprints[f] = disk[f]

\* Nothing else is: whatever failed before, stranded files are the only ones a clean run
\* found and left without their vectors.  A file that is there and was not found, since
\* its resolve or stat failed, is taken for deleted and has none (index_documents.py:77-80,
\* 91-95); the next run that finds it indexes it.
OnlyStrandedMissing ==
    exit = "ok" /\ settled =>
        \A f \in files : NumChunks[disk[f]] = 0 \/ PointsOf(f) # {} \/ Stranded(f)

\* After such a run no vector is of another content than the one on disk, and none is of a
\* file that was not found where everything was scanned.
CleanRunCurrent ==
    exit = "ok" /\ settled =>
        \A f \in File : f \in files \/ Scanned(f) =>
            \A p \in PointsOf(f) : f \in files /\ p.text = disk[f]
-----------------------------------------------------------------------------
\* What SQLite holds of f stays as it is.
RowsKept(f) ==
    /\ ChunkIdsOf(f)' = ChunkIdsOf(f)
    /\ mentions'[f] = mentions[f] /\ relationships'[f] = relationships[f]
    /\ fingerprints'[f] = fingerprints[f] /\ extraction_cache'[f] = extraction_cache[f]

\* A run leaves everything stored for a file alone if it did not find it and it is under a
\* directory that could not be scanned (index_documents.py:376-382).
KeepsUnscanned ==
    [][\A f \in File :
         pc \notin {"idle", "ensure"} /\ pc' # "idle" /\ ~Scanned(f) /\ f \notin files =>
            /\ RowsKept(f)
            /\ wal = <<>> => PointsOf(f)' = PointsOf(f)]_vars

\* The vectors of f that no deletion already accepted will take.
Lasting(f) == {p \in PointsOf(f) : \A n \in 1..Len(wal) : p.id \notin wal[n].drop}

\* The run knows what is to become of f: it is gone, as far as a scan of all its
\* directories tells, or its new text is embedded, or has nothing to embed.
Replaceable(f) ==
    \/ f \notin files /\ Scanned(f)
    \/ /\ job.file = f /\ job.text # None
       /\ NumChunks[job.text] = 0 \/ job.vectors = job.text

\* Until then no step takes anything of its indexed version away, or sends Qdrant a deletion
\* that will, whatever fails and whatever happens to other files: a file that cannot be
\* read and an Ollama that cannot be reached leave the version as searchable as it was
\* (index_documents.py:304-306).  It does not say that the new version always follows: an
\* upsert that Qdrant refuses after the deletion leaves nothing until a later run.
VersionStays ==
    [][\A f \in File :
         pc \notin {"idle", "ensure"} /\ ~Replaceable(f) =>
            RowsKept(f) /\ Lasting(f) \subseteq Lasting(f)']_vars

(***************************************************************************)
(* Refinement.  A file is served in version c when its points are exactly  *)
(* the chunks of one indexing of c; other non-empty sets of points map to  *)
(* no version, so a torn file would break the refinement.                  *)
(***************************************************************************)
Served(f) ==
    LET versions == {c \in Content : \E g \in Gen : PointsOf(f) = Version(f, c, g)}
    IN  IF PointsOf(f) = {} THEN None
        ELSE IF versions = {} THEN PointsOf(f) ELSE CHOOSE c \in versions : TRUE

SearchView == INSTANCE DocumentIndex WITH
    Texts <- {c \in Content : NumChunks[c] > 0},
    Racy <- EditsWhileReading,
    served <- [f \in File |-> Served(f)],
    certified <- fingerprints

\* Ingestion implements DocumentIndex, through failures, kills and late writes.
ImplementsDocumentIndex == SearchView!DSpec
-----------------------------------------------------------------------------
\* The index mirrors the disk.  Files that vanished together with every other file of
\* an index path are excepted: an empty index path counts as offline.
Mirrored(f) ==
    IF disk[f] # None
    THEN /\ fingerprints[f] = disk[f] /\ GraphComplete(f, disk[f])
         /\ \E g \in Gen : PointsOf(f) = Version(f, disk[f], g)
    ELSE \/ f \notin TrackedPaths /\ PointsOf(f) = {}
         \/ \E r \in Root \cap DirsOf[f] : \A g \in File : r \in DirsOf[g] => disk[g] = None

\* Once edits and failures stop, repeated runs bring the index in line with the
\* disk, whatever state the failures left behind, and keep it there: for all files
\* but those that are stranded, which no run repairs.
Converges == <>[](\A f \in File : Mirrored(f) \/ Stranded(f))
=============================================================================
