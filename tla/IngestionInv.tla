---------------------------- MODULE IngestionInv ----------------------------
(***************************************************************************)
(* The inductive invariant of Ingestion behind its safety properties.      *)
(***************************************************************************)
EXTENDS IngestionProps

\* Qdrant has no vector of f and none on the way.
NoVectors(f) ==
    /\ PointsOf(f) = {}
    /\ \A n \in 1..Len(wal) : \A p \in wal[n].add : p.file # f

\* The local variables are set when they are used; the old version is out of
\* Qdrant before its rows go, and out of SQLite before the new one comes in.
JobOK ==
    /\ pc \in {"purgeRows", "hash", "read", "embed", "delVectors", "delRows", "register",
               "upsert", "extract", "entities", "rels", "link", "certify"}
          => job.file \in File
    /\ pc \in {"read", "embed", "delVectors", "delRows", "register", "upsert", "extract",
               "entities", "rels", "link", "certify"} => job.hash \in Hash
    /\ pc \in {"embed", "delVectors", "delRows", "register", "upsert", "extract",
               "entities", "rels", "link", "certify"} => job.text \in Content
    /\ pc \in {"embed", "register", "upsert", "extract", "entities", "rels", "link"}
          => NumChunks[job.text] > 0
    /\ pc \in {"purgeRows", "delRows", "register", "upsert"} => NoVectors(job.file)
    /\ pc \in {"purgeRows", "delRows"} => wal = <<>> \/ ChunkIdsOf(job.file) = {}
    /\ pc = "register" => ChunkIdsOf(job.file) = {}
    /\ pc \in {"upsert", "extract", "entities", "rels", "link"} =>
          /\ job.gen \in Gen
          /\ ChunkIdsOf(job.file) = Ids(job.gen, job.text)
    /\ pc \in {"rels", "link"} =>
          \A e \in Entity : job.ents[e] # None => mentions[job.file][e] # None

\* An operation in the log adds one whole version of a file that has no vectors and
\* no other addition pending, or drops all the ids of a file.
WholeVersion(op) ==
    /\ op.drop = {}
    /\ \E f \in File, c \in Content, g \in Gen :
          NumChunks[c] > 0 /\ op.add = Version(f, c, g)
WholeDelete(op) ==
    /\ op.add = {}
    /\ \E f \in File : op.drop = ChunkIdsOf(f) /\ ChunkIdsOf(f) # {}
LogOK ==
    /\ \A n \in 1..Len(wal) : WholeVersion(wal[n]) \/ WholeDelete(wal[n])
    /\ \A n \in 1..Len(wal) : \A p \in wal[n].add :
          /\ \A q \in points : q.file # p.file
          /\ \A m \in 1..Len(wal) : \A q \in wal[m].add : q.file = p.file => m = n

\* Graph rows of a file come with chunk rows.
GraphHasChunks ==
    \A f \in File :
        \/ \E e \in Entity : mentions[f][e] # None
        \/ \E r \in Rel : relationships[f][r] > 0
        => ChunkIdsOf(f) # {}

\* Past ensure_collection, or with anything in Qdrant, the schema is complete.
SchemaOK == pc \notin {"idle", "ensure"} \/ points # {} \/ wal # <<>> => SchemaReady

\* The files a scan of all their directories did not find.
Vanished == {f \in File \ files : Scanned(f)}

\* A run purges only files that have vanished and indexes only those it found.
LeftAlone ==
    /\ pc \in {"idle", "ensure", "purge", "next"} => job.file = None
    /\ pc = "purgeRows" => job.file \in stale
    /\ pc \notin {"idle", "ensure"} =>
          /\ stale \subseteq Vanished /\ todo \subseteq files
          /\ job.file \in files \cup stale \cup {None}

\* Once the clean-up begins, the vectors that replace the old ones are there.
EmbeddedFirst ==
    pc \in {"delVectors", "delRows", "register", "upsert", "extract", "entities", "rels", "link",
           "certify"} => NumChunks[job.text] = 0 \/ job.vectors = job.text

(***************************************************************************)
(* Behind the refinement: a file about to be certified is served and has   *)
(* no certificate, neither have files with vectors on their way, and text  *)
(* and hash agree unless the file changed between its two readings.        *)
(***************************************************************************)
InVersion(f, c) == \E g \in Gen : PointsOf(f) = Version(f, c, g)
Indexed == {"extract", "entities", "rels", "link", "certify"}

JobServed == pc \in Indexed =>
    \/ NumChunks[job.text] > 0 /\ wal = <<>> /\ InVersion(job.file, job.text)
    \/ NumChunks[job.text] = 0 /\ NoVectors(job.file)
JobUncertified == pc \in Indexed \cup {"register", "upsert"} => fingerprints[job.file] = None
LogUncertified == \A n \in 1..Len(wal) : \A p \in wal[n].add : fingerprints[p.file] = None
HashOfText == ~EditsWhileReading =>
    /\ pc = "read" => disk[job.file] = job.hash
    /\ pc \in Indexed \cup {"embed", "delVectors", "delRows", "register", "upsert"}
          => job.hash = job.text

ServedInv == JobServed /\ JobUncertified /\ LogUncertified /\ HashOfText

(***************************************************************************)
(* Behind the clean runs, as long as no content returns: a file whose      *)
(* fingerprint is that of its content is indexed as it is, unless it is    *)
(* stranded; a file that is being worked on has no such fingerprint; and   *)
(* a run that nothing disturbed leaves none behind that it found, and      *)
(* nothing of those that have vanished.                                    *)
(***************************************************************************)
\* What Qdrant holds of f, and will, is of the content on disk; and, unless f is stranded,
\* all of it is there to stay.
Current(f) ==
    /\ \A p \in PointsOf(f) : p.text = disk[f]
    /\ \A n \in 1..Len(wal) : \A p \in wal[n].add : p.file # f
Intact(f) ==
    /\ disk[f] # None => NumChunks[disk[f]] = 0 \/ PointsOf(f) # {}
    /\ \A n \in 1..Len(wal) : \A p \in PointsOf(f) : p.id \notin wal[n].drop
Reflects(f) == Current(f) /\ (Stranded(f) \/ Intact(f))

AfterRead == Indexed \cup {"embed", "delVectors", "delRows", "register", "upsert"}

SeenOK ==
    /\ \A f \in File : {disk[f], fingerprints[f]} \subseteq seen[f] \cup {None}
    /\ pc \in AfterRead \cup {"read"} => job.hash \in seen[job.file]
CertifiedReflects ==
    \A f \in File : fingerprints[f] # None /\ fingerprints[f] = disk[f] => Reflects(f)
WorkIsDue ==
    pc \in AfterRead \cup {"read"} =>
        fingerprints[job.file] = None \/ fingerprints[job.file] # disk[job.file]
TextIsNewer == pc \in AfterRead /\ job.hash = disk[job.file] => job.text = disk[job.file]
RunCovers ==
    /\ exit = "ok" => pc = "idle"
    /\ pc \in {"idle", "ensure"} => stale = {} /\ todo = {} /\ ~failed
    /\ pc \notin {"purge", "purgeRows"} => stale = {}
    /\ settled /\ pc \in AfterRead => job.text = disk[job.file]
    /\ settled => \A f \in files : disk[f] # None
    /\ settled /\ ~failed /\ (pc \notin {"idle", "ensure"} \/ exit = "ok") =>
          /\ \A f \in files : Reflects(f) \/ f \in todo \/ job.file = f
          /\ \A f \in Vanished : NoVectors(f) \/ f \in stale

CleanInv == SeenOK /\ CertifiedReflects /\ WorkIsDue /\ TextIsNewer /\ RunCovers

(***************************************************************************)
(* Behind the certificates: what has been extracted and what of it has     *)
(* been written so far, unless a batch failed.                             *)
(***************************************************************************)
\* The replies of the first n batches of c, merged.
Acc(c) ==
    LET acc[n \in 0..Len(Batches[c])] ==
            IF n = 0 THEN NoReply ELSE MergeReply(acc[n - 1], Reply[Batches[c][n]])
    IN  acc
Extracted(x) == job.ents = x.ents /\ job.rels = x.rels

JobExtract ==
    /\ pc \in {"hash", "read", "embed", "delVectors", "delRows", "register", "upsert"} =>
          Extracted(NoReply) /\ job.batch = 1 /\ ~job.had_failure
    /\ pc = "extract" => job.file \notin HistoryDoc
    /\ pc = "extract" /\ ~job.had_failure =>
          job.batch - 1 \in 0..Len(Batches[job.text]) /\ Extracted(Acc(job.text)[job.batch - 1])
    /\ pc \in {"entities", "rels", "link", "certify"} /\ ~job.had_failure =>
          Extracted(Extraction(job.file, job.text))

Rows(f, ments, rels, lks) == mentions[f] = ments /\ relationships[f] = rels /\ LinksOf(f) = lks

JobRows ==
    /\ pc \in {"register", "upsert", "extract", "entities"} =>
          Rows(job.file, NoReply.ents, NoReply.rels, {})
    /\ pc = "rels" => Rows(job.file, job.ents, NoReply.rels, {})
    /\ pc = "link" => Rows(job.file, job.ents, KeptRels, {})
    /\ pc = "certify" /\ NumChunks[job.text] = 0 =>
          Rows(job.file, NoReply.ents, NoReply.rels, {}) /\ ChunkIdsOf(job.file) = {}
    /\ pc = "certify" /\ NumChunks[job.text] # 0 =>
          /\ Rows(job.file, job.ents, KeptRels, LinkPairs)
          /\ job.gen \in Gen /\ ChunkIdsOf(job.file) = Ids(job.gen, job.text)

CompleteInv == JobExtract /\ JobRows /\ CertifiedIsComplete

IInv ==
    /\ TypeOK
    /\ StoreInv
    /\ JobOK
    /\ NoOrphanVectors
    /\ LogOK
    /\ AllOrNothing
    /\ GraphHasChunks
=============================================================================
