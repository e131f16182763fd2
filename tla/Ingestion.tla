------------------------------ MODULE Ingestion ------------------------------
(***************************************************************************)
(* The indexer, ingest/index_documents.py: runs of main() that bring the   *)
(* Qdrant collection and the SQLite graph store in line with the files on  *)
(* disk.  One action per remote call, transaction or file access, so that  *)
(* edits, failures and kills fall between any two of them.  One indexer    *)
(* runs at a time.                                                         *)
(*                                                                         *)
(* Environment.  Files are edited at any time.  A call may fail in the     *)
(* ways Faults lists; the process may be killed.  Qdrant applies its       *)
(* write-ahead log in order, and a call answers once its own operation is  *)
(* applied; a call that timed out may leave its operation in the log.      *)
(***************************************************************************)
EXTENDS GraphStore, Sequences

CONSTANTS
    HistoryDoc,     \* the files of GIT_HISTORY_DIR: embedded, never extracted
    Dir, Root,      \* directories, and those that are index paths
    DirOf, DirsOf,  \* the directory a file is in, and all those it is under
    NumChunks,      \* by content: number of chunks
    Batches,        \* by content: the extraction requests of its batches
    Reply,          \* by request: the reply, deterministic at temperature 0
    Matches,        \* by content: <<i, e>> where chunk i names entity e
    Faults,         \* the kinds of failure that may occur
    MaxFaults,      \* bound: number of failures
    MaxEdits,       \* bound: number of edits
    Reverts,        \* may a file return to a content it had before?
    EditsWhileReading   \* may a file change between being hashed and read?

Content == Hash     \* contents and their SHA-256 digests are one to one
NoReply == [ents |-> [e \in Entity |-> None], rels |-> [r \in Rel |-> 0]]
FaultKinds == {"crash", "qdrant", "timeout", "sqlite", "embed", "extract", "unreadable"}

ASSUME IngestionAssumption ==
    /\ HistoryDoc \subseteq File /\ Root \subseteq Dir
    /\ DirsOf \in [File -> SUBSET Dir] /\ \A f \in File : DirOf[f] \in DirsOf[f]
    /\ NumChunks \in [Content -> Nat]
    /\ Batches \in [Content -> Seq(Prompt)]
    /\ \A c \in Content : Len(Batches[c]) <= MaxBatches /\ (NumChunks[c] = 0 => Len(Batches[c]) = 0)
    /\ Reply \in [Prompt -> [ents : [Entity -> Mention \cup {None}], rels : [Rel -> Nat]]]
    /\ Matches \in [Content -> SUBSET ((Nat \ {0}) \X Entity)]
    /\ \A c \in Content : \A m \in Matches[c] : m[1] <= NumChunks[c]
    /\ Faults \subseteq FaultKinds
    /\ MaxFaults \in Nat /\ MaxEdits \in Nat
    /\ Reverts \in BOOLEAN /\ EditsWhileReading \in BOOLEAN
    /\ None \notin File /\ None \notin Gen /\ Gen # {}

VARIABLES
    disk,           \* the content of each file, None if it is not there
    seen,           \* the contents a file has had (kept only if ~Reverts)
    edits, faults,  \* counts of edits and of failures
    schema,         \* Qdrant: the collection and its payload indexes
    points,         \* Qdrant: points with their payload
    wal,            \* Qdrant: operations accepted but not yet applied
    torn,           \* history: files whose deletion from Qdrant was begun, and whose
                    \* rows in SQLite are still there
    pc,             \* where main() is
    files,          \* the files the walk found
    todo, stale,    \* files left to index, and left to purge
    unscanned,      \* directories the walk could not vouch for
    failed,         \* counts["failed"] > 0
    exit,           \* how the last run ended
    settled,        \* no edit since the run listed the files
    job             \* the local variables of _index_file and its callees

envVars == <<disk, seen, edits>>
qdrantVars == <<schema, points, wal, torn>>
runVars == <<files, todo, stale, unscanned, failed, exit, settled>>
vars == <<storeVars, envVars, faults, qdrantVars, pc, runVars, job>>

Point == [id : ChunkId, file : File, text : Content]
Op == [add : SUBSET Point, drop : SUBSET ChunkId]
SchemaSteps == <<"collection", "def_name", "filepath">>
PC == {"idle", "ensure", "purge", "purgeRows", "next", "hash", "read", "embed",
       "delVectors", "delRows", "register", "upsert", "extract", "entities",
       "rels", "link", "certify"}

Job == [file : File \cup {None}, hash : Hash \cup {None}, text : Content \cup {None},
        vectors : Content \cup {None}, gen : Gen \cup {None}, batch : Nat \ {0},
        had_failure : BOOLEAN,
        ents : [Entity -> Mention \cup {None}], rels : [Rel -> Nat]]
JobFor(f) == [file |-> f, hash |-> None, text |-> None, vectors |-> None, gen |-> None,
              batch |-> 1, had_failure |-> FALSE, ents |-> NoReply.ents, rels |-> NoReply.rels]
NoJob == JobFor(None)

Init ==
    /\ StoreInit
    /\ disk \in [File -> Content \cup {None}]
    /\ seen = [f \in File |-> IF Reverts THEN {} ELSE {disk[f]} \ {None}]
    /\ edits = 0 /\ faults = 0
    /\ schema = {} /\ points = {} /\ wal = <<>> /\ torn = {}
    /\ pc = "idle" /\ files = {} /\ todo = {} /\ stale = {} /\ unscanned = {}
    /\ failed = FALSE /\ exit = "none" /\ settled = FALSE
    /\ job = NoJob
-----------------------------------------------------------------------------
(* The environment.                                                        *)

\* Someone writes, creates or removes a file.
Edit(f, c) ==
    /\ edits < MaxEdits /\ disk[f] # c
    /\ Reverts \/ c \notin seen[f]
    /\ EditsWhileReading \/ ~(pc = "read" /\ job.file = f)
    /\ disk' = [disk EXCEPT ![f] = c]
    /\ seen' = IF Reverts THEN seen ELSE [seen EXCEPT ![f] = @ \cup ({c} \ {None})]
    /\ edits' = edits + 1 /\ settled' = FALSE
    /\ UNCHANGED <<storeVars, faults, qdrantVars, pc, files, todo, stale, unscanned, failed, exit, job>>

Apply(op, pts) == {p \in pts : p.id \notin op.drop} \cup op.add
Upsert(pts) == [add |-> pts, drop |-> {}]
Delete(ids) == [add |-> {}, drop |-> ids]

\* Qdrant applies an operation whose caller has given up on it.
ApplyLate ==
    /\ wal # <<>>
    /\ points' = Apply(Head(wal), points)
    /\ wal' = Tail(wal)
    /\ UNCHANGED <<storeVars, envVars, faults, schema, torn, pc, runVars, job>>

\* A successful Qdrant write: everything accepted before it has been applied.
Call(op) ==
    /\ wal = <<>>
    /\ points' = Apply(op, points)
    /\ UNCHANGED <<schema, wal>>

MayFail(kind) == kind \in Faults /\ faults < MaxFaults

\* The process is killed; what is in SQLite and in Qdrant stays.
Crash ==
    /\ MayFail("crash") /\ faults' = faults + 1
    /\ pc # "idle" /\ pc' = "idle" /\ exit' = "error"
    /\ files' = {} /\ todo' = {} /\ stale' = {} /\ unscanned' = {}
    /\ failed' = FALSE /\ settled' = FALSE /\ job' = NoJob
    /\ UNCHANGED <<storeVars, envVars, qdrantVars>>

-----------------------------------------------------------------------------
(* An exception.  In _index_file main() counts a failed file and goes on;  *)
(* in ensure_collection and in the purge loop it ends the run.             *)

\* Mutant: failed files are not counted.
NextFileSilently(outcome) ==
    /\ pc' = "next" /\ job' = NoJob
    /\ UNCHANGED runVars

NextFileAfter(outcome) ==
    /\ pc' = "next" /\ job' = NoJob
    /\ failed' = (failed \/ outcome = "failed")
    /\ UNCHANGED <<files, todo, stale, unscanned, exit, settled>>

Raise ==
    IF pc \in {"ensure", "purge", "purgeRows"}
    THEN /\ pc' = "idle" /\ exit' = "error"
         /\ files' = {} /\ todo' = {} /\ stale' = {} /\ unscanned' = {}
         /\ failed' = FALSE /\ settled' = FALSE /\ job' = NoJob
    ELSE NextFileAfter("failed")

\* Mutant: relationships are not filtered.
AllRels == job.rels

\* The relationships kept: both endpoints were extracted (_normalize_relationships).
KeptRels == [r \in Rel |-> IF job.ents[r[1]] # None /\ job.ents[r[2]] # None
                           THEN job.rels[r] ELSE 0]
\* _match_entity_chunks
LinkPairs == {<<<<job.gen, m[1]>>, m[2]>> :
                m \in {n \in Matches[job.text] : job.ents[n[2]] # None}}

\* What each step may run into.  The steps of extract handle their own.
FaultsAt ==
    CASE pc = "ensure" -> {"sqlite", "qdrant"}
      [] pc \in {"purge", "delVectors"} -> {"sqlite", "qdrant"}
      [] pc \in {"purgeRows", "delRows", "register", "entities"} -> {"sqlite"}
      [] pc = "hash" -> {"sqlite", "unreadable"}
      [] pc = "read" -> {"unreadable"}
      [] pc = "embed" -> {"embed"}
      [] pc = "upsert" -> {"qdrant"}
      [] pc = "rels" /\ KeptRels # NoReply.rels -> {"sqlite"}
      [] pc = "link" /\ LinkPairs # {} -> {"sqlite"}
      [] pc = "certify" /\ ~job.had_failure -> {"sqlite"}
      [] OTHER -> {}

\* A step fails without effect: a refused call, a rolled back transaction.
StepFails ==
    /\ \E kind \in FaultsAt : MayFail(kind)
    /\ faults' = faults + 1
    /\ Raise
    /\ UNCHANGED <<storeVars, envVars, qdrantVars>>
-----------------------------------------------------------------------------
(* main().                                                                 *)

StartRun ==
    /\ pc = "idle" /\ pc' = "ensure"
    /\ exit' = "none" /\ files' = {} /\ unscanned' = {} /\ settled' = FALSE
    /\ UNCHANGED <<storeVars, envVars, faults, qdrantVars, todo, stale, failed, job>>

\* ensure_collection: the collection first, then its payload indexes.
EnsureCollection ==
    /\ pc = "ensure"
    /\ \E i \in 1..Len(SchemaSteps) :
          /\ SchemaSteps[i] \notin schema
          /\ \A j \in 1..(i - 1) : SchemaSteps[j] \in schema
          /\ schema' = schema \cup {SchemaSteps[i]}
    /\ UNCHANGED <<storeVars, envVars, faults, points, wal, torn, pc, runVars, job>>

\* Mutant: an existing collection is taken to be complete.
CollectionThere == "collection" \in schema

SchemaReady == \A i \in 1..Len(SchemaSteps) : SchemaSteps[i] \in schema

\* Mutant: whatever was not found is stale.
MissingPaths(found, dirs) == TrackedPaths \ found

\* The stale paths: those missing from directories that could be listed.
StalePaths(found, dirs) == {f \in TrackedPaths \ found : DirsOf[f] \cap dirs = {}}

\* The files that can be found if the directories in down cannot be listed.
Findable(down) == {f \in File : disk[f] # None /\ DirOf[f] \notin down}

\* _collect_files and the stale paths.  A directory that cannot be listed counts as
\* unscanned.  Nothing counts as such for a single file whose resolve or stat fails
\* (_is_safe_indexable_file) or for a subdirectory that looks empty: only an index path
\* where nothing was found does.
Collect ==
    /\ pc = "ensure" /\ SchemaReady
    /\ \E down \in SUBSET Dir : \E found \in SUBSET Findable(down) :
          LET whole == down = {} /\ found = Findable({})
              empty == {r \in Root : \A f \in found : r \notin DirsOf[f]}
          IN  /\ whole \/ MayFail("unreadable")
              /\ faults' = faults + (IF whole THEN 0 ELSE 1)
              /\ files' = found /\ todo' = found
              /\ unscanned' = down \cup empty
              /\ stale' = StalePaths(found, unscanned')
    /\ pc' = "purge" /\ settled' = TRUE
    /\ UNCHANGED <<storeVars, envVars, qdrantVars, failed, exit, job>>

\* _delete_vectors
DeleteVectors(f) ==
    /\ torn' = torn \cup {f}
    /\ IF ChunkIdsOf(f) = {} THEN UNCHANGED <<schema, points, wal>>
       ELSE Call(Delete(ChunkIdsOf(f)))

FirstStale == CHOOSE f \in stale : \A g \in stale : f <= g

PurgeVectors ==
    /\ pc = "purge" /\ stale # {}
    /\ DeleteVectors(FirstStale)
    /\ job' = JobFor(FirstStale) /\ pc' = "purgeRows"
    /\ UNCHANGED <<storeVars, envVars, faults, runVars>>

PurgeRows ==
    /\ pc = "purgeRows"
    /\ PurgeFile(job.file)
    /\ stale' = stale \ {job.file} /\ torn' = torn \ {job.file}
    /\ pc' = "purge" /\ job' = NoJob
    /\ UNCHANGED <<envVars, faults, schema, points, wal, files, todo, unscanned, failed, exit, settled>>

PurgeDone ==
    /\ pc = "purge" /\ stale = {} /\ pc' = "next"
    /\ UNCHANGED <<storeVars, envVars, faults, qdrantVars, runVars, job>>

\* The walk lists files in no particular order.
NextFile ==
    /\ pc = "next"
    /\ \E f \in todo : job' = JobFor(f) /\ todo' = todo \ {f}
    /\ pc' = "hash"
    /\ UNCHANGED <<storeVars, envVars, faults, qdrantVars, files, stale, unscanned, failed, exit, settled>>

Finish ==
    /\ pc = "next" /\ todo = {}
    /\ pc' = "idle" /\ failed' = FALSE
    /\ exit' = IF failed THEN "error" ELSE "ok"
    /\ UNCHANGED <<storeVars, envVars, faults, qdrantVars, files, todo, stale, unscanned, settled, job>>
-----------------------------------------------------------------------------
(* _index_file.                                                            *)

\* Mutant: a file with a fingerprint is never looked at again.
HashFileOnce ==
    /\ pc = "hash"
    /\ LET h == disk[job.file]
       IN  IF h = None THEN NextFileAfter("failed")
           ELSE IF fingerprints[job.file] # None THEN NextFileAfter("skipped")
           ELSE pc' = "read" /\ job' = [job EXCEPT !.hash = h] /\ UNCHANGED runVars
    /\ UNCHANGED <<storeVars, envVars, faults, qdrantVars>>

HashFile ==
    /\ pc = "hash"
    /\ LET h == disk[job.file]
       IN  IF h = None THEN NextFileAfter("failed")
           ELSE IF h = fingerprints[job.file] THEN NextFileAfter("skipped")
           ELSE pc' = "read" /\ job' = [job EXCEPT !.hash = h] /\ UNCHANGED runVars
    /\ UNCHANGED <<storeVars, envVars, faults, qdrantVars>>

\* Mutant: the old version is cleaned up before the new text is embedded.
ReadFileAndCleanUp ==
    /\ pc = "read"
    /\ LET c == disk[job.file]
       IN  IF c = None THEN NextFileAfter("failed") /\ UNCHANGED <<storeVars, qdrantVars>>
           ELSE /\ pc' = IF NumChunks[c] = 0 THEN "delVectors" ELSE "embed"
                /\ job' = [job EXCEPT !.text = c]
                /\ DeleteVectors(job.file) /\ DeleteFileData(job.file) /\ UNCHANGED runVars
    /\ UNCHANGED <<envVars, faults>>

\* _read_file and _chunk_file; a file without chunks is only cleaned up and certified.
ReadFile ==
    /\ pc = "read"
    /\ LET c == disk[job.file]
       IN  IF c = None THEN NextFileAfter("failed")
           ELSE /\ pc' = IF NumChunks[c] = 0 THEN "delVectors" ELSE "embed"
                /\ job' = [job EXCEPT !.text = c]
                /\ UNCHANGED runVars
    /\ UNCHANGED <<storeVars, envVars, faults, qdrantVars>>

Embed ==
    /\ pc = "embed" /\ pc' = "delVectors"
    /\ job' = [job EXCEPT !.vectors = job.text]
    /\ UNCHANGED <<storeVars, envVars, faults, qdrantVars, runVars>>

\* Mutant: the old vectors stay.
KeepOldVectors ==
    /\ pc = "delVectors" /\ pc' = "delRows"
    /\ UNCHANGED <<storeVars, envVars, faults, qdrantVars, runVars, job>>

\* _cleanup_changed_file, first half
DeleteOldVectors ==
    /\ pc = "delVectors" /\ pc' = "delRows"
    /\ DeleteVectors(job.file)
    /\ UNCHANGED <<storeVars, envVars, faults, runVars, job>>

\* _cleanup_changed_file, second half
DeleteOldRows ==
    /\ pc = "delRows"
    /\ DeleteFileData(job.file) /\ torn' = torn \ {job.file}
    /\ pc' = IF NumChunks[job.text] = 0 THEN "certify" ELSE "register"
    /\ UNCHANGED <<envVars, faults, schema, points, wal, runVars, job>>

\* Ids that are nowhere in use, as those of uuid4.
FreshGens ==
    {g \in Gen : /\ \A c \in chunks : c.id[1] # g
                 /\ \A p \in points : p.id[1] # g
                 /\ \A n \in 1..Len(wal) : \A p \in wal[n].add : p.id[1] # g}
\* Mutant: chunks are numbered from 0.
IdsFromZero(g, c) == {<<g, i>> : i \in 0..(NumChunks[c] - 1)}

Ids(g, c) == {<<g, i>> : i \in 1..NumChunks[c]}
Version(f, c, g) == {[id |-> i, file |-> f, text |-> c] : i \in Ids(g, c)}

\* Mutant: ids are not registered before their vectors are stored.
MintOnly ==
    /\ pc = "register" /\ pc' = "upsert"
    /\ job' = [job EXCEPT !.gen = CHOOSE h \in FreshGens : TRUE]
    /\ UNCHANGED <<storeVars, envVars, faults, qdrantVars, runVars>>

\* _build_points and register_chunks.
Register ==
    /\ pc = "register" /\ pc' = "upsert"
    /\ FreshGens # {}
    /\ LET g == CHOOSE h \in FreshGens : TRUE
       IN  job' = [job EXCEPT !.gen = g] /\ RegisterChunks(job.file, Ids(g, job.text))
    /\ UNCHANGED <<envVars, faults, qdrantVars, runVars>>

\* Mutant: the upsert does not wait to be applied.
UpsertWithoutWaiting ==
    /\ pc = "upsert"
    /\ wal' = Append(wal, Upsert(Version(job.file, job.text, job.gen)))
    /\ pc' = IF job.file \in HistoryDoc THEN "entities" ELSE "extract"
    /\ UNCHANGED <<storeVars, envVars, faults, schema, points, torn, runVars, job>>

UpsertPoints ==
    /\ pc = "upsert"
    /\ Call(Upsert(Version(job.file, job.text, job.gen)))
    /\ pc' = IF job.file \in HistoryDoc THEN "entities" ELSE "extract"
    /\ UNCHANGED <<storeVars, envVars, faults, torn, runVars, job>>

\* A Qdrant write is accepted but the caller gives up before it is applied.
TimesOut ==
    /\ MayFail("timeout") /\ faults' = faults + 1
    /\ \/ /\ pc = "upsert"
          /\ wal' = Append(wal, Upsert(Version(job.file, job.text, job.gen)))
          /\ UNCHANGED torn
       \/ LET f == IF pc = "purge" THEN FirstStale ELSE job.file
          IN  /\ pc = "delVectors" \/ (pc = "purge" /\ stale # {})
              /\ ChunkIdsOf(f) # {}
              /\ wal' = Append(wal, Delete(ChunkIdsOf(f)))
              /\ torn' = torn \cup {f}
    /\ Raise
    /\ UNCHANGED <<storeVars, envVars, schema, points>>
-----------------------------------------------------------------------------
(* extract_entities_for_file, and the writes that follow it.               *)

Length(d) == IF d = NoDesc THEN 0 ELSE DescLen[d]

\* _normalize_entities: the first type given, the first of the longest descriptions.
MergeMention(old, new) ==
    IF new = None THEN old
    ELSE IF old = None THEN new
    ELSE [type |-> IF old.type # NoType THEN old.type ELSE new.type,
          desc |-> IF Length(new.desc) > Length(old.desc) THEN new.desc ELSE old.desc]

MergeReply(acc, reply) ==
    [ents |-> [e \in Entity |-> MergeMention(acc.ents[e], reply.ents[e])],
     rels |-> [r \in Rel |-> acc.rels[r] + reply.rels[r]]]

BatchesLeft == job.batch <= Len(Batches[job.text])

\* Mutant: a cached reply counts whatever it was the reply to.
ExtractBatchOnce ==
    /\ pc = "extract" /\ BatchesLeft
    /\ LET cached == extraction_cache[job.file][job.batch]
           prompt == IF cached = None THEN Batches[job.text][job.batch] ELSE cached
           got == MergeReply([ents |-> job.ents, rels |-> job.rels], Reply[prompt])
       IN  /\ CacheExtraction(job.file, job.batch, prompt)
           /\ job' = [job EXCEPT !.batch = @ + 1, !.ents = got.ents, !.rels = got.rels]
    /\ UNCHANGED <<envVars, faults, qdrantVars, pc, runVars>>

\* _load_or_extract_batch: the reply comes from the cache, or from Ollama and is cached.
ExtractBatch ==
    /\ pc = "extract" /\ BatchesLeft
    /\ LET prompt == Batches[job.text][job.batch]
           got == MergeReply([ents |-> job.ents, rels |-> job.rels], Reply[prompt])
       IN  /\ IF extraction_cache[job.file][job.batch] = prompt THEN UNCHANGED storeVars
              ELSE CacheExtraction(job.file, job.batch, prompt)
           /\ job' = [job EXCEPT !.batch = @ + 1, !.ents = got.ents, !.rels = got.rels]
    /\ UNCHANGED <<envVars, faults, qdrantVars, pc, runVars>>

\* Mutant: a failed batch leaves no mark.
ExtractBatchFailsUnmarked ==
    /\ pc = "extract" /\ BatchesLeft
    /\ MayFail("sqlite") \/ MayFail("extract")
    /\ faults' = faults + 1
    /\ job' = [job EXCEPT !.batch = @ + 1]
    /\ UNCHANGED <<storeVars, envVars, qdrantVars, pc, runVars>>

\* The generation or the write of its reply failed: the batch counts as empty.
\* Without a request to Ollama only the cache lookup can fail.
ExtractBatchFails ==
    /\ pc = "extract" /\ BatchesLeft
    /\ \/ MayFail("sqlite")
       \/ /\ MayFail("extract")
          /\ extraction_cache[job.file][job.batch] # Batches[job.text][job.batch]
    /\ faults' = faults + 1
    /\ job' = [job EXCEPT !.batch = @ + 1, !.had_failure = TRUE]
    /\ UNCHANGED <<storeVars, envVars, qdrantVars, pc, runVars>>

ExtractDone ==
    /\ pc = "extract" /\ ~BatchesLeft /\ pc' = "entities"
    /\ UNCHANGED <<storeVars, envVars, faults, qdrantVars, runVars, job>>

WriteEntities ==
    /\ pc = "entities" /\ pc' = "rels"
    /\ UpsertEntities(job.file, job.ents)
    /\ UNCHANGED <<envVars, faults, qdrantVars, runVars, job>>

WriteRelationships ==
    /\ pc = "rels" /\ pc' = "link"
    /\ UpsertRelationships(job.file, KeptRels)
    /\ UNCHANGED <<envVars, faults, qdrantVars, runVars, job>>

WriteLinks ==
    /\ pc = "link" /\ pc' = "certify"
    /\ LinkChunks(LinkPairs)
    /\ UNCHANGED <<envVars, faults, qdrantVars, runVars, job>>

\* The fingerprint last, and only if every batch was extracted.
Certify ==
    /\ pc = "certify"
    /\ IF job.had_failure THEN UNCHANGED storeVars ELSE UpsertHash(job.file, job.hash)
    /\ NextFileAfter("indexed")
    /\ UNCHANGED <<envVars, faults, qdrantVars>>
-----------------------------------------------------------------------------
IndexerStep ==
    \/ EnsureCollection \/ Collect \/ PurgeVectors \/ PurgeRows \/ PurgeDone
    \/ NextFile \/ Finish \/ HashFile \/ ReadFile \/ Embed
    \/ DeleteOldVectors \/ DeleteOldRows \/ Register \/ UpsertPoints
    \/ ExtractBatch \/ ExtractDone
    \/ WriteEntities \/ WriteRelationships \/ WriteLinks \/ Certify

Failure == Crash \/ StepFails \/ TimesOut \/ ExtractBatchFails

Next ==
    \/ StartRun \/ IndexerStep \/ ApplyLate \/ Failure
    \/ \E f \in File, c \in Content \cup {None} : Edit(f, c)

Spec == Init /\ [][Next]_vars

\* The indexer keeps being run, a run gets on, and Qdrant works off its log.
FairSpec == Spec /\ WF_vars(StartRun) /\ WF_vars(IndexerStep) /\ WF_vars(ApplyLate)
=============================================================================
