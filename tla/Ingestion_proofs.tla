-------------------------- MODULE Ingestion_proofs --------------------------
(***************************************************************************)
(* The safety properties of Ingestion, for any number of files, contents,  *)
(* batches, edits and failures.                                            *)
(***************************************************************************)
EXTENDS IngestionInv, GraphStore_proofs

USE DEF Content

(***************************************************************************)
(* Facts about the operators.                                              *)
(***************************************************************************)
LEMMA NoReplyType ==
    /\ NoReply.ents \in EntityRows
    /\ NoReply.rels \in [Rel -> Nat]
BY DEF NoReply, EntityRows

LEMMA JobForType ==
    ASSUME NEW f \in File \cup {None}
    PROVE  JobFor(f) \in Job /\ JobFor(f).file = f
BY NoReplyType DEF JobFor, Job, EntityRows

LEMMA NoJobType == NoJob \in Job
BY JobForType DEF NoJob

LEMMA MergeMentionType ==
    ASSUME NEW old \in Mention \cup {None}, NEW new \in Mention \cup {None}
    PROVE  MergeMention(old, new) \in Mention \cup {None}
<1>1. CASE new = None \/ old = None
  BY <1>1 DEF MergeMention
<1>2. CASE new # None /\ old # None
  <2>1. /\ old.type \in Type \cup {NoType} /\ old.desc \in Desc \cup {NoDesc}
        /\ new.type \in Type \cup {NoType} /\ new.desc \in Desc \cup {NoDesc}
    BY <1>2 DEF Mention
  <2>2. MergeMention(old, new) =
          [type |-> IF old.type # NoType THEN old.type ELSE new.type,
           desc |-> IF Length(new.desc) > Length(old.desc) THEN new.desc ELSE old.desc]
    BY <1>2 DEF MergeMention
  <2> QED BY <2>1, <2>2 DEF Mention
<1> QED BY <1>1, <1>2

LEMMA MergeReplyType ==
    ASSUME NEW ents \in EntityRows, NEW rels \in [Rel -> Nat], NEW p \in Prompt
    PROVE  LET got == MergeReply([ents |-> ents, rels |-> rels], Reply[p])
           IN  got.ents \in EntityRows /\ got.rels \in [Rel -> Nat]
<1>1. Reply[p].ents \in EntityRows /\ Reply[p].rels \in [Rel -> Nat]
  BY IngestionAssumption DEF IngestionAssumption, EntityRows
<1>2. \A e \in Entity : MergeMention(ents[e], Reply[p].ents[e]) \in Mention \cup {None}
  BY <1>1, MergeMentionType DEF EntityRows
<1>3. \A r \in Rel : rels[r] + Reply[p].rels[r] \in Nat
  BY <1>1
<1> QED BY <1>2, <1>3 DEF MergeReply, EntityRows

LEMMA FirstStaleType ==
    ASSUME stale \subseteq File, stale # {}
    PROVE  FirstStale \in stale
<1> DEFINE key == [f \in stale |-> 0]
<1>1. stale \in SUBSET Nat /\ IsFiniteSet(stale)
  BY FS_Subset, GraphStoreAssumption DEF GraphStoreAssumption
<1>2. \E f \in stale : \A g \in stale : f <= g
  <2>1. key \in [stale -> Nat]
    OBVIOUS
  <2>2. Best(stale, key) \in stale
    BY <1>1, <2>1, BestExists
  <2>3. \A g \in stale : LET f == Best(stale, key)
                        IN  key[f] > key[g] \/ (key[f] = key[g] /\ f <= g)
    BY <1>1, <2>1, BestExists
  <2>4. \A g \in stale : Best(stale, key) <= g
    BY <2>2, <2>3
  <2> QED BY <2>2, <2>4
<1> QED BY <1>2 DEF FirstStale

LEMMA IdsType ==
    ASSUME NEW g \in Gen, NEW c \in Content
    PROVE  /\ Ids(g, c) \in SUBSET ChunkId
           /\ NumChunks[c] \in Nat
           /\ NumChunks[c] > 0 => Ids(g, c) # {}
           /\ \A f \in File : Version(f, c, g) \in SUBSET Point
<1>1. NumChunks[c] \in Nat
  BY IngestionAssumption DEF IngestionAssumption
<1>2. Ids(g, c) \in SUBSET ChunkId
  BY <1>1 DEF Ids, ChunkId
<1>3. NumChunks[c] > 0 => <<g, 1>> \in Ids(g, c)
  BY <1>1 DEF Ids
<1>4. \A f \in File : Version(f, c, g) \in SUBSET Point
  BY <1>2 DEF Version, Point
<1> QED BY <1>1, <1>2, <1>3, <1>4
-----------------------------------------------------------------------------
(***************************************************************************)
(* Vectors, ids and deletes.                                               *)
(***************************************************************************)

\* A registered id belongs to one file, so the ids of a file are those of its vectors only.
LEMMA IdsOfFile ==
    ASSUME IInv, NEW f \in File
    PROVE  /\ \A p \in points : p.id \in ChunkIdsOf(f) <=> p.file = f
           /\ \A n \in 1..Len(wal) : \A p \in wal[n].add :
                 p.id \in ChunkIdsOf(f) <=> p.file = f
<1>1. \A c, d \in chunks : c.id = d.id => c = d
  BY DEF IInv, StoreInv, LinksHaveChunks
<1>2. ASSUME NEW p, [id |-> p.id, file |-> p.file] \in chunks
      PROVE  p.id \in ChunkIdsOf(f) <=> p.file = f
  <2> DEFINE row == [id |-> p.id, file |-> p.file]
  <2>1. row.id = p.id /\ row.file = p.file
    OBVIOUS
  <2>2. CASE p.file = f
    BY <1>2, <2>1, <2>2 DEF ChunkIdsOf
  <2>3. ASSUME p.id \in ChunkIdsOf(f) PROVE p.file = f
    <3>1. PICK c \in chunks : c.file = f /\ c.id = p.id
      BY <2>3 DEF ChunkIdsOf
    <3>2. c = row
      BY <1>1, <1>2, <2>1, <3>1
    <3> QED BY <2>1, <3>1, <3>2
  <2> QED BY <2>2, <2>3
<1> QED BY <1>2 DEF IInv, NoOrphanVectors

\* Deleting the ids of a file takes its vectors and no other's.
LEMMA DeleteEffect ==
    ASSUME IInv, NEW f \in File, points' = Apply(Delete(ChunkIdsOf(f)), points)
    PROVE  /\ PointsOf(f)' = {}
           /\ \A g \in File \ {f} : PointsOf(g)' = PointsOf(g)
           /\ points' \subseteq points
<1>1. points' = {p \in points : p.id \notin ChunkIdsOf(f)}
  BY DEF Apply, Delete
<1>2. points' = {p \in points : p.file # f}
  BY <1>1, IdsOfFile
<1> QED BY <1>2 DEF PointsOf

\* What holds of Qdrant concerns the vectors and the chunk rows only.
LEMMA SameChunks ==
    ASSUME IInv, UNCHANGED <<chunks, points, wal>>
    PROVE  /\ NoOrphanVectors' /\ LogOK' /\ AllOrNothing'
           /\ \A f : ChunkIdsOf(f)' = ChunkIdsOf(f)
<1>1. NoOrphanVectors' /\ AllOrNothing'
  BY DEF IInv, NoOrphanVectors, AllOrNothing, PointsOf
<1>2. \A f : ChunkIdsOf(f)' = ChunkIdsOf(f)
  BY DEF ChunkIdsOf
<1>3. LogOK'
  <2>1. \A n \in 1..Len(wal') :
          \/ /\ wal'[n].drop = {}
             /\ \E f \in File, c \in Content, g \in Gen :
                   NumChunks[c] > 0 /\ wal'[n].add = Version(f, c, g)
          \/ /\ wal'[n].add = {}
             /\ \E f \in File : wal'[n].drop = ChunkIdsOf(f)' /\ ChunkIdsOf(f)' # {}
    BY <1>2 DEF IInv, LogOK, WholeVersion, WholeDelete
  <2>2. (\A n \in 1..Len(wal) : WholeVersion(wal[n]) \/ WholeDelete(wal[n]))'
    BY <2>1 DEF WholeVersion, WholeDelete
  <2> QED BY <2>2 DEF IInv, LogOK
<1> QED BY <1>1, <1>2, <1>3

\* What holds of the store and of Qdrant is not disturbed by a step of main() alone.
LEMMA ControlStep ==
    ASSUME IInv, UNCHANGED <<storeVars, points, wal>>
    PROVE  /\ StoreInv' /\ NoOrphanVectors' /\ LogOK' /\ AllOrNothing' /\ GraphHasChunks'
<1>1. StoreInv'
  BY StoreUnchangedInv DEF IInv
<1>2. /\ NoOrphanVectors' /\ LogOK' /\ AllOrNothing'
      /\ \A f : ChunkIdsOf(f)' = ChunkIdsOf(f)
  BY SameChunks DEF storeVars
<1>3. GraphHasChunks'
  BY <1>2 DEF IInv, GraphHasChunks, storeVars
<1> QED BY <1>1, <1>2, <1>3

LEMMA ControlInv ==
    ASSUME IInv, UNCHANGED <<storeVars, points, wal>>, TypeOK', JobOK'
    PROVE  IInv'
BY ControlStep DEF IInv

\* Between files main() keeps no local state.
LEMMA BetweenFiles ==
    ASSUME pc' \in {"idle", "ensure", "purge", "next"}
    PROVE  JobOK'
BY DEF JobOK

LEMMA StepsOfMain ==
    ASSUME IInv, StartRun \/ EnsureCollection \/ PurgeDone \/ Finish \/ Crash
    PROVE  IInv'
<1>1. UNCHANGED <<storeVars, points, wal>>
  BY DEF StartRun, EnsureCollection, PurgeDone, Finish, Crash, storeVars, qdrantVars
<1>2. JobOK'
  BY BetweenFiles DEF StartRun, EnsureCollection, PurgeDone, Finish, Crash
<1>3. TypeOK'
  <2>1. StoreTypeOK' /\ TypeOK
    BY <1>1, ControlStep DEF IInv, StoreInv
  <2>2. CASE StartRun
    BY <2>1, <2>2 DEF TypeOK, StartRun, PC, envVars, qdrantVars, storeVars
  <2>3. CASE EnsureCollection
    BY <2>1, <2>3 DEF TypeOK, EnsureCollection, PC, envVars, runVars, storeVars
  <2>4. CASE PurgeDone
    BY <2>1, <2>4 DEF TypeOK, PurgeDone, PC, envVars, qdrantVars, runVars, storeVars
  <2>5. CASE Finish
    BY <2>1, <2>5 DEF TypeOK, Finish, PC, envVars, qdrantVars, storeVars
  <2>6. CASE Crash
    <3>1. faults' \in 0..MaxFaults
      BY <2>1, <2>6, IngestionAssumption DEF TypeOK, Crash, MayFail, IngestionAssumption
    <3>2. job' \in Job
      BY <2>6, NoJobType DEF Crash
    <3> QED BY <2>1, <2>6, <3>1, <3>2 DEF TypeOK, Crash, PC, envVars, qdrantVars, storeVars
  <2> QED BY <2>2, <2>3, <2>4, <2>5, <2>6
<1> QED BY <1>1, <1>2, <1>3, ControlInv

LEMMA CollectEffect ==
    ASSUME TypeOK, Collect
    PROVE  /\ faults' \in 0..MaxFaults /\ unscanned' \subseteq Dir
           /\ files' \subseteq File /\ todo' = files'
           /\ \A f \in files' : disk[f] # None
           /\ stale' = {f \in TrackedPaths \ files' : DirsOf[f] \cap unscanned' = {}}
<1>1. PICK down \in SUBSET Dir, found \in SUBSET {f \in File : disk[f] # None} :
        LET whole == down = {} /\ found = Findable({})
            empty == {r \in Root : \A f \in found : r \notin DirsOf[f]}
        IN  /\ whole \/ MayFail("unreadable")
            /\ faults' = faults + (IF whole THEN 0 ELSE 1)
            /\ files' = found /\ todo' = found
            /\ unscanned' = down \cup empty
            /\ stale' = StalePaths(found, unscanned')
  <2>1. \A down \in SUBSET Dir : SUBSET Findable(down) \subseteq SUBSET {f \in File : disk[f] # None}
    BY DEF Findable
  <2> QED BY <2>1 DEF Collect
<1>2. faults' \in 0..MaxFaults
  BY <1>1, IngestionAssumption DEF TypeOK, MayFail, IngestionAssumption
<1>3. unscanned' \subseteq Dir
  BY <1>1, IngestionAssumption DEF IngestionAssumption
<1> QED BY <1>1, <1>2, <1>3 DEF StalePaths

LEMMA CollectInv ==
    ASSUME IInv, Collect
    PROVE  IInv'
<1>1. UNCHANGED <<storeVars, points, wal>> /\ JobOK'
  BY BetweenFiles DEF Collect, storeVars, qdrantVars
<1>2. StoreTypeOK' /\ TypeOK
  BY <1>1, ControlStep DEF IInv, StoreInv
<1>3. TrackedPaths \subseteq File
  BY DEF TrackedPaths
<1>4. TypeOK'
  BY <1>2, <1>3, CollectEffect DEF TypeOK, Collect, PC, envVars, qdrantVars, storeVars
<1> QED BY <1>1, <1>4, ControlInv

LEMMA EditInv ==
    ASSUME IInv, NEW f \in File, NEW c \in Content \cup {None}, Edit(f, c)
    PROVE  IInv'
<1>1. UNCHANGED <<storeVars, points, wal>>
  BY DEF Edit, storeVars, qdrantVars
<1>2. JobOK'
  <2>1. UNCHANGED <<pc, job, chunks, points, wal, mentions>> /\ JobOK
    BY DEF Edit, storeVars, qdrantVars, IInv
  <2> QED BY <2>1 DEF JobOK, NoVectors, PointsOf, ChunkIdsOf
<1>3. TypeOK'
  <2>1. StoreTypeOK' /\ TypeOK
    BY <1>1, ControlStep DEF IInv, StoreInv
  <2>2. /\ disk' \in [File -> Content \cup {None}]
        /\ seen' \in [File -> SUBSET Content]
        /\ edits' \in 0..MaxEdits
    BY <2>1, IngestionAssumption DEF TypeOK, Edit, IngestionAssumption
  <2> QED BY <2>1, <2>2 DEF TypeOK, Edit, storeVars, qdrantVars
<1> QED BY <1>1, <1>2, <1>3, ControlInv
-----------------------------------------------------------------------------
LEMMA RaiseType ==
    ASSUME TypeOK, Raise
    PROVE  /\ pc' \in {"idle", "next"} /\ pc' \in PC /\ job' \in Job
           /\ files' \subseteq File /\ todo' \subseteq File /\ stale' \subseteq File
           /\ unscanned' \subseteq Dir
           /\ failed' \in BOOLEAN /\ settled' \in BOOLEAN /\ exit' \in {"none", "ok", "error"}
BY NoJobType DEF TypeOK, Raise, NextFileAfter, PC

LEMMA NextFileAfterType ==
    ASSUME TypeOK, NEW o \in {"failed", "skipped", "indexed"}, NextFileAfter(o)
    PROVE  /\ pc' \in {"idle", "next"} /\ pc' \in PC /\ job' \in Job
           /\ files' \subseteq File /\ todo' \subseteq File /\ stale' \subseteq File
           /\ unscanned' \subseteq Dir
           /\ failed' \in BOOLEAN /\ settled' \in BOOLEAN /\ exit' \in {"none", "ok", "error"}
BY NoJobType DEF TypeOK, NextFileAfter, PC

LEMMA StepFailsInv ==
    ASSUME IInv, StepFails
    PROVE  IInv'
<1>1. UNCHANGED <<storeVars, points, wal>>
  BY DEF StepFails, storeVars, qdrantVars
<1>2. StoreTypeOK' /\ TypeOK
  BY <1>1, ControlStep DEF IInv, StoreInv
<1>3. Raise /\ faults' \in 0..MaxFaults
  BY <1>2, IngestionAssumption DEF TypeOK, StepFails, MayFail, IngestionAssumption
<1>4. TypeOK'
  BY <1>2, <1>3, RaiseType DEF TypeOK, StepFails, envVars, qdrantVars, storeVars
<1>5. JobOK'
  BY <1>2, <1>3, RaiseType, BetweenFiles
<1> QED BY <1>1, <1>4, <1>5, ControlInv

\* A step inside _index_file that changes nothing but pc and job.
LEMMA JobStepType ==
    ASSUME IInv, UNCHANGED <<storeVars, envVars, faults, qdrantVars, files, stale, unscanned, failed,
                       exit, settled>>,
           pc' \in PC, job' \in Job, todo' \subseteq File
    PROVE  TypeOK'
<1>1. StoreTypeOK' /\ TypeOK
  BY ControlStep DEF IInv, StoreInv, storeVars, qdrantVars
<1> QED BY <1>1 DEF TypeOK, envVars, qdrantVars, storeVars

LEMMA NextFileInv ==
    ASSUME IInv, NextFile
    PROVE  IInv'
<1>1. TypeOK
  BY DEF IInv
<1>2. PICK f \in todo : job' = JobFor(f) /\ todo' = todo \ {f}
  BY DEF NextFile
<1>3. f \in File /\ todo' \subseteq File
  BY <1>1, <1>2 DEF TypeOK
<1>4. job' \in Job /\ job'.file = f
  BY <1>2, <1>3, JobForType
<1>5. TypeOK'
  BY <1>3, <1>4, JobStepType DEF NextFile, PC
<1>6. JobOK'
  BY <1>3, <1>4 DEF JobOK, NextFile
<1>7. UNCHANGED <<storeVars, points, wal>>
  BY DEF NextFile, qdrantVars
<1> QED BY <1>5, <1>6, <1>7, ControlInv

LEMMA HashFileInv ==
    ASSUME IInv, HashFile
    PROVE  IInv'
<1> DEFINE h == disk[job.file]
<1>1. UNCHANGED <<storeVars, envVars, faults, qdrantVars>> /\ UNCHANGED <<storeVars, points, wal>>
  BY DEF HashFile, qdrantVars
<1>2. TypeOK /\ job.file \in File /\ StoreTypeOK'
  BY <1>1, ControlStep DEF IInv, JobOK, HashFile, StoreInv
<1>3. CASE NextFileAfter("failed") \/ NextFileAfter("skipped")
  <2>1. TypeOK'
    BY <1>1, <1>2, <1>3, NextFileAfterType DEF TypeOK, envVars, qdrantVars, storeVars
  <2>2. JobOK'
    BY <1>2, <1>3, NextFileAfterType, BetweenFiles
  <2> QED BY <1>1, <2>1, <2>2, ControlInv
<1>4. CASE h # None /\ pc' = "read" /\ job' = [job EXCEPT !.hash = h] /\ UNCHANGED runVars
  <2>1. h \in Hash /\ job \in Job
    BY <1>2, <1>4 DEF TypeOK
  <2>2. job' \in Job /\ job'.file = job.file /\ job'.hash = h
    BY <2>1, <1>4 DEF Job
  <2>3. TypeOK'
    BY <1>1, <1>2, <1>4, <2>2, JobStepType DEF PC, runVars, TypeOK
  <2>4. JobOK'
    BY <1>2, <1>4, <2>1, <2>2 DEF JobOK
  <2> QED BY <1>1, <2>3, <2>4, ControlInv
<1> QED BY <1>3, <1>4 DEF HashFile

LEMMA ReadFileInv ==
    ASSUME IInv, ReadFile
    PROVE  IInv'
<1> DEFINE c == disk[job.file]
<1>1. UNCHANGED <<storeVars, envVars, faults, qdrantVars>> /\ UNCHANGED <<storeVars, points, wal>>
  BY DEF ReadFile, qdrantVars
<1>2. TypeOK /\ job.file \in File /\ job.hash \in Hash /\ StoreTypeOK'
  BY <1>1, ControlStep DEF IInv, JobOK, ReadFile, StoreInv
<1>3. CASE NextFileAfter("failed")
  <2>1. TypeOK'
    BY <1>1, <1>2, <1>3, NextFileAfterType DEF TypeOK, envVars, qdrantVars, storeVars
  <2>2. JobOK'
    BY <1>2, <1>3, NextFileAfterType, BetweenFiles
  <2> QED BY <1>1, <2>1, <2>2, ControlInv
<1>4. CASE /\ c # None
           /\ pc' = IF NumChunks[c] = 0 THEN "delVectors" ELSE "embed"
           /\ job' = [job EXCEPT !.text = c]
           /\ UNCHANGED runVars
  <2>1. c \in Content /\ job \in Job /\ NumChunks[c] \in Nat
    BY <1>2, <1>4, IngestionAssumption DEF TypeOK, IngestionAssumption
  <2>2. job' \in Job /\ job'.file = job.file /\ job'.hash = job.hash /\ job'.text = c
    BY <2>1, <1>4 DEF Job
  <2>3. TypeOK'
    BY <1>1, <1>2, <1>4, <2>2, JobStepType DEF PC, runVars, TypeOK
  <2>4. JobOK'
    BY <1>2, <1>4, <2>1, <2>2 DEF JobOK
  <2> QED BY <1>1, <2>3, <2>4, ControlInv
<1> QED BY <1>3, <1>4 DEF ReadFile

LEMMA EmbedInv ==
    ASSUME IInv, Embed
    PROVE  IInv'
<1>1. UNCHANGED <<storeVars, points, wal>> /\ job' = [job EXCEPT !.vectors = job.text]
  BY DEF Embed, qdrantVars
<1>2. TypeOK /\ JobOK /\ job.file \in File /\ job.hash \in Hash /\ job.text \in Content
  BY DEF IInv, JobOK, Embed
<1>3. /\ job' \in Job /\ job'.file = job.file /\ job'.hash = job.hash /\ job'.text = job.text
  BY <1>1, <1>2 DEF TypeOK, Job
<1>4. TypeOK'
  BY <1>2, <1>3, JobStepType DEF TypeOK, Embed, PC, runVars
<1>5. JobOK'
  BY <1>2, <1>3 DEF JobOK, Embed
<1> QED BY <1>1, <1>4, <1>5, ControlInv

\* What the job has found out about its file stays true while the store does.
LEMMA ExtractStepJob ==
    ASSUME IInv, pc = "extract", pc' \in {"extract", "entities"},
           UNCHANGED <<chunks>>, job' \in Job,
           job'.file = job.file, job'.hash = job.hash, job'.text = job.text, job'.gen = job.gen
    PROVE  JobOK'
<1>1. /\ job.file \in File /\ job.hash \in Hash /\ job.text \in Content
      /\ NumChunks[job.text] > 0 /\ job.gen \in Gen
      /\ ChunkIdsOf(job.file) = Ids(job.gen, job.text)
  BY DEF IInv, JobOK
<1>2. (ChunkIdsOf(job.file) = Ids(job.gen, job.text))'
  BY <1>1 DEF ChunkIdsOf, Ids
<1> QED BY <1>1, <1>2 DEF JobOK

LEMMA ExtractDoneInv ==
    ASSUME IInv, ExtractDone
    PROVE  IInv'
<1>1. UNCHANGED <<storeVars, points, wal>> /\ job' = job
  BY DEF ExtractDone, qdrantVars
<1>2. TypeOK
  BY DEF IInv
<1>3. TypeOK'
  BY <1>1, <1>2, JobStepType DEF TypeOK, ExtractDone, PC, runVars
<1>4. JobOK'
  BY <1>1, <1>2, ExtractStepJob DEF TypeOK, ExtractDone, storeVars
<1> QED BY <1>1, <1>3, <1>4, ControlInv

LEMMA ExtractBatchFailsInv ==
    ASSUME IInv, ExtractBatchFails
    PROVE  IInv'
<1>1. UNCHANGED <<storeVars, points, wal>>
  BY DEF ExtractBatchFails, qdrantVars
<1>2. TypeOK /\ StoreTypeOK' /\ job \in Job
  BY <1>1, ControlStep DEF IInv, StoreInv, TypeOK
<1>3. faults' \in 0..MaxFaults
  BY <1>2, IngestionAssumption DEF TypeOK, ExtractBatchFails, MayFail, IngestionAssumption
<1>4. job' \in Job /\ UNCHANGED <<job.file, job.hash, job.text, job.gen>>
  <2>1. job' = [job EXCEPT !.batch = job.batch + 1, !.had_failure = TRUE]
    BY DEF ExtractBatchFails
  <2>2. job.batch + 1 \in Nat \ {0}
    BY <1>2 DEF Job
  <2>3. job' \in Job
    BY <1>2, <2>1, <2>2, Zenon DEF Job
  <2>4. UNCHANGED <<job.file, job.hash, job.text, job.gen>>
    BY <1>2, <2>1 DEF Job
  <2> QED BY <2>3, <2>4
<1>5. TypeOK'
  BY <1>2, <1>3, <1>4 DEF TypeOK, ExtractBatchFails, envVars, qdrantVars, runVars, storeVars
<1>6. JobOK'
  BY <1>1, <1>4, ExtractStepJob DEF ExtractBatchFails, storeVars
<1> QED BY <1>1, <1>5, <1>6, ControlInv

\* What a transaction that only writes the cache or a fingerprint leaves as it was.
LEMMA CacheStep ==
    ASSUME IInv, UNCHANGED <<chunks, relationships, mentions, points, wal>>
    PROVE  NoOrphanVectors' /\ LogOK' /\ AllOrNothing' /\ GraphHasChunks'
<1>1. /\ NoOrphanVectors' /\ LogOK' /\ AllOrNothing'
      /\ \A f : ChunkIdsOf(f)' = ChunkIdsOf(f)
  BY SameChunks
<1>2. GraphHasChunks'
  BY <1>1 DEF IInv, GraphHasChunks
<1> QED BY <1>1, <1>2

LEMMA ExtractBatchInv ==
    ASSUME IInv, ExtractBatch
    PROVE  IInv'
<1> DEFINE prompt == Batches[job.text][job.batch]
           got == MergeReply([ents |-> job.ents, rels |-> job.rels], Reply[prompt])
<1>1. /\ TypeOK /\ StoreInv /\ job \in Job
      /\ job.file \in File /\ job.text \in Content
  BY DEF IInv, TypeOK, JobOK, ExtractBatch
<1>2. /\ Batches[job.text] \in Seq(Prompt)
      /\ Len(Batches[job.text]) <= MaxBatches
  BY <1>1, IngestionAssumption DEF IngestionAssumption
<1>3. job.batch \in Nat \ {0} /\ job.batch <= Len(Batches[job.text])
  BY <1>1 DEF ExtractBatch, BatchesLeft, Job
<1>4. prompt \in Prompt /\ job.batch \in BatchIndex
  BY <1>2, <1>3, GraphStoreAssumption DEF BatchIndex, GraphStoreAssumption
<1>5. job.ents \in EntityRows /\ job.rels \in [Rel -> Nat]
  BY <1>1 DEF Job, EntityRows
<1>6. got.ents \in EntityRows /\ got.rels \in [Rel -> Nat]
  BY <1>4, <1>5, MergeReplyType
<1>7. job' = [job EXCEPT !.batch = @ + 1, !.ents = got.ents, !.rels = got.rels]
  BY DEF ExtractBatch
<1>8. job' \in Job /\ UNCHANGED <<job.file, job.hash, job.text, job.gen>>
  <2> HIDE DEF got
  <2>1. job' = [job EXCEPT !.batch = job.batch + 1, !.ents = got.ents, !.rels = got.rels]
    BY <1>7
  <2>2. job.batch + 1 \in Nat \ {0}
    BY <1>3
  <2>3. job' \in Job
    BY <1>1, <1>6, <2>1, <2>2 DEF Job, EntityRows
  <2>4. UNCHANGED <<job.file, job.hash, job.text, job.gen>>
    BY <1>1, <2>1 DEF Job
  <2> QED BY <2>3, <2>4
<1>9. UNCHANGED storeVars \/ CacheExtraction(job.file, job.batch, prompt)
  BY DEF ExtractBatch
<1>10. StoreInv'
  BY <1>1, <1>4, <1>9, CacheExtractionInv, StoreUnchangedInv
<1>11. UNCHANGED <<chunks, links, relationships, mentions, points, wal>>
  BY <1>9 DEF CacheExtraction, storeVars, ExtractBatch, qdrantVars
<1>12. TypeOK'
  BY <1>1, <1>8, <1>10 DEF TypeOK, ExtractBatch, StoreInv, envVars, qdrantVars, runVars
<1>13. JobOK'
  BY <1>8, <1>11, ExtractStepJob DEF ExtractBatch
<1> QED BY <1>10, <1>11, <1>12, <1>13, CacheStep DEF IInv
-----------------------------------------------------------------------------
(***************************************************************************)
(* Deleting: the vectors of a file, then its rows.                         *)
(***************************************************************************)
LEMMA DeleteVectorsStep ==
    ASSUME IInv, NEW f \in File, DeleteVectors(f), UNCHANGED storeVars
    PROVE  /\ StoreInv' /\ NoOrphanVectors' /\ LogOK' /\ AllOrNothing' /\ GraphHasChunks'
           /\ NoVectors(f)'
           /\ wal' = <<>> \/ ChunkIdsOf(f)' = {}
           /\ points' \subseteq Point /\ wal' = wal /\ schema' = schema
<1>1. points \subseteq Point
  BY DEF IInv, TypeOK
<1>2. CASE ChunkIdsOf(f) = {}
  <2>1. UNCHANGED <<schema, points, wal>>
    BY <1>2 DEF DeleteVectors, qdrantVars
  <2>2. /\ \A p \in points : p.file # f
        /\ \A n \in 1..Len(wal) : \A p \in wal[n].add : p.file # f
    BY <1>2, IdsOfFile
  <2>3. NoVectors(f)'
    BY <2>1, <2>2 DEF NoVectors, PointsOf
  <2>4. ChunkIdsOf(f)' = {}
    BY <1>2 DEF ChunkIdsOf, storeVars
  <2> QED BY <1>1, <2>1, <2>3, <2>4, ControlStep
<1>3. CASE ChunkIdsOf(f) # {}
  <2>1. /\ wal = <<>> /\ wal' = wal /\ schema' = schema
        /\ points' = Apply(Delete(ChunkIdsOf(f)), points)
    BY <1>3 DEF DeleteVectors, Call
  <2>2. /\ PointsOf(f)' = {} /\ points' \subseteq points
        /\ \A g \in File \ {f} : PointsOf(g)' = PointsOf(g)
    BY <2>1, DeleteEffect
  <2>3. StoreInv'
    BY StoreUnchangedInv DEF IInv
  <2>4. NoOrphanVectors'
    BY <2>1, <2>2 DEF IInv, NoOrphanVectors, storeVars
  <2>5. LogOK'
    BY <2>1 DEF LogOK
  <2>6. AllOrNothing'
    BY <2>2 DEF IInv, AllOrNothing
  <2>7. GraphHasChunks'
    <3>1. \A g : ChunkIdsOf(g)' = ChunkIdsOf(g)
      BY DEF ChunkIdsOf, storeVars
    <3> QED BY <3>1 DEF IInv, GraphHasChunks, storeVars
  <2>8. NoVectors(f)'
    BY <2>1, <2>2 DEF NoVectors
  <2> QED BY <1>1, <2>1, <2>2, <2>3, <2>4, <2>5, <2>6, <2>7, <2>8
<1> QED BY <1>2, <1>3

LEMMA PurgeVectorsInv ==
    ASSUME IInv, PurgeVectors
    PROVE  IInv'
<1>1. TypeOK
  BY DEF IInv
<1>2. PICK f \in File : f = FirstStale
  <2>1. stale \subseteq File /\ stale # {}
    BY <1>1 DEF TypeOK, PurgeVectors
  <2> QED BY <2>1, FirstStaleType
<1>3. job' = JobFor(f) /\ job'.file = f /\ job' \in Job
  BY <1>2, JobForType DEF PurgeVectors
<1>4. DeleteVectors(f) /\ UNCHANGED storeVars /\ torn' \subseteq File
  BY <1>1, <1>2 DEF PurgeVectors, DeleteVectors, TypeOK
<1>5. /\ StoreInv' /\ NoOrphanVectors' /\ LogOK' /\ AllOrNothing' /\ GraphHasChunks'
      /\ NoVectors(f)'
      /\ wal' = <<>> \/ ChunkIdsOf(f)' = {}
      /\ points' \subseteq Point /\ wal' = wal /\ schema' = schema
  BY <1>4, DeleteVectorsStep
<1>6. JobOK'
  BY <1>3, <1>5 DEF JobOK, PurgeVectors, NoVectors, PointsOf, ChunkIdsOf
<1>7. TypeOK'
  BY <1>1, <1>3, <1>4, <1>5 DEF TypeOK, StoreInv, PurgeVectors, PC, envVars, runVars
<1> QED BY <1>5, <1>6, <1>7 DEF IInv

LEMMA DeleteOldVectorsInv ==
    ASSUME IInv, DeleteOldVectors
    PROVE  IInv'
<1> DEFINE f == job.file
<1>1. TypeOK /\ f \in File /\ job.hash \in Hash /\ job.text \in Content
  BY DEF IInv, JobOK, DeleteOldVectors
<1>2. /\ StoreInv' /\ NoOrphanVectors' /\ LogOK' /\ AllOrNothing' /\ GraphHasChunks'
      /\ NoVectors(f)'
      /\ wal' = <<>> \/ ChunkIdsOf(f)' = {}
      /\ points' \subseteq Point /\ wal' = wal /\ schema' = schema
  BY <1>1, DeleteVectorsStep DEF DeleteOldVectors
<1>3. JobOK'
  BY <1>1, <1>2 DEF JobOK, DeleteOldVectors, NoVectors, PointsOf, ChunkIdsOf
<1>4. torn' \subseteq File
  BY <1>1 DEF DeleteOldVectors, DeleteVectors, TypeOK
<1>5. TypeOK'
  BY <1>1, <1>2, <1>4 DEF TypeOK, StoreInv, DeleteOldVectors, PC, envVars, runVars
<1> QED BY <1>2, <1>3, <1>5 DEF IInv

LEMMA DeleteRowsStep ==
    ASSUME IInv, NEW f \in File, NoVectors(f), wal = <<>> \/ ChunkIdsOf(f) = {},
           DeleteFileRows(f), UNCHANGED <<points, wal>>
    PROVE  /\ NoOrphanVectors' /\ LogOK' /\ AllOrNothing' /\ GraphHasChunks'
           /\ NoVectors(f)' /\ ChunkIdsOf(f)' = {}
<1>1. chunks' = {c \in chunks : c.file # f}
  BY DEF DeleteFileRows
<1>2. /\ \A p \in points : p.file # f
      /\ \A n \in 1..Len(wal) : \A p \in wal[n].add : p.file # f
  BY DEF NoVectors, PointsOf
<1>3. NoOrphanVectors'
  <2>1. ASSUME NEW p, p.file # f, [id |-> p.id, file |-> p.file] \in chunks
        PROVE  [id |-> p.id, file |-> p.file] \in chunks'
    BY <1>1, <2>1
  <2>2. NoOrphanVectors
    BY DEF IInv
  <2> QED BY <1>2, <2>1, <2>2 DEF NoOrphanVectors
<1>4. AllOrNothing'
  BY DEF IInv, AllOrNothing, PointsOf
<1>5. NoVectors(f)'
  BY DEF NoVectors, PointsOf
<1>6. ChunkIdsOf(f)' = {}
  BY <1>1 DEF ChunkIdsOf
<1>7. \A g \in File \ {f} : ChunkIdsOf(g)' = ChunkIdsOf(g)
  BY <1>1 DEF ChunkIdsOf
<1>8. LogOK'
  <2>1. CASE wal = <<>>
    BY <2>1 DEF LogOK
  <2>2. CASE ChunkIdsOf(f) = {}
    <3>1. chunks' = chunks
      BY <1>1, <2>2 DEF ChunkIdsOf
    <3> QED BY <3>1, SameChunks
  <2> QED BY <2>1, <2>2
<1>9. GraphHasChunks'
  <2>1. /\ relationships' = [relationships EXCEPT ![f] = [r \in Rel |-> 0]]
        /\ mentions' = [mentions EXCEPT ![f] = [e \in Entity |-> None]]
    BY DEF DeleteFileRows
  <2>2. relationships \in [File -> [Rel -> Nat]] /\ mentions \in [File -> EntityRows]
    BY DEF IInv, StoreInv, StoreTypeOK, EntityRows
  <2>3. \A g \in File \ {f} : relationships'[g] = relationships[g] /\ mentions'[g] = mentions[g]
    BY <2>1, <2>2
  <2>4. /\ \A e \in Entity : mentions'[f][e] = None
        /\ \A r \in Rel : ~(relationships'[f][r] > 0)
    BY <2>1, <2>2
  <2> QED BY <1>7, <2>3, <2>4 DEF IInv, GraphHasChunks
<1> QED BY <1>3, <1>4, <1>5, <1>6, <1>8, <1>9

LEMMA PurgeRowsInv ==
    ASSUME IInv, PurgeRows
    PROVE  IInv'
<1>1. TypeOK /\ JobOK /\ StoreInv
  BY DEF IInv
<1>2. PICK f \in File : f = job.file
  BY <1>1 DEF JobOK, PurgeRows
<1>3. NoVectors(f) /\ (wal = <<>> \/ ChunkIdsOf(f) = {})
  BY <1>1, <1>2 DEF JobOK, PurgeRows
<1>4. PurgeFile(f) /\ DeleteFileRows(f) /\ UNCHANGED <<points, wal>>
  BY <1>2 DEF PurgeRows, PurgeFile
<1>5. NoOrphanVectors' /\ LogOK' /\ AllOrNothing' /\ GraphHasChunks'
  BY <1>3, <1>4, DeleteRowsStep
<1>6. StoreInv'
  BY <1>1, <1>4, PurgeFileInv
<1>7. JobOK'
  BY BetweenFiles DEF PurgeRows
<1>8. TypeOK'
  BY <1>1, <1>6, NoJobType DEF TypeOK, StoreInv, PurgeRows, PC, envVars
<1> QED BY <1>5, <1>6, <1>7, <1>8 DEF IInv

LEMMA DeleteOldRowsInv ==
    ASSUME IInv, DeleteOldRows
    PROVE  IInv'
<1>1. TypeOK /\ JobOK /\ StoreInv
  BY DEF IInv
<1>2. PICK f \in File : f = job.file
  BY <1>1 DEF JobOK, DeleteOldRows
<1>3. /\ NoVectors(f) /\ (wal = <<>> \/ ChunkIdsOf(f) = {})
      /\ job.hash \in Hash /\ job.text \in Content /\ NumChunks[job.text] \in Nat
  BY <1>1, <1>2, IngestionAssumption DEF JobOK, DeleteOldRows, IngestionAssumption
<1>4. DeleteFileData(f) /\ DeleteFileRows(f) /\ UNCHANGED <<points, wal>>
  BY <1>2 DEF DeleteOldRows, DeleteFileData
<1>5. /\ NoOrphanVectors' /\ LogOK' /\ AllOrNothing' /\ GraphHasChunks'
      /\ NoVectors(f)' /\ ChunkIdsOf(f)' = {}
  BY <1>3, <1>4, DeleteRowsStep
<1>6. StoreInv'
  BY <1>1, <1>4, DeleteFileDataInv
<1>7. JobOK'
  <2>1. job' = job /\ pc' \in {"certify", "register"}
        /\ (pc' = "register" => NumChunks[job.text] > 0)
    BY <1>3 DEF DeleteOldRows, runVars
  <2> QED BY <1>2, <1>3, <1>5, <2>1 DEF JobOK, NoVectors, PointsOf, ChunkIdsOf
<1>8. TypeOK'
  BY <1>1, <1>6 DEF TypeOK, StoreInv, DeleteOldRows, PC, envVars, runVars
<1> QED BY <1>5, <1>6, <1>7, <1>8 DEF IInv
-----------------------------------------------------------------------------
(***************************************************************************)
(* Storing the new version: ids, then vectors.                             *)
(***************************************************************************)
LEMMA RegisterInv ==
    ASSUME IInv, Register
    PROVE  IInv'
<1>1. TypeOK /\ JobOK /\ StoreInv
  BY DEF IInv
<1>2. PICK f \in File, c \in Content : f = job.file /\ c = job.text
  BY <1>1 DEF JobOK, Register
<1>3. PICK g \in FreshGens : job' = [job EXCEPT !.gen = g] /\ RegisterChunks(f, Ids(g, c))
  BY <1>2 DEF Register
<1>4. g \in Gen /\ \A k \in chunks : k.id[1] # g
  BY DEF FreshGens
<1>5. /\ Ids(g, c) \in SUBSET ChunkId /\ NumChunks[c] > 0 /\ Ids(g, c) # {}
      /\ NoVectors(f) /\ ChunkIdsOf(f) = {} /\ job.hash \in Hash
  BY <1>1, <1>2, <1>4, IdsType DEF JobOK, Register
<1>6. \A k \in chunks : k.id \notin Ids(g, c)
  BY <1>4 DEF Ids
<1>7. chunks' = chunks \cup {[id |-> i, file |-> f] : i \in Ids(g, c)}
  BY <1>3, <1>6 DEF RegisterChunks
<1>8. ChunkIdsOf(f)' = Ids(g, c)
  <2>1. \A k \in chunks : k.file # f
    BY <1>5 DEF ChunkIdsOf
  <2> DEFINE new == {[id |-> i, file |-> f] : i \in Ids(g, c)}
  <2>2. {k \in chunks' : k.file = f} = new
    BY <1>7, <2>1
  <2>3. ASSUME NEW i \in Ids(g, c) PROVE \E k \in new : k.id = i
    <3> WITNESS [id |-> i, file |-> f] \in new
    <3> QED OBVIOUS
  <2>4. \A k \in new : k.id \in Ids(g, c)
    OBVIOUS
  <2>5. {k.id : k \in new} = Ids(g, c)
    <3> HIDE DEF new
    <3> QED BY <2>3, <2>4
  <2> QED BY <2>2, <2>5 DEF ChunkIdsOf
<1>9. \A h \in File \ {f} : ChunkIdsOf(h)' = ChunkIdsOf(h)
  BY <1>7 DEF ChunkIdsOf
<1>10. UNCHANGED <<points, wal, mentions, relationships>>
  BY <1>3 DEF Register, RegisterChunks, qdrantVars
<1>11. StoreInv'
  BY <1>1, <1>3, <1>5, RegisterChunksInv
<1>12. NoOrphanVectors' /\ AllOrNothing'
  BY <1>7, <1>10 DEF IInv, NoOrphanVectors, AllOrNothing, PointsOf
<1>13. LogOK'
  <2>1. \A n \in 1..Len(wal') :
          \/ /\ wal'[n].drop = {}
             /\ \E h \in File, d \in Content, k \in Gen :
                   NumChunks[d] > 0 /\ wal'[n].add = Version(h, d, k)
          \/ /\ wal'[n].add = {}
             /\ \E h \in File : wal'[n].drop = ChunkIdsOf(h)' /\ ChunkIdsOf(h)' # {}
    BY <1>5, <1>9, <1>10 DEF IInv, LogOK, WholeVersion, WholeDelete
  <2>2. (\A n \in 1..Len(wal) : WholeVersion(wal[n]) \/ WholeDelete(wal[n]))'
    BY <2>1 DEF WholeVersion, WholeDelete
  <2> QED BY <1>10, <2>2 DEF IInv, LogOK
<1>14. GraphHasChunks'
  BY <1>5, <1>8, <1>9, <1>10 DEF IInv, GraphHasChunks
<1>15. job' \in Job /\ UNCHANGED <<job.file, job.hash, job.text>> /\ job'.gen = g
  BY <1>1, <1>3, <1>4 DEF TypeOK, Job
<1>16. JobOK'
  <2>1. (ChunkIdsOf(job.file) = Ids(job.gen, job.text))'
    BY <1>2, <1>8, <1>15 DEF ChunkIdsOf, Ids
  <2>2. NoVectors(job.file)'
    BY <1>2, <1>5, <1>10, <1>15 DEF NoVectors, PointsOf
  <2>3. pc' = "upsert"
    BY DEF Register
  <2> QED BY <1>2, <1>4, <1>5, <1>15, <2>1, <2>2, <2>3 DEF JobOK
<1>17. TypeOK'
  BY <1>1, <1>11, <1>15 DEF TypeOK, StoreInv, Register, PC, envVars, qdrantVars, runVars
<1> QED BY <1>11, <1>12, <1>13, <1>14, <1>16, <1>17 DEF IInv

\* The vectors of a new version have been registered.
LEMMA VersionRegistered ==
    ASSUME IInv, NEW f \in File, NEW c \in Content, NEW g \in Gen,
           ChunkIdsOf(f) = Ids(g, c)
    PROVE  \A p \in Version(f, c, g) :
              p.file = f /\ [id |-> p.id, file |-> p.file] \in chunks
<1>1. SUFFICES ASSUME NEW i \in Ids(g, c) PROVE [id |-> i, file |-> f] \in chunks
  BY DEF Version
<1>2. PICK k \in chunks : k.file = f /\ k.id = i
  BY DEF ChunkIdsOf
<1>3. k = [id |-> i, file |-> f]
  <2>1. k \in [id : ChunkId, file : File]
    BY DEF IInv, StoreInv, StoreTypeOK
  <2> QED BY <1>2, <2>1
<1> QED BY <1>2, <1>3

LEMMA UpsertPointsInv ==
    ASSUME IInv, UpsertPoints
    PROVE  IInv'
<1>1. TypeOK /\ JobOK /\ StoreInv
  BY DEF IInv
<1>2. PICK f \in File, c \in Content, g \in Gen : f = job.file /\ c = job.text /\ g = job.gen
  BY <1>1 DEF JobOK, UpsertPoints
<1>3. /\ job.hash \in Hash /\ NumChunks[c] > 0 /\ NoVectors(f) /\ ChunkIdsOf(f) = Ids(g, c)
      /\ Version(f, c, g) \in SUBSET Point
  BY <1>1, <1>2, IdsType DEF JobOK, UpsertPoints
<1>4. /\ wal = <<>> /\ wal' = wal /\ schema' = schema
      /\ points' = points \cup Version(f, c, g)
  BY <1>2 DEF UpsertPoints, Call, Upsert, Apply
<1>5. /\ \A p \in Version(f, c, g) : p.file = f /\ [id |-> p.id, file |-> p.file] \in chunks
  BY <1>3, VersionRegistered
<1>6. UNCHANGED storeVars
  BY DEF UpsertPoints
<1>7. StoreInv'
  BY <1>1, <1>6, StoreUnchangedInv
<1>8. NoOrphanVectors' /\ LogOK'
  BY <1>4, <1>5, <1>6 DEF IInv, NoOrphanVectors, LogOK, storeVars
<1>9. AllOrNothing'
  <2>1. PointsOf(f)' = Version(f, c, g)
    BY <1>3, <1>4, <1>5 DEF PointsOf, NoVectors
  <2>2. \A h \in File \ {f} : PointsOf(h)' = PointsOf(h)
    BY <1>4, <1>5 DEF PointsOf
  <2> QED BY <2>1, <2>2 DEF IInv, AllOrNothing
<1>10. GraphHasChunks'
  <2>1. \A h : ChunkIdsOf(h)' = ChunkIdsOf(h)
    BY <1>6 DEF ChunkIdsOf, storeVars
  <2> QED BY <1>6, <2>1 DEF IInv, GraphHasChunks, storeVars
<1>11. JobOK'
  <2>1. job' = job /\ pc' \in {"entities", "extract"}
    BY DEF UpsertPoints
  <2>2. (ChunkIdsOf(job.file) = Ids(job.gen, job.text))'
    BY <1>2, <1>3, <1>6, <2>1 DEF ChunkIdsOf, Ids, storeVars
  <2> QED BY <1>2, <1>3, <2>1, <2>2 DEF JobOK
<1>12. TypeOK'
  BY <1>1, <1>3, <1>4, <1>7 DEF TypeOK, StoreInv, UpsertPoints, PC, envVars, runVars
<1> QED BY <1>7, <1>8, <1>9, <1>10, <1>11, <1>12 DEF IInv

\* An operation joins the log: a version of a file without vectors, or a delete.
LEMMA AppendToLog ==
    ASSUME IInv, NEW op \in Op, wal' = Append(wal, op), UNCHANGED <<storeVars, points>>,
           \/ /\ op.drop = {}
              /\ \E f \in File, c \in Content, g \in Gen :
                    NumChunks[c] > 0 /\ op.add = Version(f, c, g)
           \/ /\ op.add = {}
              /\ \E f \in File : op.drop = ChunkIdsOf(f) /\ ChunkIdsOf(f) # {},
           \A p \in op.add :
              [id |-> p.id, file |-> p.file] \in chunks /\ NoVectors(p.file),
           \A p, q \in op.add : p.file = q.file
    PROVE  NoOrphanVectors' /\ LogOK' /\ AllOrNothing' /\ StoreInv' /\ GraphHasChunks'
<1>1. wal \in Seq(Op) /\ Len(wal) \in Nat
  BY DEF IInv, TypeOK
<1>2. /\ Len(wal') = Len(wal) + 1 /\ wal'[Len(wal) + 1] = op
      /\ \A n \in 1..Len(wal) : wal'[n] = wal[n]
  BY <1>1
<1>3. \A n \in 1..Len(wal') : n = Len(wal) + 1 \/ n \in 1..Len(wal)
  BY <1>1, <1>2
<1>4. \A h : ChunkIdsOf(h)' = ChunkIdsOf(h)
  BY DEF ChunkIdsOf, storeVars
<1>5. NoOrphanVectors'
  BY <1>2, <1>3 DEF IInv, NoOrphanVectors, storeVars
<1>6. LogOK'
  <2>1. \A n \in 1..Len(wal') :
          \/ /\ wal'[n].drop = {}
             /\ \E h \in File, d \in Content, k \in Gen :
                   NumChunks[d] > 0 /\ wal'[n].add = Version(h, d, k)
          \/ /\ wal'[n].add = {}
             /\ \E h \in File : wal'[n].drop = ChunkIdsOf(h)' /\ ChunkIdsOf(h)' # {}
    BY <1>2, <1>3, <1>4 DEF IInv, LogOK, WholeVersion, WholeDelete
  <2>2. (\A n \in 1..Len(wal) : WholeVersion(wal[n]) \/ WholeDelete(wal[n]))'
    BY <2>1 DEF WholeVersion, WholeDelete
  <2>3. \A p \in op.add : /\ \A q \in points : q.file # p.file
                          /\ \A n \in 1..Len(wal) : \A q \in wal[n].add : q.file # p.file
    BY DEF NoVectors, PointsOf
  <2>4. ASSUME NEW n \in 1..Len(wal'), NEW p \in wal'[n].add
        PROVE  /\ \A q \in points' : q.file # p.file
               /\ \A m \in 1..Len(wal') : \A q \in wal'[m].add : q.file = p.file => m = n
    <3>1. CASE n = Len(wal) + 1
      BY <1>2, <1>3, <2>3, <2>4, <3>1
    <3>2. CASE n \in 1..Len(wal)
      BY <1>2, <1>3, <2>3, <2>4, <3>2 DEF IInv, LogOK
    <3> QED BY <1>3, <3>1, <3>2
  <2> QED BY <2>2, <2>4 DEF LogOK
<1>7. AllOrNothing'
  BY DEF IInv, AllOrNothing, PointsOf
<1>8. StoreInv'
  BY StoreUnchangedInv DEF IInv
<1>9. GraphHasChunks'
  BY <1>4 DEF IInv, GraphHasChunks, storeVars
<1> QED BY <1>5, <1>6, <1>7, <1>8, <1>9

LEMMA TimesOutInv ==
    ASSUME IInv, TimesOut
    PROVE  IInv'
<1>1. TypeOK /\ JobOK
  BY DEF IInv
<1>2. /\ UNCHANGED <<storeVars, envVars, schema, points>> /\ Raise
      /\ UNCHANGED <<storeVars, points>>
      /\ faults' \in 0..MaxFaults
  BY <1>1, IngestionAssumption DEF TypeOK, TimesOut, MayFail, IngestionAssumption
<1>3. /\ NoOrphanVectors' /\ LogOK' /\ AllOrNothing' /\ StoreInv' /\ GraphHasChunks'
      /\ wal' \in Seq(Op)
  <2>1. CASE pc = "upsert" /\ wal' = Append(wal, Upsert(Version(job.file, job.text, job.gen)))
    <3>1. PICK f \in File, c \in Content, g \in Gen :
             f = job.file /\ c = job.text /\ g = job.gen
      BY <1>1, <2>1 DEF JobOK
    <3>2. /\ NumChunks[c] > 0 /\ NoVectors(f) /\ ChunkIdsOf(f) = Ids(g, c)
          /\ Version(f, c, g) \in SUBSET Point
      BY <1>1, <2>1, <3>1, IdsType DEF JobOK
    <3>3. \A p \in Version(f, c, g) : p.file = f /\ [id |-> p.id, file |-> p.file] \in chunks
      BY <3>2, VersionRegistered
    <3> DEFINE op == Upsert(Version(f, c, g))
    <3>4. op \in Op /\ op.drop = {} /\ op.add = Version(f, c, g)
      BY <3>2 DEF Upsert, Op
    <3>5. wal' = Append(wal, op)
      BY <2>1, <3>1
    <3>6. /\ \A p \in op.add : [id |-> p.id, file |-> p.file] \in chunks /\ NoVectors(p.file)
          /\ \A p, q \in op.add : p.file = q.file
      BY <3>2, <3>3, <3>4
    <3> HIDE DEF op
    <3>7. NoOrphanVectors' /\ LogOK' /\ AllOrNothing' /\ StoreInv' /\ GraphHasChunks'
      BY <1>2, <3>2, <3>4, <3>5, <3>6, AppendToLog
    <3>8. wal \in Seq(Op)
      BY <1>1 DEF TypeOK
    <3> QED BY <3>4, <3>5, <3>7, <3>8
  <2>2. ASSUME NEW f \in File, ChunkIdsOf(f) # {}, wal' = Append(wal, Delete(ChunkIdsOf(f)))
        PROVE  /\ NoOrphanVectors' /\ LogOK' /\ AllOrNothing' /\ StoreInv' /\ GraphHasChunks'
               /\ wal' \in Seq(Op)
    <3>1. PICK ids \in SUBSET ChunkId : ids = ChunkIdsOf(f)
      <4>1. chunks \subseteq [id : ChunkId, file : File]
        BY DEF IInv, StoreInv, StoreTypeOK
      <4>2. ChunkIdsOf(f) \subseteq ChunkId
        BY <4>1 DEF ChunkIdsOf
      <4> QED BY <4>2
    <3> DEFINE op == Delete(ids)
    <3>2. op \in Op /\ op.add = {} /\ op.drop = ids
      BY DEF Delete, Op
    <3>3. wal' = Append(wal, op)
      BY <2>2, <3>1
    <3> HIDE DEF op
    <3>4. NoOrphanVectors' /\ LogOK' /\ AllOrNothing' /\ StoreInv' /\ GraphHasChunks'
      BY <1>2, <2>2, <3>1, <3>2, <3>3, AppendToLog
    <3>5. wal \in Seq(Op)
      BY <1>1 DEF TypeOK
    <3> QED BY <3>2, <3>3, <3>4, <3>5
  <2>3. CASE pc = "purge" /\ stale # {} /\ ChunkIdsOf(FirstStale) # {}
             /\ wal' = Append(wal, Delete(ChunkIdsOf(FirstStale)))
    <3>1. stale \subseteq File
      BY <1>1 DEF TypeOK
    <3>2. PICK f \in File : f = FirstStale
      BY <2>3, <3>1, FirstStaleType
    <3> QED BY <2>2, <2>3, <3>2
  <2>4. CASE pc = "delVectors" /\ ChunkIdsOf(job.file) # {}
             /\ wal' = Append(wal, Delete(ChunkIdsOf(job.file)))
    <3>1. PICK f \in File : f = job.file
      BY <1>1, <2>4 DEF JobOK
    <3> QED BY <2>2, <2>4, <3>1
  <2> QED BY <2>1, <2>3, <2>4 DEF TimesOut
<1>4. torn' \subseteq File
  <2>1. CASE UNCHANGED torn
    BY <1>1, <2>1 DEF TypeOK
  <2>2. CASE pc = "delVectors" /\ torn' = torn \cup {job.file}
    BY <1>1, <2>2 DEF TypeOK, JobOK
  <2>3. CASE pc = "purge" /\ stale # {} /\ torn' = torn \cup {FirstStale}
    BY <1>1, <2>3, FirstStaleType DEF TypeOK
  <2> QED BY <2>1, <2>2, <2>3 DEF TimesOut
<1>5. TypeOK'
  BY <1>1, <1>2, <1>3, <1>4, RaiseType DEF TypeOK, StoreInv, envVars
<1>6. JobOK'
  BY <1>1, <1>2, RaiseType, BetweenFiles
<1> QED BY <1>3, <1>5, <1>6 DEF IInv

LEMMA ApplyLateInv ==
    ASSUME IInv, ApplyLate
    PROVE  IInv'
<1> DEFINE op == wal[1]
<1>1. TypeOK /\ JobOK /\ LogOK /\ NoOrphanVectors /\ wal \in Seq(Op) /\ wal # <<>>
  BY DEF IInv, TypeOK, ApplyLate
<1>2. /\ 1 \in 1..Len(wal) /\ op \in Op /\ Head(wal) = op
      /\ wal' = Tail(wal) /\ wal' \in Seq(Op)
      /\ Len(wal') = Len(wal) - 1 /\ Len(wal) \in Nat
      /\ \A n \in 1..Len(wal') : n + 1 \in 1..Len(wal) /\ wal'[n] = wal[n + 1]
  BY <1>1 DEF ApplyLate
<1>3. points' = {p \in points : p.id \notin op.drop} \cup op.add
  BY <1>2 DEF ApplyLate, Apply
<1>4. UNCHANGED storeVars
  BY DEF ApplyLate
<1>5. \A h : ChunkIdsOf(h)' = ChunkIdsOf(h)
  BY <1>4 DEF ChunkIdsOf, storeVars
<1>6. points' \subseteq Point
  BY <1>1, <1>2, <1>3 DEF TypeOK, Op
<1>7. NoOrphanVectors'
  BY <1>1, <1>2, <1>3, <1>4 DEF NoOrphanVectors, storeVars
<1>8. LogOK'
  <2>1. \A n \in 1..Len(wal') :
          \/ /\ wal'[n].drop = {}
             /\ \E h \in File, d \in Content, k \in Gen :
                   NumChunks[d] > 0 /\ wal'[n].add = Version(h, d, k)
          \/ /\ wal'[n].add = {}
             /\ \E h \in File : wal'[n].drop = ChunkIdsOf(h)' /\ ChunkIdsOf(h)' # {}
    BY <1>1, <1>2, <1>5 DEF LogOK, WholeVersion, WholeDelete
  <2>2. (\A n \in 1..Len(wal) : WholeVersion(wal[n]) \/ WholeDelete(wal[n]))'
    BY <2>1 DEF WholeVersion, WholeDelete
  <2>3. ASSUME NEW n \in 1..Len(wal'), NEW p \in wal'[n].add
        PROVE  /\ \A q \in points' : q.file # p.file
               /\ \A m \in 1..Len(wal') : \A q \in wal'[m].add : q.file = p.file => m = n
    <3>1. n + 1 \in 1..Len(wal) /\ p \in wal[n + 1].add /\ n \in Nat /\ n + 1 # 1
      BY <1>2
    <3>2. /\ \A q \in points : q.file # p.file
          /\ \A m \in 1..Len(wal) : \A q \in wal[m].add : q.file = p.file => m = n + 1
      BY <1>1, <3>1 DEF LogOK
    <3>3. \A q \in points' : q.file # p.file
      BY <1>2, <1>3, <3>1, <3>2
    <3>4. \A m \in 1..Len(wal') : \A q \in wal'[m].add : q.file = p.file => m = n
      BY <1>2, <3>1, <3>2
    <3> QED BY <3>3, <3>4
  <2> QED BY <2>2, <2>3 DEF LogOK
<1>9. AllOrNothing'
  <2>1. CASE WholeVersion(op)
    <3>1. op.drop = {}
      BY <2>1 DEF WholeVersion
    <3>2. PICK f \in File, c \in Content, g \in Gen : NumChunks[c] > 0 /\ op.add = Version(f, c, g)
      BY <2>1 DEF WholeVersion
    <3>3. /\ \A p \in op.add : p.file = f
          /\ op.add # {}
      <4>1. PICK i : i \in Ids(g, c)
        BY <3>2, IdsType
      <4>2. [id |-> i, file |-> f, text |-> c] \in Version(f, c, g)
        BY <4>1 DEF Version
      <4>3. \A p \in Version(f, c, g) : p.file = f
        BY DEF Version
      <4> QED BY <3>2, <4>2, <4>3
    <3>4. \A p \in points : p.file # f
      BY <1>1, <1>2, <3>3 DEF LogOK
    <3>5. PointsOf(f)' = Version(f, c, g)
      BY <1>3, <3>1, <3>2, <3>3, <3>4 DEF PointsOf
    <3>6. \A h \in File \ {f} : PointsOf(h)' = PointsOf(h)
      BY <1>3, <3>1, <3>3 DEF PointsOf
    <3> QED BY <3>5, <3>6 DEF IInv, AllOrNothing
  <2>2. CASE WholeDelete(op)
    <3>1. PICK f \in File : op.add = {} /\ op.drop = ChunkIdsOf(f)
      BY <2>2 DEF WholeDelete
    <3>2. points' = Apply(Delete(ChunkIdsOf(f)), points)
      BY <1>3, <3>1 DEF Apply, Delete
    <3>3. PointsOf(f)' = {} /\ \A h \in File \ {f} : PointsOf(h)' = PointsOf(h)
      BY <3>2, DeleteEffect
    <3> QED BY <3>3 DEF IInv, AllOrNothing
  <2> QED BY <1>1, <1>2, <2>1, <2>2 DEF LogOK
<1>10. StoreInv'
  BY <1>4, StoreUnchangedInv DEF IInv
<1>11. GraphHasChunks'
  BY <1>4, <1>5 DEF IInv, GraphHasChunks, storeVars
<1>12. UNCHANGED <<pc, job>>
  BY DEF ApplyLate
<1>13. JobOK'
  <2>1. UNCHANGED <<chunks, mentions>>
    BY <1>4 DEF storeVars
  <2>2. ASSUME NoVectors(job.file) PROVE NoVectors(job.file)'
    <3>1. /\ \A p \in points : p.file # job.file
          /\ \A n \in 1..Len(wal) : \A p \in wal[n].add : p.file # job.file
      BY <2>2 DEF NoVectors, PointsOf
    <3>2. \A p \in points' : p.file # job.file
      BY <1>2, <1>3, <3>1
    <3>3. \A n \in 1..Len(wal') : \A p \in wal'[n].add : p.file # job.file
      BY <1>2, <3>1
    <3> QED BY <1>12, <3>2, <3>3 DEF NoVectors, PointsOf
  <2>3. ASSUME ChunkIdsOf(job.file) = {} PROVE (ChunkIdsOf(job.file) = {})'
    BY <2>1, <1>12, <2>3 DEF ChunkIdsOf
  <2>4. ASSUME ChunkIdsOf(job.file) = Ids(job.gen, job.text)
        PROVE  (ChunkIdsOf(job.file) = Ids(job.gen, job.text))'
    BY <2>1, <1>12, <2>4 DEF ChunkIdsOf, Ids
  <2> QED BY <1>1, <1>12, <2>1, <2>2, <2>3, <2>4 DEF JobOK
<1>14. TypeOK'
  BY <1>1, <1>2, <1>6, <1>10 DEF TypeOK, StoreInv, ApplyLate, envVars, runVars
<1> QED BY <1>7, <1>8, <1>9, <1>10, <1>11, <1>13, <1>14 DEF IInv
-----------------------------------------------------------------------------
(***************************************************************************)
(* Writing the graph and the fingerprint.                                  *)
(***************************************************************************)
LEMMA WriteEntitiesInv ==
    ASSUME IInv, WriteEntities
    PROVE  IInv'
<1>1. TypeOK /\ JobOK /\ StoreInv
  BY DEF IInv
<1>2. PICK f \in File, c \in Content, g \in Gen, ments \in EntityRows :
         f = job.file /\ c = job.text /\ g = job.gen /\ ments = job.ents
  BY <1>1 DEF JobOK, WriteEntities, TypeOK, Job, EntityRows
<1>3. /\ job.hash \in Hash /\ NumChunks[c] > 0 /\ ChunkIdsOf(f) = Ids(g, c) /\ Ids(g, c) # {}
  BY <1>1, <1>2, IdsType DEF JobOK, WriteEntities
<1>4. UpsertEntities(f, ments) /\ UNCHANGED <<chunks, relationships, points, wal>> /\ job' = job
  BY <1>2 DEF WriteEntities, UpsertEntities, qdrantVars
<1>5. StoreInv'
  BY <1>1, <1>4, UpsertEntitiesInv
<1>6. /\ NoOrphanVectors' /\ LogOK' /\ AllOrNothing'
      /\ \A h : ChunkIdsOf(h)' = ChunkIdsOf(h)
  BY <1>4, SameChunks
<1>7. /\ \A h \in File \ {f} : mentions'[h] = mentions[h]
      /\ \A e \in Entity : ments[e] # None => mentions'[f][e] # None
  <2>1. mentions' = [mentions EXCEPT ![f] =
           [e \in Entity |-> IF e \in {d \in Entity : ments[d] # None}
                             THEN ments[e] ELSE mentions[f][e]]]
    BY <1>4 DEF UpsertEntities
  <2>2. mentions \in [File -> EntityRows]
    BY <1>1 DEF StoreInv, StoreTypeOK, EntityRows
  <2> QED BY <2>1, <2>2
<1>8. GraphHasChunks'
  BY <1>3, <1>4, <1>6, <1>7 DEF IInv, GraphHasChunks
<1>9. JobOK'
  <2>1. (ChunkIdsOf(job.file) = Ids(job.gen, job.text))'
    BY <1>2, <1>3, <1>4 DEF ChunkIdsOf, Ids
  <2>2. pc' = "rels"
    BY DEF WriteEntities
  <2> QED BY <1>2, <1>3, <1>4, <1>7, <2>1, <2>2 DEF JobOK
<1>10. TypeOK'
  BY <1>1, <1>5 DEF TypeOK, StoreInv, WriteEntities, PC, envVars, qdrantVars, runVars
<1> QED BY <1>5, <1>6, <1>8, <1>9, <1>10 DEF IInv

LEMMA WriteRelationshipsInv ==
    ASSUME IInv, WriteRelationships
    PROVE  IInv'
<1>1. TypeOK /\ JobOK /\ StoreInv
  BY DEF IInv
<1>2. KeptRels \in [Rel -> Nat]
  <2>1. job.rels \in [Rel -> Nat]
    BY <1>1 DEF TypeOK, Job
  <2> QED BY <2>1 DEF KeptRels
<1>3. PICK f \in File, c \in Content, g \in Gen, weights \in [Rel -> Nat] :
         f = job.file /\ c = job.text /\ g = job.gen /\ weights = KeptRels
  BY <1>1, <1>2 DEF JobOK, WriteRelationships
<1>4. /\ job.hash \in Hash /\ NumChunks[c] > 0 /\ ChunkIdsOf(f) = Ids(g, c) /\ Ids(g, c) # {}
      /\ \A e \in Entity : job.ents[e] # None => mentions[f][e] # None
  BY <1>1, <1>3, IdsType DEF JobOK, WriteRelationships
<1>5. /\ UpsertRelationships(f, weights) /\ job' = job
      /\ UNCHANGED <<chunks, mentions, points, wal>>
  BY <1>3 DEF WriteRelationships, UpsertRelationships, qdrantVars
<1>6. StoreInv'
  BY <1>1, <1>5, UpsertRelationshipsInv
<1>7. /\ NoOrphanVectors' /\ LogOK' /\ AllOrNothing'
      /\ \A h : ChunkIdsOf(h)' = ChunkIdsOf(h)
  BY <1>5, SameChunks
<1>8. \A h \in File \ {f} : relationships'[h] = relationships[h]
  <2>1. relationships \in [File -> [Rel -> Nat]]
    BY <1>1 DEF StoreInv, StoreTypeOK
  <2> QED BY <1>5, <2>1 DEF UpsertRelationships
<1>9. GraphHasChunks'
  BY <1>4, <1>5, <1>7, <1>8 DEF IInv, GraphHasChunks
<1>10. JobOK'
  <2>1. (ChunkIdsOf(job.file) = Ids(job.gen, job.text))'
    BY <1>3, <1>4, <1>5 DEF ChunkIdsOf, Ids
  <2>2. pc' = "link"
    BY DEF WriteRelationships
  <2> QED BY <1>3, <1>4, <1>5, <2>1, <2>2 DEF JobOK
<1>11. TypeOK'
  BY <1>1, <1>6 DEF TypeOK, StoreInv, WriteRelationships, PC, envVars, qdrantVars, runVars
<1> QED BY <1>6, <1>7, <1>9, <1>10, <1>11 DEF IInv

LEMMA LinkPairsType ==
    ASSUME IInv, pc = "link"
    PROVE  /\ LinkPairs \in SUBSET (ChunkId \X Entity)
           /\ \A l \in LinkPairs : job.ents[l[2]] # None /\ l[1] \in ChunkIdsOf(job.file)
<1>1. /\ job.text \in Content /\ job.gen \in Gen
      /\ ChunkIdsOf(job.file) = Ids(job.gen, job.text)
  BY DEF IInv, JobOK
<1>2. /\ Matches[job.text] \in SUBSET ((Nat \ {0}) \X Entity)
      /\ \A m \in Matches[job.text] : m[1] <= NumChunks[job.text]
      /\ NumChunks[job.text] \in Nat
  BY <1>1, IngestionAssumption DEF IngestionAssumption
<1>3. SUFFICES ASSUME NEW m \in Matches[job.text], job.ents[m[2]] # None
               PROVE  /\ m[1] \in Nat \ {0} /\ m[2] \in Entity
                      /\ <<job.gen, m[1]>> \in Ids(job.gen, job.text)
  BY <1>1 DEF LinkPairs, ChunkId
<1>4. m[1] \in Nat \ {0} /\ m[2] \in Entity /\ m[1] \in 1..NumChunks[job.text]
  BY <1>2
<1> QED BY <1>4 DEF Ids

LEMMA WriteLinksInv ==
    ASSUME IInv, WriteLinks
    PROVE  IInv'
<1>1. TypeOK /\ JobOK /\ StoreInv
  BY DEF IInv
<1>2. PICK pairs \in SUBSET (ChunkId \X Entity) : pairs = LinkPairs
  BY LinkPairsType DEF WriteLinks
<1>3. /\ LinkChunks(pairs) /\ job' = job
      /\ UNCHANGED <<chunks, relationships, mentions, points, wal>>
  BY <1>2 DEF WriteLinks, LinkChunks, qdrantVars
<1>4. StoreInv'
  BY <1>1, <1>3, LinkChunksInv
<1>5. NoOrphanVectors' /\ LogOK' /\ AllOrNothing' /\ GraphHasChunks'
  BY <1>3, CacheStep
<1>6. JobOK'
  BY <1>1, <1>3 DEF JobOK, WriteLinks
<1>7. TypeOK'
  BY <1>1, <1>4 DEF TypeOK, StoreInv, WriteLinks, PC, envVars, qdrantVars, runVars
<1> QED BY <1>4, <1>5, <1>6, <1>7 DEF IInv

LEMMA CertifyInv ==
    ASSUME IInv, Certify
    PROVE  IInv'
<1>1. TypeOK /\ JobOK /\ StoreInv
  BY DEF IInv
<1>2. PICK f \in File, h \in Hash : f = job.file /\ h = job.hash
  BY <1>1 DEF JobOK, Certify
<1>3. UNCHANGED storeVars \/ UpsertHash(f, h)
  BY <1>2 DEF Certify
<1>4. StoreInv'
  BY <1>1, <1>3, UpsertHashInv, StoreUnchangedInv
<1>5. UNCHANGED <<chunks, relationships, mentions, points, wal>>
  BY <1>3 DEF Certify, UpsertHash, storeVars, qdrantVars
<1>6. NoOrphanVectors' /\ LogOK' /\ AllOrNothing' /\ GraphHasChunks'
  BY <1>5, CacheStep
<1>7. NextFileAfter("indexed")
  BY DEF Certify
<1>8. JobOK'
  BY <1>1, <1>7, NextFileAfterType, BetweenFiles
<1>9. TypeOK'
  BY <1>1, <1>4, <1>7, NextFileAfterType DEF TypeOK, StoreInv, Certify, envVars, qdrantVars
<1> QED BY <1>4, <1>6, <1>8, <1>9 DEF IInv
-----------------------------------------------------------------------------
LEMMA InitInv == Init => IInv
<1> SUFFICES ASSUME Init PROVE IInv
  OBVIOUS
<1>1. StoreInv /\ StoreTypeOK
  BY StoreInitInv DEF Init, StoreInv
<1>2. seen \in [File -> SUBSET Content]
  BY DEF Init
<1>3. edits \in 0..MaxEdits /\ faults \in 0..MaxFaults
  BY IngestionAssumption DEF Init, IngestionAssumption
<1>4. wal \in Seq(Op) /\ Len(wal) = 0
  BY DEF Init
<1>5. TypeOK
  BY <1>1, <1>2, <1>3, <1>4, NoJobType DEF Init, TypeOK, PC
<1>6. JobOK
  BY DEF Init, JobOK
<1>7. NoOrphanVectors /\ LogOK /\ AllOrNothing
  BY <1>4 DEF Init, NoOrphanVectors, LogOK, AllOrNothing, PointsOf
<1>8. GraphHasChunks
  BY DEF Init, StoreInit, GraphHasChunks
<1> QED BY <1>1, <1>5, <1>6, <1>7, <1>8 DEF IInv

LEMMA StutterInv == IInv /\ UNCHANGED vars => IInv'
<1> SUFFICES ASSUME IInv, UNCHANGED vars PROVE IInv'
  OBVIOUS
<1>1. UNCHANGED <<storeVars, points, wal>> /\ UNCHANGED <<pc, job, chunks, mentions, points, wal>>
  BY DEF vars, qdrantVars, storeVars
<1>2. StoreTypeOK' /\ TypeOK /\ JobOK
  BY <1>1, ControlStep DEF IInv, StoreInv
<1>3. TypeOK'
  BY <1>2 DEF TypeOK, vars, envVars, qdrantVars, runVars
<1>4. JobOK'
  BY <1>1, <1>2 DEF JobOK, NoVectors, PointsOf, ChunkIdsOf
<1> QED BY <1>1, <1>3, <1>4, ControlInv

\* Every step of the indexer, of its environment and of its failures.
LEMMA NextInv == IInv /\ [Next]_vars => IInv'
<1> SUFFICES ASSUME IInv, [Next]_vars PROVE IInv'
  OBVIOUS
<1>1. CASE IndexerStep
  BY <1>1, StepsOfMain, CollectInv, PurgeVectorsInv, PurgeRowsInv, NextFileInv, HashFileInv,
     ReadFileInv, EmbedInv, DeleteOldVectorsInv, DeleteOldRowsInv, RegisterInv, UpsertPointsInv,
     ExtractBatchInv, ExtractDoneInv, WriteEntitiesInv, WriteRelationshipsInv, WriteLinksInv,
     CertifyInv
     DEF IndexerStep
<1>2. CASE Failure
  BY <1>2, StepsOfMain, StepFailsInv, TimesOutInv, ExtractBatchFailsInv DEF Failure
<1>3. CASE StartRun \/ ApplyLate
  BY <1>3, StepsOfMain, ApplyLateInv
<1>4. CASE \E f \in File, c \in Content \cup {None} : Edit(f, c)
  BY <1>4, EditInv
<1>5. CASE UNCHANGED vars
  BY <1>5, StutterInv
<1> QED BY <1>1, <1>2, <1>3, <1>4, <1>5 DEF Next

\* The inductive invariant holds at every step of the indexer, whatever fails.
THEOREM IngestionInvariant == Spec => []IInv
<1>1. Init => IInv
  BY InitInv
<1>2. IInv /\ [Next]_vars => IInv'
  BY NextInv
<1> QED BY <1>1, <1>2, PTL DEF Spec

\* Whatever fails, the variables keep values of the program's types
\* (index_documents.py:301-343, 407-453).
THEOREM IngestionTypeCorrect == Spec => []TypeOK
<1>1. IInv => TypeOK
  BY DEF IInv
<1> QED BY <1>1, IngestionInvariant, PTL

\* No failure, time-out or kill leaves a vector in Qdrant whose id SQLite does not
\* know, so no vector is ever beyond reach of a delete (index_documents.py:246-248).
THEOREM NoOrphans == Spec => []NoOrphanVectors
<1>1. IInv => NoOrphanVectors
  BY DEF IInv
<1> QED BY <1>1, IngestionInvariant, PTL

\* Searches never see a part of a file or two versions of it (index_documents.py:271-279,
\* 258).
THEOREM WholeVersionsOnly == Spec => []AllOrNothing
<1>1. IInv => AllOrNothing
  BY DEF IInv
<1> QED BY <1>1, IngestionInvariant, PTL

\* The purge of deleted files finds every file that has left anything behind in Qdrant
\* or in the graph (record_store.py:206-213).
THEOREM NothingEscapesPurge == Spec => []LeftoversTracked
<1>1. ASSUME IInv PROVE LeftoversTracked
  <2>1. ASSUME NEW f \in File, PointsOf(f) # {} PROVE ChunkIdsOf(f) # {}
    <3>1. PICK p \in points : p.file = f
      BY <2>1 DEF PointsOf
    <3>2. p.id \in ChunkIdsOf(f)
      BY <1>1, <3>1, IdsOfFile
    <3> QED BY <3>2
  <2> QED BY <1>1, <2>1 DEF IInv, GraphHasChunks, LeftoversTracked, TrackedPaths
<1> QED BY <1>1, IngestionInvariant, PTL

\* The indexer never runs into a foreign key of the graph store (index_documents.py:250-268,
\* extractor.py:175-185).
THEOREM NoForeignKeyError == Spec => []ForeignKeysHold
<1>1. ASSUME IInv PROVE ForeignKeysHold
  <2>1. StoreInv /\ JobOK
    BY <1>1 DEF IInv
  <2>2. CASE pc = "rels"
    <3>1. job.file \in File /\ \A e \in Entity : job.ents[e] # None => mentions[job.file][e] # None
      BY <2>1, <2>2 DEF JobOK
    <3>2. \A e \in Entity : job.ents[e] # None => entities[e] # None
      BY <2>1, <3>1 DEF StoreInv, EntityIffReferenced, Referenced, DocsMentioning
    <3>3. \A r \in Rel : KeptRels[r] > 0 => job.ents[r[1]] # None /\ job.ents[r[2]] # None
      BY DEF KeptRels
    <3> QED BY <2>2, <3>2, <3>3 DEF ForeignKeysHold, Rel
  <2>3. CASE pc = "link"
    <3>1. job.file \in File /\ \A e \in Entity : job.ents[e] # None => mentions[job.file][e] # None
      BY <2>1, <2>3 DEF JobOK
    <3>2. \A e \in Entity : job.ents[e] # None => entities[e] # None
      BY <2>1, <3>1 DEF StoreInv, EntityIffReferenced, Referenced, DocsMentioning
    <3>3. \A l \in LinkPairs : l[2] \in Entity /\ job.ents[l[2]] # None /\ l[1] \in ChunkIdsOf(job.file)
      BY <1>1, <2>3, LinkPairsType
    <3> QED BY <2>3, <3>2, <3>3 DEF ForeignKeysHold, ChunkIdsOf
  <2>4. CASE pc # "rels" /\ pc # "link"
    BY <2>4 DEF ForeignKeysHold
  <2> QED BY <2>2, <2>3, <2>4
<1> QED BY <1>1, IngestionInvariant, PTL

LEMMA SchemaGrows == [Next]_vars => schema \subseteq schema'
<1> SUFFICES ASSUME [Next]_vars PROVE schema \subseteq schema'
  OBVIOUS
<1> USE DEF qdrantVars
<1>1. CASE IndexerStep
  BY <1>1 DEF IndexerStep, EnsureCollection, Collect, PurgeVectors, PurgeRows, PurgeDone,
     NextFile, Finish, HashFile, ReadFile, Embed, DeleteOldVectors, DeleteOldRows, Register,
     UpsertPoints, ExtractBatch, ExtractDone, WriteEntities, WriteRelationships, WriteLinks,
     Certify, DeleteVectors, Call
<1>2. CASE Failure
  BY <1>2 DEF Failure, Crash, StepFails, TimesOut, ExtractBatchFails
<1>3. CASE StartRun \/ ApplyLate
  BY <1>3 DEF StartRun, ApplyLate
<1>4. CASE \E f \in File, c \in Content \cup {None} : Edit(f, c)
  BY <1>4 DEF Edit
<1>5. CASE UNCHANGED vars
  BY <1>5 DEF vars
<1> QED BY <1>1, <1>2, <1>3, <1>4, <1>5 DEF Next

\* Without a complete schema main() gets no further than ensure_collection.
LEMMA NotReadyStep ==
    ASSUME [Next]_vars, ~SchemaReady, pc \in {"idle", "ensure"}, points = {}, wal = <<>>
    PROVE  pc' \in {"idle", "ensure"} /\ points' = {} /\ wal' = <<>>
<1> USE DEF qdrantVars, runVars
<1>1. CASE IndexerStep
  BY <1>1 DEF IndexerStep, EnsureCollection, Collect, PurgeVectors, PurgeRows, PurgeDone,
     NextFile, Finish, HashFile, ReadFile, Embed, DeleteOldVectors, DeleteOldRows, Register,
     UpsertPoints, ExtractBatch, ExtractDone, WriteEntities, WriteRelationships, WriteLinks,
     Certify, SchemaReady
<1>2. CASE Failure
  <2>1. CASE Crash
    BY <2>1 DEF Crash
  <2>2. CASE StepFails
    BY <2>2 DEF StepFails, FaultsAt, Raise
  <2>3. CASE TimesOut \/ ExtractBatchFails
    BY <2>3 DEF TimesOut, ExtractBatchFails
  <2> QED BY <1>2, <2>1, <2>2, <2>3 DEF Failure
<1>3. CASE StartRun \/ ApplyLate
  BY <1>3 DEF StartRun, ApplyLate
<1>4. CASE \E f \in File, c \in Content \cup {None} : Edit(f, c)
  BY <1>4 DEF Edit
<1>5. CASE UNCHANGED vars
  BY <1>5 DEF vars
<1> QED BY <1>1, <1>2, <1>3, <1>4, <1>5 DEF Next

\* The payload indexes a filtered search needs exist before there is anything to search,
\* even if earlier runs died while creating them (index_documents.py:172-198).
THEOREM SchemaFirst == Spec => []SchemaBeforePoints
<1>1. Init => SchemaOK
  BY DEF Init, SchemaOK
<1>2. SchemaOK /\ [Next]_vars => SchemaOK'
  <2> SUFFICES ASSUME SchemaOK, [Next]_vars PROVE SchemaOK'
    OBVIOUS
  <2>1. CASE SchemaReady
    BY <2>1, SchemaGrows DEF SchemaOK, SchemaReady
  <2>2. CASE ~SchemaReady
    BY <2>2, NotReadyStep DEF SchemaOK
  <2> QED BY <2>1, <2>2
<1>3. SchemaOK => SchemaBeforePoints
  BY DEF SchemaOK, SchemaBeforePoints, SchemaReady
<1> QED BY <1>1, <1>2, <1>3, PTL DEF Spec
-----------------------------------------------------------------------------
(***************************************************************************)
(* A run leaves files alone that it could not vouch for.                   *)
(***************************************************************************)
VectorsKept(f) == wal = <<>> => PointsOf(f)' = PointsOf(f)

\* A transaction about one file keeps the rows of the others.
LEMMA DeleteKeepsOthers ==
    ASSUME StoreInv, NEW g \in File, NEW f \in File \ {g}, DeleteFileData(g) \/ PurgeFile(g)
    PROVE  RowsKept(f)
<1>1. /\ chunks' = {c \in chunks : c.file # g}
      /\ relationships' = [relationships EXCEPT ![g] = [r \in Rel |-> 0]]
      /\ mentions' = [mentions EXCEPT ![g] = [e \in Entity |-> None]]
      /\ fingerprints' = [fingerprints EXCEPT ![g] = None]
      /\ \/ extraction_cache' = extraction_cache
         \/ extraction_cache' = [extraction_cache EXCEPT ![g] = [i \in BatchIndex |-> None]]
  BY DEF DeleteFileData, PurgeFile, DeleteFileRows
<1>2. ChunkIdsOf(f)' = ChunkIdsOf(f)
  BY <1>1 DEF ChunkIdsOf
<1>3. /\ mentions'[f] = mentions[f] /\ relationships'[f] = relationships[f]
      /\ fingerprints'[f] = fingerprints[f] /\ extraction_cache'[f] = extraction_cache[f]
  BY <1>1 DEF StoreInv, StoreTypeOK
<1> QED BY <1>2, <1>3 DEF RowsKept

LEMMA RegisterKeepsOthers ==
    ASSUME IInv, Register, NEW f \in File \ {job.file}
    PROVE  RowsKept(f)
<1> DEFINE g == CHOOSE h \in FreshGens : TRUE
<1>1. g \in FreshGens
  BY DEF Register
<1>2. /\ chunks' = {c \in chunks : c.id \notin Ids(g, job.text)}
                      \cup {[id |-> i, file |-> job.file] : i \in Ids(g, job.text)}
      /\ UNCHANGED <<relationships, mentions, fingerprints, extraction_cache>>
  BY DEF Register, RegisterChunks
<1>3. \A c \in chunks : c.id \notin Ids(g, job.text)
  BY <1>1 DEF FreshGens, Ids
<1>4. ChunkIdsOf(f)' = ChunkIdsOf(f)
  BY <1>2, <1>3 DEF ChunkIdsOf
<1> QED BY <1>2, <1>4 DEF RowsKept

LEMMA WritesKeepOthers ==
    ASSUME IInv, WriteEntities \/ WriteRelationships \/ WriteLinks \/ ExtractBatch \/ Certify,
           NEW f \in File \ {job.file}
    PROVE  RowsKept(f)
<1>1. UNCHANGED chunks
  BY DEF WriteEntities, WriteRelationships, WriteLinks, ExtractBatch, Certify, UpsertEntities,
         UpsertRelationships, LinkChunks, CacheExtraction, UpsertHash, storeVars
<1>2. mentions'[f] = mentions[f] /\ relationships'[f] = relationships[f]
  BY DEF WriteEntities, WriteRelationships, WriteLinks, ExtractBatch, Certify, UpsertEntities,
         UpsertRelationships, LinkChunks, CacheExtraction, UpsertHash, storeVars,
         IInv, StoreInv, StoreTypeOK
<1>3. fingerprints'[f] = fingerprints[f] /\ extraction_cache'[f] = extraction_cache[f]
  BY DEF WriteEntities, WriteRelationships, WriteLinks, ExtractBatch, Certify, UpsertEntities,
         UpsertRelationships, LinkChunks, CacheExtraction, UpsertHash, storeVars,
         IInv, StoreInv, StoreTypeOK
<1> QED BY <1>1, <1>2, <1>3 DEF RowsKept, ChunkIdsOf

LEMMA DeleteVectorsKeepsOthers ==
    ASSUME IInv, NEW g \in File, DeleteVectors(g), NEW f \in File \ {g}
    PROVE  VectorsKept(f)
<1>1. CASE ChunkIdsOf(g) = {}
  BY <1>1 DEF DeleteVectors, VectorsKept, PointsOf
<1>2. CASE ChunkIdsOf(g) # {}
  BY <1>2, DeleteEffect DEF DeleteVectors, Call, VectorsKept
<1> QED BY <1>1, <1>2

LEMMA UpsertKeepsOthers ==
    ASSUME IInv, UpsertPoints, NEW f \in File \ {job.file}
    PROVE  VectorsKept(f)
<1>1. points' = points \cup Version(job.file, job.text, job.gen)
  BY DEF UpsertPoints, Call, Apply, Upsert
<1>2. \A p \in Version(job.file, job.text, job.gen) : p.file = job.file
  BY DEF Version
<1> QED BY <1>1, <1>2 DEF VectorsKept, PointsOf

LEMMA SameRows == ASSUME UNCHANGED storeVars, NEW f PROVE RowsKept(f)
BY DEF storeVars, RowsKept, ChunkIdsOf

LEMMA SameVectors == ASSUME UNCHANGED points, NEW f PROVE VectorsKept(f)
BY DEF VectorsKept, PointsOf

\* Only the file at hand, or the next one to purge, is changed.
LEMMA OthersKept ==
    ASSUME IInv, [Next]_vars, NEW f \in File, job.file # f, f \notin stale
    PROVE  RowsKept(f) /\ VectorsKept(f)
<1> USE DEF qdrantVars
<1>1. CASE StartRun \/ EnsureCollection \/ Collect \/ PurgeDone \/ NextFile \/ Finish
             \/ HashFile \/ ReadFile \/ Embed \/ ExtractDone \/ Failure
  <2>1. UNCHANGED <<storeVars, points>>
    <3>1. CASE Failure
      BY <3>1 DEF Failure, Crash, StepFails, TimesOut, ExtractBatchFails
    <3>2. CASE StartRun \/ EnsureCollection \/ Collect \/ PurgeDone
      BY <3>2 DEF StartRun, EnsureCollection, Collect, PurgeDone
    <3>3. CASE NextFile \/ Finish \/ Embed \/ ExtractDone
      BY <3>3 DEF NextFile, Finish, Embed, ExtractDone
    <3>4. CASE HashFile
      BY <3>4 DEF HashFile
    <3>5. CASE ReadFile
      BY <3>5 DEF ReadFile
    <3> QED BY <1>1, <3>1, <3>2, <3>3, <3>4, <3>5
  <2> QED BY <2>1, SameRows, SameVectors
<1>2. CASE PurgeVectors
  <2>1. FirstStale \in stale /\ FirstStale \in File
    BY <1>2, FirstStaleType DEF PurgeVectors, IInv, TypeOK
  <2>2. UNCHANGED storeVars /\ DeleteVectors(FirstStale)
    BY <1>2 DEF PurgeVectors
  <2> QED BY <2>1, <2>2, SameRows, DeleteVectorsKeepsOthers
<1>3. CASE DeleteOldVectors
  <2>1. UNCHANGED storeVars /\ DeleteVectors(job.file) /\ job.file \in File
    BY <1>3 DEF DeleteOldVectors, IInv, JobOK
  <2> QED BY <2>1, SameRows, DeleteVectorsKeepsOthers
<1>4. CASE PurgeRows \/ DeleteOldRows
  <2>1. job.file \in File /\ StoreInv /\ UNCHANGED points
    BY <1>4 DEF PurgeRows, DeleteOldRows, IInv, JobOK
  <2>2. DeleteFileData(job.file) \/ PurgeFile(job.file)
    BY <1>4 DEF PurgeRows, DeleteOldRows
  <2> QED BY <2>1, <2>2, DeleteKeepsOthers, SameVectors
<1>5. CASE Register
  BY <1>5, RegisterKeepsOthers, SameVectors DEF Register
<1>6. CASE UpsertPoints
  BY <1>6, UpsertKeepsOthers, SameRows DEF UpsertPoints
<1>7. CASE WriteEntities \/ WriteRelationships \/ WriteLinks \/ ExtractBatch \/ Certify
  <2>1. UNCHANGED points
    BY <1>7 DEF WriteEntities, WriteRelationships, WriteLinks, ExtractBatch, Certify
  <2> QED BY <1>7, <2>1, WritesKeepOthers, SameVectors
<1>8. CASE ApplyLate
  BY <1>8, SameRows DEF ApplyLate, VectorsKept
<1>9. CASE \E g \in File, c \in Content \cup {None} : Edit(g, c)
  BY <1>9, SameRows, SameVectors DEF Edit
<1>10. CASE UNCHANGED vars
  BY <1>10, SameRows, SameVectors DEF vars
<1> QED BY <1>1, <1>2, <1>3, <1>4, <1>5, <1>6, <1>7, <1>8, <1>9, <1>10 DEF Next, IndexerStep

\* What a run finds, and what it calls stale, are two different things.
LEMMA CollectLeavesAlone == ASSUME IInv, LeftAlone, Collect PROVE LeftAlone'
<1>1. todo' = files' /\ stale' = {f \in TrackedPaths \ files' : DirsOf[f] \cap unscanned' = {}}
  BY CollectEffect DEF IInv
<1>2. job'.file = None /\ pc' = "purge"
  BY DEF Collect, LeftAlone
<1>3. stale' \subseteq Vanished'
  BY <1>1 DEF Vanished, Scanned, TrackedPaths
<1> QED BY <1>1, <1>2, <1>3 DEF LeftAlone

LEMMA RaiseFile ==
    ASSUME Raise \/ \E outcome : NextFileAfter(outcome)
    PROVE  /\ job'.file = None /\ pc' \in {"idle", "next"}
           /\ UNCHANGED <<files, todo, stale, unscanned>> \/ pc' = "idle"
BY DEF Raise, NextFileAfter, NoJob, JobFor

\* A run goes on to what it has listed, and to nothing else.
LEMMA RunGoesOn ==
    ASSUME IInv, LeftAlone, [Next]_vars, ~Collect, pc' \notin {"idle", "ensure"}
    PROVE  /\ UNCHANGED <<files, unscanned>> /\ todo' \subseteq todo /\ stale' \subseteq stale
           /\ pc \notin {"idle", "ensure"}
           /\ job'.file \in {job.file, None} \cup todo \cup stale
           /\ pc' \in {"purge", "next"} => job'.file = None
           /\ pc' = "purgeRows" => job'.file \in stale'
           /\ job'.file = None \/ stale' = stale
<1> USE DEF runVars
<1>1. CASE StartRun \/ EnsureCollection \/ Finish \/ Crash
  BY <1>1 DEF StartRun, EnsureCollection, Finish, Crash
<1>2. CASE PurgeDone \/ ExtractDone \/ DeleteOldVectors \/ DeleteOldRows \/ UpsertPoints
             \/ WriteEntities \/ WriteRelationships \/ WriteLinks
  <2>1. UNCHANGED <<files, todo, stale, unscanned, job>> /\ pc \notin {"idle", "ensure"}
    BY <1>2 DEF PurgeDone, ExtractDone, DeleteOldVectors, DeleteOldRows, UpsertPoints,
       WriteEntities, WriteRelationships, WriteLinks
  <2>2. (pc' \in {"purge", "next"} => pc = "purge") /\ pc' # "purgeRows"
    BY <1>2 DEF PurgeDone, ExtractDone, DeleteOldVectors, DeleteOldRows, UpsertPoints,
       WriteEntities, WriteRelationships, WriteLinks
  <2> QED BY <2>1, <2>2 DEF LeftAlone
<1>3. CASE PurgeVectors
  <2>1. FirstStale \in stale /\ job' = JobFor(FirstStale) /\ UNCHANGED runVars
    BY <1>3, FirstStaleType DEF PurgeVectors, IInv, TypeOK
  <2> QED BY <1>3, <2>1 DEF PurgeVectors, JobFor
<1>4. CASE PurgeRows
  BY <1>4 DEF PurgeRows, NoJob, JobFor
<1>5. CASE NextFile
  <2>1. PICK f \in todo : job' = JobFor(f) /\ todo' = todo \ {f}
    BY <1>5 DEF NextFile
  <2> QED BY <1>5, <2>1 DEF NextFile, JobFor
<1>6. CASE HashFile \/ ReadFile \/ Certify
  <2>1. \/ \E outcome : NextFileAfter(outcome)
        \/ /\ UNCHANGED <<files, todo, stale, unscanned>> /\ job'.file = job.file
           /\ pc' \notin {"purge", "next", "purgeRows"}
    <3>1. CASE HashFile
      <4>1. \/ \E outcome : NextFileAfter(outcome)
            \/ pc' = "read" /\ (\E h : job' = [job EXCEPT !.hash = h]) /\ UNCHANGED runVars
        BY <3>1 DEF HashFile
      <4> QED BY <4>1 DEF IInv, TypeOK, Job
    <3>2. CASE ReadFile
      <4>1. \/ \E outcome : NextFileAfter(outcome)
            \/ /\ pc' \in {"delVectors", "embed"}
               /\ (\E c : job' = [job EXCEPT !.text = c]) /\ UNCHANGED runVars
        BY <3>2 DEF ReadFile
      <4> QED BY <4>1 DEF IInv, TypeOK, Job
    <3>3. CASE Certify
      BY <3>3 DEF Certify
    <3> QED BY <1>6, <3>1, <3>2, <3>3
  <2>2. pc \notin {"idle", "ensure"}
    BY <1>6 DEF HashFile, ReadFile, Certify
  <2> QED BY <2>1, <2>2, RaiseFile
<1>7. CASE Embed \/ Register \/ ExtractBatch \/ ExtractBatchFails
  <2>1. /\ UNCHANGED <<files, todo, stale, unscanned>> /\ job'.file = job.file
        /\ pc' \notin {"purge", "next", "purgeRows"} /\ pc \notin {"idle", "ensure"}
    BY <1>7 DEF Embed, Register, ExtractBatch, ExtractBatchFails, IInv, TypeOK, Job
  <2> QED BY <2>1
<1>8. CASE StepFails \/ TimesOut
  <2>1. Raise
    BY <1>8 DEF StepFails, TimesOut
  <2>2. pc \notin {"idle", "ensure"}
    BY <1>8, <2>1 DEF StepFails, TimesOut, FaultsAt, Raise
  <2> QED BY <2>1, <2>2, RaiseFile
<1>9. CASE ApplyLate \/ (\E g \in File, c \in Content \cup {None} : Edit(g, c)) \/ UNCHANGED vars
  <2>1. UNCHANGED <<files, pc, todo, stale, unscanned, job>>
    BY <1>9 DEF ApplyLate, Edit, vars
  <2> QED BY <2>1 DEF LeftAlone
<1> QED BY <1>1, <1>2, <1>3, <1>4, <1>5, <1>6, <1>7, <1>8, <1>9 DEF Next, IndexerStep, Failure

\* Between runs main() has no file at hand.
LEMMA NoFileBetweenRuns ==
    ASSUME LeftAlone, [Next]_vars, pc' \in {"idle", "ensure"}
    PROVE  job'.file = None
<1>1. CASE StartRun \/ EnsureCollection \/ Finish
  BY <1>1 DEF StartRun, EnsureCollection, Finish, LeftAlone
<1>2. CASE Crash
  BY <1>2 DEF Crash, NoJob, JobFor
<1>3. CASE StepFails \/ TimesOut
  BY <1>3, RaiseFile DEF StepFails, TimesOut
<1>4. CASE HashFile \/ ReadFile \/ Certify
  BY <1>4 DEF HashFile, ReadFile, Certify, NextFileAfter
<1>5. CASE Collect \/ PurgeVectors \/ PurgeRows \/ PurgeDone \/ NextFile \/ Embed \/ DeleteOldVectors
             \/ DeleteOldRows \/ Register \/ UpsertPoints
  BY <1>5 DEF Collect, PurgeVectors, PurgeRows, PurgeDone, NextFile, Embed, DeleteOldVectors,
     DeleteOldRows, Register, UpsertPoints
<1>6. CASE ExtractBatch \/ ExtractBatchFails \/ ExtractDone \/ WriteEntities \/ WriteRelationships
             \/ WriteLinks
  BY <1>6 DEF ExtractBatch, ExtractBatchFails, ExtractDone, WriteEntities, WriteRelationships,
     WriteLinks
<1>7. CASE ApplyLate \/ (\E g \in File, c \in Content \cup {None} : Edit(g, c)) \/ UNCHANGED vars
  <2>1. UNCHANGED <<pc, job>>
    BY <1>7 DEF ApplyLate, Edit, vars
  <2> QED BY <2>1 DEF LeftAlone
<1> QED BY <1>1, <1>2, <1>3, <1>4, <1>5, <1>6, <1>7 DEF Next, IndexerStep, Failure

LEMMA LeftAloneStep == ASSUME IInv, LeftAlone, [Next]_vars PROVE LeftAlone'
<1>1. CASE Collect
  BY <1>1, CollectLeavesAlone
<1>2. CASE ~Collect /\ pc' \notin {"idle", "ensure"}
  <2>1. Vanished' = Vanished
    BY <1>2, RunGoesOn DEF Vanished, Scanned
  <2> QED BY <1>2, <2>1, RunGoesOn DEF LeftAlone
<1>3. CASE pc' \in {"idle", "ensure"}
  BY <1>3, NoFileBetweenRuns DEF LeftAlone
<1> QED BY <1>1, <1>2, <1>3

LEMMA LeftAloneInit == ASSUME Init PROVE LeftAlone
BY DEF Init, LeftAlone, NoJob, JobFor

\* Whatever fails, a run leaves alone what is stored for a file that it did not find and that
\* is under a directory it could not list, or under an empty index path
\* (index_documents.py:376-382, 419-421).
THEOREM UnscannedKept == Spec => KeepsUnscanned
<1>1. Init => LeftAlone
  BY LeftAloneInit
<1>2. IInv /\ LeftAlone /\ [Next]_vars => LeftAlone'
  BY LeftAloneStep
<1>3. ASSUME IInv, LeftAlone, [Next]_vars, NEW f \in File \ files, pc \notin {"idle", "ensure"},
             ~Scanned(f)
      PROVE  RowsKept(f) /\ VectorsKept(f)
  <2>1. f \notin stale /\ f # None
    BY <1>3, IngestionAssumption DEF LeftAlone, Vanished, IngestionAssumption
  <2> QED BY <1>3, <2>1, OthersKept DEF LeftAlone
<1>4. IInv /\ LeftAlone /\ [Next]_vars =>
        [\A f \in File :
           pc \notin {"idle", "ensure"} /\ pc' # "idle" /\ ~Scanned(f) /\ f \notin files =>
              /\ RowsKept(f)
              /\ wal = <<>> => PointsOf(f)' = PointsOf(f)]_vars
  BY <1>3 DEF VectorsKept
<1> QED BY <1>1, <1>2, <1>4, IngestionInvariant, PTL DEF Spec, KeepsUnscanned
-----------------------------------------------------------------------------
(***************************************************************************)
(* What needs more than IInv: what a search can see of the index is a      *)
(* behaviour of DocumentIndex; a version stays until it is replaced; clean *)
(* runs leave nothing behind; certificates vouch for complete graphs.      *)
(***************************************************************************)

Nowhere == {"idle", "ensure", "purge", "purgeRows", "next", "hash"}

\* Where no file has been read, only the log matters.
LEMMA NothingRead ==
    ASSUME pc' \in Nowhere, LogUncertified' PROVE ServedInv'
BY DEF Nowhere, ServedInv, JobServed, JobUncertified, HashOfText, Indexed

LEMMA LogFiles ==
    ASSUME IInv PROVE \A n \in 1..Len(wal) : \A p \in wal[n].add : p.file \in File
<1>1. ASSUME NEW n \in 1..Len(wal), NEW p \in wal[n].add PROVE p.file \in File
  <2>1. wal \in Seq(Op)
    BY DEF IInv, TypeOK
  <2>2. wal[n] \in Op
    BY <2>1
  <2>3. p \in Point
    BY <2>2 DEF Op
  <2> QED BY <2>3 DEF Point
<1> QED BY <1>1

LEMMA LogStays ==
    ASSUME IInv, LogUncertified, wal' = wal,
           \/ fingerprints' = fingerprints
           \/ \E f \in File : fingerprints' = [fingerprints EXCEPT ![f] = None]
    PROVE  LogUncertified'
<1>1. fingerprints \in [File -> Hash \cup {None}]
  BY DEF IInv, StoreInv, StoreTypeOK
<1>2. \A f \in File : fingerprints[f] = None => fingerprints'[f] = None
  BY <1>1
<1>3. \A n \in 1..Len(wal) : \A p \in wal[n].add : p.file \in File
  BY LogFiles
<1> QED BY <1>2, <1>3 DEF LogUncertified

LEMMA BetweenFilesServed ==
    ASSUME IInv, ServedInv,
           \/ StartRun \/ EnsureCollection \/ Collect \/ PurgeVectors \/ PurgeRows \/ PurgeDone
           \/ NextFile \/ Finish \/ Crash \/ StepFails
    PROVE  ServedInv'
<1> USE DEF qdrantVars, storeVars
<1>1. pc' \in Nowhere
  BY DEF StartRun, EnsureCollection, Collect, PurgeVectors, PurgeRows, PurgeDone, NextFile,
     Finish, Crash, StepFails, Raise, NextFileAfter, Nowhere
<1>2. wal' = wal
  BY DEF StartRun, EnsureCollection, Collect, PurgeVectors, PurgeRows, PurgeDone, NextFile,
     Finish, Crash, StepFails, DeleteVectors, Call
<1>3. CASE ~PurgeRows
  <2>1. fingerprints' = fingerprints
    BY <1>3 DEF StartRun, EnsureCollection, Collect, PurgeVectors, PurgeDone, NextFile,
       Finish, Crash, StepFails
  <2> QED BY <1>1, <1>2, <2>1, LogStays, NothingRead DEF ServedInv
<1>4. CASE PurgeRows
  <2>1. job.file \in File /\ fingerprints' = [fingerprints EXCEPT ![job.file] = None]
    BY <1>4 DEF PurgeRows, PurgeFile, DeleteFileRows, IInv, JobOK
  <2> QED BY <1>1, <1>2, <2>1, LogStays, NothingRead DEF ServedInv
<1> QED BY <1>3, <1>4

LEMMA TimesOutServed == ASSUME IInv, ServedInv, TimesOut PROVE ServedInv'
<1>1. pc' \in Nowhere
  BY DEF TimesOut, Raise, NextFileAfter, Nowhere
<1>2. UNCHANGED fingerprints /\ wal \in Seq(Op) /\ Len(wal) \in Nat
  BY DEF TimesOut, storeVars, IInv, TypeOK
<1>3. PICK op : wal' = Append(wal, op) /\ \A p \in op.add : fingerprints[p.file] = None
  <2>1. CASE pc = "upsert" /\ wal' = Append(wal, Upsert(Version(job.file, job.text, job.gen)))
    <3>1. \A p \in Upsert(Version(job.file, job.text, job.gen)).add : p.file = job.file
      BY DEF Upsert, Version
    <3>2. fingerprints[job.file] = None
      BY <2>1 DEF ServedInv, JobUncertified
    <3> QED BY <2>1, <3>1, <3>2
  <2>2. CASE \E f : wal' = Append(wal, Delete(ChunkIdsOf(f)))
    BY <2>2 DEF Delete
  <2> QED BY <2>1, <2>2 DEF TimesOut
<1>4. /\ Len(wal') = Len(wal) + 1 /\ wal'[Len(wal) + 1] = op
      /\ \A n \in 1..Len(wal) : wal'[n] = wal[n]
      /\ \A n \in 1..Len(wal') : n = Len(wal) + 1 \/ n \in 1..Len(wal)
  BY <1>2, <1>3
<1>5. LogUncertified'
  BY <1>2, <1>3, <1>4 DEF ServedInv, LogUncertified
<1> QED BY <1>1, <1>5, NothingRead

\* The file is hashed, read, embedded.
LEMMA ReadingServed ==
    ASSUME IInv, ServedInv, HashFile \/ ReadFile \/ Embed \/ DeleteOldVectors
    PROVE  ServedInv'
<1>1. UNCHANGED <<wal, fingerprints, disk>>
  BY DEF HashFile, ReadFile, Embed, DeleteOldVectors, DeleteVectors, Call, qdrantVars, storeVars,
     envVars
<1>2. LogUncertified'
  BY <1>1, LogStays DEF ServedInv
<1>3. job \in Job
  BY DEF IInv, TypeOK
<1>4. CASE HashFile
  <2>1. \/ pc' = "next"
        \/ pc' = "read" /\ job' = [job EXCEPT !.hash = disk[job.file]]
    BY <1>4 DEF HashFile, NextFileAfter
  <2>2. CASE pc' = "next"
    BY <1>2, <2>2, NothingRead DEF Nowhere
  <2>3. CASE pc' = "read" /\ job' = [job EXCEPT !.hash = disk[job.file]]
    <3>1. job'.file = job.file /\ job'.hash = disk[job.file]
      BY <1>3, <2>3 DEF Job
    <3> QED BY <1>1, <1>2, <2>3, <3>1 DEF ServedInv, JobServed, JobUncertified, HashOfText, Indexed
  <2> QED BY <2>1, <2>2, <2>3
<1>5. CASE ReadFile
  <2>1. \/ pc' = "next"
        \/ pc = "read" /\ pc' \in {"embed", "delVectors"} /\ job' = [job EXCEPT !.text = disk[job.file]]
    BY <1>5 DEF ReadFile, NextFileAfter
  <2>2. CASE pc' = "next"
    BY <1>2, <2>2, NothingRead DEF Nowhere
  <2>3. CASE pc = "read" /\ pc' \in {"embed", "delVectors"} /\ job' = [job EXCEPT !.text = disk[job.file]]
    <3>1. job'.hash = job.hash /\ job'.text = disk[job.file]
      BY <1>3, <2>3 DEF Job
    <3> QED BY <1>1, <1>2, <2>3, <3>1 DEF ServedInv, JobServed, JobUncertified, HashOfText, Indexed
  <2> QED BY <2>1, <2>2, <2>3
<1>6. CASE Embed \/ DeleteOldVectors
  <2>1. /\ job'.hash = job.hash /\ job'.text = job.text
        /\ pc \in {"embed", "delVectors"} /\ pc' \in {"delVectors", "delRows"}
    BY <1>3, <1>6 DEF Embed, DeleteOldVectors, Job
  <2> QED BY <1>2, <2>1 DEF ServedInv, JobServed, JobUncertified, HashOfText, Indexed
<1> QED BY <1>4, <1>5, <1>6

LEMMA DeleteOldRowsServed == ASSUME IInv, ServedInv, DeleteOldRows PROVE ServedInv'
<1>1. /\ job.file \in File /\ job.text \in Content /\ NoVectors(job.file) /\ UNCHANGED <<job, points, wal>>
      /\ pc = "delRows" /\ pc' \in {"certify", "register"}
      /\ pc' = "certify" => NumChunks[job.text] = 0
      /\ fingerprints' = [fingerprints EXCEPT ![job.file] = None]
  BY DEF DeleteOldRows, DeleteFileData, DeleteFileRows, IInv, JobOK
<1>2. LogUncertified'
  BY <1>1, LogStays DEF ServedInv
<1>3. fingerprints'[job'.file] = None
  BY <1>1 DEF IInv, StoreInv, StoreTypeOK
<1>4. NoVectors(job.file)'
  BY <1>1 DEF NoVectors, PointsOf
<1>5. JobServed'
  BY <1>1, <1>4 DEF JobServed, Indexed
<1> QED BY <1>1, <1>2, <1>3, <1>5 DEF ServedInv, JobUncertified, HashOfText

LEMMA RegisterServed == ASSUME IInv, ServedInv, Register PROVE ServedInv'
<1>1. /\ UNCHANGED <<wal, fingerprints>> /\ pc = "register" /\ pc' = "upsert"
      /\ job'.file = job.file /\ job'.hash = job.hash /\ job'.text = job.text
  BY DEF Register, RegisterChunks, qdrantVars, IInv, TypeOK, Job
<1>2. LogUncertified'
  BY <1>1, LogStays DEF ServedInv
<1> QED BY <1>1, <1>2 DEF ServedInv, JobServed, JobUncertified, HashOfText, Indexed

\* What UpsertPoints does to the vectors.
LEMMA UpsertEffect ==
    ASSUME IInv, UpsertPoints
    PROVE  /\ job.file \in File /\ job.text \in Content /\ job.gen \in Gen
           /\ NumChunks[job.text] > 0 /\ PointsOf(job.file) = {}
           /\ PointsOf(job.file)' = Version(job.file, job.text, job.gen)
           /\ \A h \in File \ {job.file} : PointsOf(h)' = PointsOf(h)
           /\ wal = <<>> /\ wal' = wal /\ UNCHANGED <<storeVars, job>>
<1>1. /\ job.file \in File /\ job.text \in Content /\ job.gen \in Gen
      /\ NumChunks[job.text] > 0 /\ PointsOf(job.file) = {}
  BY DEF UpsertPoints, IInv, JobOK, NoVectors
<1>2. /\ points' = points \cup Version(job.file, job.text, job.gen)
      /\ wal = <<>> /\ wal' = wal /\ UNCHANGED <<storeVars, job>>
  BY DEF UpsertPoints, Call, Apply, Upsert
<1>3. \A p \in Version(job.file, job.text, job.gen) : p.file = job.file
  BY DEF Version
<1>4. {p \in points' : p.file = job.file} = Version(job.file, job.text, job.gen)
  BY <1>1, <1>2, <1>3 DEF PointsOf
<1> QED BY <1>1, <1>2, <1>3, <1>4 DEF PointsOf

LEMMA UpsertServed == ASSUME IInv, ServedInv, UpsertPoints PROVE ServedInv'
<1>1. pc = "upsert" /\ pc' \in {"entities", "extract"} /\ job' = job /\ UNCHANGED fingerprints
  BY DEF UpsertPoints, storeVars
<1>2. LogUncertified'
  BY <1>1, UpsertEffect, LogStays DEF ServedInv
<1>3. NumChunks[job'.text] > 0 /\ wal' = <<>> /\ InVersion(job.file, job.text)'
  <2>1. {p \in points' : p.file = job'.file} = Version(job'.file, job'.text, job.gen)
    BY <1>1, UpsertEffect DEF PointsOf
  <2> QED BY <1>1, <2>1, UpsertEffect DEF InVersion, PointsOf, Version, Ids
<1>4. JobServed'
  BY <1>3 DEF JobServed
<1> QED BY <1>1, <1>2, <1>4 DEF ServedInv, JobUncertified, HashOfText, Indexed

\* The steps that write the graph.
LEMMA GraphServed ==
    ASSUME IInv, ServedInv,
           \/ ExtractBatch \/ ExtractBatchFails \/ ExtractDone
           \/ WriteEntities \/ WriteRelationships \/ WriteLinks
    PROVE  ServedInv'
<1>1. /\ UNCHANGED <<points, wal, fingerprints>>
      /\ pc \in Indexed /\ pc' \in Indexed
  BY DEF ExtractBatch, ExtractBatchFails, ExtractDone, WriteEntities, WriteRelationships,
     WriteLinks, CacheExtraction, UpsertEntities, UpsertRelationships, LinkChunks, qdrantVars,
     storeVars, Indexed
<1>2. job'.file = job.file /\ job'.text = job.text /\ job'.hash = job.hash
  BY DEF ExtractBatch, ExtractBatchFails, ExtractDone, WriteEntities, WriteRelationships,
     WriteLinks, IInv, TypeOK, Job
<1>3. LogUncertified'
  BY <1>1, LogStays DEF ServedInv
<1>4. JobServed'
  BY <1>1, <1>2 DEF ServedInv, JobServed, InVersion, NoVectors, PointsOf, Version, Ids
<1> QED BY <1>1, <1>2, <1>3, <1>4 DEF ServedInv, JobUncertified, HashOfText, Indexed

LEMMA CertifyServed == ASSUME IInv, ServedInv, Certify PROVE ServedInv'
<1>1. /\ pc = "certify" /\ pc' = "next" /\ wal' = wal /\ job.file \in File
      /\ \/ fingerprints' = fingerprints
         \/ fingerprints' = [fingerprints EXCEPT ![job.file] = job.hash]
  BY DEF Certify, UpsertHash, NextFileAfter, qdrantVars, storeVars, IInv, JobOK
<1>2. \A n \in 1..Len(wal) : \A p \in wal[n].add : p.file # job.file
  BY <1>1 DEF ServedInv, JobServed, NoVectors, Indexed
<1>3. \A n \in 1..Len(wal) : \A p \in wal[n].add : p.file \in File
  BY LogFiles
<1>4. \A f \in File \ {job.file} : fingerprints'[f] = fingerprints[f]
  BY <1>1 DEF IInv, StoreInv, StoreTypeOK
<1>5. LogUncertified'
  BY <1>1, <1>2, <1>3, <1>4 DEF ServedInv, LogUncertified
<1> QED BY <1>1, <1>5, NothingRead DEF Nowhere

LEMMA ApplyLateServed == ASSUME IInv, ServedInv, ApplyLate PROVE ServedInv'
<1>1. /\ wal \in Seq(Op) /\ wal # <<>> /\ wal' = Tail(wal)
      /\ UNCHANGED <<fingerprints, pc, job, disk>>
      /\ points' = {p \in points : p.id \notin Head(wal).drop} \cup Head(wal).add
  BY DEF ApplyLate, Apply, IInv, TypeOK, storeVars, envVars
<1>2. /\ 1 \in 1..Len(wal) /\ Head(wal) = wal[1]
      /\ \A n \in 1..Len(wal') : n + 1 \in 1..Len(wal) /\ wal'[n] = wal[n + 1]
  BY <1>1
<1>3. LogUncertified'
  BY <1>1, <1>2 DEF ServedInv, LogUncertified
<1>4. ASSUME NoVectors(job.file) PROVE NoVectors(job.file)'
  <2>1. /\ \A p \in points : p.file # job.file
        /\ \A n \in 1..Len(wal) : \A p \in wal[n].add : p.file # job.file
    BY <1>4 DEF NoVectors, PointsOf
  <2>2. \A p \in points' : p.file # job.file
    BY <1>1, <1>2, <2>1
  <2>3. \A n \in 1..Len(wal') : \A p \in wal'[n].add : p.file # job.file
    BY <1>2, <2>1
  <2> QED BY <1>1, <2>2, <2>3 DEF NoVectors, PointsOf
<1>5. JobServed'
  BY <1>1, <1>4 DEF ServedInv, JobServed
<1> QED BY <1>1, <1>3, <1>5 DEF ServedInv, JobUncertified, HashOfText

LEMMA EditServed ==
    ASSUME IInv, ServedInv, NEW f \in File, NEW c \in Content \cup {None}, Edit(f, c)
    PROVE  ServedInv'
<1>1. /\ UNCHANGED <<points, wal, fingerprints, pc, job>>
      /\ disk' = [disk EXCEPT ![f] = c]
      /\ EditsWhileReading \/ ~(pc = "read" /\ job.file = f)
  BY DEF Edit, qdrantVars, storeVars
<1>2. LogUncertified' /\ JobServed' /\ JobUncertified'
  BY <1>1, LogStays DEF ServedInv, JobServed, JobUncertified, InVersion, NoVectors, PointsOf,
     Version, Ids
<1>3. HashOfText'
  <2>1. disk \in [File -> Content \cup {None}] /\ (pc = "read" => job.file \in File)
    BY DEF IInv, TypeOK, JobOK
  <2>2. ~EditsWhileReading /\ pc = "read" => disk'[job.file] = disk[job.file]
    BY <1>1, <2>1
  <2> QED BY <1>1, <2>2 DEF ServedInv, HashOfText
<1> QED BY <1>2, <1>3 DEF ServedInv

LEMMA StutterServed == ASSUME ServedInv, UNCHANGED vars PROVE ServedInv'
BY DEF vars, storeVars, envVars, qdrantVars, ServedInv, JobServed, JobUncertified, LogUncertified,
       HashOfText, InVersion, NoVectors, PointsOf, Version, Ids

LEMMA ServedStep == IInv /\ ServedInv /\ [Next]_vars => ServedInv'
<1> SUFFICES ASSUME IInv, ServedInv, [Next]_vars PROVE ServedInv'
  OBVIOUS
<1>1. CASE IndexerStep
  BY <1>1, BetweenFilesServed, ReadingServed, DeleteOldRowsServed, RegisterServed, UpsertServed,
     GraphServed, CertifyServed DEF IndexerStep
<1>2. CASE Failure
  BY <1>2, BetweenFilesServed, TimesOutServed, GraphServed DEF Failure
<1>3. CASE StartRun \/ ApplyLate
  BY <1>3, BetweenFilesServed, ApplyLateServed
<1>4. CASE \E f \in File, c \in Content \cup {None} : Edit(f, c)
  BY <1>4, EditServed
<1>5. CASE UNCHANGED vars
  BY <1>5, StutterServed
<1> QED BY <1>1, <1>2, <1>3, <1>4, <1>5 DEF Next
-----------------------------------------------------------------------------
(***************************************************************************)
(* The refinement mapping, for a set P of the points of a file f.          *)
(***************************************************************************)
VersionOf(P, f) ==
    LET versions == {c \in Content : \E g \in Gen : P = Version(f, c, g)}
    IN  IF P = {} THEN None
        ELSE IF versions = {} THEN P ELSE CHOOSE c \in versions : TRUE

LEMMA ServedIsVersion == ASSUME NEW f PROVE Served(f) = VersionOf(PointsOf(f), f)
BY DEF Served, VersionOf

LEMMA NothingIsNone == ASSUME NEW f PROVE VersionOf({}, f) = None
BY DEF VersionOf

\* The points of a version tell its content.
LEMMA VersionTells ==
    ASSUME NEW f \in File, NEW c \in Content, NEW g \in Gen, NumChunks[c] > 0
    PROVE  VersionOf(Version(f, c, g), f) = c
<1> DEFINE P == Version(f, c, g)
           versions == {d \in Content : \E h \in Gen : P = Version(f, d, h)}
<1>1. PICK i : i \in Ids(g, c)
  BY IdsType
<1>2. [id |-> i, file |-> f, text |-> c] \in P
  BY <1>1 DEF Version
<1>3. \A d \in Content, h \in Gen : \A p \in Version(f, d, h) : p.text = d
  BY DEF Version
<1>4. \A d \in versions : d = c
  BY <1>2, <1>3
<1>5. c \in versions
  OBVIOUS
<1>6. versions = {c}
  BY <1>4, <1>5
<1>7. P # {}
  BY <1>2
<1> QED BY <1>6, <1>7 DEF VersionOf

ServedNow == [f \in File |-> Served(f)]

\* One file gets another set of points.
LEMMA OneFileServed ==
    ASSUME NEW f \in File, NEW x, VersionOf(PointsOf(f)', f) = x,
           \A h \in File \ {f} : PointsOf(h)' = PointsOf(h)
    PROVE  ServedNow' = [ServedNow EXCEPT ![f] = x]
<1>1. \A h \in File : Served(h)' = VersionOf(PointsOf(h)', h)
  BY DEF Served, VersionOf, PointsOf, Version, Ids
<1>2. \A h \in File : Served(h)' = IF h = f THEN x ELSE Served(h)
  BY <1>1, ServedIsVersion
<1> QED BY <1>2 DEF ServedNow

LEMMA SameServed == ASSUME UNCHANGED points PROVE ServedNow' = ServedNow
BY DEF ServedNow, Served, PointsOf, Version, Ids

\* A step of DocumentIndex, or none.
Seen == [SearchView!DNext]_(SearchView!dvars)

LEMMA NothingSeen == ASSUME UNCHANGED <<points, fingerprints>> PROVE Seen
<1>1. ServedNow' = ServedNow
  BY SameServed
<1> QED BY <1>1 DEF Seen, SearchView!dvars, ServedNow

LEMMA WithdrawSeen ==
    ASSUME NEW f \in File, ServedNow' = [ServedNow EXCEPT ![f] = None], UNCHANGED fingerprints
    PROVE  Seen
<1>1. SearchView!Withdraw(f)
  BY DEF SearchView!Withdraw, ServedNow
<1> QED BY <1>1 DEF Seen, SearchView!DNext

LEMMA RevokeSeen ==
    ASSUME NEW f \in File, PointsOf(f) = {}, UNCHANGED points,
           fingerprints' = [fingerprints EXCEPT ![f] = None]
    PROVE  Seen
<1>1. ServedNow' = ServedNow /\ ServedNow[f] = None
  BY SameServed, ServedIsVersion, NothingIsNone DEF ServedNow
<1>2. SearchView!Revoke(f)
  BY <1>1 DEF SearchView!Revoke, ServedNow
<1> QED BY <1>2 DEF Seen, SearchView!DNext

LEMMA PublishSeen ==
    ASSUME NEW f \in File, NEW c \in Content, NEW g \in Gen, NumChunks[c] > 0,
           PointsOf(f) = {}, PointsOf(f)' = Version(f, c, g),
           \A h \in File \ {f} : PointsOf(h)' = PointsOf(h),
           fingerprints[f] = None, UNCHANGED fingerprints
    PROVE  Seen
<1>1. ServedNow[f] = None
  BY ServedIsVersion, NothingIsNone DEF ServedNow
<1>2. ServedNow' = [ServedNow EXCEPT ![f] = c]
  BY VersionTells, OneFileServed
<1>3. SearchView!Publish(f, c)
  BY <1>1, <1>2 DEF SearchView!Publish, ServedNow
<1> QED BY <1>3 DEF Seen, SearchView!DNext

LEMMA GrantSeen ==
    ASSUME NEW f \in File, NEW c \in Content, NEW h \in Content,
           fingerprints[f] = None, NumChunks[c] > 0 => InVersion(f, c),
           EditsWhileReading \/ h = c, UNCHANGED points,
           fingerprints' = [fingerprints EXCEPT ![f] = h]
    PROVE  Seen
<1>1. NumChunks[c] > 0 => ServedNow[f] = c
  <2>1. ASSUME NumChunks[c] > 0, NEW g \in Gen, PointsOf(f) = Version(f, c, g)
        PROVE  ServedNow[f] = c
    BY <2>1, ServedIsVersion, VersionTells DEF ServedNow
  <2> QED BY <2>1 DEF InVersion
<1>2. ServedNow' = ServedNow
  BY SameServed
<1>3. SearchView!Grant(f, c, h)
  BY <1>1, <1>2 DEF SearchView!Grant, ServedNow
<1> QED BY <1>3 DEF Seen, SearchView!DNext
-----------------------------------------------------------------------------
(***************************************************************************)
(* Every step of Ingestion is seen as a step of DocumentIndex.             *)
(***************************************************************************)
LEMMA DeleteSeen ==
    ASSUME IInv, NEW f \in File, points' = Apply(Delete(ChunkIdsOf(f)), points),
           UNCHANGED fingerprints
    PROVE  Seen
<1>1. VersionOf(PointsOf(f)', f) = None
  BY DeleteEffect, NothingIsNone
<1>2. ServedNow' = [ServedNow EXCEPT ![f] = None]
  BY <1>1, DeleteEffect, OneFileServed
<1> QED BY <1>2, WithdrawSeen

LEMMA VectorsSeen == ASSUME IInv, PurgeVectors \/ DeleteOldVectors PROVE Seen
<1>1. PICK f \in File : DeleteVectors(f) /\ UNCHANGED fingerprints
  <2>1. CASE PurgeVectors
    <3>1. FirstStale \in File
      BY <2>1, FirstStaleType DEF IInv, PurgeVectors, TypeOK
    <3> QED BY <2>1, <3>1 DEF PurgeVectors, storeVars
  <2>2. CASE DeleteOldVectors
    BY <2>2 DEF DeleteOldVectors, storeVars, IInv, JobOK
  <2> QED BY <2>1, <2>2
<1>2. \/ UNCHANGED points
      \/ points' = Apply(Delete(ChunkIdsOf(f)), points)
  BY <1>1 DEF DeleteVectors, Call
<1> QED BY <1>1, <1>2, NothingSeen, DeleteSeen

LEMMA RowsSeen == ASSUME IInv, PurgeRows \/ DeleteOldRows PROVE Seen
<1>1. /\ job.file \in File /\ PointsOf(job.file) = {} /\ UNCHANGED points
      /\ fingerprints' = [fingerprints EXCEPT ![job.file] = None]
  BY DEF PurgeRows, DeleteOldRows, PurgeFile, DeleteFileData, DeleteFileRows, IInv, JobOK,
     NoVectors
<1> QED BY <1>1, RevokeSeen

LEMMA UpsertSeen == ASSUME IInv, ServedInv, UpsertPoints PROVE Seen
<1>1. fingerprints[job.file] = None /\ UNCHANGED fingerprints
  BY DEF UpsertPoints, storeVars, ServedInv, JobUncertified
<1> QED BY <1>1, UpsertEffect, PublishSeen

LEMMA CertifySeen == ASSUME IInv, ServedInv, Certify PROVE Seen
<1>1. /\ job.file \in File /\ job.text \in Content /\ job.hash \in Content
      /\ pc = "certify" /\ UNCHANGED points
      /\ \/ UNCHANGED fingerprints
         \/ fingerprints' = [fingerprints EXCEPT ![job.file] = job.hash]
  BY DEF Certify, UpsertHash, qdrantVars, storeVars, IInv, JobOK, Content
<1>2. /\ fingerprints[job.file] = None
      /\ NumChunks[job.text] > 0 => InVersion(job.file, job.text)
      /\ EditsWhileReading \/ job.hash = job.text
  BY <1>1 DEF ServedInv, JobServed, JobUncertified, HashOfText, Indexed
<1> QED BY <1>1, <1>2, NothingSeen, GrantSeen

LEMMA ApplyLateSeen == ASSUME IInv, ServedInv, ApplyLate PROVE Seen
<1> DEFINE op == wal[1]
<1>1. /\ 1 \in 1..Len(wal) /\ UNCHANGED fingerprints
      /\ points' = {p \in points : p.id \notin op.drop} \cup op.add
  <2>1. wal \in Seq(Op) /\ wal # <<>>
    BY DEF IInv, TypeOK, ApplyLate
  <2> QED BY <2>1 DEF ApplyLate, Apply, storeVars
<1>2. CASE WholeVersion(op)
  <2>1. PICK f \in File, c \in Content, g \in Gen :
            NumChunks[c] > 0 /\ op.drop = {} /\ op.add = Version(f, c, g)
    BY <1>2 DEF WholeVersion
  <2>2. PICK p \in op.add : TRUE
    <3>1. PICK i : i \in Ids(g, c)
      BY <2>1, IdsType
    <3> QED BY <2>1, <3>1 DEF Version
  <2>3. \A q \in op.add : q.file = f
    BY <2>1 DEF Version
  <2>4. fingerprints[f] = None
    BY <1>1, <2>2, <2>3 DEF ServedInv, LogUncertified
  <2>5. \A q \in points : q.file # f
    BY <1>1, <2>2, <2>3 DEF IInv, LogOK
  <2>6. PointsOf(f) = {} /\ PointsOf(f)' = Version(f, c, g)
    BY <1>1, <2>1, <2>3, <2>5 DEF PointsOf
  <2>7. \A h \in File \ {f} : PointsOf(h)' = PointsOf(h)
    BY <1>1, <2>1, <2>3 DEF PointsOf
  <2> QED BY <1>1, <2>1, <2>4, <2>6, <2>7, PublishSeen
<1>3. CASE WholeDelete(op)
  <2>1. PICK f \in File : op.add = {} /\ op.drop = ChunkIdsOf(f)
    BY <1>3 DEF WholeDelete
  <2>2. points' = Apply(Delete(ChunkIdsOf(f)), points)
    BY <1>1, <2>1 DEF Apply, Delete
  <2> QED BY <1>1, <2>2, DeleteSeen
<1> QED BY <1>1, <1>2, <1>3 DEF IInv, LogOK

\* The steps that change neither vectors nor fingerprints.
LEMMA OthersSeen ==
    ASSUME \/ StartRun \/ EnsureCollection \/ Collect \/ PurgeDone \/ NextFile \/ Finish
           \/ HashFile \/ ReadFile \/ Embed \/ Register
           \/ ExtractBatch \/ ExtractBatchFails \/ ExtractDone
           \/ WriteEntities \/ WriteRelationships \/ WriteLinks
           \/ Crash \/ StepFails \/ TimesOut
           \/ \E f \in File, c \in Content \cup {None} : Edit(f, c)
           \/ UNCHANGED vars
    PROVE  Seen
<1>1. UNCHANGED <<points, fingerprints>>
  BY DEF StartRun, EnsureCollection, Collect, PurgeDone, NextFile, Finish, HashFile, ReadFile,
     Embed, Register, RegisterChunks, ExtractBatch, ExtractBatchFails, ExtractDone,
     CacheExtraction, WriteEntities, UpsertEntities, WriteRelationships, UpsertRelationships,
     WriteLinks, LinkChunks, Crash, StepFails, TimesOut, Edit, qdrantVars, storeVars, vars
<1> QED BY <1>1, NothingSeen

LEMMA StepSeen == ASSUME IInv, ServedInv, [Next]_vars PROVE Seen
BY OthersSeen, VectorsSeen, RowsSeen, UpsertSeen, CertifySeen, ApplyLateSeen
   DEF Next, IndexerStep, Failure

LEMMA InitSeen == ASSUME Init PROVE SearchView!DInit
<1>1. \A f \in File : Served(f) = None
  BY ServedIsVersion, NothingIsNone DEF Init, PointsOf
<1> QED BY <1>1 DEF SearchView!DInit, Init, StoreInit

LEMMA InitServed == ASSUME Init PROVE ServedInv
BY DEF Init, ServedInv, JobServed, JobUncertified, LogUncertified, HashOfText, Indexed

\* Whatever is edited, fails or is applied late, what a search can see of the index is a
\* behaviour of DocumentIndex: no file is ever served in part, in two versions, or under
\* the certificate of another content (index_documents.py:246-268, 301-343).
THEOREM IndexImplemented == Spec => ImplementsDocumentIndex
<1>1. Init => ServedInv /\ SearchView!DInit
  BY InitServed, InitSeen
<1>2. IInv /\ ServedInv /\ [Next]_vars => ServedInv'
  BY ServedStep
<1>3. IInv /\ ServedInv /\ [Next]_vars => [SearchView!DNext]_(SearchView!dvars)
  BY StepSeen DEF Seen
<1> QED BY <1>1, <1>2, <1>3, IngestionInvariant, PTL
        DEF Spec, ImplementsDocumentIndex, SearchView!DSpec
-----------------------------------------------------------------------------
(***************************************************************************)
(* What a step does to the vectors of a file.                              *)
(***************************************************************************)
LEMMA PointsStay ==
    ASSUME [Next]_vars, ~PurgeVectors, ~DeleteOldVectors, ~UpsertPoints, ~ApplyLate, ~TimesOut
    PROVE  UNCHANGED <<points, wal>>
<1> USE DEF qdrantVars
<1>1. CASE StartRun \/ EnsureCollection \/ Collect \/ PurgeRows \/ PurgeDone \/ NextFile
           \/ Finish \/ HashFile \/ ReadFile \/ Embed \/ DeleteOldRows \/ Register
  BY <1>1 DEF StartRun, EnsureCollection, Collect, PurgeRows, PurgeDone, NextFile, Finish,
     HashFile, ReadFile, Embed, DeleteOldRows, Register
<1>2. CASE ExtractBatch \/ ExtractBatchFails \/ ExtractDone \/ WriteEntities
           \/ WriteRelationships \/ WriteLinks \/ Certify \/ Crash \/ StepFails
  BY <1>2 DEF ExtractBatch, ExtractBatchFails, ExtractDone, WriteEntities, WriteRelationships,
     WriteLinks, Certify, Crash, StepFails
<1>3. CASE (\E g \in File, c \in Content \cup {None} : Edit(g, c)) \/ UNCHANGED vars
  BY <1>3 DEF Edit, vars
<1> QED BY <1>1, <1>2, <1>3 DEF Next, IndexerStep, Failure

\* The step may delete vectors of f or store some.
Touches(f) ==
    \/ pc = "purge" /\ stale # {} /\ f = FirstStale /\ (PurgeVectors \/ TimesOut)
    \/ pc \in {"delVectors", "upsert"} /\ f = job.file

LEMMA VectorStep ==
    ASSUME IInv, [Next]_vars, NEW f \in File, ~Touches(f)
    PROVE  \/ ApplyLate \/ TimesOut
           \/ PointsOf(f)' = PointsOf(f) /\ wal' = wal
<1> USE DEF qdrantVars
<1>1. ASSUME NEW g \in File, DeleteVectors(g), f # g
      PROVE  PointsOf(f)' = PointsOf(f) /\ wal' = wal
  <2>1. CASE ChunkIdsOf(g) = {}
    BY <1>1, <2>1 DEF DeleteVectors, PointsOf
  <2>2. CASE ChunkIdsOf(g) # {}
    BY <1>1, <2>2, DeleteEffect DEF DeleteVectors, Call
  <2> QED BY <2>1, <2>2
<1>2. CASE PurgeVectors
  <2>1. FirstStale \in File
    BY <1>2, FirstStaleType DEF IInv, PurgeVectors, TypeOK
  <2> QED BY <1>1, <1>2, <2>1 DEF PurgeVectors, Touches
<1>3. CASE DeleteOldVectors
  BY <1>1, <1>3 DEF DeleteOldVectors, Touches, IInv, JobOK
<1>4. CASE UpsertPoints
  BY <1>4, UpsertEffect DEF UpsertPoints, Touches
<1>5. CASE UNCHANGED <<points, wal>>
  BY <1>5 DEF PointsOf
<1> QED BY <1>2, <1>3, <1>4, <1>5, PointsStay

\* A step that does not touch f leaves its vectors as they are, or Qdrant catches up with its
\* log, or an operation that is not about f joins the log.
LEMMA LateStep ==
    ASSUME IInv, [Next]_vars, NEW f \in File, ~Touches(f)
    PROVE  \/ PointsOf(f)' = PointsOf(f) /\ wal' = wal
           \/ /\ wal # <<>> /\ 1 \in 1..Len(wal) /\ wal' = Tail(wal)
              /\ points' = {p \in points : p.id \notin wal[1].drop} \cup wal[1].add
              /\ \A n \in 1..Len(wal') : n + 1 \in 1..Len(wal) /\ wal'[n] = wal[n + 1]
           \/ /\ PointsOf(f)' = PointsOf(f)
              /\ \E op : /\ \A p \in op.add : p.file # f
                         /\ \A p \in PointsOf(f) : p.id \notin op.drop
                         /\ \A n \in 1..Len(wal') :
                               wal'[n] = op \/ (n \in 1..Len(wal) /\ wal'[n] = wal[n])
<1>1. wal \in Seq(Op) /\ Len(wal) \in Nat
  BY DEF IInv, TypeOK
<1>2. CASE ApplyLate
  <2>1. /\ wal # <<>> /\ wal' = Tail(wal)
        /\ points' = {p \in points : p.id \notin Head(wal).drop} \cup Head(wal).add
    BY <1>2 DEF ApplyLate, Apply
  <2> QED BY <1>1, <2>1
<1>3. CASE TimesOut
  <2>1. PICK op : /\ wal' = Append(wal, op)
                  /\ \A p \in op.add : p.file # f
                  /\ \A p \in PointsOf(f) : p.id \notin op.drop
    <3>1. CASE pc = "upsert" /\ wal' = Append(wal, Upsert(Version(job.file, job.text, job.gen)))
      <4>1. \A p \in Version(job.file, job.text, job.gen) : p.file = job.file
        BY DEF Version
      <4>2. job.file # f
        BY <3>1 DEF Touches
      <4> QED BY <3>1, <4>1, <4>2 DEF Upsert
    <3>2. CASE \E g \in File \ {f} : wal' = Append(wal, Delete(ChunkIdsOf(g)))
      <4>1. PICK g \in File \ {f} : wal' = Append(wal, Delete(ChunkIdsOf(g)))
        BY <3>2
      <4>2. \A p \in PointsOf(f) : p.id \notin ChunkIdsOf(g)
        BY <4>1, IdsOfFile DEF PointsOf
      <4> QED BY <4>1, <4>2 DEF Delete
    <3>3. \/ pc = "upsert" /\ wal' = Append(wal, Upsert(Version(job.file, job.text, job.gen)))
          \/ \E g \in File \ {f} : wal' = Append(wal, Delete(ChunkIdsOf(g)))
      <4>1. CASE pc = "upsert" /\ wal' = Append(wal, Upsert(Version(job.file, job.text, job.gen)))
        BY <4>1
      <4>2. CASE pc = "delVectors" /\ wal' = Append(wal, Delete(ChunkIdsOf(job.file)))
        BY <4>2 DEF IInv, JobOK, Touches
      <4>3. CASE pc = "purge" /\ stale # {} /\ wal' = Append(wal, Delete(ChunkIdsOf(FirstStale)))
        BY <1>3, <4>3, FirstStaleType DEF IInv, TypeOK, Touches
      <4> QED BY <1>3, <4>1, <4>2, <4>3 DEF TimesOut
    <3> QED BY <3>1, <3>2, <3>3
  <2>2. \A n \in 1..Len(wal') : wal'[n] = op \/ (n \in 1..Len(wal) /\ wal'[n] = wal[n])
    BY <1>1, <2>1
  <2>3. PointsOf(f)' = PointsOf(f)
    BY <1>3 DEF TimesOut, PointsOf
  <2> QED BY <2>1, <2>2, <2>3
<1> QED BY <1>2, <1>3, VectorStep
-----------------------------------------------------------------------------
(***************************************************************************)
(* An indexed version stays until the run knows what replaces it.          *)
(***************************************************************************)
LEMMA LastingKept ==
    ASSUME IInv, [Next]_vars, NEW f \in File, ~Touches(f)
    PROVE  Lasting(f) \subseteq Lasting(f)'
<1> SUFFICES ASSUME NEW p \in Lasting(f)
             PROVE  p \in PointsOf(f)' /\ \A n \in 1..Len(wal') : p.id \notin wal'[n].drop
  BY DEF Lasting
<1>1. p \in PointsOf(f) /\ \A n \in 1..Len(wal) : p.id \notin wal[n].drop
  BY DEF Lasting
<1>2. CASE wal # <<>> /\ 1 \in 1..Len(wal) /\ wal' = Tail(wal)
           /\ points' = {q \in points : q.id \notin wal[1].drop} \cup wal[1].add
           /\ \A n \in 1..Len(wal') : n + 1 \in 1..Len(wal) /\ wal'[n] = wal[n + 1]
  BY <1>1, <1>2 DEF PointsOf
<1> QED BY <1>1, <1>2, LateStep

LEMMA EmbeddedFirstStep == ASSUME IInv, EmbeddedFirst, [Next]_vars PROVE EmbeddedFirst'
<1>1. job \in Job
  BY DEF IInv, TypeOK
<1>2. CASE StartRun \/ EnsureCollection \/ Collect \/ PurgeVectors \/ PurgeRows \/ PurgeDone
           \/ NextFile \/ Finish \/ Certify \/ Crash \/ StepFails \/ TimesOut
  BY <1>2 DEF EmbeddedFirst, StartRun, EnsureCollection, Collect, PurgeVectors, PurgeRows,
     PurgeDone, NextFile, Finish, Certify, NextFileAfter, Crash, StepFails, TimesOut, Raise
<1>3. CASE HashFile
  BY <1>3 DEF EmbeddedFirst, HashFile, NextFileAfter
<1>4. CASE ReadFile
  <2>1. \/ pc' = "next"
        \/ /\ job' = [job EXCEPT !.text = disk[job.file]]
           /\ pc' = IF NumChunks[disk[job.file]] = 0 THEN "delVectors" ELSE "embed"
    BY <1>4 DEF ReadFile, NextFileAfter
  <2> QED BY <1>1, <2>1 DEF EmbeddedFirst, Job
<1>5. CASE Embed
  BY <1>1, <1>5 DEF EmbeddedFirst, Embed, Job
<1>6. CASE DeleteOldVectors \/ DeleteOldRows \/ UpsertPoints \/ ExtractDone
           \/ WriteEntities \/ WriteRelationships \/ WriteLinks
  BY <1>6 DEF EmbeddedFirst, DeleteOldVectors, DeleteOldRows, UpsertPoints, ExtractDone,
     WriteEntities, WriteRelationships, WriteLinks, runVars
<1>7. CASE Register \/ ExtractBatch \/ ExtractBatchFails
  BY <1>1, <1>7 DEF EmbeddedFirst, Register, ExtractBatch, ExtractBatchFails, Job
<1>8. CASE ApplyLate \/ (\E g \in File, c \in Content \cup {None} : Edit(g, c)) \/ UNCHANGED vars
  BY <1>8 DEF EmbeddedFirst, ApplyLate, Edit, vars
<1> QED BY <1>2, <1>3, <1>4, <1>5, <1>6, <1>7, <1>8 DEF Next, IndexerStep, Failure

\* Until its text is embedded, nothing of a file is written.
LEMMA ReadingWritesNothing ==
    ASSUME [Next]_vars, pc \in {"hash", "read", "embed"} PROVE UNCHANGED storeVars
<1>1. CASE IndexerStep
  BY <1>1 DEF IndexerStep, EnsureCollection, Collect, PurgeVectors, PurgeRows, PurgeDone,
     NextFile, Finish, HashFile, ReadFile, Embed, DeleteOldVectors, DeleteOldRows, Register,
     UpsertPoints, ExtractBatch, ExtractDone, WriteEntities, WriteRelationships, WriteLinks,
     Certify
<1>2. CASE Failure \/ StartRun \/ ApplyLate \/ UNCHANGED vars
           \/ \E f \in File, c \in Content \cup {None} : Edit(f, c)
  BY <1>2 DEF Failure, Crash, StepFails, TimesOut, ExtractBatchFails, StartRun, ApplyLate, vars,
     Edit
<1> QED BY <1>1, <1>2 DEF Next

\* Whatever fails, and whatever happens to other files, a run takes nothing of the indexed
\* version of a file away, neither its rows nor its vectors nor by a deletion it leaves in
\* Qdrant's log, before the file is found to be gone, or its new text is embedded or has
\* nothing to embed (index_documents.py:301-343, 419-429).
THEOREM VersionKept == Spec => VersionStays
<1>1. Init => LeftAlone /\ EmbeddedFirst
  BY LeftAloneInit DEF Init, EmbeddedFirst
<1>2. IInv /\ LeftAlone /\ EmbeddedFirst /\ [Next]_vars => LeftAlone' /\ EmbeddedFirst'
  BY LeftAloneStep, EmbeddedFirstStep
<1>3. ASSUME IInv, LeftAlone, EmbeddedFirst, [Next]_vars, NEW f \in File,
             pc \notin {"idle", "ensure"}, ~Replaceable(f)
      PROVE  RowsKept(f) /\ Lasting(f) \subseteq Lasting(f)'
  <2>1. f \notin stale /\ f # None
    BY <1>3, IngestionAssumption DEF Replaceable, LeftAlone, Vanished, IngestionAssumption
  <2>2. CASE job.file # f
    <3>1. ~Touches(f)
      BY <2>1, <2>2, FirstStaleType, <1>3 DEF Touches, IInv, TypeOK
    <3> QED BY <1>3, <2>1, <2>2, <3>1, OthersKept, LastingKept
  <2>3. CASE job.file = f
    <3>1. pc \in {"hash", "read", "embed"}
      <4>1. None \notin Content
        BY GraphStoreAssumption DEF GraphStoreAssumption
      <4>2. pc \notin {"delVectors", "delRows", "register", "upsert", "extract", "entities",
                      "rels", "link", "certify"}
        BY <1>3, <2>3, <4>1 DEF Replaceable, EmbeddedFirst, IInv, JobOK
      <4>3. pc \notin {"purge", "next", "purgeRows"}
        BY <1>3, <2>1, <2>3 DEF LeftAlone
      <4> QED BY <1>3, <4>2, <4>3 DEF IInv, TypeOK, PC
    <3>2. ~Touches(f)
      BY <3>1 DEF Touches
    <3> QED BY <1>3, <3>1, <3>2, ReadingWritesNothing, SameRows, LastingKept
  <2> QED BY <2>2, <2>3
<1>4. IInv /\ LeftAlone /\ EmbeddedFirst /\ [Next]_vars =>
        [\A f \in File :
           pc \notin {"idle", "ensure"} /\ ~Replaceable(f) =>
              RowsKept(f) /\ Lasting(f) \subseteq Lasting(f)']_vars
  BY <1>3
<1> QED BY <1>1, <1>2, <1>4, IngestionInvariant, PTL DEF Spec, VersionStays
-----------------------------------------------------------------------------
(***************************************************************************)
(* Clean runs, as long as no content returns: what a step does to the      *)
(* disk, to the fingerprints, to the file at hand and to the vectors.      *)
(***************************************************************************)
Working == AfterRead \cup {"read"}

\* A new content was never seen before.
LEMMA DiskStep ==
    ASSUME IInv, ~Reverts, [Next]_vars, NEW f \in File
    PROVE  /\ seen[f] \subseteq seen'[f]
           /\ \/ disk'[f] = disk[f]
              \/ /\ disk'[f] \notin seen[f] /\ disk'[f] \in seen'[f] \cup {None}
                 /\ UNCHANGED <<pc, job, fingerprints, stale>> /\ ~settled'
<1>1. disk \in [File -> Content \cup {None}] /\ seen \in [File -> SUBSET Content]
  BY DEF IInv, TypeOK
<1>2. None \notin Content
  BY GraphStoreAssumption DEF GraphStoreAssumption, Content
<1>3. CASE UNCHANGED <<disk, seen>>
  BY <1>3
<1>4. CASE \E g \in File, c \in Content \cup {None} : Edit(g, c)
  <2>1. PICK g \in File, c \in Content \cup {None} : Edit(g, c)
    BY <1>4
  <2>2. /\ c \notin seen[g] /\ disk' = [disk EXCEPT ![g] = c]
        /\ seen' = [seen EXCEPT ![g] = @ \cup ({c} \ {None})]
        /\ UNCHANGED <<pc, job, fingerprints, stale>> /\ ~settled'
    BY <2>1 DEF Edit, storeVars
  <2> QED BY <1>1, <2>2
<1>5. \/ UNCHANGED <<disk, seen>>
      \/ \E g \in File, c \in Content \cup {None} : Edit(g, c)
  <2>1. CASE StartRun \/ ApplyLate \/ UNCHANGED vars
    BY <2>1 DEF StartRun, ApplyLate, vars, envVars
  <2>2. CASE Failure
    BY <2>2 DEF Failure, Crash, StepFails, TimesOut, ExtractBatchFails, envVars
  <2>3. CASE EnsureCollection \/ Collect \/ PurgeVectors \/ PurgeRows \/ PurgeDone
             \/ NextFile \/ Finish \/ HashFile \/ ReadFile \/ Embed
    BY <2>3 DEF EnsureCollection, Collect, PurgeVectors, PurgeRows, PurgeDone, NextFile, Finish,
       HashFile, ReadFile, Embed, envVars
  <2>4. CASE DeleteOldVectors \/ DeleteOldRows \/ Register \/ UpsertPoints \/ ExtractBatch
             \/ ExtractDone \/ WriteEntities \/ WriteRelationships \/ WriteLinks \/ Certify
    BY <2>4 DEF DeleteOldVectors, DeleteOldRows, Register, UpsertPoints, ExtractBatch,
       ExtractDone, WriteEntities, WriteRelationships, WriteLinks, Certify, envVars
  <2> QED BY <2>1, <2>2, <2>3, <2>4 DEF Next, IndexerStep
<1> QED BY <1>3, <1>4, <1>5

LEMMA FingerprintStep ==
    ASSUME IInv, [Next]_vars, NEW f \in File
    PROVE  \/ fingerprints'[f] = fingerprints[f]
           \/ fingerprints'[f] = None
           \/ Certify /\ f = job.file /\ fingerprints'[f] = job.hash
<1>1. fingerprints \in [File -> Hash \cup {None}]
  BY DEF IInv, StoreInv, StoreTypeOK
<1>2. CASE PurgeRows \/ DeleteOldRows
  BY <1>1, <1>2 DEF PurgeRows, DeleteOldRows, PurgeFile, DeleteFileData, DeleteFileRows
<1>3. CASE Certify
  BY <1>1, <1>3 DEF Certify, UpsertHash, storeVars
<1>4. CASE StartRun \/ ApplyLate \/ UNCHANGED vars
           \/ (\E g \in File, c \in Content \cup {None} : Edit(g, c))
  BY <1>4 DEF StartRun, ApplyLate, Edit, vars, storeVars
<1>5. CASE Failure
  BY <1>5 DEF Failure, Crash, StepFails, TimesOut, ExtractBatchFails, storeVars
<1>6. CASE EnsureCollection \/ Collect \/ PurgeVectors \/ PurgeDone
           \/ NextFile \/ Finish \/ HashFile \/ ReadFile \/ Embed \/ DeleteOldVectors
  BY <1>6 DEF EnsureCollection, Collect, PurgeVectors, PurgeDone, NextFile, Finish,
     HashFile, ReadFile, Embed, DeleteOldVectors, storeVars
<1>7. CASE Register \/ UpsertPoints \/ ExtractBatch
           \/ ExtractDone \/ WriteEntities \/ WriteRelationships \/ WriteLinks
  BY <1>7 DEF Register, RegisterChunks, UpsertPoints, ExtractBatch, CacheExtraction, ExtractDone,
     WriteEntities, UpsertEntities, WriteRelationships, UpsertRelationships, WriteLinks,
     LinkChunks, storeVars
<1> QED BY <1>2, <1>3, <1>4, <1>5, <1>6, <1>7 DEF Next, IndexerStep

\* How the file at hand comes to be hashed, read and worked on.
LEMMA WorkStep ==
    ASSUME IInv, [Next]_vars, pc' \in Working
    PROVE  \/ /\ HashFile /\ pc' = "read" /\ job'.file = job.file /\ job'.hash = disk[job.file]
              /\ disk[job.file] # None /\ disk[job.file] # fingerprints[job.file]
              /\ job.file \in File /\ UNCHANGED fingerprints
           \/ /\ ReadFile /\ pc = "read" /\ job'.file = job.file /\ job'.hash = job.hash
              /\ job'.text = disk[job.file]
           \/ /\ pc \in Working /\ (pc' \in AfterRead => pc \in AfterRead)
              /\ job'.file = job.file /\ job'.hash = job.hash /\ job'.text = job.text
<1> USE DEF Working, AfterRead, Indexed
<1>1. job \in Job
  BY DEF IInv, TypeOK
<1>2. CASE HashFile
  <2>1. /\ disk[job.file] # None /\ disk[job.file] # fingerprints[job.file]
        /\ pc' = "read" /\ job' = [job EXCEPT !.hash = disk[job.file]]
    BY <1>2 DEF HashFile, NextFileAfter
  <2>2. job'.file = job.file /\ job'.hash = disk[job.file]
    BY <1>1, <2>1 DEF Job
  <2>3. job.file \in File /\ UNCHANGED fingerprints
    BY <1>2 DEF HashFile, IInv, JobOK, storeVars
  <2> QED BY <1>2, <2>1, <2>2, <2>3
<1>3. CASE ReadFile
  <2>1. pc = "read" /\ job' = [job EXCEPT !.text = disk[job.file]]
    BY <1>3 DEF ReadFile, NextFileAfter
  <2>2. job'.file = job.file /\ job'.hash = job.hash /\ job'.text = disk[job.file]
    BY <1>1, <2>1 DEF Job
  <2> QED BY <1>3, <2>1, <2>2
<1>4. CASE DeleteOldVectors \/ DeleteOldRows \/ UpsertPoints \/ ExtractDone
           \/ WriteEntities \/ WriteRelationships \/ WriteLinks
  BY <1>4 DEF DeleteOldVectors, DeleteOldRows, UpsertPoints, ExtractDone, WriteEntities,
     WriteRelationships, WriteLinks
<1>5. CASE Embed \/ Register \/ ExtractBatch \/ ExtractBatchFails
  BY <1>1, <1>5 DEF Embed, Register, ExtractBatch, ExtractBatchFails, Job
<1>6. CASE StartRun \/ EnsureCollection \/ Collect \/ PurgeVectors \/ PurgeRows \/ PurgeDone
           \/ NextFile \/ Finish \/ Certify \/ Crash \/ StepFails \/ TimesOut
  BY <1>6 DEF StartRun, EnsureCollection, Collect, PurgeVectors, PurgeRows, PurgeDone, NextFile,
     Finish, Certify, NextFileAfter, Crash, StepFails, TimesOut, Raise
<1>7. CASE ApplyLate \/ (\E g \in File, c \in Content \cup {None} : Edit(g, c)) \/ UNCHANGED vars
  BY <1>7 DEF ApplyLate, Edit, vars
<1> QED BY <1>2, <1>3, <1>4, <1>5, <1>6, <1>7 DEF Next, IndexerStep, Failure

LEMMA StrandedStays ==
    ASSUME IInv, [Next]_vars, NEW f \in File, Stranded(f), disk'[f] = disk[f],
           fingerprints'[f] = fingerprints[f]
    PROVE  Stranded(f)'
<1>1. fingerprints \in [File -> Hash \cup {None}] /\ f \in torn
  BY DEF IInv, StoreInv, StoreTypeOK, Stranded
<1>2. ~(PurgeRows \/ DeleteOldRows) \/ job.file # f
  <2>1. CASE PurgeRows \/ DeleteOldRows
    <3>1. fingerprints' = [fingerprints EXCEPT ![job.file] = None]
      BY <2>1 DEF PurgeRows, DeleteOldRows, PurgeFile, DeleteFileData, DeleteFileRows
    <3> QED BY <1>1, <3>1 DEF Stranded
  <2> QED BY <2>1
<1>3. f \in torn'
  <2> USE DEF qdrantVars
  <2>1. CASE PurgeVectors \/ DeleteOldVectors
    BY <1>1, <2>1 DEF PurgeVectors, DeleteOldVectors, DeleteVectors
  <2>2. CASE PurgeRows \/ DeleteOldRows
    BY <1>1, <1>2, <2>2 DEF PurgeRows, DeleteOldRows
  <2>3. CASE StartRun \/ EnsureCollection \/ Collect \/ PurgeDone \/ NextFile \/ Finish
             \/ HashFile \/ ReadFile \/ Embed \/ Register \/ UpsertPoints
    BY <1>1, <2>3 DEF StartRun, EnsureCollection, Collect, PurgeDone, NextFile, Finish, HashFile,
       ReadFile, Embed, Register, UpsertPoints
  <2>4. CASE ExtractBatch \/ ExtractBatchFails \/ ExtractDone \/ WriteEntities
             \/ WriteRelationships \/ WriteLinks \/ Certify
    BY <1>1, <2>4 DEF ExtractBatch, ExtractBatchFails, ExtractDone, WriteEntities,
       WriteRelationships, WriteLinks, Certify
  <2>5. CASE Crash \/ StepFails \/ TimesOut \/ ApplyLate \/ UNCHANGED vars
             \/ \E g \in File, c \in Content \cup {None} : Edit(g, c)
    BY <1>1, <2>5 DEF Crash, StepFails, TimesOut, ApplyLate, Edit, vars
  <2> QED BY <2>1, <2>2, <2>3, <2>4, <2>5 DEF Next, IndexerStep, Failure
<1> QED BY <1>3 DEF Stranded

LEMMA CurrentKept ==
    ASSUME IInv, [Next]_vars, NEW f \in File, ~Touches(f), Current(f), disk'[f] = disk[f]
    PROVE  Current(f)'
<1>1. CASE wal # <<>> /\ 1 \in 1..Len(wal) /\ wal' = Tail(wal)
           /\ points' = {p \in points : p.id \notin wal[1].drop} \cup wal[1].add
           /\ \A n \in 1..Len(wal') : n + 1 \in 1..Len(wal) /\ wal'[n] = wal[n + 1]
  <2>1. PointsOf(f)' \subseteq PointsOf(f)
    BY <1>1 DEF Current, PointsOf
  <2> QED BY <1>1, <2>1 DEF Current
<1> QED BY <1>1, LateStep DEF Current

LEMMA IntactKept ==
    ASSUME IInv, [Next]_vars, NEW f \in File, ~Touches(f), Current(f), Intact(f), disk'[f] = disk[f]
    PROVE  Intact(f)'
<1>1. CASE wal # <<>> /\ 1 \in 1..Len(wal) /\ wal' = Tail(wal)
           /\ points' = {p \in points : p.id \notin wal[1].drop} \cup wal[1].add
           /\ \A n \in 1..Len(wal') : n + 1 \in 1..Len(wal) /\ wal'[n] = wal[n + 1]
  <2>1. PointsOf(f)' = PointsOf(f)
    BY <1>1 DEF Current, Intact, PointsOf
  <2> QED BY <1>1, <2>1 DEF Intact
<1> QED BY <1>1, LateStep DEF Intact

\* A step that does not touch f, nor edits it, leaves its index as it is.
LEMMA ReflectsKept ==
    ASSUME IInv, [Next]_vars, NEW f \in File, ~Touches(f), Reflects(f), disk'[f] = disk[f],
           fingerprints'[f] = fingerprints[f] \/ Intact(f)
    PROVE  Reflects(f)'
BY CurrentKept, IntactKept, StrandedStays DEF Reflects

\* Nor does a file without vectors get any.
LEMMA NoVectorsKept ==
    ASSUME IInv, [Next]_vars, NEW f \in File, ~Touches(f), NoVectors(f)
    PROVE  NoVectors(f)'
<1>1. CASE wal # <<>> /\ 1 \in 1..Len(wal) /\ wal' = Tail(wal)
           /\ points' = {p \in points : p.id \notin wal[1].drop} \cup wal[1].add
           /\ \A n \in 1..Len(wal') : n + 1 \in 1..Len(wal) /\ wal'[n] = wal[n + 1]
  <2>1. PointsOf(f)' = {}
    BY <1>1 DEF NoVectors, PointsOf
  <2> QED BY <1>1, <2>1 DEF NoVectors
<1> QED BY <1>1, LateStep DEF NoVectors

\* A purge that begins takes the vectors of its file, and owes its rows.
LEMMA PurgeReflects ==
    ASSUME IInv, NEW f \in File, pc = "purge", f = FirstStale, PurgeVectors \/ TimesOut,
           Current(f), fingerprints[f] # None, fingerprints[f] = disk[f]
    PROVE  Reflects(f)'
<1>1. f \in torn' /\ UNCHANGED <<disk, fingerprints>>
  BY DEF PurgeVectors, DeleteVectors, TimesOut, envVars, storeVars
<1>2. CASE PurgeVectors
  <2>1. (PointsOf(f)' = {} \/ PointsOf(f)' = PointsOf(f)) /\ wal' = wal
    <3>1. CASE ChunkIdsOf(f) = {}
      BY <1>2, <3>1 DEF PurgeVectors, DeleteVectors, PointsOf
    <3>2. CASE ChunkIdsOf(f) # {}
      BY <1>2, <3>2, DeleteEffect DEF PurgeVectors, DeleteVectors, Call
    <3> QED BY <3>1, <3>2
  <2> QED BY <1>1, <2>1 DEF Reflects, Current, Stranded
<1>3. CASE TimesOut
  <2>1. wal \in Seq(Op) /\ Len(wal) \in Nat
    BY DEF IInv, TypeOK
  <2>2. PointsOf(f)' = PointsOf(f) /\ wal' = Append(wal, Delete(ChunkIdsOf(f)))
    BY <1>3 DEF TimesOut, PointsOf
  <2>3. \A n \in 1..Len(wal') : \A p \in wal'[n].add : n \in 1..Len(wal) /\ wal'[n] = wal[n]
    BY <2>1, <2>2 DEF Delete
  <2> QED BY <1>1, <2>2, <2>3 DEF Reflects, Current, Stranded
<1> QED BY <1>2, <1>3

\* A file that has got through to its fingerprint is indexed as it was read.
LEMMA CertifiedAsRead ==
    ASSUME IInv, ServedInv, pc = "certify", job.text = disk[job.file]
    PROVE  Current(job.file) /\ Intact(job.file)
<1>1. job.file \in File /\ job.text \in Content
  BY DEF IInv, JobOK
<1>2. CASE NumChunks[job.text] > 0 /\ wal = <<>> /\ InVersion(job.file, job.text)
  <2>1. PICK g \in Gen : PointsOf(job.file) = Version(job.file, job.text, g)
    BY <1>2 DEF InVersion
  <2>2. PICK i : i \in Ids(g, job.text)
    BY <1>1, <1>2, IdsType
  <2>3. PointsOf(job.file) # {}
    BY <2>1, <2>2 DEF Version
  <2>4. \A p \in PointsOf(job.file) : p.text = job.text
    BY <2>1 DEF Version
  <2>5. 1..Len(wal) = {}
    BY <1>2
  <2> QED BY <2>3, <2>4, <2>5 DEF Current, Intact
<1>3. CASE NumChunks[job.text] = 0 /\ NoVectors(job.file)
  BY <1>3 DEF Current, Intact, NoVectors
<1> QED BY <1>2, <1>3 DEF ServedInv, JobServed, Indexed

LEMMA SeenStep ==
    ASSUME ~Reverts, IInv, CleanInv, [Next]_vars PROVE SeenOK'
<1>1. ASSUME NEW f \in File PROVE {disk'[f], fingerprints'[f]} \subseteq seen'[f] \cup {None}
  <2>1. Certify => job.hash \in seen[job.file]
    BY DEF Certify, CleanInv, SeenOK, AfterRead, Indexed
  <2>2. {disk[f], fingerprints[f]} \subseteq seen[f] \cup {None}
    BY DEF CleanInv, SeenOK
  <2> QED BY <2>1, <2>2, DiskStep, FingerprintStep
<1>2. ASSUME pc' \in Working PROVE job'.hash \in seen'[job'.file]
  <2>1. CASE HashFile /\ job'.file = job.file /\ job'.hash = disk[job.file]
             /\ disk[job.file] # None /\ job.file \in File
    <3>1. disk[job.file] \in seen[job.file]
      BY <2>1 DEF CleanInv, SeenOK
    <3> QED BY <2>1, <3>1, DiskStep
  <2>2. CASE pc \in Working /\ job'.file = job.file /\ job'.hash = job.hash
    <3>1. job.file \in File
      BY <2>2 DEF IInv, JobOK, Working, AfterRead, Indexed
    <3>2. job.hash \in seen[job.file]
      BY <2>2 DEF CleanInv, SeenOK, Working
    <3> QED BY <2>2, <3>1, <3>2, DiskStep
  <2>3. pc = "read" => pc \in Working
    BY DEF Working
  <2> QED BY <1>2, <2>1, <2>2, <2>3, WorkStep
<1> QED BY <1>1, <1>2 DEF SeenOK, Working

LEMMA CertifiedReflectsStep ==
    ASSUME ~Reverts, IInv, ServedInv, CleanInv, [Next]_vars PROVE CertifiedReflects'
<1>1. SUFFICES ASSUME NEW f \in File, fingerprints'[f] # None, fingerprints'[f] = disk'[f]
               PROVE  Reflects(f)'
  BY DEF CertifiedReflects
<1>2. CASE fingerprints'[f] = fingerprints[f]
  <2>1. disk'[f] = disk[f]
    BY <1>1, <1>2, DiskStep DEF CleanInv, SeenOK
  <2>2. Reflects(f)
    BY <1>1, <1>2, <2>1 DEF CleanInv, CertifiedReflects
  <2>3. CASE ~Touches(f)
    BY <1>2, <2>1, <2>2, <2>3, ReflectsKept
  <2>4. CASE Touches(f)
    <3>1. pc = "purge" /\ f = FirstStale /\ (PurgeVectors \/ TimesOut)
      BY <1>1, <1>2, <2>1, <2>4 DEF Touches, CleanInv, WorkIsDue, AfterRead
    <3> QED BY <1>1, <1>2, <2>1, <2>2, <3>1, PurgeReflects DEF Reflects
  <2> QED BY <2>3, <2>4
<1>3. CASE Certify /\ f = job.file /\ fingerprints'[f] = job.hash
  <2>1. disk'[f] = disk[f] /\ pc = "certify" /\ ~Touches(f)
    BY <1>3 DEF Certify, envVars, Touches
  <2>2. job.text = disk[f]
    BY <1>1, <1>3, <2>1 DEF CleanInv, TextIsNewer, AfterRead, Indexed
  <2> QED BY <1>3, <2>1, <2>2, CertifiedAsRead, ReflectsKept DEF Reflects
<1> QED BY <1>1, <1>2, <1>3, FingerprintStep

LEMMA TextIsNewerStep ==
    ASSUME ~Reverts, IInv, CleanInv, [Next]_vars PROVE TextIsNewer'
<1>1. SUFFICES ASSUME pc' \in AfterRead, job'.hash = disk'[job'.file]
               PROVE  job'.text = disk'[job'.file]
  BY DEF TextIsNewer
<1>2. CASE ReadFile /\ job'.file = job.file /\ job'.text = disk[job.file]
  BY <1>2 DEF ReadFile, envVars
<1>3. CASE pc \in AfterRead /\ job'.file = job.file /\ job'.hash = job.hash /\ job'.text = job.text
  <2>1. job.file \in File /\ job.hash \in seen[job.file]
    BY <1>3 DEF CleanInv, SeenOK, IInv, JobOK, AfterRead, Indexed
  <2>2. disk'[job.file] = disk[job.file]
    BY <1>1, <1>3, <2>1, DiskStep
  <2> QED BY <1>1, <1>3, <2>2 DEF CleanInv, TextIsNewer
<1>4. pc' # "read" /\ pc' \in Working
  BY <1>1 DEF AfterRead, Indexed, Working
<1> QED BY <1>1, <1>2, <1>3, <1>4, WorkStep

\* What Collect finds is there; of what it misses everywhere, and does not call stale, there
\* is nothing in Qdrant.
LEMMA CollectStep ==
    ASSUME IInv, Collect
    PROVE  /\ todo' = files' /\ \A f \in files' : disk'[f] # None
           /\ \A f \in Vanished' : NoVectors(f)' \/ f \in stale'
<1>1. /\ todo' = files' /\ \A f \in files' : disk[f] # None
      /\ stale' = {f \in TrackedPaths \ files' : DirsOf[f] \cap unscanned' = {}}
  BY CollectEffect DEF IInv
<1>2. UNCHANGED <<disk, points, wal>>
  BY DEF Collect, envVars, qdrantVars
<1>3. ASSUME NEW f \in Vanished', f \notin stale' PROVE NoVectors(f)'
  <2>1. f \notin TrackedPaths /\ f \in File
    BY <1>1, <1>3 DEF Vanished, Scanned
  <2>2. ChunkIdsOf(f) = {}
    BY <2>1 DEF TrackedPaths
  <2>3. \A c \in chunks : c.file # f
    BY <2>2 DEF ChunkIdsOf
  <2>4. \A p : [id |-> p.id, file |-> p.file] \in chunks => p.file # f
    BY <2>3
  <2>5. PointsOf(f) = {}
    BY <2>4 DEF IInv, NoOrphanVectors, PointsOf
  <2>6. \A n \in 1..Len(wal) : \A p \in wal[n].add : p.file # f
    BY <2>4 DEF IInv, NoOrphanVectors
  <2> QED BY <1>2, <2>5, <2>6 DEF NoVectors, PointsOf
<1> QED BY <1>1, <1>2, <1>3

\* Once listed, files only leave the lists.
LEMMA ListStep ==
    ASSUME IInv, LeftAlone, CleanInv, [Next]_vars, ~Collect
    PROVE  /\ stale' \subseteq stale
           /\ settled' => settled /\ UNCHANGED <<files, unscanned, disk>>
<1> USE DEF runVars, envVars
<1>1. CASE StartRun \/ EnsureCollection \/ PurgeVectors \/ PurgeRows \/ PurgeDone \/ NextFile \/ Finish
  BY <1>1 DEF StartRun, EnsureCollection, PurgeVectors, PurgeRows, PurgeDone, NextFile, Finish
<1>2. CASE HashFile \/ ReadFile \/ Certify
  BY <1>2 DEF HashFile, ReadFile, Certify, NextFileAfter
<1>3. CASE Embed \/ DeleteOldVectors \/ DeleteOldRows \/ Register \/ UpsertPoints \/ ExtractBatch
           \/ ExtractBatchFails \/ ExtractDone \/ WriteEntities \/ WriteRelationships \/ WriteLinks
  BY <1>3 DEF Embed, DeleteOldVectors, DeleteOldRows, Register, UpsertPoints, ExtractBatch,
     ExtractBatchFails, ExtractDone, WriteEntities, WriteRelationships, WriteLinks
<1>4. CASE Crash \/ StepFails \/ TimesOut
  BY <1>4 DEF Crash, StepFails, TimesOut, Raise, NextFileAfter
<1>5. CASE ApplyLate \/ (\E g \in File, c \in Content \cup {None} : Edit(g, c)) \/ UNCHANGED vars
  BY <1>5 DEF ApplyLate, Edit, vars
<1> QED BY <1>1, <1>2, <1>3, <1>4, <1>5 DEF Next, IndexerStep, Failure

\* A fingerprint that is not that of the file does not become it.
LEMMA StaysDue ==
    ASSUME ~Reverts, IInv, CleanInv, [Next]_vars, NEW f \in File,
           fingerprints[f] = None \/ fingerprints[f] # disk[f], ~(Certify /\ f = job.file)
    PROVE  fingerprints'[f] = None \/ fingerprints'[f] # disk'[f]
BY DiskStep, FingerprintStep DEF CleanInv, SeenOK

LEMMA WorkIsDueStep ==
    ASSUME ~Reverts, IInv, CleanInv, [Next]_vars PROVE WorkIsDue'
<1> SUFFICES ASSUME pc' \in Working
             PROVE  fingerprints'[job'.file] = None \/ fingerprints'[job'.file] # disk'[job'.file]
  BY DEF WorkIsDue, Working
<1>1. CASE /\ HashFile /\ job'.file = job.file
           /\ disk[job.file] # fingerprints[job.file] /\ UNCHANGED fingerprints
  BY <1>1 DEF HashFile, envVars
<1>2. CASE pc \in Working /\ job'.file = job.file
  <2>1. job.file \in File
    BY <1>2 DEF IInv, JobOK, Working, AfterRead, Indexed
  <2>2. ~Certify
    BY DEF Certify, NextFileAfter, Working, AfterRead, Indexed
  <2> QED BY <1>2, <2>1, <2>2, StaysDue DEF CleanInv, WorkIsDue, Working
<1>3. pc = "read" => pc \in Working
  BY DEF Working
<1> QED BY <1>1, <1>2, <1>3, WorkStep

\* How runs begin, end and go from purging to indexing.
RunShape ==
    /\ exit = "ok" => pc = "idle"
    /\ pc \in {"idle", "ensure"} => stale = {} /\ todo = {} /\ ~failed
    /\ pc \notin {"purge", "purgeRows"} => stale = {}

LEMMA RunShapeStep == ASSUME RunShape, [Next]_vars PROVE RunShape'
<1> USE DEF RunShape, runVars
<1>1. CASE StartRun \/ EnsureCollection \/ Collect \/ PurgeVectors \/ PurgeRows \/ PurgeDone
           \/ NextFile \/ Finish
  BY <1>1 DEF StartRun, EnsureCollection, Collect, PurgeVectors, PurgeRows, PurgeDone, NextFile,
     Finish
<1>2. CASE HashFile \/ ReadFile \/ Certify
  BY <1>2 DEF HashFile, ReadFile, Certify, NextFileAfter
<1>3. CASE Embed \/ DeleteOldVectors \/ DeleteOldRows \/ Register \/ UpsertPoints \/ ExtractBatch
           \/ ExtractBatchFails \/ ExtractDone \/ WriteEntities \/ WriteRelationships \/ WriteLinks
  BY <1>3 DEF Embed, DeleteOldVectors, DeleteOldRows, Register, UpsertPoints, ExtractBatch,
     ExtractBatchFails, ExtractDone, WriteEntities, WriteRelationships, WriteLinks
<1>4. CASE Crash
  BY <1>4 DEF Crash
<1>5. CASE StepFails \/ TimesOut
  <2>1. pc \notin {"idle"} /\ Raise
    BY <1>5 DEF StepFails, TimesOut, FaultsAt
  <2> QED BY <2>1 DEF Raise, NextFileAfter
<1>6. CASE ApplyLate \/ (\E g \in File, c \in Content \cup {None} : Edit(g, c)) \/ UNCHANGED vars
  BY <1>6 DEF ApplyLate, Edit, vars
<1> QED BY <1>1, <1>2, <1>3, <1>4, <1>5, <1>6 DEF Next, IndexerStep, Failure

\* A run that nothing has disturbed so far.
Undisturbed == settled /\ ~failed /\ (pc \notin {"idle", "ensure"} \/ exit = "ok")

\* Steps that pass from one file to the next.
LEMMA PassOn ==
    ASSUME IInv, ServedInv, CleanInv, [Next]_vars, Undisturbed, Undisturbed', NEW f \in File,
           job.file = f, HashFile \/ ReadFile \/ Certify
    PROVE  UNCHANGED <<todo, stale>> /\ (Reflects(f)' \/ job'.file = f)
<1>1. CASE HashFile
  <2>1. UNCHANGED <<disk, fingerprints>> /\ pc = "hash" /\ job \in Job /\ ~Touches(f)
    BY <1>1 DEF HashFile, envVars, storeVars, IInv, TypeOK, Touches
  <2>2. CASE NextFileAfter("failed")
    BY <2>2 DEF NextFileAfter, Undisturbed
  <2>3. CASE NextFileAfter("skipped") /\ disk[job.file] = fingerprints[job.file] /\ disk[job.file] # None
    <3>1. Reflects(f)
      BY <2>3 DEF CleanInv, CertifiedReflects
    <3> QED BY <2>1, <2>3, <3>1, ReflectsKept DEF NextFileAfter
  <2>4. CASE job' = [job EXCEPT !.hash = disk[job.file]] /\ UNCHANGED runVars
    <3>1. job'.file = job.file
      BY <2>1, <2>4 DEF Job
    <3> QED BY <2>4, <3>1 DEF runVars
  <2> QED BY <1>1, <2>2, <2>3, <2>4 DEF HashFile
<1>2. CASE ReadFile
  <2>1. CASE NextFileAfter("failed")
    BY <2>1 DEF NextFileAfter, Undisturbed
  <2>2. CASE job' = [job EXCEPT !.text = disk[job.file]] /\ UNCHANGED runVars
    <3>1. job'.file = job.file
      BY <2>2 DEF IInv, TypeOK, Job
    <3> QED BY <2>2, <3>1 DEF runVars
  <2> QED BY <1>2, <2>1, <2>2 DEF ReadFile
<1>3. CASE Certify
  <2>1. UNCHANGED <<disk, todo, stale>> /\ pc = "certify" /\ ~Touches(f)
    BY <1>3 DEF Certify, NextFileAfter, envVars, Touches
  <2>2. job.text = disk[job.file]
    BY <2>1 DEF Undisturbed, CleanInv, RunCovers, AfterRead, Indexed
  <2>3. Current(f) /\ Intact(f)
    BY <2>1, <2>2, CertifiedAsRead
  <2> QED BY <2>1, <2>3, ReflectsKept DEF Reflects
<1> QED BY <1>1, <1>2, <1>3

\* Steps that stay with the file at hand, or take up the next one on a list.
LEMMA StayOn ==
    ASSUME IInv, LeftAlone, CleanInv, [Next]_vars, Undisturbed, Undisturbed', ~Collect,
           ~PurgeRows, ~HashFile, ~ReadFile, ~Certify
    PROVE  /\ UNCHANGED stale
           /\ \A f \in files : f \in todo \/ job.file = f => f \in todo' \/ job'.file = f
<1> USE DEF runVars
<1>1. CASE StartRun \/ EnsureCollection \/ Crash \/ StepFails \/ TimesOut
  <2>1. CASE EnsureCollection
    BY <2>1 DEF EnsureCollection, Undisturbed, CleanInv, RunCovers
  <2>2. CASE StartRun \/ Crash
    BY <2>2 DEF StartRun, Crash, Undisturbed
  <2>3. CASE StepFails \/ TimesOut
    BY <2>3 DEF StepFails, TimesOut, Raise, NextFileAfter, Undisturbed
  <2> QED BY <1>1, <2>1, <2>2, <2>3
<1>2. None \notin files
  BY IngestionAssumption DEF IInv, TypeOK, IngestionAssumption
<1>3. CASE PurgeVectors
  <2>1. job.file = None /\ UNCHANGED <<stale, todo>>
    BY <1>3 DEF PurgeVectors, LeftAlone
  <2> QED BY <1>2, <2>1
<1>4. CASE PurgeDone \/ Finish \/ DeleteOldVectors \/ DeleteOldRows \/ UpsertPoints
           \/ ExtractDone \/ WriteEntities \/ WriteRelationships \/ WriteLinks
  BY <1>4 DEF PurgeDone, Finish, DeleteOldVectors, DeleteOldRows, UpsertPoints, ExtractDone,
     WriteEntities, WriteRelationships, WriteLinks
<1>5. CASE NextFile
  <2>1. PICK f \in todo : job' = JobFor(f) /\ todo' = todo \ {f}
    BY <1>5 DEF NextFile
  <2>2. job'.file = f /\ job.file = None /\ UNCHANGED stale
    BY <1>5, <2>1 DEF NextFile, JobFor, LeftAlone
  <2> QED BY <1>2, <2>1, <2>2
<1>6. CASE Embed \/ Register \/ ExtractBatch \/ ExtractBatchFails
  <2>1. job'.file = job.file /\ UNCHANGED <<stale, todo>>
    BY <1>6 DEF Embed, Register, ExtractBatch, ExtractBatchFails, IInv, TypeOK, Job
  <2> QED BY <2>1
<1>7. CASE ApplyLate \/ (\E g \in File, c \in Content \cup {None} : Edit(g, c)) \/ UNCHANGED vars
  BY <1>7 DEF ApplyLate, Edit, vars
<1> QED BY <1>1, <1>3, <1>4, <1>5, <1>6, <1>7 DEF Next, IndexerStep, Failure

LEMMA UndisturbedBefore ==
    ASSUME IInv, LeftAlone, CleanInv, [Next]_vars, Undisturbed', ~Collect
    PROVE  Undisturbed
<1>1. settled
  BY ListStep DEF Undisturbed
<1> USE DEF runVars
<1>2. CASE StartRun \/ EnsureCollection \/ Crash
  BY <1>2 DEF StartRun, EnsureCollection, Crash, Undisturbed, CleanInv, RunCovers
<1>3. CASE StepFails \/ TimesOut
  BY <1>3 DEF StepFails, TimesOut, Raise, NextFileAfter, Undisturbed
<1>4. CASE PurgeVectors \/ PurgeRows \/ PurgeDone \/ NextFile \/ Finish
  BY <1>1, <1>4 DEF PurgeVectors, PurgeRows, PurgeDone, NextFile, Finish, Undisturbed
<1>5. CASE HashFile \/ ReadFile \/ Certify
  BY <1>1, <1>5 DEF HashFile, ReadFile, Certify, NextFileAfter, Undisturbed
<1>6. CASE Embed \/ DeleteOldVectors \/ DeleteOldRows \/ Register \/ UpsertPoints \/ ExtractBatch
           \/ ExtractBatchFails \/ ExtractDone \/ WriteEntities \/ WriteRelationships \/ WriteLinks
  BY <1>1, <1>6 DEF Embed, DeleteOldVectors, DeleteOldRows, Register, UpsertPoints, ExtractBatch,
     ExtractBatchFails, ExtractDone, WriteEntities, WriteRelationships, WriteLinks, Undisturbed
<1>7. CASE ApplyLate \/ (\E g \in File, c \in Content \cup {None} : Edit(g, c)) \/ UNCHANGED vars
  BY <1>1, <1>7 DEF ApplyLate, Edit, vars, Undisturbed
<1> QED BY <1>2, <1>3, <1>4, <1>5, <1>6, <1>7 DEF Next, IndexerStep, Failure

\* A file the run found is still to be indexed, or is.
LEMMA CoveredStep ==
    ASSUME ~Reverts, IInv, ServedInv, LeftAlone, CleanInv, [Next]_vars, Undisturbed',
           NEW f \in files'
    PROVE  Reflects(f)' \/ f \in todo' \/ job'.file = f
<1>1. CASE Collect
  BY <1>1, CollectStep
<1>2. CASE ~Collect
  <2>1. Undisturbed
    BY <1>2, UndisturbedBefore
  <2>2. UNCHANGED <<files, disk>> /\ f \in files /\ f \in File
    BY <1>2, ListStep DEF Undisturbed, IInv, TypeOK
  <2>3. Reflects(f) \/ f \in todo \/ job.file = f
    BY <2>1, <2>2 DEF Undisturbed, CleanInv, RunCovers
  <2>4. f \notin stale
    BY <2>2 DEF LeftAlone, Vanished, CleanInv, RunCovers
  <2>5. CASE Reflects(f) /\ ~(f \in todo \/ job.file = f)
    <3>1. f \notin stale /\ ~Touches(f)
      BY <2>4, <2>5, FirstStaleType DEF Touches, IInv, TypeOK
    <3>2. fingerprints'[f] = fingerprints[f]
      BY <2>2, <2>5, <3>1, OthersKept DEF RowsKept
    <3> QED BY <2>2, <2>5, <3>1, <3>2, ReflectsKept
  <2>6. CASE (f \in todo \/ job.file = f) /\ PurgeRows
    <3>1. job.file \in stale /\ UNCHANGED todo
      BY <2>6 DEF PurgeRows, LeftAlone
    <3> QED BY <2>4, <2>6, <3>1
  <2>7. CASE (f \in todo \/ job.file = f) /\ (HashFile \/ ReadFile \/ Certify)
    <3>1. job.file \in File
      BY <2>7 DEF HashFile, ReadFile, Certify, IInv, JobOK
    <3>2. UNCHANGED todo
      BY <2>1, <2>7, <3>1, PassOn
    <3> QED BY <2>1, <2>2, <2>7, <3>2, PassOn
  <2>8. CASE (f \in todo \/ job.file = f) /\ ~PurgeRows /\ ~HashFile /\ ~ReadFile /\ ~Certify
    BY <1>2, <2>1, <2>2, <2>8, StayOn
  <2> QED BY <2>3, <2>5, <2>6, <2>7, <2>8
<1> QED BY <1>1, <1>2

\* Of a file that has vanished there is nothing in Qdrant, or it is still to be purged.
LEMMA VanishedStep ==
    ASSUME ~Reverts, IInv, ServedInv, LeftAlone, CleanInv, [Next]_vars, Undisturbed',
           NEW f \in Vanished'
    PROVE  NoVectors(f)' \/ f \in stale'
<1>1. CASE Collect
  BY <1>1, CollectStep
<1>2. CASE ~Collect
  <2>1. Undisturbed
    BY <1>2, UndisturbedBefore
  <2>2. f \in Vanished /\ f \in File
    BY <1>2, ListStep DEF Undisturbed, Vanished, Scanned
  <2>3. NoVectors(f) \/ f \in stale
    BY <2>1, <2>2 DEF Undisturbed, CleanInv, RunCovers
  <2>4. CASE f \notin stale
    <3>1. job.file # f
      <4>1. f # None /\ f \notin files
        BY <2>2, IngestionAssumption DEF Vanished, IngestionAssumption
      <4> QED BY <2>4, <4>1 DEF LeftAlone
    <3>2. ~Touches(f)
      BY <2>4, <3>1, FirstStaleType DEF Touches, IInv, TypeOK
    <3> QED BY <2>2, <2>3, <2>4, <3>2, NoVectorsKept
  <2>5. CASE f \in stale /\ PurgeRows
    <3>1. NoVectors(job.file) /\ stale' = stale \ {job.file} /\ UNCHANGED <<points, wal>>
      BY <2>5 DEF PurgeRows, IInv, JobOK
    <3> QED BY <2>5, <3>1 DEF NoVectors, PointsOf
  <2>6. CASE f \in stale /\ ~PurgeRows
    <3>1. HashFile \/ ReadFile \/ Certify => job.file \in File
      BY DEF HashFile, ReadFile, Certify, IInv, JobOK
    <3>2. stale' = stale
      BY <1>2, <2>1, <2>6, <3>1, PassOn, StayOn
    <3> QED BY <2>6, <3>2
  <2> QED BY <2>4, <2>5, <2>6
<1> QED BY <1>1, <1>2

LEMMA RunCoversStep ==
    ASSUME ~Reverts, IInv, ServedInv, LeftAlone, CleanInv, [Next]_vars PROVE RunCovers'
<1>1. RunShape'
  BY RunShapeStep DEF CleanInv, RunCovers, RunShape
<1>2. ASSUME settled', pc' \in AfterRead PROVE job'.text = disk'[job'.file]
  <2>1. pc' # "read" /\ pc' # "purge" /\ pc' \in Working
    BY <1>2 DEF AfterRead, Indexed, Working
  <2>2. settled
    BY <1>2, <2>1, ListStep DEF Collect
  <2>3. CASE ReadFile /\ job'.file = job.file /\ job'.text = disk[job.file]
    BY <2>3 DEF ReadFile, envVars
  <2>4. CASE pc \in AfterRead /\ job'.file = job.file /\ job'.text = job.text
    <3>1. job.file \in File
      BY <2>4 DEF IInv, JobOK, AfterRead, Indexed
    <3> QED BY <1>2, <2>2, <2>4, <3>1, DiskStep DEF CleanInv, RunCovers
  <2> QED BY <1>2, <2>1, <2>3, <2>4, WorkStep
<1>3. ASSUME settled', NEW f \in files' PROVE disk'[f] # None
  <2>1. CASE Collect
    BY <2>1, CollectStep
  <2>2. CASE ~Collect
    BY <1>3, <2>2, ListStep DEF CleanInv, RunCovers
  <2> QED BY <2>1, <2>2
<1>4. ASSUME Undisturbed'
      PROVE  /\ \A f \in files' : Reflects(f)' \/ f \in todo' \/ job'.file = f
             /\ \A f \in Vanished' : NoVectors(f)' \/ f \in stale'
  BY <1>4, CoveredStep, VanishedStep
<1> QED BY <1>1, <1>2, <1>3, <1>4 DEF RunCovers, RunShape, Undisturbed

LEMMA CleanStep ==
    ASSUME ~Reverts, IInv, ServedInv, LeftAlone, CleanInv, [Next]_vars PROVE CleanInv'
BY SeenStep, CertifiedReflectsStep, WorkIsDueStep, TextIsNewerStep, RunCoversStep DEF CleanInv

LEMMA CleanInit == ASSUME ~Reverts, Init PROVE CleanInv
<1>1. SeenOK
  BY DEF Init, StoreInit, SeenOK, AfterRead, Indexed
<1>2. CertifiedReflects /\ WorkIsDue /\ TextIsNewer /\ RunCovers
  BY DEF Init, StoreInit, CertifiedReflects, WorkIsDue, TextIsNewer, RunCovers, AfterRead, Indexed
<1> QED BY <1>1, <1>2 DEF CleanInv

\* As long as no content returns, the inductive invariant behind the clean runs holds.
LEMMA CleanAlways == ~Reverts => (Spec => [](LeftAlone /\ CleanInv))
<1> SUFFICES ASSUME ~Reverts PROVE Spec => [](LeftAlone /\ CleanInv)
  OBVIOUS
<1>1. Init => ServedInv /\ LeftAlone /\ CleanInv
  BY InitServed, LeftAloneInit, CleanInit
<1>2. IInv /\ ServedInv /\ LeftAlone /\ CleanInv /\ [Next]_vars => ServedInv' /\ LeftAlone' /\ CleanInv'
  BY ServedStep, LeftAloneStep, CleanStep
<1> QED BY <1>1, <1>2, IngestionInvariant, PTL DEF Spec

LEMMA CleanEnd ==
    ASSUME IInv, LeftAlone, CleanInv, exit = "ok", settled
    PROVE  /\ \A f \in files : Reflects(f) /\ disk[f] # None
           /\ \A f \in Vanished : NoVectors(f)
<1>1. pc = "idle" /\ stale = {} /\ todo = {} /\ ~failed /\ job.file = None
  BY DEF LeftAlone, CleanInv, RunCovers
<1>2. None \notin files
  BY IngestionAssumption DEF IInv, TypeOK, IngestionAssumption
<1> QED BY <1>1, <1>2 DEF CleanInv, RunCovers

\* After a run that exits 0, with no edit since it listed the files, every file it found has
\* its vectors in Qdrant, whatever failed before, unless the deletion of the file ended
\* between the two stores and its content is the one of the fingerprint left there
\* (index_documents.py:311-312, 407-453).
THEOREM CleanSearchable == ~Reverts => (Spec => []OnlyStrandedMissing)
<1>1. IInv /\ LeftAlone /\ CleanInv => OnlyStrandedMissing
  BY CleanEnd DEF OnlyStrandedMissing, Reflects, Intact
<1> QED BY <1>1, CleanAlways, IngestionInvariant, PTL

\* After such a run no vector is of another content than the one on disk, and none is of a
\* file that a scan of all its directories did not find (index_documents.py:407-453).
THEOREM CleanCurrent == ~Reverts => (Spec => []CleanRunCurrent)
<1>1. ASSUME IInv, LeftAlone, CleanInv, exit = "ok", settled, NEW f \in File,
             f \in files \/ Scanned(f), NEW p \in PointsOf(f)
      PROVE  f \in files /\ p.text = disk[f]
  <2>1. f \in files \/ f \in Vanished
    BY <1>1 DEF Vanished
  <2> QED BY <1>1, <2>1, CleanEnd DEF Reflects, Current, NoVectors
<1>2. IInv /\ LeftAlone /\ CleanInv => CleanRunCurrent
  BY <1>1 DEF CleanRunCurrent
<1> QED BY <1>2, CleanAlways, IngestionInvariant, PTL
-----------------------------------------------------------------------------
(***************************************************************************)
(* Certificates.  What merging the replies of the batches one by one       *)
(* gives: by induction over the batches, as that there is no first number  *)
(* of batches without a result.                                            *)
(***************************************************************************)
IsAcc(c, N, g) ==
    g = [n \in 0..N |-> IF n = 0 THEN NoReply ELSE MergeReply(g[n - 1], Reply[Batches[c][n]])]

LEMMA ExtractionIsAcc ==
    ASSUME NEW f \in File \ HistoryDoc, NEW c
    PROVE  Extraction(f, c) = Acc(c)[Len(Batches[c])]
BY DEF Extraction, Acc

LEMMA AccChosen == ASSUME NEW c PROVE Acc(c) = CHOOSE g : IsAcc(c, Len(Batches[c]), g)
BY DEF Acc, IsAcc

LEMMA AccExists ==
    ASSUME NEW c \in Content PROVE \A N \in 0..Len(Batches[c]) : \E g : IsAcc(c, N, g)
<1> DEFINE L == Len(Batches[c])
           S == {N \in 0..L : ~\E g : IsAcc(c, N, g)}
           key == [N \in S |-> 0]
<1>1. L \in Nat
  BY IngestionAssumption DEF IngestionAssumption
<1>2. SUFFICES ASSUME S # {} PROVE FALSE
  OBVIOUS
<1>3. S \in SUBSET Nat /\ IsFiniteSet(S) /\ key \in [S -> Nat]
  <2>1. IsFiniteSet(0..L)
    BY <1>1, FS_Interval
  <2> QED BY <1>1, <2>1, FS_Subset
<1>4. PICK N \in S : \A M \in S : N <= M
  <2> HIDE DEF S
  <2>1. PICK x \in S : x = Best(S, key)
    BY <1>2, <1>3, BestExists
  <2>2. \A M \in S : key[x] > key[M] \/ (key[x] = key[M] /\ x <= M)
    BY <1>2, <1>3, <2>1, BestExists
  <2>3. \A M \in S : x <= M
    BY <2>2
  <2> QED BY <2>3
<1>5. CASE N = 0
  <2> DEFINE g == [n \in 0..0 |-> NoReply]
  <2>1. IsAcc(c, 0, g)
    BY DEF IsAcc
  <2> QED BY <1>5, <2>1
<1>6. CASE N # 0
  <2>1. N \in Nat /\ N - 1 \in 0..L /\ N - 1 \notin S
    BY <1>1, <1>3, <1>4, <1>6
  <2>2. PICK g : IsAcc(c, N - 1, g)
    BY <2>1
  <2> DEFINE h == [n \in 0..N |-> IF n = N THEN MergeReply(g[N - 1], Reply[Batches[c][N]]) ELSE g[n]]
  <2>3. ASSUME NEW n \in 0..N
        PROVE  h[n] = IF n = 0 THEN NoReply ELSE MergeReply(h[n - 1], Reply[Batches[c][n]])
    <3>1. CASE n = N
      BY <1>6, <2>1, <3>1
    <3>2. CASE n # N
      <4>1. n \in 0..(N - 1)
        BY <2>1, <3>2
      <4>2. g[n] = IF n = 0 THEN NoReply ELSE MergeReply(g[n - 1], Reply[Batches[c][n]])
        BY <2>2, <4>1 DEF IsAcc
      <4>3. n # 0 => n - 1 \in 0..N /\ n - 1 # N
        BY <2>1
      <4> QED BY <3>2, <4>2, <4>3
    <3> QED BY <3>1, <3>2
  <2>4. IsAcc(c, N, h)
    BY <2>3 DEF IsAcc
  <2> QED BY <2>4
<1> QED BY <1>5, <1>6

\* Extracting one more batch merges its reply.
LEMMA AccGrows ==
    ASSUME NEW c \in Content
    PROVE  /\ Acc(c)[0] = NoReply
           /\ \A n \in 1..Len(Batches[c]) :
                 Acc(c)[n] = MergeReply(Acc(c)[n - 1], Reply[Batches[c][n]])
<1>1. Len(Batches[c]) \in Nat
  BY IngestionAssumption DEF IngestionAssumption
<1>2. IsAcc(c, Len(Batches[c]), Acc(c))
  BY <1>1, AccExists, AccChosen
<1> QED BY <1>1, <1>2 DEF IsAcc

LEMMA ExtractionOf ==
    ASSUME NEW f \in File, NEW c \in Content
    PROVE  f \in HistoryDoc \/ NumChunks[c] = 0 => Extraction(f, c) = NoReply
<1>1. f \in HistoryDoc => Extraction(f, c) = NoReply
  BY DEF Extraction
<1>2. NumChunks[c] = 0 => Len(Batches[c]) = 0
  BY IngestionAssumption DEF IngestionAssumption
<1>3. Len(Batches[c]) = 0 /\ f \notin HistoryDoc => Extraction(f, c) = NoReply
  BY ExtractionIsAcc, AccGrows
<1> QED BY <1>1, <1>2, <1>3

\* The file at hand and what has been extracted from it, batch by batch.
LEMMA BatchExtracts == ASSUME IInv, CompleteInv, ExtractBatch PROVE JobExtract'
<1>1. job \in Job /\ job.text \in Content /\ job.batch \in Nat
  BY DEF IInv, TypeOK, JobOK, ExtractBatch, Job
<1> DEFINE L == Len(Batches[job.text])
           n == job.batch
           got == MergeReply([ents |-> job.ents, rels |-> job.rels], Reply[Batches[job.text][n]])
<1>2. L \in Nat /\ n <= L
  BY <1>1, IngestionAssumption DEF IngestionAssumption, ExtractBatch, BatchesLeft
<1>3. /\ pc = "extract" /\ pc' = pc /\ job'.file = job.file /\ job'.text = job.text
      /\ job'.batch = n + 1 /\ job'.ents = got.ents /\ job'.rels = got.rels
      /\ job'.had_failure = job.had_failure
  BY <1>1 DEF ExtractBatch, Job
<1>4. ASSUME ~job.had_failure
      PROVE  /\ job'.batch - 1 \in 0..L
             /\ job'.ents = Acc(job.text)[job'.batch - 1].ents
             /\ job'.rels = Acc(job.text)[job'.batch - 1].rels
  <2>1. n - 1 \in 0..L /\ Extracted(Acc(job.text)[n - 1])
    BY <1>3, <1>4 DEF CompleteInv, JobExtract
  <2>2. n \in 1..L /\ job'.batch - 1 = n
    BY <1>1, <1>2, <1>3, <2>1
  <2>3. Acc(job.text)[n] = MergeReply(Acc(job.text)[n - 1], Reply[Batches[job.text][n]])
    BY <1>1, <2>2, AccGrows
  <2>4. got = MergeReply(Acc(job.text)[n - 1], Reply[Batches[job.text][n]])
    BY <2>1 DEF MergeReply, Extracted
  <2> QED BY <1>3, <2>1, <2>2, <2>3, <2>4
<1> QED BY <1>3, <1>4 DEF CompleteInv, JobExtract, Extracted

LEMMA JobExtractStep ==
    ASSUME IInv, CompleteInv, [Next]_vars PROVE JobExtract'
<1> USE DEF CompleteInv, JobExtract, Extracted
<1>1. job \in Job
  BY DEF IInv, TypeOK
<1>2. CASE NextFile
  BY <1>2 DEF NextFile, JobFor
<1>3. CASE HashFile
  <2>1. \/ pc' = "next"
        \/ pc = "hash" /\ pc' = "read" /\ job' = [job EXCEPT !.hash = disk[job.file]]
    BY <1>3 DEF HashFile, NextFileAfter
  <2> QED BY <1>1, <2>1 DEF Job
<1>4. CASE ReadFile
  <2>1. \/ pc' = "next"
        \/ /\ pc = "read" /\ pc' \in {"embed", "delVectors"}
           /\ job' = [job EXCEPT !.text = disk[job.file]]
    BY <1>4 DEF ReadFile, NextFileAfter
  <2> QED BY <1>1, <2>1 DEF Job
<1>5. CASE Embed \/ DeleteOldVectors
  BY <1>1, <1>5 DEF Embed, DeleteOldVectors, Job
<1>6. CASE DeleteOldRows
  <2>1. /\ pc = "delRows" /\ job' = job /\ job.text \in Content /\ job.file \in File
        /\ pc' = IF NumChunks[job.text] = 0 THEN "certify" ELSE "register"
    BY <1>6 DEF DeleteOldRows, IInv, JobOK
  <2>2. NumChunks[job.text] = 0 => Extraction(job.file, job.text) = NoReply
    BY <2>1, ExtractionOf
  <2>3. Extraction(job.file, job.text)' = Extraction(job.file, job.text)
    BY <2>1 DEF Extraction
  <2> QED BY <2>1, <2>2, <2>3
<1>7. CASE Register
  <2>1. pc = "register" /\ pc' = "upsert" /\ \E g : job' = [job EXCEPT !.gen = g]
    BY <1>7 DEF Register
  <2> QED BY <1>1, <2>1 DEF Job
<1>8. CASE UpsertPoints
  <2>1. /\ pc = "upsert" /\ job' = job /\ job.text \in Content /\ job.file \in File
        /\ pc' = IF job.file \in HistoryDoc THEN "entities" ELSE "extract"
    BY <1>8 DEF UpsertPoints, IInv, JobOK
  <2>2. job.file \in HistoryDoc => Extraction(job.file, job.text) = NoReply
    BY <2>1, ExtractionOf
  <2>3. Acc(job.text)[0] = NoReply /\ Len(Batches[job.text]) \in Nat
    BY <2>1, AccGrows, IngestionAssumption DEF IngestionAssumption
  <2>4. Extraction(job.file, job.text)' = Extraction(job.file, job.text)
    BY <2>1 DEF Extraction
  <2> QED BY <2>1, <2>2, <2>3, <2>4
<1>9. CASE ExtractBatch
  BY <1>9, BatchExtracts
<1>10. CASE ExtractBatchFails
  <2>1. pc = "extract" /\ pc' = pc /\ job' = [job EXCEPT !.batch = @ + 1, !.had_failure = TRUE]
    BY <1>10 DEF ExtractBatchFails
  <2> QED BY <1>1, <2>1 DEF Job
<1>11. CASE ExtractDone
  <2>1. /\ pc = "extract" /\ pc' = "entities" /\ job' = job /\ job.batch \in Nat
        /\ ~(job.batch <= Len(Batches[job.text])) /\ job.file \in File /\ job.text \in Content
    BY <1>1, <1>11 DEF ExtractDone, BatchesLeft, IInv, JobOK, Job
  <2>2. Len(Batches[job.text]) \in Nat
    BY <2>1, IngestionAssumption DEF IngestionAssumption
  <2>3. job.batch - 1 \in 0..Len(Batches[job.text]) => job.batch - 1 = Len(Batches[job.text])
    BY <2>1, <2>2
  <2>4. Extraction(job.file, job.text) = Acc(job.text)[Len(Batches[job.text])]
    BY <2>1, ExtractionIsAcc
  <2>5. Extraction(job.file, job.text)' = Extraction(job.file, job.text)
    BY <2>1 DEF Extraction
  <2> QED BY <2>1, <2>3, <2>4, <2>5
<1>12. CASE WriteEntities \/ WriteRelationships \/ WriteLinks
  <2>1. job' = job /\ pc \in {"entities", "rels", "link"} /\ pc' \in {"rels", "link", "certify"}
    BY <1>12 DEF WriteEntities, WriteRelationships, WriteLinks
  <2>2. Extraction(job.file, job.text)' = Extraction(job.file, job.text)
    BY <2>1 DEF Extraction
  <2> QED BY <2>1, <2>2
<1>13. CASE StartRun \/ EnsureCollection \/ Collect \/ PurgeVectors \/ PurgeRows \/ PurgeDone
           \/ Finish \/ Certify \/ Crash \/ StepFails \/ TimesOut
  BY <1>13 DEF StartRun, EnsureCollection, Collect, PurgeVectors, PurgeRows, PurgeDone, Finish,
     Certify, Crash, StepFails, TimesOut, Raise, NextFileAfter
<1>14. CASE ApplyLate \/ (\E g \in File, c \in Content \cup {None} : Edit(g, c)) \/ UNCHANGED vars
  <2>1. job' = job /\ pc' = pc
    BY <1>14 DEF ApplyLate, Edit, vars
  <2>2. /\ Extraction(job.file, job.text)' = Extraction(job.file, job.text)
        /\ Acc(job.text)' = Acc(job.text)
    BY <2>1 DEF Extraction, Acc
  <2> QED BY <2>1, <2>2
<1> QED BY <1>2, <1>3, <1>4, <1>5, <1>6, <1>7, <1>8, <1>9, <1>10, <1>11, <1>12, <1>13, <1>14
        DEF Next, IndexerStep, Failure

\* The rows of the file at hand.
SameGraph(f) ==
    /\ mentions'[f] = mentions[f] /\ relationships'[f] = relationships[f]
    /\ LinksOf(f)' = LinksOf(f) /\ ChunkIdsOf(f)' = ChunkIdsOf(f)

LEMMA SameStoreGraph ==
    ASSUME NEW f, UNCHANGED <<mentions, relationships, links, chunks>> PROVE SameGraph(f)
BY DEF SameGraph, LinksOf, ChunkIdsOf

LEMMA RowsDeleted ==
    ASSUME StoreInv, NEW f \in File, DeleteFileRows(f)
    PROVE  /\ mentions'[f] = NoReply.ents /\ relationships'[f] = NoReply.rels
           /\ LinksOf(f)' = {} /\ ChunkIdsOf(f)' = {}
<1>1. /\ chunks' = {c \in chunks : c.file # f}
      /\ relationships' = [relationships EXCEPT ![f] = [r \in Rel |-> 0]]
      /\ mentions' = [mentions EXCEPT ![f] = [e \in Entity |-> None]]
  BY DEF DeleteFileRows
<1>2. mentions'[f] = NoReply.ents /\ relationships'[f] = NoReply.rels
  BY <1>1 DEF StoreInv, StoreTypeOK, NoReply
<1>3. ChunkIdsOf(f)' = {}
  BY <1>1 DEF ChunkIdsOf
<1>4. LinksOf(f)' = {}
  BY <1>3 DEF LinksOf
<1> QED BY <1>2, <1>3, <1>4

LEMMA RowsFresh ==
    ASSUME IInv, Register, LinksOf(job.file) = {}
    PROVE  LinksOf(job.file)' = {}
<1> DEFINE g == CHOOSE h \in FreshGens : TRUE
<1>1. g \in FreshGens /\ job'.file = job.file
  BY DEF Register, IInv, TypeOK, Job
<1>2. /\ chunks' = {c \in chunks : c.id \notin Ids(g, job.text)}
                      \cup {[id |-> i, file |-> job.file] : i \in Ids(g, job.text)}
      /\ links' = links
  BY DEF Register, RegisterChunks
<1>3. \A l \in links : l[1] \notin Ids(g, job.text)
  <2>1. \A c \in chunks : c.id \notin Ids(g, job.text)
    BY <1>1 DEF FreshGens, Ids
  <2> QED BY <2>1 DEF IInv, StoreInv, LinksHaveChunks
<1>4. \A i \in ChunkIdsOf(job.file)' : i \in ChunkIdsOf(job.file) \/ i \in Ids(g, job.text)
  BY <1>1, <1>2 DEF ChunkIdsOf
<1> QED BY <1>1, <1>2, <1>3, <1>4 DEF LinksOf

LEMMA LinksWritten ==
    ASSUME IInv, WriteLinks, LinksOf(job.file) = {}
    PROVE  LinksOf(job.file)' = LinkPairs
<1>1. /\ links' = links \cup LinkPairs /\ UNCHANGED <<chunks, job>> /\ job.text \in Content
      /\ ChunkIdsOf(job.file) = Ids(job.gen, job.text)
  BY DEF WriteLinks, LinkChunks, IInv, JobOK
<1>2. \A l \in LinkPairs : l[1] \in ChunkIdsOf(job.file)
  <2>1. ASSUME NEW m \in Matches[job.text] PROVE m[1] \in 1..NumChunks[job.text]
    BY <1>1, <2>1, IngestionAssumption DEF IngestionAssumption
  <2> QED BY <1>1, <2>1 DEF LinkPairs, Ids
<1>3. ChunkIdsOf(job.file)' = ChunkIdsOf(job.file)
  BY <1>1 DEF ChunkIdsOf
<1> QED BY <1>1, <1>2, <1>3 DEF LinksOf

LEMMA JobRowsStep ==
    ASSUME IInv, CompleteInv, [Next]_vars PROVE JobRows'
<1> USE DEF CompleteInv, JobRows, Rows
<1>1. job \in Job /\ StoreInv
  BY DEF IInv, TypeOK
<1>2. CASE DeleteOldRows
  <2>1. /\ job.file \in File /\ job' = job /\ DeleteFileRows(job.file)
        /\ pc' = IF NumChunks[job.text] = 0 THEN "certify" ELSE "register"
    BY <1>2 DEF DeleteOldRows, DeleteFileData, IInv, JobOK
  <2>2. /\ mentions'[job.file] = NoReply.ents /\ relationships'[job.file] = NoReply.rels
        /\ LinksOf(job.file)' = {} /\ ChunkIdsOf(job.file)' = {}
    BY <1>1, <2>1, RowsDeleted
  <2> QED BY <2>1, <2>2
<1>3. CASE Register
  <2>1. /\ pc = "register" /\ pc' = "upsert" /\ job'.file = job.file
        /\ UNCHANGED <<mentions, relationships>>
    BY <1>1, <1>3 DEF Register, RegisterChunks, Job
  <2>2. LinksOf(job.file)' = {}
    BY <1>3, <2>1, RowsFresh
  <2> QED BY <2>1, <2>2
<1>4. CASE UpsertPoints \/ ExtractBatch \/ ExtractBatchFails \/ ExtractDone
  <2>1. /\ pc \in {"upsert", "extract"} /\ pc' \in {"extract", "entities"}
        /\ UNCHANGED <<mentions, relationships, links, chunks>> /\ job'.file = job.file
    BY <1>1, <1>4 DEF UpsertPoints, ExtractBatch, CacheExtraction, ExtractBatchFails, ExtractDone,
       storeVars, Job
  <2>2. LinksOf(job.file) = {}
    BY <2>1
  <2>3. LinksOf(job.file)' = {}
    BY <2>1, <2>2 DEF LinksOf, ChunkIdsOf
  <2> QED BY <2>1, <2>3
<1>5. CASE WriteEntities
  <2>1. /\ pc = "entities" /\ pc' = "rels" /\ job' = job /\ job.file \in File
        /\ UNCHANGED <<relationships, links, chunks>>
        /\ mentions' = [mentions EXCEPT ![job.file] =
               [e \in Entity |-> IF e \in {d \in Entity : job.ents[d] # None}
                                 THEN job.ents[e] ELSE mentions[job.file][e]]]
    BY <1>5 DEF WriteEntities, UpsertEntities, IInv, JobOK
  <2>2. mentions[job.file] = [e \in Entity |-> None]
    BY <2>1 DEF NoReply
  <2>3. mentions'[job.file] = [e \in Entity |-> job.ents[e]]
    BY <1>1, <2>1, <2>2 DEF StoreInv, StoreTypeOK
  <2>4. mentions'[job.file] = job.ents
    BY <1>1, <2>3 DEF Job
  <2>5. LinksOf(job.file)' = {}
    BY <2>1 DEF LinksOf, ChunkIdsOf
  <2> QED BY <2>1, <2>4, <2>5
<1>6. CASE WriteRelationships
  <2>1. /\ pc = "rels" /\ pc' = "link" /\ job' = job /\ job.file \in File
        /\ UNCHANGED <<mentions, links, chunks>>
        /\ relationships' = [relationships EXCEPT ![job.file] =
               [r \in Rel |-> relationships[job.file][r] + KeptRels[r]]]
    BY <1>6 DEF WriteRelationships, UpsertRelationships, IInv, JobOK
  <2>2. KeptRels = [r \in Rel |-> KeptRels[r]] /\ \A r \in Rel : KeptRels[r] \in Nat
    BY <1>1 DEF KeptRels, Job
  <2>3. relationships[job.file] = [r \in Rel |-> 0]
    BY <2>1 DEF NoReply
  <2>4. relationships'[job.file] = [r \in Rel |-> 0 + KeptRels[r]]
    BY <1>1, <2>1, <2>3 DEF StoreInv, StoreTypeOK
  <2>5. relationships'[job.file] = KeptRels
    BY <2>2, <2>4
  <2>6. LinksOf(job.file)' = {} /\ KeptRels' = KeptRels
    BY <2>1 DEF LinksOf, ChunkIdsOf, KeptRels
  <2> QED BY <2>1, <2>5, <2>6
<1>7. CASE WriteLinks
  <2>1. /\ pc = "link" /\ pc' = "certify" /\ job' = job /\ UNCHANGED <<mentions, relationships, chunks>>
        /\ NumChunks[job.text] > 0 /\ job.gen \in Gen
        /\ ChunkIdsOf(job.file) = Ids(job.gen, job.text)
    BY <1>7 DEF WriteLinks, LinkChunks, IInv, JobOK
  <2>2. LinksOf(job.file)' = LinkPairs
    BY <1>7, <2>1, LinksWritten
  <2>3. ChunkIdsOf(job.file)' = Ids(job.gen, job.text) /\ KeptRels' = KeptRels /\ LinkPairs' = LinkPairs
    BY <2>1 DEF ChunkIdsOf, KeptRels, LinkPairs
  <2>4. Ids(job.gen, job.text)' = Ids(job.gen, job.text)
    BY <2>1 DEF Ids
  <2> QED BY <2>1, <2>2, <2>3, <2>4
<1>8. CASE StartRun \/ EnsureCollection \/ Collect \/ PurgeVectors \/ PurgeRows \/ PurgeDone
           \/ NextFile \/ Finish \/ HashFile \/ ReadFile \/ Embed \/ DeleteOldVectors
           \/ Certify \/ Crash \/ StepFails \/ TimesOut
  <2>1. pc' \notin {"register", "upsert", "extract", "entities", "rels", "link", "certify"}
    BY <1>8 DEF StartRun, EnsureCollection, Collect, PurgeVectors, PurgeRows, PurgeDone, NextFile,
       Finish, HashFile, ReadFile, Embed, DeleteOldVectors, Certify, Crash, StepFails, TimesOut,
       Raise, NextFileAfter
  <2> QED BY <2>1
<1>9. CASE ApplyLate \/ (\E g \in File, c \in Content \cup {None} : Edit(g, c)) \/ UNCHANGED vars
  <2>1. job' = job /\ pc' = pc /\ UNCHANGED <<mentions, relationships, links, chunks>>
    BY <1>9 DEF ApplyLate, Edit, vars, storeVars
  <2>2. /\ LinksOf(job.file)' = LinksOf(job.file) /\ ChunkIdsOf(job.file)' = ChunkIdsOf(job.file)
        /\ KeptRels' = KeptRels /\ LinkPairs' = LinkPairs
        /\ Ids(job.gen, job.text)' = Ids(job.gen, job.text)
    BY <2>1 DEF LinksOf, ChunkIdsOf, KeptRels, LinkPairs, Ids
  <2> QED BY <2>1, <2>2
<1> QED BY <1>2, <1>3, <1>4, <1>5, <1>6, <1>7, <1>8, <1>9 DEF Next, IndexerStep, Failure

\* The graph of a file is written only while the file is at hand.
Writing == Indexed \cup {"purgeRows", "delRows", "register", "upsert"}

LEMMA IdsApart ==
    ASSUME StoreInv, NEW f, NEW g, f # g PROVE ChunkIdsOf(f) \cap ChunkIdsOf(g) = {}
BY DEF StoreInv, LinksHaveChunks, ChunkIdsOf

LEMMA GraphKept ==
    ASSUME IInv, [Next]_vars, NEW f \in File, f # job.file \/ pc \notin Writing
    PROVE  SameGraph(f)
<1>1. StoreInv
  BY DEF IInv
<1>2. CASE PurgeRows \/ DeleteOldRows
  <2>1. /\ job.file \in File /\ f # job.file
        /\ DeleteFileData(job.file) \/ PurgeFile(job.file)
        /\ links' = {l \in links : l[1] \notin ChunkIdsOf(job.file)}
    BY <1>2 DEF PurgeRows, DeleteOldRows, DeleteFileData, PurgeFile, DeleteFileRows, IInv, JobOK,
       Writing
  <2>2. RowsKept(f)
    BY <1>1, <2>1, DeleteKeepsOthers
  <2>3. LinksOf(f)' = LinksOf(f)
    BY <1>1, <2>1, <2>2, IdsApart DEF LinksOf, RowsKept
  <2> QED BY <2>2, <2>3 DEF RowsKept, SameGraph
<1>3. CASE Register
  <2>1. f \in File \ {job.file} /\ links' = links
    BY <1>3 DEF Register, RegisterChunks, Writing
  <2>2. RowsKept(f)
    BY <1>3, <2>1, RegisterKeepsOthers
  <2> QED BY <2>1, <2>2 DEF RowsKept, SameGraph, LinksOf
<1>4. CASE WriteEntities \/ WriteRelationships
  <2>1. f \in File \ {job.file} /\ links' = links
    BY <1>4 DEF WriteEntities, WriteRelationships, UpsertEntities, UpsertRelationships, Writing,
       Indexed
  <2>2. RowsKept(f)
    BY <1>4, <2>1, WritesKeepOthers
  <2> QED BY <2>1, <2>2 DEF RowsKept, SameGraph, LinksOf
<1>5. CASE WriteLinks
  <2>1. /\ f \in File \ {job.file} /\ links' = links \cup LinkPairs /\ job.text \in Content
        /\ ChunkIdsOf(job.file) = Ids(job.gen, job.text)
    BY <1>5 DEF WriteLinks, LinkChunks, Writing, Indexed, IInv, JobOK
  <2>2. RowsKept(f)
    BY <1>5, <2>1, WritesKeepOthers
  <2>3. \A l \in LinkPairs : l[1] \in ChunkIdsOf(job.file)
    <3>1. ASSUME NEW m \in Matches[job.text] PROVE m[1] \in 1..NumChunks[job.text]
      BY <2>1, <3>1, IngestionAssumption DEF IngestionAssumption
    <3> QED BY <2>1, <3>1 DEF LinkPairs, Ids
  <2>4. LinksOf(f)' = LinksOf(f)
    BY <1>1, <2>1, <2>2, <2>3, IdsApart DEF LinksOf, RowsKept
  <2> QED BY <2>2, <2>4 DEF RowsKept, SameGraph
<1>6. CASE StartRun \/ EnsureCollection \/ Collect \/ PurgeVectors \/ PurgeDone
           \/ NextFile \/ Finish \/ HashFile \/ ReadFile \/ Embed \/ DeleteOldVectors
  BY <1>6, SameStoreGraph DEF StartRun, EnsureCollection, Collect, PurgeVectors, PurgeDone,
     NextFile, Finish, HashFile, ReadFile, Embed, DeleteOldVectors, storeVars
<1>7. CASE UpsertPoints \/ ExtractBatch \/ ExtractDone \/ Certify \/ Failure
  BY <1>7, SameStoreGraph DEF UpsertPoints, ExtractBatch, CacheExtraction, ExtractDone, Certify,
     UpsertHash, Failure, Crash, StepFails, TimesOut, ExtractBatchFails, storeVars
<1>8. CASE ApplyLate \/ (\E g \in File, c \in Content \cup {None} : Edit(g, c)) \/ UNCHANGED vars
  BY <1>8, SameStoreGraph DEF ApplyLate, Edit, vars, storeVars
<1> QED BY <1>2, <1>3, <1>4, <1>5, <1>6, <1>7, <1>8 DEF Next, IndexerStep

\* A certified file gets no vectors.
LEMMA NoNewPoints ==
    ASSUME IInv, ServedInv, [Next]_vars, NEW f \in File, fingerprints[f] # None
    PROVE  PointsOf(f)' \subseteq PointsOf(f)
<1>1. CASE UpsertPoints
  <2>1. f # job.file
    BY <1>1 DEF UpsertPoints, ServedInv, JobUncertified
  <2> QED BY <1>1, <2>1, UpsertEffect
<1>2. CASE ApplyLate
  <2>1. /\ wal \in Seq(Op) /\ wal # <<>>
        /\ points' = {p \in points : p.id \notin Head(wal).drop} \cup Head(wal).add
    BY <1>2 DEF ApplyLate, Apply, IInv, TypeOK
  <2>2. 1 \in 1..Len(wal) /\ Head(wal) = wal[1]
    BY <2>1
  <2>3. \A p \in Head(wal).add : p.file # f
    BY <2>2 DEF ServedInv, LogUncertified
  <2> QED BY <2>1, <2>3 DEF PointsOf
<1>3. CASE PurgeVectors \/ DeleteOldVectors
  <2>1. points' \subseteq points
    BY <1>3 DEF PurgeVectors, DeleteOldVectors, DeleteVectors, Call, Apply, Delete, qdrantVars
  <2> QED BY <2>1 DEF PointsOf
<1>4. CASE TimesOut
  BY <1>4 DEF TimesOut, PointsOf
<1>5. CASE ~UpsertPoints /\ ~ApplyLate /\ ~PurgeVectors /\ ~DeleteOldVectors /\ ~TimesOut
  BY <1>5, PointsStay DEF PointsOf
<1> QED BY <1>1, <1>2, <1>3, <1>4, <1>5

\* A file that got through without a failed batch has the graph of its text.
LEMMA CertifiedGraph ==
    ASSUME IInv, CompleteInv, pc = "certify", ~job.had_failure
    PROVE  GraphComplete(job.file, job.text)
<1> DEFINE x == Extraction(job.file, job.text)
<1>1. job.file \in File /\ job.text \in Content /\ NumChunks[job.text] \in Nat /\ job \in Job
  BY IngestionAssumption DEF IInv, TypeOK, JobOK, IngestionAssumption
<1>2. job.ents = x.ents /\ job.rels = x.rels
  BY DEF CompleteInv, JobExtract, Extracted
<1>3. CASE NumChunks[job.text] # 0
  <2>1. /\ mentions[job.file] = job.ents /\ relationships[job.file] = KeptRels
        /\ LinksOf(job.file) = LinkPairs
        /\ job.gen \in Gen /\ ChunkIdsOf(job.file) = Ids(job.gen, job.text)
    BY <1>3 DEF CompleteInv, JobRows, Rows
  <2>2. KeptRels = [r \in Rel |-> IF x.ents[r[1]] # None /\ x.ents[r[2]] # None THEN x.rels[r] ELSE 0]
    BY <1>2 DEF KeptRels
  <2>3. LinkPairs = {<<<<job.gen, m[1]>>, m[2]>> :
                        m \in {n \in Matches[job.text] : x.ents[n[2]] # None}}
    BY <1>2 DEF LinkPairs
  <2> HIDE DEF x
  <2> QED BY <1>2, <2>1, <2>2, <2>3 DEF GraphComplete, x
<1>4. CASE NumChunks[job.text] = 0
  <2>1. /\ mentions[job.file] = NoReply.ents /\ relationships[job.file] = NoReply.rels
        /\ LinksOf(job.file) = {} /\ ChunkIdsOf(job.file) = {}
    BY <1>4 DEF CompleteInv, JobRows, Rows
  <2>2. x = NoReply
    BY <1>1, <1>4, ExtractionOf
  <2>3. NoReply.rels = [r \in Rel |-> IF NoReply.ents[r[1]] # None /\ NoReply.ents[r[2]] # None
                                      THEN NoReply.rels[r] ELSE 0]
    BY DEF NoReply
  <2>4. Matches[job.text] = {}
    BY <1>1, <1>4, IngestionAssumption DEF IngestionAssumption
  <2>5. PICK g \in Gen : TRUE
    BY IngestionAssumption DEF IngestionAssumption
  <2>6. Ids(g, job.text) = {}
    BY <1>4 DEF Ids
  <2>7. {} = {<<<<g, m[1]>>, m[2]>> : m \in {n \in Matches[job.text] : x.ents[n[2]] # None}}
    BY <2>4
  <2> HIDE DEF x
  <2> QED BY <2>1, <2>2, <2>3, <2>5, <2>6, <2>7 DEF GraphComplete, x
<1> QED BY <1>3, <1>4

\* Between the two deletes of a file nothing is written.
LEMMA DeletesPending ==
    ASSUME [Next]_vars, pc \in {"purgeRows", "delRows"}, ~PurgeRows, ~DeleteOldRows, NEW f
    PROVE  SameGraph(f)
<1>1. CASE Failure
  BY <1>1, SameStoreGraph DEF Failure, Crash, StepFails, TimesOut, ExtractBatchFails, storeVars
<1>2. CASE ApplyLate \/ (\E g \in File, c \in Content \cup {None} : Edit(g, c)) \/ UNCHANGED vars
  BY <1>2, SameStoreGraph DEF ApplyLate, Edit, vars, storeVars
<1>3. ~StartRun /\ ~IndexerStep
  BY DEF StartRun, IndexerStep, EnsureCollection, Collect, PurgeVectors, PurgeDone, NextFile, Finish,
     HashFile, ReadFile, Embed, DeleteOldVectors, Register, UpsertPoints, ExtractBatch, ExtractDone,
     WriteEntities, WriteRelationships, WriteLinks, Certify
<1> QED BY <1>1, <1>2, <1>3 DEF Next

LEMMA CompleteStep ==
    ASSUME IInv, ServedInv, CompleteInv, [Next]_vars PROVE CertifiedIsComplete'
<1>1. SUFFICES ASSUME NEW f \in File, fingerprints'[f] # None
               PROVE  \E c \in Content : /\ GraphComplete(f, c)'
                                         /\ \A p \in PointsOf(f)' : p.text = c
                                         /\ EditsWhileReading \/ c = fingerprints'[f]
  BY DEF CertifiedIsComplete
<1>2. ASSUME NEW c \in Content, SameGraph(f), GraphComplete(f, c) PROVE GraphComplete(f, c)'
  BY <1>2 DEF SameGraph, GraphComplete, Extraction, Ids
<1>3. CASE fingerprints'[f] = fingerprints[f]
  <2>1. PICK c \in Content : /\ GraphComplete(f, c)
                             /\ \A p \in PointsOf(f) : p.text = c
                             /\ EditsWhileReading \/ c = fingerprints[f]
    BY <1>1, <1>3 DEF CompleteInv, CertifiedIsComplete
  <2>2. PointsOf(f)' \subseteq PointsOf(f)
    BY <1>1, <1>3, NoNewPoints
  <2>3. SameGraph(f)
    <3>1. CASE PurgeRows \/ DeleteOldRows
      <4>1. job.file \in File /\ fingerprints'[job.file] = None
        BY <3>1 DEF PurgeRows, DeleteOldRows, PurgeFile, DeleteFileData, DeleteFileRows, IInv, JobOK,
           StoreInv, StoreTypeOK
      <4> QED BY <1>1, <4>1, GraphKept
    <3>2. CASE pc \in {"purgeRows", "delRows"} /\ ~PurgeRows /\ ~DeleteOldRows
      BY <3>2, DeletesPending
    <3>3. CASE pc \notin {"purgeRows", "delRows"}
      <4>1. f # job.file \/ pc \notin Writing
        BY <1>1, <1>3, <3>3 DEF Writing, ServedInv, JobUncertified
      <4> QED BY <4>1, GraphKept
    <3> QED BY <3>1, <3>2, <3>3
  <2> QED BY <1>2, <1>3, <2>1, <2>2, <2>3
<1>4. CASE Certify /\ f = job.file /\ fingerprints'[f] = job.hash
  <2>1. /\ pc = "certify" /\ job.text \in Content /\ UNCHANGED points
        /\ UNCHANGED <<mentions, relationships, links, chunks>>
    BY <1>4 DEF Certify, UpsertHash, qdrantVars, storeVars, IInv, JobOK
  <2>2. CASE job.had_failure
    <3>1. fingerprints'[f] = fingerprints[f]
      BY <1>4, <2>2 DEF Certify, storeVars
    <3> QED BY <1>3, <3>1
  <2>3. CASE ~job.had_failure
    <3>1. GraphComplete(f, job.text)
      BY <1>4, <2>1, <2>3, CertifiedGraph
    <3>2. PICK c \in Content : c = job.text
      BY <2>1
    <3>3. GraphComplete(f, c)'
      BY <1>2, <2>1, <3>1, <3>2, SameStoreGraph
    <3>4. \A p \in PointsOf(f) : p.text = c
      BY <1>4, <2>1, <3>2 DEF ServedInv, JobServed, Indexed, InVersion, Version, NoVectors
    <3>5. \A p \in PointsOf(f)' : p.text = c
      BY <2>1, <3>4 DEF PointsOf
    <3>6. EditsWhileReading \/ c = fingerprints'[f]
      BY <1>4, <2>1, <3>2 DEF ServedInv, HashOfText, Indexed
    <3> QED BY <3>3, <3>5, <3>6
  <2> QED BY <2>2, <2>3
<1> QED BY <1>1, <1>3, <1>4, FingerprintStep

LEMMA CompleteInit == ASSUME Init PROVE CompleteInv
BY DEF Init, StoreInit, CompleteInv, JobExtract, JobRows, CertifiedIsComplete

\* A fingerprint vouches for the graph: whatever failed, was cached or was indexed before, the
\* rows of a certified file are those of one content indexed once from nothing
\* (index_documents.py:339-343, extractor.py:175-185).
THEOREM CertificatesComplete == Spec => []CertifiedIsComplete
<1>1. Init => ServedInv /\ CompleteInv
  BY InitServed, CompleteInit
<1>2. IInv /\ ServedInv /\ CompleteInv /\ [Next]_vars => ServedInv' /\ CompleteInv'
  BY ServedStep, JobExtractStep, JobRowsStep, CompleteStep DEF CompleteInv
<1>3. CompleteInv => CertifiedIsComplete
  BY DEF CompleteInv
<1> QED BY <1>1, <1>2, <1>3, IngestionInvariant, PTL DEF Spec
=============================================================================
