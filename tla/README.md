# local-graph-rag: verification project

TLA+ models of `src/src/local_graph_rag`, a local GraphRAG server: TLC checks
them on small instances, TLAPS proves the most important properties for every
value of the constants. Paths below are relative to `src/src/local_graph_rag/`.

## 1. The system

Four kinds of process share two stores. **Qdrant** holds one vector per chunk
with the chunk's text as payload; **SQLite** (`graph.db`) holds the knowledge
graph, the chunk ids, the fingerprints and the community summaries. The
*indexer* writes both, the *summarizer* reads the graph and writes communities,
the *API server* reads both to answer questions, and a second SQLite file keeps
users and sessions. Embeddings and generations come from **Ollama**.

| Component | State it keeps | Operations | Hard about it | What makes it correct |
|---|---|---|---|---|
| Indexer, `ingest/index_documents.py` | none of its own; local variables of a run | `main`: ensure schema, walk, purge stale, index each changed file; exit code | two stores without a common transaction; any call may fail, time out or be the last before a kill; files change meanwhile | no vector without a record of it; a file is served whole, in one version; a fingerprint vouches for a complete graph; repeated runs repair everything |
| Record store, `graph/record_store.py` | chunks, chunk_entities, relationships, entity_mentions, entities, fingerprints, extraction_cache | upserts and linking, `delete_file_data`, `purge_file`, `list_all_paths` | derived entity rows are maintained incrementally; garbage collection looks only at touched rows | rows live exactly as long as they are referenced and always show what the mentions say |
| Extractor, `graph/extractor.py` | through the record store: extraction_cache | batches, cache lookup, Ollama request, merging of replies | a batch fails and the others succeed; replies cached by earlier runs | stored graph = one clean extraction of the text |
| Store schema and migrations, `graph/store.py` | tables, `user_version` | migrations 1 to 3, one transaction each | several processes open an old database at once | each migration is applied once |
| Community store, `graph/community_store.py` | communities, members | detect, neighbourhood, upsert, delete stale | reads and writes in separate transactions | the stored communities are those of some graph; nobody who can be placed is left out; a neighbourhood is nearest first |
| Summarizer, `graph/summarizer.py` | none | detect, summarize what changed, delete stale | runs beside the indexer; a summary fails; ids are positions | a summary belongs to the data it is stored with; nothing unchanged is generated again |
| SQLite connections, `common/sqlite_store.py` | one connection per thread | open, `close` | close races connecting | none leaks; one that a thread has cached is open and its own |
| Ollama client, `rag/ollama_client.py` | generation slots | retrying POST, generate, stream | slots, cancellation and deadline race | slots are returned exactly once |
| RAG executor, `web/rag_executor.py` | worker pool, capacity semaphore, queue per stream | submit, time out, stream, disconnect, shutdown | a thread feeds an event loop through a bounded queue | no answer is silently truncated; capacity is conserved |
| Query pipeline, `rag/*.py` | none | embed, search, local and global retrieval, prompt | reads two stores that change meanwhile | an answer's sources exist |
| Users and sessions, `web/user_store.py` | users, sessions | login, logout, upsert, delete, purge | a login races the change or removal of its user, in another process | a token is accepted from login to expiry, logout or change, and never again |
| Rate limiter, `web/rate_limit.py` | time stamps per key | check, sweep | window edges | at most N in any window |
| Git history, `ingest/git_history.py` | files under a directory | write changed histories, remove those of vanished repositories | roots that cannot be listed | nothing is removed on an outage |
| Chunkers, `ingest/chunkers.py` | none | split by headings, separators, overlap | sizes at the boundary | nothing lost, overlaps bounded |
| API, configuration, web page | start-up and request handling | routing, validation, formatting | order of shutdown | (mostly I/O and wording) |

Interactions: the indexer calls the record store and Qdrant file by file; the
extractor runs inside it and uses Ollama and the extraction cache; retrieval
finds chunk ids in Qdrant and looks them up in SQLite; the executor runs the
pipeline in worker threads and streams to the event loop; the summarizer shares
only SQLite with the others.

`PROJECT.json` lists under "hazards" what in this code a test hardly reaches,
each at its line, with the property that covers it or the plan for it.

## 2. Modules

| Module | What it is |
|---|---|
| `GraphStore` | the tables and every write transaction of the record store, and its invariants |
| `GraphStoreApi` | the store alone: any caller, any transaction, any order |
| `Ingestion` | the indexer over `GraphStore`, Qdrant with its log, the disk, Ollama's outcomes, failures and kills |
| `Migrations` | processes that open a database of any version and then use it: `GraphStoreApi` with a version, migrations and kills |
| `DocumentIndex` | abstract: what indexing promises whoever searches |
| `IngestionProps` | the properties of `Ingestion`, and the refinement mapping to `DocumentIndex` |
| `IngestionInv` | the inductive invariants of `Ingestion` |
| `RagStream` | one streamed answer: worker thread, bounded queue, response, client |
| `RagExecutor` | permits, requests, jobs, generation slots, shutdown |
| `Clustering` | placing entities in communities: an algorithm on graphs |
| `Communities` | the summarizer over `Clustering`, with the indexer at work between its steps |
| `Neighborhood` | the entities and relationships around those a search has found |
| `Windows` | merging the parts of a text into chunks that overlap, on lengths |
| `Chunkers` | cutting texts, Markdown and Python with it, on lengths and lines |
| `GitHistory` | the history documents, reconciled with what the roots list |
| `Parts` | the algorithms above given one problem each: what they rely on, as an assumption, and what they promise |
| `SqliteConnections` | the connections of a store, one per thread, and `close` |
| `RateLimiter`, `Sessions` | the sliding window; logins, sessions and users |
| `WebServer` | the two composed over `WebClock`: logins pass the limiter |
| `*_proofs` | lemmas and theorems about the module they are named after, checked by TLAPS; `Stores_proofs` is about `GraphStoreApi`, `Migrations` and `SqliteConnections`; `Ingestion_proofs` about `IngestionInv`, `IngestionProps` and the refinement of `DocumentIndex` too; `Parts_proofs` about `GitHistory`, `Windows`, `Chunkers` and what all parts share; `Communities_proofs` about `Clustering` and `Neighborhood` as well |
| `MC_*` | values of the constants for TLC; one `.cfg` per run. `MC_Parts` gives `Parts` all small problems and runs `SqliteConnections` beside them. `RagStream` and `RagExecutor` need numbers and sets only, which their `.cfg` files give |

`Ingestion` EXTENDS `GraphStore`, so the transactions that TLC explores and
TLAPS reasons about alone are the very ones the indexer performs. `Migrations`
EXTENDS `GraphStoreApi`, whose `StoreNext` is any transaction by any caller.

### The record store

One variable per table. `relationships[f][r]` is the weight of the row with that
key, 0 for no row; `mentions[f][e]` and `entities[e]` hold a type and a
description, or `None`. A transaction is one action: `GraphStore._write` wraps
it in BEGIN IMMEDIATE ... COMMIT. Foreign keys are enforced, hence an insert
that would break one is not enabled; `ForeignKeysHold` says the indexer never
attempts one. Files, types and descriptions are naturals since SQL breaks ties
by comparing them. `Refresh` is `_REFRESH_ENTITIES_SQL` (majority type, longest
description, ties by text and by document), `Referenced` is
`UNREFERENCED_ENTITY_SQL`, negated. The `name` column of `entities` is left out:
it is written once, by INSERT OR IGNORE, and nothing here depends on it.

### The indexer

`pc` is the place in `main()` and `_index_file`; every remote call, transaction
and file access is a step of its own.

| pc | Code | Actions |
|---|---|---|
| idle | between runs | `StartRun` |
| ensure | `ensure_collection`, `_collect_files`, stale paths | `EnsureCollection`, `Collect` |
| purge, purgeRows | the stale loop | `PurgeVectors`, `PurgeRows`, `PurgeDone` |
| next | the file loop, exit code | `NextFile`, `Finish` |
| hash, read, embed | hashing, reading and chunking, embedding | `HashFile`, `ReadFile`, `Embed` |
| delVectors, delRows | `_cleanup_changed_file` | `DeleteOldVectors`, `DeleteOldRows` |
| register, upsert | `register_chunks`, Qdrant upsert | `Register`, `UpsertPoints` |
| extract | one step per batch, from cache or Ollama | `ExtractBatch`, `ExtractDone` |
| entities, rels, link | the three graph transactions | `WriteEntities`, `WriteRelationships`, `WriteLinks` |
| certify | `upsert_hash` unless a batch failed | `Certify` |

`job` holds the local variables. The environment: `Edit` changes the disk at any
moment; `StepFails` makes the current step fail without effect (what
`FaultsAt` says it can run into); `TimesOut` leaves an accepted Qdrant operation
in its write-ahead log `wal`, which `ApplyLate` applies at any later time;
`ExtractBatchFails` is a generation or a cache write that fails, which the
extractor turns into `had_failure`; `Crash` is a kill.

`Collect` is the walk and what it makes of it. The files below a directory that
cannot be listed are not found, and it counts as unscanned. A single file
whose `resolve` or `stat` fails is passed over (`index_documents.py:77-80,91-95`), and
a subdirectory that looks empty has no files; nothing counts as unscanned for
these, only an index path under which nothing was found does (391-400). So a
file that is there may be purged as missing, in a run that exits 0; the next
run that finds it indexes it again. The properties of clean runs therefore speak of
`files`, those the walk found. Also, with index paths inside one another, a file under an
unscanned directory may still be found.

`torn` is history: the files whose deletion in Qdrant was begun and whose rows
in SQLite are still there. `job.vectors` is the content that the vectors in hand
were embedded from.

Qdrant applies the operations of its log in order and a call that waits answers
when its own is applied (`Call` therefore needs an empty log). A chunk id is
`<<gen, position>>`; `Register` takes a generation that is in use nowhere, as
uuid4 does.

What is abstracted: the content of a file *is* its digest; a content has a number
of chunks, a sequence of extraction requests and the pairs of chunk and entity
whose name occurs in it; a reply is a function of its request (temperature 0).
Parsing, prompts, token counts and log lines go into those constants. Git
histories are files in `HistoryDoc`: rewritten by `Edit`, embedded, never
extracted. One indexer runs at a time. A kill keeps what SQLite committed: the
process dies, not the machine, so `synchronous=NORMAL` loses nothing.

### Streaming an answer

`RagStream` follows `web/rag_executor.py` from `_start_stream_worker` to the last
line of `rag_stream_response`. The thread (`_run`, `_put`) is in the generator, in
a put, or done; the coroutine `queue.put(item)` that it leaves with the event
loop is `put`: pending until the queue has room, then delivered. Because thread
and loop interleave, `cancel_event` may be set between the look at it and the
scheduling of the put, an item may get into the queue just before its put is given
up (`PutTimesOut` on a delivered item), and the final `None` may be refused. The
response takes one item at a time and is blocked while the client does not read.
`ask_stream_sync` is reduced to what `_run` sees: a number of chunks, then a
complete, a cancelled or a failed end, at any point.

Both sides use the same time-out. `queue.get()` can time out only while the queue
is empty. A put can time out only if the queue stays full that long, which takes
a client that has stopped reading or left; that the loop itself stands still for
so long is the subject of the shutdown in `RagExecutor`. An observation, which no
document contradicts: a client that stalls past the time-out and *then* reads on
is sent what is queued and the usual "stop", without a notice, although the chunk
whose put was given up is missing. `NotCutSilently` speaks of the step that closes
the answer of a client that never stalled.

### Admission, slots and shutdown

`RagExecutor` has a request (new, waiting, granted, working, then one of three
ends) and a job (queued, retrieving, wants a slot, generating, handing a chunk over,
closing, ended, released) for each member of `Request`. A request and its job
part ways when the request gives up: the job runs on, and its permit comes back
through the callback that the event loop runs after it ended (`JobDone`).
`asyncio.Semaphore` wakes waiting requests in the order they came; the model lets
any of them have the permit, which covers that order. The pool starts any queued
job. One job may generate twice, as when the router asks the model first.
At shutdown the server has let its requests finish; `shutdown_rag_executor`
blocks the loop, hence no `LoopStep` is taken and threads get on by their own
time-outs only. A plain answer and a stream differ in what ends them, see
`Answer` and `LastPhase`.

### Opening and migrating

A process looks at `user_version` (`Open`) and, if it is old, migrates in one
transaction that looks again (`Migrate`): the two looks are two steps, anything may
happen in between, a migration by another process and its first transactions
included. `Init` is any database of version 0, 1 or 2 whose rows satisfy the foreign
keys, with entities that nothing references, and for version 2 what that version
left. Creating indexes and missing tables changes no row and is part of the
steps around it. `Stop` kills a process before it has committed.

### Communities and summaries

`Communities` has one step for each read, each write transaction and each round
of `_cluster`; `Index` is a transaction of the indexer between any two. `World`
holds the tables that the indexer can leave: rows of entities, relationships, and
co-occurrence weights (in parts of half a unit so small that shares of a chunk are whole numbers; the
code adds floats). A hash *is* the data hashed and a summary *is* the data it
was written from, so `RowsHonest` compares what a row says with what it was made of.
`Reuse` copies from `previous`, the rows read at the start, since the
table may already hold another text under that id. `Louvain` is a parameter, for
TLC the connected components; used of it is that it is a function of the graph
(the code fixes its seed and the order of edges) and, by `CommunitiesAssumption`, that it puts
every node in one community and numbers those without a gap, as networkx does. `Clustering` is `_cluster` as
operators, which `Communities` runs round by round and `MC_Parts` checks whole.

An observation without a finding: `summarizer.py:148-150` says that current
summaries keep serving during a long run. The row of a renumbered
community may be overwritten by another's summary before its own copy is made, so
for that time, and after a kill in it, its summary is served under no id; the
next run generates it again (`SummariesConverge`).

### Neighbourhoods, chunks, histories

These are algorithms on the data they are handed and are written as operators.
`Neighborhood`: a table of relationships is a function to weights; `Selected` is the
loop over hops, `NextHop` the round-robin over the parents. `Chunkers`: a text is the
tree of its parts at each separator, with lengths; a chunk is the range of characters it
holds and its length. In `Windows`, `_merge_splits` is `Adds`, which takes the parts one by one, and its
inner loop is `Overlap`, both functions on numbers. The recursion over separators, `RecursiveSplit`, is a
function on levels whose values are functions on the texts of that level (`Cuts`); the loops over
lines, paragraphs and statements are functions on numbers (`Scans`, `Paragraphs`, `Bodies`). `GitHistory`: a root is the list of its children, empty if it cannot
be listed; `Sync` is `_sync` with everything git and the file system may answer, `Visits` its loop.

`Parts` hands one of them one problem, which no step changes. `PartsAssumption` says what the callers see to:
a table of relationships has no holes; the parts of a text follow one another and hold all of it, at
every separator; lines, statements and history documents are what their parsers give. A text made
of separators only is left out (`chunk_text` returns nothing for blank text).

Observations: a section beginning with empty paragraphs may exceed
`MAX_MD_CHUNK` by their separators, because `buf_len` (`chunkers.py:208`) counts none while it is
0, so `SectionSound` excepts chunks that begin so; and a chunk may be wholly the
beginning of the next, when all of it is overlap, which `Covers` allows.

### Connections

`SqliteConnections` splits the property `conn` into reading the thread-local,
connecting, and what the lock covers; `close` may come between any two. Threads
exit for good. A thread that got its handle before `close` may use it afterwards, closed: callers
must see to that, and no property excludes it.

### The web server

`RateLimiter` keeps the time stamps of each address as the set of requests that left
them. `check_rate_limit` and a round of the sweeper hold the lock and never wait
inside, so each is one step; the sweeper may wake at any time. `accepted` and `rejected` are
history. `Sessions` has a login in three steps, since `checkpw` runs in a thread: reading
the hash, checking, and inserting the session. Every function of `user_store` is one
transaction. The command line changes users from another process. A login is its own
token; passwords are compared; `epoch` counts the writes of a user's row and `since` is its value when
a session was made. `WebServer` lets a login into `Sessions` only after the limiter
has accepted it. Its clock stands for both `time.monotonic` and `time.time`.

An observation without a finding: a login that has read the old hash when the
password is changed still creates its session afterwards. `src/README.md:191-192`
promises the revocation of sessions at the change, which holds; that session
is accepted like any newer one. If the user was *removed*, it never is, not even after the
user comes back (`NeverRevived`).

## 3. Runs

Bounds are constants: `MaxFaults`, `MaxEdits` (numbers of failures and edits in
a behaviour), `MaxBatches`, `MaxWeight`, `MaxEdges`, `MaxChunks`, and the sets.

| Run | Instance | Checks | Shows |
|---|---|---|---|
| upgrade | 2 processes, 2 documents, 2 entities, one edge, chunk and description; any old rows | `OpenedSound`, `MigratedOnce` | whoever has opened finds a sound store of the latest version, and goes on with transactions that keep it so. Two documents share what a backfill or a deletion must keep; two processes are enough for a migration between another's two looks |
| onefile | 1 file, 3 edits but none between its two readings, 3 failures of every kind | `CertifiedIsComplete`, `ImplementsDocumentIndex` | a fingerprint vouches for the complete graph of its content; searches see `DocumentIndex`, where what gets certified is the served version |
| faults | 2 files in nested directories, one a history, 3 contents, 1 edit at any moment, 2 failures of every kind, `FairSpec` | `TypeOK`, `NoOrphanVectors`, `AllOrNothing`, `LeftoversTracked`, `SchemaBeforePoints`, `ForeignKeysHold`, `OnlyStrandedMissing`, `CleanRunCurrent`, `KeepsUnscanned`, `Converges` | the safety of indexing under failures, and that undisturbed runs repair what they left. Two failures let the repair of one failure fail itself |
| outages | 2 files in nested directories, 2 edits that may restore a content, 1 failure of any kind | `VersionStays` | nothing of an indexed version goes before its file is known to be gone or the replacement is embedded, also when the old content comes back while a deletion of it is under way |
| executor | 2 streams and 2 plain requests, limit 2, 2 workers, `FairSpec` | `TypeOK`, `PermitsConserved`, `NoLostWakeup`, `AdmittedGetWorkers`, `SlotsSuffice`, `PermitsReturn`, `ShutdownEnds` | every permit and slot has one owner; admitted requests wait for nothing else; permits come back, shutdown ends |
| stream | 5 chunks, queue of 2, `FairSpec` | `TypeOK`, `NoGap`, `NotCutSilently`, `WorkerEnds`, `StreamEnds` | order without gaps; an answer that ends like a finished one is whole; thread and response end |
| web | 3 logins of one user, 2 passwords, one address, limit 2 in a window of 2, expiry after 2, 4 times, 2 changes | `TypeOK`, `LimitExact`, `AcceptedExactlyWhile`, `NeverRevived` | the window is exact whatever is swept; tokens live exactly as long as they should. Three logins are one more than the limit; two changes let a user go and come back |
| communities | 4 entities, 5 worlds, 2 changes, 2 failures, `FairSpec` | `RowsHonest`, `OnlyFailedStale`, `UnchangedIsFree`, `SummariesConverge` | no row lies about its data; a run that missed nothing leaves exactly the current summaries; the next one is free. The worlds renumber, merge, split, change and place communities |
| parts | all small inputs, see below; 2 threads, 4 connections | `CommunitiesPlaced`, `NeighborhoodsFair`, `ChunksCover`, `HistoriesSurvive`, `ConnectionsSound` | the algorithms do what they promise, and the problems are such as `PartsAssumption` has them; no connection leaks, what a thread has cached is open and its own |
| killed | 1 file, reverts, 1 kill | `CleanRunSearchable` | **violated**, see findings |
| readrace | 1 file, reverts, edits between hash and read | `CleanRunCurrent` | **violated**, see findings |
| window | the texts of parts | `WindowHolds` | **violated**, see findings |

Contents: *a* has two chunks in two batches, *b* shares the second batch with
it, *void* has no text. So a re-indexing changes the number of chunks, cached
replies are reused at another batch index, and both batches name entity *p* with
types and descriptions that must be merged. `MCGen` has four generations: two
files need one each, and one more each for a version being replaced.

A file is *stranded* (`Stranded`) when its deletion ended between the two stores and
its content is the one of the fingerprint left behind: the first finding. No
run repairs it, so `OnlyStrandedMissing` and `Converges` except it, and nothing
else; `CleanRunSearchable`, without the exception, is what run killed refutes. In
faults, contents never return (`Reverts = FALSE`), or the second finding would refute
`CleanRunCurrent`; there a file is stranded without any edit, when a failed `stat`
makes it look deleted and its purge is cut short. In onefile files do not change between their two readings
(`EditsWhileReading = FALSE`), so the certificate must be of the fingerprinted content
(`CertifiedIsComplete`) and of the served version (`ImplementsDocumentIndex`, `Racy` of
`DocumentIndex`); with that race neither could be said. That a version is withdrawn under a certificate, as in the
first finding, is allowed by `DocumentIndex`, and is what `OnlyStrandedMissing` is about.

`VersionStays` needs no condition on failures, contents or readings. It does not say that a version is
there at all times: an upsert that Qdrant refuses after the deletion leaves nothing of the
file until a later run (`Converges`). The claim of `index_documents.py:304-306` is about failures before the
deletion, and so is the property.

The queue of two in front of five chunks is full and empty again with chunks left
over, and lets an item be queued beside one in a put. Four requests for two
permits leave two waiting, so a wake-up can go to either; more workers than
permits change nothing that these properties see.

The inputs of parts: every co-occurrence graph of four entities with weights 0 to 2, with up
to three of them placed in two communities (a chain of two is the shortest on which one
round is not enough); two hubs with three entities around them, with weights 0, 1 and 3, with one
or two hops and budgets below what is there; texts of up to three paragraphs or two lines, all sequences of
five parts of each length up to a chunk of 6 with an overlap of 2, Markdown of four lines
of every kind of fence and header, sections of four paragraphs, Python of two nodes on five lines;
two roots with two repositories each in every state. The boundaries in this code are
between a length and a limit, so small limits meet all of them.

Deadlock is checked except in executor, stream, parts and window: a
server that stopped is stopped, an answer ends, an algorithm is done, threads exit.

**Fairness of indexing** (`Ingestion!FairSpec`, for `Converges` only): `WF(StartRun)`, the indexer is
run again and again (README: by hand or by a timer); `WF(IndexerStep)`, a
run that has a next step takes it or an exception ends it, since every call has
a time-out; `WF(ApplyLate)`, Qdrant works off its log. Nothing is assumed of
edits and failures: they are bounded, so they stop.
A file removed together with everything else in its index path stays indexed,
because an empty index path counts as offline (`index_documents.py:387-395`);
`Mirrored` excepts exactly this.

**Fairness of answers.** `RagStream`: the thread runs and the loop runs
(`WF` of each); nothing is assumed of the client. `RagExecutor`: each worker thread
runs, the loop runs the callbacks of ended jobs while it is not blocked, and
`SF(FinishGeneration)`: a reply is finite (`num_predict`) and a job asks for two
at most, so it does not go back and forth between retrieval, generating and
handing over for ever. Nothing is assumed of requests, nor of the delivery of a put:
the time-out of the put is what `WF(WorkerStep)` can count on.

**Fairness of summaries.** `WF(SummarizerStep)`: the summarizer is run again and again, and a
run takes its next step, since every call has a time-out. Changes, failures and kills are
bounded and assumed nothing of.

## 4. Proofs

Assumptions: `GraphStoreAssumption`, `IngestionAssumption` (types of the
constants; `File` finite; `None` not a value; a text of no chunks has no batches, mentions
are in its chunks; there is a generation). No bound on the number of files,
entities, contents, generations, failures or edits.

*Store.* `StoreInv` is inductive. Its conjuncts need each other: a row that a
deletion leaves alone is still derived because none of its mentions changed, and
it is deleted exactly with its last reference because before it lived exactly
with one. No run checks `GraphStoreApi` by itself: upgrade explores the same
transactions and checks the four invariants in `OpenedSound`. Proved in `GraphStore_proofs` per transaction, and in
`Stores_proofs` for every behaviour: `StoreInvariant`,
`StoreTypeCorrect`, `EntitiesExact`, `LinksSound`, `EntitiesDerived`.

*Indexer.* `IInv` is inductive. `NoOrphanVectors` and `AllOrNothing` are not on
their own. A late operation must not tear a file, so `LogOK` says that every
logged operation adds one whole version of a file that has no vectors and no
other addition pending, or drops all ids of a file. That this is kept when rows
are deleted needs `JobOK`: at that point no vector of the file exists or is on
its way. `GraphHasChunks` gives `LeftoversTracked`: graph rows come with chunk
rows, which `list_all_paths` sees. `SchemaOK`, inductive beside `IInv`, gives
`SchemaBeforePoints`. Theorems in `Ingestion_proofs`: `IngestionInvariant`,
`IngestionTypeCorrect`, `NoOrphans`, `WholeVersionsOnly`,
`NothingEscapesPurge`, `NoForeignKeyError`, `SchemaFirst`, `UnscannedKept`. For the last,
`LeftAlone` says that what a run indexes it has found, and that what it purges is under scanned directories only.

*Index as searched.* That `Ingestion` implements `DocumentIndex` needs `ServedInv` beside
`IInv`: a file about to be certified has its version in Qdrant, with nothing in the
log that could take it away (`JobServed`); it has no certificate yet, neither has
a file whose vectors are in the log (`JobUncertified`, `LogUncertified`), so that
vectors never appear under a certificate; and text and hash agree unless the file
changed between its two readings (`HashOfText`). Each action then maps to one step
of `DocumentIndex` or to none: a late write is a `Publish` or a `Withdraw` like one
in time.

*Versions stay.* `VersionKept` needs two invariants of the job beside `IInv`: a run purges only files that have
vanished, and works only on those it found or purges (`LeftAlone`); from the clean-up on, the vectors
of the new text are in hand (`EmbeddedFirst`). So a step that deletes is one of a `Replaceable` file, and
touches no other (`OthersKept`). An operation that is applied late drops ids that were in
the log before, which `Lasting` does not count (`LateStep`).

*Certificates.* `CompleteInv` follows the file at hand: what was extracted is the
merge of the replies so far unless a batch failed (`JobExtract`), and the rows
in SQLite are what has been written of it over nothing (`JobRows`). What the merge
is, `Acc`, is a recursive function. That it exists is shown by induction over the batches as
the absence of a least number of batches without one (`AccExists`). Used of
the constants: a content without chunks has no batches, and there are ids.

*Clean runs.* `CleanInv`, for `~Reverts`: every hash in use was once seen, so an edit gives
a file none of them (`SeenOK`). A file whose fingerprint is that of its content has nothing in Qdrant that is of
another (`Current`), and unless it is stranded it has all its vectors and the log leaves them alone (`Intact`;
together `Reflects` and `CertifiedReflects`). A file being indexed does not have such a fingerprint
(`WorkIsDue`); one being purged may, if it was not found although it is there, and that is how it gets stranded. An
undisturbed run without a failed file leaves no file it has found outside its lists that is not indexed as it
is or stranded, and of a vanished one no vector (`RunCovers`). Theorems in
`Ingestion_proofs`: `IndexImplemented`, `VersionKept`,
`CertificatesComplete`, `CleanSearchable`, `CleanCurrent`.

*Answers.* For `NoGap`, `StreamInv` numbers everything on its way: as long as the
response passes on chunks, those sent, queued and in the put are consecutive; once a
chunk was dropped the worker puts nothing but `None`. For `NotCutSilently`, `WholeInv` adds
where a stop may be: while the client reads and no notice is on its way, nothing
was given up, so a stop in the queue or in the put comes after the whole answer or
after an exception, whose notice the client gets first. `StreamAssumption` asks
for a queue of at least one. Theorems in `RagStream_proofs`: `StreamInvariant`,
`StreamTypeCorrect`, `ChunksInOrder`, `NeverCutSilently`.

*Admission.* `ExecInv` counts: free permits plus owners make the limit, free
slots plus holders make the limit. That a permit changes hands without being lost
or counted twice needs `JobsSubmitted` (a job exists exactly after its request was
granted a permit). `SlotsSuffice` and `AdmittedGetWorkers` follow since jobs that
use or want a slot, and jobs in the pool, are among the admitted.
`ExecutorAssumption` has `Workers >= Limit`, which `settings.py:171-177` enforces.
Theorems in `RagExecutor_proofs`: `ExecutorInvariant`, `ExecutorTypeCorrect`,
`PermitsNeverLeak`, `WaitersAreWoken`, `NoQueueInExecutor`, `SlotAlwaysFree`.

*Opening.* `MigrationInv`: before the latest version rows satisfy the foreign keys
(`OldKeys`), and at it `StoreInv` holds. The step between is that the backfill gives each
entity equal mentions, one for each document that refers to it, from which any way of deriving gives
the same back, and that what remains is referenced. After it every transaction is a step of
the store, whose proof is used as it stands. Theorems in `Stores_proofs`:
`MigrationInvariant`, `OpenedIsSound`, `MigratesOnce`. `MigrationsAssumption` says that a response
without a key is not one with a key.

*Web server.* `LimiterInv` adds to `LimitExact` that whoever was let through in the last
window is still in the bucket (`BucketRemembers`): then the set that is counted when a request is accepted is all
that a window containing it can hold. `SessionsInv` adds that a row of `sessions` is as old as
the last change of its user. `PartsComposed` shows that each behavior of `WebServer` is one
of both parts, which carries the invariants over. Assumed are that the requests are
finitely many, `Max` a natural and `Window` a positive one, and `WebAssumption`, that the requests of this limiter are the logins.
Theorems in `WebServer_proofs`: `LimiterInvariant`, `SessionsInvariant`, `PartsComposed`, `WebTypeCorrect`,
`LimitIsExact`, `TokensExact`, `TokensStayDead`.

*Communities.* `CommunitiesInv` holds beside any indexer. `FoundOK` says what the run has in
hand between two reads: the rounds made so far, of a graph and of weights that each were
some state of the tables. `RowsOK`: every row, also those read at the start, is honest, and the rows
that the run has not come to (`Pending`) are still as they were read; without this a text copied from
`previous` could be older than its hash. While the indexer is idle all reads are of the
present tables, so what the run has passed is current (`QuietOK`); that `DeleteStale` then leaves no
other row gives `OnlyFailedStale`. `SettledOK` carries currentness through further runs: entities,
ids and hashes are functions of the tables, so every hash is found in `previous`.
`CommunitiesAssumption` asks that Louvain divides the graphs of `World`, with any entities placed before.
Theorems in `Communities_proofs`: `CommunitiesInvariant`, `CommunitiesTypeCorrect`,
`SummariesHonest`, `RunLeavesCurrent`, `SecondRunIsFree`.

*Clustering.* `ClusteringIsSound` proves `ClusteringSound`, which run parts checks as
`CommunitiesPlaced`, for every graph and every list of communities. `Rounds` is a recursive function on
numbers; that it exists, and that its n-th value places exactly who co-occurs within n steps
(`Reached`), is shown by induction as the absence of a least counterexample. As many rounds
as there are entities are enough since each that places anybody places one more at least (`RoundsGrow`).

*Connections.* `ConnInv` adds to `ConnectionsSound` that a connection between `connect` and its
registration is in one hand only, and in no row, and that a thread that opens one has none cached. Then closing those of
dead threads closes nobody's. `ConnAssumption`: no connection is `NoConn`. Theorem
`ConnectionsKept` in `Stores_proofs`.

*Histories.* `HistoriesAreKept` follows what the first n visits have done (`Done`): until an error every
repository among them counts as present, only a history that git has printed replaces a
document, and without an error every repository has one. `HistoriesSurviveErrors` is that for every
problem of `Parts`.

*Texts.* `MergeIsSound`: every state of the merging loop is that of some parts `a` to `b` being pending
(`At`), where the length kept is a difference of lengths of initial segments; the chunks done
are ranges of parts of which each is linked to the next by a maximal overlap (`Merging`).
`SplitIsSound`: chunks `Fits` from..to when they are in order without a gap and each is no wider
than a window, its overlap and a separator. What is flushed so far fits the parts that were
read (`Pended`); a level fits because the next does, an induction from the last level up, where
parts are single characters. `SectionIsSound`: the chunks done hold every character before the
buffer, and `buf_len` is the length of the buffer unless that begins with an empty paragraph (`Buffered`).

*Markdown and Python.* `SectionsAreSound` numbers the fenced blocks (`Blocks`): the loop over lines is in a fence
exactly in a block that is not over, has the mark of the line that opened it, and has cut at the headers
outside the blocks so far (`Scanned`). `PythonIsSound` sees a module as pieces, its statements and what is between them;
chunks belong to pieces one to one (`Owned`), and pieces share a line only if statements do. With the
theorems on texts this gives `ChunksCoverText`, all of `ChunksCover`.

*Neighborhoods.* A parent's list holds each of its neighbors once, in order, because the rank of each, a
cardinality, is its place. A place in the flattened tiers carries the rank in the list it came
from, and first occurrences keep the best one, so the first entities of a hop are those of best rank. The invariant
of the loop over hops (`Spread`): the selection has no repetition, begins with the seeds, lies within h hops,
nearer ones first, and is all of them, with the last hop leading to all that are one further, unless
the budget is spent. Theorem `NeighborhoodsAreFair` in `Communities_proofs`, and with `ClusteringIsSound`
`EntitiesPlaced`. The others of these three paragraphs are in `Parts_proofs`.

All of this assumes `WindowsAssumption` and `ChunkersAssumption` (an overlap is smaller than a window, a
Markdown chunk no smaller; `settings.py:104-157`) and `PartsAssumption`, see above; TLC evaluates
them for the problems of `MC_Parts`. Recursive functions on numbers are shown to exist, and to keep what
each step keeps, by induction over sets of numbers (`RecursionExists`, `AllUpTo`), which replaces
the library's induction theorems.

*Model-checked only.* `Converges`, `WorkerEnds`, `StreamEnds`, `PermitsReturn`,
`ShutdownEnds` and `SummariesConverge`: liveness and ENABLED are beyond the prover. Every other property of a
passing run is a theorem.

## 5. Findings

1. `index_documents.py:278`: vectors are deleted from Qdrant, then the
   fingerprint from SQLite. A kill in between, followed by a restore of the old
   content, makes every later run skip a file that is not searchable (run
   killed). The purge has the same window, and there it takes no edit: a `stat` that
   fails makes a file look deleted, its purge is cut short, the next run finds the
   file unchanged and skips it. Deleting the fingerprint first would close the window.
2. `index_documents.py:310,316`: the file is read twice, once for the hash and
   once for the text. An edit in between, later undone, leaves text indexed
   that is on no disk, and every later run skips the file (run readrace).
   Hashing the bytes that are parsed would close it.

3. `chunkers.py:44`: a chunk that begins with an overlap is not measured against
   `CHUNK_SIZE` again, so the "500-character window" of `chunkers.py:10-11` is up to
   `CHUNK_SIZE + CHUNK_OVERLAP` and a separator wide (run window). `MergeSound`
   shows that it never is wider.

## 6. Not modelled, and the plan

Out of scope: wording and parsing of prompts and replies, HTTP validation and
formatting, the browser code, vendored scripts, configuration reading; what
`settings.py` enforces is assumed by name. Loss of committed SQLite transactions on a power failure,
relationships without a document in old databases, two summarizers or two
indexers at once, and the retries of a refused call to Ollama are left out as well. The
query pipeline reads only and is not modelled; its neighbourhoods are.

What could be added:

1. The retries of the Ollama client, with cancellation, in `RagExecutor`.
2. Local retrieval as a reader of `Ingestion`: a search in Qdrant and a look-up in
   SQLite with the indexer in between.
3. Two indexers at once.
