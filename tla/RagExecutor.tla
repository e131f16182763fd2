----------------------------- MODULE RagExecutor -----------------------------
(***************************************************************************)
(* Admission of requests to the RAG pipeline: web/rag_executor.py with the *)
(* generation slots of rag/ollama_client.py.  A request waits for a permit *)
(* of an asyncio.Semaphore, its job runs in a thread pool and takes a      *)
(* generation slot for each generation.  A request may give up on its job; *)
(* the job keeps its permit until it has ended and the event loop runs the *)
(* callback.  At shutdown the loop is blocked while the pool drains.       *)
(*                                                                         *)
(* The loop and the worker threads interleave freely; time-outs may happen *)
(* whenever what they bound is still awaited.  The chunks of a stream are  *)
(* RagStream's subject: here a streaming job only depends on the loop now  *)
(* and then ("handing"), with its generation slot held, and once more when *)
(* it puts the final None ("closing").                                     *)
(***************************************************************************)
EXTENDS Integers, FiniteSets

CONSTANTS
    Request,
    Streaming,  \* the requests that stream
    Limit,      \* GENERATION_CONCURRENCY_LIMIT
    Workers     \* RAG_EXECUTOR_WORKERS

ASSUME ExecutorAssumption ==
    /\ IsFiniteSet(Request) /\ Streaming \subseteq Request
    /\ Limit \in Nat \ {0} /\ Workers \in Nat /\ Workers >= Limit

VARIABLES
    permits,    \* the value of _RAG_CONCURRENCY
    req,        \* where each request is
    job,        \* where its job is
    slots,      \* the value of _generation_slots
    cancelled,  \* requests whose cancel_event is set
    server

vars == <<permits, req, job, slots, cancelled, server>>

Running == {"retrieving", "wants", "generating", "handing", "closing"}
UsingSlot == {"generating", "handing"}
Jobs(phases) == {r \in Request : job[r] \in phases}
\* Requests that own a permit: submitted and not yet released, or about to submit.
Admitted == {r \in Request : req[r] = "granted"} \cup Jobs(Running \cup {"queued", "ended"})
Over == {"new", "rejected", "gaveup", "answered"}

Init ==
    /\ permits = Limit
    /\ req = [r \in Request |-> "new"]
    /\ job = [r \in Request |-> "none"]
    /\ slots = Limit /\ cancelled = {}
    /\ server = "serving"
-----------------------------------------------------------------------------
(* The event loop.                                                         *)

Becomes(r, x) == [req EXCEPT ![r] = x]
Waiting(rs) == {r \in Request : rs[r] = "waiting"}

Arrive(r) ==
    /\ req[r] = "new"
    /\ IF permits > 0 /\ Waiting(req) = {}
       THEN permits' = permits - 1 /\ req' = Becomes(r, "granted")
       ELSE req' = Becomes(r, "waiting") /\ UNCHANGED permits
    /\ UNCHANGED <<job, slots, cancelled, server>>

\* Semaphore.release() while the requests are at rs: a waiting one gets the permit.
Release(rs) ==
    IF Waiting(rs) = {}
    THEN permits' = permits + 1 /\ req' = rs
    ELSE /\ \E w \in Waiting(rs) : req' = [rs EXCEPT ![w] = "granted"]
         /\ UNCHANGED permits

CapacityTimeout(r) ==
    /\ req[r] = "waiting" /\ req' = Becomes(r, "rejected")
    /\ UNCHANGED <<permits, job, slots, cancelled, server>>

\* Mutant: a permit that comes too late is kept.
KeepLatePermit(r) ==
    /\ req[r] = "granted" /\ req' = Becomes(r, "rejected")
    /\ UNCHANGED <<permits, job, slots, cancelled, server>>

\* The permit came when the time was up, or the pool could not take the job.
TooLate(r) ==
    /\ req[r] = "granted" /\ Release(Becomes(r, "rejected"))
    /\ UNCHANGED <<job, slots, cancelled, server>>

Submit(r) ==
    /\ req[r] = "granted" /\ req' = Becomes(r, "working")
    /\ job' = [job EXCEPT ![r] = "queued"]
    /\ UNCHANGED <<permits, slots, cancelled, server>>

\* Mutant: giving up on the job gives back its permit.
GiveUpAndRelease(r) ==
    /\ req[r] = "working" /\ Release(Becomes(r, "gaveup"))
    /\ cancelled' = cancelled \cup {r}
    /\ UNCHANGED <<job, slots, server>>

\* A time-out or a disconnect: the request ends, its job is told to.
GiveUp(r) ==
    /\ req[r] = "working" /\ req' = Becomes(r, "gaveup")
    /\ cancelled' = cancelled \cup {r}
    /\ UNCHANGED <<permits, job, slots, server>>

\* The result is there, or the None that ends the stream.
Answer(r) ==
    /\ req[r] = "working" /\ req' = Becomes(r, "answered")
    /\ job[r] \in {"ended", "released"} \/ (r \in Streaming /\ job[r] = "closing")
    /\ cancelled' = IF r \in Streaming THEN cancelled \cup {r} ELSE cancelled
    /\ UNCHANGED <<permits, job, slots, server>>

\* Mutant: the callback runs in the worker thread, where release() wakes nobody.
JobDoneInThread(r) ==
    /\ job[r] = "ended" /\ job' = [job EXCEPT ![r] = "released"]
    /\ permits' = permits + 1
    /\ UNCHANGED <<req, slots, cancelled, server>>

\* The callback of the job's future.
JobDone(r) ==
    /\ job[r] = "ended" /\ job' = [job EXCEPT ![r] = "released"]
    /\ Release(req)
    /\ UNCHANGED <<slots, cancelled, server>>

\* The loop runs a put.
Deliver(r) ==
    /\ \/ job[r] = "handing" /\ job' = [job EXCEPT ![r] = "generating"]
       \/ job[r] = "closing" /\ job' = [job EXCEPT ![r] = "ended"]
    /\ UNCHANGED <<permits, req, slots, cancelled, server>>

LoopStep(r) ==
    /\ server = "serving"
    /\ \/ Arrive(r) \/ CapacityTimeout(r) \/ TooLate(r) \/ Submit(r)
       \/ GiveUp(r) \/ Answer(r) \/ JobDone(r) \/ Deliver(r)
-----------------------------------------------------------------------------
(* The worker threads.                                                     *)

Goes(r, phase) ==
    /\ job' = [job EXCEPT ![r] = phase]
    /\ UNCHANGED <<permits, req, cancelled, server>>

\* Where a job ends up when its work is over: a stream still puts None.
LastPhase(r) == IF r \in Streaming /\ r \notin cancelled THEN "closing" ELSE "ended"

Start(r) ==
    /\ job[r] = "queued" /\ Cardinality(Jobs(Running)) < Workers
    /\ Goes(r, "retrieving") /\ UNCHANGED slots

\* To a generation: the router's, or the answer's.
WantSlot(r) ==
    /\ job[r] = "retrieving" /\ Goes(r, "wants") /\ UNCHANGED slots

\* Mutant: a generation takes its slot twice, without a look at the limit.
TakeSlotUnchecked(r) ==
    /\ job[r] = "wants"
    /\ slots' = slots - 2 /\ Goes(r, "generating")

\* The request may be cancelled between the look at cancel and the acquire.
TakeSlot(r) ==
    /\ job[r] = "wants" /\ slots > 0
    /\ slots' = slots - 1 /\ Goes(r, "generating")

\* A chunk of the answer.
HandChunk(r) ==
    /\ job[r] = "generating" /\ r \in Streaming
    /\ r \notin cancelled /\ Goes(r, "handing") /\ UNCHANGED slots

\* Mutant: an exception in a generation leaves its slot taken.
EndGenerationLeaking(r) ==
    /\ job[r] = "generating"
    /\ \/ Goes(r, "retrieving") /\ slots' = slots + 1
       \/ Goes(r, LastPhase(r)) /\ UNCHANGED slots

\* A generation ends or raises; the router's leads back to retrieval.
EndGeneration(r) ==
    /\ job[r] = "generating"
    /\ slots' = slots + 1
    /\ Goes(r, "retrieving") \/ Goes(r, LastPhase(r))

\* Anything else raises: retrieval, or the wait for a slot.
JobFails(r) ==
    /\ job[r] \in {"retrieving", "wants"} /\ Goes(r, LastPhase(r)) /\ UNCHANGED slots

\* Mutant: only the last put is bounded in time.
PutWaits(r) ==
    job[r] = "closing" /\ Goes(r, "ended") /\ UNCHANGED slots

\* The put is not done in time; the generator is closed.
PutTimesOut(r) ==
    \/ job[r] = "handing" /\ Goes(r, LastPhase(r)) /\ slots' = slots + 1
    \/ job[r] = "closing" /\ Goes(r, "ended") /\ UNCHANGED slots

WorkerStep(r) ==
    \/ Start(r) \/ WantSlot(r) \/ TakeSlot(r) \/ HandChunk(r)
    \/ EndGeneration(r) \/ JobFails(r) \/ PutTimesOut(r)
-----------------------------------------------------------------------------
(* Shutdown, once the server has let its requests finish: the loop waits   *)
(* for the pool, then the store is closed.                                 *)

Shutdown ==
    /\ server = "serving" /\ \A r \in Request : req[r] \in Over
    /\ server' = "stopping"
    /\ UNCHANGED <<permits, req, job, slots, cancelled>>

CloseStore ==
    /\ server = "stopping" /\ Jobs(Running \cup {"queued"}) = {}
    /\ server' = "stopped"
    /\ UNCHANGED <<permits, req, job, slots, cancelled>>

Next ==
    \/ \E r \in Request : LoopStep(r) \/ WorkerStep(r)
    \/ Shutdown \/ CloseStore

Spec == Init /\ [][Next]_vars

\* The loop runs the callbacks and every thread gets on.  A reply is finite (num_predict)
\* and a job asks for two at most, so the last of its generations ends.
FinishGeneration(r) ==
    job[r] = "generating" /\ slots' = slots + 1 /\ Goes(r, LastPhase(r))
FairSpec ==
    /\ Spec /\ WF_vars(CloseStore)
    /\ \A r \in Request :
          /\ WF_vars(WorkerStep(r)) /\ SF_vars(FinishGeneration(r))
          /\ WF_vars(server = "serving" /\ JobDone(r))
-----------------------------------------------------------------------------
(* Properties.                                                             *)

\* The variables hold values the program's own can (rag_executor.py:32-50).
TypeOK ==
    /\ permits \in 0..Limit /\ slots \in 0..Limit
    /\ req \in [Request -> Over \cup {"waiting", "granted", "working"}]
    /\ job \in [Request -> Running \cup {"none", "queued", "ended", "released"}]
    /\ cancelled \subseteq Request
    /\ server \in {"serving", "stopping", "stopped"}

\* However requests time out, fail to be submitted, or abandon their jobs, each
\* permit is either free or owned by exactly one request or job (rag_executor.py:95-124).
PermitsConserved == permits + Cardinality(Admitted) = Limit

\* No request waits beside a free permit.
NoLostWakeup == Waiting(req) # {} => permits = 0

\* "Every admitted request gets a worker instead of queueing inside the executor"
\* (settings.py:174-176), jobs whose requests are long gone included.
AdmittedGetWorkers == Cardinality(Jobs(Running \cup {"queued"})) <= Workers

\* Excess requests queue for a permit "instead of inside Ollama's generation slot"
\* (rag_executor.py:40-43): a job that wants a slot finds one free.
SlotsSuffice == \A r \in Request : job[r] = "wants" => slots > 0

\* A permit comes back whatever became of the request and its client.
PermitsReturn ==
    \A r \in Request : job[r] = "queued" ~> (job[r] = "released" \/ server # "serving")

\* Shutdown ends although the loop, which running streams hand their chunks to, is
\* blocked (rag_executor.py:53-61).
ShutdownEnds == server = "stopping" ~> server = "stopped"
-----------------------------------------------------------------------------
(***************************************************************************)
(* The inductive invariant.  SlotsSuffice and AdmittedGetWorkers follow by *)
(* counting: jobs that hold a slot, or want one, are among the Limit       *)
(* admitted.  Counting needs that a job is where its request says, so that *)
(* a permit that changes hands is neither lost nor counted twice.          *)
(***************************************************************************)
SlotsConserved == slots + Cardinality(Jobs(UsingSlot)) = Limit
JobsSubmitted == \A r \in Request :
    job[r] = "none" <=> req[r] \in {"new", "waiting", "granted", "rejected"}

ExecInv == TypeOK /\ PermitsConserved /\ SlotsConserved /\ NoLostWakeup /\ JobsSubmitted
=============================================================================
