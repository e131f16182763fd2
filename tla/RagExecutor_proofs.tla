-------------------------- MODULE RagExecutor_proofs --------------------------
(***************************************************************************)
(* Permits and generation slots are conserved and suffice, for any number  *)
(* of requests and any limits.                                             *)
(***************************************************************************)
EXTENDS RagExecutor, FiniteSetTheorems, TLAPS

ReqStates == Over \cup {"waiting", "granted", "working"}
JobStates == Running \cup {"none", "queued", "ended", "released"}
Holding == Running \cup {"queued", "ended"}
\* Admitted, of any requests and jobs.
AdmittedAt(rq, jb) == {r \in Request : rq[r] = "granted" \/ jb[r] \in Holding}

USE ExecutorAssumption

LEMMA AdmittedIs == Admitted = AdmittedAt(req, job) /\ Admitted' = AdmittedAt(req', job')
BY DEF Admitted, AdmittedAt, Jobs, Holding

LEMMA SetsFinite ==
    ASSUME NEW S \in SUBSET Request
    PROVE  IsFiniteSet(S) /\ Cardinality(S) \in Nat /\ (S # {} => Cardinality(S) > 0)
<1>1. IsFiniteSet(S)
  BY FS_Subset
<1> QED BY <1>1, FS_CardinalityType, FS_EmptySet

\* One element goes, another comes.
LEMMA Exchange ==
    ASSUME NEW S \in SUBSET Request, NEW r \in S, NEW w \in Request \ (S \ {r})
    PROVE  Cardinality((S \ {r}) \cup {w}) = Cardinality(S)
<1>1. IsFiniteSet(S) /\ Cardinality(S) \in Nat
  BY SetsFinite
<1>2. IsFiniteSet(S \ {r}) /\ Cardinality(S \ {r}) = Cardinality(S) - 1
  BY <1>1, FS_RemoveElement
<1>3. Cardinality((S \ {r}) \cup {w}) = Cardinality(S \ {r}) + 1
  BY <1>2, FS_AddElement
<1> QED BY <1>1, <1>2, <1>3

\* A release by r, whose permit is already gone from the requests rs and jobs jb.
LEMMA ReleaseInv ==
    ASSUME TypeOK, PermitsConserved, NoLostWakeup,
           NEW r \in Admitted, NEW rs \in [Request -> ReqStates], NEW jb,
           AdmittedAt(rs, jb) = Admitted \ {r},
           Waiting(rs) \subseteq Waiting(req), \A w \in Waiting(rs) : jb[w] = "none",
           job' = jb, Release(rs)
    PROVE  /\ PermitsConserved' /\ NoLostWakeup' /\ permits' \in 0..Limit
           /\ \/ req' = rs
              \/ \E w \in Waiting(rs) : req' = [rs EXCEPT ![w] = "granted"]
<1>1. Admitted \in SUBSET Request /\ Cardinality(Admitted) \in Nat /\ Cardinality(Admitted) > 0
      /\ IsFiniteSet(Admitted)
  BY SetsFinite DEF Admitted, Jobs
<1>2. CASE Waiting(rs) = {}
  <2>1. permits' = permits + 1 /\ req' = rs
    BY <1>2 DEF Release
  <2>2. Admitted' = Admitted \ {r}
    BY <2>1, AdmittedIs
  <2>3. Cardinality(Admitted') = Cardinality(Admitted) - 1
    BY <1>1, <2>2, FS_RemoveElement
  <2>4. PermitsConserved' /\ permits' \in 0..Limit
    BY <1>1, <2>1, <2>3 DEF PermitsConserved, TypeOK
  <2>5. NoLostWakeup'
    BY <1>2, <2>1 DEF NoLostWakeup, Waiting
  <2> QED BY <2>1, <2>4, <2>5
<1>3. CASE Waiting(rs) # {}
  <2>1. PICK w \in Waiting(rs) : req' = [rs EXCEPT ![w] = "granted"] /\ permits' = permits
    BY <1>3 DEF Release
  <2>2. w \in Request /\ rs[w] = "waiting"
    BY DEF Waiting
  <2>3. Admitted' = (Admitted \ {r}) \cup {w}
    <3>1. Admitted' = AdmittedAt(rs, jb) \cup {w}
      BY <2>1, <2>2, AdmittedIs DEF AdmittedAt
    <3> QED BY <3>1
  <2>4. Cardinality(Admitted') = Cardinality(Admitted)
    <3>1. w \notin Admitted \ {r}
      BY <2>2 DEF AdmittedAt, Holding, Running
    <3> QED BY <1>1, <2>2, <2>3, <3>1, Exchange
  <2>5. permits = 0
    BY <1>3 DEF NoLostWakeup
  <2> QED BY <1>1, <2>1, <2>4, <2>5 DEF PermitsConserved, NoLostWakeup, TypeOK
<1> QED BY <1>2, <1>3

LEMMA InitInv == Init => ExecInv
<1> SUFFICES ASSUME Init PROVE ExecInv
  OBVIOUS
<1>1. TypeOK /\ NoLostWakeup /\ JobsSubmitted
  BY DEF Init, TypeOK, NoLostWakeup, JobsSubmitted, Waiting, Over
<1>2. Admitted = {} /\ Jobs(UsingSlot) = {}
  BY DEF Init, Admitted, Jobs, Running, UsingSlot
<1> QED BY <1>1, <1>2, FS_EmptySet DEF Init, ExecInv, PermitsConserved, SlotsConserved

\* A step of the loop that takes no permit and gives none back.
LEMMA QuietInv ==
    ASSUME ExecInv, TypeOK', JobsSubmitted', AdmittedAt(req', job') = Admitted,
           Jobs(UsingSlot)' = Jobs(UsingSlot), Waiting(req') \subseteq Waiting(req),
           UNCHANGED <<permits, slots>>
    PROVE  ExecInv'
BY AdmittedIs DEF ExecInv, PermitsConserved, SlotsConserved, NoLostWakeup

LEMMA ArriveInv == ASSUME ExecInv, NEW r \in Request, Arrive(r) PROVE ExecInv'
<1>1. TypeOK' /\ JobsSubmitted' /\ Jobs(UsingSlot)' = Jobs(UsingSlot)
  BY DEF Arrive, ExecInv, TypeOK, JobsSubmitted, Becomes, Over, Jobs
<1>2. job[r] = "none"
  BY DEF Arrive, ExecInv, JobsSubmitted
<1>3. CASE permits > 0 /\ Waiting(req) = {}
  <2>1. permits' = permits - 1 /\ req' = [req EXCEPT ![r] = "granted"] /\ job' = job
    BY <1>3 DEF Arrive, Becomes
  <2>2. Admitted' = Admitted \cup {r} /\ r \notin Admitted
    BY <2>1, <1>2 DEF ExecInv, TypeOK, Admitted, Jobs, Running, Arrive
  <2>3. Cardinality(Admitted') = Cardinality(Admitted) + 1
    BY <2>2, SetsFinite, FS_AddElement DEF Admitted, Jobs
  <2>4. PermitsConserved'
    BY <2>1, <2>3, SetsFinite DEF ExecInv, PermitsConserved, TypeOK, Admitted, Jobs
  <2>5. NoLostWakeup'
    BY <1>3, <2>1 DEF NoLostWakeup, Waiting, ExecInv, TypeOK
  <2> QED BY <1>1, <2>4, <2>5 DEF ExecInv, SlotsConserved, Arrive
<1>4. CASE ~(permits > 0 /\ Waiting(req) = {})
  <2>1. permits' = permits /\ req' = [req EXCEPT ![r] = "waiting"] /\ job' = job
    BY <1>4 DEF Arrive, Becomes
  <2>2. Admitted' = Admitted
    BY <2>1, <1>2 DEF ExecInv, TypeOK, Admitted, Jobs, Running, Arrive
  <2>3. permits = 0
    BY <1>4 DEF ExecInv, TypeOK, NoLostWakeup
  <2> QED BY <1>1, <2>1, <2>2, <2>3
          DEF ExecInv, SlotsConserved, PermitsConserved, NoLostWakeup, Arrive
<1> QED BY <1>3, <1>4

LEMMA CapacityTimeoutInv == ASSUME ExecInv, NEW r \in Request, CapacityTimeout(r) PROVE ExecInv'
<1>1. TypeOK' /\ JobsSubmitted' /\ Jobs(UsingSlot)' = Jobs(UsingSlot)
  BY DEF CapacityTimeout, ExecInv, TypeOK, JobsSubmitted, Becomes, Over, Jobs
<1>2. AdmittedAt(req', job') = Admitted /\ Waiting(req') \subseteq Waiting(req)
  BY DEF CapacityTimeout, ExecInv, TypeOK, Becomes, Admitted, AdmittedAt, Jobs, Holding, Waiting
<1> QED BY <1>1, <1>2, QuietInv DEF CapacityTimeout

LEMMA TooLateInv == ASSUME ExecInv, NEW r \in Request, TooLate(r) PROVE ExecInv'
<1> DEFINE rs == [req EXCEPT ![r] = "rejected"]
<1>1. /\ Release(rs) /\ req[r] = "granted" /\ job[r] = "none"
      /\ UNCHANGED <<job, slots, cancelled, server>>
  BY DEF TooLate, Becomes, ExecInv, JobsSubmitted
<1>2. rs \in [Request -> ReqStates] /\ r \in Admitted
  BY <1>1 DEF ExecInv, TypeOK, ReqStates, Over, Admitted
<1>3. AdmittedAt(rs, job) = Admitted \ {r} /\ Waiting(rs) \subseteq Waiting(req)
  BY <1>1 DEF ExecInv, TypeOK, AdmittedAt, Admitted, Jobs, Holding, Running, Waiting
<1>4. \A w \in Waiting(rs) : job[w] = "none"
  BY <1>1 DEF ExecInv, TypeOK, JobsSubmitted, Waiting
<1>5. /\ PermitsConserved' /\ NoLostWakeup' /\ permits' \in 0..Limit
      /\ \/ req' = rs
         \/ \E w \in Waiting(rs) : req' = [rs EXCEPT ![w] = "granted"]
  BY <1>1, <1>2, <1>3, <1>4, ReleaseInv DEF ExecInv
<1>6. req' \in [Request -> ReqStates] /\ JobsSubmitted'
  BY <1>1, <1>2, <1>4, <1>5 DEF ExecInv, JobsSubmitted, ReqStates, TypeOK, Waiting
<1> QED BY <1>1, <1>5, <1>6 DEF ExecInv, TypeOK, ReqStates, SlotsConserved, Jobs

LEMMA JobDoneInv == ASSUME ExecInv, NEW r \in Request, JobDone(r) PROVE ExecInv'
<1> DEFINE jb == [job EXCEPT ![r] = "released"]
<1>1. /\ Release(req) /\ job[r] = "ended" /\ job' = jb /\ req[r] \notin {"waiting", "granted"}
      /\ UNCHANGED <<slots, cancelled, server>>
  BY DEF JobDone, ExecInv, JobsSubmitted
<1>2. jb \in [Request -> JobStates] /\ req \in [Request -> ReqStates] /\ r \in Admitted
  BY <1>1 DEF ExecInv, TypeOK, ReqStates, JobStates, Admitted, Jobs
<1>3. AdmittedAt(req, jb) = Admitted \ {r}
  BY <1>1 DEF ExecInv, TypeOK, AdmittedAt, Admitted, Jobs, Holding, Running
<1>4. \A w \in Waiting(req) : jb[w] = "none"
  BY <1>1 DEF ExecInv, TypeOK, JobsSubmitted, Waiting
<1>5. /\ PermitsConserved' /\ NoLostWakeup' /\ permits' \in 0..Limit
      /\ \/ req' = req
         \/ \E w \in Waiting(req) : req' = [req EXCEPT ![w] = "granted"]
  BY <1>1, <1>2, <1>3, <1>4, ReleaseInv DEF ExecInv
<1>6. req' \in [Request -> ReqStates] /\ JobsSubmitted'
  BY <1>1, <1>2, <1>4, <1>5 DEF ExecInv, JobsSubmitted, ReqStates, TypeOK, Waiting
<1>7. Jobs(UsingSlot)' = Jobs(UsingSlot)
  BY <1>1 DEF ExecInv, TypeOK, Jobs, UsingSlot
<1> QED BY <1>1, <1>2, <1>5, <1>6, <1>7
        DEF ExecInv, TypeOK, ReqStates, JobStates, SlotsConserved

LEMMA SubmitInv == ASSUME ExecInv, NEW r \in Request, Submit(r) PROVE ExecInv'
<1>1. TypeOK' /\ JobsSubmitted'
  BY DEF Submit, ExecInv, TypeOK, JobsSubmitted, Becomes, Over
<1>2. /\ AdmittedAt(req', job') = Admitted /\ Waiting(req') \subseteq Waiting(req)
      /\ Jobs(UsingSlot)' = Jobs(UsingSlot)
  BY DEF Submit, ExecInv, TypeOK, JobsSubmitted, Becomes, Admitted, AdmittedAt, Jobs, Holding,
         Waiting, UsingSlot, Running
<1> QED BY <1>1, <1>2, QuietInv DEF Submit

LEMMA RequestEndsInv ==
    ASSUME ExecInv, NEW r \in Request, GiveUp(r) \/ Answer(r) PROVE ExecInv'
<1>1. TypeOK' /\ JobsSubmitted' /\ Jobs(UsingSlot)' = Jobs(UsingSlot)
  BY DEF GiveUp, Answer, ExecInv, TypeOK, JobsSubmitted, Becomes, Over, Jobs
<1>2. AdmittedAt(req', job') = Admitted /\ Waiting(req') \subseteq Waiting(req)
  BY DEF GiveUp, Answer, ExecInv, TypeOK, Becomes, Admitted, AdmittedAt, Jobs, Holding, Waiting
<1> QED BY <1>1, <1>2, QuietInv DEF GiveUp, Answer

\* A job that goes on keeps its permit; its slot goes with the phases that use one.
InPhase(p) == IF p \in UsingSlot THEN 1 ELSE 0
JobGoes(r, phase) ==
    /\ phase \in Running \cup {"ended"} /\ job[r] \in Running \cup {"queued"}
    /\ job' = [job EXCEPT ![r] = phase]
    /\ UNCHANGED <<permits, req, cancelled, server>>
    /\ slots' = slots + InPhase(job[r]) - InPhase(phase) /\ slots' >= 0

LEMMA JobGoesOnInv ==
    ASSUME ExecInv, NEW r \in Request, NEW phase, JobGoes(r, phase)
    PROVE  ExecInv'
<1> USE DEF JobGoes, InPhase
<1> DEFINE U == Jobs(UsingSlot)
<1>1. job' \in [Request -> JobStates] /\ JobsSubmitted'
  BY DEF ExecInv, TypeOK, JobStates, JobsSubmitted, Running
<1>2. Admitted' = Admitted
  BY DEF ExecInv, TypeOK, Admitted, Jobs, Running
<1>3. IsFiniteSet(U) /\ Cardinality(U) \in Nat /\ slots \in Nat
  BY SetsFinite DEF Jobs, ExecInv, TypeOK
<1>4. r \in U <=> job[r] \in UsingSlot
  BY DEF Jobs
<1>5. ASSUME phase \in UsingSlot
      PROVE  Cardinality(U') \in Nat /\ slots' + Cardinality(U') = Limit
  <2>1. U' = U \cup {r}
    BY <1>5 DEF ExecInv, TypeOK, Jobs
  <2>2. Cardinality(U') = IF r \in U THEN Cardinality(U) ELSE Cardinality(U) + 1
    BY <1>3, <2>1, FS_AddElement
  <2>3. slots + Cardinality(U) = Limit
    BY DEF ExecInv, SlotsConserved
  <2>4. slots' = slots - (IF r \in U THEN 0 ELSE 1)
    BY <1>3, <1>4, <1>5
  <2> QED BY <1>3, <2>2, <2>3, <2>4
<1>6. ASSUME phase \notin UsingSlot
      PROVE  Cardinality(U') \in Nat /\ slots' + Cardinality(U') = Limit
  <2>0. r \in U => Cardinality(U) > 0
    BY SetsFinite DEF Jobs
  <2>1. U' = U \ {r}
    BY <1>6 DEF ExecInv, TypeOK, Jobs
  <2>2. Cardinality(U') = IF r \in U THEN Cardinality(U) - 1 ELSE Cardinality(U)
    BY <1>3, <2>1, FS_RemoveElement
  <2>3. slots + Cardinality(U) = Limit
    BY DEF ExecInv, SlotsConserved
  <2>4. slots' = slots + (IF r \in U THEN 1 ELSE 0)
    BY <1>3, <1>4, <1>6
  <2> QED BY <1>3, <2>0, <2>2, <2>3, <2>4
<1>7. SlotsConserved' /\ slots' \in 0..Limit
  <2>1. slots' \in Int
    BY <1>3, <1>5, <1>6
  <2> QED BY <1>5, <1>6, <2>1 DEF SlotsConserved
<1> QED BY <1>1, <1>2, <1>7
        DEF ExecInv, TypeOK, JobStates, PermitsConserved, NoLostWakeup

LEMMA DeliverInv == ASSUME ExecInv, NEW r \in Request, Deliver(r) PROVE ExecInv'
<1>1. JobGoes(r, "generating") \/ JobGoes(r, "ended")
  BY DEF Deliver, JobGoes, InPhase, Running, UsingSlot, ExecInv, TypeOK
<1> QED BY <1>1, JobGoesOnInv

LEMMA WorkerStepInv == ASSUME ExecInv, NEW r \in Request, WorkerStep(r) PROVE ExecInv'
<1> USE DEF Goes, JobGoes, InPhase, Running, UsingSlot
<1>1. slots \in Nat
  BY DEF ExecInv, TypeOK
<1>2. LastPhase(r) \in {"closing", "ended"}
  BY DEF LastPhase
<1>3. CASE Start(r)
  <2>1. JobGoes(r, "retrieving")
    BY <1>1, <1>2, <1>3 DEF Start
  <2> QED BY <2>1, JobGoesOnInv
<1>4. CASE WantSlot(r)
  <2>1. JobGoes(r, "wants")
    BY <1>1, <1>2, <1>4 DEF WantSlot
  <2> QED BY <2>1, JobGoesOnInv
<1>5. CASE TakeSlot(r)
  <2>1. JobGoes(r, "generating")
    BY <1>1, <1>2, <1>5 DEF TakeSlot
  <2> QED BY <2>1, JobGoesOnInv
<1>6. CASE HandChunk(r)
  <2>1. JobGoes(r, "handing")
    BY <1>1, <1>2, <1>6 DEF HandChunk
  <2> QED BY <2>1, JobGoesOnInv
<1>7. CASE EndGeneration(r)
  <2>1. JobGoes(r, "retrieving") \/ JobGoes(r, LastPhase(r))
    BY <1>1, <1>2, <1>7 DEF EndGeneration
  <2> QED BY <2>1, JobGoesOnInv
<1>8. CASE JobFails(r)
  <2>1. JobGoes(r, LastPhase(r))
    BY <1>1, <1>2, <1>8 DEF JobFails
  <2> QED BY <2>1, JobGoesOnInv
<1>9. CASE PutTimesOut(r)
  <2>1. JobGoes(r, LastPhase(r)) \/ JobGoes(r, "ended")
    BY <1>1, <1>2, <1>9 DEF PutTimesOut
  <2> QED BY <2>1, JobGoesOnInv
<1> QED BY <1>3, <1>4, <1>5, <1>6, <1>7, <1>8, <1>9 DEF WorkerStep

LEMMA ServerInv ==
    ASSUME ExecInv, Shutdown \/ CloseStore \/ UNCHANGED vars PROVE ExecInv'
BY DEF Shutdown, CloseStore, vars, ExecInv, TypeOK, PermitsConserved, SlotsConserved, NoLostWakeup,
       JobsSubmitted, Admitted, Jobs, Waiting

LEMMA StepInv == ExecInv /\ [Next]_vars => ExecInv'
<1> SUFFICES ASSUME ExecInv, [Next]_vars PROVE ExecInv'
  OBVIOUS
<1>1. ASSUME NEW r \in Request, LoopStep(r) PROVE ExecInv'
  BY <1>1, ArriveInv, CapacityTimeoutInv, TooLateInv, SubmitInv, RequestEndsInv, JobDoneInv,
     DeliverInv DEF LoopStep
<1>2. ASSUME NEW r \in Request, WorkerStep(r) PROVE ExecInv'
  BY <1>2, WorkerStepInv
<1> QED BY <1>1, <1>2, ServerInv DEF Next

\* Time-outs, failed submissions and abandoned jobs included, the inductive
\* invariant holds for any number of requests.
THEOREM ExecutorInvariant == Spec => []ExecInv
<1> QED BY InitInv, StepInv, PTL DEF Spec

\* The variables of the executor keep their types (rag_executor.py:32-50).
THEOREM ExecutorTypeCorrect == Spec => []TypeOK
<1>1. ExecInv => TypeOK
  BY DEF ExecInv
<1> QED BY <1>1, ExecutorInvariant, PTL

\* No permit is lost or given back twice (rag_executor.py:95-124).
THEOREM PermitsNeverLeak == Spec => []PermitsConserved
<1>1. ExecInv => PermitsConserved
  BY DEF ExecInv
<1> QED BY <1>1, ExecutorInvariant, PTL

\* A free permit and a waiting request never coexist (rag_executor.py:89-92).
THEOREM WaitersAreWoken == Spec => []NoLostWakeup
<1>1. ExecInv => NoLostWakeup
  BY DEF ExecInv
<1> QED BY <1>1, ExecutorInvariant, PTL

\* What RAG_EXECUTOR_WORKERS >= GENERATION_CONCURRENCY_LIMIT is required for:
\* jobs never queue inside the executor (settings.py:171-177).
THEOREM NoQueueInExecutor == Spec => []AdmittedGetWorkers
<1>1. ExecInv => AdmittedGetWorkers
  <2> SUFFICES ASSUME ExecInv PROVE AdmittedGetWorkers
    OBVIOUS
  <2> DEFINE J == Jobs(Running \cup {"queued"})
  <2>1. J \subseteq Admitted /\ Admitted \in SUBSET Request
    BY DEF Admitted, Jobs
  <2>2. Cardinality(J) <= Cardinality(Admitted)
    BY <2>1, SetsFinite, FS_Subset
  <2>3. Cardinality(J) \in Nat /\ Cardinality(Admitted) \in Nat
    BY <2>1, SetsFinite
  <2> QED BY <2>2, <2>3 DEF ExecInv, TypeOK, PermitsConserved, AdmittedGetWorkers
<1> QED BY <1>1, ExecutorInvariant, PTL

\* A job of the API process never waits for a generation slot (rag_executor.py:40-43):
\* waiting requests are turned away with a 504, not by the slot's shorter time-out.
THEOREM SlotAlwaysFree == Spec => []SlotsSuffice
<1>1. ExecInv => SlotsSuffice
  <2> SUFFICES ASSUME ExecInv, NEW r \in Request, job[r] = "wants" PROVE slots > 0
    BY DEF SlotsSuffice
  <2> DEFINE U == Jobs(UsingSlot)
  <2>1. U \cup {r} \in SUBSET Admitted /\ r \notin U /\ Admitted \in SUBSET Request
    BY DEF Jobs, Admitted, UsingSlot, Running
  <2>2. IsFiniteSet(U) /\ Cardinality(U) \in Nat /\ IsFiniteSet(Admitted)
        /\ Cardinality(Admitted) \in Nat
    BY <2>1, SetsFinite
  <2>3. Cardinality(U \cup {r}) = Cardinality(U) + 1
    BY <2>1, <2>2, FS_AddElement
  <2>4. Cardinality(U \cup {r}) <= Cardinality(Admitted)
    BY <2>1, <2>2, FS_Subset
  <2> QED BY <2>2, <2>3, <2>4 DEF ExecInv, TypeOK, SlotsConserved, PermitsConserved
<1> QED BY <1>1, ExecutorInvariant, PTL
=============================================================================
