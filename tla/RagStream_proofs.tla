--------------------------- MODULE RagStream_proofs ---------------------------
(***************************************************************************)
(* A streamed answer arrives in order and without gaps, for any number of  *)
(* chunks and any size of the queue.                                       *)
(***************************************************************************)
EXTENDS RagStream, SequenceTheorems, TLAPS

USE StreamAssumption
USE DEF End, Exception, TimedOut, Chunk, Item, Notices, Event

LEMMA InitInv == Init => StreamInv
<1> SUFFICES ASSUME Init PROVE StreamInv
  OBVIOUS
<1>1. queue \in Seq(Item) /\ Len(queue) = 0 /\ received \in Seq(Event) /\ Len(received) = 0
  BY EmptySeq DEF Init
<1>2. TypeOK /\ NoGap
  <2>1. item \in Item /\ out \in Event /\ generated \in 0..NumItems
    BY DEF Init
  <2>2. Len(queue) <= QueueSize /\ cancel \in BOOLEAN
    <3>1. Len(queue) <= QueueSize
      BY <1>1
    <3>2. cancel \in BOOLEAN
      BY DEF Init
    <3> QED BY <3>1, <3>2
  <2>3. TypeOK
    BY <1>1, <2>1, <2>2, Zenon DEF Init, TypeOK
  <2>4. NoGap
    BY <1>1 DEF NoGap
  <2> QED BY <2>3, <2>4
<1>3. QueueInOrder /\ WorkerInOrder
  BY <1>1 DEF Init, QueueInOrder, WorkerInOrder, Taken, Passing
<1> QED BY <1>2, <1>3 DEF Init, StreamInv

\* A step that leaves the queue and the response alone.
LEMMA OthersStay ==
    ASSUME StreamInv, TypeOK', WorkerInOrder',
           UNCHANGED <<queue, consumer, out, received>>
    PROVE  StreamInv'
BY DEF StreamInv, NoGap, QueueInOrder, Taken, Passing

LEMMA GeneratorInv ==
    ASSUME StreamInv, Generate \/ GeneratorEnds PROVE StreamInv'
<1>1. TypeOK'
  BY DEF Generate, GeneratorEnds, HandOver, StreamInv, TypeOK, consumerVars
<1>2. put = "none" /\ worker = "generator" /\ worker' = "put" /\ put' = put
      /\ UNCHANGED <<queue, consumer, out, received>>
  BY DEF Generate, GeneratorEnds, HandOver, StreamInv, TypeOK, WorkerInOrder, consumerVars
<1>3. Taken' = Taken /\ Passing' = Passing
  BY <1>2 DEF Taken, Passing
<1>4. WorkerInOrder'
  <2>1. CASE Generate
    BY <1>2, <1>3, <2>1 DEF Generate, HandOver, StreamInv, TypeOK, WorkerInOrder
  <2>2. CASE GeneratorEnds
    BY <1>2, <1>3, <2>2 DEF GeneratorEnds, HandOver, StreamInv, TypeOK, WorkerInOrder
  <2> QED BY <2>1, <2>2
<1> QED BY <1>1, <1>2, <1>4, OthersStay

\* What _run does after a put keeps the invariant: it goes on only after a delivery.
LEMMA PutReturnsInv ==
    ASSUME StreamInv, NEW delivered \in BOOLEAN, PutReturns(delivered), worker = "put",
           delivered => put = "delivered",
           UNCHANGED <<generated, reply, queue, cancel, consumerVars, client>>
    PROVE  StreamInv'
BY DEF PutReturns, HandOver, StreamInv, TypeOK, NoGap, QueueInOrder, WorkerInOrder,
       Taken, Passing, consumerVars

LEMMA PutInv ==
    ASSUME StreamInv, PutRefused \/ PutDone \/ PutTimesOut PROVE StreamInv'
BY PutReturnsInv DEF PutRefused, PutDone, PutTimesOut, StreamInv, WorkerInOrder

LEMMA PutScheduledInv == ASSUME StreamInv, PutScheduled PROVE StreamInv'
BY DEF PutScheduled, StreamInv, TypeOK, NoGap, QueueInOrder, WorkerInOrder, Taken, Passing,
       consumerVars

LEMMA DeliverInv == ASSUME StreamInv, Deliver PROVE StreamInv'
<1>1. /\ queue \in Seq(Item) /\ queue' = Append(queue, item) /\ Len(queue) < QueueSize
      /\ put = "pending" /\ put' = "delivered" /\ worker = "put" /\ item \in Item
      /\ UNCHANGED <<worker, item, generated, reply, cancel, consumer, out, received, client>>
  BY DEF Deliver, consumerVars, StreamInv, TypeOK, WorkerInOrder
<1>2. /\ queue' \in Seq(Item) /\ Len(queue') = Len(queue) + 1 /\ Len(queue) \in Nat
      /\ \A i \in 1..Len(queue) : queue'[i] = queue[i]
      /\ queue'[Len(queue) + 1] = item
  BY <1>1, AppendProperties
<1>3. Taken' = Taken /\ Passing' = Passing /\ Taken \in Nat
  BY <1>1 DEF Taken, Passing, StreamInv, TypeOK
<1>4. QueueInOrder'
  <2> SUFFICES ASSUME Passing', NEW i \in 1..Len(queue'), queue'[i] \in Chunk
               PROVE  queue'[i] = Taken' + i
    BY DEF QueueInOrder
  <2>1. CASE i \in 1..Len(queue)
    BY <1>2, <1>3, <2>1 DEF StreamInv, QueueInOrder
  <2>2. CASE i = Len(queue) + 1
    BY <1>1, <1>2, <1>3, <2>2 DEF StreamInv, WorkerInOrder
  <2> QED BY <1>2, <2>1, <2>2
<1>5. WorkerInOrder'
  BY <1>1, <1>2, <1>3 DEF StreamInv, TypeOK, WorkerInOrder
<1> QED BY <1>1, <1>2, <1>4, <1>5 DEF StreamInv, TypeOK, NoGap

LEMMA GetInv == ASSUME StreamInv, Get PROVE StreamInv'
<1>1. /\ queue \in Seq(Item) /\ queue # <<>> /\ queue' = Tail(queue)
      /\ consumer = "get" /\ consumer' = "send" /\ out' = Head(queue)
      /\ cancel' \in BOOLEAN
      /\ UNCHANGED <<worker, item, put, generated, reply, received, client>>
  BY DEF Get, Send, workerVars, StreamInv, TypeOK
<1>2. /\ queue' \in Seq(Item) /\ Len(queue') = Len(queue) - 1 /\ Len(queue) \in Nat \ {0}
      /\ \A i \in 1..Len(queue') : queue'[i] = queue[i + 1]
      /\ out' = queue[1] /\ out' \in Item
  BY <1>1, HeadTailProperties
<1>3. Passing /\ Taken = Len(received) /\ Taken' = Taken + 1 /\ Taken \in Nat
  BY <1>1 DEF Taken, Passing, StreamInv, TypeOK
<1>4. out' \in Chunk => out' = Len(received) + 1
  BY <1>2, <1>3 DEF StreamInv, QueueInOrder
<1>5. QueueInOrder'
  <2> SUFFICES ASSUME NEW i \in 1..Len(queue'), queue'[i] \in Chunk
               PROVE  queue'[i] = Taken' + i
    BY DEF QueueInOrder
  <2>1. i + 1 \in 1..Len(queue) /\ queue'[i] = queue[i + 1]
    BY <1>2
  <2>2. queue[i + 1] = Taken + (i + 1)
    BY <1>3, <2>1 DEF StreamInv, QueueInOrder
  <2> QED BY <1>3, <2>1, <2>2
<1>6. WorkerInOrder'
  <2>1. Taken' + Len(queue') = Taken + Len(queue)
    BY <1>2, <1>3
  <2> QED BY <1>1, <1>3, <2>1 DEF StreamInv, WorkerInOrder
<1> QED BY <1>1, <1>2, <1>4, <1>5, <1>6 DEF StreamInv, TypeOK, NoGap

LEMMA SentInv == ASSUME StreamInv, Sent PROVE StreamInv'
<1>1. /\ consumer = "send" /\ received \in Seq(Event) /\ out \in Event
      /\ received' = Append(received, out)
      /\ UNCHANGED <<worker, item, put, generated, reply, queue, client>>
  BY DEF Sent, workerVars, StreamInv, TypeOK
<1>2. /\ received' \in Seq(Event) /\ Len(received') = Len(received) + 1 /\ Len(received) \in Nat
      /\ \A i \in 1..Len(received) : received'[i] = received[i]
      /\ received'[Len(received) + 1] = out
  BY <1>1, AppendProperties
<1>3. NoGap'
  <2> SUFFICES ASSUME NEW i \in 1..Len(received'), received'[i] \in Chunk
               PROVE  received'[i] = i
    BY DEF NoGap
  <2>1. CASE i \in 1..Len(received)
    BY <1>2, <2>1 DEF StreamInv, NoGap
  <2>2. CASE i = Len(received) + 1
    BY <1>1, <1>2, <2>2 DEF StreamInv
  <2> QED BY <1>2, <2>1, <2>2
<1>4. CASE out \in Chunk
  <2>1. consumer' = "get" /\ out' = out /\ cancel' = cancel
    BY <1>4 DEF Sent
  <2>2. Passing /\ Passing' /\ Taken' = Taken
    BY <1>1, <1>2, <1>4, <2>1 DEF Passing, Taken
  <2> QED BY <1>1, <1>2, <1>3, <2>1, <2>2 DEF StreamInv, TypeOK, QueueInOrder, WorkerInOrder
<1>5. CASE out \notin Chunk
  <2>1. consumer' \in {"send", "closed"} /\ out' = End /\ cancel' \in BOOLEAN
    BY <1>1, <1>5 DEF Sent, StreamInv, TypeOK
  <2>2. ~Passing'
    BY <2>1 DEF Passing
  <2> QED BY <1>1, <1>2, <1>3, <2>1, <2>2 DEF StreamInv, TypeOK, QueueInOrder, WorkerInOrder
<1> QED BY <1>4, <1>5

LEMMA OtherInv ==
    ASSUME StreamInv, GetTimesOut \/ Abandon \/ WatchDisconnect \/ Client \/ UNCHANGED vars
    PROVE  StreamInv'
<1>1. CASE GetTimesOut \/ Abandon
  <2>1. /\ UNCHANGED <<worker, item, put, generated, reply, queue, received, client>>
        /\ consumer' \in {"send", "closed"} /\ out' \in Event /\ cancel' \in BOOLEAN
        /\ consumer' = "send" => out' = TimedOut
    BY <1>1 DEF GetTimesOut, Send, Abandon, workerVars, StreamInv, TypeOK
  <2>2. ~Passing'
    BY <2>1 DEF Passing
  <2> QED BY <2>1, <2>2 DEF StreamInv, TypeOK, NoGap, QueueInOrder, WorkerInOrder
<1>2. CASE WatchDisconnect \/ Client \/ UNCHANGED vars
  <2>1. /\ UNCHANGED <<worker, item, put, generated, reply, queue, consumer, out, received>>
        /\ cancel' \in BOOLEAN /\ client' \in {"reading", "stalled", "back", "gone"}
    BY <1>2 DEF WatchDisconnect, Client, vars, workerVars, consumerVars, StreamInv, TypeOK
  <2> QED BY <2>1, OthersStay DEF StreamInv, TypeOK, WorkerInOrder, Taken, Passing
<1> QED BY <1>1, <1>2

LEMMA StepInv == StreamInv /\ [Next]_vars => StreamInv'
BY GeneratorInv, PutInv, PutScheduledInv, DeliverInv, GetInv, SentInv, OtherInv
   DEF Next, WorkerStep, LoopStep

\* Whatever is dropped, cancelled or timed out, the inductive invariant holds.
THEOREM StreamInvariant == Spec => []StreamInv
<1> QED BY InitInv, StepInv, PTL DEF Spec

\* The variables of a stream keep their types, and the queue its bound
\* (rag_executor.py:161).
THEOREM StreamTypeCorrect == Spec => []TypeOK
<1>1. StreamInv => TypeOK
  BY DEF StreamInv
<1> QED BY <1>1, StreamInvariant, PTL

\* The client gets the chunks in order and none is skipped (rag_executor.py:166-195).
THEOREM ChunksInOrder == Spec => []NoGap
<1>1. StreamInv => NoGap
  BY DEF StreamInv
<1> QED BY <1>1, StreamInvariant, PTL
-----------------------------------------------------------------------------
(***************************************************************************)
(* An answer that ends like a finished one is whole.                       *)
(***************************************************************************)
LEMMA InitWhole == Init => WholeInv
<1> SUFFICES ASSUME Init PROVE WholeInv
  OBVIOUS
<1>1. queue = <<>> /\ Len(queue) = 0
  BY DEF Init
<1> QED BY <1>1 DEF Init, WholeInv, StopInOrder

\* Steps after which nothing is clean any more keep what is said of the worker.
LEMMA NotClean ==
    ASSUME WholeInv, ~Clean', UNCHANGED <<worker, item, reply>> PROVE WholeInv'
BY DEF WholeInv, StopInOrder

LEMMA GenerateWhole == ASSUME StreamInv, WholeInv, Generate PROVE WholeInv'
<1>1. /\ worker = "generator" /\ worker' = "put" /\ item' \in Chunk /\ put = "none" /\ put' = "none"
      /\ UNCHANGED <<reply, queue, cancel, consumer, out, received, client>>
  BY DEF Generate, HandOver, consumerVars, StreamInv, TypeOK, WorkerInOrder
<1>2. Clean' = Clean /\ Passing' = Passing /\ Taken' = Taken
  BY <1>1 DEF Clean, Passing, Taken
<1>3. item' # End /\ item' # Exception
  BY <1>1
<1> QED BY <1>1, <1>2, <1>3 DEF WholeInv, StopInOrder, ExceptionBefore, WholeAt

LEMMA GeneratorEndsWhole == ASSUME StreamInv, WholeInv, GeneratorEnds PROVE WholeInv'
<1>1. /\ worker = "generator" /\ worker' = "put" /\ item' \in {End, Exception} /\ put = "none" /\ put' = "none"
      /\ UNCHANGED <<generated, queue, cancel, consumer, out, received, client>>
      /\ reply = "none"
  BY DEF GeneratorEnds, HandOver, consumerVars, StreamInv, TypeOK, WorkerInOrder, WholeInv
<1>2. Clean' = Clean /\ Passing' = Passing /\ Taken' = Taken
  BY <1>1 DEF Clean, Passing, Taken
<1>3. StopInOrder'
  <2> SUFFICES ASSUME Clean, Passing PROVE
        /\ ~cancel
        /\ \A i \in 1..Len(queue) : queue[i] = End => ExceptionBefore(i)' \/ WholeAt(i)'
        /\ item' = End => WholeAt(Len(queue) + 1)'
    BY <1>1, <1>2 DEF StopInOrder
  <2>1. ~cancel /\ \A i \in 1..Len(queue) : queue[i] = End => ExceptionBefore(i)
    BY <1>1 DEF WholeInv, StopInOrder, WholeAt
  <2>2. item' = End => reply' = "complete" /\ generated = NumItems
    BY <2>1 DEF GeneratorEnds, HandOver
  <2>3. generated = Taken + Len(queue) /\ Taken \in Nat /\ Len(queue) \in Nat
    BY <1>1 DEF StreamInv, WorkerInOrder, TypeOK, Taken
  <2>4. item' = End => WholeAt(Len(queue) + 1)'
    BY <1>1, <1>2, <2>2, <2>3 DEF WholeAt
  <2> QED BY <1>1, <2>1, <2>4 DEF ExceptionBefore
<1> QED BY <1>1, <1>2, <1>3 DEF WholeInv

LEMMA PutWhole == ASSUME StreamInv, WholeInv, PutRefused \/ PutDone \/ PutTimesOut PROVE WholeInv'
<1>1. /\ worker = "put" /\ item \in Item /\ put' = "none"
      /\ UNCHANGED <<generated, reply, queue, cancel, consumer, out, received, client>>
  BY DEF PutRefused, PutDone, PutTimesOut, PutReturns, HandOver, consumerVars, StreamInv, TypeOK,
         WorkerInOrder
<1>2. Clean' = Clean /\ Passing' = Passing /\ Taken' = Taken
  BY <1>1 DEF Clean, Passing, Taken
<1>3. \/ worker' = "generator" /\ item' = item /\ item \in Chunk /\ PutDone
      \/ worker' = "put" /\ item' = End /\ item # End
      \/ worker' = "done" /\ item' = item
  BY <1>1 DEF PutRefused, PutDone, PutTimesOut, PutReturns, HandOver
<1>4. Clean /\ Passing => PutDone /\ put = "delivered"
  BY DEF WholeInv, StopInOrder, Clean, PutRefused, PutDone, PutTimesOut
<1>5. Clean /\ Passing /\ worker' = "put" => ExceptionBefore(Len(queue) + 1)
  <2> SUFFICES ASSUME Clean, Passing, worker' = "put" PROVE item = Exception
    BY <1>1, <1>4 DEF WholeInv, StopInOrder
  <2> QED BY <1>1, <1>4 DEF PutDone, PutReturns
<1>6. StopInOrder'
  <2> SUFFICES ASSUME Clean, Passing PROVE
        /\ ~cancel
        /\ \A i \in 1..Len(queue) : queue[i] = End => ExceptionBefore(i)' \/ WholeAt(i)'
        /\ worker' = "put" => ExceptionBefore(Len(queue) + 1)'
    BY <1>1, <1>2 DEF StopInOrder
  <2> QED BY <1>1, <1>2, <1>5 DEF WholeInv, StopInOrder, ExceptionBefore, WholeAt
<1> QED BY <1>1, <1>2, <1>3, <1>6 DEF WholeInv

LEMMA PutScheduledWhole == ASSUME StreamInv, WholeInv, PutScheduled PROVE WholeInv'
<1>1. /\ put = "none" /\ put' = "pending"
      /\ UNCHANGED <<worker, item, reply, queue, cancel, consumer, out, received, client>>
  BY DEF PutScheduled, consumerVars
<1>2. Clean' = Clean /\ Passing' = Passing /\ Taken' = Taken
  BY <1>1 DEF Clean, Passing, Taken
<1> QED BY <1>1, <1>2 DEF WholeInv, StopInOrder, ExceptionBefore, WholeAt

LEMMA DeliverWhole == ASSUME StreamInv, WholeInv, Deliver PROVE WholeInv'
<1>1. /\ queue \in Seq(Item) /\ queue' = Append(queue, item)
      /\ put = "pending" /\ put' = "delivered" /\ worker = "put" /\ item \in Item
      /\ UNCHANGED <<worker, item, generated, reply, cancel, consumer, out, received, client>>
  BY DEF Deliver, consumerVars, StreamInv, TypeOK, WorkerInOrder
<1>2. /\ Len(queue') = Len(queue) + 1 /\ Len(queue) \in Nat
      /\ \A i \in 1..Len(queue) : queue'[i] = queue[i]
      /\ queue'[Len(queue) + 1] = item
  BY <1>1, AppendProperties
<1>3. Clean' = Clean /\ Passing' = Passing /\ Taken' = Taken
  BY <1>1 DEF Clean, Passing, Taken
<1>4. StopInOrder'
  <2> SUFFICES ASSUME Clean, Passing PROVE
        /\ ~cancel
        /\ \A i \in 1..Len(queue') : queue'[i] = End => ExceptionBefore(i)' \/ WholeAt(i)'
        /\ item = Exception => ExceptionBefore(Len(queue) + 1)'
    BY <1>1, <1>3 DEF StopInOrder
  <2>1. \A i \in 1..Len(queue) + 1 : ExceptionBefore(i) => ExceptionBefore(i)'
    BY <1>2 DEF ExceptionBefore
  <2>2. \A i \in 1..Len(queue) + 1 : WholeAt(i)' = WholeAt(i)
    BY <1>1, <1>3 DEF WholeAt
  <2>3. ASSUME NEW i \in 1..Len(queue'), queue'[i] = End
        PROVE  ExceptionBefore(i)' \/ WholeAt(i)'
    <3>1. CASE i \in 1..Len(queue)
      BY <1>2, <2>1, <2>2, <2>3, <3>1 DEF WholeInv, StopInOrder
    <3>2. CASE i = Len(queue) + 1
      <4>1. item = End
        BY <1>2, <2>3, <3>2
      <4>2. ExceptionBefore(i) \/ WholeAt(i)
        BY <1>1, <3>2, <4>1 DEF WholeInv, StopInOrder
      <4> QED BY <1>2, <2>1, <2>2, <3>2, <4>2
    <3> QED BY <1>2, <3>1, <3>2
  <2>4. item = Exception => ExceptionBefore(Len(queue) + 1)'
    <3>1. Len(queue) + 1 \in 1..Len(queue') + 1 - 1
      BY <1>2
    <3> QED BY <1>2, <3>1 DEF ExceptionBefore
  <2> QED BY <2>3, <2>4 DEF WholeInv, StopInOrder
<1> QED BY <1>1, <1>3, <1>4 DEF WholeInv

LEMMA GetWhole == ASSUME StreamInv, WholeInv, Get PROVE WholeInv'
<1>1. /\ queue \in Seq(Item) /\ queue # <<>> /\ queue' = Tail(queue)
      /\ consumer = "get" /\ consumer' = "send" /\ out' = Head(queue)
      /\ cancel' = (cancel \/ Head(queue) = End)
      /\ UNCHANGED <<worker, item, put, generated, reply, received, client>>
  BY DEF Get, Send, workerVars, StreamInv, TypeOK
<1>2. /\ Len(queue') = Len(queue) - 1 /\ Len(queue) \in Nat \ {0}
      /\ \A i \in 1..Len(queue') : queue'[i] = queue[i + 1]
      /\ out' = queue[1] /\ out' \in Item
  BY <1>1, HeadTailProperties
<1>3. Passing /\ Taken = Len(received) /\ Taken' = Taken + 1 /\ Taken \in Nat
  BY <1>1 DEF Taken, Passing, StreamInv, TypeOK
<1>4. Clean' => Clean /\ out' # Exception
  BY <1>1, <1>2 DEF Clean
<1>5. StopInOrder'
  <2> SUFFICES ASSUME Clean', Passing' PROVE
        /\ ~cancel'
        /\ \A i \in 1..Len(queue') : queue'[i] = End => ExceptionBefore(i)' \/ WholeAt(i)'
        /\ worker = "put" /\ item = End /\ put # "delivered"
              => ExceptionBefore(Len(queue) + 1)' \/ WholeAt(Len(queue) + 1)'
        /\ worker = "put" /\ item = Exception /\ put = "delivered" => ExceptionBefore(Len(queue) + 1)'
    BY <1>1 DEF StopInOrder
  <2>1. out' \in Chunk /\ queue[1] \in Chunk /\ StopInOrder /\ Clean
    BY <1>1, <1>2, <1>4 DEF Passing, WholeInv
  <2>2. ~cancel'
    <3>1. ~cancel
      BY <1>3, <2>1 DEF StopInOrder
    <3>2. Head(queue) # End
      BY <1>1, <2>1
    <3> QED BY <1>1, <3>1, <3>2
  <2>3. ASSUME NEW i \in 1..Len(queue') + 1, ExceptionBefore(i + 1) PROVE ExceptionBefore(i)'
    <3>1. PICK j \in 1..i : queue[j] = Exception
      BY <1>2, <2>3 DEF ExceptionBefore
    <3>2. j # 1
      BY <2>1, <3>1
    <3>3. j - 1 \in 1..i - 1 /\ j - 1 \in 1..Len(queue') /\ queue'[j - 1] = queue[(j - 1) + 1] /\ (j - 1) + 1 = j
      BY <1>2, <3>1, <3>2
    <3> QED BY <3>1, <3>3 DEF ExceptionBefore
  <2>4. ASSUME NEW i \in 1..Len(queue') + 1, WholeAt(i + 1) PROVE WholeAt(i)'
    BY <1>1, <1>2, <1>3, <2>4 DEF WholeAt
  <2>5. ASSUME NEW i \in 1..Len(queue'), queue'[i] = End PROVE ExceptionBefore(i)' \/ WholeAt(i)'
    <3>1. i + 1 \in 1..Len(queue) /\ queue[i + 1] = End /\ i \in 1..Len(queue') + 1
      BY <1>2, <2>5
    <3>2. ExceptionBefore(i + 1) \/ WholeAt(i + 1)
      BY <1>3, <2>1, <3>1 DEF StopInOrder
    <3> QED BY <2>3, <2>4, <3>1, <3>2
  <2>6. Len(queue') + 1 \in 1..Len(queue') + 1 /\ (Len(queue') + 1) + 1 = Len(queue) + 1
    BY <1>2
  <2>7. ASSUME ExceptionBefore(Len(queue) + 1) PROVE ExceptionBefore(Len(queue) + 1)'
    BY <2>3, <2>6, <2>7 DEF ExceptionBefore
  <2>8. ASSUME WholeAt(Len(queue) + 1) PROVE WholeAt(Len(queue) + 1)'
    BY <1>1, <1>2, <1>3, <2>8 DEF WholeAt
  <2>9. worker = "put" /\ item = End /\ put # "delivered"
              => ExceptionBefore(Len(queue) + 1) \/ WholeAt(Len(queue) + 1)
    BY <1>3, <2>1 DEF StopInOrder
  <2>10. worker = "put" /\ item = Exception /\ put = "delivered" => ExceptionBefore(Len(queue) + 1)
    BY <1>3, <2>1 DEF StopInOrder
  <2> QED BY <2>2, <2>5, <2>7, <2>8, <2>9, <2>10
<1>6. Clean' /\ out' = End => reply = "complete" /\ Len(received) = NumItems
  <2> SUFFICES ASSUME Clean', out' = End PROVE reply = "complete" /\ Len(received) = NumItems
    OBVIOUS
  <2>1. 1 \in 1..Len(queue) /\ queue[1] = End /\ StopInOrder /\ Clean
    BY <1>2, <1>4 DEF WholeInv
  <2>2. ExceptionBefore(1) \/ WholeAt(1)
    BY <1>3, <2>1 DEF StopInOrder
  <2>3. ~ExceptionBefore(1)
    BY DEF ExceptionBefore
  <2> QED BY <1>3, <2>2, <2>3 DEF WholeAt
<1> QED BY <1>1, <1>5, <1>6 DEF WholeInv

LEMMA SentWhole == ASSUME StreamInv, WholeInv, Sent PROVE WholeInv'
<1>1. /\ consumer = "send" /\ received \in Seq(Event) /\ out \in Event
      /\ received' = Append(received, out)
      /\ UNCHANGED <<worker, item, put, generated, reply, queue, client>>
  BY DEF Sent, workerVars, StreamInv, TypeOK
<1>2. /\ Len(received') = Len(received) + 1 /\ Len(received) \in Nat
      /\ \A i \in 1..Len(received) : received'[i] = received[i]
      /\ received'[Len(received) + 1] = out
  BY <1>1, AppendProperties
<1>3. CASE out \in Chunk
  <2>1. consumer' = "get" /\ cancel' = cancel
    BY <1>3 DEF Sent
  <2>2. Passing /\ Passing' /\ Taken' = Taken
    BY <1>1, <1>2, <1>3, <2>1 DEF Passing, Taken
  <2>3. Clean' => Clean
    <3>1. Clean' => \A i \in 1..Len(received) : received[i] \notin Notices
      BY <1>2 DEF Clean
    <3> QED BY <1>1, <1>3, <3>1 DEF Clean
  <2> QED BY <1>1, <2>1, <2>2, <2>3 DEF WholeInv, StopInOrder, ExceptionBefore, WholeAt
<1>4. CASE out \in Notices
  <2>1. Len(received) + 1 \in 1..Len(received') /\ received'[Len(received) + 1] \in Notices
    BY <1>2, <1>4
  <2>2. ~Clean'
    BY <2>1 DEF Clean
  <2> QED BY <1>1, <2>2, NotClean
<1>5. CASE out = End
  <2>1. consumer' = "closed"
    BY <1>5 DEF Sent
  <2> QED BY <1>1, <2>1, NotClean DEF Clean
<1> QED BY <1>1, <1>3, <1>4, <1>5

LEMMA OtherWhole ==
    ASSUME StreamInv, WholeInv, GetTimesOut \/ Abandon \/ WatchDisconnect \/ Client \/ UNCHANGED vars
    PROVE  WholeInv'
<1>1. CASE GetTimesOut \/ Abandon \/ WatchDisconnect \/ Client
  <2>1. UNCHANGED <<worker, item, reply>>
    BY <1>1 DEF GetTimesOut, Abandon, WatchDisconnect, Client, workerVars
  <2>2. ~Clean'
    <3>1. CASE GetTimesOut
      BY <3>1 DEF GetTimesOut, Send, Clean
    <3>2. CASE Abandon
      BY <3>2 DEF Abandon, Clean
    <3>3. CASE WatchDisconnect
      BY <3>3 DEF WatchDisconnect, Clean
    <3>4. CASE Client
      BY <3>4 DEF Client, Clean
    <3> QED BY <1>1, <3>1, <3>2, <3>3, <3>4
  <2> QED BY <2>1, <2>2, NotClean
<1>2. CASE UNCHANGED vars
  <2>1. UNCHANGED <<worker, item, put, reply, queue, cancel, consumer, out, received, client>>
    BY <1>2 DEF vars
  <2> QED BY <2>1 DEF WholeInv, StopInOrder, ExceptionBefore, WholeAt, Clean, Passing, Taken
<1> QED BY <1>1, <1>2

LEMMA StepWhole == StreamInv /\ WholeInv /\ [Next]_vars => WholeInv'
BY GenerateWhole, GeneratorEndsWhole, PutWhole, PutScheduledWhole, DeliverWhole, GetWhole,
   SentWhole, OtherWhole DEF Next, WorkerStep, LoopStep

LEMMA ClosingIsWhole ==
    ASSUME StreamInv, WholeInv, [Next]_vars,
           consumer = "send", consumer' = "closed", client = "reading",
           \A i \in 1..Len(received) : received[i] \notin Notices
    PROVE  reply = "complete" /\ Len(received) = NumItems
<1>1. Sent
  BY DEF Next, WorkerStep, LoopStep, Generate, GeneratorEnds, PutRefused, PutScheduled, PutDone,
         PutTimesOut, Deliver, Get, Send, GetTimesOut, Abandon, WatchDisconnect, Client, vars,
         consumerVars
<1>2. out = End
  BY <1>1 DEF Sent
<1>3. Clean
  BY <1>2 DEF Clean
<1> QED BY <1>2, <1>3 DEF WholeInv

\* A client that has never stalled and got no notice is given the stop only after the
\* whole answer (rag_executor.py:185-193, 221-278).
THEOREM NeverCutSilently == Spec => NotCutSilently
<1>1. Spec => []WholeInv
  BY InitWhole, StepWhole, StreamInvariant, PTL DEF Spec
<1>2. StreamInv /\ WholeInv /\ [Next]_vars =>
        [/\ consumer = "send" /\ consumer' = "closed" /\ client = "reading"
         /\ \A i \in 1..Len(received) : received[i] \notin Notices
         => reply = "complete" /\ Len(received) = NumItems]_vars
  BY ClosingIsWhole
<1> QED BY <1>1, <1>2, StreamInvariant, PTL DEF Spec, NotCutSilently
=============================================================================
