------------------------------ MODULE RagStream ------------------------------
(***************************************************************************)
(* One streamed answer, web/rag_executor.py: a worker thread runs the      *)
(* generator and hands its chunks through a bounded asyncio.Queue to the   *)
(* response, which sends them to the client.  Worker, event loop, watcher  *)
(* and client interleave freely.                                           *)
(*                                                                         *)
(* Time.  Both time-outs last STREAM_TIMEOUT_SECONDS.  queue.get() can     *)
(* only reach it while the queue is empty; a put only while the queue is   *)
(* full, which takes a client that has stopped reading that long or left.  *)
(* The generator ends by itself: its HTTP request has a time-out.          *)
(***************************************************************************)
EXTENDS Integers, Sequences

CONSTANTS
    NumItems,       \* the number of chunks of the whole answer
    QueueSize       \* maxsize of the queue

ASSUME StreamAssumption ==
    NumItems \in Nat /\ QueueSize \in Nat \ {0}

VARIABLES
    worker,     \* where _run is: in the generator, in _put, or done
    item,       \* the item in _put
    put,        \* the coroutine queue.put(item): none, pending or delivered
    generated,  \* chunks the generator has yielded
    reply,      \* how it ended
    queue,
    cancel,     \* cancel_event
    consumer,   \* the response: waiting in queue.get(), sending, or closed
    out,        \* what it is sending
    received,   \* what the client has got
    client      \* reading, stalled, back from a stall, or gone

vars == <<worker, item, put, generated, reply, queue, cancel, consumer, out, received, client>>
workerVars == <<worker, item, put, generated, reply>>
consumerVars == <<consumer, out, received>>

\* Items and the events they become: a chunk is its number, End is None and the
\* "stop" event, Exception an exception and its notice, TimedOut a notice only.
Chunk == 1..NumItems
End == 0
Exception == -1
TimedOut == -2
Item == Chunk \cup {End, Exception}
Notices == {Exception, TimedOut}
Event == Item \cup {TimedOut}

Init ==
    /\ worker = "generator" /\ item = End /\ put = "none"
    /\ generated = 0 /\ reply = "none"
    /\ queue = <<>> /\ cancel = FALSE
    /\ consumer = "get" /\ out = End /\ received = <<>>
    /\ client = "reading"
-----------------------------------------------------------------------------
(* The worker thread.                                                      *)

HandOver(i) == worker' = "put" /\ item' = i

\* The generator yields its next chunk, unless it sees the cancellation.
Generate ==
    /\ worker = "generator" /\ generated < NumItems /\ ~cancel
    /\ generated' = generated + 1
    /\ HandOver(generated + 1)
    /\ UNCHANGED <<put, reply, queue, cancel, consumerVars, client>>

GeneratorEnds ==
    /\ worker = "generator"
    /\ \/ generated = NumItems /\ reply' = "complete" /\ HandOver(End)
       \/ cancel /\ reply' = "cancelled" /\ HandOver(End)
       \/ reply' = "failed" /\ HandOver(Exception)
    /\ UNCHANGED <<put, generated, queue, cancel, consumerVars, client>>

\* Mutant: the worker goes on whatever became of the chunk.
PutGoesOn(delivered) ==
    /\ put' = "none"
    /\ IF item \in Chunk THEN worker' = "generator" /\ UNCHANGED item
       ELSE IF item = Exception THEN HandOver(End)
       ELSE worker' = "done" /\ UNCHANGED item

\* What _run does when _put(item) returns: None is put last, in any case.
PutReturns(delivered) ==
    /\ put' = "none"
    /\ IF item \in Chunk /\ delivered THEN worker' = "generator" /\ UNCHANGED item
       ELSE IF item # End THEN HandOver(End)
       ELSE worker' = "done" /\ UNCHANGED item

PutRefused ==
    /\ worker = "put" /\ put = "none" /\ cancel
    /\ PutReturns(FALSE)
    /\ UNCHANGED <<generated, reply, queue, cancel, consumerVars, client>>

PutScheduled ==
    /\ worker = "put" /\ put = "none" /\ ~cancel
    /\ put' = "pending"
    /\ UNCHANGED <<worker, item, generated, reply, queue, cancel, consumerVars, client>>

PutDone ==
    /\ put = "delivered"
    /\ PutReturns(TRUE)
    /\ UNCHANGED <<generated, reply, queue, cancel, consumerVars, client>>

\* Mutant: only an item already delivered is given up.
PutWaits ==
    /\ client # "reading" /\ put = "delivered"
    /\ PutReturns(FALSE)
    /\ UNCHANGED <<generated, reply, queue, cancel, consumerVars, client>>

\* delivery.result() times out and the coroutine is cancelled, which comes too
\* late for an item that has just got into the queue.
PutTimesOut ==
    /\ client # "reading"
    /\ put = "delivered" \/ (put = "pending" /\ Len(queue) = QueueSize)
    /\ PutReturns(FALSE)
    /\ UNCHANGED <<generated, reply, queue, cancel, consumerVars, client>>
-----------------------------------------------------------------------------
(* The event loop.                                                         *)

\* Mutant: the queue has no bound.
DeliverNow ==
    /\ put = "pending"
    /\ queue' = Append(queue, item) /\ put' = "delivered"
    /\ UNCHANGED <<worker, item, generated, reply, cancel, consumerVars, client>>

Deliver ==
    /\ put = "pending" /\ Len(queue) < QueueSize
    /\ queue' = Append(queue, item) /\ put' = "delivered"
    /\ UNCHANGED <<worker, item, generated, reply, cancel, consumerVars, client>>

Send(x) == consumer' = "send" /\ out' = x /\ UNCHANGED received

\* Mutant: an exception ends the stream like None.
GetSilently ==
    /\ consumer = "get" /\ queue # <<>>
    /\ queue' = Tail(queue)
    /\ Send(IF Head(queue) = Exception THEN End ELSE Head(queue))
    /\ cancel' = (cancel \/ Head(queue) \notin Chunk)
    /\ UNCHANGED <<workerVars, client>>

\* _stream_queue_events; the event None leads on to the last lines of rag_stream_response.
Get ==
    /\ consumer = "get" /\ queue # <<>>
    /\ queue' = Tail(queue)
    /\ Send(Head(queue))
    /\ cancel' = (cancel \/ Head(queue) = End)
    /\ UNCHANGED <<workerVars, client>>

\* Mutant: a time-out of queue.get() is ignored.
GetAgain ==
    /\ consumer = "get" /\ queue = <<>>
    /\ UNCHANGED vars

GetTimesOut ==
    /\ consumer = "get" /\ queue = <<>>
    /\ cancel' = TRUE /\ Send(TimedOut)
    /\ UNCHANGED <<workerVars, queue, client>>

\* The client takes what is sent; a notice is followed by the stop.
Sent ==
    /\ consumer = "send" /\ client \in {"reading", "back"}
    /\ received' = Append(received, out)
    /\ \/ out \in Chunk /\ consumer' = "get" /\ UNCHANGED <<out, cancel>>
       \/ out \in Notices /\ out' = End /\ cancel' = TRUE /\ UNCHANGED consumer
       \/ out = End /\ consumer' = "closed" /\ UNCHANGED <<out, cancel>>
    /\ UNCHANGED <<workerVars, queue, client>>

\* The server closes the generator of a client that left: the finally clause.
Abandon ==
    /\ consumer # "closed" /\ client = "gone"
    /\ consumer' = "closed" /\ cancel' = TRUE
    /\ UNCHANGED <<workerVars, queue, out, received, client>>

WatchDisconnect ==
    /\ consumer # "closed" /\ client = "gone" /\ ~cancel
    /\ cancel' = TRUE
    /\ UNCHANGED <<workerVars, queue, consumerVars, client>>
-----------------------------------------------------------------------------
\* The client stops reading, goes on, or disconnects.
Client ==
    /\ client # "gone"
    /\ \/ client' \in {"stalled", "gone"} /\ client' # client
       \/ client = "stalled" /\ client' = "back"
    /\ UNCHANGED <<workerVars, queue, cancel, consumerVars>>

WorkerStep ==
    \/ Generate \/ GeneratorEnds \/ PutRefused \/ PutScheduled \/ PutDone \/ PutTimesOut
LoopStep == Deliver \/ Get \/ GetTimesOut \/ Sent \/ Abandon \/ WatchDisconnect

Next == WorkerStep \/ LoopStep \/ Client
Spec == Init /\ [][Next]_vars

\* The thread and the loop run; nothing is assumed of the client.
FairSpec == Spec /\ WF_vars(WorkerStep) /\ WF_vars(LoopStep)
-----------------------------------------------------------------------------
(* Properties.                                                             *)

\* The variables hold values the program's own can (rag_executor.py:155-278).
TypeOK ==
    /\ worker \in {"generator", "put", "done"} /\ item \in Item
    /\ put \in {"none", "pending", "delivered"}
    /\ generated \in 0..NumItems
    /\ reply \in {"none", "complete", "cancelled", "failed"}
    /\ queue \in Seq(Item) /\ Len(queue) <= QueueSize
    /\ cancel \in BOOLEAN
    /\ consumer \in {"get", "send", "closed"} /\ out \in Event
    /\ received \in Seq(Event)
    /\ client \in {"reading", "stalled", "back", "gone"}

\* The client gets the chunks in order, none twice and none left out, whatever
\* was dropped, cancelled or timed out between the thread and the loop.
NoGap == \A i \in 1..Len(received) : received[i] \in Chunk => received[i] = i

\* An answer that ends like a finished one is whole: it stops without a notice only
\* after the generator has completed and every chunk has been sent.  A client that
\* has stalled, and goes on after a put was given up, is the one exception
\* (rag_executor.py:221-278).
NotCutSilently ==
    [][/\ consumer = "send" /\ consumer' = "closed" /\ client = "reading"
       /\ \A i \in 1..Len(received) : received[i] \notin Notices
       => reply = "complete" /\ Len(received) = NumItems]_vars

\* "A consumer that stops reading must not strand the worker on a full queue"
\* (tests/test_api_server.py:235): the worker ends whatever the client does.
WorkerEnds == <>(worker = "done")

\* The response ends too, as long as its client does not stop reading for ever.
StreamEnds == []<>(consumer = "closed" \/ client = "stalled")
-----------------------------------------------------------------------------
(***************************************************************************)
(* The inductive invariant behind NoGap.  While the response is still      *)
(* passing on chunks, those sent, queued and being put are numbered        *)
(* without a gap; after a chunk was dropped the worker only puts None.     *)
(***************************************************************************)
Passing == consumer = "get" \/ (consumer = "send" /\ out \in Chunk)
Taken == Len(received) + (IF consumer = "send" THEN 1 ELSE 0)

QueueInOrder == Passing =>
    \A i \in 1..Len(queue) : queue[i] \in Chunk => queue[i] = Taken + i
WorkerInOrder ==
    /\ put # "none" => worker = "put"
    /\ worker = "put" /\ item \in Chunk => item = generated
    /\ Passing /\ worker = "put" /\ item \in Chunk /\ put # "delivered"
          => item = Taken + Len(queue) + 1
    /\ Passing /\ (worker = "generator" \/ (item \in Chunk /\ put = "delivered"))
          => generated = Taken + Len(queue)

StreamInv ==
    /\ TypeOK /\ NoGap
    /\ consumer = "send" /\ out \in Chunk => out = Len(received) + 1
    /\ QueueInOrder /\ WorkerInOrder

(***************************************************************************)
(* And behind NotCutSilently.  While the client reads and no notice is on  *)
(* its way, nothing was given up: the stop, queued or being put, comes     *)
(* after the whole answer or after an exception.                           *)
(***************************************************************************)
Clean ==
    /\ client = "reading" /\ consumer # "closed"
    /\ \A i \in 1..Len(received) : received[i] \notin Notices
    /\ ~(consumer = "send" /\ out \in Notices)

ExceptionBefore(n) == \E j \in 1..n - 1 : queue[j] = Exception
WholeAt(n) == reply = "complete" /\ Taken + n - 1 = NumItems

StopInOrder == Clean /\ Passing =>
    /\ ~cancel
    /\ \A i \in 1..Len(queue) : queue[i] = End => ExceptionBefore(i) \/ WholeAt(i)
    /\ worker = "put" /\ item = End /\ put # "delivered"
          => ExceptionBefore(Len(queue) + 1) \/ WholeAt(Len(queue) + 1)
    /\ worker = "put" /\ item = Exception /\ put = "delivered" => ExceptionBefore(Len(queue) + 1)

WholeInv ==
    /\ worker = "generator" \/ (worker = "put" /\ item \in Chunk) => reply = "none"
    /\ StopInOrder
    /\ Clean /\ consumer = "send" /\ out = End => reply = "complete" /\ Len(received) = NumItems
=============================================================================
