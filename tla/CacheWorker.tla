---------------------------- MODULE CacheWorker ----------------------------
(***************************************************************************)
(* The consumer side of the cache service: consume_loop reads Kafka        *)
(* records, turns them into Redis operations and puts them on a bounded    *)
(* asyncio queue; redis_batch_worker takes them off, writes them to Redis  *)
(* in batches and then commits.  commit() carries no offsets: aiokafka     *)
(* commits the position of the consumer, wherever the worker has got to.   *)
(*                                                                         *)
(* Both coroutines run on one event loop, so whatever lies between two     *)
(* awaits is one step.  A get() on a queue that is not empty does not      *)
(* suspend the worker; the model lets the consumer move there all the      *)
(* same, which only adds interleavings.  An operation is identified by the *)
(* partition and the index (from 1) of the record it was parsed from.      *)
(***************************************************************************)
EXTENDS Integers, Sequences, FiniteSets, Functions

CONSTANTS Partitions,   \* partitions of the topics the service subscribes to
          QueueMax,     \* redis_queue_max_size
          BatchSize,    \* redis_write_batch_size
          ConsumeFrom,  \* cache_consume_from: auto_offset_reset of the consumer
          MaxLog,       \* bound: records per partition
          MaxRuns       \* bound: times the process is started

ASSUME CacheAssumption ==
    /\ QueueMax \in Nat \ {0}     \* asyncio.Queue(0) would be unbounded
    /\ BatchSize \in Nat \ {0}
    /\ ConsumeFrom \in {"latest", "earliest"}
    /\ MaxLog \in Nat
    /\ MaxRuns \in Nat \ {0}

\* What handling a record comes to: an operation, nothing (parse_message
\* returns None), or an exception of the deserializer or of parse_message.
Kinds == {"op", "skip", "bad"}

NoCommit == -1

Ops == [partition : Partitions, index : 1..MaxLog]

VARIABLES
    log,        \* the records of each partition, as their Kinds
    committed,  \* offset the broker holds for the group, or NoCommit
    store,      \* operations Redis has executed
    proc,       \* the service process: "up", "stopping" (lifespan exit), "down"
    runs,       \* times the process was started
    ready,      \* app.state.ready_event
    consumer,   \* consume_loop: where it is suspended
    position,   \* next offset the Kafka client returns
    origin,     \* where this run started to read (history)
    queue,      \* the asyncio queue
    putting,    \* the operation queue.put() is suspended with
    worker,     \* redis_batch_worker: where it is suspended
    batch,      \* its local batch
    executed,   \* operations of the pipeline in flight that Redis has executed
    snapshot,   \* positions the commit in flight carries
    dropped     \* operations of the batch a failed final flush dropped (history)

broker  == <<log, committed>>
process == <<proc, runs>>
intake  == <<consumer, position, origin, putting, ready>>
flusher == <<worker, batch, executed, snapshot, dropped>>
vars    == <<broker, store, process, intake, queue, flusher>>

Offsets == [Partitions -> 0..MaxLog]

ConsumerStates == {"starting", "iter", "put", "closing", "over"}
WorkerStates   == {"none", "get", "wait", "apply", "sleep", "commit",
                   "final", "finalCommit", "done", "cancelled"}

TypeOK ==
    /\ log \in [Partitions -> Seq(Kinds)]
    /\ \A p \in Partitions : Len(log[p]) <= MaxLog
    /\ committed \in [Partitions -> NoCommit..MaxLog]
    /\ store \in SUBSET Ops
    /\ proc \in {"up", "stopping", "down"}
    /\ runs \in 1..MaxRuns
    /\ ready \in BOOLEAN
    /\ consumer \in ConsumerStates
    /\ position \in Offsets
    /\ origin \in Offsets
    /\ queue \in Seq(Ops) /\ Len(queue) <= QueueMax
    /\ putting \in Seq(Ops) /\ Len(putting) <= 1
    /\ worker \in WorkerStates
    /\ batch \in Seq(Ops)
    /\ executed \in Nat
    /\ snapshot \in Offsets
    /\ dropped \in SUBSET Ops

Init ==
    /\ log = [p \in Partitions |-> <<>>]
    /\ committed = [p \in Partitions |-> NoCommit]
    /\ store = {}
    /\ proc = "up"
    /\ runs = 1
    /\ ready = FALSE
    /\ consumer = "starting"
    /\ position = [p \in Partitions |-> 0]
    /\ origin = [p \in Partitions |-> 0]
    /\ queue = <<>>
    /\ putting = <<>>
    /\ worker = "none"
    /\ batch = <<>>
    /\ executed = 0
    /\ snapshot = [p \in Partitions |-> 0]
    /\ dropped = {}

-----------------------------------------------------------------------------
(* The Kafka side: the stream jobs append metric records. *)

Produce(p, kind) ==
    /\ Len(log[p]) < MaxLog
    /\ log' = [log EXCEPT ![p] = Append(@, kind)]
    /\ UNCHANGED <<committed, store, process, intake, queue, flusher>>

-----------------------------------------------------------------------------
(* consume_loop *)

\* stop_event: set by the finally block, as the loop starts to close.
StopSet == consumer \in {"closing", "over"}

\* Mutant of StartConsumer: reads from the beginning, whatever was committed.
StartFromZero ==
    /\ consumer = "starting"
    /\ position' = [p \in Partitions |-> 0]
    /\ origin' = position'
    /\ consumer' = "iter"
    /\ worker' = "wait"
    /\ UNCHANGED <<broker, store, process, putting, ready, queue, batch,
                   executed, snapshot, dropped>>

\* start_consumer_with_retries succeeds: the client resumes from the group's
\* offsets, or as auto_offset_reset says, and the worker task is created.
StartConsumer ==
    /\ consumer = "starting"
    /\ position' = [p \in Partitions |->
                      IF committed[p] # NoCommit THEN committed[p]
                      ELSE IF ConsumeFrom = "latest" THEN Len(log[p]) ELSE 0]
    /\ origin' = position'
    /\ consumer' = "iter"
    /\ worker' = "wait"
    /\ UNCHANGED <<broker, store, process, putting, ready, queue, batch,
                   executed, snapshot, dropped>>

\* The seventh attempt fails: RuntimeError ends the task, the worker never runs.
StartGivesUp ==
    /\ consumer = "starting"
    /\ consumer' = "over"
    /\ UNCHANGED <<broker, store, process, position, origin, putting, ready,
                   queue, flusher>>

CanFetch(p) == consumer = "iter" /\ position[p] < Len(log[p])

Advance(p) == [position EXCEPT ![p] = @ + 1]

NextOp(p) == [partition |-> p, index |-> position[p] + 1]

FetchSkip(p) ==
    /\ CanFetch(p)
    /\ log[p][position[p] + 1] = "skip"
    /\ position' = Advance(p)
    /\ ready' = TRUE
    /\ UNCHANGED <<broker, store, process, consumer, origin, putting, queue,
                   flusher>>

\* Mutant of FetchOp: the queue has no bound.
FetchOpUnbounded(p) ==
    /\ CanFetch(p)
    /\ log[p][position[p] + 1] = "op"
    /\ position' = Advance(p)
    /\ queue' = Append(queue, NextOp(p))
    /\ ready' = TRUE
    /\ UNCHANGED <<broker, store, process, consumer, origin, putting, flusher>>

\* There is room: put() returns at once.
FetchOp(p) ==
    /\ CanFetch(p)
    /\ log[p][position[p] + 1] = "op"
    /\ Len(queue) < QueueMax
    /\ position' = Advance(p)
    /\ queue' = Append(queue, NextOp(p))
    /\ ready' = TRUE
    /\ UNCHANGED <<broker, store, process, consumer, origin, putting, flusher>>

\* The queue is full: put() suspends with the operation.
FetchOpBlocks(p) ==
    /\ CanFetch(p)
    /\ log[p][position[p] + 1] = "op"
    /\ Len(queue) >= QueueMax
    /\ position' = Advance(p)
    /\ putting' = <<NextOp(p)>>
    /\ consumer' = "put"
    /\ UNCHANGED <<broker, store, process, origin, ready, queue, flusher>>

\* An exception leaves the loop: from the deserializer the client has not
\* moved on, from parse_message it has.
FetchBad(p) ==
    /\ CanFetch(p)
    /\ log[p][position[p] + 1] = "bad"
    /\ position' \in {position, Advance(p)}
    /\ consumer' = "closing"
    /\ UNCHANGED <<broker, store, process, origin, putting, ready, queue,
                   flusher>>

PutReturns ==
    /\ consumer = "put"
    /\ Len(queue) < QueueMax
    /\ queue' = queue \o putting
    /\ putting' = <<>>
    /\ consumer' = "iter"
    /\ ready' = TRUE
    /\ UNCHANGED <<broker, store, process, position, origin, flusher>>

\* finally: the worker has returned, the client is stopped.
ConsumerCloses ==
    /\ consumer = "closing"
    /\ worker = "done"
    /\ consumer' = "over"
    /\ UNCHANGED <<broker, store, process, position, origin, putting, ready,
                   queue, flusher>>

-----------------------------------------------------------------------------
(* redis_batch_worker *)

\* Mutant of LoopHead: "while not stop", which leaves what is still queued.
LoopHeadNoDrain(q, b) ==
    IF StopSet THEN IF b # <<>> THEN "final" ELSE "done"
    ELSE IF q # <<>> THEN "get" ELSE "wait"

\* The head of the while loop, and what follows it up to the next await: a
\* get() that is served at once, one that waits, the final flush, or return.
LoopHead(q, b) ==
    IF q # <<>> THEN "get"
    ELSE IF ~StopSet THEN "wait"
    ELSE IF b # <<>> THEN "final" ELSE "done"

\* get() returns and the batch is not due.
GetNoFlush ==
    /\ worker \in {"get", "wait"}
    /\ queue # <<>>
    /\ Len(batch) + 1 < BatchSize
    /\ batch' = Append(batch, Head(queue))
    /\ queue' = Tail(queue)
    /\ worker' = LoopHead(queue', batch')
    /\ UNCHANGED <<broker, store, process, intake, executed, snapshot, dropped>>

\* get() returns and the batch is due, by its size or by the time elapsed.
GetFlush ==
    /\ worker \in {"get", "wait"}
    /\ queue # <<>>
    /\ batch' = Append(batch, Head(queue))
    /\ queue' = Tail(queue)
    /\ worker' = "apply"
    /\ UNCHANGED <<broker, store, process, intake, executed, snapshot, dropped>>

\* Mutant of GetTimeout: a batch is flushed for its size only.
GetTimeoutNoFlush ==
    /\ worker = "wait"
    /\ worker' = LoopHead(queue, batch)
    /\ UNCHANGED <<broker, store, process, intake, queue, batch, executed,
                   snapshot, dropped>>

\* wait_for times out, which it may even as an item arrives (the item stays in
\* the queue); a whole interval has passed, so a batch is due by time.
GetTimeout ==
    /\ worker = "wait"
    /\ worker' = IF batch # <<>> THEN "apply" ELSE LoopHead(queue, batch)
    /\ UNCHANGED <<broker, store, process, intake, queue, batch, executed,
                   snapshot, dropped>>

\* Redis executes the pipeline in order, one operation after the other.
RedisExecutes ==
    /\ worker \in {"apply", "final"}
    /\ executed < Len(batch)
    /\ store' = store \cup {batch[executed + 1]}
    /\ executed' = executed + 1
    /\ UNCHANGED <<broker, process, intake, queue, worker, batch, snapshot,
                   dropped>>

\* Mutant of ApplyOk: the pipeline is not awaited.
ApplyNotAwaited ==
    /\ worker = "apply"
    /\ executed' = 0
    /\ snapshot' = position
    /\ worker' = "commit"
    /\ UNCHANGED <<broker, store, process, intake, queue, batch, dropped>>

\* pipeline_apply returns; commit() takes the positions of this moment.
ApplyOk ==
    /\ worker = "apply"
    /\ executed = Len(batch)
    /\ executed' = 0
    /\ snapshot' = position
    /\ worker' = "commit"
    /\ UNCHANGED <<broker, store, process, intake, queue, batch, dropped>>

\* Mutants of ApplyFails: the batch is dropped; it goes back to the queue; the
\* error path commits.
ApplyFailsDrops ==
    /\ worker = "apply"
    /\ executed' = 0
    /\ batch' = <<>>
    /\ worker' = "sleep"
    /\ UNCHANGED <<broker, store, process, intake, queue, snapshot, dropped>>

ApplyFailsRequeues ==
    /\ worker = "apply"
    /\ executed' = 0
    /\ queue' = queue \o batch
    /\ batch' = <<>>
    /\ worker' = "sleep"
    /\ UNCHANGED <<broker, store, process, intake, snapshot, dropped>>

ApplyFailsCommits ==
    /\ worker = "apply"
    /\ executed' = 0
    /\ snapshot' = position
    /\ worker' = "commit"
    /\ UNCHANGED <<broker, store, process, intake, queue, batch, dropped>>

\* pipeline_apply raises, whatever part of the pipeline was executed.
ApplyFails ==
    /\ worker = "apply"
    /\ executed' = 0
    /\ worker' = "sleep"
    /\ UNCHANGED <<broker, store, process, intake, queue, batch, snapshot,
                   dropped>>

\* Mutant of RetryDelayOver: the flush is retried until Redis takes it.
RetryForever ==
    /\ worker = "sleep"
    /\ worker' = "apply"
    /\ UNCHANGED <<broker, store, process, intake, queue, batch, executed,
                   snapshot, dropped>>

\* sleep(0.2) is over: "continue" goes back to the loop head, not to the flush.
RetryDelayOver ==
    /\ worker = "sleep"
    /\ worker' = LoopHead(queue, batch)
    /\ UNCHANGED <<broker, store, process, intake, queue, batch, executed,
                   snapshot, dropped>>

\* The broker executes the commit request; the answer may still be lost.
BrokerCommits ==
    /\ worker \in {"commit", "finalCommit"}
    /\ committed # snapshot
    /\ committed' = snapshot
    /\ UNCHANGED <<log, store, process, intake, queue, flusher>>

\* commit() returns or raises: the worker goes on in the same way.
CommitReturns ==
    /\ worker = "commit"
    /\ batch' = <<>>
    /\ worker' = LoopHead(queue, batch')
    /\ UNCHANGED <<broker, store, process, intake, queue, executed, snapshot,
                   dropped>>

FinalOk ==
    /\ worker = "final"
    /\ executed = Len(batch)
    /\ executed' = 0
    /\ snapshot' = position
    /\ worker' = "finalCommit"
    /\ UNCHANGED <<broker, store, process, intake, queue, batch, dropped>>

\* The final flush is not retried: the batch is dropped.
FinalFails ==
    /\ worker = "final"
    /\ dropped' = Range(batch)
    /\ batch' = <<>>
    /\ executed' = 0
    /\ worker' = "done"
    /\ UNCHANGED <<broker, store, process, intake, queue, snapshot>>

FinalCommitReturns ==
    /\ worker = "finalCommit"
    /\ worker' = "done"
    /\ UNCHANGED <<broker, store, process, intake, queue, batch, executed,
                   snapshot, dropped>>

-----------------------------------------------------------------------------
(* The process: lifespan exit, crash, restart *)

\* lifespan cancels the consumer task, wherever it is suspended.
CancelStarting ==
    /\ consumer = "starting"
    /\ consumer' = "over"
    /\ UNCHANGED <<putting, worker, executed>>

\* In the loop: the operation a suspended put() holds is gone; then finally.
CancelLoop ==
    /\ consumer \in {"iter", "put"}
    /\ consumer' = "closing"
    /\ putting' = <<>>
    /\ UNCHANGED <<worker, executed>>

\* After a fatal error, awaiting the worker: the cancellation reaches it.
CancelClosing ==
    /\ consumer = "closing"
    /\ consumer' = "over"
    /\ worker' = IF worker = "done" THEN "done" ELSE "cancelled"
    /\ executed' = 0
    /\ UNCHANGED putting

CancelFinished ==
    /\ consumer = "over"
    /\ UNCHANGED <<consumer, putting, worker, executed>>

Shutdown ==
    /\ proc = "up"
    /\ proc' = "stopping"
    /\ CancelStarting \/ CancelLoop \/ CancelClosing \/ CancelFinished
    /\ UNCHANGED <<broker, store, runs, position, origin, ready, queue, batch,
                   snapshot, dropped>>

\* The memory of the process goes with it.
Vanish ==
    /\ proc' = "down"
    /\ ready' = FALSE
    /\ consumer' = "over"
    /\ putting' = <<>>
    /\ queue' = <<>>
    /\ worker' = "none"
    /\ batch' = <<>>
    /\ executed' = 0
    /\ dropped' = {}
    /\ UNCHANGED <<broker, store, runs, position, origin, snapshot>>

\* The awaited consumer task is over: redis.close(), and the process ends.
Exit == proc = "stopping" /\ consumer = "over" /\ Vanish

Crash == proc # "down" /\ Vanish

\* A new process has reached Redis and created the consumer task.
Restart ==
    /\ proc = "down"
    /\ runs < MaxRuns
    /\ proc' = "up"
    /\ runs' = runs + 1
    /\ consumer' = "starting"
    /\ UNCHANGED <<broker, store, position, origin, putting, ready, queue,
                   flusher>>

-----------------------------------------------------------------------------
ConsumerStep ==
    \/ StartConsumer
    \/ \E p \in Partitions : FetchSkip(p) \/ FetchOp(p) \/ FetchOpBlocks(p)
                             \/ FetchBad(p)
    \/ PutReturns
    \/ ConsumerCloses

WorkerStep ==
    \/ GetNoFlush \/ GetFlush \/ GetTimeout
    \/ RedisExecutes \/ ApplyOk \/ ApplyFails \/ RetryDelayOver
    \/ BrokerCommits \/ CommitReturns
    \/ FinalOk \/ FinalFails \/ FinalCommitReturns

Next ==
    \/ \E p \in Partitions, kind \in Kinds : Produce(p, kind)
    \/ ConsumerStep
    \/ StartGivesUp
    \/ WorkerStep
    \/ Shutdown \/ Exit \/ Crash \/ Restart

Spec == Init /\ [][Next]_vars

-----------------------------------------------------------------------------
(* Fairness: the event loop runs a coroutine that can go on; a call to     *)
(* Redis or Kafka returns or raises in the end.  Nothing makes Redis work: *)
(* ApplyFails may always be the outcome.                                   *)

FairSpec ==
    /\ Spec
    /\ WF_vars(ConsumerStep)
    /\ WF_vars(WorkerStep)
    /\ WF_vars(Exit)

-----------------------------------------------------------------------------
(* Properties *)

Consuming == consumer \in {"iter", "put"}

\* Operations among the records this run has read, and those still in hand.
Consumed ==
    {r \in Ops : /\ origin[r.partition] < r.index
                 /\ r.index <= position[r.partition]
                 /\ log[r.partition][r.index] = "op"}

InHand == Range(batch) \cup Range(queue) \cup Range(putting)

Unaccounted == Consumed \ (store \cup InHand)

CoveredBy(offsets) == {r \in Consumed : r.index <= offsets[r.partition]}

\* Until the consumer task is cancelled, every operation it has read is in Redis
\* or on its way there (queue, batch or suspended put), over any number of failed
\* and partly executed pipelines; the one exception is the batch the worker drops
\* when a fatal record ends the loop and the final flush then fails.  In a
\* cancelled task one more may be missing: the one its put() held.
NoSilentLoss ==
    /\ Consuming => Unaccounted = {}
    /\ consumer = "closing" /\ proc = "up" => Unaccounted \subseteq dropped
    /\ consumer = "closing" => \A r, s \in Unaccounted \ dropped : r = s

\* When the worker makes its final commit after a fatal error of the consumer,
\* all that was read is in Redis; after a cancellation all but one operation.
DrainedAtFinalCommit ==
    worker = "finalCommit" =>
        IF proc = "up" THEN Consumed \subseteq store
        ELSE Cardinality(Consumed \ store) <= 1

\* commit() covers records the worker has not written yet, but never more than
\* a full queue and one suspended put: what a crash can skip for good is
\* bounded by redis_queue_max_size + 1.
CommitSlack == Cardinality(CoveredBy(committed) \ store) <= QueueMax + 1

\* Of two operations of one partition the one in front was read first.
InOrder(s) ==
    \A i, j \in DOMAIN s :
        i < j /\ s[i].partition = s[j].partition => s[i].index < s[j].index

\* Batch, queue and suspended put hold operations in the order of the partition
\* and once each, whatever was retried: Redis sees windows in Kafka's order.
PartitionOrder == InOrder(batch \o queue \o putting)

\* The group's offsets never move back, though commits carry the position of the
\* moment they are sent, may be executed late or not at all, and every run starts
\* over from what the broker holds.
CommitMonotone == [][\A p \in Partitions : committed[p] <= committed'[p]]_vars

\* A cancelled consumer task comes to its end and the process exits, even with
\* Redis failing all the time: the retry loop ends with an empty queue.
ShutdownTerminates == (proc = "stopping") ~> (proc = "down")

\* If Redis stops failing, an operation read from Kafka gets to Redis unless
\* the consume loop ends before (crash, shutdown, fatal record).
EventuallyStored ==
    <>[][~ApplyFails]_vars =>
        \A r \in Ops : (Consuming /\ r \in Consumed) ~> (~Consuming \/ r \in store)

\* Queue, batch and suspended put together are one line of operations, stored
\* in order and retired only when stored: CacheWorker implements OpStream.
Phase == IF Consuming THEN "open"
         ELSE IF consumer = "closing" THEN "closing" ELSE "closed"

Line == IF Phase = "closed" THEN <<>> ELSE batch \o queue \o putting

Stream == INSTANCE OpStream WITH Op <- Ops, phase <- Phase, inflight <- Line

StreamSpec == Stream!Spec

-----------------------------------------------------------------------------
(* What the documentation says, and the code does not do *)

\* docs/modules/cache/README.md: offsets are committed only after successful Redis
\* writes.  So the commit a graceful shutdown ends with covers only what is written.
FinalCommitIsStored == worker = "finalCommit" => CoveredBy(snapshot) \subseteq store

\* docs/architecture/README.md: health checks guard readiness and liveness.  A
\* service that reports ready has a consumer that is not over.
ReadyMeansConsuming == proc = "up" /\ ready => consumer # "over"
=============================================================================
