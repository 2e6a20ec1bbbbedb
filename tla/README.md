# TLA+ verification of the real-time analytics pipeline

Specifications of the services in this repository, TLC configurations that
check them on small instances, and TLAPS proofs. `PROJECT.json` lists the
components, the runs, the source lines every definition stands for, the
hazards of the code, the findings and the theorems.

## The system

Events enter through the ingestion API, go to Kafka, are aggregated by Flink
SQL jobs into `event_metrics`, `session_metrics` and `performance_metrics`, and
these topics are read by two independent consumers: the cache service (Redis,
recent windows for the API) and the storage service (ClickHouse).

| Component | State it keeps | Operations | Talks to |
| --- | --- | --- | --- |
| Cache consumer (`cache/.../kafka/consumer.py`) | position of the client, suspended `put()`, `ready_event`, `stop_event` | start with retries, read a record, parse, `put()`, close | Kafka; the worker, through an `asyncio.Queue` |
| Redis batch worker (`kafka/worker.py`) | `batch`, `last_flush` | `get()` with timeout, flush, retry, commit, final flush | the queue, Redis, Kafka (commit) |
| Redis repository (`redis/repository.py`), `cache_service.py`, `metrics.py` | window hashes with TTL, one sorted index per type | pipelined writes, trim, lookups | Redis |
| Cache lifespan and health (`main.py`, `health.py`) | consumer task, `ready_event` | start, cancel, close; `/healthz`, `/readyz` | the consumer |
| Storage processor (`processor.py`, `kafka/consumer.py`, `clickhouse/client.py`) | client position, `buffers`, batches, tasks, attempts, `any_insert_failed` | poll, insert per topic, retry, commit, sleep | Kafka, ClickHouse |
| Storage signals (`storage/src/main.py`) | `shutdown_event`, `signalled` | first signal drains, second cancels | the processor |
| Ingestion (`track.py`, `producer.py`, lifespan) | per worker process: request in hand, local queue of the Kafka client, delivery reports | produce with retries, poll, flush, answer, stop | HTTP clients, Kafka |
| Topic creation (`admin.py`, `startup.py`) | results per topic | create all topics, ignore those that exist, log failures | Kafka |
| Start-up of the consumers (`topic_waiter.py`, `ClickHouseClient.__init__`, `start_consumer_with_retries`, `_ensure_topics`, `retry.py`) | attempt, delay, rounds | wait with bounded backoff, make the tables, start, give up or end | Kafka, Redis, ClickHouse, Docker's restarts |
| Stream jobs (`processing/src/jobs`, `event_source.py`, `job_coordinator.py`) | Flink's windows, offsets, watermark, checkpoints | filter, key, window, fire, restore | Kafka |

What is hard about it:

* The cache consumer reads ahead of the worker, and `commit()` covers the
  position of the reader, not what the worker has written.
* Cancellation, fatal records, crashes and Redis failures meet a coroutine at
  any of its awaits; retries repeat pipelines that were executed in part.
* The storage loop goes on after a failed cycle from a position it has not
  committed; commits are asynchronous; inserts run in threads that outlive a
  cancellation.
* Redis pipelines are not transactions; readers interleave with writer, trim
  and expiry.
* The ingestion service answers 202 before Kafka has the event, tries an event up
  to 200 times, and shares its topic with worker processes that know nothing of
  each other.
* Services start in any order: several processes create the same topics, others
  wait for them in a bounded number of rounds and go on, give up or are restarted, and
  the broker makes a topic for any client that uses one, with a number of partitions of
  its own.
* Timestamps come from the clients: events are late, partitions idle, sessions
  merge, and a restored job meets its own results.

What makes each component correct: while its consumer runs, the cache loses nothing it
has read; when it closes, what is lost is the batch of a final flush that failed, and
one operation at most if it was cancelled; a crash can skip what a commit has covered
before it was written, which is bounded. It writes each partition in order and comes
to an end when told to. Storage loses only rows whose loss it has decided on, and
inserts a row a bounded number of times. The index in Redis holds the newest windows,
each of them readable, and is bounded by the retention; a hash is bounded by its TTL
unless a crash came between its `hset` and its `expire` and no later batch writes it.
Ingestion accounts for every event it has accepted and sends none it has refused; every
request ends. Nobody polls topics it has not seen, unless its wait has failed, and
storage comes up in the end. A job drops an event only if it is behind its own
partition or that has been idle, counts no time of a tumbling window twice in one run,
and loses no event in a restart.

## Modules

| Module | Models |
| --- | --- |
| `CacheWorker` | cache consumer, batch worker, lifespan; crash and restart |
| `OpStream` | abstract: accepted operations form one line, stored in order, retired only when stored; a line that closes may give up what is left |
| `CacheWorkerProofs` | theorems about `CacheWorker` |
| `RedisWindows` | `pipeline_apply` command by command, trim, expiry, API lookups |
| `RedisProofs` | theorems about `RedisWindows` |
| `StorageProcessor` | storage loop, consumer, insert tasks, signals; crash and restart |
| `StorageProofs` | theorems about `StorageProcessor` |
| `IngestionProducer` | worker processes of the ingestion service, each with its Kafka client; crash and restart |
| `IngestionProofs` | theorems about `IngestionProducer` |
| `Startup` | topic creation, the waits of storage and cache, retries, restarts |
| `StartupProofs` | theorems about `Startup` |
| `StreamJobs` | the three SQL jobs as Flink runs them, with checkpoints and failures |
| `StreamProofs` | theorems about `StreamJobs` |
| `SetLemmas` | facts about minimum, maximum and finite sets that `RedisProofs` and `StreamProofs` use |
| `MC*` | the modules above for TLC: symmetry sets and values of constants |

Definitions such as `FetchOpUnbounded` or `TrimCountOffByOne`, introduced by a
comment "Mutant of", are wrong variants of the definition below them; they are
used only to see that a property fails when the code is wrong in that way.

### CacheWorker

Both coroutines run on one event loop, so a step is what lies between two
awaits; `consumer` and `worker` name the await each is suspended in. A record is
reduced to what handling it comes to: an operation, nothing, or an exception. An
operation is its partition and index. `LoopHead` is the head of the worker's
`while` and all the code up to its next await, so that `continue` after a failed
flush goes to `LoopHead`, as in the code, and not to another flush. Redis executes
the pipeline operation by operation (`RedisExecutes`) and may fail after any
(`ApplyFails`). A commit is a snapshot of the positions that the broker may or may
not execute before the call returns or raises. A final flush that raises drops its
batch (`FinalFails`); the history variable `dropped` says which operations those were.
`Shutdown` is the cancellation of
the consumer task, wherever it is; `Crash` loses all memory. The worker may wait
at a `get()` that the code would not suspend in: more interleavings, never fewer.

### RedisWindows

A step is one Redis command, because Redis runs one at a time and everything
else can happen in between. Operation *i* writes the value *i* to its field, so
a stale value is visible. A hash is `absent`, `eternal` (no TTL), `timed` or
`expired`; a `timed` hash may expire at any moment. One writer, as the service
runs one worker; the writer's batches and crashes are those of `CacheWorker`,
with any restart position. `cutoff` is history: the hashes that a crash has left to a
batch nobody goes on with. One request at a time: requests have no effect on
each other. `ids` and `found` are sets: window ids are their own scores, so `Newest`
(the members that fewer than `limit` others exceed) says what `ZREVRANGE` returns, and
the order of the list is that of the ids. Redis itself does not lose its memory.

### StorageProcessor

The poll, the insert (under the client's `RLock`) and the commit run in threads
the loop awaits; each is one step where it takes effect. A record is a row that
fits, a row no insert accepts, junk that is skipped, or poison that makes
`consume_batch` raise. `ConsumeRaises` covers error events and exceptions at any
place of the message list. A batch is a set: the order of the rows of one
`INSERT` means nothing, and no record comes twice to one process. `insert_rows` takes the
columns of its first row for all of them; whether ClickHouse then accepts them is decided
in the model by the presence of a row that does not fit, wherever it stands. `forsaken`, `dropped` and `lost` are history
variables: rows of failed cycles, rows of a poll behind the point where it raised,
and the number of inserts that were executed and raised all the same (`ReplyLost`;
at most `MaxLost`). The second signal cancels the tasks, but an insert that runs may still take place.
`storage_skip_sleep_if_full` is on, as by default.

### IngestionProducer

`send_event` never awaits (its delay is `time.sleep`), so a worker has one request
in hand and `step` says where it is in the loop: `produce`, `respond` (the
`poll(0)` behind the loop), `flush` (after the last attempt, and at shutdown) or
`flushed`. The thread of the Kafka client is external: it transmits, sends again when an
acknowledgement is lost (`AckLost`), or gives a message up. A message counts
against the queue until its delivery report is served, which only `poll` and
`flush` do. `flush` returns when the queue is empty (`FlushEmpties`) or when its timeout is
over with messages left, of which it warns (`FlushTimesOut`); only then does a refused
request get its answer and a stopping process end. `logged`, `remaining` (what the flush
of a shutdown has warned of) and `killed` (what a crashed process held) are history. A
worker has one producer, as `get_kafka_producer` is cached; FastAPI runs it in a thread
pool, so concurrent first requests could build a second one, which is left out.

### Startup

One step is a call with the wait behind it: what happens elsewhere during a sleep
may as well happen before it. Kafka, Redis and ClickHouse answer or do not. `create_topics` is
a result per topic and worker, in any order; a failed result is logged and no more,
and the topic may exist all the same. `cache` runs through the retries around Redis
(`connecting`), the admin client and rounds of `_ensure_topics` (`admin`,
`checking`), and the attempts of `start_consumer_with_retries` (`starting`);
`unwaited` remembers that the wait for the topics has raised. `gaveUp` stays up, as
nothing looks at the task. `storage` waits for its topics (`checking`) and then builds its
`ClickHouseClient` (`tables`), whose statements succeed or raise and end the process;
`ended` is restarted, as `docker-compose.yml` says. That file does not set
`auto.create.topics.enable`, so the broker's default holds: a client that uses a topic
makes it, with the broker's number of partitions. `Uses` lists these clients: the
producer of a worker that serves, a cache that consumes, and the sinks of the stream
jobs, which have results to write once there are events.

### StreamJobs

What the repository decides is translated: the filter, key and window of each job
(`EventAggregator`, `SessionTracker`, `PerformanceTracker`), the watermark as the
greatest timestamp of a partition less the delay, the idle timeout, that a submitted
job starts at the earliest offset, and that checkpoints are taken. What Flink makes
of it is external: merging of sessions, the firing of windows, late events, the
minimum of the watermarks over partitions that are not idle, restoration of a
checkpoint, and results that a failure may lose if they came after the checkpoint.
A behaviour is that of one job, as the jobs share nothing but their source. A
window keeps the events it is made of; what the query computes from them is left out.
It is the production configuration: elsewhere the jobs use processing time, and
no event is late.

## Runs

| Run | Question | Instance |
| --- | --- | --- |
| `cache_safety` | loss, drain, commits, order over partitions; `OpStream` | 2 partitions, queue 1, batch 2, log 2, 2 runs, latest; 363 658 states |
| `cache_liveness` | does a shutdown end; is everything stored once Redis works | 1 partition, log 3, 1 run; 8 913 states |
| `storage_safety` | committed rows, copies, offsets | 1 topic, batch 2, 3 attempts, log 3, 2 lost replies, 2 runs; 2.1 million states |
| `storage_topics` | the same with inserts next to each other; does a drain end, is every row dealt with | 2 topics, batch 2, 1 insert slot, 2 attempts, log 1, 1 lost reply, 2 runs; 65 492 states |
| `redis_writes` | values, TTLs, index, retention | 2 windows, 2 fields, 4 operations, retention 1, 1 crash; 5.2 million states |
| `redis_reads` | readers against the writer, trim | 2 types, 2 windows, 3 operations, retention 1, limits 0 and 1; 7.3 million states |
| `ingestion` | accepted, refused and copied events; does every request end | 2 workers, 2 events, queue 1, 3 attempts, 1 resend, 2 runs; 82 028 states |
| `startup` | who consumes which topics, who made them; do the retries end | 2 workers, 2 topics and that of the events, 2 rounds, 3 attempts, 2 retries, 1 outage of Kafka, Redis or ClickHouse; 678 476 states |
| `stream_jobs` | late events, reopened windows, sessions, restarts | 2 partitions, 3 events, timestamps to 3, delay 1, gap 2, windows of 1 and 2, 1 failure; 5.5 million states |

Every bound is a constant of the module (`MaxLog`, `MaxRuns`, `MaxLost`,
`MaxOps`, `MaxWindow`, `MaxCrashes`, `MaxResends`, `MaxOutages`, `MaxTime`, `MaxEvents`,
`MaxFailures`) and stands in the guard of one action.

Why the bounds are enough. Cache: four records (two partitions of two) are one
more than queue, put and a batch of one hold together, so each fills up, blocks
and drains; batches of two make partial pipelines and growth by retries possible;
two runs give every crash a restart. Storage: a log of three with a batch of two has
a record left in the buffers, one failed and one committed in a single run, and
three attempts have two retries of which both may have been executed; two topics
with one slot make a task wait, or be skipped, while the other fails, and one of them
be committed in a later cycle than the other. The two dimensions are checked apart
because their product is beyond TLC's time, and so is liveness with longer logs. Redis: two
windows over a retention of one make every second window a trim; four
operations on two windows repeat a field inside and across batches. Ingestion: the
second event of a worker meets a full queue, and three attempts have one that
finds room again between two that do not; the code's 200 are no different.
Start-up: an outage can fall on every call and wait; the rounds and
attempts of the code (30, 7, 6) differ from the bounds only in number, and the caps of
the delays are met within them. Stream jobs: three events are needed to merge two
sessions, and to be late in one partition (or behind another one) with a window open;
times to 3 with a gap of 2 let an event whose own gap is over join a session that is open
still and stretch it over time whose result is out, the one exception `NotReopened`
makes; windows of one and two units both share and separate events. Deadlock is
not checked: every system here may stay down once the runs are used up, or wait
for records that never come.

Every safety property of every passing run, and the refinement, is also proved for all
values of the constants (see Proofs), so for safety the runs only have to be
large enough to find a mistake early, and to see that nothing holds for want of states.

Runs that end in a counterexample, each about a sentence the repository states:

| Run | What TLC shows |
| --- | --- |
| `cache_final_commit` | a graceful shutdown commits past the operation a cancelled `put()` held |
| `cache_ready` | ready is reported after the consume loop has died |
| `storage_commit_over_failure` | a later cycle commits past a failed one |

Behaviour the models have and no run is about: a commit of the cache at any flush
covers operations not yet written, so that a crash skips them (`CommitSlack` bounds
it), although `docs/modules/cache/README.md:92` says otherwise; a cache restarted before its first
commit begins at the end of the log (`latest`), although
`docs/architecture/README.md:109` has it resume from its offsets; a hash that a
crash has left between `hset` and `expire` has no TTL and stays in memory for good unless
a later batch writes it (`TtlRenewed`), although `docs/modules/cache/README.md:15` wants
memory bounded; after a fatal record the process stays up, and a final flush that fails
then drops what was read (`NoSilentLoss`), which only a restart would read again, as
far as no commit has covered it; leftovers of a poll that raised come on top of the next
full one, although `docs/modules/storage/README.md:36` speaks of up to
`storage_batch_size` rows;
`limit=0` asks Redis for every window; a cache that has given up starting its consumer stays
up, and `/healthz` goes on to say ok; an event answered with 202 is lost with its
process or by a failed delivery, of which the log is the only trace; a topic
whose creation failed gets the broker's number of partitions from the producer, sink or
cache that uses it next; two runs of a
stream job may give different results for one window, since the watermark is not
part of a checkpoint and other events are late in the second, although
`docs/architecture/README.md:108` calls the jobs idempotent over windows.

## Fairness

`FairSpec` of the cache: weak fairness of each coroutine, because the event loop
runs every coroutine that is ready and each call to Redis or Kafka returns or
raises; weak fairness of the exit. That they work is not assumed,
and `ShutdownTerminates` holds if all of them fail. `EventuallyStored` has the premise that
flushes fail finitely often; without it the property is false. Start, crash,
shutdown and the arrival of records are never fair.

`FairSpec` of storage: weak fairness of the loop and of each insert task, for the
same reason; strong fairness of `Delivery`, a poll that returns records, since
the broker delivers in the end what it holds however many polls time out.
ClickHouse may fail for ever.

`FairSpec` of ingestion: weak fairness of the worker's own code, which runs in one
thread and whose calls return, and of the end of `flush`, which has a timeout.
That `produce()` raises something else is not fair, and nothing is assumed of Kafka or
of the client's thread: `RequestsAnswered` holds with Kafka down. That a worker told to
stop does so would follow from the timeout alone, and is not stated.

`FairSpec` of the start-up: weak fairness of storage and of the two retry loops of the
cache, all of whose calls return or raise, and of Docker's restarts. Outages may last for ever;
`StorageComesUp` has the premise that Kafka and ClickHouse answer for good and the topics
exist. The
stream jobs state safety only: when Flink emits a watermark is not in this code.

## Proofs

`CacheWorkerProofs` proves for all partitions, queue bounds, batch sizes, log
lengths and numbers of runs, from `CacheAssumption` (queue bound and batch size
are positive, the partition set arbitrary): `TypeCorrect`, `NothingLost`,
`OrderKept`, `CommitsAdvance`, `FinalCommitDrained`, `SlackBounded` and
`ImplementsStream` (the step simulation of `OpStream`). `NothingLost` says what is lost to
the operation: nothing while the consumer runs, exactly the dropped batch when a fatal
record and a failed final flush come together, and one more after a cancellation.

None of the safety invariants is inductive by itself. The inductive invariant
`IInv` adds to types and `NoSilentLoss`:

* `PhaseInv`: which states of consumer, worker and process go together. It is what
  tells, for example, that nothing is queued at the final flush.
* `ExecutedInv`: what Redis has of the batch is a prefix, and all of it at a
  commit; so clearing the batch loses nothing.
* `LineInv`: batch, queue and put, one behind the other, are in order and behind
  the position of the client; a record read next is newer than all of them.
* `PositionInv`, `CommitInv`: position within the log; the broker's offset behind
  the snapshot in flight, and that behind the position.

`SlackBounded` needs `SlackInv` on top: at the moment of a commit whatever is read
and not in Redis is in queue or put, which bounds it by `QueueMax + 1`, and Redis
forgets nothing afterwards. The lemmas are one per conjunct for the initial state
and one per conjunct for the step, with a case per action. All conjuncts were
model-checked before they were proved.

`IngestionProofs` proves `AcceptedIsAccounted`, `RefusedNeverSent`, `EventSentOnce` and
type correctness from `IngestionAssumption`, for any number of workers and events. The
inductive invariant says where an event is at each point of `send_event`: one that
`produce()` has not taken is nowhere, whoever holds it (`NowhereInv`, with
`StaysNowhere`); one it has taken is accounted for, although 202 is yet to be
answered (`AccountedInv`, `StaysAccounted`); a flush that is over has left nothing or warned of what
it left (`FlushedInv`), so that a graceful stop loses nothing in silence; a request is in one hand only (`HandInv`); a
copy still queued leaves room for itself in the bound on copies (`CopyInv`).

`StartupProofs` proves `TopicsSeen`, `TopicsPlanned` and type correctness from
`StartupAssumption`. `RetryInv` says that a loop that goes on has an attempt left,
which bounds attempts and delays; `SeenInv`, that a cache about to start its
consumer has seen its topics; `ResultInv`, that a topic of a request is pending,
exists or has failed. Topics never vanish (`TopicsStay`).

`StorageProofs` proves every safety property of `StorageProcessor` from
`StorageAssumption`, for any finite set of topics: `StoredOrForsaken`, `CopiesBounded`,
`CommitMonotone` and types. For the first, `ReadInv` says where a row behind the client's
position may be (settled, in the buffers, or in a batch of the cycle), so that at a
commit, when none is held (`PhaseInv`, `TaskInv`), the position covers settled rows
only; `CommitInv` carries that through the requests on their way to the broker, and
`OrderInv` keeps these in order. For the second, `CountInv` counts per process: a
record it has not tried to insert has the copies of earlier processes only, and one
whose insert goes on has at most its attempts on top; `HeldInv` keeps what is in a batch
apart from what is still to be read.

`RedisProofs` proves every property of `RedisWindows` from `RedisAssumption`, for any
fields, limits, retention, windows, operations and crashes. A property that speaks
of operations applied says nothing in the middle of a pipeline, so the invariant has one
part for each, which says it for every position `sent` in the pipeline:

* `ReadableInv`: between the `hset` of an operation and its `zadd` the hash is there, so
  that `zadd` indexes no window without one. Expiry leaves `expired`, which
  `IndexedIsReadable` allows: the code reads such a hash as empty.
* `TtlInv`: of the batch in hand, an operation whose `expire` was executed has a TTL
  still, unless the operation now between its `hset` and its `expire` is about the same hash.
  So when the batch is applied each of its hashes has one, and a hash without is left to the
  next batch or to the crash that cut it off (`RenewStep`).
* `FieldInv`: a field has the value of the last operation applied, or a later one of the
  batch in hand, which a pipeline that failed half-way has written; what this pipeline has
  executed has the value of its last operation. That makes a retry from the top harmless.
* `TrimInv`: a type of the batch is yet to be trimmed or within the retention; `excess`,
  read before the await, is still right at the `zremrangebyrank`, since only the writer
  adds to an index.
* `ShownInv`: an index has a window at least as new as the last one shown, and what a
  request has read is not older either. `TrimEffect` gives the step: a trim keeps the newest
  window, as the retention is positive.

`StreamProofs` proves every property of `StreamJobs` from `StreamAssumption`, for any
finite set of visitors, any partitions, sizes, gap and delay. `Sound` says what is right
about offsets, windows and drops together; it must hold of the checkpoint as of the job
(`StateInv`), since a failure makes the one the other. It has these parts beyond the
properties themselves:

* windows are `Proper`: of the size of the job and, for tumbling ones, at multiples of it. From this
  `TumblingApart` derives that two which share a time are the same.
* `SourceInv`: the timestamp behind a watermark is that of an event read, and the watermark is not
  ahead of a partition that never was idle; so a drop has its cause (`LateIsOvertaken`).
* `AccountInv`: what the checkpoint's offsets cover is in its windows or in results that are
  flushed already, so losing the others loses nothing.
* `FiredInv`: results of the run are behind the watermark, share no event with open
  windows, and these are ahead of it. A tumbling window with a time of a result would
  end with it, which is absurd; hence `NotReopened` for two of the jobs.
* `SessionInv`, for the third: an event ahead of the watermark begins after the result has ended, so
  its session meets the result only through an older one that did already
  (`MergedSpan`: a merged window begins and ends with one of its parts).

Minimum and maximum of a finite set of integers are `CHOOSE` expressions; `SetLemmas` proves that
they exist from the well-founded order of finite sets by strict inclusion
(`HasLeast`, `HasGreatest`), as an induction over the set cannot be stated.

Only model-checked: liveness (`ShutdownTerminates`, `EventuallyStored`, `DrainTerminates`,
`EventuallyHandled`, `RequestsAnswered`, `StorageComesUp`,
`CacheStartEnds`), which is outside what the prover does, and the runs with
counterexamples, which refute a property and need one instance only.

## Not modelled

Rebalancing of the consumer groups (each service runs as one member), broker and
Redis data loss, metrics and logging, type conversion and formatting, methods
that nothing calls (`publish_update`, `store_*_window`, the synchronous `retry`),
validation of events, what the stream jobs compute of the events of a window, their mini-batches
and parallelism, and their processing-time mode outside production.

## What could follow

1. `CachePipeline`: `CacheWorker` and `RedisWindows` composed, to relate the values
   in Redis to the log over crashes that skip operations.
2. An abstract at-least-once consumer that `StorageProcessor` implements up to
   `forsaken` and `dropped`.
