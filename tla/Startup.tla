------------------------------- MODULE Startup -------------------------------
(***************************************************************************)
(* How the services come up beside each other.  Each worker process of the *)
(* ingestion service asks Kafka to create all topics and serves whatever   *)
(* comes of it.  The storage service waits for its topics in a bounded     *)
(* number of rounds and then has ClickHouse make its tables; if either     *)
(* fails its process ends.  The cache service connects to Redis with       *)
(* retries, waits for its topics, and starts its Kafka consumer in a       *)
(* bounded number of attempts; it waits for the topics on the first of     *)
(* them only.  The sinks of the stream jobs wait for nothing but results   *)
(* to write.  Docker starts again what has ended.  That processes may die  *)
(* in between is left to the modules about their work; a worker that       *)
(* starts late is one that was restarted.                                  *)
(*                                                                         *)
(* A failed call, the wait behind it and its count are one step: what      *)
(* happens elsewhere while the code sleeps may as well happen before it.   *)
(* Delays are in tenths of a second, without their jitter.                 *)
(***************************************************************************)
EXTENDS Integers

CONSTANTS Workers,        \* worker processes of the ingestion service
          Topics,         \* the topics of the metrics, read by storage and cache
          EventsTopic,    \* the topic of the events, written by ingestion
          Rounds,         \* max_retries of the waits for topics (30 in the code)
          StartAttempts,  \* attempts to start the consumer (7 in the code)
          RedisRetries,   \* retries of the Redis connection (6 in the code)
          StartCap,       \* cap of the waits between two starts (300)
          RedisCap,       \* max_delay of the Redis connection (80)
          MaxOutages      \* bound: outages of Kafka, Redis and ClickHouse together

StartDelay == 10       \* delay of start_consumer_with_retries
RedisDelay == 5        \* base_delay of the Redis connection

ASSUME StartupAssumption ==
    /\ EventsTopic \notin Topics
    /\ Rounds \in Nat \ {0}
    /\ StartAttempts \in Nat \ {0}
    /\ RedisRetries \in Nat \ {0}
    /\ StartCap \in Nat /\ StartCap >= StartDelay
    /\ RedisCap \in Nat /\ RedisCap >= RedisDelay
    /\ MaxOutages \in Nat

AllTopics == Topics \cup {EventsTopic}

Partitions == 3        \* of a topic the admin client creates
AutoPartitions == 1    \* of a topic the broker creates for a client that asks

VARIABLES
    kafka, redis, clickhouse,  \* whether they answer
    partitions,    \* of each topic; 0 if there is no such topic
    worker,        \* of each ingestion process: "starting", "creating", "serving"
    pending,       \* its topics whose creation has no result yet
    unlucky,       \* topics whose creation was logged as failed (history)
    storage,       \* "checking" its topics, making its "tables", "running", "ended"
    round,         \* rounds it has waited; 0 outside the wait
    cache,         \* the await, or outcome, of lifespan and consume_loop
    attempt,       \* failed calls of the retry loop it is in
    checks,        \* rounds the cache has waited; 0 outside the wait
    delay,         \* the variable of that name in the retry loop
    unwaited,      \* the cache has started without having seen its topics (history)
    outages

brokers == <<kafka, redis, clickhouse, partitions, outages>>
ingestion == <<worker, pending, unlucky>>
storing == <<storage, round>>
caching == <<cache, attempt, checks, delay, unwaited>>
vars == <<brokers, ingestion, storing, caching>>

WorkerStates == {"starting", "creating", "serving"}

StorageStates == {"checking", "tables", "running", "ended"}

CacheStates == {"connecting", "admin", "checking", "starting", "consuming",
                "gaveUp", "ended"}

TypeOK ==
    /\ kafka \in BOOLEAN /\ redis \in BOOLEAN /\ clickhouse \in BOOLEAN
    /\ partitions \in [AllTopics -> {0, AutoPartitions, Partitions}]
    /\ worker \in [Workers -> WorkerStates]
    /\ pending \in [Workers -> SUBSET AllTopics]
    /\ unlucky \in SUBSET AllTopics
    /\ storage \in StorageStates
    /\ round \in 0..Rounds
    /\ cache \in CacheStates
    /\ attempt \in Nat /\ (attempt <= StartAttempts \/ attempt <= RedisRetries)
    /\ checks \in 0..Rounds
    /\ delay \in Nat /\ (delay <= StartCap \/ delay <= RedisCap)
    /\ unwaited \in BOOLEAN
    /\ outages \in 0..MaxOutages

Init ==
    /\ kafka = TRUE /\ redis = TRUE /\ clickhouse = TRUE
    /\ partitions = [t \in AllTopics |-> 0]
    /\ worker = [w \in Workers |-> "starting"]
    /\ pending = [w \in Workers |-> {}]
    /\ unlucky = {}
    /\ storage = "checking"
    /\ round = 0
    /\ cache = "connecting"
    /\ attempt = 0
    /\ checks = 0
    /\ delay = RedisDelay
    /\ unwaited = FALSE
    /\ outages = 0

Exists(t) == partitions[t] > 0

Doubled(cap) == IF delay * 2 < cap THEN delay * 2 ELSE cap

-----------------------------------------------------------------------------
(* Kafka, Redis and ClickHouse *)

Outage ==
    /\ outages < MaxOutages
    /\ outages' = outages + 1
    /\ \/ kafka /\ kafka' = FALSE /\ UNCHANGED <<redis, clickhouse>>
       \/ redis /\ redis' = FALSE /\ UNCHANGED <<kafka, clickhouse>>
       \/ clickhouse /\ clickhouse' = FALSE /\ UNCHANGED <<kafka, redis>>
    /\ UNCHANGED <<partitions, ingestion, storing, caching>>

Recovery ==
    /\ \/ ~kafka /\ kafka' = TRUE /\ UNCHANGED <<redis, clickhouse>>
       \/ ~redis /\ redis' = TRUE /\ UNCHANGED <<kafka, clickhouse>>
       \/ ~clickhouse /\ clickhouse' = TRUE /\ UNCHANGED <<kafka, redis>>
    /\ UNCHANGED <<partitions, outages, ingestion, storing, caching>>

\* A worker that serves hands events to its producer.
Accepting == \E w \in Workers : worker[w] = "serving"

\* The clients that make the broker create a topic: ingestion's producer, the cache's
\* consumer, and the sink of a stream job, whose producer writes the first result once
\* the job has read events.
Uses(t) ==
    \/ t = EventsTopic /\ Accepting
    \/ t \in Topics /\ cache = "consuming"
    \/ t \in Topics /\ Exists(EventsTopic) /\ Accepting

\* auto.create.topics.enable is on: a client that uses a topic makes it.
AutoCreate(t) ==
    /\ kafka
    /\ ~Exists(t)
    /\ Uses(t)
    /\ partitions' = [partitions EXCEPT ![t] = AutoPartitions]
    /\ UNCHANGED <<kafka, redis, clickhouse, outages, ingestion, storing, caching>>

-----------------------------------------------------------------------------
(* Ingestion: create_topics *)

\* Mutant of RequestTopics: the topics of the metrics are left out.
RequestEventsOnly(w) ==
    /\ worker[w] = "starting"
    /\ worker' = [worker EXCEPT ![w] = "creating"]
    /\ pending' = [pending EXCEPT ![w] = {EventsTopic}]
    /\ UNCHANGED <<brokers, unlucky, storing, caching>>

RequestTopics(w) ==
    /\ worker[w] = "starting"
    /\ worker' = [worker EXCEPT ![w] = "creating"]
    /\ pending' = [pending EXCEPT ![w] = AllTopics]
    /\ UNCHANGED <<brokers, unlucky, storing, caching>>

Resolved(w, t) == pending' = [pending EXCEPT ![w] = @ \ {t}]

\* The broker creates the topic; if it exists, error 36 is ignored.
TopicCreated(w, t) ==
    /\ t \in pending[w]
    /\ kafka
    /\ partitions' = [partitions EXCEPT ![t] = IF @ = 0 THEN Partitions ELSE @]
    /\ Resolved(w, t)
    /\ UNCHANGED <<kafka, redis, clickhouse, outages, worker, unlucky, storing,
                   caching>>

\* The result is another error, or a timeout: it is logged, and no more.  The
\* broker may have created the topic all the same.
TopicFails(w, t) ==
    /\ t \in pending[w]
    /\ \/ partitions' = partitions
       \/ kafka /\ ~Exists(t) /\ partitions' = [partitions EXCEPT ![t] = Partitions]
    /\ Resolved(w, t)
    /\ unlucky' = unlucky \cup {t}
    /\ UNCHANGED <<kafka, redis, clickhouse, outages, worker, storing, caching>>

Serve(w) ==
    /\ worker[w] = "creating"
    /\ pending[w] = {}
    /\ worker' = [worker EXCEPT ![w] = "serving"]
    /\ UNCHANGED <<brokers, pending, unlucky, storing, caching>>

-----------------------------------------------------------------------------
(* Storage: ensure_topics_available, and the tables of ClickHouseClient *)

StorageSees ==
    /\ storage = "checking" /\ round < Rounds
    /\ kafka
    /\ \A t \in Topics : Exists(t)
    /\ storage' = "tables"
    /\ round' = 0
    /\ UNCHANGED <<brokers, ingestion, caching>>

StorageMisses ==
    /\ storage = "checking" /\ round < Rounds
    /\ ~kafka \/ \E t \in Topics : ~Exists(t)
    /\ round' = round + 1
    /\ UNCHANGED <<brokers, ingestion, storage, caching>>

\* Mutant of StorageEnds: the process outlives main, as it would if the thread of the
\* metrics server were no daemon.
StorageHangs ==
    /\ storage = "checking" /\ round = Rounds
    /\ UNCHANGED vars

\* RuntimeError after the last round: main logs it, and the process ends.
StorageEnds ==
    /\ storage = "checking" /\ round = Rounds
    /\ storage' = "ended"
    /\ round' = 0
    /\ UNCHANGED <<brokers, ingestion, caching>>

\* process_batches begins with ClickHouseClient(), which creates the tables.
TablesMade ==
    /\ storage = "tables"
    /\ clickhouse
    /\ storage' = "running"
    /\ UNCHANGED <<brokers, ingestion, round, caching>>

\* A statement raises, nobody tries it again: main logs it, and the process ends.
TablesFail ==
    /\ storage = "tables"
    /\ ~clickhouse
    /\ storage' = "ended"
    /\ UNCHANGED <<brokers, ingestion, round, caching>>

\* restart: unless-stopped.
StorageRestarts ==
    /\ storage = "ended"
    /\ storage' = "checking"
    /\ UNCHANGED <<brokers, ingestion, round, caching>>

-----------------------------------------------------------------------------
(* Cache: retry_async around the ping of Redis, in lifespan *)

CacheOnly == UNCHANGED <<brokers, ingestion, storing>>

\* The consumer task is created; it calls start_consumer_with_retries.
RedisConnects ==
    /\ cache = "connecting"
    /\ redis
    /\ cache' = "admin"
    /\ attempt' = 0
    /\ delay' = StartDelay
    /\ CacheOnly /\ UNCHANGED <<checks, unwaited>>

RedisFails ==
    /\ cache = "connecting"
    /\ ~redis
    /\ attempt' = attempt + 1
    /\ \/ attempt' < RedisRetries /\ delay' = Doubled(RedisCap) /\ cache' = cache
       \/ attempt' = RedisRetries /\ delay' = delay /\ cache' = "ended"
    /\ CacheOnly /\ UNCHANGED <<checks, unwaited>>

-----------------------------------------------------------------------------
(* Cache: start_consumer_with_retries and _ensure_topics *)

\* Mutants of AttemptFails: the delay has no cap; the attempts are not counted.
AttemptFailsUncapped ==
    /\ delay' = delay * 2
    /\ attempt' = attempt + 1
    /\ cache' = IF attempt' < StartAttempts THEN "starting" ELSE "gaveUp"

AttemptFailsForever ==
    /\ delay' = Doubled(StartCap)
    /\ attempt' = attempt
    /\ cache' = "starting"

\* The except clause, with its wait, and the end of the loop: RuntimeError ends the
\* task, nobody looks at it, and the process stays up.
AttemptFails ==
    /\ delay' = Doubled(StartCap)
    /\ attempt' = attempt + 1
    /\ cache' = IF attempt' < StartAttempts THEN "starting" ELSE "gaveUp"

\* The admin client of _ensure_topics starts, or raises.
AdminStarts ==
    /\ cache = "admin"
    /\ kafka
    /\ cache' = "checking"
    /\ CacheOnly /\ UNCHANGED <<attempt, checks, delay, unwaited>>

AdminFails ==
    /\ cache = "admin"
    /\ ~kafka
    /\ AttemptFails
    /\ unwaited' = TRUE
    /\ CacheOnly /\ UNCHANGED checks

CacheSees ==
    /\ cache = "checking" /\ checks < Rounds
    /\ kafka
    /\ \A t \in Topics : Exists(t)
    /\ cache' = "starting"
    /\ checks' = 0
    /\ CacheOnly /\ UNCHANGED <<attempt, delay, unwaited>>

CacheMisses ==
    /\ cache = "checking" /\ checks < Rounds
    /\ ~kafka \/ \E t \in Topics : ~Exists(t)
    /\ checks' = checks + 1
    /\ CacheOnly /\ UNCHANGED <<cache, attempt, delay, unwaited>>

\* Mutant of TopicsGivenUp: the exception of _ensure_topics is swallowed.
TopicsIgnored ==
    /\ cache = "checking" /\ checks = Rounds
    /\ cache' = "starting"
    /\ checks' = 0
    /\ CacheOnly /\ UNCHANGED <<attempt, delay, unwaited>>

TopicsGivenUp ==
    /\ cache = "checking" /\ checks = Rounds
    /\ AttemptFails
    /\ unwaited' = TRUE
    /\ checks' = 0
    /\ CacheOnly

ConsumerStarts ==
    /\ cache = "starting"
    /\ kafka
    /\ cache' = "consuming"
    /\ CacheOnly /\ UNCHANGED <<attempt, checks, delay, unwaited>>

ConsumerFails ==
    /\ cache = "starting"
    /\ ~kafka
    /\ AttemptFails
    /\ CacheOnly /\ UNCHANGED <<checks, unwaited>>

CacheRestarts ==
    /\ cache = "ended"
    /\ cache' = "connecting"
    /\ attempt' = 0
    /\ delay' = RedisDelay
    /\ CacheOnly /\ UNCHANGED <<checks, unwaited>>

-----------------------------------------------------------------------------
WorkerStep(w) ==
    \/ RequestTopics(w) \/ Serve(w)
    \/ \E t \in AllTopics : TopicCreated(w, t) \/ TopicFails(w, t)

StorageStep ==
    \/ StorageSees \/ StorageMisses \/ StorageEnds
    \/ TablesMade \/ TablesFail \/ StorageRestarts

RedisStep == RedisConnects \/ RedisFails

StartStep ==
    \/ AdminStarts \/ AdminFails \/ CacheSees \/ CacheMisses
    \/ TopicsGivenUp \/ ConsumerStarts \/ ConsumerFails

Next ==
    \/ Outage \/ Recovery \/ \E t \in AllTopics : AutoCreate(t)
    \/ \E w \in Workers : WorkerStep(w)
    \/ StorageStep \/ RedisStep \/ StartStep \/ CacheRestarts

Spec == Init /\ [][Next]_vars

\* The services run, and Docker starts them again; nothing is assumed of Kafka, Redis
\* and ClickHouse, or of what becomes of a request to create a topic.
FairSpec ==
    /\ Spec
    /\ WF_vars(StorageStep)
    /\ WF_vars(RedisStep) /\ WF_vars(StartStep) /\ WF_vars(CacheRestarts)

-----------------------------------------------------------------------------
(* Properties *)

\* Storage polls only topics that exist.  So does the cache, unless the wait of its
\* first attempt has raised: its later attempts start the consumer without waiting.
ConsumersHaveTopics ==
    /\ storage \in {"tables", "running"} => \A t \in Topics : Exists(t)
    /\ cache = "consuming" /\ ~unwaited => \A t \in Topics : Exists(t)

\* However the workers race to create the topics, one of them serves only when each
\* topic exists or has its failure logged.  A topic comes into being with the broker's
\* number of partitions, and the TopicExists of all creations to come is ignored,
\* only if its creation had failed before: the producer of the events and the sinks of
\* the jobs have nothing to write until a worker serves.  The exception is a cache
\* that went on without its topics, whose consumer asks for them at any time.
TopicsAsPlanned ==
    /\ Accepting => \A t \in AllTopics : Exists(t) \/ t \in unlucky
    /\ \A t \in AllTopics : partitions[t] = AutoPartitions =>
           t \in unlucky \/ (t \in Topics /\ unwaited)

\* Once Kafka answers for good and has the topics, and ClickHouse answers for good,
\* storage comes up for good, even if it had used up its rounds or its tables could
\* not be made: its process ends and is started again.
StorageComesUp ==
    <>[](kafka /\ clickhouse /\ \A t \in Topics : Exists(t))
        => <>[](storage = "running")

\* The start of the consumer ends: it consumes or has given up, whatever Kafka does in
\* the meantime.
CacheStartEnds ==
    cache \in {"admin", "checking", "starting"}
        ~> cache \in {"consuming", "gaveUp"}
=============================================================================
