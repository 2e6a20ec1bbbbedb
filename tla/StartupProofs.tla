---------------------------- MODULE StartupProofs ----------------------------
(***************************************************************************)
(* Proofs about Startup, for any number of workers, topics, rounds,        *)
(* attempts and outages.                                                   *)
(***************************************************************************)
EXTENDS Startup, TLAPS

-----------------------------------------------------------------------------
(* The inductive invariant *)

\* A retry loop that goes on has an attempt left.
RetryInv ==
    /\ cache = "connecting" => attempt < RedisRetries
    /\ cache \in {"admin", "checking", "starting"} => attempt < StartAttempts

\* Who goes on after its wait has seen its topics, unless the wait has raised.
SeenInv ==
    /\ ConsumersHaveTopics
    /\ cache = "starting" /\ ~unwaited => \A t \in Topics : Exists(t)

\* Between the request and its last result, a topic is pending, exists, or has failed.
ResultInv ==
    /\ \A w \in Workers : worker[w] = "creating" =>
           \A t \in AllTopics : t \in pending[w] \/ Exists(t) \/ t \in unlucky
    /\ TopicsAsPlanned

IInv == TypeOK /\ RetryInv /\ SeenInv /\ ResultInv

-----------------------------------------------------------------------------
(* Lemmas *)

\* The initial state satisfies the inductive invariant.
LEMMA InitInv == Init => IInv
<1> SUFFICES ASSUME Init PROVE IInv
    OBVIOUS
<1> USE StartupAssumption DEF Init
<1>1. TypeOK
  <2>1. /\ kafka \in BOOLEAN /\ redis \in BOOLEAN /\ clickhouse \in BOOLEAN
        /\ unwaited \in BOOLEAN
      OBVIOUS
  <2>2. partitions \in [AllTopics -> {0, AutoPartitions, Partitions}]
      OBVIOUS
  <2>3. worker \in [Workers -> WorkerStates] /\ pending \in [Workers -> SUBSET AllTopics]
      BY DEF WorkerStates
  <2>4. storage \in StorageStates /\ cache \in CacheStates
      BY DEF StorageStates, CacheStates
  <2>5. delay \in Nat /\ delay <= RedisCap
      BY DEF RedisDelay
  <2>6. unlucky \in SUBSET AllTopics /\ attempt \in Nat /\ attempt <= StartAttempts
      OBVIOUS
  <2>7. round \in 0..Rounds /\ checks \in 0..Rounds /\ outages \in 0..MaxOutages
      OBVIOUS
  <2> QED
      BY <2>1, <2>2, <2>3, <2>4, <2>5, <2>6, <2>7 DEF TypeOK
<1>2. RetryInv
    BY DEF RetryInv
<1>3. SeenInv
    BY DEF SeenInv, ConsumersHaveTopics
<1>4. ResultInv
    BY DEF ResultInv, TopicsAsPlanned, Accepting, AutoPartitions, AllTopics
<1> QED
    BY <1>1, <1>2, <1>3, <1>4 DEF IInv

\* A doubled delay is within its cap.
LEMMA DoubledBounded ==
    ASSUME delay \in Nat, NEW cap \in Nat
    PROVE  Doubled(cap) \in Nat /\ Doubled(cap) <= cap
BY DEF Doubled

\* The steps of the cache touch nothing outside it.
LEMMA CacheStepsAlone == RedisStep \/ StartStep \/ CacheRestarts => CacheOnly
BY DEF RedisStep, StartStep, CacheRestarts, RedisConnects, RedisFails, AdminStarts,
       AdminFails, CacheSees, CacheMisses, TopicsGivenUp, ConsumerStarts, ConsumerFails

\* Every step keeps the types, the delays within their caps, and the attempts within
\* their number.
LEMMA TypeStep == TypeOK /\ RetryInv /\ [Next]_vars => TypeOK' /\ RetryInv'
<1> SUFFICES ASSUME TypeOK, RetryInv, [Next]_vars PROVE TypeOK' /\ RetryInv'
    OBVIOUS
<1> USE StartupAssumption DEF TypeOK, RetryInv, brokers, ingestion, storing, caching
<1> DEFINE CachingOK ==
        /\ cache' \in CacheStates
        /\ attempt' \in Nat /\ (attempt' <= StartAttempts \/ attempt' <= RedisRetries)
        /\ checks' \in 0..Rounds
        /\ delay' \in Nat /\ (delay' <= StartCap \/ delay' <= RedisCap)
        /\ unwaited' \in BOOLEAN
        /\ RetryInv'
<1>1. CASE Outage \/ Recovery
  <2>1. kafka' \in BOOLEAN /\ redis' \in BOOLEAN /\ clickhouse' \in BOOLEAN
      BY <1>1, Zenon DEF Outage, Recovery
  <2>2. outages' \in 0..MaxOutages
      BY <1>1 DEF Outage, Recovery
  <2>3. UNCHANGED <<partitions, ingestion, storing, caching>>
      BY <1>1 DEF Outage, Recovery
  <2> QED
      BY <2>1, <2>2, <2>3
<1>2. ASSUME NEW t \in AllTopics, AutoCreate(t) PROVE TypeOK' /\ RetryInv'
    BY <1>2 DEF AutoCreate
<1>3. ASSUME NEW w \in Workers, WorkerStep(w) PROVE TypeOK' /\ RetryInv'
  <2>1. CASE RequestTopics(w) \/ Serve(w)
      BY <2>1 DEF RequestTopics, Serve, WorkerStates
  <2>2. ASSUME NEW t \in AllTopics, TopicCreated(w, t) PROVE TypeOK' /\ RetryInv'
      BY <2>2 DEF TopicCreated, Resolved
  <2>3. ASSUME NEW t \in AllTopics, TopicFails(w, t) PROVE TypeOK' /\ RetryInv'
      BY <2>3 DEF TopicFails, Resolved
  <2> QED
      BY <1>3, <2>1, <2>2, <2>3 DEF WorkerStep
<1>4. CASE StorageStep
    BY <1>4 DEF StorageStep, StorageSees, StorageMisses, StorageEnds,
        TablesMade, TablesFail, StorageRestarts, StorageStates
<1>5. ASSUME AttemptFails, cache \in {"admin", "checking", "starting"}
      PROVE  /\ cache' \in CacheStates /\ RetryInv'
             /\ attempt' \in Nat /\ attempt' <= StartAttempts
             /\ delay' \in Nat /\ delay' <= StartCap
    BY <1>5, DoubledBounded DEF AttemptFails, CacheStates
<1>6. ASSUME CacheOnly, RedisStep \/ StartStep \/ CacheRestarts PROVE CachingOK
  <2>1. CASE RedisConnects
      BY <2>1 DEF RedisConnects, CacheStates, StartDelay
  <2>2. CASE RedisFails
    <3>1. attempt' = attempt + 1 /\ attempt' <= RedisRetries
        BY <2>2 DEF RedisFails
    <3>2. delay' \in Nat /\ (delay' <= RedisCap \/ delay' = delay)
        BY <2>2, DoubledBounded DEF RedisFails
    <3> QED
        BY <2>2, <3>1, <3>2 DEF RedisFails, CacheStates
  <2>3. CASE AdminFails \/ TopicsGivenUp \/ ConsumerFails
    <3>1. /\ AttemptFails /\ cache \in {"admin", "checking", "starting"}
          /\ checks' \in {checks, 0} /\ unwaited' \in {TRUE, unwaited}
        BY <2>3 DEF AdminFails, TopicsGivenUp, ConsumerFails
    <3>2. checks' \in 0..Rounds
        BY <3>1
    <3>3. unwaited' \in BOOLEAN
        BY <3>1, Zenon
    <3> QED
        BY <1>5, <3>1, <3>2, <3>3
  <2>4. CASE AdminStarts \/ CacheSees \/ CacheMisses \/ ConsumerStarts
      BY <2>4 DEF AdminStarts, CacheSees, CacheMisses, ConsumerStarts, CacheStates
  <2>5. CASE CacheRestarts
      BY <2>5 DEF CacheRestarts, CacheStates, RedisDelay
  <2> QED
      BY <1>6, <2>1, <2>2, <2>3, <2>4, <2>5 DEF RedisStep, StartStep
<1>7. CASE RedisStep \/ StartStep \/ CacheRestarts
    BY <1>6, <1>7, CacheStepsAlone DEF CacheOnly
<1>8. CASE UNCHANGED vars
    BY <1>8 DEF vars
<1> QED
    BY <1>1, <1>2, <1>3, <1>4, <1>7, <1>8 DEF Next

\* Every step leaves the topics that exist, and the failures that were logged.
LEMMA TopicsStay ==
    ASSUME TypeOK, [Next]_vars
    PROVE  /\ \A t \in AllTopics : Exists(t) => Exists(t)'
           /\ unlucky \subseteq unlucky'
<1> USE DEF TypeOK, Exists, AutoPartitions, Partitions, brokers, ingestion, storing, caching
<1> DEFINE Stay == /\ \A t \in AllTopics : Exists(t) => Exists(t)'
                   /\ unlucky \subseteq unlucky'
<1>1. ASSUME UNCHANGED <<partitions, unlucky>> PROVE Stay
    BY <1>1
<1>2. CASE Outage \/ Recovery
    BY <1>1, <1>2 DEF Outage, Recovery
<1>3. ASSUME NEW t \in AllTopics, AutoCreate(t) PROVE Stay
    BY <1>3 DEF AutoCreate
<1>4. ASSUME NEW w \in Workers, RequestTopics(w) \/ Serve(w) PROVE Stay
    BY <1>1, <1>4 DEF RequestTopics, Serve
<1>5. ASSUME NEW w \in Workers, NEW t \in AllTopics, TopicCreated(w, t) PROVE Stay
    BY <1>5 DEF TopicCreated
<1>6. ASSUME NEW w \in Workers, NEW t \in AllTopics, TopicFails(w, t) PROVE Stay
    BY <1>6 DEF TopicFails
<1>7. CASE StorageStep
    BY <1>1, <1>7 DEF StorageStep, StorageSees, StorageMisses, StorageEnds,
        TablesMade, TablesFail, StorageRestarts
<1>8. CASE RedisStep \/ StartStep \/ CacheRestarts
    BY <1>1, <1>8, CacheStepsAlone DEF CacheOnly
<1>9. CASE UNCHANGED vars
    BY <1>1, <1>9 DEF vars
<1> QED
    BY <1>2, <1>3, <1>4, <1>5, <1>6, <1>7, <1>8, <1>9 DEF Next, WorkerStep

\* Nobody starts to consume topics that it has not seen, unless the wait has raised.
LEMMA SeenStep == TypeOK /\ SeenInv /\ [Next]_vars => SeenInv'
<1> SUFFICES ASSUME TypeOK, SeenInv, [Next]_vars PROVE SeenInv'
    OBVIOUS
<1>1. \A t \in Topics : Exists(t) => Exists(t)'
    BY TopicsStay DEF AllTopics
<1> USE DEF SeenInv, ConsumersHaveTopics, brokers, ingestion, storing, caching
<1>2. ASSUME UNCHANGED <<storing, caching>> PROVE SeenInv'
    BY <1>1, <1>2
<1>3. CASE Outage \/ Recovery
    BY <1>2, <1>3 DEF Outage, Recovery
<1>4. ASSUME NEW t \in AllTopics, AutoCreate(t) PROVE SeenInv'
    BY <1>2, <1>4 DEF AutoCreate
<1>5. ASSUME NEW w \in Workers, WorkerStep(w) PROVE SeenInv'
    BY <1>2, <1>5 DEF WorkerStep, RequestTopics, Serve, TopicCreated, TopicFails
<1>6. CASE StorageStep
    BY <1>1, <1>6 DEF StorageStep, StorageSees, StorageMisses, StorageEnds,
        TablesMade, TablesFail, StorageRestarts
<1>7. ASSUME RedisStep \/ StartStep \/ CacheRestarts PROVE SeenInv'
  <2>1. UNCHANGED storing
      BY <1>7, CacheStepsAlone DEF CacheOnly
  <2>2. CASE RedisStep \/ CacheRestarts \/ AdminStarts \/ CacheMisses
      BY <1>1, <2>1, <2>2
         DEF RedisStep, RedisConnects, RedisFails, CacheRestarts, AdminStarts, CacheMisses
  <2>3. CASE AdminFails \/ TopicsGivenUp
      BY <1>1, <2>1, <2>3 DEF AdminFails, TopicsGivenUp, AttemptFails
  <2>4. CASE CacheSees \/ ConsumerStarts
      BY <1>1, <2>1, <2>4 DEF CacheSees, ConsumerStarts
  <2>5. CASE ConsumerFails
      BY <1>1, <2>1, <2>5 DEF ConsumerFails, AttemptFails
  <2> QED
      BY <1>7, <2>2, <2>3, <2>4, <2>5 DEF StartStep
<1>8. CASE UNCHANGED vars
    BY <1>2, <1>8 DEF vars
<1> QED
    BY <1>3, <1>4, <1>5, <1>6, <1>7, <1>8 DEF Next

\* A request to create a topic that has its result has made the topic or is logged.
LEMMA ResultStep == TypeOK /\ SeenInv /\ ResultInv /\ [Next]_vars => ResultInv'
<1> SUFFICES ASSUME TypeOK, SeenInv, ResultInv, [Next]_vars PROVE ResultInv'
    OBVIOUS
<1>1. /\ \A t \in AllTopics : Exists(t) => Exists(t)'
      /\ unlucky \subseteq unlucky'
    BY TopicsStay
<1>2. EventsTopic \in AllTopics /\ EventsTopic \notin Topics /\ Topics \subseteq AllTopics
    BY StartupAssumption DEF AllTopics
<1>3. unwaited => unwaited'
    BY DEF Next, vars, brokers, ingestion, storing, caching, Outage, Recovery, AutoCreate,
           WorkerStep, RequestTopics, Serve, TopicCreated, TopicFails, StorageStep,
           StorageSees, StorageMisses, StorageEnds, TablesMade, TablesFail,
           StorageRestarts, RedisStep,
           RedisConnects, RedisFails, StartStep, AdminStarts, AdminFails, CacheSees,
           CacheMisses, TopicsGivenUp, ConsumerStarts, ConsumerFails, CacheRestarts
<1> USE DEF TypeOK, ResultInv, TopicsAsPlanned, Accepting, AutoPartitions, Partitions, brokers,
        ingestion, storing, caching
<1>4. ASSUME UNCHANGED <<partitions, worker, pending>> PROVE ResultInv'
    BY <1>1, <1>2, <1>3, <1>4
<1>5. CASE Outage \/ Recovery
    BY <1>4, <1>5 DEF Outage, Recovery
<1>6. ASSUME NEW t \in AllTopics, AutoCreate(t) PROVE ResultInv'
  <2>1. /\ t = EventsTopic => EventsTopic \in unlucky
        /\ t \in Topics => unwaited \/ t \in unlucky
      BY <1>2, <1>6 DEF AutoCreate, Uses, SeenInv, ConsumersHaveTopics
  <2>2. /\ UNCHANGED <<worker, pending, unlucky, unwaited>>
        /\ \A s \in AllTopics : partitions'[s] = AutoPartitions =>
               s = t \/ partitions[s] = AutoPartitions
      BY <1>6 DEF AutoCreate
  <2>3. \A s \in AllTopics : s = EventsTopic \/ s \in Topics
      BY DEF AllTopics
  <2>4. TopicsAsPlanned'
      BY <1>1, <1>2, <2>1, <2>2, <2>3
  <2> QED
      BY <1>1, <2>2, <2>4
<1>7. ASSUME NEW w \in Workers, RequestTopics(w) PROVE ResultInv'
    BY <1>1, <1>2, <1>7 DEF RequestTopics, WorkerStates
<1>8. ASSUME NEW w \in Workers, Serve(w) PROVE ResultInv'
    BY <1>1, <1>2, <1>8 DEF Serve, WorkerStates
<1>9. ASSUME NEW w \in Workers, NEW t \in AllTopics, TopicCreated(w, t) PROVE ResultInv'
  <2>1. Exists(t)'
      BY <1>9 DEF TopicCreated, Exists
  <2>2. \A s \in AllTopics : partitions'[s] = AutoPartitions => partitions[s] = AutoPartitions
      BY <1>9 DEF TopicCreated
  <2>3. /\ worker' = worker
        /\ \A v \in Workers, s \in AllTopics : s \in pending[v] => s \in pending'[v] \/ s = t
      BY <1>9 DEF TopicCreated, Resolved
  <2> QED
      BY <1>1, <1>2, <1>3, <2>1, <2>2, <2>3
<1>10. ASSUME NEW w \in Workers, NEW t \in AllTopics, TopicFails(w, t) PROVE ResultInv'
  <2>1. t \in unlucky'
      BY <1>10 DEF TopicFails
  <2>2. \A s \in AllTopics : partitions'[s] = AutoPartitions => partitions[s] = AutoPartitions
      BY <1>10 DEF TopicFails
  <2>3. /\ worker' = worker
        /\ \A v \in Workers, s \in AllTopics : s \in pending[v] => s \in pending'[v] \/ s = t
      BY <1>10 DEF TopicFails, Resolved
  <2> QED
      BY <1>1, <1>2, <1>3, <2>1, <2>2, <2>3
<1>11. CASE StorageStep
    BY <1>4, <1>11 DEF StorageStep, StorageSees, StorageMisses, StorageEnds,
        TablesMade, TablesFail, StorageRestarts
<1>12. CASE RedisStep \/ StartStep \/ CacheRestarts
    BY <1>4, <1>12, CacheStepsAlone DEF CacheOnly
<1>13. CASE UNCHANGED vars
    BY <1>4, <1>13 DEF vars
<1> QED
    BY <1>5, <1>6, <1>7, <1>8, <1>9, <1>10, <1>11, <1>12, <1>13 DEF Next, WorkerStep

-----------------------------------------------------------------------------
(* Theorems *)

\* The inductive invariant holds in every state of the start-up.
THEOREM StartupInvariance == Spec => []IInv
<1>1. IInv /\ [Next]_vars => IInv'
    BY TypeStep, SeenStep, ResultStep DEF IInv
<1> QED
    BY InitInv, <1>1, PTL DEF Spec

\* Attempts, rounds and delays stay within the numbers in the code, whatever Kafka
\* and Redis do.
THEOREM StartupTypeCorrect == Spec => []TypeOK
<1>1. IInv => TypeOK
    BY DEF IInv
<1> QED
    BY <1>1, StartupInvariance, PTL

\* Storage goes on only to topics that exist; the cache does unless its wait has raised.
THEOREM TopicsSeen == Spec => []ConsumersHaveTopics
<1>1. IInv => ConsumersHaveTopics
    BY DEF IInv, SeenInv
<1> QED
    BY <1>1, StartupInvariance, PTL

\* A serving worker has its topics or logged failures; a topic with the broker's number of
\* partitions, whichever client made it, has a failed creation behind it, or a cache
\* that went on without its topics.
THEOREM TopicsPlanned == Spec => []TopicsAsPlanned
<1>1. IInv => TopicsAsPlanned
    BY DEF IInv, ResultInv
<1> QED
    BY <1>1, StartupInvariance, PTL
=============================================================================
