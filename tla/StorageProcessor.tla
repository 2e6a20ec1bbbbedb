-------------------------- MODULE StorageProcessor --------------------------
(***************************************************************************)
(* The storage service: process_batches polls Kafka, inserts the records   *)
(* of each topic into ClickHouse in concurrent tasks with bounded retries  *)
(* and commits when no insert of the cycle has failed.  The position of    *)
(* the Kafka client moves on whatever the outcome, and commit() covers all *)
(* of it.  Signals ask for a drain, then for an immediate exit; the        *)
(* process may crash at any time.                                          *)
(*                                                                         *)
(* Blocking calls run in threads the event loop awaits; what such a call   *)
(* does outside the process (a poll, an insert under the client's RLock)   *)
(* is one step, and so is the code between two awaits.  One partition per  *)
(* topic; a record is identified by its topic and index (from 1).  Buffers *)
(* and batches are sets: no record comes twice to one process, and the     *)
(* order of the rows of an insert means nothing.                           *)
(***************************************************************************)
EXTENDS Integers, Sequences, FiniteSets, Functions

CONSTANTS Topics,         \* kafka_consumer_topics
          BatchSize,      \* storage_batch_size: messages per poll
          MaxConcurrent,  \* storage_max_concurrent_inserts
          MaxAttempts,    \* max_retries of an insert (3 in the code)
          MaxLost,        \* bound: inserts that are executed and still raise
          MaxLog,         \* bound: records per topic
          MaxRuns         \* bound: times the process is started

ASSUME StorageAssumption ==
    /\ IsFiniteSet(Topics)
    /\ BatchSize \in Nat \ {0}
    /\ MaxConcurrent \in Nat \ {0}
    /\ MaxAttempts \in Nat \ {0}
    /\ MaxLost \in Nat
    /\ MaxLog \in Nat
    /\ MaxRuns \in Nat \ {0}

\* What becomes of a record: a row ("fit"), a row no insert accepts ("unfit": not
\* an object, or its columns do not match), skipped (JSONDecodeError), or any
\* other exception in consume_batch.
Kinds == {"fit", "unfit", "junk", "poison"}

Records == [topic : Topics, index : 1..MaxLog]

VARIABLES
    log,        \* the records of each topic, as their Kinds
    committed,  \* next offset of the group at the broker
    copies,     \* how often ClickHouse holds each record
    proc,       \* the process: "up" or "down"
    runs,       \* times it was started
    signals,    \* signals received: 1 sets shutdown_event, 2 cancels all tasks
    loop,       \* process_batches: what it awaits
    position,   \* next offset of each topic the Kafka client returns
    buffers,    \* KafkaBatchConsumer.buffers
    batches,    \* the batches of this cycle
    task,       \* the _insert_topic task of each topic
    attempts,   \* its failed attempts
    failed,     \* any_insert_failed
    requests,   \* asynchronous commits on their way to the broker
    forsaken,   \* records of failed or skipped inserts (history)
    dropped,    \* records of polls that raised before they were parsed (history)
    lost        \* inserts that were executed and raised (history)

external == <<log, committed, copies>>
process  == <<proc, runs, signals>>
intake   == <<position, buffers>>
cycle    == <<batches, task, attempts, failed>>
givenUp  == <<forsaken, dropped>>
history  == <<givenUp, lost>>
vars     == <<external, process, loop, intake, cycle, requests, history>>

Offsets == [Topics -> 0..MaxLog]

LoopStates == {"poll", "inserts", "commit", "sleep", "stopped"}
TaskStates == {"none", "new", "waiting", "insert", "backoff", "stored", "skipped",
               "failed"}

TypeOK ==
    /\ log \in [Topics -> Seq(Kinds)]
    /\ committed \in Offsets
    /\ copies \in [Records -> Nat]
    /\ proc \in {"up", "down"}
    /\ runs \in 1..MaxRuns
    /\ signals \in 0..2
    /\ loop \in LoopStates
    /\ position \in Offsets
    /\ buffers \in [Topics -> SUBSET Records]
    /\ batches \in [Topics -> SUBSET Records]
    /\ task \in [Topics -> TaskStates]
    /\ attempts \in [Topics -> 0..MaxAttempts]
    /\ failed \in BOOLEAN
    /\ requests \in Seq(Offsets)
    /\ forsaken \in SUBSET Records
    /\ dropped \in SUBSET Records
    /\ lost \in 0..MaxLost

Empty == [t \in Topics |-> {}]

NoCycle ==
    /\ batches' = Empty
    /\ task' = [t \in Topics |-> "none"]
    /\ attempts' = [t \in Topics |-> 0]
    /\ failed' = FALSE

Init ==
    /\ log = [t \in Topics |-> <<>>]
    /\ committed = [t \in Topics |-> 0]
    /\ copies = [r \in Records |-> 0]
    /\ proc = "up"
    /\ runs = 1
    /\ signals = 0
    /\ loop = "poll"
    /\ position = [t \in Topics |-> 0]
    /\ buffers = Empty
    /\ batches = Empty
    /\ task = [t \in Topics |-> "none"]
    /\ attempts = [t \in Topics |-> 0]
    /\ failed = FALSE
    /\ requests = <<>>
    /\ forsaken = {}
    /\ dropped = {}
    /\ lost = 0

-----------------------------------------------------------------------------
(* The Kafka side *)

Produce(t, kind) ==
    /\ Len(log[t]) < MaxLog
    /\ log' = [log EXCEPT ![t] = Append(@, kind)]
    /\ UNCHANGED <<committed, copies, process, loop, intake, cycle, requests,
                   history>>

\* A commit request reaches the broker, in the order they were sent.
BrokerCommits ==
    /\ requests # <<>>
    /\ committed' = Head(requests)
    /\ requests' = Tail(requests)
    /\ UNCHANGED <<log, copies, process, loop, intake, cycle, history>>

\* Or it fails, of which nobody is told.
CommitLost ==
    /\ requests # <<>>
    /\ requests' = Tail(requests)
    /\ UNCHANGED <<external, process, loop, intake, cycle, history>>

-----------------------------------------------------------------------------
(* consume_batch *)

\* The records of a topic behind the client's position, n messages of them.
Polled(t, n) ==
    {[topic |-> t, index |-> i] : i \in (position[t] + 1)..(position[t] + n)}

KindOf(r) == log[r.topic][r.index]

IsRow(r) == KindOf(r) \in {"fit", "unfit"}

Parsed(t, n) == {r \in Polled(t, n) : IsRow(r)}

\* What a poll may return of each topic: storage_batch_size messages in all.
Polls ==
    {n \in [Topics -> 0..BatchSize] :
        /\ \A t \in Topics : n[t] <= Len(log[t]) - position[t]
        /\ SumFunction(n) <= BatchSize}

NoPoison(n) == \A t \in Topics : \A r \in Polled(t, n[t]) : KindOf(r) # "poison"

Forward(n) == [t \in Topics |-> position[t] + n[t]]

Buffered(n) == [t \in Topics |-> buffers[t] \cup Parsed(t, n[t])]

\* The head of the loop: shutdown_event is looked at here only.
LoopHead == IF signals = 0 THEN "poll" ELSE "stopped"

\* No message within the timeout: {} and a sleep, whatever is in the buffers.
ConsumeNothing ==
    /\ loop = "poll"
    /\ loop' = "sleep"
    /\ NoCycle
    /\ UNCHANGED <<external, process, intake, requests, history>>

\* Mutants of ConsumeBatch: the buffers are not cleared; the leftovers of an
\* earlier call are.
ConsumeBatchKeepsBuffers ==
    /\ loop = "poll"
    /\ \E n \in Polls :
         /\ \E t \in Topics : n[t] > 0
         /\ NoPoison(n)
         /\ position' = Forward(n)
         /\ batches' = Buffered(n)
    /\ buffers' = batches'
    /\ task' = [t \in Topics |-> IF batches'[t] = {} THEN "none" ELSE "new"]
    /\ attempts' = [t \in Topics |-> 0]
    /\ failed' = FALSE
    /\ loop' = IF batches' = Empty THEN "sleep" ELSE "inserts"
    /\ UNCHANGED <<external, process, requests, history>>

ConsumeBatchDropsBuffers ==
    /\ loop = "poll"
    /\ \E n \in Polls :
         /\ \E t \in Topics : n[t] > 0
         /\ NoPoison(n)
         /\ position' = Forward(n)
         /\ batches' = [t \in Topics |-> Parsed(t, n[t])]
    /\ buffers' = Empty
    /\ task' = [t \in Topics |-> IF batches'[t] = {} THEN "none" ELSE "new"]
    /\ attempts' = [t \in Topics |-> 0]
    /\ failed' = FALSE
    /\ loop' = IF batches' = Empty THEN "sleep" ELSE "inserts"
    /\ UNCHANGED <<external, process, requests, history>>

\* All messages are handled: the buffers become the batches of the cycle, with
\* a task for each that is not empty.
ConsumeBatch ==
    /\ loop = "poll"
    /\ \E n \in Polls :
         /\ \E t \in Topics : n[t] > 0
         /\ NoPoison(n)
         /\ position' = Forward(n)
         /\ batches' = Buffered(n)
    /\ buffers' = Empty
    /\ task' = [t \in Topics |-> IF batches'[t] = {} THEN "none" ELSE "new"]
    /\ attempts' = [t \in Topics |-> 0]
    /\ failed' = FALSE
    /\ loop' = IF batches' = Empty THEN "sleep" ELSE "inserts"
    /\ UNCHANGED <<external, process, requests, history>>

\* An error event or a poison record: of the n messages m were put into the
\* buffers before it, the others are gone.
ConsumeRaises ==
    /\ loop = "poll"
    /\ \E n, m \in Polls :
         /\ \A t \in Topics : m[t] <= n[t]
         /\ NoPoison(m)
         /\ position' = Forward(n)
         /\ buffers' = Buffered(m)
         /\ dropped' = dropped \cup
              UNION {Parsed(t, n[t]) \ Parsed(t, m[t]) : t \in Topics}
    /\ loop' = "sleep"
    /\ NoCycle
    /\ UNCHANGED <<external, process, requests, forsaken, lost>>

-----------------------------------------------------------------------------
(* The insert tasks *)

TaskBegins(t) ==
    /\ task[t] = "new"
    /\ task' = [task EXCEPT ![t] = IF failed THEN "skipped" ELSE "waiting"]
    /\ UNCHANGED <<external, process, loop, intake, batches, attempts, failed,
                   requests, history>>

\* async with semaphore: held over all attempts and the delays between them.
TaskAcquires(t) ==
    /\ task[t] = "waiting"
    /\ Cardinality({u \in Topics : task[u] \in {"insert", "backoff"}}) < MaxConcurrent
    /\ task' = [task EXCEPT ![t] = "insert"]
    /\ UNCHANGED <<external, process, loop, intake, batches, attempts, failed,
                   requests, history>>

Insertable(t) == \A r \in batches[t] : KindOf(r) = "fit"

\* MergeTree keeps every row it is given: no deduplication.
WithRows(T) ==
    [r \in Records |-> IF \E t \in T : r \in batches[t] THEN copies[r] + 1 ELSE copies[r]]

InsertOk(t) ==
    /\ task[t] = "insert"
    /\ Insertable(t)
    /\ copies' = WithRows({t})
    /\ task' = [task EXCEPT ![t] = "stored"]
    /\ UNCHANGED <<log, committed, process, loop, intake, batches, attempts, failed,
                   requests, history>>

NotExecuted == UNCHANGED <<copies, lost>>

ReplyLost(t) ==
    /\ lost < MaxLost
    /\ Insertable(t)
    /\ copies' = WithRows({t})
    /\ lost' = lost + 1

\* Mutants of InsertRaises: one attempt too many; no bound at all.
InsertRaisesOffByOne(t) ==
    /\ task[t] = "insert"
    /\ NotExecuted \/ ReplyLost(t)
    /\ attempts' = [attempts EXCEPT ![t] = @ + 1]
    /\ IF attempts'[t] > MaxAttempts
       THEN task' = [task EXCEPT ![t] = "failed"] /\ failed' = TRUE
       ELSE task' = [task EXCEPT ![t] = "backoff"] /\ UNCHANGED failed
    /\ UNCHANGED <<log, committed, process, loop, intake, batches, requests, givenUp>>

InsertRaisesUncounted(t) ==
    /\ task[t] = "insert"
    /\ task' = [task EXCEPT ![t] = "backoff"]
    /\ UNCHANGED <<external, process, loop, intake, batches, attempts, failed,
                   requests, history>>

\* insert_rows raises; the rows may be in the table all the same.
InsertRaises(t) ==
    /\ task[t] = "insert"
    /\ NotExecuted \/ ReplyLost(t)
    /\ attempts' = [attempts EXCEPT ![t] = @ + 1]
    /\ IF attempts'[t] >= MaxAttempts
       THEN task' = [task EXCEPT ![t] = "failed"] /\ failed' = TRUE
       ELSE task' = [task EXCEPT ![t] = "backoff"] /\ UNCHANGED failed
    /\ UNCHANGED <<log, committed, process, loop, intake, batches, requests, givenUp>>

BackoffOver(t) ==
    /\ task[t] = "backoff"
    /\ task' = [task EXCEPT ![t] = "insert"]
    /\ UNCHANGED <<external, process, loop, intake, batches, attempts, failed,
                   requests, history>>

-----------------------------------------------------------------------------
(* The end of a cycle *)

\* A full batch: more is waiting, no sleep.
AfterCycle == IF \E t \in Topics : Cardinality(batches[t]) >= BatchSize THEN LoopHead ELSE "sleep"

TasksOver ==
    \A t \in Topics : task[t] \in {"none", "stored", "skipped", "failed"}

\* Mutant of GatherToCommit: commits whatever has failed.
GatherCommitsAnyway ==
    /\ loop = "inserts"
    /\ TasksOver
    /\ loop' = "commit"
    /\ UNCHANGED <<external, process, intake, cycle, requests, history>>

GatherToCommit ==
    /\ loop = "inserts"
    /\ TasksOver
    /\ ~failed
    /\ loop' = "commit"
    /\ UNCHANGED <<external, process, intake, cycle, requests, history>>

\* Some insert failed: no commit, and the batches are not kept either.
GatherFailed ==
    /\ loop = "inserts"
    /\ TasksOver
    /\ failed
    /\ loop' = AfterCycle
    /\ forsaken' = forsaken \cup
         UNION {batches[t] : t \in {u \in Topics : task[u] \in {"skipped", "failed"}}}
    /\ UNCHANGED <<external, process, intake, cycle, requests, dropped, lost>>

\* commit() returns before the broker has answered.
CommitSent ==
    /\ loop = "commit"
    /\ requests' = Append(requests, position)
    /\ loop' = AfterCycle
    /\ UNCHANGED <<external, process, intake, cycle, history>>

CommitRaises ==
    /\ loop = "commit"
    /\ loop' = AfterCycle
    /\ UNCHANGED <<external, process, intake, cycle, requests, history>>

\* Mutant of SleepOver: goes on without a look at shutdown_event.
SleepOverIgnoresSignal ==
    /\ loop = "sleep"
    /\ loop' = "poll"
    /\ NoCycle
    /\ UNCHANGED <<external, process, intake, requests, history>>

SleepOver ==
    /\ loop = "sleep"
    /\ loop' = LoopHead
    /\ NoCycle
    /\ UNCHANGED <<external, process, intake, requests, history>>

-----------------------------------------------------------------------------
(* Signals, exit, crash, restart *)

DrainSignal ==
    /\ proc = "up"
    /\ signals = 0
    /\ signals' = 1
    /\ UNCHANGED <<external, proc, runs, loop, intake, cycle, requests, history>>

\* The second signal cancels all tasks.  Threads are not cancelled: the process
\* waits for them, so an insert that was running may still take place.
CancelSignal ==
    /\ proc = "up"
    /\ signals = 1
    /\ signals' = 2
    /\ \E T \in SUBSET {t \in Topics : task[t] = "insert" /\ Insertable(t)} :
         copies' = WithRows(T)
    /\ requests' \in {requests} \cup
         (IF loop = "commit" THEN {Append(requests, position)} ELSE {})
    /\ loop' = "stopped"
    /\ NoCycle
    /\ UNCHANGED <<log, committed, proc, runs, intake, history>>

Vanish ==
    /\ proc' = "down"
    /\ loop' = "stopped"
    /\ buffers' = Empty
    /\ NoCycle
    /\ requests' = <<>>
    /\ UNCHANGED <<external, runs, signals, position, history>>

Exit == proc = "up" /\ loop = "stopped" /\ Vanish

Crash == proc = "up" /\ Vanish

\* Mutant of Restart: reads from the beginning, whatever was committed.
RestartFromZero ==
    /\ proc = "down"
    /\ runs < MaxRuns
    /\ proc' = "up"
    /\ runs' = runs + 1
    /\ signals' = 0
    /\ position' = [t \in Topics |-> 0]
    /\ loop' = "poll"
    /\ UNCHANGED <<external, buffers, cycle, requests, history>>

\* A new process: auto.offset.reset is "earliest" when nothing was committed.
Restart ==
    /\ proc = "down"
    /\ runs < MaxRuns
    /\ proc' = "up"
    /\ runs' = runs + 1
    /\ signals' = 0
    /\ position' = committed
    /\ loop' = "poll"
    /\ UNCHANGED <<external, buffers, cycle, requests, history>>

-----------------------------------------------------------------------------
LoopStep ==
    \/ ConsumeNothing \/ ConsumeBatch \/ ConsumeRaises
    \/ GatherToCommit \/ GatherFailed \/ CommitSent \/ CommitRaises \/ SleepOver

TaskStep(t) ==
    TaskBegins(t) \/ TaskAcquires(t) \/ InsertOk(t) \/ InsertRaises(t) \/ BackoffOver(t)

Next ==
    \/ \E t \in Topics, kind \in Kinds : Produce(t, kind)
    \/ BrokerCommits \/ CommitLost
    \/ LoopStep
    \/ \E t \in Topics : TaskStep(t)
    \/ DrainSignal \/ CancelSignal
    \/ Exit \/ Crash \/ Restart

Spec == Init /\ [][Next]_vars

-----------------------------------------------------------------------------
(* Fairness: the event loop runs what can go on, and a blocking call returns or
   raises.  Nothing makes ClickHouse take an insert.  The broker delivers: a
   poll that could return a record does so in the end, however many time out. *)

Delivery == (ConsumeBatch \/ ConsumeRaises) /\ position' # position

FairSpec ==
    /\ Spec
    /\ WF_vars(LoopStep)
    /\ SF_vars(Delivery)
    /\ \A t \in Topics : WF_vars(TaskStep(t))
    /\ WF_vars(Exit)

-----------------------------------------------------------------------------
(* Properties *)

LogRecords == {r \in Records : r.index <= Len(log[r.topic])}

Rows == {r \in LogRecords : IsRow(r)}

CommittedRows == {r \in Rows : r.index <= committed[r.topic]}

\* A row the group's offset covers is in ClickHouse, or belongs to a batch whose
\* cycle failed, or to the rest of a poll that raised: nothing else loses rows,
\* no crash, lost commit, signal or leftover in the buffers.
StoredOrForsaken == \A r \in CommittedRows : copies[r] > 0 \/ r \in forsaken \cup dropped

\* MergeTree does not deduplicate.  A record is inserted once by each run of the
\* process, and once more for every insert that was executed and raised, within
\* the attempts of each run; whatever is left over, skipped, retried, cancelled.
CopiesBounded ==
    \A r \in Records : copies[r] <= runs + lost /\ copies[r] <= MaxAttempts * runs

\* The group's offsets never move back, though commits are asynchronous, get
\* lost, and a restarted process reads old records again.
CommitMonotone == [][\A t \in Topics : committed[t] <= committed'[t]]_vars

\* After the first signal the loop comes to an end with the cycle it is in, even
\* with ClickHouse and Kafka failing, and the process exits.
DrainTerminates == (proc = "up" /\ signals > 0) ~> (proc = "down")

\* Nothing is left to read, so nothing makes consume_batch hand out the record.
Stuck(r) == r \in buffers[r.topic] /\ \A t \in Topics : position[t] = Len(log[t])

\* A row in Kafka is inserted or given up in the end, unless the process is told
\* to stop or dies, or the row is left in the buffers by a poll that raised and
\* no later record comes to fetch it.
EventuallyHandled ==
    \A r \in Records :
        r \in Rows ~> \/ copies[r] > 0 \/ r \in forsaken \cup dropped
                      \/ signals > 0 \/ proc = "down" \/ Stuck(r)

-----------------------------------------------------------------------------
(* What the documentation says, and the code does not do *)

\* docs/modules/storage/README.md: on insert failure, offsets are not committed;
\* messages will reprocess.  So the offsets cover no row whose insert failed,
\* as long as it is not in ClickHouse.
CommittedIsInserted == \A r \in CommittedRows : r \in forsaken => copies[r] > 0
=============================================================================
