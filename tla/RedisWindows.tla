---------------------------- MODULE RedisWindows ----------------------------
(***************************************************************************)
(* The window cache in Redis: CacheRepository writes batches of operations *)
(* through a pipeline that is not a transaction, trims the index of every  *)
(* type it has touched, and answers the requests of the metrics API.       *)
(*                                                                         *)
(* Redis runs one command at a time, so a step is one command, and the     *)
(* writer and the request interleave between any two.  Time is left to     *)
(* chance: a hash that has a TTL may expire at any moment.  There is one   *)
(* writer (the service runs one redis_batch_worker).  Operation i is the   *)
(* ith the worker reads; it carries i as the value of its field, and a     *)
(* field stands for the two numbers of one event type or device category.  *)
(***************************************************************************)
EXTENDS Integers, Sequences, FiniteSets

CONSTANTS Types,        \* window types: "event", "perf" or both
          Fields,       \* event types or device categories
          Retention,    \* window_retention_count
          Limits,       \* the limits requests come with
          MaxWindow,    \* bound: window starts
          MaxOps,       \* bound: operations
          MaxCrashes    \* bound: crashes of the service

ASSUME RedisAssumption ==
    /\ Types \subseteq {"event", "perf"}
    /\ IsFiniteSet(Fields)
    /\ Retention \in Nat \ {0}
    /\ Limits \subseteq Int
    /\ MaxWindow \in Nat
    /\ MaxOps \in Nat
    /\ MaxCrashes \in Nat

Windows == 1..MaxWindow

Ops == [type : Types, window : Windows, field : Fields]

\* One zrevrange and the hgetalls that follow it.
Lookups == [type : Types, limit : Limits \cup {1}]

VARIABLES
    stream,     \* the operations so far, in the order of the Kafka partition
    index,      \* the sorted set of each type; the score is the window start
    hash,       \* the fields of each window hash, 0 for one that is not there
    life,       \* of each hash: never written, without TTL, with TTL, expired
    writer,     \* pipeline_apply: what it awaits
    since,      \* where the running process began to read (history)
    done,       \* operations up to here are behind the worker
    upto,       \* its batch ends here
    sent,       \* commands of the pipeline Redis has executed
    touched,    \* indices still to be trimmed
    excess,     \* what zcard has come to
    crashes,
    cutoff,     \* hashes of a batch a crash has cut off (history)
    asked,      \* the lookups the request still has to make, the current one first
    ids,        \* window starts it has got and not looked up
    found,      \* windows of the answer
    shown       \* the latest window a client was last shown (history)

redis   == <<index, hash, life>>
flush   == <<writer, since, done, upto, sent, touched, excess>>
ended   == <<crashes, cutoff>>
request == <<asked, ids, found, shown>>
vars    == <<stream, redis, flush, ended, request>>

LifeStates == {"absent", "eternal", "timed", "expired"}

TypeOK ==
    /\ stream \in Seq(Ops) /\ Len(stream) <= MaxOps
    /\ index \in [Types -> SUBSET Windows]
    /\ hash \in [Types -> [Windows -> [Fields -> 0..MaxOps]]]
    /\ life \in [Types -> [Windows -> LifeStates]]
    /\ writer \in {"idle", "pipeline", "zcard", "zrem", "retry"}
    /\ since \in 0..MaxOps
    /\ done \in 0..Len(stream)
    /\ upto \in done..Len(stream)
    /\ sent \in 0..3 * MaxOps
    /\ touched \in SUBSET Types
    /\ excess \in 0..MaxWindow
    /\ crashes \in 0..MaxCrashes
    /\ cutoff \subseteq Types \X Windows
    /\ asked \in Seq(Lookups)
    /\ ids \in SUBSET Windows
    /\ found \in SUBSET Windows
    /\ shown \in [Types -> 0..MaxWindow]

NoHash == [f \in Fields |-> 0]

Init ==
    /\ stream = <<>>
    /\ index = [ty \in Types |-> {}]
    /\ hash = [ty \in Types |-> [w \in Windows |-> NoHash]]
    /\ life = [ty \in Types |-> [w \in Windows |-> "absent"]]
    /\ writer = "idle"
    /\ since = 0
    /\ done = 0
    /\ upto = 0
    /\ sent = 0
    /\ touched = {}
    /\ excess = 0
    /\ crashes = 0
    /\ cutoff = {}
    /\ asked = <<>>
    /\ ids = {}
    /\ found = {}
    /\ shown = [ty \in Types |-> 0]

-----------------------------------------------------------------------------
(* pipeline_apply *)

Operation(op) ==
    /\ Len(stream) < MaxOps
    /\ stream' = Append(stream, op)
    /\ UNCHANGED <<redis, flush, ended, request>>

\* The worker flushes: a new batch, or after a failure the old one, which may
\* have grown.
Flush ==
    /\ writer \in {"idle", "retry"}
    /\ \E n \in (done + 1)..Len(stream) : n >= upto /\ upto' = n
    /\ writer' = "pipeline"
    /\ sent' = 0
    /\ UNCHANGED <<stream, redis, since, done, touched, excess, ended, request>>

\* Three commands for each operation, in the order of the batch.
Commands == 3 * (upto - done)

\* Mutant of OpIndex: the batch goes out from its end.
OpIndexReversed(k) == upto - (k \div 3)

OpIndex(k) == done + 1 + (k \div 3)

\* Mutants of Command: the index first; the TTL before there is a hash.
CommandIndexFirst(k) == <<"zadd", "hset", "expire">>[1 + (k % 3)]

CommandTtlFirst(k) == <<"expire", "hset", "zadd">>[1 + (k % 3)]

Command(k) == <<"hset", "expire", "zadd">>[1 + (k % 3)]

Hset(op, value) ==
    /\ hash' = [hash EXCEPT ![op.type][op.window][op.field] = value]
    /\ life' = [life EXCEPT ![op.type][op.window] =
                  IF @ = "timed" THEN "timed" ELSE "eternal"]
    /\ UNCHANGED index

\* No effect on a key that is not there.
ExpireCmd(op) ==
    /\ life' = [life EXCEPT ![op.type][op.window] =
                  IF @ = "eternal" THEN "timed" ELSE @]
    /\ UNCHANGED <<index, hash>>

Zadd(op) ==
    /\ index' = [index EXCEPT ![op.type] = @ \cup {op.window}]
    /\ UNCHANGED <<hash, life>>

\* Redis executes the next command of the pipeline.
PipelineCommand ==
    /\ writer = "pipeline"
    /\ sent < Commands
    /\ LET i  == OpIndex(sent)
           op == stream[i]
       IN  \/ Command(sent) = "hset" /\ Hset(op, i)
           \/ Command(sent) = "expire" /\ ExpireCmd(op)
           \/ Command(sent) = "zadd" /\ Zadd(op)
    /\ sent' = sent + 1
    /\ UNCHANGED <<stream, writer, since, done, upto, touched, excess, ended,
                   request>>

\* execute() returns: the touched indices are trimmed, the event index first.
PipelineReturns ==
    /\ writer = "pipeline"
    /\ sent = Commands
    /\ touched' = {stream[i].type : i \in (done + 1)..upto}
    /\ writer' = "zcard"
    /\ UNCHANGED <<stream, redis, since, done, upto, sent, excess, ended, request>>

TrimType == IF "event" \in touched THEN "event" ELSE "perf"

\* An index is dealt with; after the last one pipeline_apply returns.
Trimmed ==
    /\ touched' = touched \ {TrimType}
    /\ IF touched' = {} THEN writer' = "idle" /\ done' = upto
                        ELSE writer' = "zcard" /\ UNCHANGED done

\* Mutant of TrimCount: one window too many is let be.
TrimCountOffByOne ==
    /\ writer = "zcard"
    /\ LET size == Cardinality(index[TrimType])
       IN  IF size > Retention + 1
           THEN excess' = size - Retention /\ writer' = "zrem" /\ UNCHANGED <<touched, done>>
           ELSE Trimmed /\ UNCHANGED excess
    /\ UNCHANGED <<stream, redis, since, upto, sent, ended, request>>

TrimCount ==
    /\ writer = "zcard"
    /\ LET size == Cardinality(index[TrimType])
       IN  IF size > Retention
           THEN excess' = size - Retention /\ writer' = "zrem" /\ UNCHANGED <<touched, done>>
           ELSE Trimmed /\ UNCHANGED excess
    /\ UNCHANGED <<stream, redis, since, upto, sent, ended, request>>

\* What zremrangebyrank(0, n - 1) leaves.
WithoutLowest(S, n) == {w \in S : Cardinality({v \in S : v < w}) >= n}

\* Mutant of TrimmedIndex: zremrangebyrank(0, excess).
TrimmedIndexOffByOne == [index EXCEPT ![TrimType] = WithoutLowest(@, excess + 1)]

TrimmedIndex == [index EXCEPT ![TrimType] = WithoutLowest(@, excess)]

TrimRemove ==
    /\ writer = "zrem"
    /\ index' = TrimmedIndex
    /\ Trimmed
    /\ UNCHANGED <<stream, hash, life, since, upto, sent, excess, ended, request>>

\* A command raises: the worker will flush the whole batch again.  The command
\* may have been executed all the same.
ApplyFails ==
    /\ writer \in {"pipeline", "zcard", "zrem"}
    /\ index' \in {index} \cup (IF writer = "zrem" THEN {TrimmedIndex} ELSE {})
    /\ writer' = "retry"
    /\ touched' = {}
    /\ UNCHANGED <<stream, hash, life, since, done, upto, sent, excess, ended,
                   request>>

-----------------------------------------------------------------------------
(* The requests of the metrics API, one at a time *)

Lookup(ty, limit) == [type |-> ty, limit |-> limit]

\* /event/latest, /event/windows, /performance/windows and /overview.
Requests ==
    {<<Lookup(ty, limit)>> : ty \in Types, limit \in Limits} \cup
    (IF "event" \in Types THEN {<<Lookup("event", 1)>>} ELSE {}) \cup
    (IF Types = {"event", "perf"}
     THEN {<<Lookup("event", 1), Lookup("perf", 1)>>} ELSE {})

\* zrevrange(0, limit - 1): a negative end counts from the last element.
RangeSize(n, limit) == IF limit > 0 THEN limit ELSE n + limit

\* Mutant of Newest: zrange for zrevrange.
NewestFromOldest(S, limit) ==
    {w \in S : Cardinality({v \in S : v < w}) < RangeSize(Cardinality(S), limit)}

Newest(S, limit) ==
    {w \in S : Cardinality({v \in S : v > w}) < RangeSize(Cardinality(S), limit)}

\* A request comes in and its zrevrange is executed.
RangeRead(lookups) ==
    /\ asked' = lookups
    /\ ids' = Newest(index[Head(lookups).type], Head(lookups).limit)
    /\ found' = {}

RequestBegins ==
    /\ asked = <<>>
    /\ \E lookups \in Requests : RangeRead(lookups)
    /\ UNCHANGED <<stream, redis, flush, ended, shown>>

Live(ty, w) == life[ty][w] \in {"eternal", "timed"}

\* hgetall, of the newest window first; one whose hash is empty is left out.
HashRead ==
    /\ \E w \in ids :
         /\ \A v \in ids : v <= w
         /\ ids' = ids \ {w}
         /\ found' = IF Live(Head(asked).type, w) THEN found \cup {w} ELSE found
    /\ UNCHANGED <<stream, redis, flush, ended, asked, shown>>

\* The lookup is over: the next one of an overview, or the response.
LookupOver ==
    /\ asked # <<>>
    /\ ids = {}
    /\ \/ Head(asked).limit = 1 /\ \E w \in found : shown' = [shown EXCEPT ![Head(asked).type] = w]
       \/ (Head(asked).limit # 1 \/ found = {}) /\ UNCHANGED shown
    /\ IF Len(asked) > 1 THEN RangeRead(Tail(asked))
                         ELSE asked' = <<>> /\ found' = {} /\ UNCHANGED ids
    /\ UNCHANGED <<stream, redis, flush, ended>>

-----------------------------------------------------------------------------
(* Expiry, crash *)

Expire(ty, w) ==
    /\ life[ty][w] = "timed"
    /\ life' = [life EXCEPT ![ty][w] = "expired"]
    /\ hash' = [hash EXCEPT ![ty][w] = NoHash]
    /\ UNCHANGED <<stream, index, flush, ended, request>>

\* The operations this process has applied.
Applied == (since + 1)..done

Writes(i, ty, w) == stream[i].type = ty /\ stream[i].window = w

\* The batch in hand writes the hash, or one did that a crash has cut off and no
\* batch has been applied since that writes it.
Unfinished(ty, w) ==
    \/ \E i \in (done + 1)..upto : Writes(i, ty, w)
    \/ <<ty, w>> \in cutoff /\ ~\E i \in Applied : Writes(i, ty, w)

\* Mutant of Crash: the end of the batch in hand is remembered.
CrashKeepsBatch ==
    /\ crashes < MaxCrashes
    /\ crashes' = crashes + 1
    /\ cutoff' = {c \in Types \X Windows : Unfinished(c[1], c[2])}
    /\ done' \in 0..Len(stream)
    /\ since' = done'
    /\ writer' = "idle"
    /\ sent' = 0
    /\ touched' = {}
    /\ excess' = 0
    /\ asked' = <<>>
    /\ ids' = {}
    /\ found' = {}
    /\ UNCHANGED <<stream, redis, upto, shown>>

\* The service dies, or ends after a final flush that failed, and starts again at
\* whatever offset the group has; requests in progress get no answer.
Crash ==
    /\ crashes < MaxCrashes
    /\ crashes' = crashes + 1
    /\ cutoff' = {c \in Types \X Windows : Unfinished(c[1], c[2])}
    /\ done' \in 0..Len(stream)
    /\ since' = done'
    /\ upto' = done'
    /\ writer' = "idle"
    /\ sent' = 0
    /\ touched' = {}
    /\ excess' = 0
    /\ asked' = <<>>
    /\ ids' = {}
    /\ found' = {}
    /\ UNCHANGED <<stream, redis, shown>>

Next ==
    \/ \E op \in Ops : Operation(op)
    \/ Flush \/ PipelineCommand \/ PipelineReturns \/ TrimCount \/ TrimRemove
    \/ ApplyFails
    \/ RequestBegins \/ HashRead \/ LookupOver
    \/ \E ty \in Types, w \in Windows : Expire(ty, w)
    \/ Crash

Spec == Init /\ [][Next]_vars

-----------------------------------------------------------------------------
(* Properties *)

SameField(i, j) == stream[i] = stream[j]

\* Between two flushes every field an operation of this process has set holds the
\* value of the last such operation, unless the hash has expired since: a retried
\* or partly executed batch never leaves an older value behind.
FieldIsLatest ==
    writer = "idle" =>
        \A i \in Applied :
            (\A j \in Applied : SameField(i, j) => j <= i) =>
                hash[stream[i].type][stream[i].window][stream[i].field] \in {i, 0}

\* A window the index offers to readers has a hash, or had one that expired: in
\* no state in between, failure or crash is an id visible before its data.
IndexedIsReadable ==
    \A ty \in Types : \A w \in index[ty] : life[ty][w] # "absent"

\* Only a batch that was not applied whole leaves a hash without a TTL: failures and
\* retries heal with the batch in hand, and what a crash has left between hset and
\* expire stays, for good, until some batch that writes the hash is applied.
TtlRenewed ==
    \A ty \in Types, w \in Windows : life[ty][w] = "eternal" => Unfinished(ty, w)

\* When pipeline_apply returns, the index of each type of the batch is within
\* the retention count again, however many windows failed flushes and crashed
\* processes have left in it.
RetentionEnforced ==
    [][done' = upto /\ done < upto /\ crashes' = crashes =>
         \A i \in (done + 1)..upto : Cardinality(index'[stream[i].type]) <= Retention]_vars

\* A window leaves the index only when Retention newer ones are in it.
TrimKeepsNewest ==
    [][\A ty \in Types : \A w \in index[ty] \ index'[ty] :
         Cardinality({v \in index[ty] : v > w}) >= Retention]_vars

\* The latest window a client is shown never goes back to an older one, whatever
\* late windows, trims, retries and expiries come in between.
LatestMonotone == [][\A ty \in Types : shown[ty] <= shown'[ty]]_vars

=============================================================================
