---------------------------- MODULE RedisProofs ----------------------------
(***************************************************************************)
(* Proofs about RedisWindows, for any fields, limits and retention count,  *)
(* any number of windows, operations and crashes.                          *)
(***************************************************************************)
EXTENDS RedisWindows, SetLemmas, SequenceTheorems

-----------------------------------------------------------------------------
(* The inductive invariant *)

\* Which batch a writer has in hand, and what is left to trim.
WriterInv ==
    /\ since <= done
    /\ writer = "idle" => upto = done
    /\ writer \in {"pipeline", "zcard", "zrem"} => done < upto
    /\ writer = "pipeline" => sent <= Commands
    /\ writer \in {"zcard", "zrem"} => touched # {}

Batch == (done + 1)..upto

LifeOf(i) == life[stream[i].type][stream[i].window]

\* The operation the pipeline is at.
Current == OpIndex(sent)

\* In the middle of an operation its hash is there already.
ReadableInv ==
    /\ IndexedIsReadable
    /\ writer = "pipeline" /\ sent % 3 # 0 => LifeOf(Current) # "absent"

SameHash(i, j) == stream[i].type = stream[j].type /\ stream[i].window = stream[j].window

\* What the pipeline has given a TTL keeps it, except for the hash of an operation
\* between its hset and its expire.
TtlInv ==
    /\ writer = "pipeline" =>
         \A j \in Batch :
             3 * (j - done) - 1 <= sent /\ LifeOf(j) = "eternal" =>
                 sent % 3 = 1 /\ SameHash(Current, j)
    /\ writer \in {"zcard", "zrem"} => \A j \in Batch : LifeOf(j) # "eternal"

Value(i) == hash[stream[i].type][stream[i].window][stream[i].field]

\* No operation up to n sets the field again.
LastUpTo(i, n) == \A j \in (i + 1)..n : stream[j] # stream[i]

\* Operations of the batch whose hset was executed by this pipeline.
Executed == done + ((sent + 2) \div 3)

\* A field holds the value of the last applied operation, or one of the batch in
\* hand that has been written; what this pipeline has written is the last of it.
FieldInv ==
    /\ \A i \in Applied :
         LastUpTo(i, done) =>
             \/ Value(i) \in {i, 0}
             \/ Value(i) \in Batch /\ stream[Value(i)] = stream[i]
    /\ writer = "pipeline" =>
         \A i \in (done + 1)..Executed : LastUpTo(i, Executed) => Value(i) \in {i, 0}
    /\ writer \in {"zcard", "zrem"} =>
         \A i \in Batch : LastUpTo(i, upto) => Value(i) \in {i, 0}

\* The types of the batch are trimmed or about to be.
TrimInv ==
    /\ writer \in {"zcard", "zrem"} =>
         \A i \in Batch :
             stream[i].type \in touched \/ Cardinality(index[stream[i].type]) <= Retention
    /\ writer = "zrem" => excess = Cardinality(index[TrimType]) - Retention

\* Some window of the index is as new as the one last shown, or about to be shown.
Reached(ty, w) == \E v \in index[ty] : v >= w

ShownInv ==
    /\ \A ty \in Types : shown[ty] = 0 \/ Reached(ty, shown[ty])
    /\ asked # <<>> /\ Head(asked).limit = 1 =>
         \A w \in ids \cup found : shown[Head(asked).type] <= w /\ Reached(Head(asked).type, w)

Inv ==
    /\ TypeOK
    /\ WriterInv
    /\ ReadableInv
    /\ TtlInv
    /\ TtlRenewed
    /\ FieldInv
    /\ TrimInv
    /\ ShownInv

-----------------------------------------------------------------------------
(* Types, the batch and the commands *)

\* An operation has a type, a window and a field.
LEMMA OpType ==
    ASSUME TypeOK, NEW i \in 1..Len(stream)
    PROVE  /\ stream[i] \in Ops
           /\ stream[i].type \in Types /\ stream[i].window \in Windows /\ stream[i].field \in Fields
<1>1. stream[i] \in Ops
    BY ElementOfSeq DEF TypeOK
<1> QED
    BY <1>1 DEF Ops

\* The batch and what was applied before it are operations there are.
LEMMA BatchType ==
    ASSUME TypeOK
    PROVE  /\ since \in Nat /\ done \in Nat /\ upto \in Nat /\ sent \in Nat /\ Len(stream) \in Nat
           /\ done <= upto /\ upto <= Len(stream)
           /\ Batch \subseteq 1..Len(stream) /\ Applied \subseteq 1..Len(stream)
<1>1. Len(stream) \in Nat
    BY LenProperties DEF TypeOK
<1> QED
    BY <1>1, RedisAssumption DEF TypeOK, Batch, Applied

\* Windows of an index are finitely many integers, no more than there are windows.
LEMMA IndexType ==
    ASSUME TypeOK, NEW ty \in Types
    PROVE  /\ index[ty] \in SUBSET Int /\ index[ty] \subseteq Windows /\ IsFiniteSet(index[ty])
           /\ Cardinality(index[ty]) \in 0..MaxWindow
<1>1. index[ty] \in SUBSET Windows
    BY DEF TypeOK
<1>2. IsFiniteSet(Windows) /\ Cardinality(Windows) = MaxWindow
    BY FS_Interval, RedisAssumption DEF Windows
<1>3. IsFiniteSet(index[ty]) /\ Cardinality(index[ty]) <= Cardinality(Windows)
    BY <1>1, <1>2, FS_Subset
<1>4. Cardinality(index[ty]) \in Nat
    BY <1>3, FS_CardinalityType
<1> QED
    BY <1>1, <1>2, <1>3, <1>4, RedisAssumption DEF Windows

\* The type to trim is one of those touched.
LEMMA TrimTypeTouched ==
    ASSUME TypeOK, touched # {}
    PROVE  TrimType \in touched /\ TrimType \in Types
BY RedisAssumption DEF TypeOK, TrimType

\* What the next command of the pipeline is.
LEMMA NextCommand ==
    ASSUME TypeOK, PipelineCommand
    PROVE  \E c \in Batch :
             /\ OpIndex(sent) = c
             /\ \/ sent = 3 * (c - done - 1) /\ Hset(stream[c], c)
                \/ sent = 3 * (c - done - 1) + 1 /\ ExpireCmd(stream[c])
                \/ sent = 3 * (c - done - 1) + 2 /\ Zadd(stream[c])
<1> DEFINE c == OpIndex(sent)
<1>1. sent \in Nat /\ done \in Nat /\ upto \in Nat /\ sent < 3 * (upto - done)
    BY BatchType DEF PipelineCommand, Commands
<1>2. c \in Batch
    BY <1>1 DEF OpIndex, Batch
<1>3. sent % 3 \in 0..2 /\ sent = 3 * (c - done - 1) + (sent % 3)
    BY <1>1 DEF OpIndex
<1>4. CASE Command(sent) = "hset" /\ Hset(stream[c], c)
  <2>1. sent % 3 = 0
      BY <1>3, <1>4 DEF Command
  <2>2. sent = 3 * (c - done - 1)
      BY <1>1, <1>2, <1>3, <2>1 DEF Batch
  <2> QED
      BY <1>2, <1>4, <2>2
<1>5. CASE Command(sent) = "expire" /\ ExpireCmd(stream[c])
  <2>1. sent % 3 = 1
      BY <1>3, <1>5 DEF Command
  <2> QED
      BY <1>2, <1>3, <1>5, <2>1
<1>6. CASE Command(sent) = "zadd" /\ Zadd(stream[c])
  <2>1. sent % 3 = 2
      BY <1>3, <1>6 DEF Command
  <2> QED
      BY <1>2, <1>3, <1>6, <2>1
<1> QED
    BY <1>4, <1>5, <1>6 DEF PipelineCommand

\* An hset gives the field its value and leaves a hash without TTL without one.
LEMMA HsetEffect ==
    ASSUME TypeOK, NEW op \in Ops, NEW value \in 0..MaxOps, Hset(op, value)
    PROVE  /\ hash' \in [Types -> [Windows -> [Fields -> 0..MaxOps]]]
           /\ life' \in [Types -> [Windows -> LifeStates]]
           /\ \A ty \in Types, w \in Windows :
                /\ life'[ty][w] =
                     IF ty = op.type /\ w = op.window
                     THEN IF life[ty][w] = "timed" THEN "timed" ELSE "eternal"
                     ELSE life[ty][w]
                /\ \A f \in Fields :
                     hash'[ty][w][f] =
                       IF ty = op.type /\ w = op.window /\ f = op.field
                       THEN value ELSE hash[ty][w][f]
<1>1. op.type \in Types /\ op.window \in Windows /\ op.field \in Fields
    BY DEF Ops
<1>2. hash \in [Types -> [Windows -> [Fields -> 0..MaxOps]]] /\ life \in [Types -> [Windows -> LifeStates]]
    BY DEF TypeOK
<1>3. hash' = [hash EXCEPT ![op.type][op.window][op.field] = value]
    BY DEF Hset
<1>4. life' = [life EXCEPT ![op.type][op.window] = IF @ = "timed" THEN "timed" ELSE "eternal"]
    BY DEF Hset
<1>5. hash' \in [Types -> [Windows -> [Fields -> 0..MaxOps]]]
    BY <1>1, <1>2, <1>3
<1>6. life' \in [Types -> [Windows -> LifeStates]]
    BY <1>1, <1>2, <1>4 DEF LifeStates
<1>7. ASSUME NEW ty \in Types, NEW w \in Windows
      PROVE  life'[ty][w] =
               IF ty = op.type /\ w = op.window
               THEN IF life[ty][w] = "timed" THEN "timed" ELSE "eternal"
               ELSE life[ty][w]
    BY <1>1, <1>2, <1>4
<1>8. ASSUME NEW ty \in Types, NEW w \in Windows, NEW f \in Fields
      PROVE  hash'[ty][w][f] =
               IF ty = op.type /\ w = op.window /\ f = op.field THEN value ELSE hash[ty][w][f]
    BY <1>1, <1>2, <1>3
<1> QED
    BY <1>5, <1>6, <1>7, <1>8

\* An expire gives a hash that is there a TTL.
LEMMA ExpireCmdEffect ==
    ASSUME TypeOK, NEW op \in Ops, ExpireCmd(op)
    PROVE  /\ life' \in [Types -> [Windows -> LifeStates]]
           /\ \A ty \in Types, w \in Windows :
                life'[ty][w] =
                  IF ty = op.type /\ w = op.window /\ life[ty][w] = "eternal"
                  THEN "timed" ELSE life[ty][w]
<1>1. op.type \in Types /\ op.window \in Windows
    BY DEF Ops
<1>2. life \in [Types -> [Windows -> LifeStates]]
    BY DEF TypeOK
<1>3. life' = [life EXCEPT ![op.type][op.window] = IF @ = "eternal" THEN "timed" ELSE @]
    BY DEF ExpireCmd
<1>4. life' \in [Types -> [Windows -> LifeStates]]
    BY <1>1, <1>2, <1>3 DEF LifeStates
<1>5. ASSUME NEW ty \in Types, NEW w \in Windows
      PROVE  life'[ty][w] =
               IF ty = op.type /\ w = op.window /\ life[ty][w] = "eternal"
               THEN "timed" ELSE life[ty][w]
    BY <1>1, <1>2, <1>3
<1> QED
    BY <1>4, <1>5

\* A hash that expires is gone with all its fields.
LEMMA ExpireEffect ==
    ASSUME TypeOK, NEW ty \in Types, NEW w \in Windows, Expire(ty, w)
    PROVE  /\ hash' \in [Types -> [Windows -> [Fields -> 0..MaxOps]]]
           /\ life' \in [Types -> [Windows -> LifeStates]]
           /\ life[ty][w] = "timed"
           /\ \A tz \in Types, v \in Windows :
                /\ life'[tz][v] = IF tz = ty /\ v = w THEN "expired" ELSE life[tz][v]
                /\ \A f \in Fields :
                     hash'[tz][v][f] = IF tz = ty /\ v = w THEN 0 ELSE hash[tz][v][f]
<1>1. hash \in [Types -> [Windows -> [Fields -> 0..MaxOps]]] /\ life \in [Types -> [Windows -> LifeStates]]
    BY DEF TypeOK
<1>2. hash' = [hash EXCEPT ![ty][w] = NoHash] /\ life' = [life EXCEPT ![ty][w] = "expired"]
    BY DEF Expire
<1>3. NoHash \in [Fields -> 0..MaxOps] /\ \A f \in Fields : NoHash[f] = 0
    BY RedisAssumption DEF NoHash
<1>4. hash' \in [Types -> [Windows -> [Fields -> 0..MaxOps]]]
    BY <1>1, <1>2, <1>3
<1>5. life' \in [Types -> [Windows -> LifeStates]]
    BY <1>1, <1>2 DEF LifeStates
<1>6. ASSUME NEW tz \in Types, NEW v \in Windows
      PROVE  life'[tz][v] = IF tz = ty /\ v = w THEN "expired" ELSE life[tz][v]
    BY <1>1, <1>2
<1>7. ASSUME NEW tz \in Types, NEW v \in Windows, NEW f \in Fields
      PROVE  hash'[tz][v][f] = IF tz = ty /\ v = w THEN 0 ELSE hash[tz][v][f]
    BY <1>1, <1>2, <1>3
<1> QED
    BY <1>4, <1>5, <1>6, <1>7 DEF Expire

-----------------------------------------------------------------------------
(* What trims leave *)

\* Without its n lowest elements a set has at most n elements fewer.
LEMMA WithoutLowestSize ==
    ASSUME NEW S \in SUBSET Int, IsFiniteSet(S), NEW n \in Nat, n <= Cardinality(S)
    PROVE  Cardinality(WithoutLowest(S, n)) <= Cardinality(S) - n
<1> DEFINE K == WithoutLowest(S, n)
           Below(w) == {v \in S : v < w}
           Above(w) == {v \in S : v > w}
<1>1. K \subseteq S /\ IsFiniteSet(K) /\ Cardinality(S) \in Nat
    BY FS_Subset, FS_CardinalityType DEF WithoutLowest
<1>2. CASE K = {}
    BY <1>1, <1>2, FS_EmptySet
<1>3. CASE K # {}
  <2>1. PICK m \in K : \A v \in K : m <= v
      BY <1>1, <1>3, HasLeast
  <2>2. Cardinality(Below(m)) >= n
      BY <2>1 DEF WithoutLowest
  <2>3. /\ Cardinality(Above(m)) \in Nat /\ Cardinality(Below(m)) \in Nat
        /\ Cardinality(S) = Cardinality(Below(m)) + 1 + Cardinality(Above(m))
      BY <1>1, <2>1, AroundElement
  <2>4. K \subseteq Above(m) \cup {m}
    <3>1. ASSUME NEW v \in K PROVE v \in S /\ v \in Int /\ m \in Int /\ m <= v
      <4> HIDE DEF K
      <4> QED
          BY <1>1, <2>1
    <3>2. ASSUME NEW v \in K PROVE v \in S /\ (v > m \/ v = m)
        BY <3>1
    <3> HIDE DEF K
    <3> QED
        BY <3>2
  <2>5. IsFiniteSet(Above(m)) /\ m \notin Above(m)
    <3>1. m \in Int
        BY <1>1, <2>1
    <3>2. ~(m > m)
        BY <3>1
    <3>3. Above(m) \subseteq S
        OBVIOUS
    <3>4. IsFiniteSet(Above(m))
        BY <3>3, FS_Subset
    <3> QED
        BY <3>2, <3>4
  <2> HIDE DEF K, Above, Below
  <2>6. IsFiniteSet(Above(m) \cup {m}) /\ Cardinality(Above(m) \cup {m}) = Cardinality(Above(m)) + 1
      BY <2>5, FS_AddElement
  <2>7. Cardinality(K) <= Cardinality(Above(m)) + 1
      BY <2>4, <2>6, FS_Subset
  <2>8. Cardinality(K) \in Nat
      BY <1>1, FS_CardinalityType
  <2>9. Cardinality(K) <= Cardinality(S) - n
      BY <2>2, <2>3, <2>7, <2>8
  <2> QED
      BY <2>9 DEF K
<1> QED
    BY <1>2, <1>3

\* An element that goes with the lowest leaves that many above it.
LEMMA LowestGoFirst ==
    ASSUME NEW S \in SUBSET Int, IsFiniteSet(S), NEW n \in Nat, NEW w \in S \ WithoutLowest(S, n)
    PROVE  Cardinality({v \in S : v > w}) >= Cardinality(S) - n
<1>1. ~(Cardinality({v \in S : v < w}) >= n)
    BY DEF WithoutLowest
<1>2. /\ Cardinality({v \in S : v > w}) \in Nat /\ Cardinality({v \in S : v < w}) \in Nat
      /\ Cardinality(S) = Cardinality({v \in S : v < w}) + 1 + Cardinality({v \in S : v > w})
    BY AroundElement
<1> QED
    BY <1>1, <1>2

\* The greatest element stays if any does.
LEMMA GreatestStays ==
    ASSUME NEW S \in SUBSET Int, IsFiniteSet(S), NEW n \in Nat, n < Cardinality(S), NEW w \in S
    PROVE  \E v \in WithoutLowest(S, n) : v >= w
<1>1. PICK m \in S : \A v \in S : v <= m
    BY HasGreatest
<1>2. {v \in S : v > m} = {}
  <2>1. ASSUME NEW v \in S PROVE ~(v > m)
      BY <1>1
  <2> QED
      BY <2>1
<1>3. Cardinality({v \in S : v > m}) = 0
    BY <1>2, FS_EmptySet
<1>4. m \in WithoutLowest(S, n)
  <2>1. SUFFICES ASSUME m \notin WithoutLowest(S, n) PROVE FALSE
      OBVIOUS
  <2>2. Cardinality({v \in S : v > m}) >= Cardinality(S) - n
      BY <2>1, LowestGoFirst
  <2>3. Cardinality(S) \in Nat
      BY FS_CardinalityType
  <2> QED
      BY <1>3, <2>2, <2>3
<1> QED
    BY <1>1, <1>4

\* zrevrange(0, 0) is the newest window.
LEMMA NewestIsGreatest ==
    ASSUME NEW S \in SUBSET Int, IsFiniteSet(S), NEW w \in Newest(S, 1)
    PROVE  w \in S /\ \A v \in S : v <= w
<1>1. w \in S /\ Cardinality({v \in S : v > w}) < 1
    BY DEF Newest, RangeSize
<1>2. IsFiniteSet({v \in S : v > w})
    BY FS_Subset
<1>3. Cardinality({v \in S : v > w}) = 0
    BY <1>1, <1>2, FS_CardinalityType
<1>4. {v \in S : v > w} = {}
    BY <1>2, <1>3, FS_EmptySet
<1>5. ASSUME NEW v \in S PROVE v <= w
    BY <1>1, <1>4
<1> QED
    BY <1>1, <1>5

\* A trim removes the lowest windows of one index, and no more than there are over
\* the retention count.
LEMMA TrimEffect ==
    ASSUME TypeOK, WriterInv, TrimInv, writer = "zrem", index' = TrimmedIndex
    PROVE  /\ TrimType \in touched /\ TrimType \in Types
           /\ excess \in Nat /\ excess = Cardinality(index[TrimType]) - Retention
           /\ index' \in [Types -> SUBSET Windows]
           /\ index'[TrimType] = WithoutLowest(index[TrimType], excess)
           /\ \A ty \in Types \ {TrimType} : index'[ty] = index[ty]
<1>1. TrimType \in touched /\ TrimType \in Types
    BY TrimTypeTouched DEF WriterInv
<1>2. excess \in Nat /\ excess = Cardinality(index[TrimType]) - Retention
    BY RedisAssumption DEF TypeOK, TrimInv
<1>3. WithoutLowest(index[TrimType], excess) \in SUBSET Windows
    BY <1>1 DEF TypeOK, WithoutLowest
<1>4. index' = [index EXCEPT ![TrimType] = WithoutLowest(index[TrimType], excess)]
    BY DEF TrimmedIndex
<1>5. index \in [Types -> SUBSET Windows]
    BY DEF TypeOK
<1> HIDE DEF TrimType
<1> QED
    BY <1>1, <1>2, <1>3, <1>4, <1>5

-----------------------------------------------------------------------------
(* Types and the batch in hand *)

\* A request is one lookup or two.
LEMMA RequestType ==
    ASSUME NEW lookups \in Requests
    PROVE  lookups \in Seq(Lookups) /\ lookups # <<>>
<1>1. \A ty \in Types, limit \in Limits \cup {1} : Lookup(ty, limit) \in Lookups
    BY DEF Lookup, Lookups
<1>2. CASE \E ty \in Types, limit \in Limits : lookups = <<Lookup(ty, limit)>>
    BY <1>1, <1>2
<1>3. CASE "event" \in Types /\ lookups = <<Lookup("event", 1)>>
    BY <1>1, <1>3
<1>4. CASE Types = {"event", "perf"} /\ lookups = <<Lookup("event", 1), Lookup("perf", 1)>>
  <2>1. Lookup("event", 1) \in Lookups /\ Lookup("perf", 1) \in Lookups
      BY <1>1, <1>4
  <2> QED
      BY <1>4, <2>1
<1> QED
    BY <1>2, <1>3, <1>4 DEF Requests

\* A request looks up a type it may ask for.
LEMMA HeadType ==
    ASSUME NEW lookups \in Seq(Lookups), lookups # <<>>
    PROVE  /\ Head(lookups).type \in Types /\ Head(lookups).limit \in Limits \cup {1}
           /\ Tail(lookups) \in Seq(Lookups)
<1>1. Head(lookups) \in Lookups /\ Tail(lookups) \in Seq(Lookups)
    OBVIOUS
<1> QED
    BY <1>1 DEF Lookups

\* What ZREVRANGE returns are windows of the index.
LEMMA RangeReadType ==
    ASSUME TypeOK, NEW lookups \in Seq(Lookups), lookups # <<>>, RangeRead(lookups)
    PROVE  /\ asked' \in Seq(Lookups) /\ ids' \in SUBSET Windows /\ found' \in SUBSET Windows
           /\ ids' \in SUBSET index[Head(lookups).type]
<1>1. Head(lookups).type \in Types
    BY HeadType
<1>2. index[Head(lookups).type] \in SUBSET Windows
    BY <1>1 DEF TypeOK
<1>3. Newest(index[Head(lookups).type], Head(lookups).limit) \in SUBSET index[Head(lookups).type]
    BY DEF Newest
<1> QED
    BY <1>2, <1>3 DEF RangeRead

StateInv == TypeOK /\ WriterInv

\* The initial state is well typed, and the writer has no batch.
LEMMA InitType == Init => StateInv
<1> SUFFICES ASSUME Init PROVE StateInv
    OBVIOUS
<1> USE RedisAssumption DEF Init
<1>1. stream \in Seq(Ops) /\ Len(stream) = 0 /\ asked \in Seq(Lookups)
    OBVIOUS
<1>2. index \in [Types -> SUBSET Windows] /\ life \in [Types -> [Windows -> LifeStates]]
    BY DEF LifeStates
<1>3. hash \in [Types -> [Windows -> [Fields -> 0..MaxOps]]]
    BY DEF NoHash
<1>4. shown \in [Types -> 0..MaxWindow] /\ ids \in SUBSET Windows /\ found \in SUBSET Windows
    OBVIOUS
<1>5. /\ writer \in {"idle", "pipeline", "zcard", "zrem", "retry"} /\ since \in 0..MaxOps
      /\ done \in 0..0 /\ upto \in done..0 /\ sent \in 0..3 * MaxOps /\ touched \in SUBSET Types
      /\ excess \in 0..MaxWindow /\ crashes \in 0..MaxCrashes /\ cutoff \subseteq Types \X Windows
    OBVIOUS
<1>6. TypeOK
    BY <1>1, <1>2, <1>3, <1>4, <1>5 DEF TypeOK
<1>7. WriterInv
    BY DEF WriterInv
<1> QED
    BY <1>6, <1>7 DEF StateInv

\* Every step keeps the types, and what the writer has in hand in order.
LEMMA TypeStep ==
    ASSUME StateInv, TrimInv, [Next]_vars
    PROVE  StateInv'
<1> USE DEF StateInv, ended
<1>0. TypeOK /\ WriterInv
    OBVIOUS
<1>1. ASSUME NEW op \in Ops, Operation(op) PROVE StateInv'
  <2>1. stream' \in Seq(Ops) /\ Len(stream') = Len(stream) + 1 /\ Len(stream) < MaxOps /\ Len(stream) \in Nat
      BY <1>0, <1>1, BatchType DEF TypeOK, Operation
  <2>2. TypeOK'
      BY <1>0, <1>1, <2>1, BatchType, RedisAssumption
      DEF TypeOK, Operation, redis, flush, request
  <2>3. WriterInv'
      BY <1>0, <1>1 DEF WriterInv, Operation, flush, Commands
  <2> QED
      BY <2>2, <2>3
<1>2. CASE Flush
  <2>1. PICK n \in (done + 1)..Len(stream) : n >= upto /\ upto' = n
      BY <1>2 DEF Flush
  <2>2. upto' \in done..Len(stream) /\ done < upto'
      BY <1>0, <2>1, BatchType
  <2>3. TypeOK'
      BY <1>0, <1>2, <2>2, RedisAssumption DEF TypeOK, Flush, redis, request
  <2>4. WriterInv'
      BY <1>0, <1>2, <2>2, BatchType DEF WriterInv, Flush, Commands
  <2> QED
      BY <2>3, <2>4
<1>3. CASE PipelineCommand
  <2>1. PICK c \in Batch :
          \/ sent = 3 * (c - done - 1) /\ Hset(stream[c], c)
          \/ sent = 3 * (c - done - 1) + 1 /\ ExpireCmd(stream[c])
          \/ sent = 3 * (c - done - 1) + 2 /\ Zadd(stream[c])
      BY <1>0, <1>3, NextCommand
  <2>2. c \in 1..Len(stream) /\ stream[c] \in Ops /\ c \in 0..MaxOps
      BY <1>0, BatchType, OpType, RedisAssumption DEF TypeOK
  <2>3. sent' \in 0..3 * MaxOps /\ sent' <= Commands
    <3>1. sent < 3 * (upto - done) /\ sent' = sent + 1
        BY <1>3 DEF PipelineCommand, Commands
    <3>2. upto <= MaxOps
        BY <1>0, BatchType, RedisAssumption DEF TypeOK
    <3> QED
        BY <1>0, <3>1, <3>2, BatchType, RedisAssumption DEF Commands
  <2>4. /\ hash' \in [Types -> [Windows -> [Fields -> 0..MaxOps]]]
        /\ life' \in [Types -> [Windows -> LifeStates]]
        /\ index' \in [Types -> SUBSET Windows]
    <3>1. CASE Hset(stream[c], c)
        BY <1>0, <2>2, <3>1, HsetEffect DEF Hset, TypeOK
    <3>2. CASE ExpireCmd(stream[c])
        BY <1>0, <2>2, <3>2, ExpireCmdEffect DEF ExpireCmd, TypeOK
    <3>3. CASE Zadd(stream[c])
        BY <1>0, <2>2, <3>3, OpType DEF Zadd, TypeOK
    <3> QED
        BY <2>1, <3>1, <3>2, <3>3
  <2>5. TypeOK'
      BY <1>0, <1>3, <2>3, <2>4 DEF TypeOK, PipelineCommand, request
  <2>6. WriterInv'
      BY <1>0, <1>3, <2>3 DEF WriterInv, PipelineCommand, Commands
  <2> QED
      BY <2>5, <2>6
<1>4. CASE PipelineReturns
  <2>1. touched' \in SUBSET Types
      BY <1>0, <1>4, BatchType, OpType DEF PipelineReturns, Batch
  <2>2. touched' # {}
    <3>1. upto \in (done + 1)..upto
        BY <1>0, <1>4, BatchType DEF WriterInv, PipelineReturns
    <3> QED
        BY <1>4, <3>1 DEF PipelineReturns
  <2>3. TypeOK'
      BY <1>0, <1>4, <2>1 DEF TypeOK, PipelineReturns, redis, request
  <2>4. WriterInv'
      BY <1>0, <1>4, <2>2 DEF WriterInv, PipelineReturns
  <2> QED
      BY <2>3, <2>4
<1>5. ASSUME Trimmed PROVE /\ touched' \in SUBSET Types /\ done' \in {done, upto}
                           /\ \/ writer' = "idle" /\ done' = upto
                              \/ writer' = "zcard" /\ done' = done /\ touched' # {}
  <2> HIDE DEF TrimType
  <2> QED
      BY <1>0, <1>5 DEF Trimmed, TypeOK
<1>6. CASE TrimCount
  <2>1. TrimType \in Types /\ done < upto
      BY <1>0, <1>6, TrimTypeTouched DEF WriterInv, TrimCount
  <2>2. Cardinality(index[TrimType]) \in 0..MaxWindow
      BY <1>0, <2>1, IndexType
  <2> HIDE DEF TrimType
  <2>3. CASE /\ Cardinality(index[TrimType]) > Retention
             /\ excess' = Cardinality(index[TrimType]) - Retention
             /\ writer' = "zrem" /\ UNCHANGED <<touched, done>>
    <3>1. excess' \in 0..MaxWindow
        BY <2>2, <2>3, RedisAssumption
    <3>2. TypeOK'
        BY <1>0, <1>6, <2>3, <3>1 DEF TypeOK, TrimCount, redis, request
    <3>3. WriterInv'
        BY <1>0, <1>6, <2>3 DEF WriterInv, TrimCount
    <3> QED
        BY <3>2, <3>3
  <2>4. CASE Trimmed /\ UNCHANGED excess
    <3>1. TypeOK'
        BY <1>0, <1>5, <1>6, <2>4, BatchType DEF TypeOK, TrimCount, redis, request
    <3>2. WriterInv'
        BY <1>0, <1>5, <1>6, <2>1, <2>4, BatchType DEF WriterInv, TrimCount
    <3> QED
        BY <3>1, <3>2
  <2> QED
      BY <1>6, <2>3, <2>4 DEF TrimCount
<1>7. CASE TrimRemove
  <2>1. index' \in [Types -> SUBSET Windows]
      BY <1>0, <1>7, TrimEffect DEF TrimRemove
  <2>2. TypeOK'
      BY <1>0, <1>5, <1>7, <2>1, BatchType DEF TypeOK, TrimRemove, request
  <2>3. WriterInv'
      BY <1>0, <1>5, <1>7, BatchType DEF WriterInv, TrimRemove
  <2> QED
      BY <2>2, <2>3
<1>8. CASE ApplyFails
  <2>1. index' \in [Types -> SUBSET Windows]
    <3>1. CASE index' = index
        BY <1>0, <3>1 DEF TypeOK
    <3>2. CASE writer = "zrem" /\ index' = TrimmedIndex
        BY <1>0, <3>2, TrimEffect
    <3> QED
        BY <1>8, <3>1, <3>2 DEF ApplyFails
  <2>2. TypeOK'
      BY <1>0, <1>8, <2>1 DEF TypeOK, ApplyFails, request
  <2>3. WriterInv'
      BY <1>0, <1>8 DEF WriterInv, ApplyFails
  <2> QED
      BY <2>2, <2>3
<1>9. CASE RequestBegins
  <2>1. PICK lookups \in Requests : RangeRead(lookups)
      BY <1>9 DEF RequestBegins
  <2>2. asked' \in Seq(Lookups) /\ ids' \in SUBSET Windows /\ found' \in SUBSET Windows
      BY <1>0, <2>1, RequestType, RangeReadType
  <2>3. TypeOK'
      BY <1>0, <1>9, <2>2 DEF TypeOK, RequestBegins, redis, flush
  <2>4. WriterInv'
      BY <1>0, <1>9 DEF WriterInv, RequestBegins, flush, Commands
  <2> QED
      BY <2>3, <2>4
<1>10. CASE HashRead
  <2>1. ids' \in SUBSET Windows /\ found' \in SUBSET Windows
      BY <1>0, <1>10 DEF TypeOK, HashRead
  <2>2. TypeOK'
      BY <1>0, <1>10, <2>1 DEF TypeOK, HashRead, redis, flush
  <2>3. WriterInv'
      BY <1>0, <1>10 DEF WriterInv, HashRead, flush, Commands
  <2> QED
      BY <2>2, <2>3
<1>11. CASE LookupOver
  <2>1. Head(asked).type \in Types /\ Tail(asked) \in Seq(Lookups)
      BY <1>0, <1>11, HeadType DEF TypeOK, LookupOver
  <2>2. shown' \in [Types -> 0..MaxWindow]
    <3>1. CASE UNCHANGED shown
        BY <1>0, <3>1 DEF TypeOK
    <3>2. CASE \E w \in found : shown' = [shown EXCEPT ![Head(asked).type] = w]
        BY <1>0, <2>1, <3>2, RedisAssumption DEF TypeOK, Windows
    <3> QED
        BY <1>11, <3>1, <3>2 DEF LookupOver
  <2>3. asked' \in Seq(Lookups) /\ ids' \in SUBSET Windows /\ found' \in SUBSET Windows
    <3>1. CASE Len(asked) > 1 /\ RangeRead(Tail(asked))
      <4>1. asked \in Seq(Lookups) /\ asked # <<>>
          BY <1>0, <1>11 DEF TypeOK, LookupOver
      <4>2. Len(Tail(asked)) = Len(asked) - 1
          BY <4>1
      <4>3. Len(Tail(asked)) # 0
          BY <3>1, <4>1, <4>2, LenProperties
      <4>4. Tail(asked) # <<>>
        <5>1. Len(<<>>) = 0
            OBVIOUS
        <5> QED
            BY <4>3, <5>1
      <4> QED
          BY <1>0, <2>1, <3>1, <4>4, RangeReadType
    <3>2. CASE asked' = <<>> /\ found' = {} /\ UNCHANGED ids
        BY <1>0, <3>2 DEF TypeOK
    <3> QED
        BY <1>11, <3>1, <3>2 DEF LookupOver
  <2>4. TypeOK'
      BY <1>0, <1>11, <2>2, <2>3 DEF TypeOK, LookupOver, redis, flush
  <2>5. WriterInv'
      BY <1>0, <1>11 DEF WriterInv, LookupOver, flush, Commands
  <2> QED
      BY <2>4, <2>5
<1>12. ASSUME NEW ty \in Types, NEW w \in Windows, Expire(ty, w) PROVE StateInv'
  <2>1. TypeOK'
      BY <1>0, <1>12, ExpireEffect DEF TypeOK, Expire, flush, request
  <2>2. WriterInv'
      BY <1>0, <1>12 DEF WriterInv, Expire, flush, Commands
  <2> QED
      BY <2>1, <2>2
<1>13. CASE Crash
  <2>1. /\ stream' = stream /\ index' = index /\ hash' = hash /\ life' = life /\ shown' = shown
        /\ asked' = <<>> /\ ids' = {} /\ found' = {} /\ writer' = "idle" /\ touched' = {}
      BY <1>13 DEF Crash, redis
  <2>2. /\ since' \in 0..MaxOps /\ done' \in 0..Len(stream) /\ upto' \in done'..Len(stream)
        /\ since' = done' /\ upto' = done'
      BY <1>0, <1>13, BatchType, RedisAssumption DEF Crash, TypeOK
  <2>3. /\ sent' \in 0..3 * MaxOps /\ excess' \in 0..MaxWindow /\ crashes' \in 0..MaxCrashes
        /\ cutoff' \subseteq Types \X Windows
      BY <1>0, <1>13, RedisAssumption DEF Crash, TypeOK
  <2>4. TypeOK'
      BY <1>0, <2>1, <2>2, <2>3 DEF TypeOK
  <2>5. WriterInv'
      BY <2>1, <2>2 DEF WriterInv
  <2> QED
      BY <2>4, <2>5
<1>14. CASE UNCHANGED vars
  <2>1. TypeOK'
      BY <1>0, <1>14 DEF TypeOK, vars, redis, flush, request
  <2>2. WriterInv'
      BY <1>0, <1>14 DEF WriterInv, vars, flush, Commands
  <2> QED
      BY <2>1, <2>2
<1> QED
    BY <1>1, <1>2, <1>3, <1>4, <1>6, <1>7, <1>8, <1>9, <1>10, <1>11, <1>12, <1>13, <1>14 DEF Next

-----------------------------------------------------------------------------
(* The hashes: there before the index names them, and given a TTL *)

\* What none of the steps of a request disturbs.
Stored == <<stream, redis, flush>>

\* A step is one of the writer, of Redis itself, or leaves what is stored alone.
LEMMA StepCases ==
    ASSUME [Next]_vars
    PROVE  \/ \E op \in Ops : Operation(op)
           \/ Flush
           \/ PipelineCommand
           \/ PipelineReturns
           \/ TrimCount
           \/ TrimRemove
           \/ ApplyFails
           \/ \E ty \in Types, w \in Windows : Expire(ty, w)
           \/ Crash
           \/ UNCHANGED Stored
<1>1. RequestBegins \/ HashRead \/ LookupOver \/ UNCHANGED vars => UNCHANGED Stored
    BY DEF RequestBegins, HashRead, LookupOver, vars, Stored
<1> QED
    BY <1>1 DEF Next

\* An operation that is there stays what it is.
LEMMA OldOperations ==
    ASSUME TypeOK, NEW op \in Ops, Operation(op)
    PROVE  \A i \in 1..Len(stream) : stream'[i] = stream[i]
<1>1. stream \in Seq(Ops) /\ stream' = Append(stream, op)
    BY DEF TypeOK, Operation
<1> QED
    BY <1>1, AppendProperties

\* The batch ends after the trim, or goes on to be trimmed.
LEMMA TrimmedEffect ==
    ASSUME TypeOK, touched # {}, Trimmed
    PROVE  /\ touched' = touched \ {TrimType}
           /\ \/ writer' = "idle" /\ done' = upto /\ touched' = {}
              \/ writer' = "zcard" /\ done' = done /\ touched' # {}
BY DEF Trimmed

\* Every step keeps windows out of the indices until their hash is written.
LEMMA ReadableStep ==
    ASSUME StateInv, StateInv', TrimInv, ReadableInv, [Next]_vars
    PROVE  ReadableInv'
<1>0. TypeOK /\ WriterInv
    BY DEF StateInv
<1>1. ASSUME \A ty \in Types : index'[ty] \subseteq index[ty], life' = life
      PROVE  IndexedIsReadable'
    BY <1>1 DEF ReadableInv, IndexedIsReadable
<1>2. ASSUME NEW op \in Ops, Operation(op) PROVE ReadableInv'
  <2>1. IndexedIsReadable'
      BY <1>1, <1>2 DEF Operation, redis
  <2>2. ASSUME writer = "pipeline", sent % 3 # 0
        PROVE  stream'[OpIndex(sent)] = stream[OpIndex(sent)]
    <3>1. sent < 3 * (upto - done)
        BY <1>0, <2>2, BatchType DEF WriterInv, Commands
    <3>2. OpIndex(sent) \in 1..Len(stream)
        BY <1>0, <3>1, BatchType DEF OpIndex
    <3> QED
        BY <1>0, <1>2, <3>2, OldOperations
  <2> QED
      BY <1>2, <2>1, <2>2 DEF ReadableInv, LifeOf, Current, OpIndex, Operation, redis, flush
<1>3. CASE Flush
  <2>1. IndexedIsReadable' /\ sent' = 0
      BY <1>1, <1>3 DEF Flush, redis
  <2> QED
      BY <2>1 DEF ReadableInv
<1>4. CASE PipelineCommand
  <2>1. PICK c \in Batch :
          /\ OpIndex(sent) = c
          /\ \/ sent = 3 * (c - done - 1) /\ Hset(stream[c], c)
             \/ sent = 3 * (c - done - 1) + 1 /\ ExpireCmd(stream[c])
             \/ sent = 3 * (c - done - 1) + 2 /\ Zadd(stream[c])
      BY <1>0, <1>4, NextCommand
  <2>2. c \in 1..Len(stream) /\ c \in 0..MaxOps /\ c \in Int /\ done \in Nat /\ stream[c] \in Ops
        /\ stream[c].type \in Types /\ stream[c].window \in Windows
      BY <1>0, BatchType, OpType, RedisAssumption DEF TypeOK
  <2>3. sent' = sent + 1 /\ stream' = stream /\ writer = "pipeline" /\ done' = done /\ sent \in Nat
      BY <1>0, <1>4, BatchType DEF PipelineCommand
  <2>4. CASE sent = 3 * (c - done - 1) /\ Hset(stream[c], c)
    <3>1. \A ty \in Types, w \in Windows :
            life'[ty][w] = life[ty][w] \/ life'[ty][w] \in {"timed", "eternal"}
        BY <1>0, <2>2, <2>4, HsetEffect
    <3>2. \A ty \in Types, w \in Windows :
            ty = stream[c].type /\ w = stream[c].window => life'[ty][w] \in {"timed", "eternal"}
        BY <1>0, <2>2, <2>4, HsetEffect
    <3>3. OpIndex(sent + 1) = c
        BY <2>2, <2>4 DEF OpIndex
    <3>4. index' = index
        BY <2>4 DEF Hset
    <3>5. IndexedIsReadable'
        BY <1>0, <3>1, <3>4, IndexType DEF ReadableInv, IndexedIsReadable
    <3>6. Current' = c
        BY <2>3, <3>3 DEF Current, OpIndex
    <3> QED
        BY <2>2, <2>3, <3>2, <3>5, <3>6 DEF ReadableInv, LifeOf
  <2>5. CASE sent = 3 * (c - done - 1) + 1 /\ ExpireCmd(stream[c])
    <3>1. \A ty \in Types, w \in Windows : life[ty][w] # "absent" => life'[ty][w] # "absent"
        BY <1>0, <2>2, <2>5, ExpireCmdEffect
    <3>2. sent % 3 = 1 /\ OpIndex(sent + 1) = c
        BY <2>2, <2>5 DEF OpIndex
    <3>3. life[stream[c].type][stream[c].window] # "absent"
        BY <2>1, <2>3, <3>2 DEF ReadableInv, LifeOf, Current
    <3>4. index' = index
        BY <2>5 DEF ExpireCmd
    <3>5. IndexedIsReadable'
        BY <1>0, <3>1, <3>4, IndexType DEF ReadableInv, IndexedIsReadable
    <3>6. Current' = c
        BY <2>3, <3>2 DEF Current, OpIndex
    <3> QED
        BY <2>2, <2>3, <3>1, <3>3, <3>5, <3>6 DEF ReadableInv, LifeOf
  <2>6. CASE sent = 3 * (c - done - 1) + 2 /\ Zadd(stream[c])
    <3>1. sent % 3 = 2 /\ (sent + 1) % 3 = 0
        BY <2>2, <2>6
    <3>2. life[stream[c].type][stream[c].window] # "absent"
        BY <2>1, <2>3, <3>1 DEF ReadableInv, LifeOf, Current
    <3>3. life' = life /\ index' = [index EXCEPT ![stream[c].type] = @ \cup {stream[c].window}]
        BY <2>6 DEF Zadd
    <3>4. \A ty \in Types : \A w \in index'[ty] :
              w \in index[ty] \/ (ty = stream[c].type /\ w = stream[c].window)
        BY <1>0, <2>2, <3>3 DEF TypeOK
    <3>5. IndexedIsReadable'
        BY <3>2, <3>3, <3>4 DEF ReadableInv, IndexedIsReadable
    <3> QED
        BY <2>3, <3>1, <3>5 DEF ReadableInv
  <2> QED
      BY <2>1, <2>4, <2>5, <2>6
<1>5. CASE PipelineReturns
  <2>1. IndexedIsReadable' /\ writer' = "zcard"
      BY <1>1, <1>5 DEF PipelineReturns, redis
  <2> QED
      BY <2>1 DEF ReadableInv
<1>6. CASE TrimCount
  <2>1. IndexedIsReadable'
      BY <1>1, <1>6 DEF TrimCount, redis
  <2>2. writer' \in {"idle", "zcard", "zrem"}
      BY <1>6 DEF TrimCount, Trimmed
  <2> QED
      BY <2>1, <2>2 DEF ReadableInv
<1>7. ASSUME writer = "zrem", index' = TrimmedIndex
      PROVE  \A ty \in Types : index'[ty] \subseteq index[ty]
  <2>1. TypeOK /\ WriterInv
      BY <1>0
  <2>2. \A ty \in Types : WithoutLowest(index[ty], excess) \subseteq index[ty]
      BY DEF WithoutLowest
  <2>3. /\ index'[TrimType] = WithoutLowest(index[TrimType], excess)
        /\ \A ty \in Types \ {TrimType} : index'[ty] = index[ty]
      BY <1>7, <2>1, TrimEffect
  <2> HIDE DEF TrimType
  <2> QED
      BY <2>2, <2>3
<1>8. CASE TrimRemove
  <2>1. IndexedIsReadable'
      BY <1>1, <1>7, <1>8 DEF TrimRemove
  <2>2. writer' \in {"idle", "zcard"}
      BY <1>8 DEF TrimRemove, Trimmed
  <2> QED
      BY <2>1, <2>2 DEF ReadableInv
<1>9. CASE ApplyFails
  <2>1. \A ty \in Types : index'[ty] \subseteq index[ty]
    <3>1. CASE index' = index
        BY <3>1
    <3>2. CASE writer = "zrem" /\ index' = TrimmedIndex
        BY <1>7, <3>2
    <3> QED
        BY <1>9, <3>1, <3>2 DEF ApplyFails
  <2>2. IndexedIsReadable' /\ writer' = "retry"
      BY <1>1, <1>9, <2>1 DEF ApplyFails
  <2> QED
      BY <2>2 DEF ReadableInv
<1>10. ASSUME NEW ty \in Types, NEW w \in Windows, Expire(ty, w) PROVE ReadableInv'
  <2>1. \A tz \in Types, v \in Windows : life[tz][v] # "absent" => life'[tz][v] # "absent"
      BY <1>0, <1>10, ExpireEffect
  <2>2. index' = index /\ stream' = stream /\ writer' = writer /\ sent' = sent /\ done' = done
      BY <1>10 DEF Expire, flush
  <2>3. IndexedIsReadable'
      BY <1>0, <2>1, <2>2, IndexType DEF ReadableInv, IndexedIsReadable
  <2>4. ASSUME writer = "pipeline", sent % 3 # 0
        PROVE  stream[Current].type \in Types /\ stream[Current].window \in Windows
    <3>1. sent < 3 * (upto - done)
        BY <1>0, <2>4, BatchType DEF WriterInv, Commands
    <3>2. Current \in 1..Len(stream)
        BY <1>0, <3>1, BatchType DEF Current, OpIndex
    <3> QED
        BY <1>0, <3>2, OpType
  <2>5. Current' = Current
      BY <2>2 DEF Current, OpIndex
  <2> QED
      BY <2>1, <2>2, <2>3, <2>4, <2>5 DEF ReadableInv, LifeOf
<1>11. CASE Crash
  <2>1. IndexedIsReadable' /\ writer' = "idle"
      BY <1>1, <1>11 DEF Crash, redis
  <2> QED
      BY <2>1 DEF ReadableInv
<1>12. CASE UNCHANGED Stored
    BY <1>12 DEF Stored, redis, flush, ReadableInv, IndexedIsReadable, LifeOf, Current, OpIndex
<1> QED
    BY <1>2, <1>3, <1>4, <1>5, <1>6, <1>8, <1>9, <1>10, <1>11, <1>12, StepCases

\* The operations of the batch and the applied ones are operations.
LEMMA HeldOperations ==
    ASSUME TypeOK
    PROVE  \A i \in Batch \cup Applied :
             /\ i \in 1..Len(stream) /\ i \in Nat
             /\ stream[i] \in Ops
             /\ stream[i].type \in Types /\ stream[i].window \in Windows /\ stream[i].field \in Fields
BY BatchType, OpType

\* Every step of the pipeline keeps the TTLs it has given.
LEMMA TtlStep ==
    ASSUME StateInv, StateInv', TtlInv, [Next]_vars
    PROVE  TtlInv'
<1>0. TypeOK /\ WriterInv
    BY DEF StateInv
<1>a. TypeOK' /\ WriterInv'
    BY DEF StateInv
<1>1. ASSUME NEW op \in Ops, Operation(op) PROVE TtlInv'
  <2>1. /\ UNCHANGED <<life, writer, since, done, upto, sent>>
        /\ \A i \in 1..Len(stream) : stream'[i] = stream[i]
      BY <1>0, <1>1, OldOperations DEF Operation, redis, flush
  <2>2. Batch' = Batch /\ Applied' = Applied /\ Batch \subseteq 1..Len(stream) /\ Applied \subseteq 1..Len(stream)
      BY <1>0, <2>1, BatchType DEF Batch, Applied
  <2>3. \A i \in Batch \cup Applied : stream'[i] = stream[i] /\ LifeOf(i)' = LifeOf(i)
      BY <2>1, <2>2 DEF LifeOf
  <2>4. writer = "pipeline" /\ sent % 3 = 1 => Current \in 1..Len(stream) /\ Current' = Current
      BY <1>0, <2>1, BatchType DEF WriterInv, Commands, Current, OpIndex
  <2>5. ASSUME writer = "pipeline", NEW j \in Batch, 3 * (j - done) - 1 <= sent, LifeOf(j)' = "eternal"
        PROVE  sent % 3 = 1 /\ SameHash(Current, j)'
    <3>1. sent % 3 = 1 /\ SameHash(Current, j)
        BY <2>3, <2>5 DEF TtlInv
    <3> QED
        BY <2>1, <2>3, <2>4, <2>5, <3>1 DEF SameHash
  <2>6. writer \in {"zcard", "zrem"} => \A j \in Batch : LifeOf(j)' # "eternal"
      BY <2>3 DEF TtlInv
  <2> QED
      BY <2>1, <2>2, <2>5, <2>6 DEF TtlInv
<1>2. CASE Flush
  <2>1. /\ UNCHANGED <<stream, life, since, done>> /\ writer' = "pipeline" /\ sent' = 0
        /\ upto' >= upto /\ upto' \in Nat /\ upto \in Nat
      BY <1>0, <1>2, BatchType DEF Flush, redis
  <2>2. ASSUME NEW j \in Batch' PROVE ~(3 * (j - done') - 1 <= sent')
      BY <1>0, <2>1, BatchType DEF Batch
  <2> QED
      BY <2>1, <2>2 DEF TtlInv
<1>3. CASE PipelineCommand
  <2>1. PICK c \in Batch :
          /\ OpIndex(sent) = c
          /\ \/ sent = 3 * (c - done - 1) /\ Hset(stream[c], c)
             \/ sent = 3 * (c - done - 1) + 1 /\ ExpireCmd(stream[c])
             \/ sent = 3 * (c - done - 1) + 2 /\ Zadd(stream[c])
      BY <1>0, <1>3, NextCommand
  <2>2. /\ c \in 0..MaxOps /\ c \in Nat /\ done \in Nat /\ stream[c] \in Ops
        /\ stream[c].type \in Types /\ stream[c].window \in Windows
      BY <1>0, BatchType, HeldOperations, RedisAssumption DEF TypeOK
  <2>3. /\ sent' = sent + 1 /\ UNCHANGED <<stream, writer, since, done, upto>>
        /\ writer = "pipeline" /\ sent \in Nat
      BY <1>0, <1>3, BatchType DEF PipelineCommand
  <2>4. Batch' = Batch /\ Applied' = Applied
      BY <2>3 DEF Batch, Applied
  <2>5. \A j \in Batch : j \in Nat /\ j > done
      BY <1>0, BatchType DEF Batch
  <2>6. \A i \in Batch \cup Applied : stream[i].type \in Types /\ stream[i].window \in Windows
      BY <1>0, HeldOperations
  <2>7. CASE sent = 3 * (c - done - 1) /\ Hset(stream[c], c)
    <3>1. \A i \in Batch \cup Applied :
              LifeOf(i)' = "eternal" => LifeOf(i) = "eternal" \/ SameHash(c, i)
        BY <1>0, <2>2, <2>3, <2>6, <2>7, HsetEffect DEF LifeOf, SameHash
    <3>2. sent % 3 = 0 /\ sent' % 3 = 1
        BY <2>2, <2>3, <2>7
    <3>3. Current' = c
        BY <2>2, <2>3, <2>7 DEF Current, OpIndex
    <3>4. ASSUME NEW j \in Batch, 3 * (j - done) - 1 <= sent', LifeOf(j)' = "eternal"
          PROVE  SameHash(c, j)
      <4>1. 3 * (j - done) - 1 <= sent
          BY <2>2, <2>3, <2>5, <2>7, <3>4
      <4> QED
          BY <2>3, <3>1, <3>2, <3>4, <4>1 DEF TtlInv
    <3>5. \A j \in Batch : SameHash(c, j)' <=> SameHash(c, j)
        BY <2>3 DEF SameHash
    <3> QED
        BY <2>3, <2>4, <3>2, <3>3, <3>4, <3>5 DEF TtlInv, SameHash
  <2>8. CASE sent = 3 * (c - done - 1) + 1 /\ ExpireCmd(stream[c])
    <3>1. \A i \in Batch \cup Applied :
              LifeOf(i)' = "eternal" => LifeOf(i) = "eternal" /\ ~SameHash(c, i)
      <4>1. \A ty \in Types, w \in Windows :
              life'[ty][w] = "eternal" =>
                life[ty][w] = "eternal" /\ ~(stream[c].type = ty /\ stream[c].window = w)
          BY <1>0, <2>2, <2>8, ExpireCmdEffect
      <4> QED
          BY <2>3, <2>6, <4>1 DEF LifeOf, SameHash
    <3>2. ASSUME NEW j \in Batch, 3 * (j - done) - 1 <= sent', LifeOf(j)' = "eternal"
          PROVE  FALSE
      <4>1. LifeOf(j) = "eternal" /\ ~SameHash(c, j)
          BY <3>1, <3>2
      <4>2. j # c
          BY <4>1 DEF SameHash
      <4>3. 3 * (j - done) - 1 <= sent
          BY <2>2, <2>3, <2>5, <2>8, <3>2, <4>2
      <4>4. SameHash(Current, j)
          BY <2>3, <4>1, <4>3 DEF TtlInv
      <4> QED
          BY <2>1, <4>1, <4>4 DEF Current
    <3> QED
        BY <2>3, <2>4, <3>2 DEF TtlInv
  <2>9. CASE sent = 3 * (c - done - 1) + 2 /\ Zadd(stream[c])
    <3>1. life' = life /\ \A i : LifeOf(i)' = LifeOf(i)
        BY <2>3, <2>9 DEF Zadd, LifeOf
    <3>2. sent % 3 = 2
        BY <2>2, <2>9
    <3>3. ASSUME NEW j \in Batch, 3 * (j - done) - 1 <= sent', LifeOf(j)' = "eternal"
          PROVE  FALSE
      <4>1. 3 * (j - done) - 1 <= sent
          BY <2>2, <2>3, <2>5, <2>9, <3>3
      <4> QED
          BY <2>3, <3>1, <3>2, <3>3, <4>1 DEF TtlInv
    <3> QED
        BY <2>3, <2>4, <3>3 DEF TtlInv
  <2> QED
      BY <2>1, <2>7, <2>8, <2>9
<1>4. CASE PipelineReturns
  <2>1. UNCHANGED <<stream, life, since, done, upto>> /\ writer' = "zcard" /\ sent = 3 * (upto - done)
        /\ writer = "pipeline"
      BY <1>4 DEF PipelineReturns, Commands, redis
  <2>2. Batch' = Batch
      BY <2>1 DEF Batch
  <2>3. ASSUME NEW j \in Batch, LifeOf(j) = "eternal" PROVE FALSE
    <3>1. sent % 3 = 0 /\ 3 * (j - done) - 1 <= sent
        BY <1>0, <2>1, BatchType DEF Batch
    <3> QED
        BY <2>1, <2>3, <3>1 DEF TtlInv
  <2> QED
      BY <2>1, <2>2, <2>3 DEF TtlInv, LifeOf
<1>5. ASSUME UNCHANGED <<stream, life, since, upto>>, writer \in {"zcard", "zrem"},
             writer' \in {"zcard", "zrem", "retry"}, UNCHANGED done
      PROVE  TtlInv'
  <2>1. Batch' = Batch
      BY <1>5 DEF Batch
  <2> QED
      BY <1>5, <2>1 DEF TtlInv, LifeOf
<1>6. ASSUME writer' \in {"idle", "retry"} PROVE TtlInv'
    BY <1>6 DEF TtlInv
<1>7. CASE TrimCount
  <2>1. UNCHANGED <<stream, life, since, upto>> /\ writer = "zcard"
      BY <1>7 DEF TrimCount, redis
  <2>2. (writer' = "zrem" /\ UNCHANGED done) \/ Trimmed
      BY <1>7 DEF TrimCount
  <2> QED
      BY <1>0, <1>5, <1>6, <2>1, <2>2, TrimmedEffect DEF WriterInv
<1>8. CASE TrimRemove
  <2>1. UNCHANGED <<stream, life, since, upto>> /\ writer = "zrem" /\ Trimmed
      BY <1>8 DEF TrimRemove
  <2> QED
      BY <1>0, <1>5, <1>6, <2>1, TrimmedEffect DEF WriterInv
<1>9. CASE ApplyFails
    BY <1>6, <1>9 DEF ApplyFails
<1>10. ASSUME NEW ty \in Types, NEW w \in Windows, Expire(ty, w) PROVE TtlInv'
  <2>1. UNCHANGED <<stream, writer, since, done, upto, sent>>
      BY <1>10 DEF Expire, flush
  <2>2. \A tz \in Types, v \in Windows : life'[tz][v] = "eternal" => life[tz][v] = "eternal"
      BY <1>0, <1>10, ExpireEffect
  <2>3. \A i \in Batch \cup Applied : LifeOf(i)' = "eternal" => LifeOf(i) = "eternal"
      BY <1>0, <2>1, <2>2, HeldOperations DEF LifeOf
  <2>4. Batch' = Batch /\ Applied' = Applied /\ Current' = Current
      BY <2>1 DEF Batch, Applied, Current, OpIndex
  <2>5. \A j : SameHash(Current, j)' <=> SameHash(Current, j)
      BY <2>1, <2>4 DEF SameHash
  <2> QED
      BY <2>1, <2>3, <2>4, <2>5 DEF TtlInv
<1>11. CASE Crash
    BY <1>6, <1>11 DEF Crash
<1>12. CASE UNCHANGED Stored
    BY <1>12 DEF Stored, redis, flush, TtlInv, LifeOf, SameHash, Current, OpIndex, Batch, Applied
<1> QED
    BY <1>1, <1>2, <1>3, <1>4, <1>7, <1>8, <1>9, <1>10, <1>11, <1>12, StepCases

\* Of hashes that are unfinished, a step without a crash only loses those of a batch it
\* ends; and those have their TTL.
LEMMA RenewStep ==
    ASSUME StateInv, StateInv', TtlInv, TtlRenewed, [Next]_vars
    PROVE  TtlRenewed'
<1>0. TypeOK /\ WriterInv
    BY DEF StateInv
<1>1. Crash \/ UNCHANGED cutoff
    BY DEF Next, vars, ended, Operation, Flush, PipelineCommand, PipelineReturns, TrimCount,
           TrimRemove, ApplyFails, RequestBegins, HashRead, LookupOver, Expire
<1>2. ASSUME \A ty \in Types, w \in Windows :
                 /\ life'[ty][w] = "eternal" => life[ty][w] = "eternal" \/ Unfinished(ty, w)
                 /\ Unfinished(ty, w) => Unfinished(ty, w)'
      PROVE  TtlRenewed'
    BY <1>2 DEF TtlRenewed
<1>3. ASSUME UNCHANGED <<stream, since, done, upto, cutoff>>,
             NEW ty \in Types, NEW w \in Windows, Unfinished(ty, w)
      PROVE  Unfinished(ty, w)'
    BY <1>3 DEF Unfinished, Writes, Applied
<1>4. ASSUME NEW op \in Ops, Operation(op) PROVE TtlRenewed'
  <2>1. /\ UNCHANGED <<life, since, done, upto, cutoff>>
        /\ \A i \in 1..Len(stream) : stream'[i] = stream[i]
      BY <1>0, <1>4, OldOperations DEF Operation, redis, flush, ended
  <2>2. /\ Batch \subseteq 1..Len(stream) /\ Applied \subseteq 1..Len(stream)
        /\ Batch' = Batch /\ Applied' = Applied
      BY <1>0, <2>1, BatchType DEF Batch, Applied
  <2>3. \A i \in Batch \cup Applied : \A ty, w : Writes(i, ty, w)' <=> Writes(i, ty, w)
      BY <2>1, <2>2 DEF Writes
  <2>4. \A ty, w : Unfinished(ty, w) => Unfinished(ty, w)'
      BY <2>1, <2>2, <2>3 DEF Unfinished, Batch
  <2> QED
      BY <1>2, <2>1, <2>4
<1>5. CASE Flush
  <2>1. /\ UNCHANGED <<stream, life, since, done, cutoff>>
        /\ upto' >= upto /\ upto' \in Nat /\ upto \in Nat /\ done \in Nat
      BY <1>0, <1>5, BatchType DEF Flush, redis, ended
  <2>2. Batch \subseteq Batch' /\ Applied' = Applied
      BY <2>1 DEF Batch, Applied
  <2>3. \A ty, w : Unfinished(ty, w) => Unfinished(ty, w)'
      BY <2>1, <2>2 DEF Unfinished, Writes, Batch
  <2> QED
      BY <1>2, <2>1, <2>3
<1>6. CASE PipelineCommand
  <2>1. PICK c \in Batch :
          /\ OpIndex(sent) = c
          /\ \/ sent = 3 * (c - done - 1) /\ Hset(stream[c], c)
             \/ sent = 3 * (c - done - 1) + 1 /\ ExpireCmd(stream[c])
             \/ sent = 3 * (c - done - 1) + 2 /\ Zadd(stream[c])
      BY <1>0, <1>6, NextCommand
  <2>2. /\ c \in 0..MaxOps /\ stream[c] \in Ops
        /\ stream[c].type \in Types /\ stream[c].window \in Windows
      BY <1>0, BatchType, HeldOperations, RedisAssumption DEF TypeOK
  <2>3. UNCHANGED <<stream, since, done, upto, cutoff>>
      BY <1>6 DEF PipelineCommand, ended
  <2>4. \A ty \in Types, w \in Windows : Unfinished(ty, w) => Unfinished(ty, w)'
      BY <1>3, <2>3
  <2>5. Unfinished(stream[c].type, stream[c].window)
      BY DEF Unfinished, Writes, Batch
  <2>6. CASE Hset(stream[c], c)
    <3>1. \A ty \in Types, w \in Windows :
              life'[ty][w] = life[ty][w] \/ (ty = stream[c].type /\ w = stream[c].window)
        BY <1>0, <2>2, <2>6, HsetEffect
    <3> QED
        BY <1>2, <2>4, <2>5, <3>1
  <2>7. CASE ExpireCmd(stream[c])
    <3>1. \A ty \in Types, w \in Windows : life'[ty][w] = "eternal" => life[ty][w] = "eternal"
        BY <1>0, <2>2, <2>7, ExpireCmdEffect
    <3> QED
        BY <1>2, <2>4, <3>1
  <2>8. CASE Zadd(stream[c])
      BY <1>2, <2>4, <2>8 DEF Zadd
  <2> QED
      BY <2>1, <2>6, <2>7, <2>8
<1>7. ASSUME UNCHANGED <<stream, life, since, done, upto, cutoff>> PROVE TtlRenewed'
    BY <1>2, <1>3, <1>7
<1>8. ASSUME UNCHANGED <<stream, life, since, upto, cutoff>>, writer \in {"zcard", "zrem"},
             done' = upto
      PROVE  TtlRenewed'
  <2>1. Applied' = Applied \cup Batch /\ Batch' = {}
      BY <1>0, <1>8, BatchType DEF WriterInv, Applied, Batch
  <2>2. ASSUME NEW ty \in Types, NEW w \in Windows, life[ty][w] = "eternal"
        PROVE  Unfinished(ty, w)'
    <3>1. \A i \in Batch : ~Writes(i, ty, w)
        BY <1>8, <2>2 DEF TtlInv, LifeOf, Writes
    <3>2. <<ty, w>> \in cutoff /\ \A i \in Applied : ~Writes(i, ty, w)
        BY <2>2, <3>1 DEF TtlRenewed, Unfinished, Batch
    <3> QED
        BY <1>8, <2>1, <3>1, <3>2 DEF Unfinished, Writes
  <2> QED
      BY <1>8, <2>2 DEF TtlRenewed
<1>9. CASE TrimCount \/ TrimRemove
  <2>1. /\ UNCHANGED <<stream, life, since, upto, cutoff>> /\ writer \in {"zcard", "zrem"}
        /\ UNCHANGED done \/ Trimmed
      BY <1>9 DEF TrimCount, TrimRemove, redis, ended
  <2> QED
      BY <1>0, <1>7, <1>8, <2>1, TrimmedEffect DEF WriterInv
<1>10. CASE PipelineReturns \/ ApplyFails
    BY <1>7, <1>10 DEF PipelineReturns, ApplyFails, redis, ended
<1>11. ASSUME NEW ty \in Types, NEW w \in Windows, Expire(ty, w) PROVE TtlRenewed'
  <2>1. UNCHANGED <<stream, since, done, upto, cutoff>>
      BY <1>11 DEF Expire, flush, ended
  <2>2. \A tz \in Types, v \in Windows : life'[tz][v] = "eternal" => life[tz][v] = "eternal"
      BY <1>0, <1>11, ExpireEffect
  <2> QED
      BY <1>2, <1>3, <2>1, <2>2
<1>12. CASE Crash
  <2>1. /\ life' = life /\ since' = done' /\ done' \in Int
        /\ cutoff' = {c \in Types \X Windows : Unfinished(c[1], c[2])}
      BY <1>12 DEF Crash, redis
  <2>2. Applied' = {}
    <3>1. \A n \in Int : (n + 1)..n = {}
        OBVIOUS
    <3> QED
        BY <2>1, <3>1 DEF Applied
  <2>3. ASSUME NEW ty \in Types, NEW w \in Windows, life'[ty][w] = "eternal"
        PROVE  <<ty, w>> \in cutoff'
      BY <2>1, <2>3 DEF TtlRenewed
  <2> QED
      BY <2>2, <2>3 DEF TtlRenewed, Unfinished
<1>13. CASE UNCHANGED Stored
  <2>1. Crash \/ UNCHANGED <<stream, life, since, done, upto, cutoff>>
      BY <1>1, <1>13 DEF Stored, redis, flush
  <2> QED
      BY <1>7, <1>12, <2>1
<1> QED
    BY <1>4, <1>5, <1>6, <1>9, <1>10, <1>11, <1>12, <1>13, StepCases

-----------------------------------------------------------------------------
(* The fields: the last operation wins *)

\* Operations that do not set the same field are in different places.
LEMMA OtherField ==
    ASSUME TypeOK, NEW i \in 1..Len(stream), NEW j \in 1..Len(stream), stream[i] # stream[j]
    PROVE  ~(stream[i].type = stream[j].type /\ stream[i].window = stream[j].window
                /\ stream[i].field = stream[j].field)
<1>1. \A a, b \in Ops : a.type = b.type /\ a.window = b.window /\ a.field = b.field => a = b
    BY DEF Ops
<1> QED
    BY <1>1, OpType

\* When the batch is done, the last of all operations that set a field is in it.
LEMMA FieldDone ==
    ASSUME TypeOK, FieldInv, writer \in {"zcard", "zrem"}
    PROVE  \A i \in Batch \cup Applied : LastUpTo(i, upto) => Value(i) \in {i, 0}
<1>1. \A i \in Batch : LastUpTo(i, upto) => Value(i) \in {i, 0}
    BY DEF FieldInv
<1>2. ASSUME NEW i \in Applied, LastUpTo(i, upto) PROVE Value(i) \in {i, 0}
  <2>1. i \in Nat /\ i <= done /\ done <= upto /\ done \in Nat /\ upto \in Nat /\ since \in Nat
      BY BatchType DEF Applied
  <2>2. LastUpTo(i, done)
      BY <1>2, <2>1 DEF LastUpTo
  <2>3. \A j \in Batch : stream[j] # stream[i]
      BY <1>2, <2>1 DEF LastUpTo, Batch
  <2> QED
      BY <2>2, <2>3 DEF FieldInv
<1> QED
    BY <1>1, <1>2

\* Every step keeps the fields at what the commands executed so far have written.
LEMMA FieldStep ==
    ASSUME StateInv, StateInv', FieldInv, [Next]_vars
    PROVE  FieldInv'
<1>0. TypeOK /\ WriterInv
    BY DEF StateInv
<1>1. ASSUME NEW op \in Ops, Operation(op) PROVE FieldInv'
  <2>1. /\ UNCHANGED <<hash, writer, since, done, upto, sent>>
        /\ \A i \in 1..Len(stream) : stream'[i] = stream[i]
      BY <1>0, <1>1, OldOperations DEF Operation, redis, flush
  <2>2. /\ Batch' = Batch /\ Applied' = Applied /\ Executed' = Executed
        /\ \A i \in Batch \cup Applied : i \in 1..Len(stream)
      BY <1>0, <2>1, BatchType DEF Batch, Applied, Executed
  <2>3. \A i \in 1..Len(stream) : Value(i)' = Value(i)
      BY <2>1 DEF Value
  <2>4. ASSUME NEW n \in Nat, n <= Len(stream), NEW i \in 1..Len(stream), LastUpTo(i, n)'
        PROVE  LastUpTo(i, n)
    <3>1. (i + 1)..n \subseteq 1..Len(stream)
        BY <1>0, <2>4, BatchType
    <3> QED
        BY <2>1, <2>4, <3>1 DEF LastUpTo
  <2>5. /\ done \in Nat /\ done <= Len(stream) /\ upto \in Nat /\ upto <= Len(stream)
        /\ writer = "pipeline" => Executed \in Nat /\ Executed <= upto
      BY <1>0, BatchType DEF WriterInv, Commands, Executed
  <2>6. ASSUME NEW i \in Applied, LastUpTo(i, done)'
        PROVE  Value(i)' \in {i, 0} \/ (Value(i)' \in Batch /\ (stream[Value(i)] = stream[i])')
    <3>1. LastUpTo(i, done)
        BY <2>1, <2>2, <2>4, <2>5, <2>6
    <3>2. CASE Value(i) \in {i, 0}
        BY <2>2, <2>3, <3>2
    <3>3. CASE Value(i) \in Batch /\ stream[Value(i)] = stream[i]
        BY <2>1, <2>2, <2>3, <3>3
    <3> QED
        BY <3>1, <3>2, <3>3 DEF FieldInv
  <2>7. ASSUME writer = "pipeline", NEW i \in (done + 1)..Executed, LastUpTo(i, Executed)'
        PROVE  Value(i)' \in {i, 0}
    <3>1. i \in 1..Len(stream)
        BY <1>0, <2>5, <2>7, BatchType
    <3>2. LastUpTo(i, Executed)
        BY <2>1, <2>2, <2>4, <2>5, <2>7, <3>1, BatchType, <1>0
    <3> QED
        BY <2>3, <2>7, <3>1, <3>2 DEF FieldInv
  <2>8. ASSUME writer \in {"zcard", "zrem"}, NEW i \in Batch, LastUpTo(i, upto)'
        PROVE  Value(i)' \in {i, 0}
    <3>1. LastUpTo(i, upto)
        BY <2>1, <2>2, <2>4, <2>5, <2>8
    <3> QED
        BY <2>2, <2>3, <2>8, <3>1 DEF FieldInv
  <2> QED
      BY <2>1, <2>2, <2>6, <2>7, <2>8 DEF FieldInv, LastUpTo
<1>2. CASE Flush
  <2>1. /\ UNCHANGED <<stream, hash, since, done>> /\ writer' = "pipeline" /\ sent' = 0
        /\ upto' >= upto /\ upto' \in Nat /\ upto \in Nat
      BY <1>0, <1>2, BatchType DEF Flush, redis
  <2>2. Batch \subseteq Batch' /\ Applied' = Applied
      BY <1>0, <2>1, BatchType DEF Batch, Applied
  <2>3. Executed' = done /\ (done + 1)..done = {}
    <3>1. done \in Nat /\ done' = done /\ sent' = 0
        BY <1>0, <2>1, BatchType
    <3>2. \A n \in Nat : n + ((0 + 2) \div 3) = n /\ (n + 1)..n = {}
        OBVIOUS
    <3> QED
        BY <3>1, <3>2 DEF Executed
  <2>4. \A i \in Applied : LastUpTo(i, done) =>
             Value(i) \in {i, 0} \/ (Value(i) \in Batch' /\ stream[Value(i)] = stream[i])
      BY <2>2 DEF FieldInv
  <2> QED
      BY <2>1, <2>2, <2>3, <2>4 DEF FieldInv, LastUpTo, Value
<1>3. CASE PipelineCommand
  <2>1. PICK c \in Batch :
          /\ OpIndex(sent) = c
          /\ \/ sent = 3 * (c - done - 1) /\ Hset(stream[c], c)
             \/ sent = 3 * (c - done - 1) + 1 /\ ExpireCmd(stream[c])
             \/ sent = 3 * (c - done - 1) + 2 /\ Zadd(stream[c])
      BY <1>0, <1>3, NextCommand
  <2>2. /\ c \in 0..MaxOps /\ c \in Nat /\ done \in Nat /\ c \in 1..Len(stream) /\ stream[c] \in Ops
      BY <1>0, BatchType, HeldOperations, RedisAssumption DEF TypeOK
  <2>3. /\ sent' = sent + 1 /\ UNCHANGED <<stream, writer, since, done, upto>>
        /\ writer = "pipeline" /\ sent \in Nat
      BY <1>0, <1>3, BatchType DEF PipelineCommand
  <2>4. Batch' = Batch /\ Applied' = Applied
      BY <2>3 DEF Batch, Applied
  <2>5. CASE sent = 3 * (c - done - 1) /\ Hset(stream[c], c)
    <3>1. Executed = c - 1 /\ Executed' = c
        BY <2>2, <2>3, <2>5 DEF Executed
    <3>2. \A i \in 1..Len(stream) :
              Value(i)' = IF stream[i] = stream[c] THEN c ELSE Value(i)
      <4>1. ASSUME NEW i \in 1..Len(stream), stream[i] = stream[c] PROVE Value(i)' = c
          BY <1>0, <2>2, <2>3, <2>5, <4>1, OpType, HsetEffect DEF Value
      <4>2. ASSUME NEW i \in 1..Len(stream), stream[i] # stream[c] PROVE Value(i)' = Value(i)
          BY <1>0, <2>2, <2>3, <2>5, <4>2, OpType, OtherField, HsetEffect DEF Value
      <4> QED
          BY <4>1, <4>2
    <3>3. ASSUME NEW i \in Applied, LastUpTo(i, done)
          PROVE  Value(i)' \in {i, 0} \/ (Value(i)' \in Batch /\ stream[Value(i)'] = stream[i])
      <4>1. i \in 1..Len(stream)
          BY <1>0, HeldOperations
      <4>2. CASE stream[i] = stream[c]
          BY <3>2, <4>1, <4>2
      <4>3. CASE stream[i] # stream[c]
        <5>1. Value(i)' = Value(i)
            BY <3>2, <4>1, <4>3
        <5> QED
            BY <3>3, <5>1 DEF FieldInv
      <4> QED
          BY <4>2, <4>3
    <3>4. ASSUME NEW i \in (done + 1)..c, LastUpTo(i, c) PROVE Value(i)' \in {i, 0}
      <4>1. i \in 1..Len(stream)
          BY <1>0, <2>2, BatchType
      <4>2. CASE i = c
          BY <3>2, <4>1, <4>2
      <4>3. CASE i # c
        <5>1. i \in (done + 1)..(c - 1) /\ c \in (i + 1)..c
            BY <2>2, <4>3
        <5>2. stream[i] # stream[c] /\ LastUpTo(i, c - 1)
            BY <2>2, <3>4, <5>1 DEF LastUpTo
        <5>3. Value(i) \in {i, 0}
            BY <2>3, <3>1, <5>1, <5>2 DEF FieldInv
        <5> QED
            BY <3>2, <4>1, <5>2, <5>3
      <4> QED
          BY <4>2, <4>3
    <3> QED
        BY <2>3, <2>4, <3>1, <3>3, <3>4 DEF FieldInv, LastUpTo
  <2>6. ASSUME UNCHANGED hash, Executed' = Executed PROVE FieldInv'
      BY <2>3, <2>4, <2>6 DEF FieldInv, LastUpTo, Value
  <2>7. CASE sent = 3 * (c - done - 1) + 1 /\ ExpireCmd(stream[c])
    <3>1. Executed = c /\ Executed' = c
        BY <2>2, <2>3, <2>7 DEF Executed
    <3> QED
        BY <2>6, <2>7, <3>1 DEF ExpireCmd
  <2>8. CASE sent = 3 * (c - done - 1) + 2 /\ Zadd(stream[c])
    <3>1. Executed = c /\ Executed' = c
        BY <2>2, <2>3, <2>8 DEF Executed
    <3> QED
        BY <2>6, <2>8, <3>1 DEF Zadd
  <2> QED
      BY <2>1, <2>5, <2>7, <2>8
<1>4. CASE PipelineReturns
  <2>1. UNCHANGED <<stream, hash, since, done, upto>> /\ writer' = "zcard" /\ sent = 3 * (upto - done)
        /\ writer = "pipeline"
      BY <1>4 DEF PipelineReturns, Commands, redis
  <2>2. Executed = upto
    <3>1. \A n \in Nat : (3 * n + 2) \div 3 = n
        OBVIOUS
    <3>2. done \in Nat /\ upto \in Nat /\ upto - done \in Nat
        BY <1>0, BatchType
    <3>3. (sent + 2) \div 3 = upto - done
        BY <2>1, <3>1, <3>2
    <3> QED
        BY <3>2, <3>3 DEF Executed
  <2> QED
      BY <2>1, <2>2 DEF FieldInv, LastUpTo, Value, Batch, Applied
<1>5. ASSUME UNCHANGED <<stream, hash, since, upto, done>>, writer \in {"zcard", "zrem"},
             writer' \in {"zcard", "zrem", "retry"}
      PROVE  FieldInv'
    BY <1>5 DEF FieldInv, LastUpTo, Value, Batch, Applied
<1>6. ASSUME UNCHANGED <<stream, hash, since, upto>>, writer \in {"zcard", "zrem"},
             writer' = "idle", done' = upto
      PROVE  FieldInv'
  <2>1. Applied' \subseteq Batch \cup Applied
      BY <1>0, <1>6, BatchType DEF Applied, Batch
  <2> QED
      BY <1>0, <1>6, <2>1, FieldDone DEF FieldInv, LastUpTo, Value
<1>7. CASE TrimCount
  <2>1. UNCHANGED <<stream, hash, since, upto>> /\ writer = "zcard"
      BY <1>7 DEF TrimCount, redis
  <2>2. (writer' = "zrem" /\ UNCHANGED done) \/ Trimmed
      BY <1>7 DEF TrimCount
  <2> QED
      BY <1>0, <1>5, <1>6, <2>1, <2>2, TrimmedEffect DEF WriterInv
<1>8. CASE TrimRemove
  <2>1. UNCHANGED <<stream, hash, since, upto>> /\ writer = "zrem" /\ Trimmed
      BY <1>8 DEF TrimRemove
  <2> QED
      BY <1>0, <1>5, <1>6, <2>1, TrimmedEffect DEF WriterInv
<1>9. CASE ApplyFails
  <2>1. UNCHANGED <<stream, hash, since, done, upto>> /\ writer' = "retry"
      BY <1>9 DEF ApplyFails
  <2> QED
      BY <2>1 DEF FieldInv, LastUpTo, Value, Batch, Applied
<1>10. ASSUME NEW ty \in Types, NEW w \in Windows, Expire(ty, w) PROVE FieldInv'
  <2>1. UNCHANGED <<stream, writer, since, done, upto, sent>>
      BY <1>10 DEF Expire, flush
  <2>2. \A i \in 1..Len(stream) : Value(i)' = 0 \/ Value(i)' = Value(i)
      BY <1>0, <1>10, <2>1, OpType, ExpireEffect DEF Value
  <2>3. Batch' = Batch /\ Applied' = Applied /\ Executed' = Executed
      BY <2>1 DEF Batch, Applied, Executed
  <2>4. \A i \in Batch \cup Applied : Value(i)' = 0 \/ Value(i)' = Value(i)
      BY <1>0, <2>2, HeldOperations
  <2>5. writer = "pipeline" => \A i \in (done + 1)..Executed : i \in Batch
      BY <1>0, BatchType DEF WriterInv, Commands, Executed, Batch
  <2>6. ASSUME NEW i \in Applied, LastUpTo(i, done)
        PROVE  Value(i)' \in {i, 0} \/ (Value(i)' \in Batch /\ stream[Value(i)'] = stream[i])
      BY <2>4, <2>6 DEF FieldInv
  <2>7. ASSUME writer = "pipeline", NEW i \in (done + 1)..Executed, LastUpTo(i, Executed)
        PROVE  Value(i)' \in {i, 0}
      BY <2>4, <2>5, <2>7 DEF FieldInv
  <2>8. ASSUME writer \in {"zcard", "zrem"}, NEW i \in Batch, LastUpTo(i, upto)
        PROVE  Value(i)' \in {i, 0}
      BY <2>4, <2>8 DEF FieldInv
  <2> QED
      BY <2>1, <2>3, <2>6, <2>7, <2>8 DEF FieldInv, LastUpTo
<1>11. CASE Crash
  <2>1. writer' = "idle" /\ since' = done' /\ done' \in Int
      BY <1>11 DEF Crash
  <2>2. Applied' = {}
    <3>1. \A n \in Int : (n + 1)..n = {}
        OBVIOUS
    <3> QED
        BY <2>1, <3>1 DEF Applied
  <2> QED
      BY <2>1, <2>2 DEF FieldInv
<1>12. CASE UNCHANGED Stored
    BY <1>12 DEF Stored, redis, flush, FieldInv, LastUpTo, Value, Executed, Batch, Applied
<1> QED
    BY <1>1, <1>2, <1>3, <1>4, <1>7, <1>8, <1>9, <1>10, <1>11, <1>12, StepCases

-----------------------------------------------------------------------------
(* The indices: trimmed to the retention count *)

\* Every step keeps the trimmed indices within the retention count.
LEMMA TrimStep ==
    ASSUME StateInv, StateInv', TrimInv, [Next]_vars
    PROVE  TrimInv'
<1>0. TypeOK /\ WriterInv
    BY DEF StateInv
<1> DEFINE Dealt(i) == stream[i].type \in touched \/ Cardinality(index[stream[i].type]) <= Retention
<1>1. ASSUME NEW op \in Ops, Operation(op) PROVE TrimInv'
  <2>1. /\ UNCHANGED <<index, writer, done, upto, touched, excess>>
        /\ \A i \in 1..Len(stream) : stream'[i] = stream[i]
      BY <1>0, <1>1, OldOperations DEF Operation, redis, flush
  <2>2. Batch' = Batch /\ Batch \subseteq 1..Len(stream) /\ TrimType' = TrimType
      BY <1>0, <2>1, BatchType DEF Batch, TrimType
  <2> QED
      BY <2>1, <2>2 DEF TrimInv
<1>2. CASE Flush
    BY <1>2 DEF Flush, TrimInv
<1>3. CASE PipelineCommand
    BY <1>3 DEF PipelineCommand, TrimInv
<1>4. CASE PipelineReturns
  <2>1. stream' = stream /\ done' = done /\ upto' = upto /\ writer' = "zcard"
        /\ touched' = {stream[i].type : i \in Batch}
      BY <1>4 DEF PipelineReturns, Batch
  <2>2. Batch' = Batch
      BY <2>1 DEF Batch
  <2>3. \A i \in Batch : stream[i].type \in touched'
      BY <2>1
  <2> QED
      BY <2>1, <2>2, <2>3 DEF TrimInv
<1>5. CASE TrimCount
  <2>1. /\ UNCHANGED <<stream, index, upto>> /\ writer = "zcard" /\ TrimType \in touched
        /\ TrimType \in Types /\ touched # {}
      BY <1>0, <1>5, TrimTypeTouched DEF TrimCount, WriterInv, redis
  <2>2. Cardinality(index[TrimType]) \in 0..MaxWindow
      BY <1>0, <2>1, IndexType
  <2> HIDE DEF TrimType
  <2>3. CASE /\ Cardinality(index[TrimType]) > Retention
             /\ excess' = Cardinality(index[TrimType]) - Retention
             /\ writer' = "zrem" /\ UNCHANGED <<touched, done>>
    <3>1. TrimType' = TrimType
        BY <2>3 DEF TrimType
    <3> QED
        BY <2>1, <2>3, <3>1 DEF TrimInv, Batch
  <2>4. CASE ~(Cardinality(index[TrimType]) > Retention) /\ Trimmed
    <3>1. Cardinality(index[TrimType]) <= Retention
        BY <2>2, <2>4, RedisAssumption
    <3>2. CASE writer' = "idle"
        BY <3>2 DEF TrimInv
    <3>3. CASE writer' = "zcard" /\ done' = done /\ touched' = touched \ {TrimType}
      <4>1. \A i \in Batch : Dealt(i)'
          BY <2>1, <3>1, <3>3 DEF TrimInv
      <4> QED
          BY <2>1, <3>3, <4>1 DEF TrimInv, Batch
    <3> QED
        BY <1>0, <2>1, <2>4, <3>2, <3>3, TrimmedEffect
  <2> QED
      BY <1>5, <2>3, <2>4 DEF TrimCount
<1>6. CASE TrimRemove
  <2>1. UNCHANGED <<stream, upto>> /\ writer = "zrem" /\ Trimmed /\ index' = TrimmedIndex /\ touched # {}
      BY <1>0, <1>6 DEF TrimRemove, WriterInv
  <2>2. /\ TrimType \in Types /\ excess \in Nat /\ excess = Cardinality(index[TrimType]) - Retention
        /\ index'[TrimType] = WithoutLowest(index[TrimType], excess)
        /\ \A ty \in Types \ {TrimType} : index'[ty] = index[ty]
      BY <1>0, <2>1, TrimEffect
  <2>3. Cardinality(index'[TrimType]) <= Retention
    <3>1. index[TrimType] \in SUBSET Int /\ IsFiniteSet(index[TrimType])
          /\ Cardinality(index[TrimType]) \in 0..MaxWindow
        BY <1>0, <2>2, IndexType
    <3> HIDE DEF TrimType
    <3>2. excess <= Cardinality(index[TrimType])
        BY <2>2, <3>1, RedisAssumption
    <3>3. Cardinality(index'[TrimType]) <= Cardinality(index[TrimType]) - excess
        BY <2>2, <3>1, <3>2, WithoutLowestSize
    <3>4. Cardinality(index[TrimType]) - excess = Retention
        BY <2>2, <3>1, RedisAssumption
    <3> QED
        BY <3>3, <3>4
  <2>4. CASE writer' = "idle"
      BY <2>4 DEF TrimInv
  <2>5. CASE writer' = "zcard" /\ done' = done /\ touched' = touched \ {TrimType}
    <3> HIDE DEF TrimType
    <3>1. \A i \in Batch : stream[i].type \in Types
        BY <1>0, HeldOperations
    <3>2. \A i \in Batch : Dealt(i)'
        BY <2>1, <2>2, <2>3, <2>5, <3>1 DEF TrimInv
    <3> QED
        BY <2>1, <2>5, <3>2 DEF TrimInv, Batch
  <2> QED
      BY <1>0, <2>1, <2>4, <2>5, TrimmedEffect
<1>7. CASE ApplyFails
    BY <1>7 DEF ApplyFails, TrimInv
<1>8. ASSUME NEW ty \in Types, NEW w \in Windows, Expire(ty, w) PROVE TrimInv'
    BY <1>8 DEF Expire, flush, TrimInv, Batch, TrimType
<1>9. CASE Crash
    BY <1>9 DEF Crash, TrimInv
<1>10. CASE UNCHANGED Stored
    BY <1>10 DEF Stored, redis, flush, TrimInv, Batch, TrimType
<1> QED
    BY <1>1, <1>2, <1>3, <1>4, <1>5, <1>6, <1>7, <1>8, <1>9, <1>10, StepCases

\* What a step takes from an index it takes from below: Retention newer windows were
\* there, and one of them stays.
LEMMA IndexStep ==
    ASSUME StateInv, TrimInv, [Next]_vars, NEW ty \in Types
    PROVE  /\ \A w \in index[ty] \ index'[ty] : Cardinality({v \in index[ty] : v > w}) >= Retention
           /\ \A w \in index[ty] : \E v \in index'[ty] : v >= w
<1>0. TypeOK /\ WriterInv
    BY DEF StateInv
<1>1. \A w \in index[ty] : w \in Int /\ w >= w
    BY <1>0, IndexType
<1>2. ASSUME index[ty] \subseteq index'[ty]
      PROVE  /\ \A w \in index[ty] \ index'[ty] : Cardinality({v \in index[ty] : v > w}) >= Retention
             /\ \A w \in index[ty] : \E v \in index'[ty] : v >= w
    BY <1>1, <1>2
<1>3. ASSUME writer = "zrem", index' = TrimmedIndex
      PROVE  /\ \A w \in index[ty] \ index'[ty] : Cardinality({v \in index[ty] : v > w}) >= Retention
             /\ \A w \in index[ty] : \E v \in index'[ty] : v >= w
  <2>1. /\ TrimType \in Types /\ excess \in Nat /\ excess = Cardinality(index[TrimType]) - Retention
        /\ index'[TrimType] = WithoutLowest(index[TrimType], excess)
        /\ \A tz \in Types \ {TrimType} : index'[tz] = index[tz]
      BY <1>0, <1>3, TrimEffect
  <2> HIDE DEF TrimType
  <2>2. CASE ty # TrimType
      BY <1>2, <2>1, <2>2
  <2>3. CASE ty = TrimType
    <3>1. index[ty] \in SUBSET Int /\ IsFiniteSet(index[ty]) /\ Cardinality(index[ty]) \in Nat
        BY <1>0, IndexType
    <3>2. excess < Cardinality(index[ty]) /\ Cardinality(index[ty]) - excess = Retention
        BY <2>1, <2>3, <3>1, RedisAssumption
    <3>3. ASSUME NEW w \in index[ty] \ index'[ty]
          PROVE  Cardinality({v \in index[ty] : v > w}) >= Retention
        BY <2>1, <2>3, <3>1, <3>2, LowestGoFirst
    <3>4. ASSUME NEW w \in index[ty] PROVE \E v \in index'[ty] : v >= w
        BY <2>1, <2>3, <3>1, <3>2, GreatestStays
    <3> QED
        BY <3>3, <3>4
  <2> QED
      BY <2>2, <2>3
<1>4. CASE PipelineCommand
  <2>1. PICK c \in Batch : Hset(stream[c], c) \/ ExpireCmd(stream[c]) \/ Zadd(stream[c])
      BY <1>0, <1>4, NextCommand
  <2>2. stream[c].type \in Types
      BY <1>0, HeldOperations
  <2>3. index[ty] \subseteq index'[ty]
      BY <1>0, <2>1, <2>2 DEF Hset, ExpireCmd, Zadd, TypeOK
  <2> QED
      BY <1>2, <2>3
<1>5. CASE UNCHANGED index
    BY <1>2, <1>5
<1>6. CASE TrimRemove
    BY <1>3, <1>6 DEF TrimRemove
<1>7. CASE ApplyFails
    BY <1>3, <1>5, <1>7 DEF ApplyFails
<1>8. \/ PipelineCommand \/ TrimRemove \/ ApplyFails \/ UNCHANGED index
    BY StepCases DEF Operation, Flush, PipelineReturns, TrimCount, Expire, Crash, Stored, redis
<1> QED
    BY <1>4, <1>5, <1>6, <1>7, <1>8

-----------------------------------------------------------------------------
(* What clients are shown *)

\* Nobody has been shown a window at first.
LEMMA InitShown == Init => ShownInv
BY DEF Init, ShownInv

\* No step makes a window out of reach.
LEMMA ReachedStays ==
    ASSUME StateInv, StateInv', TrimInv, [Next]_vars,
           NEW ty \in Types, NEW w \in Int, Reached(ty, w)
    PROVE  Reached(ty, w)'
<1>0. index[ty] \subseteq Int /\ index'[ty] \subseteq Int
  <2>1. Windows \subseteq Int
      BY RedisAssumption DEF Windows
  <2>2. index[ty] \in SUBSET Windows /\ index'[ty] \in SUBSET Windows
      BY DEF StateInv, TypeOK
  <2> QED
      BY <2>1, <2>2
<1>1. PICK v \in index[ty] : v >= w
    BY DEF Reached
<1>2. PICK u \in index'[ty] : u >= v
    BY IndexStep
<1> QED
    BY <1>0, <1>1, <1>2 DEF Reached

\* The windows a first read gets are the newest of their index, no older than any
\* shown before.
LEMMA FirstRead ==
    ASSUME TypeOK, NEW lookups \in Seq(Lookups), lookups # <<>>, RangeRead(lookups),
           Head(lookups).limit = 1, NEW s \in 0..MaxWindow,
           s = 0 \/ Reached(Head(lookups).type, s),
           NEW w \in ids'
    PROVE  s <= w /\ Reached(Head(lookups).type, w)
<1> DEFINE ty == Head(lookups).type
<1>1. ty \in Types
    BY HeadType
<1>2. index[ty] \in SUBSET Int /\ index[ty] \subseteq Windows /\ IsFiniteSet(index[ty])
    BY <1>1, IndexType
<1>3. w \in index[ty] /\ \A v \in index[ty] : v <= w
    BY <1>2, NewestIsGreatest DEF RangeRead
<1>4. w \in Nat /\ w >= 1
    BY <1>2, <1>3, RedisAssumption DEF Windows
<1> HIDE DEF ty
<1>5. s <= w
  <2>1. CASE s = 0
      BY <1>4, <2>1
  <2>2. CASE Reached(ty, s)
    <3>1. PICK v \in index[ty] : v >= s
        BY <2>2 DEF Reached
    <3>2. v <= w /\ v \in Int /\ s \in Int
        BY <1>2, <1>3, <3>1, RedisAssumption
    <3> QED
        BY <1>4, <3>1, <3>2
  <2> QED
      BY <2>1, <2>2 DEF ty
<1>6. Reached(ty, w)
    BY <1>3, <1>4 DEF Reached
<1> QED
    BY <1>5, <1>6 DEF ty

\* The last shown window of each type is within reach after any step, and no older
\* than before it.
LEMMA ShownStep ==
    ASSUME StateInv, StateInv', TrimInv, ShownInv, [Next]_vars
    PROVE  ShownInv' /\ \A ty \in Types : shown[ty] <= shown'[ty]
<1>0. TypeOK /\ TypeOK'
    BY DEF StateInv
<1>1. /\ shown \in [Types -> 0..MaxWindow] /\ shown' \in [Types -> 0..MaxWindow]
      /\ \A w \in 0..MaxWindow : w \in Int /\ w <= w
      /\ asked \in Seq(Lookups) /\ ids \subseteq Windows /\ found \subseteq Windows
      /\ \A w \in Windows : w \in 0..MaxWindow
  <2>1. shown \in [Types -> 0..MaxWindow] /\ shown' \in [Types -> 0..MaxWindow]
      BY <1>0 DEF TypeOK
  <2>2. asked \in Seq(Lookups) /\ ids \subseteq Windows /\ found \subseteq Windows
      BY <1>0 DEF TypeOK
  <2> QED
      BY <2>1, <2>2, RedisAssumption DEF Windows
<1>2. ASSUME NEW ty \in Types, NEW w \in 0..MaxWindow, Reached(ty, w) PROVE Reached(ty, w)'
    BY <1>1, <1>2, ReachedStays
<1>3. asked # <<>> => Head(asked).type \in Types
    BY <1>1, HeadType
<1>4. ASSUME shown' = shown, asked' = <<>> \/ (asked' = asked /\ (ids \cup found)' \subseteq ids \cup found)
      PROVE  ShownInv' /\ \A ty \in Types : shown[ty] <= shown'[ty]
  <2>1. \A ty \in Types : (shown[ty] = 0 \/ Reached(ty, shown[ty]))'
    <3>1. ASSUME NEW ty \in Types, shown[ty] # 0 PROVE Reached(ty, shown[ty])'
      <4>1. Reached(ty, shown[ty]) /\ shown[ty] \in Int
          BY <1>1, <3>1 DEF ShownInv
      <4>2. \E v \in index'[ty] : v >= shown[ty]
          BY <1>1, <1>2, <3>1, <4>1 DEF Reached
      <4> QED
          BY <1>4, <4>2 DEF Reached
    <3> QED
        BY <1>4, <3>1
  <2>2. ASSUME asked' # <<>>, Head(asked').limit = 1, NEW w \in (ids \cup found)'
        PROVE  (shown[Head(asked).type] <= w /\ Reached(Head(asked).type, w))'
    <3>1. asked' = asked /\ w \in ids \cup found /\ w \in 0..MaxWindow
        BY <1>1, <1>4, <2>2
    <3>2. shown[Head(asked).type] <= w /\ Reached(Head(asked).type, w)
        BY <2>2, <3>1 DEF ShownInv
    <3> QED
        BY <1>2, <1>3, <1>4, <2>2, <3>1, <3>2
  <2>3. \A ty \in Types : shown[ty] <= shown'[ty]
      BY <1>1, <1>4
  <2> QED
      BY <2>1, <2>2, <2>3 DEF ShownInv
<1>5. ASSUME index' = index, NEW lookups \in Seq(Lookups), lookups # <<>>, RangeRead(lookups),
             \A ty \in Types : shown'[ty] = 0 \/ Reached(ty, shown'[ty])
      PROVE  ShownInv'
  <2>1. asked' = lookups /\ found' = {} /\ Head(lookups).type \in Types
      BY <1>5, HeadType DEF RangeRead
  <2>2. \A ty \in Types : \A w : Reached(ty, w)' <=> Reached(ty, w)
      BY <1>5 DEF Reached
  <2>3. ASSUME Head(lookups).limit = 1, NEW w \in ids'
        PROVE  shown'[Head(lookups).type] <= w /\ Reached(Head(lookups).type, w)
    <3>1. shown'[Head(lookups).type] \in 0..MaxWindow
        BY <1>1, <2>1
    <3> QED
        BY <1>0, <1>5, <2>1, <2>3, <3>1, FirstRead
  <2> QED
      BY <1>5, <2>1, <2>2, <2>3 DEF ShownInv
<1>6. CASE RequestBegins
  <2>1. PICK lookups \in Requests : RangeRead(lookups)
      BY <1>6 DEF RequestBegins
  <2>2. index' = index /\ shown' = shown
      BY <1>6 DEF RequestBegins, redis
  <2>3. ShownInv'
      BY <1>5, <2>1, <2>2, RequestType DEF ShownInv
  <2> QED
      BY <1>1, <2>2, <2>3
<1>7. CASE HashRead
  <2>1. shown' = shown /\ asked' = asked /\ (ids \cup found)' \subseteq ids \cup found
      BY <1>7 DEF HashRead
  <2> QED
      BY <1>4, <2>1
<1>8. CASE LookupOver
  <2>1. /\ asked # <<>> /\ index' = index /\ Head(asked).type \in Types
        /\ Len(asked) > 1 => Tail(asked) \in Seq(Lookups) /\ Tail(asked) # <<>>
    <3>1. asked # <<>> /\ index' = index
        BY <1>8 DEF LookupOver, redis
    <3>2. Len(Tail(asked)) = Len(asked) - 1 /\ Tail(asked) \in Seq(Lookups) /\ Len(asked) \in Nat
        BY <1>1, <3>1, HeadTailProperties, LenProperties
    <3>3. Len(asked) > 1 => Len(Tail(asked)) # 0
        BY <3>2
    <3>4. Len(<<>>) = 0
        OBVIOUS
    <3> QED
        BY <1>3, <3>1, <3>2, <3>3, <3>4
  <2>2. \A ty \in Types : /\ shown'[ty] = 0 \/ Reached(ty, shown'[ty])
                          /\ shown[ty] <= shown'[ty]
    <3>1. CASE UNCHANGED shown
        BY <1>1, <3>1 DEF ShownInv
    <3>2. CASE Head(asked).limit = 1 /\ \E w \in found : shown' = [shown EXCEPT ![Head(asked).type] = w]
      <4>1. PICK w \in found : shown' = [shown EXCEPT ![Head(asked).type] = w]
          BY <3>2
      <4>2. shown[Head(asked).type] <= w /\ Reached(Head(asked).type, w)
          BY <2>1, <3>2 DEF ShownInv
      <4>3. ASSUME NEW ty \in Types
            PROVE  shown'[ty] = IF ty = Head(asked).type THEN w ELSE shown[ty]
          BY <1>1, <4>1
      <4> QED
          BY <1>1, <4>2, <4>3 DEF ShownInv
    <3> QED
        BY <1>8, <3>1, <3>2 DEF LookupOver
  <2>3. CASE Len(asked) > 1 /\ RangeRead(Tail(asked))
      BY <1>5, <2>1, <2>2, <2>3
  <2>4. CASE asked' = <<>>
    <3>1. \A ty \in Types : \A w : Reached(ty, w)' <=> Reached(ty, w)
        BY <2>1 DEF Reached
    <3> QED
        BY <2>2, <2>4, <3>1 DEF ShownInv
  <2> QED
      BY <1>8, <2>2, <2>3, <2>4 DEF LookupOver
<1>9. CASE Crash
    BY <1>4, <1>9 DEF Crash
<1>10. CASE UNCHANGED request
    BY <1>4, <1>10 DEF request
<1>11. RequestBegins \/ HashRead \/ LookupOver \/ Crash \/ UNCHANGED request
    BY DEF Next, vars, Operation, Flush, PipelineCommand, PipelineReturns, TrimCount, TrimRemove,
           ApplyFails, Expire, request
<1> QED
    BY <1>6, <1>7, <1>8, <1>9, <1>10, <1>11

-----------------------------------------------------------------------------
(* The theorems *)

\* The invariant holds initially.
LEMMA InitInv == Init => Inv
<1> SUFFICES ASSUME Init PROVE Inv
    OBVIOUS
<1>1. TypeOK /\ WriterInv
    BY InitType DEF StateInv
<1>2. ReadableInv /\ TrimInv
    BY DEF Init, ReadableInv, IndexedIsReadable, TrimInv
<1>3. Applied = {} /\ writer = "idle"
    BY DEF Init, Applied
<1>4. TtlInv /\ TtlRenewed /\ FieldInv
    BY <1>3 DEF Init, TtlInv, TtlRenewed, FieldInv
<1>5. ShownInv
    BY InitShown
<1> QED
    BY <1>1, <1>2, <1>4, <1>5 DEF Inv

\* Every step keeps the invariant.
LEMMA StepInv == Inv /\ [Next]_vars => Inv'
<1> SUFFICES ASSUME Inv, [Next]_vars PROVE Inv'
    OBVIOUS
<1>1. StateInv /\ ReadableInv /\ TtlInv /\ TtlRenewed /\ FieldInv /\ TrimInv /\ ShownInv
    BY DEF Inv, StateInv
<1>2. StateInv'
    BY <1>1, TypeStep
<1>3. ReadableInv' /\ TtlInv' /\ TtlRenewed' /\ FieldInv' /\ TrimInv' /\ ShownInv'
    BY <1>1, <1>2, ReadableStep, TtlStep, RenewStep, FieldStep, TrimStep, ShownStep
<1>4. TypeOK' /\ WriterInv'
    BY <1>2 DEF StateInv
<1> QED
    BY <1>3, <1>4 DEF Inv

\* The conjunction above is an invariant of the writer, the readers and Redis.
THEOREM Invariance == Spec => []Inv
BY InitInv, StepInv, PTL DEF Spec

\* Every variable keeps its type; the pipeline never sends more commands than its
\* batch has.
THEOREM TypesOK == Spec => []TypeOK
<1>1. Inv => TypeOK
    BY DEF Inv
<1> QED
    BY <1>1, Invariance, PTL

\* Between two flushes a field holds the value of the last operation that set it: no
\* retried or half executed batch leaves an older one.
THEOREM FieldsLatest == Spec => []FieldIsLatest
<1>1. ASSUME Inv PROVE FieldIsLatest
  <2>1. TypeOK /\ WriterInv /\ FieldInv
      BY <1>1 DEF Inv
  <2>2. SUFFICES ASSUME writer = "idle", NEW i \in Applied,
                        \A j \in Applied : SameField(i, j) => j <= i
                 PROVE  Value(i) \in {i, 0}
      BY DEF FieldIsLatest, Value
  <2>3. since \in Nat /\ done \in Nat /\ upto = done /\ i \in Nat
      BY <2>1, <2>2, BatchType DEF WriterInv, Applied
  <2>4. LastUpTo(i, done)
    <3>1. SUFFICES ASSUME NEW j \in (i + 1)..done, stream[j] = stream[i] PROVE FALSE
        BY DEF LastUpTo
    <3>2. j \in Applied /\ j > i /\ j \in Int
        BY <2>2, <2>3 DEF Applied
    <3> QED
        BY <2>2, <2>3, <3>1, <3>2 DEF SameField
  <2>5. Batch = {}
    <3>1. \A n \in Nat : (n + 1)..n = {}
        OBVIOUS
    <3> QED
        BY <2>3, <3>1 DEF Batch
  <2> QED
      BY <2>1, <2>4, <2>5 DEF FieldInv
<1> QED
    BY <1>1, Invariance, PTL

\* A window a reader finds in an index has been written: in no state between two
\* commands, after no failure and after no crash does an id come before its data.
THEOREM WindowsReadable == Spec => []IndexedIsReadable
<1>1. Inv => IndexedIsReadable
    BY DEF Inv, ReadableInv
<1> QED
    BY <1>1, Invariance, PTL

\* A hash without a TTL is one the batch in hand writes, or one that a crash has cut
\* off and no batch has written since: no failure that is retried leaves one behind.
THEOREM TtlsRenewed == Spec => []TtlRenewed
<1>1. Inv => TtlRenewed
    BY DEF Inv
<1> QED
    BY <1>1, Invariance, PTL

\* A pipeline_apply that returns leaves every index of its batch within the retention
\* count, whatever was in it before.
THEOREM IndicesTrimmed == Spec => RetentionEnforced
<1>1. ASSUME Inv, Inv', [Next]_vars,
             done' = upto, done < upto, crashes' = crashes,
             NEW i \in (done + 1)..upto
      PROVE  Cardinality(index'[stream[i].type]) <= Retention
  <2>1. TypeOK /\ WriterInv /\ StateInv /\ TrimInv /\ done \in Nat /\ upto \in Nat
      BY <1>1, BatchType DEF Inv, StateInv
  <2>2. done' # done
      BY <1>1, <2>1
  <2>3. CASE TrimCount \/ TrimRemove
    <3>1. Trimmed /\ writer \in {"zcard", "zrem"} /\ stream' = stream
        BY <2>2, <2>3 DEF TrimCount, TrimRemove
    <3>2. touched' = {} /\ touched' = touched \ {TrimType} /\ writer' = "idle"
        BY <2>1, <2>2, <3>1, TrimmedEffect DEF WriterInv
    <3> HIDE DEF TrimType
    <3>3. TrimType \in Types /\ stream[i].type \in Types /\ i \in Batch
        BY <1>1, <2>1, <3>1, TrimTypeTouched, HeldOperations DEF WriterInv, Batch
    <3>4. stream[i].type = TrimType \/ Cardinality(index[stream[i].type]) <= Retention
        BY <2>1, <3>1, <3>2, <3>3 DEF TrimInv
    <3>5. CASE TrimCount
      <4>1. index' = index /\ ~(Cardinality(index[TrimType]) > Retention)
          BY <2>2, <3>5 DEF TrimCount, redis
      <4>2. Cardinality(index[TrimType]) \in 0..MaxWindow
          BY <2>1, <3>3, IndexType
      <4>3. Cardinality(index[TrimType]) <= Retention
          BY <4>1, <4>2, RedisAssumption
      <4> QED
          BY <3>4, <4>1, <4>3
    <3>6. CASE TrimRemove
      <4>1. /\ excess \in Nat /\ excess = Cardinality(index[TrimType]) - Retention
            /\ index'[TrimType] = WithoutLowest(index[TrimType], excess)
            /\ \A ty \in Types \ {TrimType} : index'[ty] = index[ty]
          BY <2>1, <3>6, TrimEffect DEF TrimRemove
      <4>2. index[TrimType] \in SUBSET Int /\ IsFiniteSet(index[TrimType])
            /\ Cardinality(index[TrimType]) \in 0..MaxWindow
          BY <2>1, <3>3, IndexType
      <4>3. excess <= Cardinality(index[TrimType]) /\ Cardinality(index[TrimType]) - excess = Retention
          BY <4>1, <4>2, RedisAssumption
      <4>4. Cardinality(index'[TrimType]) <= Retention
          BY <4>1, <4>2, <4>3, WithoutLowestSize
      <4> QED
          BY <3>3, <3>4, <4>1, <4>4
    <3> QED
        BY <2>3, <3>5, <3>6
  <2>4. TrimCount \/ TrimRemove
    <3>1. ~Crash
        BY <1>1, <2>1 DEF Crash, TypeOK
    <3> QED
        BY <1>1, <2>2, <3>1, StepCases
        DEF Operation, Flush, PipelineCommand, PipelineReturns, ApplyFails, Expire, Stored, flush
  <2> QED
      BY <2>3, <2>4
<1>2. Inv /\ Inv' /\ [Next]_vars =>
        [done' = upto /\ done < upto /\ crashes' = crashes =>
           \A i \in (done + 1)..upto : Cardinality(index'[stream[i].type]) <= Retention]_vars
    BY <1>1
<1> QED
    BY <1>2, Invariance, PTL DEF Spec, RetentionEnforced

\* A window goes out of an index only when the retention count of newer ones is in it.
THEOREM NewestKept == Spec => TrimKeepsNewest
<1>1. ASSUME Inv, [Next]_vars, NEW ty \in Types, NEW w \in index[ty] \ index'[ty]
      PROVE  Cardinality({v \in index[ty] : v > w}) >= Retention
    BY <1>1, IndexStep DEF Inv, StateInv
<1>2. Inv /\ [Next]_vars =>
        [\A ty \in Types : \A w \in index[ty] \ index'[ty] :
           Cardinality({v \in index[ty] : v > w}) >= Retention]_vars
    BY <1>1
<1> QED
    BY <1>2, Invariance, PTL DEF Spec, TrimKeepsNewest

\* The latest window the API shows never goes back, with trims, retries, expiries and
\* restarts between two requests or in the middle of one.
THEOREM LatestNeverBack == Spec => LatestMonotone
<1>1. ASSUME Inv, Inv', [Next]_vars, NEW ty \in Types PROVE shown[ty] <= shown'[ty]
    BY <1>1, ShownStep DEF Inv, StateInv
<1>2. Inv /\ Inv' /\ [Next]_vars => [\A ty \in Types : shown[ty] <= shown'[ty]]_vars
    BY <1>1
<1> QED
    BY <1>2, Invariance, PTL DEF Spec, LatestMonotone

=============================================================================
