---------------------------- MODULE StreamProofs ----------------------------
(***************************************************************************)
(* Proofs about StreamJobs, for any visitors and partitions, window sizes, *)
(* gap and delay, any timestamps, and any number of events and failures.   *)
(***************************************************************************)
EXTENDS StreamJobs, SetLemmas, SequenceTheorems

-----------------------------------------------------------------------------
(* The inductive invariant *)

\* The events read up to these offsets.
SeenBy(offsets) == {id \in Partitions \X (1..MaxEvents) : id[2] <= offsets[id[1]]}

\* All times of windows are between these.
FirstTime == -(Size + LongSize)

LastTime == MaxTime + Size + LongSize + Gap

\* How long the windows of a tumbling job are.
TumbleSize == IF job = "EventAggregator" THEN Size ELSE LongSize

\* A window of one of the jobs; tumbling ones begin at multiples of their size.
Proper(w) ==
    /\ w.start \in FirstTime..LastTime
    /\ w.end \in FirstTime..LastTime
    /\ w.start < w.end
    /\ w.end > 0
    /\ w.events # {}
    /\ job # "SessionTracker" =>
         w.end = w.start + TumbleSize /\ \E k \in Int : w.start = k * TumbleSize

\* The events of a window belong to it.
Holds(w) ==
    \A id \in w.events :
        LET own == WindowOf(id)
        IN  own.key = w.key /\ own.start >= w.start /\ own.end <= w.end

Apart(v, w) == v.events \cap w.events = {} /\ ~Joins(v, w)

\* Why an event may have been dropped.
Overtaken(id) ==
    \/ id[1] \in idled
    \/ \E i \in 1..(id[2] - 1) : WindowOf(id).end - 1 <= log[id[1]][i].time - Delay

\* What a job may have gone on to, or start from: offsets in the log, windows that
\* are apart, drops that have a cause.
Sound(offsets, open, late) ==
    /\ offsets \in [Partitions -> Nat]
    /\ \A p \in Partitions : offsets[p] <= Len(log[p])
    /\ \A w \in open : Proper(w) /\ Holds(w) /\ w.events \subseteq SeenBy(offsets)
    /\ \A v, w \in open : v # w => Apart(v, w)
    /\ late \subseteq SeenBy(offsets)
    /\ \A id \in late : Overtaken(id)

\* Every counted event up to the offsets is late or held in one of the windows.
Accounted(offsets, late, held) ==
    \A id \in SeenBy(offsets) :
        Counted(EventAt(id)) => id \in late \/ \E w \in held : id \in w.events

BasicInv ==
    /\ job \in Jobs
    /\ log \in [Partitions -> Seq(Events)]
    /\ \A p \in Partitions : Len(log[p]) <= MaxEvents
    /\ latest \in [Partitions -> -1..MaxTime]
    /\ idle \subseteq idled
    /\ idled \subseteq Partitions
    /\ watermark \in NoWatermark..(MaxTime - Delay)
    /\ run \in 0..MaxFailures

\* The watermark is that of a partition which never was idle, at most, and that of a
\* partition goes back to an event it has read.
SourceInv ==
    /\ \A p \in Partitions :
         latest[p] >= 0 => \E i \in 1..position[p] : log[p][i].time = latest[p]
    /\ \A p \in Partitions \ idled : watermark <= SplitWatermark(p)

\* The job as it is, and as the checkpoint has it.
StateInv ==
    /\ Sound(position, windows, dropped)
    /\ Sound(checkpoint.position, checkpoint.windows, checkpoint.dropped)

\* What the checkpoint has not is in results that are flushed.
AccountInv ==
    /\ Accounted(position, dropped, windows \cup results)
    /\ Accounted(checkpoint.position, checkpoint.dropped,
                 checkpoint.windows \cup (results \ unflushed))

\* Results of this run are behind the watermark, and none of their events is in a
\* window again; open windows are ahead of it.
FiredInv ==
    /\ \A r \in results : r.run \in Nat /\ r.run <= run
    /\ \A r \in results :
         r.run = run =>
           /\ Proper(r)
           /\ r.end - 1 <= watermark
           /\ r.events \subseteq SeenBy(position)
           /\ \A w \in windows : r.events \cap w.events = {}
    /\ \A w \in windows : w.end - 1 > watermark

\* A session that overlaps a result has had an event from behind the watermark; for
\* the tumbling jobs the invariants above leave no such window.
SessionInv ==
    job = "SessionTracker" =>
        \A r \in results, w \in windows :
            /\ r.run = run /\ r.key = w.key
            /\ r.start < w.end /\ w.start < r.end
            => (r.events \cup w.events) \cap stale # {}

Inv ==
    /\ BasicInv
    /\ SourceInv
    /\ StateInv
    /\ AccountInv
    /\ FiredInv
    /\ SessionInv

-----------------------------------------------------------------------------
(* Times *)

\* The remainder is less than the divisor, and what it leaves is a multiple.
LEMMA ModRange ==
    ASSUME NEW t \in Int, NEW n \in Nat \ {0}
    PROVE  t % n \in 0..(n - 1) /\ t \div n \in Int /\ t - (t % n) = (t \div n) * n
OBVIOUS

\* Between two multiples lies the whole of one.
LEMMA MultiplesApart ==
    ASSUME NEW n \in Nat \ {0}, NEW j \in Int, NEW k \in Int, j * n < k * n
    PROVE  j * n + n <= k * n
<1>1. j < k
  <2>1. SUFFICES ASSUME k <= j PROVE FALSE
      OBVIOUS
  <2>2. (j - k) * n >= 0
      BY <2>1
  <2> QED
      BY <2>2
<1>2. (k - j - 1) * n >= 0
    BY <1>1
<1>3. (k - j - 1) * n = k * n - j * n - n
    OBVIOUS
<1> QED
    BY <1>2, <1>3

\* What Tumble gives is aligned and has the time in it.
LEMMA TumbleProper ==
    ASSUME NEW t \in 0..MaxTime, NEW n \in {Size, LongSize}
    PROVE  LET w == Tumble(t, n)
           IN  /\ w.start \in FirstTime..LastTime /\ w.end \in FirstTime..LastTime
               /\ w.start < w.end /\ w.end > 0 /\ w.end = w.start + n
               /\ \E k \in Int : w.start = k * n
<1>1. t \in Nat /\ t <= MaxTime /\ n \in Nat \ {0} /\ MaxTime \in Nat /\ Gap \in Nat
      /\ Size \in Nat /\ LongSize \in Nat
    BY StreamAssumption
<1>2. t % n \in 0..(n - 1) /\ t \div n \in Int /\ t - (t % n) = (t \div n) * n
    BY <1>1, ModRange
<1>3. t - (t % n) \in FirstTime..LastTime /\ t - (t % n) + n \in FirstTime..LastTime
    BY <1>1, <1>2 DEF FirstTime, LastTime
<1>4. t - (t % n) + n > 0 /\ t - (t % n) < t - (t % n) + n
    BY <1>1, <1>2
<1>5. Tumble(t, n).start = t - (t % n) /\ Tumble(t, n).end = t - (t % n) + n
    BY DEF Tumble
<1> QED
    BY <1>2, <1>3, <1>4, <1>5

-----------------------------------------------------------------------------
(* Events and their windows *)

\* Seen is the case of the current offsets.
LEMMA SeenIs == Seen = SeenBy(position)
BY DEF Seen, SeenBy

\* The log holds events, at no more than MaxEvents offsets.
LEMMA EventType ==
    ASSUME BasicInv, NEW p \in Partitions, NEW i \in 1..Len(log[p])
    PROVE  /\ log[p][i] \in Events
           /\ log[p][i].visitor \in Visitors /\ log[p][i].shape \in Shapes
           /\ log[p][i].time \in 0..MaxTime /\ log[p][i].time \in Int
           /\ Len(log[p]) \in Nat /\ i \in 1..MaxEvents
<1>1. log[p] \in Seq(Events) /\ Len(log[p]) <= MaxEvents
    BY DEF BasicInv
<1>2. log[p][i] \in Events /\ Len(log[p]) \in Nat
    BY <1>1, ElementOfSeq, LenProperties
<1> QED
    BY <1>1, <1>2, StreamAssumption DEF Events

\* The window of an event, before it merges with others.
LEMMA OwnWindow ==
    ASSUME BasicInv, NEW p \in Partitions, NEW i \in 1..Len(log[p])
    PROVE  LET w == WindowOf(<<p, i>>)
           IN  /\ Proper(w)
               /\ w.events = {<<p, i>>}
               /\ job = "SessionTracker" => w.start = log[p][i].time
<1> DEFINE w == WindowOf(<<p, i>>)
           event == log[p][i]
<1>1. event.time \in 0..MaxTime /\ event.time \in Nat
    BY EventType, StreamAssumption
<1>2. EventAt(<<p, i>>) = event
    BY DEF EventAt
<1>3. w.start = Pipeline(event).span.start /\ w.end = Pipeline(event).span.end /\ w.events = {<<p, i>>}
    BY <1>2 DEF WindowOf
<1> HIDE DEF event, w
<1>4. CASE job = "EventAggregator"
  <2>1. w.start = Tumble(event.time, Size).start /\ w.end = Tumble(event.time, Size).end
      BY <1>3, <1>4 DEF Pipeline, EventAggregator
  <2>2. TumbleSize = Size
      BY <1>4 DEF TumbleSize
  <2>3. Proper(w)
      BY <1>1, <1>3, <2>1, <2>2, TumbleProper DEF Proper
  <2> QED
      BY <1>3, <1>4, <2>3 DEF w
<1>5. CASE job = "PerformanceTracker"
  <2>1. w.start = Tumble(event.time, LongSize).start /\ w.end = Tumble(event.time, LongSize).end
      BY <1>3, <1>5 DEF Pipeline, PerformanceTracker
  <2>2. TumbleSize = LongSize
      BY <1>5 DEF TumbleSize
  <2>3. Proper(w)
      BY <1>1, <1>3, <2>1, <2>2, TumbleProper DEF Proper
  <2> QED
      BY <1>3, <1>5, <2>3 DEF w
<1>6. CASE job = "SessionTracker"
  <2>1. w.start = event.time /\ w.end = event.time + Gap
      BY <1>3, <1>6 DEF Pipeline, SessionTracker
  <2>2. w.start \in FirstTime..LastTime /\ w.end \in FirstTime..LastTime /\ w.start < w.end /\ w.end > 0
      BY <1>1, <2>1, StreamAssumption DEF FirstTime, LastTime
  <2>3. Proper(w)
      BY <1>3, <1>6, <2>2 DEF Proper
  <2> QED
      BY <1>3, <2>1, <2>3 DEF w, event
<1> QED
    BY <1>4, <1>5, <1>6 DEF BasicInv, Jobs

\* A proper window has a time in it.
LEMMA WindowTypes ==
    ASSUME NEW w, Proper(w)
    PROVE  w.start \in Int /\ w.end \in Int /\ w.start < w.end /\ w.end > 0
BY StreamAssumption DEF Proper, FirstTime, LastTime

\* Tumbling windows that overlap are the same.
LEMMA TumblingApart ==
    ASSUME job # "SessionTracker", NEW v, NEW w, Proper(v), Proper(w),
           v.start < w.end, w.start < v.end
    PROVE  v.start = w.start /\ v.end = w.end
<1>1. TumbleSize \in Nat \ {0}
    BY StreamAssumption DEF TumbleSize
<1>2. /\ v.end = v.start + TumbleSize /\ w.end = w.start + TumbleSize
      /\ v.start \in Int /\ w.start \in Int
    BY WindowTypes DEF Proper
<1>3. PICK j \in Int : v.start = j * TumbleSize
    BY DEF Proper
<1>4. PICK k \in Int : w.start = k * TumbleSize
    BY DEF Proper
<1>5. v.start < w.start => v.end <= w.start
    BY <1>1, <1>2, <1>3, <1>4, MultiplesApart
<1>6. w.start < v.start => w.end <= v.start
    BY <1>1, <1>2, <1>3, <1>4, MultiplesApart
<1>7. v.start = w.start
    BY <1>1, <1>2, <1>5, <1>6
<1> QED
    BY <1>2, <1>7

-----------------------------------------------------------------------------
(* Merging *)

\* The windows a new one merges with, and itself.
Parts(w) == {w} \cup Neighbours(w)

\* The merged window spans its parts: it begins with one of them and ends with one.
LEMMA MergedSpan ==
    ASSUME NEW w, Proper(w), \A v \in windows : Proper(v)
    PROVE  /\ Merged(w).start \in FirstTime..LastTime /\ Merged(w).end \in FirstTime..LastTime
           /\ \E v \in Parts(w) : Merged(w).start = v.start
           /\ \E v \in Parts(w) : Merged(w).end = v.end
           /\ \A v \in Parts(w) : Merged(w).start <= v.start /\ v.end <= Merged(w).end
           /\ Merged(w).key = w.key
           /\ Merged(w).events = UNION {v.events : v \in Parts(w)}
<1> DEFINE Starts == {v.start : v \in Parts(w)}
           Ends == {v.end : v \in Parts(w)}
<1>1. FirstTime \in Int /\ LastTime \in Int /\ FirstTime..LastTime \subseteq Int
    BY StreamAssumption DEF FirstTime, LastTime
<1>2. \A v \in Parts(w) : v.start \in FirstTime..LastTime /\ v.end \in FirstTime..LastTime
    BY DEF Parts, Neighbours, Proper
<1>3. /\ Starts \subseteq FirstTime..LastTime /\ Ends \subseteq FirstTime..LastTime
      /\ Starts # {} /\ Ends # {}
    BY <1>2 DEF Parts
<1>4. Merged(w) = [key |-> w.key, start |-> Min(Starts), end |-> Max(Ends),
                   events |-> UNION {v.events : v \in Parts(w)}]
    BY DEF Merged, Parts
<1>5. IsFiniteSet(Starts) /\ IsFiniteSet(Ends)
  <2> HIDE DEF Starts, Ends
  <2> QED
      BY <1>1, <1>3, FS_Interval, FS_Subset
<1>6. Min(Starts) \in Starts /\ \A t \in Starts : Min(Starts) <= t
  <2> HIDE DEF Starts
  <2> QED
      BY <1>1, <1>3, <1>5, MinIsLeast
<1>7. Max(Ends) \in Ends /\ \A t \in Ends : t <= Max(Ends)
  <2> HIDE DEF Ends
  <2> QED
      BY <1>1, <1>3, <1>5, MaxIsGreatest
<1>8. \E v \in Parts(w) : Merged(w).start = v.start
    BY <1>4, <1>6
<1>9. \E v \in Parts(w) : Merged(w).end = v.end
    BY <1>4, <1>7
<1>10. \A v \in Parts(w) : Merged(w).start <= v.start /\ v.end <= Merged(w).end
    BY <1>4, <1>6, <1>7
<1>11. Merged(w).start \in FirstTime..LastTime /\ Merged(w).end \in FirstTime..LastTime
    BY <1>2, <1>8, <1>9
<1>12. Merged(w).key = w.key /\ Merged(w).events = UNION {v.events : v \in Parts(w)}
    BY <1>4
<1> QED
    BY <1>8, <1>9, <1>10, <1>11, <1>12

\* Tumbling windows merge with the same ones only.
LEMMA MergedTumbling ==
    ASSUME NEW w, Proper(w), \A v \in windows : Proper(v), job # "SessionTracker"
    PROVE  Merged(w).start = w.start /\ Merged(w).end = w.end
<1>1. \A v \in Parts(w) : v.start = w.start /\ v.end = w.end
    BY DEF Parts, Neighbours, Joins, Proper
<1> QED
    BY <1>1, MergedSpan

\* What a window merges to is a window of the job.
LEMMA MergedProper ==
    ASSUME NEW w, Proper(w), \A v \in windows : Proper(v)
    PROVE  Proper(Merged(w))
<1>1. w \in Parts(w)
    BY DEF Parts
<1>2. Merged(w).start <= w.start /\ w.end <= Merged(w).end
    BY <1>1, MergedSpan
<1>3. Merged(w).start \in FirstTime..LastTime /\ Merged(w).end \in FirstTime..LastTime
    BY MergedSpan
<1>4. Merged(w).start < Merged(w).end /\ Merged(w).end > 0
    BY <1>2, <1>3, WindowTypes, StreamAssumption DEF FirstTime, LastTime
<1>5. Merged(w).events # {}
    BY <1>1, MergedSpan DEF Proper
<1>6. job # "SessionTracker" =>
        /\ Merged(w).end = Merged(w).start + TumbleSize
        /\ \E k \in Int : Merged(w).start = k * TumbleSize
    BY MergedTumbling DEF Proper
<1> QED
    BY <1>3, <1>4, <1>5, <1>6 DEF Proper

\* All events of the merged window are of its key and in its span.
LEMMA MergedHolds ==
    ASSUME NEW w, Proper(w), Holds(w), \A v \in windows : Proper(v) /\ Holds(v),
           \A v \in Parts(w) : \A id \in v.events :
               WindowOf(id).start \in Int /\ WindowOf(id).end \in Int
    PROVE  Holds(Merged(w))
<1>1. SUFFICES ASSUME NEW id \in Merged(w).events
               PROVE  /\ WindowOf(id).key = w.key
                      /\ WindowOf(id).start >= Merged(w).start /\ WindowOf(id).end <= Merged(w).end
    BY MergedSpan DEF Holds
<1>2. PICK v \in Parts(w) : id \in v.events
    BY MergedSpan
<1>3. v.key = w.key /\ Proper(v) /\ Holds(v)
    BY DEF Parts, Neighbours, Joins
<1>4. WindowOf(id).key = v.key /\ WindowOf(id).start >= v.start /\ WindowOf(id).end <= v.end
    BY <1>2, <1>3 DEF Holds
<1>5. Merged(w).start <= v.start /\ v.end <= Merged(w).end
    BY MergedSpan
<1>6. /\ v.start \in Int /\ v.end \in Int /\ Merged(w).start \in Int /\ Merged(w).end \in Int
      /\ WindowOf(id).start \in Int /\ WindowOf(id).end \in Int
    BY <1>2, <1>3, WindowTypes, MergedProper
<1> QED
    BY <1>3, <1>4, <1>5, <1>6

\* The merged window is apart from all windows that are not its parts.
LEMMA MergedApart ==
    ASSUME NEW w, Proper(w), \A v \in windows : Proper(v),
           \A u, v \in windows : u # v => Apart(u, v),
           \A v \in windows : v.events \cap w.events = {},
           NEW v \in windows \ Neighbours(w)
    PROVE  Apart(v, Merged(w)) /\ Apart(Merged(w), v)
<1> DEFINE m == Merged(w)
<1>1. ~Joins(v, w) /\ Proper(v) /\ \A u \in Neighbours(w) : Apart(u, v) /\ Apart(v, u)
    BY DEF Neighbours
<1>2. \A u \in Parts(w) : u.events \cap v.events = {} /\ ~Joins(v, u) /\ Proper(u) /\ u.key = w.key
    BY <1>1 DEF Parts, Neighbours, Apart, Joins
<1>3. m.events \cap v.events = {}
    BY <1>2, MergedSpan
<1>4. m.key = w.key
    BY MergedSpan
<1>5. CASE v.key # w.key
    BY <1>3, <1>4, <1>5 DEF Apart, Joins
<1>6. CASE v.key = w.key /\ job # "SessionTracker"
  <2>1. m.start = w.start
      BY <1>6, MergedTumbling
  <2>2. v.start # w.start
      BY <1>1, <1>6 DEF Joins
  <2> QED
      BY <1>3, <1>6, <2>1, <2>2 DEF Apart, Joins
<1>7. CASE v.key = w.key /\ job = "SessionTracker"
  <2>1. PICK a \in Parts(w) : m.start = a.start
      BY MergedSpan
  <2>2. PICK b \in Parts(w) : m.end = b.end
      BY MergedSpan
  <2>3. /\ v.start \in Int /\ v.end \in Int /\ v.start < v.end
        /\ w.start \in Int /\ w.end \in Int /\ w.start < w.end
        /\ a.start \in Int /\ a.end \in Int /\ b.start \in Int /\ b.end \in Int
        /\ m.start \in Int /\ m.end \in Int
      BY <1>1, <1>2, WindowTypes, MergedProper
  <2>4. \A u \in Parts(w) : ~(v.start <= u.end /\ u.start <= v.end)
      BY <1>2, <1>7 DEF Joins
  <2>5. \A u \in Parts(w) : u = w \/ (u.start <= w.end /\ w.start <= u.end)
      BY <1>7 DEF Parts, Neighbours, Joins
  <2>6. w \in Parts(w)
      BY DEF Parts
  <2> HIDE DEF m
  <2>7. CASE v.end < w.start
    <3>1. v.end < a.start
        BY <2>3, <2>4, <2>5, <2>7
    <3> QED
        BY <1>3, <1>7, <2>1, <2>3, <3>1 DEF Apart, Joins, m
  <2>8. CASE w.end < v.start
    <3>1. b.end < v.start
        BY <2>3, <2>4, <2>5, <2>8
    <3> QED
        BY <1>3, <1>7, <2>2, <2>3, <3>1 DEF Apart, Joins, m
  <2>9. v.end < w.start \/ w.end < v.start
      BY <2>3, <2>4, <2>6
  <2> QED
      BY <2>7, <2>8, <2>9
<1> QED
    BY <1>5, <1>6, <1>7

-----------------------------------------------------------------------------
(* Partitions and the log *)

\* The partitions are finitely many, as the visitors are.
LEMMA PartitionsFinite == IsFiniteSet(Partitions)
<1> DEFINE f == [v \in Visitors |-> Home[v]]
<1>1. f \in Surjection(Visitors, Partitions)
    BY DEF Partitions, Surjection
<1> HIDE DEF f
<1> QED
    BY <1>1, FS_Surjection, StreamAssumption

\* Events are only added.
LogGrows ==
    /\ job' = job
    /\ \A p \in Partitions : /\ Len(log[p]) <= Len(log'[p])
                            /\ \A i \in 1..Len(log[p]) : log'[p][i] = log[p][i]

\* An arrival adds an event behind those there are, within the bound.
LEMMA ArriveEffect ==
    ASSUME BasicInv, NEW event \in Events, Arrive(event)
    PROVE  /\ LogGrows
           /\ log' \in [Partitions -> Seq(Events)]
           /\ \A p \in Partitions : Len(log'[p]) <= MaxEvents
           /\ UNCHANGED <<job, position, latest, idle, watermark, windows, results, unflushed,
                          checkpoint, run, dropped, stale, idled>>
<1> DEFINE h == Home[event.visitor]
           ids == UNION {{p} \X DOMAIN log[p] : p \in Partitions}
<1>1. h \in Partitions /\ log \in [Partitions -> Seq(Events)]
    BY DEF BasicInv, Partitions, Events
<1>2. log' = [log EXCEPT ![h] = Append(log[h], event)]
    BY DEF Arrive
<1>3. \A p \in Partitions : Len(log[p]) \in Nat /\ DOMAIN log[p] = 1..Len(log[p]) /\ log[p] \in Seq(Events)
    BY <1>1, LenProperties
<1>4. Len(log[h]) < MaxEvents
  <2>1. ids \subseteq Partitions \X (1..MaxEvents)
      BY <1>3, StreamAssumption DEF BasicInv
  <2>2. IsFiniteSet(Partitions \X (1..MaxEvents))
    <3>1. IsFiniteSet(1..MaxEvents)
        BY FS_Interval, StreamAssumption
    <3> QED
        BY <3>1, PartitionsFinite, FS_Product
  <2>3. IsFiniteSet(ids)
    <3> HIDE DEF ids
    <3> QED
        BY <2>1, <2>2, FS_Subset
  <2>4. {h} \X (1..Len(log[h])) \subseteq ids
      BY <1>1, <1>3
  <2>5. IsFiniteSet({h}) /\ Cardinality({h}) = 1
      BY FS_Singleton
  <2>6. IsFiniteSet(1..Len(log[h])) /\ Cardinality(1..Len(log[h])) = Len(log[h])
    <3> HIDE DEF h
    <3>1. Len(log[h]) \in Nat
        BY <1>1, <1>3
    <3>2. \A n \in Nat : IsFiniteSet(1..n) /\ Cardinality(1..n) = n
        BY FS_Interval
    <3> QED
        BY <3>1, <3>2
  <2>7. Cardinality({h} \X (1..Len(log[h]))) = Len(log[h])
    <3> HIDE DEF h
    <3>1. Cardinality({h} \X (1..Len(log[h]))) = 1 * Len(log[h])
        BY <2>5, <2>6, FS_Product
    <3> QED
        BY <1>1, <1>3, <3>1
  <2>8. Cardinality({h} \X (1..Len(log[h]))) <= Cardinality(ids)
    <3> HIDE DEF ids, h
    <3> QED
        BY <2>3, <2>4, FS_Subset
  <2>9. Cardinality(ids) < MaxEvents /\ Cardinality(ids) \in Nat
      BY <2>3, FS_CardinalityType DEF Arrive
  <2> HIDE DEF ids, h
  <2> QED
      BY <1>1, <1>3, <2>7, <2>8, <2>9, StreamAssumption
<1> HIDE DEF h, ids
<1>5. /\ Append(log[h], event) \in Seq(Events) /\ Len(Append(log[h], event)) = Len(log[h]) + 1
      /\ \A i \in 1..Len(log[h]) : Append(log[h], event)[i] = log[h][i]
    BY <1>1, <1>3, AppendProperties
<1>6. log' \in [Partitions -> Seq(Events)]
    BY <1>1, <1>2, <1>5
<1>7. ASSUME NEW p \in Partitions
      PROVE  /\ Len(log'[p]) <= MaxEvents
             /\ Len(log[p]) <= Len(log'[p])
             /\ \A i \in 1..Len(log[p]) : log'[p][i] = log[p][i]
  <2>1. CASE p = h
    <3>1. log'[p] = Append(log[h], event) /\ Len(log[h]) \in Nat
        BY <1>1, <1>2, <1>3, <2>1
    <3>2. Len(log'[p]) = Len(log[p]) + 1 /\ Len(log'[p]) <= MaxEvents
        BY <1>4, <1>5, <2>1, <3>1, StreamAssumption
    <3> QED
        BY <1>5, <2>1, <3>1, <3>2
  <2>2. CASE p # h
    <3>1. log'[p] = log[p] /\ Len(log[p]) \in Nat
        BY <1>1, <1>2, <1>3, <2>2
    <3> QED
        BY <3>1 DEF BasicInv
  <2> QED
      BY <2>1, <2>2
<1> QED
    BY <1>6, <1>7 DEF LogGrows, Arrive, source, history

\* The log stays as it is in all other steps.
LEMMA LogStays ==
    ASSUME BasicInv, job' = job, log' = log
    PROVE  LogGrows
<1>1. \A p \in Partitions : Len(log[p]) \in Nat
    BY LenProperties DEF BasicInv
<1> QED
    BY <1>1 DEF LogGrows

\* What an event is does not change.
LEMMA OldEvent ==
    ASSUME LogGrows, NEW p \in Partitions, NEW i \in 1..Len(log[p])
    PROVE  /\ EventAt(<<p, i>>)' = EventAt(<<p, i>>)
           /\ WindowOf(<<p, i>>)' = WindowOf(<<p, i>>)
           /\ Counted(EventAt(<<p, i>>))' = Counted(EventAt(<<p, i>>))
<1>1. job' = job /\ log'[p][i] = log[p][i]
    BY DEF LogGrows
<1>2. EventAt(<<p, i>>)' = EventAt(<<p, i>>)
    BY <1>1 DEF EventAt
<1>3. Pipeline(EventAt(<<p, i>>))' = Pipeline(EventAt(<<p, i>>))
    BY <1>1, <1>2 DEF Pipeline
<1> QED
    BY <1>2, <1>3 DEF WindowOf, Counted

\* An event that was read is at an offset of its partition's log.
LEMMA SeenType ==
    ASSUME NEW offsets, \A p \in Partitions : offsets[p] <= Len(log[p]), offsets \in [Partitions -> Nat],
           BasicInv, NEW id \in SeenBy(offsets)
    PROVE  /\ id = <<id[1], id[2]>> /\ id[1] \in Partitions /\ id[2] \in 1..Len(log[id[1]])
           /\ id[2] \in 1..MaxEvents /\ id[2] \in Nat /\ id[2] <= offsets[id[1]]
<1>1. id \in Partitions \X (1..MaxEvents) /\ id[2] <= offsets[id[1]]
    BY DEF SeenBy
<1>2. id = <<id[1], id[2]>> /\ id[1] \in Partitions /\ id[2] \in 1..MaxEvents
    BY <1>1
<1>3. log[id[1]] \in Seq(Events)
    BY <1>2 DEF BasicInv
<1>4. Len(log[id[1]]) \in Nat /\ offsets[id[1]] <= Len(log[id[1]]) /\ offsets[id[1]] \in Nat
    BY <1>2, <1>3, LenProperties
<1> QED
    BY <1>1, <1>2, <1>4, StreamAssumption

-----------------------------------------------------------------------------
(* What stays as it is while the log grows *)

\* Whether a window is of the job depends on the job only.
LEMMA ProperStays ==
    ASSUME job' = job, NEW w
    PROVE  Proper(w)' <=> Proper(w)
BY DEF Proper, TumbleSize, FirstTime, LastTime

\* So does whether two windows are apart.
LEMMA ApartStays ==
    ASSUME job' = job, NEW v, NEW w
    PROVE  Apart(v, w)' <=> Apart(v, w)
BY DEF Apart, Joins

\* The cause of a drop is not undone.
LEMMA OvertakenStays ==
    ASSUME BasicInv, LogGrows, idled \subseteq idled', NEW id,
           id = <<id[1], id[2]>>, id[1] \in Partitions, id[2] \in 1..Len(log[id[1]]), Overtaken(id)
    PROVE  Overtaken(id)'
<1>1. CASE id[1] \in idled
    BY <1>1 DEF Overtaken
<1>2. CASE \E i \in 1..(id[2] - 1) : WindowOf(id).end - 1 <= log[id[1]][i].time - Delay
  <2>1. PICK i \in 1..(id[2] - 1) : WindowOf(id).end - 1 <= log[id[1]][i].time - Delay
      BY <1>2
  <2>2. Len(log[id[1]]) \in Nat
      BY LenProperties DEF BasicInv
  <2>3. i \in 1..Len(log[id[1]])
      BY <2>2
  <2>4. log'[id[1]][i] = log[id[1]][i]
      BY <2>3 DEF LogGrows
  <2>5. WindowOf(id)' = WindowOf(id)
      BY OldEvent
  <2> QED
      BY <2>1, <2>4, <2>5 DEF Overtaken
<1> QED
    BY <1>1, <1>2 DEF Overtaken

\* What was sound stays so while the log grows.
LEMMA SoundStays ==
    ASSUME BasicInv, BasicInv', LogGrows, idled \subseteq idled',
           NEW offsets, NEW open, NEW late, Sound(offsets, open, late)
    PROVE  Sound(offsets, open, late)'
<1>1. offsets \in [Partitions -> Nat] /\ \A p \in Partitions : offsets[p] <= Len(log[p])
    BY DEF Sound
<1>2. \A id \in SeenBy(offsets) :
          /\ id = <<id[1], id[2]>> /\ id[1] \in Partitions /\ id[2] \in 1..Len(log[id[1]])
    BY <1>1, SeenType
<1>3. \A p \in Partitions : offsets[p] <= Len(log'[p])
  <2>1. SUFFICES ASSUME NEW p \in Partitions PROVE offsets[p] <= Len(log'[p])
      OBVIOUS
  <2>2. Len(log[p]) \in Nat /\ offsets[p] \in Nat
      BY <1>1, LenProperties DEF BasicInv
  <2>3. Len(log'[p]) \in Nat
      BY LenProperties DEF BasicInv
  <2> QED
      BY <1>1, <2>2, <2>3 DEF LogGrows
<1>4. ASSUME NEW w \in open PROVE (Proper(w) /\ Holds(w) /\ w.events \subseteq SeenBy(offsets))'
  <2>1. Proper(w) /\ Holds(w) /\ w.events \subseteq SeenBy(offsets)
      BY DEF Sound
  <2>2. Proper(w)'
      BY <2>1, ProperStays DEF LogGrows
  <2>3. \A id \in w.events : WindowOf(id)' = WindowOf(id)
      BY <1>2, <2>1, OldEvent
  <2>4. Holds(w)'
      BY <2>1, <2>3 DEF Holds
  <2> QED
      BY <2>1, <2>2, <2>4 DEF SeenBy
<1>5. \A v, w \in open : v # w => Apart(v, w)'
    BY ApartStays DEF Sound, LogGrows
<1>6. \A id \in late : Overtaken(id)'
    BY <1>2, OvertakenStays DEF Sound
<1> QED
    BY <1>1, <1>3, <1>4, <1>5, <1>6 DEF Sound, SeenBy

\* Nothing at all is a place to start from.
LEMMA ScratchSound ==
    ASSUME BasicInv
    PROVE  /\ Sound(Scratch.position, Scratch.windows, Scratch.dropped)
           /\ SeenBy(Scratch.position) = {}
<1>1. /\ Scratch.position = [p \in Partitions |-> 0]
      /\ Scratch.windows = {} /\ Scratch.dropped = {}
    BY DEF Scratch
<1>2. \A p \in Partitions : 0 <= Len(log[p])
    BY LenProperties DEF BasicInv
<1>3. SeenBy(Scratch.position) = {}
    BY <1>1, StreamAssumption DEF SeenBy
<1> QED
    BY <1>1, <1>2, <1>3 DEF Sound

\* Events stay accounted for while the log grows and more windows hold them.
LEMMA AccountedStays ==
    ASSUME BasicInv, LogGrows, NEW offsets, offsets \in [Partitions -> Nat],
           \A p \in Partitions : offsets[p] <= Len(log[p]),
           NEW late, NEW held, NEW more, held \subseteq more, Accounted(offsets, late, held)
    PROVE  Accounted(offsets, late, more)'
<1>1. \A id \in SeenBy(offsets) : Counted(EventAt(id))' = Counted(EventAt(id))
    BY SeenType, OldEvent
<1> QED
    BY <1>1 DEF Accounted, SeenBy

-----------------------------------------------------------------------------
(* The source: offsets, timestamps and the watermark *)

\* The event a read is about, and its own window.
NextId(p) == <<p, position[p] + 1>>

Own(p) == WindowOf(NextId(p))

\* What reading does to the source.
LEMMA ReadSource ==
    ASSUME BasicInv, position \in [Partitions -> Nat], NEW p \in Partitions, Read(p)
    PROVE  /\ NextId(p)[2] \in 1..Len(log[p]) /\ NextId(p)[2] = position[p] + 1 /\ NextId(p)[1] = p
           /\ EventAt(NextId(p)) = log[p][position[p] + 1]
           /\ position' \in [Partitions -> Nat]
           /\ \A q \in Partitions : position'[q] = IF q = p THEN position[p] + 1 ELSE position[q]
           /\ TimeOf(NextId(p)) \in 0..MaxTime
           /\ latest' \in [Partitions -> -1..MaxTime]
           /\ latest'[p] \in {latest[p], TimeOf(NextId(p))} /\ latest[p] <= latest'[p]
           /\ \A q \in Partitions \ {p} : latest'[q] = latest[q]
           /\ idle' \subseteq idle
           /\ UNCHANGED <<job, log, watermark, results, unflushed, checkpoint, run, idled>>
<1>1. Len(log[p]) \in Nat /\ position[p] \in Nat /\ position[p] < Len(log[p])
    BY LenProperties DEF BasicInv, Read
<1>2. NextId(p)[2] \in 1..Len(log[p]) /\ NextId(p)[2] = position[p] + 1 /\ NextId(p)[1] = p
    BY <1>1 DEF NextId
<1>3. EventAt(NextId(p)) = log[p][position[p] + 1] /\ position[p] + 1 \in 1..Len(log[p])
    BY <1>2 DEF EventAt
<1>4. TimeOf(NextId(p)) \in 0..MaxTime
    BY <1>3, EventType DEF TimeOf
<1>5. position' = [position EXCEPT ![p] = position[p] + 1]
    BY DEF Read
<1>6. latest' = [latest EXCEPT ![p] = Max({latest[p], TimeOf(NextId(p))})]
    BY DEF Read, NextId
<1>7. latest \in [Partitions -> -1..MaxTime] /\ latest[p] \in -1..MaxTime
    BY DEF BasicInv
<1>8. latest[p] \in Int /\ TimeOf(NextId(p)) \in Int
    BY <1>4, <1>7, StreamAssumption
<1>9. /\ Max({latest[p], TimeOf(NextId(p))}) \in {latest[p], TimeOf(NextId(p))}
      /\ latest[p] <= Max({latest[p], TimeOf(NextId(p))})
    BY <1>8, MaxOfTwo
<1>10. Max({latest[p], TimeOf(NextId(p))}) \in -1..MaxTime
    BY <1>4, <1>7, <1>9, StreamAssumption
<1>11. latest' \in [Partitions -> -1..MaxTime] /\ latest'[p] = Max({latest[p], TimeOf(NextId(p))})
       /\ \A q \in Partitions \ {p} : latest'[q] = latest[q]
  <2> DEFINE new == Max({latest[p], TimeOf(NextId(p))})
  <2>1. new \in -1..MaxTime /\ latest' = [latest EXCEPT ![p] = new]
      BY <1>6, <1>10
  <2> HIDE DEF new
  <2>2. latest' \in [Partitions -> -1..MaxTime] /\ latest'[p] = new
        /\ \A q \in Partitions \ {p} : latest'[q] = latest[q]
      BY <1>7, <2>1
  <2> QED
      BY <2>2 DEF new
<1>12. position' \in [Partitions -> Nat]
       /\ \A q \in Partitions : position'[q] = IF q = p THEN position[p] + 1 ELSE position[q]
    BY <1>1, <1>5
<1>13. idle' \subseteq idle /\ UNCHANGED <<job, log, watermark, results, unflushed, checkpoint, run, idled>>
    BY DEF Read
<1> QED
    BY <1>2, <1>3, <1>4, <1>9, <1>11, <1>12, <1>13

\* The new watermark is the least of those of the partitions that are not idle.
LEMMA AdvanceEffect ==
    ASSUME BasicInv, Advance
    PROVE  /\ watermark' \in NoWatermark..(MaxTime - Delay) /\ watermark' > watermark
           /\ \A p \in Partitions \ idle : watermark' <= SplitWatermark(p)
           /\ windows' = {w \in windows : ~IsOver(w, watermark')}
           /\ \E over \in SUBSET windows :
                /\ over = {w \in windows : IsOver(w, watermark')}
                /\ results' = results \cup {Result(w) : w \in over}
                /\ unflushed' = unflushed \cup {Result(w) : w \in over}
           /\ UNCHANGED <<job, log, position, latest, idle, checkpoint, run, dropped, stale, idled>>
<1> DEFINE Marks == {SplitWatermark(p) : p \in Partitions \ idle}
<1>1. watermark' = Min(Marks) /\ Min(Marks) > watermark /\ idle # Partitions
    BY DEF Advance
<1>2. \A p \in Partitions : SplitWatermark(p) \in NoWatermark..(MaxTime - Delay)
    BY StreamAssumption DEF BasicInv, SplitWatermark, NoWatermark
<1>3. Marks \subseteq NoWatermark..(MaxTime - Delay) /\ Marks # {}
    BY <1>1, <1>2 DEF BasicInv
<1>4. NoWatermark \in Int /\ MaxTime - Delay \in Int
    BY StreamAssumption DEF NoWatermark
<1>5. Min(Marks) \in Marks /\ \A t \in Marks : Min(Marks) <= t
  <2> HIDE DEF Marks
  <2>1. IsFiniteSet(Marks) /\ Marks \in SUBSET Int
    <3>1. IsFiniteSet(NoWatermark..(MaxTime - Delay)) /\ NoWatermark..(MaxTime - Delay) \subseteq Int
        BY <1>4, FS_Interval
    <3> QED
        BY <1>3, <3>1, FS_Subset
  <2> QED
      BY <1>3, <2>1, MinIsLeast
<1>6. watermark' \in NoWatermark..(MaxTime - Delay) /\ \A p \in Partitions \ idle : watermark' <= SplitWatermark(p)
    BY <1>1, <1>3, <1>5
<1>7. windows' = {w \in windows : ~IsOver(w, watermark')}
    BY <1>1 DEF Advance
<1>8. /\ results' = results \cup {Result(w) : w \in {u \in windows : IsOver(u, watermark')}}
      /\ unflushed' = unflushed \cup {Result(w) : w \in {u \in windows : IsOver(u, watermark')}}
    BY <1>1 DEF Advance
<1> QED
    BY <1>1, <1>6, <1>7, <1>8 DEF Advance, source, history

\* A restart keeps only what the state has.
LEMMA RestartEffect ==
    ASSUME Restore \/ Resubmit
    PROVE  \E state \in {checkpoint, Scratch} :
             /\ state = Scratch \/ Restore
             /\ position' = state.position /\ windows' = state.windows /\ dropped' = state.dropped
             /\ checkpoint' = state /\ unflushed' = {} /\ results' \subseteq results
             /\ results \ unflushed \subseteq results'
             /\ latest' = [p \in Partitions |-> -1] /\ idle' = {} /\ watermark' = NoWatermark
             /\ run' = run + 1 /\ run < MaxFailures
             /\ UNCHANGED <<job, log, stale, idled>>
<1>1. CASE Restore
    BY <1>1 DEF Restore, StartFrom, history
<1>2. CASE Resubmit
    BY <1>2 DEF Resubmit, StartFrom, history
<1> QED
    BY <1>1, <1>2

\* Every step keeps the types, and only adds to the log and to the partitions idled.
LEMMA BasicStep ==
    ASSUME BasicInv, position \in [Partitions -> Nat], [Next]_vars
    PROVE  BasicInv' /\ LogGrows /\ idled \subseteq idled'
<1>1. ASSUME NEW event \in Events, Arrive(event) PROVE BasicInv' /\ LogGrows /\ idled \subseteq idled'
    BY <1>1, ArriveEffect DEF BasicInv, NoWatermark, Jobs
<1>2. ASSUME NEW p \in Partitions, Read(p) PROVE BasicInv' /\ LogGrows /\ idled \subseteq idled'
  <2>1. LogGrows
      BY <1>2, ReadSource, LogStays
  <2> QED
      BY <1>2, <2>1, ReadSource DEF BasicInv, NoWatermark, Jobs
<1>3. ASSUME NEW p \in Partitions, GoIdle(p) PROVE BasicInv' /\ LogGrows /\ idled \subseteq idled'
  <2>1. LogGrows
      BY <1>3, LogStays DEF GoIdle
  <2> QED
      BY <1>3, <2>1 DEF GoIdle, BasicInv, NoWatermark, Jobs
<1>4. CASE Advance
  <2>1. LogGrows
      BY <1>4, AdvanceEffect, LogStays
  <2> QED
      BY <1>4, <2>1, AdvanceEffect DEF BasicInv, NoWatermark, Jobs
<1>5. CASE Checkpoint
  <2>1. UNCHANGED <<job, log, latest, idle, watermark, run, idled>>
      BY <1>5 DEF Checkpoint, source, history
  <2>2. LogGrows
      BY <2>1, LogStays
  <2> QED
      BY <2>1, <2>2 DEF BasicInv, NoWatermark, Jobs
<1>6. CASE Restore \/ Resubmit
  <2>1. /\ UNCHANGED <<job, log, idled>> /\ latest' = [p \in Partitions |-> -1] /\ idle' = {}
        /\ watermark' = NoWatermark /\ run' = run + 1 /\ run < MaxFailures
      BY <1>6, RestartEffect
  <2>2. LogGrows
      BY <2>1, LogStays
  <2>3. latest' \in [Partitions -> -1..MaxTime] /\ NoWatermark \in NoWatermark..(MaxTime - Delay)
      BY <2>1, StreamAssumption DEF NoWatermark
  <2>4. run' \in 0..MaxFailures
      BY <2>1, StreamAssumption DEF BasicInv
  <2> QED
      BY <2>1, <2>2, <2>3, <2>4 DEF BasicInv, NoWatermark, Jobs
<1>7. CASE UNCHANGED vars
  <2>1. UNCHANGED <<job, log, latest, idle, watermark, run, idled>>
      BY <1>7 DEF vars, source, history
  <2>2. LogGrows
      BY <2>1, LogStays
  <2> QED
      BY <2>1, <2>2 DEF BasicInv, NoWatermark, Jobs
<1> QED
    BY <1>1, <1>2, <1>3, <1>4, <1>5, <1>6, <1>7 DEF Next

\* The greatest timestamp is that of an event that was read.
TimeWasRead(p) == latest[p] >= 0 => \E i \in 1..position[p] : log[p][i].time = latest[p]

\* Every step keeps the watermark behind the partitions that never were idle.
LEMMA SourceStep ==
    ASSUME BasicInv, BasicInv', LogGrows, position \in [Partitions -> Nat],
           \A p \in Partitions : position[p] <= Len(log[p]),
           SourceInv, [Next]_vars
    PROVE  SourceInv'
<1> DEFINE Behind(p) == watermark <= SplitWatermark(p)
<1>0. /\ \A p \in Partitions : TimeWasRead(p)
      /\ \A p \in Partitions \ idled : Behind(p)
      /\ \A p \in Partitions : Len(log[p]) \in Nat /\ position[p] \in Nat
      /\ latest \in [Partitions -> -1..MaxTime]
    BY LenProperties DEF SourceInv, TimeWasRead, BasicInv
<1>1. ASSUME NEW p \in Partitions, latest'[p] = latest[p], position'[p] = position[p] PROVE TimeWasRead(p)'
  <2>1. SUFFICES ASSUME latest[p] >= 0 PROVE \E i \in 1..position'[p] : log'[p][i].time = latest'[p]
      BY <1>1 DEF TimeWasRead
  <2>2. PICK i \in 1..position[p] : log[p][i].time = latest[p]
      BY <1>0, <2>1 DEF TimeWasRead
  <2>3. i \in 1..Len(log[p])
      BY <1>0, <2>2
  <2>4. log'[p][i] = log[p][i]
      BY <2>3 DEF LogGrows
  <2> QED
      BY <1>1, <2>2, <2>4
<1>2. ASSUME NEW p \in Partitions, latest'[p] = latest[p], watermark' = watermark, Behind(p)
      PROVE  Behind(p)'
    BY <1>2 DEF SplitWatermark, NoWatermark
<1>3. ASSUME \A p \in Partitions : TimeWasRead(p)', \A p \in Partitions \ idled' : Behind(p)'
      PROVE  SourceInv'
    BY <1>3 DEF SourceInv, TimeWasRead
<1>4. ASSUME NEW event \in Events, Arrive(event) PROVE SourceInv'
    BY <1>0, <1>1, <1>2, <1>3, <1>4, ArriveEffect
<1>5. ASSUME NEW p \in Partitions, Read(p) PROVE SourceInv'
  <2>1. TimeWasRead(p)'
    <3>1. latest'[p] \in {latest[p], log[p][position[p] + 1].time} /\ position'[p] = position[p] + 1
          /\ log' = log
        BY <1>5, ReadSource DEF TimeOf
    <3> QED
        BY <1>0, <3>1 DEF TimeWasRead
  <2>2. \A q \in Partitions \ {p} : TimeWasRead(q)'
      BY <1>1, <1>5, ReadSource
  <2>3. ASSUME p \notin idled PROVE Behind(p)'
    <3>1. watermark <= SplitWatermark(p) /\ watermark \in Int /\ watermark' = watermark
        BY <1>0, <1>5, <2>3, ReadSource, StreamAssumption DEF BasicInv, NoWatermark
    <3>2. latest[p] <= latest'[p] /\ latest[p] \in Int /\ latest'[p] \in Int /\ Delay \in Nat
          /\ latest[p] >= -1
        BY <1>0, <1>5, ReadSource, StreamAssumption DEF BasicInv
    <3> QED
        BY <3>1, <3>2 DEF SplitWatermark, NoWatermark
  <2>4. \A q \in Partitions \ {p} : Behind(q) => Behind(q)'
      BY <1>2, <1>5, ReadSource
  <2>5. idled' = idled
      BY <1>5, ReadSource
  <2> HIDE DEF Behind
  <2> QED
      BY <1>0, <1>3, <2>1, <2>2, <2>3, <2>4, <2>5
<1>6. ASSUME NEW p \in Partitions, GoIdle(p) PROVE SourceInv'
  <2>1. UNCHANGED <<latest, position, watermark>> /\ idled' = idled \cup {p}
      BY <1>6 DEF GoIdle
  <2> QED
      BY <1>0, <1>1, <1>2, <1>3, <2>1
<1>7. CASE Advance
  <2>1. UNCHANGED <<latest, position, idle, idled>>
        /\ \A p \in Partitions \ idle : watermark' <= SplitWatermark(p)
      BY <1>7, AdvanceEffect
  <2>2. \A p \in Partitions \ idled' : Behind(p)'
      BY <2>1 DEF BasicInv, SplitWatermark, NoWatermark
  <2> QED
      BY <1>0, <1>1, <1>3, <2>1, <2>2
<1>8. CASE Checkpoint
  <2>1. UNCHANGED <<latest, position, watermark, idled>>
      BY <1>8 DEF Checkpoint, source, history
  <2> QED
      BY <1>0, <1>1, <1>2, <1>3, <2>1
<1>9. CASE Restore \/ Resubmit
  <2>1. latest' = [p \in Partitions |-> -1] /\ watermark' = NoWatermark
      BY <1>9, RestartEffect
  <2>2. \A p \in Partitions : latest'[p] = -1
      BY <2>1
  <2>3. \A p \in Partitions : TimeWasRead(p)'
      BY <2>2 DEF TimeWasRead
  <2>4. \A p \in Partitions : SplitWatermark(p)' = NoWatermark /\ NoWatermark <= NoWatermark
      BY <2>2, StreamAssumption DEF SplitWatermark, NoWatermark
  <2> QED
      BY <1>3, <2>1, <2>3, <2>4
<1>10. CASE UNCHANGED vars
  <2>1. UNCHANGED <<latest, position, watermark, idled>>
      BY <1>10 DEF vars, source, history
  <2> QED
      BY <1>0, <1>1, <1>2, <1>3, <2>1
<1> QED
    BY <1>4, <1>5, <1>6, <1>7, <1>8, <1>9, <1>10 DEF Next

-----------------------------------------------------------------------------
(* The windows, and what the job has dropped *)

\* What reading does to the windows: the event does not count, is dropped, or merges
\* its own window with those it joins.
LEMMA ReadCases ==
    ASSUME NEW p \in Partitions, Read(p)
    PROVE  \/ /\ ~Counted(EventAt(NextId(p)))
              /\ UNCHANGED <<windows, dropped, stale>>
           \/ /\ Merged(Own(p)).end - 1 <= watermark
              /\ dropped' = dropped \cup {NextId(p)} /\ UNCHANGED <<windows, stale>>
           \/ /\ ~(Merged(Own(p)).end - 1 <= watermark)
              /\ windows' = (windows \ Neighbours(Own(p))) \cup {Merged(Own(p))}
              /\ stale' = IF TimeOf(NextId(p)) <= watermark THEN stale \cup {NextId(p)}
                                                            ELSE stale \ {NextId(p)}
              /\ dropped' = dropped
BY DEF Read, Own, NextId, IsLate, IsOver

\* The window of the next event, and what it merges to.
LEMMA NextWindow ==
    ASSUME BasicInv, Sound(position, windows, dropped), NEW p \in Partitions, Read(p)
    PROVE  /\ Proper(Own(p)) /\ Own(p).events = {NextId(p)} /\ Holds(Own(p))
           /\ NextId(p) \notin SeenBy(position)
           /\ \A v \in windows : Proper(v) /\ v.events \subseteq SeenBy(position)
           /\ \A id \in SeenBy(position) \cup {NextId(p)} :
                WindowOf(id).start \in Int /\ WindowOf(id).end \in Int
           /\ Proper(Merged(Own(p))) /\ Holds(Merged(Own(p)))
           /\ Merged(Own(p)).events \subseteq SeenBy(position) \cup {NextId(p)}
           /\ NextId(p) \in Merged(Own(p)).events
           /\ \A v \in windows \ Neighbours(Own(p)) :
                Apart(v, Merged(Own(p))) /\ Apart(Merged(Own(p)), v)
           /\ SeenBy(position) \cup {NextId(p)} \subseteq SeenBy(position')
<1>1. /\ position \in [Partitions -> Nat] /\ \A q \in Partitions : position[q] <= Len(log[q])
      /\ \A v \in windows : Proper(v) /\ Holds(v) /\ v.events \subseteq SeenBy(position)
      /\ \A u, v \in windows : u # v => Apart(u, v)
    BY DEF Sound
<1>2. /\ NextId(p)[2] \in 1..Len(log[p]) /\ NextId(p)[2] = position[p] + 1 /\ NextId(p)[1] = p
      /\ NextId(p) = <<p, NextId(p)[2]>>
      /\ \A q \in Partitions : position'[q] = IF q = p THEN position[p] + 1 ELSE position[q]
    BY <1>1, ReadSource DEF NextId
<1>3. Proper(Own(p)) /\ Own(p).events = {NextId(p)}
    BY <1>2, OwnWindow DEF Own
<1>4. Own(p).start \in Int /\ Own(p).end \in Int
    BY <1>3, WindowTypes
<1>5. Holds(Own(p))
    BY <1>3, <1>4 DEF Holds, Own
<1>6. NextId(p) \notin SeenBy(position)
  <2>1. ~(position[p] + 1 <= position[p])
      BY <1>1
  <2> QED
      BY <1>2, <2>1 DEF SeenBy
<1>7. ASSUME NEW id \in SeenBy(position) \cup {NextId(p)}
      PROVE  WindowOf(id).start \in Int /\ WindowOf(id).end \in Int
  <2>1. CASE id = NextId(p)
      BY <1>4, <2>1 DEF Own
  <2>2. CASE id \in SeenBy(position)
    <3>1. id = <<id[1], id[2]>> /\ id[1] \in Partitions /\ id[2] \in 1..Len(log[id[1]])
        BY <1>1, <2>2, SeenType
    <3>2. Proper(WindowOf(id))
        BY <3>1, OwnWindow
    <3> QED
        BY <3>2, WindowTypes
  <2> QED
      BY <2>1, <2>2
<1>8. \A v \in Parts(Own(p)) : v.events \subseteq SeenBy(position) \cup {NextId(p)}
    BY <1>1, <1>3 DEF Parts, Neighbours
<1>9. Proper(Merged(Own(p)))
    BY <1>1, <1>3, MergedProper
<1>10. Holds(Merged(Own(p)))
  <2>1. \A v \in Parts(Own(p)) : \A id \in v.events :
            WindowOf(id).start \in Int /\ WindowOf(id).end \in Int
      BY <1>7, <1>8
  <2> QED
      BY <1>1, <1>3, <1>5, <2>1, MergedHolds
<1>11. Merged(Own(p)).events = UNION {v.events : v \in Parts(Own(p))}
    BY <1>1, <1>3, MergedSpan
<1>12. /\ Merged(Own(p)).events \subseteq SeenBy(position) \cup {NextId(p)}
       /\ NextId(p) \in Merged(Own(p)).events
    BY <1>3, <1>8, <1>11 DEF Parts
<1>13. \A v \in windows : v.events \cap Own(p).events = {}
    BY <1>1, <1>3, <1>6
<1>14. \A v \in windows \ Neighbours(Own(p)) :
           Apart(v, Merged(Own(p))) /\ Apart(Merged(Own(p)), v)
    BY <1>1, <1>3, <1>13, MergedApart
<1>15. SeenBy(position) \cup {NextId(p)} \subseteq SeenBy(position')
  <2>1. NextId(p) \in SeenBy(position')
    <3>1. NextId(p)[2] \in 1..MaxEvents
        BY <1>2, EventType
    <3>2. NextId(p)[2] <= position'[NextId(p)[1]]
        BY <1>1, <1>2
    <3> QED
        BY <1>2, <3>1, <3>2 DEF SeenBy
  <2>2. \A q \in Partitions : position[q] <= position'[q]
      BY <1>1, <1>2
  <2>3. ASSUME NEW id \in SeenBy(position) PROVE id \in SeenBy(position')
    <3>1. id \in Partitions \X (1..MaxEvents) /\ id[1] \in Partitions /\ id[2] \in Nat
          /\ id[2] <= position[id[1]]
        BY <1>1, SeenType DEF SeenBy
    <3>2. position[id[1]] \in Nat /\ position'[id[1]] \in Nat
        BY <1>1, <3>1, ReadSource
    <3>3. id[2] <= position'[id[1]]
        BY <2>2, <3>1, <3>2
    <3> QED
        BY <3>1, <3>3 DEF SeenBy
  <2> QED
      BY <2>1, <2>3
<1> QED
    BY <1>1, <1>3, <1>5, <1>6, <1>7, <1>9, <1>10, <1>12, <1>14, <1>15

\* An event is dropped because one before it in its partition, or another partition
\* while its own was idle, has moved the watermark past its window.
LEMMA LateIsOvertaken ==
    ASSUME BasicInv, SourceInv, Sound(position, windows, dropped), NEW p \in Partitions, Read(p),
           Merged(Own(p)).end - 1 <= watermark
    PROVE  Overtaken(NextId(p))
<1>1. CASE p \in idled
    BY <1>1 DEF Overtaken, NextId
<1>2. CASE p \notin idled
  <2>1. position \in [Partitions -> Nat] /\ position[p] \in Nat /\ \A v \in windows : Proper(v)
      BY DEF Sound
  <2>2. Proper(Own(p)) /\ Own(p) \in Parts(Own(p))
      BY NextWindow DEF Parts
  <2>3. Own(p).end <= Merged(Own(p)).end /\ Proper(Merged(Own(p)))
      BY <2>1, <2>2, MergedSpan, MergedProper
  <2>4. Own(p).end \in Int /\ Own(p).end > 0 /\ Merged(Own(p)).end \in Int
      BY <2>2, <2>3, WindowTypes
  <2>5. watermark \in Int /\ Delay \in Nat /\ latest[p] \in Int
      BY StreamAssumption DEF BasicInv, NoWatermark
  <2>6. watermark <= SplitWatermark(p)
      BY <1>2 DEF SourceInv
  <2>7. latest[p] >= 0 /\ Own(p).end - 1 <= latest[p] - Delay
      BY <2>3, <2>4, <2>5, <2>6 DEF SplitWatermark, NoWatermark
  <2>8. PICK i \in 1..position[p] : log[p][i].time = latest[p]
      BY <2>7 DEF SourceInv
  <2>9. NextId(p)[1] = p /\ NextId(p)[2] - 1 = position[p]
      BY <2>1 DEF NextId
  <2> QED
      BY <2>7, <2>8, <2>9 DEF Overtaken, Own
<1> QED
    BY <1>1, <1>2

\* After a read the job is sound again.
LEMMA ReadSound ==
    ASSUME BasicInv, BasicInv', SourceInv, Sound(position, windows, dropped), NEW p \in Partitions, Read(p)
    PROVE  Sound(position', windows', dropped')
<1> DEFINE m == Merged(Own(p))
           id == NextId(p)
<1>1. /\ position \in [Partitions -> Nat] /\ \A q \in Partitions : position[q] <= Len(log[q])
      /\ \A v \in windows : Proper(v) /\ Holds(v) /\ v.events \subseteq SeenBy(position)
      /\ \A u, v \in windows : u # v => Apart(u, v)
      /\ dropped \subseteq SeenBy(position) /\ \A e \in dropped : Overtaken(e)
    BY DEF Sound
<1>2. /\ Proper(m) /\ Holds(m) /\ m.events \subseteq SeenBy(position')
      /\ SeenBy(position) \subseteq SeenBy(position') /\ id \in SeenBy(position')
      /\ \A v \in windows \ Neighbours(Own(p)) : Apart(v, m) /\ Apart(m, v)
    BY NextWindow
<1>3. position' \in [Partitions -> Nat] /\ \A q \in Partitions : position'[q] <= Len(log[q])
  <2>1. /\ position[p] + 1 \in 1..Len(log[p]) /\ position' \in [Partitions -> Nat]
        /\ \A q \in Partitions : position'[q] = IF q = p THEN position[p] + 1 ELSE position[q]
      BY <1>1, ReadSource
  <2>2. Len(log[p]) \in Nat
      BY LenProperties DEF BasicInv
  <2>3. position[p] + 1 <= Len(log[p])
      BY <2>1, <2>2
  <2> QED
      BY <1>1, <2>1, <2>3
<1>4. \A v \in windows' : v \in windows \/ v = m
    BY ReadCases
<1>5. \A v \in windows' : Proper(v) /\ Holds(v) /\ v.events \subseteq SeenBy(position')
    BY <1>1, <1>2, <1>4
<1>6. \A u, v \in windows' : u # v => Apart(u, v)
  <2>1. CASE windows' = windows
      BY <1>1, <2>1
  <2>2. CASE windows' = (windows \ Neighbours(Own(p))) \cup {m}
    <3> HIDE DEF m
    <3> QED
        BY <1>1, <1>2, <2>2
  <2> QED
      BY <2>1, <2>2, ReadCases
<1>7. dropped' \subseteq SeenBy(position') /\ \A e \in dropped' : Overtaken(e)
  <2>1. CASE dropped' = dropped
      BY <1>1, <1>2, <2>1
  <2>2. CASE dropped' = dropped \cup {id} /\ m.end - 1 <= watermark
    <3>1. Overtaken(id)
        BY <2>2, LateIsOvertaken
    <3> HIDE DEF id, m
    <3> QED
        BY <1>1, <1>2, <2>2, <3>1
  <2> QED
      BY <2>1, <2>2, ReadCases
<1> QED
    BY <1>3, <1>5, <1>6, <1>7 DEF Sound

\* Every step leaves the job and its checkpoint sound.
LEMMA StateStep ==
    ASSUME BasicInv, BasicInv', LogGrows, idled \subseteq idled', SourceInv, StateInv, [Next]_vars
    PROVE  StateInv'
<1>1. /\ Sound(position, windows, dropped)
      /\ Sound(checkpoint.position, checkpoint.windows, checkpoint.dropped)
    BY DEF StateInv
<1>2. ASSUME NEW offsets, NEW open, NEW late, Sound(offsets, open, late)
      PROVE  Sound(offsets, open, late)'
    BY <1>2, SoundStays
<1>3. ASSUME Sound(position', windows', dropped'), checkpoint' = checkpoint
      PROVE  StateInv'
  <2>1. Sound(position, windows, dropped)'
      BY <1>2, <1>3 DEF Sound
  <2>2. Sound(checkpoint.position, checkpoint.windows, checkpoint.dropped)'
      BY <1>1, <1>2, <1>3
  <2> QED
      BY <2>1, <2>2 DEF StateInv
<1>4. ASSUME position' = position, windows' = windows, dropped' = dropped, checkpoint' = checkpoint
      PROVE  StateInv'
    BY <1>1, <1>3, <1>4
<1>5. ASSUME NEW event \in Events, Arrive(event) PROVE StateInv'
    BY <1>4, <1>5, ArriveEffect
<1>6. ASSUME NEW p \in Partitions, Read(p) PROVE StateInv'
  <2>1. Sound(position', windows', dropped')
      BY <1>1, <1>6, ReadSound
  <2>2. checkpoint' = checkpoint
      BY <1>6 DEF Read
  <2> QED
      BY <1>3, <2>1, <2>2
<1>7. ASSUME NEW p \in Partitions, GoIdle(p) PROVE StateInv'
    BY <1>4, <1>7 DEF GoIdle
<1>8. CASE Advance
  <2>1. position' = position /\ dropped' = dropped /\ windows' \subseteq windows /\ checkpoint' = checkpoint
      BY <1>8, AdvanceEffect
  <2>2. Sound(position', windows', dropped')
      BY <1>1, <2>1 DEF Sound
  <2> QED
      BY <1>3, <2>1, <2>2
<1>9. CASE Checkpoint
  <2>1. position' = position /\ windows' = windows /\ dropped' = dropped /\ checkpoint' = Snapshot
      BY <1>9 DEF Checkpoint, source
  <2>2. /\ checkpoint'.position = position /\ checkpoint'.windows = windows
        /\ checkpoint'.dropped = dropped
      BY <2>1 DEF Snapshot
  <2>3. Sound(position, windows, dropped)'
      BY <1>1, <1>2, <2>1
  <2>4. Sound(checkpoint.position, checkpoint.windows, checkpoint.dropped)'
      BY <2>1, <2>2, <2>3
  <2> QED
      BY <2>3, <2>4 DEF StateInv
<1>10. CASE Restore \/ Resubmit
  <2>1. PICK state \in {checkpoint, Scratch} :
          /\ position' = state.position /\ windows' = state.windows /\ dropped' = state.dropped
          /\ checkpoint' = state
      BY <1>10, RestartEffect
  <2>2. Sound(state.position, state.windows, state.dropped)
      BY <1>1, ScratchSound
  <2>3. Sound(position, windows, dropped)'
      BY <1>2, <2>1, <2>2
  <2>4. Sound(checkpoint.position, checkpoint.windows, checkpoint.dropped)'
      BY <2>1, <2>3
  <2> QED
      BY <2>3, <2>4 DEF StateInv
<1>11. CASE UNCHANGED vars
    BY <1>4, <1>11 DEF vars, source
<1> QED
    BY <1>5, <1>6, <1>7, <1>8, <1>9, <1>10, <1>11 DEF Next

-----------------------------------------------------------------------------
(* Events between offsets, windows and results *)

\* A read moves past one event.
LEMMA NewlySeen ==
    ASSUME BasicInv, position \in [Partitions -> Nat], NEW p \in Partitions, Read(p)
    PROVE  SeenBy(position') \subseteq SeenBy(position) \cup {NextId(p)}
<1>1. \A q \in Partitions : position'[q] = IF q = p THEN position[p] + 1 ELSE position[q]
    BY ReadSource
<1>2. ASSUME NEW id \in SeenBy(position'), id \notin SeenBy(position) PROVE id = NextId(p)
  <2>1. /\ id \in Partitions \X (1..MaxEvents) /\ id[1] \in Partitions /\ id[2] \in 1..MaxEvents
        /\ id = <<id[1], id[2]>> /\ id[2] <= position'[id[1]] /\ ~(id[2] <= position[id[1]])
      BY <1>2 DEF SeenBy
  <2>2. id[1] = p
      BY <1>1, <2>1
  <2>3. id[2] = position[p] + 1
      BY <1>1, <2>1, <2>2, StreamAssumption
  <2> QED
      BY <2>1, <2>2, <2>3 DEF NextId
<1> QED
    BY <1>2

\* Every step leaves each counted event somewhere, in the job and from the checkpoint.
LEMMA AccountStep ==
    ASSUME BasicInv, LogGrows, StateInv, AccountInv, FiredInv, [Next]_vars
    PROVE  AccountInv'
<1>1. /\ Sound(position, windows, dropped)
      /\ position \in [Partitions -> Nat] /\ \A p \in Partitions : position[p] <= Len(log[p])
      /\ checkpoint.position \in [Partitions -> Nat]
      /\ \A p \in Partitions : checkpoint.position[p] <= Len(log[p])
    BY DEF StateInv, Sound
<1>2. /\ Accounted(position, dropped, windows \cup results)
      /\ Accounted(checkpoint.position, checkpoint.dropped,
                   checkpoint.windows \cup (results \ unflushed))
    BY DEF AccountInv
<1>3. ASSUME NEW offsets, offsets \in [Partitions -> Nat],
             \A p \in Partitions : offsets[p] <= Len(log[p]),
             NEW late, NEW held, NEW more, held \subseteq more, Accounted(offsets, late, held)
      PROVE  Accounted(offsets, late, more)'
    BY <1>3, AccountedStays
<1>4. ASSUME checkpoint' = checkpoint, results \ unflushed \subseteq results' \ unflushed'
      PROVE  Accounted(checkpoint.position, checkpoint.dropped,
                       checkpoint.windows \cup (results \ unflushed))'
  <2>1. checkpoint.windows \cup (results \ unflushed) \subseteq
            checkpoint'.windows \cup (results' \ unflushed')
      BY <1>4
  <2> QED
      BY <1>1, <1>2, <1>3, <1>4, <2>1
<1>5. ASSUME UNCHANGED <<position, windows, dropped, results, unflushed, checkpoint>>
      PROVE  AccountInv'
  <2>1. Accounted(position, dropped, windows \cup results)'
      BY <1>1, <1>2, <1>3, <1>5
  <2> QED
      BY <1>4, <1>5, <2>1 DEF AccountInv
<1>6. ASSUME NEW event \in Events, Arrive(event) PROVE AccountInv'
    BY <1>5, <1>6, ArriveEffect
<1>7. ASSUME NEW p \in Partitions, Read(p) PROVE AccountInv'
  <2>1. UNCHANGED <<job, log, results, unflushed, checkpoint>>
      BY <1>1, <1>7, ReadSource
  <2>2. SeenBy(position') \subseteq SeenBy(position) \cup {NextId(p)}
      BY <1>1, <1>7, NewlySeen
  <2>3. /\ NextId(p) \in Merged(Own(p)).events
        /\ \A v \in Neighbours(Own(p)) : v.events \subseteq Merged(Own(p)).events
    <3>1. Proper(Own(p)) /\ \A v \in windows : Proper(v)
        BY <1>1, <1>7, NextWindow
    <3>2. Merged(Own(p)).events = UNION {v.events : v \in Parts(Own(p))}
        BY <3>1, MergedSpan
    <3> QED
        BY <1>1, <1>7, <3>2, NextWindow DEF Parts
  <2>4. ASSUME NEW id \in SeenBy(position'), Counted(EventAt(id))
        PROVE  id \in dropped' \/ \E w \in windows' \cup results : id \in w.events
    <3>1. CASE ~Counted(EventAt(NextId(p))) /\ UNCHANGED <<windows, dropped>>
      <4>1. id \in SeenBy(position)
          BY <2>2, <2>4, <3>1
      <4> QED
          BY <1>2, <2>4, <3>1, <4>1 DEF Accounted
    <3>2. CASE dropped' = dropped \cup {NextId(p)} /\ UNCHANGED windows
        BY <1>2, <2>2, <2>4, <3>2 DEF Accounted
    <3>3. CASE windows' = (windows \ Neighbours(Own(p))) \cup {Merged(Own(p))} /\ dropped' = dropped
      <4>1. CASE id = NextId(p)
          BY <2>3, <3>3, <4>1
      <4>2. CASE id \in SeenBy(position) /\ id \notin dropped
        <5>1. PICK w \in windows \cup results : id \in w.events
            BY <1>2, <2>4, <4>2 DEF Accounted
        <5>2. CASE w \in Neighbours(Own(p))
            BY <2>3, <3>3, <5>1, <5>2
        <5>3. CASE w \notin Neighbours(Own(p))
            BY <3>3, <5>1, <5>3
        <5> QED
            BY <5>2, <5>3
      <4> QED
          BY <2>2, <2>4, <3>3, <4>1, <4>2
    <3> QED
        BY <1>7, <3>1, <3>2, <3>3, ReadCases
  <2>5. Accounted(position', dropped', windows' \cup results)
      BY <2>4 DEF Accounted
  <2>6. Accounted(position, dropped, windows \cup results)'
    <3>1. \A e : Counted(e)' <=> Counted(e)
        BY <2>1 DEF Counted, Pipeline
    <3>2. \A id : EventAt(id)' = EventAt(id)
        BY <2>1 DEF EventAt
    <3> QED
        BY <2>1, <2>5, <3>1, <3>2 DEF Accounted
  <2> QED
      BY <1>4, <2>1, <2>6 DEF AccountInv
<1>8. ASSUME NEW p \in Partitions, GoIdle(p) PROVE AccountInv'
    BY <1>5, <1>8 DEF GoIdle
<1>9. CASE Advance
  <2>1. PICK over \in SUBSET windows :
          /\ over = {w \in windows : IsOver(w, watermark')}
          /\ results' = results \cup {Result(w) : w \in over}
          /\ unflushed' = unflushed \cup {Result(w) : w \in over}
      BY <1>9, AdvanceEffect
  <2>2. /\ UNCHANGED <<job, log, position, dropped, checkpoint>>
        /\ windows' = {w \in windows : ~IsOver(w, watermark')}
      BY <1>9, AdvanceEffect
  <2>3. \A w \in over : Result(w).events = w.events /\ Result(w).run = run
      BY DEF Result
  <2>4. Accounted(position, dropped, windows' \cup results')
    <3>1. ASSUME NEW id, NEW w \in windows \cup results, id \in w.events
          PROVE  \E v \in windows' \cup results' : id \in v.events
      <4>1. CASE w \in over
          BY <2>1, <2>3, <3>1, <4>1
      <4>2. CASE w \in windows \ over
          BY <2>1, <2>2, <3>1, <4>2
      <4>3. CASE w \in results
          BY <2>1, <3>1, <4>3
      <4> QED
          BY <4>1, <4>2, <4>3
    <3> QED
        BY <1>2, <3>1 DEF Accounted
  <2>5. Accounted(position, dropped, windows \cup results)'
      BY <1>1, <1>3, <2>2, <2>4
  <2>6. results \ unflushed \subseteq results' \ unflushed'
    <3>1. ASSUME NEW r \in results, NEW w \in over, r = Result(w) PROVE FALSE
      <4>1. r.events \cap w.events = {}
          BY <2>3, <3>1 DEF FiredInv
      <4>2. w.events # {}
          BY <1>1 DEF Sound, Proper
      <4> QED
          BY <2>3, <3>1, <4>1, <4>2
    <3> QED
        BY <2>1, <3>1
  <2> QED
      BY <1>4, <2>2, <2>5, <2>6 DEF AccountInv
<1>10. CASE Checkpoint
  <2>1. UNCHANGED <<position, windows, dropped, results>> /\ checkpoint' = Snapshot /\ unflushed' = {}
      BY <1>10 DEF Checkpoint, source
  <2>2. /\ checkpoint'.position = position' /\ checkpoint'.windows = windows'
        /\ checkpoint'.dropped = dropped' /\ results' \ unflushed' = results'
      BY <2>1 DEF Snapshot
  <2>3. Accounted(position, dropped, windows \cup results)'
      BY <1>1, <1>2, <1>3, <2>1
  <2>4. Accounted(checkpoint.position, checkpoint.dropped,
                  checkpoint.windows \cup (results \ unflushed))'
      BY <2>2, <2>3
  <2> QED
      BY <2>3, <2>4 DEF AccountInv
<1>11. CASE Restore \/ Resubmit
  <2>1. PICK state \in {checkpoint, Scratch} :
          /\ position' = state.position /\ windows' = state.windows /\ dropped' = state.dropped
          /\ checkpoint' = state /\ unflushed' = {} /\ results \ unflushed \subseteq results'
      BY <1>11, RestartEffect
  <2>2. Accounted(state.position, state.dropped, state.windows \cup results')
    <3>1. CASE state = checkpoint
        BY <1>2, <2>1, <3>1 DEF Accounted
    <3>2. CASE state = Scratch
      <4>1. SeenBy(Scratch.position) = {}
          BY ScratchSound
      <4> QED
          BY <3>2, <4>1 DEF Accounted
    <3> QED
        BY <3>1, <3>2
  <2>3. state.position \in [Partitions -> Nat] /\ \A p \in Partitions : state.position[p] <= Len(log[p])
      BY <1>1, ScratchSound DEF Sound
  <2>4. Accounted(position, dropped, windows \cup results)'
      BY <1>3, <2>1, <2>2, <2>3
  <2>5. Accounted(checkpoint.position, checkpoint.dropped,
                  checkpoint.windows \cup (results \ unflushed))'
    <3>1. results' \ unflushed' = results'
        BY <2>1
    <3> QED
        BY <2>1, <2>4, <3>1
  <2> QED
      BY <2>4, <2>5 DEF AccountInv
<1>12. CASE UNCHANGED vars
    BY <1>5, <1>12 DEF vars, source
<1> QED
    BY <1>6, <1>7, <1>8, <1>9, <1>10, <1>11, <1>12 DEF Next


-----------------------------------------------------------------------------
(* Windows and the results before them *)

\* Every step keeps results behind the watermark and open windows ahead of it.
LEMMA FiredStep ==
    ASSUME BasicInv, LogGrows, StateInv, FiredInv, [Next]_vars
    PROVE  FiredInv'
<1>1. /\ Sound(position, windows, dropped)
      /\ position \in [Partitions -> Nat]
      /\ \A w \in windows : Proper(w) /\ w.events \subseteq SeenBy(position)
      /\ \A v, w \in windows : v # w => Apart(v, w)
      /\ \A w \in checkpoint.windows : Proper(w)
    BY DEF StateInv, Sound
<1>2. /\ \A r \in results : r.run \in Nat /\ r.run <= run
      /\ \A r \in results :
           r.run = run => /\ Proper(r) /\ r.end - 1 <= watermark /\ r.events \subseteq SeenBy(position)
                          /\ \A w \in windows : r.events \cap w.events = {}
      /\ \A w \in windows : w.end - 1 > watermark
    BY DEF FiredInv
<1>3. /\ \A r : Proper(r)' <=> Proper(r)
      /\ watermark \in Int /\ run \in Nat
    BY ProperStays, StreamAssumption DEF LogGrows, BasicInv, NoWatermark
<1>4. ASSUME UNCHANGED <<position, windows, results, watermark, run>>
      PROVE  FiredInv'
    BY <1>2, <1>3, <1>4 DEF FiredInv, SeenBy
<1>5. ASSUME NEW event \in Events, Arrive(event) PROVE FiredInv'
    BY <1>4, <1>5, ArriveEffect
<1>6. ASSUME NEW p \in Partitions, Read(p) PROVE FiredInv'
  <2> DEFINE m == Merged(Own(p))
  <2>1. UNCHANGED <<watermark, results, run>>
      BY <1>1, <1>6, ReadSource
  <2>2. /\ Proper(Own(p)) /\ Own(p).events = {NextId(p)} /\ NextId(p) \notin SeenBy(position)
        /\ Proper(m) /\ SeenBy(position) \subseteq SeenBy(position')
      BY <1>1, <1>6, NextWindow
  <2>3. m.events = UNION {v.events : v \in Parts(Own(p))}
      BY <1>1, <2>2, MergedSpan
  <2>4. \A v \in windows' : v \in windows \/ (v = m /\ ~(m.end - 1 <= watermark))
      BY <1>6, ReadCases
  <2>5. m.end \in Int
      BY <2>2, WindowTypes
  <2>6. ASSUME NEW r \in results, r.run = run PROVE r.events \cap m.events = {}
    <3>1. r.events \subseteq SeenBy(position) /\ \A v \in windows : r.events \cap v.events = {}
        BY <1>2, <2>6
    <3>2. \A v \in Parts(Own(p)) : r.events \cap v.events = {}
        BY <2>2, <3>1 DEF Parts, Neighbours
    <3> QED
        BY <2>3, <3>2
  <2>7. \A v \in windows' : v.end - 1 > watermark
    <3> HIDE DEF m
    <3> QED
        BY <1>2, <1>3, <2>4, <2>5
  <2>8. ASSUME NEW r \in results, r.run = run
        PROVE  /\ Proper(r) /\ r.end - 1 <= watermark /\ r.events \subseteq SeenBy(position')
               /\ \A w \in windows' : r.events \cap w.events = {}
    <3> HIDE DEF m
    <3> QED
        BY <1>2, <2>2, <2>4, <2>6, <2>8
  <2> QED
      BY <1>2, <1>3, <2>1, <2>7, <2>8 DEF FiredInv, SeenBy
<1>7. ASSUME NEW p \in Partitions, GoIdle(p) PROVE FiredInv'
    BY <1>4, <1>7 DEF GoIdle
<1>8. CASE Advance
  <2>1. PICK over \in SUBSET windows :
          /\ over = {w \in windows : IsOver(w, watermark')}
          /\ results' = results \cup {Result(w) : w \in over}
      BY <1>8, AdvanceEffect
  <2>2. /\ UNCHANGED <<position, run>> /\ watermark' > watermark /\ watermark' \in Int
        /\ windows' = {w \in windows : ~IsOver(w, watermark')}
      BY <1>8, AdvanceEffect, StreamAssumption DEF NoWatermark
  <2>3. ASSUME NEW w \in over
        PROVE  /\ Proper(Result(w)) /\ Result(w).end - 1 <= watermark' /\ Result(w).run = run
               /\ Result(w).events \subseteq SeenBy(position)
               /\ \A v \in windows' : Result(w).events \cap v.events = {}
    <3>1. /\ Result(w).start = w.start /\ Result(w).end = w.end /\ Result(w).events = w.events
          /\ Result(w).run = run
        BY DEF Result
    <3>2. Proper(w) /\ w.events \subseteq SeenBy(position) /\ IsOver(w, watermark')
        BY <1>1, <2>1
    <3>3. Proper(Result(w))
        BY <3>1, <3>2 DEF Proper
    <3>4. \A v \in windows' : w.events \cap v.events = {}
        BY <1>1, <2>1, <2>2 DEF Apart
    <3> QED
        BY <3>1, <3>2, <3>3, <3>4 DEF IsOver
  <2>4. \A w \in windows : w.end \in Int
      BY <1>1, WindowTypes
  <2>5. \A w \in windows' : w.end - 1 > watermark'
      BY <2>2, <2>4 DEF IsOver
  <2>6. ASSUME NEW r \in results', r.run = run
        PROVE  /\ Proper(r) /\ r.end - 1 <= watermark' /\ r.events \subseteq SeenBy(position)
               /\ \A w \in windows' : r.events \cap w.events = {}
    <3>1. CASE r \in results
      <4>1. /\ Proper(r) /\ r.end - 1 <= watermark /\ r.events \subseteq SeenBy(position)
            /\ \A w \in windows : r.events \cap w.events = {}
          BY <1>2, <2>6, <3>1
      <4>2. r.end \in Int
          BY <4>1, WindowTypes
      <4>3. r.end - 1 <= watermark'
          BY <1>3, <2>2, <4>1, <4>2
      <4> QED
          BY <2>2, <4>1, <4>3
    <3>2. CASE r \notin results
        BY <2>1, <2>3, <3>2
    <3> QED
        BY <3>1, <3>2
  <2>7. \A r \in results' : r.run \in Nat /\ r.run <= run
    <3>1. \A w \in over : Result(w).run = run /\ run <= run
        BY <1>3, <2>3
    <3> QED
        BY <1>2, <1>3, <2>1, <3>1
  <2> QED
      BY <1>3, <2>2, <2>5, <2>6, <2>7 DEF FiredInv, SeenBy
<1>9. CASE Checkpoint
    BY <1>4, <1>9 DEF Checkpoint, source
<1>10. CASE Restore \/ Resubmit
  <2>1. PICK state \in {checkpoint, Scratch} :
          /\ windows' = state.windows /\ results' \subseteq results
          /\ watermark' = NoWatermark /\ run' = run + 1
      BY <1>10, RestartEffect
  <2>2. \A r \in results' : r.run \in Nat /\ r.run <= run' /\ r.run # run'
      BY <1>2, <1>3, <2>1
  <2>3. \A w \in windows' : Proper(w)
      BY <1>1, <2>1 DEF Scratch
  <2>4. \A w \in windows' : w.end - 1 > NoWatermark
    <3>1. \A w \in windows' : w.end \in Int /\ w.end > 0
        BY <2>3, WindowTypes
    <3> QED
        BY <3>1, StreamAssumption DEF NoWatermark
  <2> QED
      BY <2>1, <2>2, <2>4 DEF FiredInv, NoWatermark
<1>11. CASE UNCHANGED vars
    BY <1>4, <1>11 DEF vars, source
<1> QED
    BY <1>5, <1>6, <1>7, <1>8, <1>9, <1>10, <1>11 DEF Next

\* A window and a result of its key from this run that have a time in common.
Overlap(r, w) == r.run = run /\ r.key = w.key /\ r.start < w.end /\ w.start < r.end

\* A session grows over the time of a result only by an event behind the watermark: one
\* ahead of it begins after the result's end, and meets it only through another session.
LEMMA SessionStep ==
    ASSUME BasicInv, StateInv, FiredInv, SessionInv, [Next]_vars
    PROVE  SessionInv'
<1> SUFFICES ASSUME job' = "SessionTracker", NEW r \in results', NEW w \in windows', Overlap(r, w)'
             PROVE  (r.events \cup w.events) \cap stale' # {}
    BY DEF SessionInv, Overlap
<1>1. /\ Sound(position, windows, dropped)
      /\ position \in [Partitions -> Nat]
      /\ \A v \in windows : Proper(v) /\ v.events \subseteq SeenBy(position)
      /\ \A u, v \in windows : u # v => Apart(u, v)
    BY DEF StateInv, Sound
<1>2. /\ r.run = run' /\ r.key = w.key /\ r.start < w.end /\ w.start < r.end
      /\ watermark \in Int /\ run \in Nat
    BY StreamAssumption DEF Overlap, BasicInv, NoWatermark
<1>3. ASSUME job' = job, run' = run, NEW u \in windows, r \in results, r.start < u.end, u.start < r.end,
             r.key = u.key
      PROVE  (r.events \cup u.events) \cap stale # {}
    BY <1>2, <1>3 DEF SessionInv
<1>4. ASSUME UNCHANGED <<job, windows, results, run, stale>>
      PROVE  (r.events \cup w.events) \cap stale' # {}
    BY <1>2, <1>3, <1>4
<1>5. ASSUME NEW event \in Events, Arrive(event) PROVE (r.events \cup w.events) \cap stale' # {}
    BY <1>4, <1>5, ArriveEffect
<1>6. ASSUME NEW p \in Partitions, Read(p) PROVE (r.events \cup w.events) \cap stale' # {}
  <2> DEFINE m == Merged(Own(p))
             id == NextId(p)
  <2>1. UNCHANGED <<job, watermark, results, run>>
      BY <1>1, <1>6, ReadSource
  <2>2. /\ Proper(Own(p)) /\ Own(p).events = {id} /\ id \notin SeenBy(position)
        /\ Proper(m) /\ id \in m.events
      BY <1>1, <1>6, NextWindow
  <2>3. /\ r \in results /\ Proper(r) /\ r.end - 1 <= watermark /\ r.events \subseteq SeenBy(position)
      BY <1>2, <2>1 DEF FiredInv
  <2>4. /\ r.start \in Int /\ r.end \in Int /\ r.start < r.end
        /\ Own(p).start \in Int /\ m.start \in Int /\ m.end \in Int
      BY <2>2, <2>3, WindowTypes
  <2>5. /\ stale \ {id} \subseteq stale'
        /\ \A v \in windows' : v \in windows \/ (v = m /\ ~(m.end - 1 <= watermark)
                                   /\ (TimeOf(id) <= watermark => id \in stale'))
    <3>1. CASE UNCHANGED <<windows, stale>>
        BY <3>1
    <3>2. CASE /\ ~(m.end - 1 <= watermark) /\ windows' = (windows \ Neighbours(Own(p))) \cup {m}
               /\ stale' = IF TimeOf(id) <= watermark THEN stale \cup {id} ELSE stale \ {id}
      <4> HIDE DEF m, id
      <4> QED
          BY <3>2
    <3> QED
        BY <1>6, <3>1, <3>2, ReadCases
  <2>6. CASE w \in windows
    <3>1. (r.events \cup w.events) \cap stale # {}
        BY <1>2, <1>3, <2>1, <2>3, <2>6
    <3>2. id \notin r.events \cup w.events
        BY <1>1, <2>2, <2>3, <2>6
    <3> HIDE DEF id
    <3> QED
        BY <2>5, <3>1, <3>2
  <2>7. CASE w = m /\ TimeOf(id) <= watermark /\ id \in stale'
      BY <2>2, <2>7
  <2>8. CASE w = m /\ ~(TimeOf(id) <= watermark)
    <3>1. /\ id[2] \in 1..Len(log[p]) /\ EventAt(id) = log[p][position[p] + 1] /\ id[2] = position[p] + 1
          /\ id = <<p, id[2]>> /\ TimeOf(id) \in 0..MaxTime
        BY <1>1, <1>6, ReadSource DEF NextId
    <3>2. Own(p).start = TimeOf(id)
        BY <2>1, <3>1, OwnWindow DEF Own, TimeOf
    <3>3. Own(p).start >= r.end
        BY <1>2, <2>3, <2>4, <2>8, <3>2
    <3>4. PICK v \in Parts(Own(p)) : m.start = v.start
        BY <1>1, <2>2, MergedSpan
    <3>5. v # Own(p)
        BY <1>2, <2>4, <2>8, <3>3, <3>4
    <3>6. v \in windows /\ v.key = Own(p).key
        BY <3>4, <3>5 DEF Parts, Neighbours, Joins
    <3>7. m.key = Own(p).key /\ v.events \subseteq m.events
        BY <1>1, <2>2, <3>4, MergedSpan
    <3>8. v.end - 1 > watermark /\ v.end \in Int
        BY <1>1, <3>6, WindowTypes DEF FiredInv
    <3>9. r.start < v.end
        BY <1>2, <2>3, <2>4, <3>8
    <3>10. (r.events \cup v.events) \cap stale # {}
        BY <1>2, <1>3, <2>1, <2>3, <2>8, <3>4, <3>6, <3>7, <3>9
    <3>11. id \notin r.events \cup v.events
        BY <1>1, <2>2, <2>3, <3>6
    <3> HIDE DEF id, m
    <3> QED
        BY <2>5, <2>8, <3>7, <3>10, <3>11
  <2> HIDE DEF id, m
  <2> QED
      BY <2>5, <2>6, <2>7, <2>8
<1>7. ASSUME NEW p \in Partitions, GoIdle(p) PROVE (r.events \cup w.events) \cap stale' # {}
    BY <1>4, <1>7 DEF GoIdle
<1>8. CASE Advance
  <2>1. PICK over \in SUBSET windows :
          /\ over = {u \in windows : IsOver(u, watermark')}
          /\ results' = results \cup {Result(u) : u \in over}
      BY <1>8, AdvanceEffect
  <2>2. /\ UNCHANGED <<job, run, stale>>
        /\ windows' = {u \in windows : ~IsOver(u, watermark')}
      BY <1>8, AdvanceEffect
  <2>3. CASE r \in results
      BY <1>2, <1>3, <2>2, <2>3
  <2>4. ASSUME NEW u \in over, r = Result(u) PROVE FALSE
    <3>1. r.start = u.start /\ r.end = u.end /\ r.key = u.key
        BY <2>4 DEF Result
    <3>2. u \in windows /\ w \in windows /\ u # w
        BY <2>1, <2>2
    <3>3. ~(u.start <= w.end /\ w.start <= u.end)
        BY <1>1, <1>2, <2>2, <3>1, <3>2 DEF Apart, Joins
    <3>4. u.start \in Int /\ u.end \in Int /\ w.start \in Int /\ w.end \in Int
        BY <1>1, <3>2, WindowTypes
    <3> QED
        BY <1>2, <3>1, <3>3, <3>4
  <2> QED
      BY <2>1, <2>3, <2>4
<1>9. CASE Checkpoint
    BY <1>4, <1>9 DEF Checkpoint, history
<1>10. CASE Restore \/ Resubmit
  <2>1. results' \subseteq results /\ run' = run + 1
      BY <1>10, RestartEffect
  <2>2. r.run \in Nat /\ r.run <= run
      BY <2>1 DEF FiredInv
  <2> QED
      BY <1>2, <2>1, <2>2
<1>11. CASE UNCHANGED vars
    BY <1>4, <1>11 DEF vars, history
<1> QED
    BY <1>5, <1>6, <1>7, <1>8, <1>9, <1>10, <1>11 DEF Next

-----------------------------------------------------------------------------
(* Theorems *)

\* The invariant holds initially.
LEMMA InitInv ==
    ASSUME Init
    PROVE  Inv
<1>1. /\ job \in Jobs /\ log = [p \in Partitions |-> <<>>] /\ position = [p \in Partitions |-> 0]
      /\ latest = [p \in Partitions |-> -1] /\ idle = {} /\ idled = {} /\ watermark = NoWatermark
      /\ windows = {} /\ results = {} /\ unflushed = {} /\ checkpoint = Scratch /\ run = 0
      /\ dropped = {}
    BY DEF Init
<1>2. <<>> \in Seq(Events) /\ Len(<<>>) = 0
    OBVIOUS
<1>3. BasicInv
    BY <1>1, <1>2, StreamAssumption DEF BasicInv, NoWatermark
<1>4. \A p \in Partitions : latest[p] = -1 /\ SplitWatermark(p) = NoWatermark
    BY <1>1 DEF SplitWatermark
<1>5. SourceInv
    BY <1>1, <1>4, StreamAssumption DEF SourceInv, NoWatermark
<1>6. position = Scratch.position /\ windows = Scratch.windows /\ dropped = Scratch.dropped
    BY <1>1 DEF Scratch
<1>7. StateInv
    BY <1>1, <1>3, <1>6, ScratchSound DEF StateInv
<1>8. AccountInv
    BY <1>1, <1>3, <1>6, ScratchSound DEF AccountInv, Accounted
<1>9. FiredInv /\ SessionInv
    BY <1>1 DEF FiredInv, SessionInv
<1> QED
    BY <1>3, <1>5, <1>7, <1>8, <1>9 DEF Inv

\* Every step keeps the invariant.
LEMMA StepInv ==
    ASSUME Inv, [Next]_vars
    PROVE  Inv'
<1>1. BasicInv /\ SourceInv /\ StateInv /\ AccountInv /\ FiredInv /\ SessionInv
    BY DEF Inv
<1>2. position \in [Partitions -> Nat] /\ \A p \in Partitions : position[p] <= Len(log[p])
    BY <1>1 DEF StateInv, Sound
<1>3. BasicInv' /\ LogGrows /\ idled \subseteq idled'
    BY <1>1, <1>2, BasicStep
<1>4. SourceInv'
    BY <1>1, <1>2, <1>3, SourceStep
<1>5. StateInv'
    BY <1>1, <1>3, StateStep
<1>6. AccountInv' /\ FiredInv' /\ SessionInv'
    BY <1>1, <1>3, AccountStep, FiredStep, SessionStep
<1> QED
    BY <1>3, <1>4, <1>5, <1>6 DEF Inv

\* The inductive invariant: offsets, windows and drops hang together, in the job and in
\* the checkpoint; what the checkpoint has not is flushed; windows are ahead of the
\* watermark and the results of the run behind it.
THEOREM StreamInvariance == Spec => []Inv
<1>1. Init => Inv
    BY InitInv
<1>2. Inv /\ [Next]_vars => Inv'
    BY StepInv
<1> QED
    BY <1>1, <1>2, PTL DEF Spec

\* Every variable keeps its type: offsets stay in the log, the watermark between none
\* and the last timestamp less the delay, and only events that were read are dropped.
THEOREM StreamTyped == Spec => []TypeOK
<1>1. ASSUME Inv PROVE TypeOK
  <2>1. /\ BasicInv /\ position \in [Partitions -> Nat]
        /\ \A p \in Partitions : position[p] <= Len(log[p])
        /\ dropped \subseteq SeenBy(position)
      BY <1>1 DEF Inv, StateInv, Sound
  <2>2. ASSUME NEW p \in Partitions PROVE log[p] \in Seq(Events) /\ position[p] \in 0..Len(log[p])
    <3>1. log[p] \in Seq(Events) /\ Len(log[p]) \in Nat /\ position[p] \in Nat
        BY <2>1, LenProperties DEF BasicInv
    <3> QED
        BY <2>1, <3>1
  <2>3. DOMAIN log = Partitions
      BY <2>1 DEF BasicInv
  <2> QED
      BY <2>1, <2>2, <2>3, SeenIs DEF TypeOK, BasicInv
<1> QED
    BY <1>1, StreamInvariance, PTL

\* No event is lost between offsets, windows, results and drops, whatever a failure
\* takes of the results that are not flushed and wherever the job starts again.
THEOREM NoEventLost == Spec => []EventsAccounted
<1>1. ASSUME Inv PROVE EventsAccounted
    BY <1>1, SeenIs DEF Inv, AccountInv, Accounted, EventsAccounted
<1> QED
    BY <1>1, StreamInvariance, PTL

\* An event is dropped only behind a much newer one of its partition, or if the
\* partition was left out of the watermark for a while.
THEOREM DropsHaveACause == Spec => []LateOnlyIfBehind
<1>1. ASSUME Inv PROVE LateOnlyIfBehind
  <2>1. \A id \in dropped : Overtaken(id)
      BY <1>1 DEF Inv, StateInv, Sound
  <2> QED
      BY <2>1 DEF Overtaken, LateOnlyIfBehind
<1> QED
    BY <1>1, StreamInvariance, PTL

\* A time whose result is out is not counted again in the run, but for a session that
\* took in an event from behind the watermark: of tumbling windows, one that shares a
\* time with the result would be the same, and so would be behind the watermark.
THEOREM ResultsAreFinal == Spec => []NotReopened
<1>1. ASSUME Inv PROVE NotReopened
  <2>1. /\ \A w \in windows : Proper(w) /\ w.end - 1 > watermark
        /\ \A r \in results : r.run = run => Proper(r) /\ r.end - 1 <= watermark
        /\ watermark \in Int
      BY <1>1, StreamAssumption DEF Inv, StateInv, Sound, FiredInv, BasicInv, NoWatermark
  <2>2. SUFFICES ASSUME NEW r \in results, NEW w \in windows, r.run = run, r.key = w.key,
                        r.start < w.end, w.start < r.end
                 PROVE  job = "SessionTracker" /\ (r.events \cup w.events) \cap stale # {}
      BY DEF NotReopened
  <2>3. CASE job = "SessionTracker"
      BY <1>1, <2>2, <2>3 DEF Inv, SessionInv
  <2>4. CASE job # "SessionTracker"
    <3>1. Proper(r) /\ Proper(w)
        BY <2>1, <2>2
    <3>2. r.end = w.end
        BY <2>2, <2>4, <3>1, TumblingApart
    <3>3. w.end \in Int
        BY <3>1, WindowTypes
    <3>4. w.end - 1 > watermark /\ r.end - 1 <= watermark
        BY <2>1, <2>2
    <3> QED
        BY <2>1, <3>2, <3>3, <3>4
  <2> QED
      BY <2>3, <2>4
<1> QED
    BY <1>1, StreamInvariance, PTL
=============================================================================
