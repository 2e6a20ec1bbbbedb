---------------------------- MODULE StorageProofs ----------------------------
(***************************************************************************)
(* Proofs about StorageProcessor, for any topics, batch size, number of    *)
(* attempts and of insert slots, any log and any number of runs.           *)
(***************************************************************************)
EXTENDS StorageProcessor, SequenceTheorems, FiniteSetTheorems, TLAPS

-----------------------------------------------------------------------------
(* The inductive invariant *)

Running == loop # "stopped"

\* An insert goes on as long as it has an attempt left.
AttemptInv ==
    \A t \in Topics : task[t] \in {"new", "waiting", "insert", "backoff"} => attempts[t] < MaxAttempts

\* A loop that has ended does nothing more, and one that runs belongs to a process.
PhaseInv ==
    /\ proc = "down" => loop = "stopped" /\ requests = <<>>
    /\ loop \in {"inserts", "commit"} => buffers = Empty

\* A poll goes no further than the log, nor does a commit.
LogInv ==
    /\ \A t \in Topics : Len(log[t]) <= MaxLog
    /\ \A t \in Topics : position[t] <= Len(log[t]) /\ committed[t] <= Len(log[t])
    /\ \A i \in DOMAIN requests : \A t \in Topics : requests[i][t] <= Len(log[t])

\* Offsets in the order they were sent: at the broker, on their way, at the client.
OrderInv ==
    /\ \A i, j \in DOMAIN requests :
           i < j => \A t \in Topics : requests[i][t] <= requests[j][t]
    /\ \A i \in DOMAIN requests : \A t \in Topics : committed[t] <= requests[i][t]
    /\ Running => \A t \in Topics : committed[t] <= position[t]
    /\ Running => \A i \in DOMAIN requests : \A t \in Topics : requests[i][t] <= position[t]

\* A row that needs no further insert.
Settled(r) == copies[r] > 0 \/ r \in forsaken \cup dropped

\* All rows in front of the offsets are settled.
Covers(offsets) == \A r \in Rows : r.index <= offsets[r.topic] => Settled(r)

\* What a task has come to.
TaskInv ==
    loop = "inserts" =>
        \A t \in Topics :
            /\ task[t] = "none" => batches[t] = {}
            /\ task[t] = "stored" => \A r \in batches[t] : copies[r] > 0
            /\ task[t] \in {"skipped", "failed"} => failed

\* A row behind the client's position is settled, or waits in the buffers or in the
\* batches of the cycle; at a commit none waits.
ReadInv ==
    Running =>
        \A r \in Rows :
            r.index <= position[r.topic] =>
                \/ Settled(r)
                \/ r \in buffers[r.topic]
                \/ loop = "inserts" /\ r \in batches[r.topic]

\* No commit covers a row that is not settled.
CommitInv == Covers(committed) /\ \A i \in DOMAIN requests : Covers(requests[i])

\* An insert that goes on.
Active(t) == task[t] \in {"new", "waiting", "insert", "backoff"}

\* A record this process has not tried to insert.
Fresh(r) == r.index > position[r.topic] \/ r \in buffers[r.topic]

\* Buffers and batches hold records of their topic, from behind the position.
HeldInv ==
    /\ \A t \in Topics : \A r \in buffers[t] \cup batches[t] : r.topic = t
    /\ \A t \in Topics : \A r \in buffers[t] : r.index <= position[t]
    /\ proc = "down" => buffers = Empty
    /\ \A t \in Topics :
           Active(t) => loop = "inserts" /\ \A r \in batches[t] : r.index <= position[t]

\* What r has in ClickHouse from the processes before this one, n attempts of it added.
Before(r, n) == copies[r] <= runs - 1 + lost /\ copies[r] <= MaxAttempts * (runs - 1) + n

\* Each process adds one copy and one for every insert that raised all the same,
\* within its attempts.
CountInv ==
    /\ CopiesBounded
    /\ \A r \in Records : Fresh(r) => Before(r, 0)
    /\ \A t \in Topics : Active(t) => \A r \in batches[t] : Before(r, attempts[t])

IInv ==
    /\ TypeOK /\ AttemptInv /\ PhaseInv /\ LogInv
    /\ OrderInv /\ TaskInv /\ ReadInv /\ CommitInv
    /\ HeldInv /\ CountInv

-----------------------------------------------------------------------------
(* Types *)

\* The initial state satisfies the inductive invariant.
LEMMA InitInv == Init => IInv
<1> SUFFICES ASSUME Init PROVE IInv
    OBVIOUS
<1> USE StorageAssumption DEF Init
<1>1. TypeOK
  <2>1. log \in [Topics -> Seq(Kinds)] /\ requests \in Seq(Offsets)
      OBVIOUS
  <2>2. committed \in Offsets /\ position \in Offsets
      BY DEF Offsets
  <2>3. copies \in [Records -> Nat] /\ attempts \in [Topics -> 0..MaxAttempts]
      OBVIOUS
  <2>4. buffers \in [Topics -> SUBSET Records] /\ batches \in [Topics -> SUBSET Records]
      BY DEF Empty
  <2>5. task \in [Topics -> TaskStates] /\ loop \in LoopStates
      BY DEF TaskStates, LoopStates
  <2>6. runs \in 1..MaxRuns /\ signals \in 0..2 /\ lost \in 0..MaxLost
      OBVIOUS
  <2>7. failed \in BOOLEAN /\ proc \in {"up", "down"}
      OBVIOUS
  <2>8. forsaken \in SUBSET Records /\ dropped \in SUBSET Records
      OBVIOUS
  <2> QED
      BY <2>1, <2>2, <2>3, <2>4, <2>5, <2>6, <2>7, <2>8 DEF TypeOK
<1>2. AttemptInv /\ PhaseInv /\ LogInv /\ OrderInv /\ TaskInv
    BY DEF AttemptInv, PhaseInv, LogInv, OrderInv, TaskInv
<1>3. Rows = {}
    BY DEF Rows, LogRecords, Records
<1>4. ReadInv /\ CommitInv
    BY <1>3 DEF ReadInv, CommitInv, Covers
<1>5. HeldInv
    BY DEF HeldInv, Empty, Active
<1>6. CountInv
  <2>1. MaxAttempts * 1 \in Nat /\ MaxAttempts * 0 = 0
      OBVIOUS
  <2> QED
      BY <2>1 DEF CountInv, CopiesBounded, Before, Active
<1> QED
    BY <1>1, <1>2, <1>4, <1>5, <1>6 DEF IInv

\* A poll moves the position within the log, and what it returns are records.
LEMMA PolledRecords ==
    ASSUME TypeOK, LogInv, NEW n \in Polls
    PROVE  /\ Forward(n) \in Offsets
           /\ \A t \in Topics : position[t] <= Forward(n)[t] /\ Forward(n)[t] <= Len(log[t])
           /\ \A t \in Topics : Parsed(t, n[t]) \subseteq Records
           /\ Buffered(n) \in [Topics -> SUBSET Records]
<1> USE StorageAssumption
<1>1. n \in [Topics -> 0..BatchSize] /\ \A t \in Topics : n[t] <= Len(log[t]) - position[t]
    BY DEF Polls
<1>2. ASSUME NEW t \in Topics
      PROVE  /\ n[t] \in Nat /\ position[t] \in Nat /\ Len(log[t]) \in Nat
             /\ Len(log[t]) <= MaxLog
    BY <1>1, <1>2 DEF TypeOK, Offsets, LogInv
<1>3. ASSUME NEW t \in Topics
      PROVE  position[t] + n[t] \in 0..MaxLog /\ position[t] + n[t] <= Len(log[t])
    BY <1>1, <1>2
<1>4. ASSUME NEW t \in Topics PROVE Parsed(t, n[t]) \subseteq Records
  <2>1. ASSUME NEW i \in (position[t] + 1)..(position[t] + n[t])
        PROVE  [topic |-> t, index |-> i] \in Records
      BY <1>2, <1>3 DEF Records
  <2> QED
      BY <2>1 DEF Parsed, Polled
<1>5. Buffered(n) \in [Topics -> SUBSET Records]
    BY <1>4 DEF Buffered, TypeOK
<1> QED
    BY <1>2, <1>3, <1>4, <1>5 DEF Forward, Offsets

\* The points of the loop a cycle can end at.
LEMMA CycleEnds ==
    /\ LoopHead \in {"poll", "stopped"}
    /\ AfterCycle \in {"poll", "sleep", "stopped"}
BY DEF LoopHead, AfterCycle

\* Inserts only add copies.
LEMMA RowsAdded ==
    ASSUME TypeOK, NEW T \in SUBSET Topics
    PROVE  /\ WithRows(T) \in [Records -> Nat]
           /\ \A r \in Records : copies[r] <= WithRows(T)[r]
           /\ \A t \in T : \A r \in batches[t] : WithRows(T)[r] > 0
<1> USE DEF TypeOK
<1>1. \A t \in T : batches[t] \subseteq Records
    OBVIOUS
<1>2. \A r \in Records : copies[r] \in Nat
    OBVIOUS
<1> QED
    BY <1>1, <1>2 DEF WithRows

\* An empty cycle is well typed.
LEMMA NoCycleType ==
    ASSUME NoCycle
    PROVE  /\ batches' \in [Topics -> SUBSET Records] /\ task' \in [Topics -> TaskStates]
           /\ attempts' \in [Topics -> 0..MaxAttempts] /\ failed' \in BOOLEAN
<1>1. batches' \in [Topics -> SUBSET Records] /\ task' \in [Topics -> TaskStates]
    BY DEF NoCycle, Empty, TaskStates
<1>2. attempts' \in [Topics -> 0..MaxAttempts]
    BY StorageAssumption DEF NoCycle
<1>3. failed' \in BOOLEAN
    BY DEF NoCycle
<1> QED
    BY <1>1, <1>2, <1>3

\* Every step keeps the types.
LEMMA TypeStep == TypeOK /\ LogInv /\ AttemptInv /\ [Next]_vars => TypeOK' /\ AttemptInv'
<1> SUFFICES ASSUME TypeOK, LogInv, AttemptInv, [Next]_vars PROVE TypeOK' /\ AttemptInv'
    OBVIOUS
<1> USE StorageAssumption
    DEF TypeOK, AttemptInv, external, process, intake, cycle, givenUp, history
<1>1. ASSUME NEW t \in Topics, NEW kind \in Kinds, Produce(t, kind) PROVE TypeOK' /\ AttemptInv'
    BY <1>1 DEF Produce
<1>2. CASE BrokerCommits
    BY <1>2 DEF BrokerCommits
<1>3. CASE CommitLost
    BY <1>3 DEF CommitLost
<1>4. ASSUME NoCycle PROVE AttemptInv'
    BY <1>4 DEF NoCycle
<1>5. CASE ConsumeNothing
    BY <1>4, <1>5, NoCycleType DEF ConsumeNothing, LoopStates
<1>6. CASE ConsumeBatch
  <2>1. position' \in Offsets /\ batches' \in [Topics -> SUBSET Records]
      BY <1>6, PolledRecords DEF ConsumeBatch
  <2>2. buffers' \in [Topics -> SUBSET Records] /\ loop' \in LoopStates
      BY <1>6 DEF ConsumeBatch, Empty, LoopStates
  <2>3. task' \in [Topics -> TaskStates] /\ attempts' = [t \in Topics |-> 0] /\ failed' = FALSE
      BY <1>6 DEF ConsumeBatch, TaskStates
  <2>4. attempts' \in [Topics -> 0..MaxAttempts] /\ AttemptInv'
      BY <2>3
  <2>5. failed' \in BOOLEAN
      BY <2>3, Zenon
  <2>6. UNCHANGED <<external, process, requests, history>>
      BY <1>6 DEF ConsumeBatch
  <2> QED
      BY <2>1, <2>2, <2>3, <2>4, <2>5, <2>6
<1>7. CASE ConsumeRaises
  <2>1. PICK n \in Polls, m \in Polls :
            /\ position' = Forward(n)
            /\ buffers' = Buffered(m)
            /\ dropped' = dropped \cup UNION {Parsed(t, n[t]) \ Parsed(t, m[t]) : t \in Topics}
      BY <1>7 DEF ConsumeRaises
  <2>2. position' \in Offsets /\ buffers' \in [Topics -> SUBSET Records] /\ dropped' \in SUBSET Records
      BY <2>1, PolledRecords
  <2> QED
      BY <1>4, <1>7, <2>2, NoCycleType DEF ConsumeRaises, LoopStates
<1>8. ASSUME NEW t \in Topics, TaskBegins(t) \/ TaskAcquires(t) \/ BackoffOver(t)
      PROVE  TypeOK' /\ AttemptInv'
    BY <1>8 DEF TaskBegins, TaskAcquires, BackoffOver, TaskStates
<1>9. ASSUME NEW t \in Topics, InsertOk(t) PROVE TypeOK' /\ AttemptInv'
  <2>1. copies' \in [Records -> Nat]
      BY <1>9, RowsAdded DEF InsertOk
  <2> QED
      BY <1>9, <2>1 DEF InsertOk, TaskStates
<1>10. ASSUME NEW t \in Topics, InsertRaises(t) PROVE TypeOK' /\ AttemptInv'
  <2>1. copies' \in [Records -> Nat] /\ lost' \in 0..MaxLost
      BY <1>10, RowsAdded DEF InsertRaises, NotExecuted, ReplyLost
  <2>2. attempts' \in [Topics -> 0..MaxAttempts]
      BY <1>10 DEF InsertRaises
  <2>3. task' \in [Topics -> TaskStates] /\ failed' \in BOOLEAN
      BY <1>10, Zenon DEF InsertRaises, TaskStates
  <2>4. AttemptInv'
      BY <1>10, <2>2 DEF InsertRaises
  <2> QED
      BY <1>10, <2>1, <2>2, <2>3, <2>4 DEF InsertRaises
<1>11. CASE GatherToCommit
    BY <1>11 DEF GatherToCommit, LoopStates
<1>12. CASE GatherFailed
    BY <1>12, CycleEnds DEF GatherFailed, LoopStates
<1>13. CASE CommitSent
    BY <1>13, CycleEnds DEF CommitSent, LoopStates
<1>14. CASE CommitRaises
    BY <1>14, CycleEnds DEF CommitRaises, LoopStates
<1>15. CASE SleepOver
    BY <1>4, <1>15, CycleEnds, NoCycleType DEF SleepOver, LoopStates
<1>16. CASE DrainSignal
    BY <1>16 DEF DrainSignal
<1>17. CASE CancelSignal
  <2>1. copies' \in [Records -> Nat]
      BY <1>17, RowsAdded DEF CancelSignal
  <2>2. requests' = requests \/ requests' = Append(requests, position)
      BY <1>17 DEF CancelSignal
  <2>3. requests' \in Seq(Offsets)
    <3>1. requests \in Seq(Offsets) /\ Append(requests, position) \in Seq(Offsets)
        BY AppendProperties
    <3> QED
        BY <2>2, <3>1, Zenon
  <2> QED
      BY <1>4, <1>17, <2>1, <2>3, NoCycleType DEF CancelSignal, LoopStates
<1>18. ASSUME Vanish PROVE TypeOK' /\ AttemptInv'
  <2>1. buffers' \in [Topics -> SUBSET Records] /\ requests' \in Seq(Offsets)
      BY <1>18 DEF Vanish, Empty
  <2> QED
      BY <1>4, <1>18, <2>1, NoCycleType DEF Vanish, LoopStates
<1>19. CASE Restart
    BY <1>19 DEF Restart, LoopStates
<1>20. CASE UNCHANGED vars
    BY <1>20 DEF vars
<1> QED
    BY <1>1, <1>2, <1>3, <1>5, <1>6, <1>7, <1>8, <1>9, <1>10, <1>11, <1>12, <1>13, <1>14,
       <1>15, <1>16, <1>17, <1>18, <1>19, <1>20 DEF Next, LoopStep, TaskStep, Exit, Crash

-----------------------------------------------------------------------------
(* Phases, tasks and the log *)

\* Every step keeps the phases of the loop.
LEMMA PhaseStep == TypeOK /\ PhaseInv /\ [Next]_vars => PhaseInv'
<1> SUFFICES ASSUME TypeOK, PhaseInv, [Next]_vars PROVE PhaseInv'
    OBVIOUS
<1> USE DEF PhaseInv, external, process, intake, cycle, givenUp, history
<1>1. ASSUME NEW t \in Topics, NEW kind \in Kinds, Produce(t, kind) PROVE PhaseInv'
    BY <1>1 DEF Produce
<1>2. CASE BrokerCommits \/ CommitLost
    BY <1>2 DEF BrokerCommits, CommitLost
<1>3. CASE ConsumeNothing \/ ConsumeBatch \/ ConsumeRaises
    BY <1>3 DEF ConsumeNothing, ConsumeBatch, ConsumeRaises
<1>4. ASSUME NEW t \in Topics, TaskStep(t) PROVE PhaseInv'
    BY <1>4 DEF TaskStep, TaskBegins, TaskAcquires, InsertOk, InsertRaises, BackoffOver
<1>5. CASE GatherToCommit
    BY <1>5 DEF GatherToCommit
<1>6. CASE GatherFailed
    BY <1>6, CycleEnds DEF GatherFailed
<1>7. CASE CommitSent
    BY <1>7, CycleEnds DEF CommitSent
<1>8. CASE CommitRaises
    BY <1>8, CycleEnds DEF CommitRaises
<1>9. CASE SleepOver
    BY <1>9, CycleEnds DEF SleepOver
<1>10. CASE DrainSignal \/ CancelSignal
    BY <1>10 DEF DrainSignal, CancelSignal
<1>11. CASE Exit \/ Crash
    BY <1>11 DEF Exit, Crash, Vanish
<1>12. CASE Restart
    BY <1>12 DEF Restart
<1>13. CASE UNCHANGED vars
    BY <1>13 DEF vars
<1> QED
    BY <1>1, <1>2, <1>3, <1>4, <1>5, <1>6, <1>7, <1>8, <1>9, <1>10, <1>11, <1>12, <1>13
       DEF Next, LoopStep

\* Rows get into ClickHouse by inserts only, and no step forgets what was given up.
LEMMA CopiesFrom ==
    ASSUME [Next]_vars
    PROVE  /\ copies' = copies \/ \E T \in SUBSET Topics : copies' = WithRows(T)
           /\ forsaken \subseteq forsaken' /\ dropped \subseteq dropped'
<1> DEFINE Goal == /\ copies' = copies \/ \E T \in SUBSET Topics : copies' = WithRows(T)
                   /\ forsaken \subseteq forsaken' /\ dropped \subseteq dropped'
<1> USE DEF external, process, intake, cycle, givenUp, history
<1>1. ASSUME NEW t \in Topics, NEW kind \in Kinds, Produce(t, kind) PROVE Goal
    BY <1>1 DEF Produce
<1>2. CASE BrokerCommits \/ CommitLost
    BY <1>2 DEF BrokerCommits, CommitLost
<1>3. CASE ConsumeNothing \/ ConsumeBatch \/ ConsumeRaises
    BY <1>3 DEF ConsumeNothing, ConsumeBatch, ConsumeRaises
<1>4. ASSUME NEW t \in Topics, TaskBegins(t) \/ TaskAcquires(t) \/ BackoffOver(t) PROVE Goal
    BY <1>4 DEF TaskBegins, TaskAcquires, BackoffOver
<1>5. ASSUME NEW t \in Topics, InsertOk(t) \/ InsertRaises(t) PROVE Goal
  <2>1. /\ copies' = copies \/ copies' = WithRows({t})
        /\ forsaken' = forsaken /\ dropped' = dropped
      BY <1>5 DEF InsertOk, InsertRaises, NotExecuted, ReplyLost
  <2> QED
      BY <2>1
<1>6. CASE GatherToCommit \/ GatherFailed \/ CommitSent \/ CommitRaises \/ SleepOver
    BY <1>6 DEF GatherToCommit, GatherFailed, CommitSent, CommitRaises, SleepOver
<1>7. CASE DrainSignal
    BY <1>7 DEF DrainSignal
<1>8. CASE CancelSignal
  <2>1. PICK T \in SUBSET {t \in Topics : task[t] = "insert" /\ Insertable(t)} : copies' = WithRows(T)
      BY <1>8 DEF CancelSignal
  <2>2. T \in SUBSET Topics /\ forsaken' = forsaken /\ dropped' = dropped
      BY <1>8 DEF CancelSignal
  <2> QED
      BY <2>1, <2>2
<1>9. CASE Exit \/ Crash \/ Restart
    BY <1>9 DEF Exit, Crash, Vanish, Restart
<1>10. CASE UNCHANGED vars
    BY <1>10 DEF vars
<1> QED
    BY <1>1, <1>2, <1>3, <1>4, <1>5, <1>6, <1>7, <1>8, <1>9, <1>10
       DEF Next, LoopStep, TaskStep

\* So ClickHouse holds no row less often than before.
LEMMA CopiesGrow ==
    ASSUME TypeOK, [Next]_vars, NEW r \in Records
    PROVE  copies[r] \in Nat /\ copies'[r] \in Nat /\ copies[r] <= copies'[r]
<1>1. copies[r] \in Nat
    BY DEF TypeOK
<1>2. CASE copies' = copies
    BY <1>1, <1>2
<1>3. ASSUME NEW T \in SUBSET Topics, copies' = WithRows(T)
      PROVE  copies'[r] \in Nat /\ copies[r] <= copies'[r]
    BY <1>3, RowsAdded
<1> QED
    BY <1>1, <1>2, <1>3, CopiesFrom

\* What is settled stays settled.
LEMMA SettledStays ==
    ASSUME TypeOK, [Next]_vars, NEW r \in Records, Settled(r)
    PROVE  Settled(r)'
<1>1. CASE copies[r] > 0
    BY <1>1, CopiesGrow DEF Settled
<1>2. CASE r \in forsaken \cup dropped
    BY <1>2, CopiesFrom DEF Settled
<1> QED
    BY <1>1, <1>2 DEF Settled

\* A log only grows: by one record of one topic, or not at all.
LEMMA LogGrows ==
    ASSUME TypeOK, LogInv, [Next]_vars
    PROVE  \/ log' = log
           \/ \E t \in Topics, kind \in Kinds :
                 Len(log[t]) < MaxLog /\ log' = [log EXCEPT ![t] = Append(@, kind)]
<1> USE DEF external, process, intake, cycle, givenUp, history
<1>1. ASSUME NEW t \in Topics, NEW kind \in Kinds, Produce(t, kind)
      PROVE  Len(log[t]) < MaxLog /\ log' = [log EXCEPT ![t] = Append(@, kind)]
    BY <1>1 DEF Produce
<1>2. CASE BrokerCommits \/ CommitLost
    BY <1>2 DEF BrokerCommits, CommitLost
<1>3. CASE LoopStep
    BY <1>3 DEF LoopStep, ConsumeNothing, ConsumeBatch, ConsumeRaises, GatherToCommit,
       GatherFailed, CommitSent, CommitRaises, SleepOver
<1>4. ASSUME NEW t \in Topics, TaskStep(t) PROVE log' = log
    BY <1>4 DEF TaskStep, TaskBegins, TaskAcquires, InsertOk, InsertRaises, BackoffOver
<1>5. CASE DrainSignal \/ CancelSignal
    BY <1>5 DEF DrainSignal, CancelSignal
<1>6. CASE Exit \/ Crash \/ Restart
    BY <1>6 DEF Exit, Crash, Vanish, Restart
<1>7. CASE UNCHANGED vars
    BY <1>7 DEF vars
<1> QED
    BY <1>1, <1>2, <1>3, <1>4, <1>5, <1>6, <1>7 DEF Next

\* So no log gets shorter, and what it holds stays what it is.
LEMMA LogKept ==
    ASSUME TypeOK, LogInv, [Next]_vars, NEW t \in Topics
    PROVE  /\ Len(log[t]) <= Len(log'[t]) /\ Len(log'[t]) <= MaxLog
           /\ \A i \in 1..Len(log[t]) : log'[t][i] = log[t][i]
<1>1. log \in [Topics -> Seq(Kinds)] /\ log[t] \in Seq(Kinds) /\ Len(log[t]) \in Nat
      /\ Len(log[t]) <= MaxLog
    BY DEF TypeOK, LogInv
<1>2. CASE log' = log
    BY <1>1, <1>2
<1>3. ASSUME NEW u \in Topics, NEW kind \in Kinds, Len(log[u]) < MaxLog,
             log' = [log EXCEPT ![u] = Append(@, kind)]
      PROVE  /\ Len(log[t]) <= Len(log'[t]) /\ Len(log'[t]) <= MaxLog
             /\ \A i \in 1..Len(log[t]) : log'[t][i] = log[t][i]
  <2>1. CASE t = u
    <3>1. log'[t] = Append(log[t], kind)
        BY <1>1, <1>3, <2>1
    <3>2. Len(log'[t]) = Len(log[t]) + 1 /\ \A i \in 1..Len(log[t]) : log'[t][i] = log[t][i]
        BY <1>1, <3>1, AppendProperties
    <3> QED
        BY <1>1, <1>3, <2>1, <3>2, StorageAssumption
  <2>2. CASE t # u
    <3>1. log'[t] = log[t]
        BY <1>1, <1>3, <2>2
    <3> QED
        BY <1>1, <3>1
  <2> QED
      BY <2>1, <2>2
<1> QED
    BY <1>2, <1>3, LogGrows

\* A row of the new state was one before the step, or is the new end of its log.
LEMMA KnownRows ==
    ASSUME TypeOK, LogInv, [Next]_vars, NEW r \in Rows'
    PROVE  r \in Records /\ (r \in Rows \/ r.index > Len(log[r.topic]))
<1>1. r \in Records /\ r.index <= Len(log'[r.topic]) /\ log'[r.topic][r.index] \in {"fit", "unfit"}
    BY DEF Rows, LogRecords, IsRow, KindOf
<1>2. r.topic \in Topics /\ r.index \in 1..MaxLog /\ Len(log[r.topic]) \in Nat
    BY <1>1, StorageAssumption DEF Records, TypeOK
<1>3. ASSUME r.index <= Len(log[r.topic]) PROVE r \in Rows
  <2>1. log'[r.topic][r.index] = log[r.topic][r.index]
      BY <1>2, <1>3, LogKept
  <2> QED
      BY <1>1, <1>3, <2>1 DEF Rows, LogRecords, IsRow, KindOf
<1> QED
    BY <1>1, <1>2, <1>3

\* Offsets at the broker come from requests, and requests from the client's position.
LEMMA OffsetsFrom ==
    ASSUME TypeOK, [Next]_vars
    PROVE  \/ committed' = committed /\ requests' = requests
           \/ /\ requests # <<>>
              /\ committed' = committed \/ committed' = Head(requests)
              /\ requests' = Tail(requests)
           \/ loop = "commit" /\ committed' = committed /\ requests' = Append(requests, position)
           \/ committed' = committed /\ requests' = <<>>
<1> USE DEF external, process, intake, cycle, givenUp, history
<1>1. ASSUME NEW t \in Topics, NEW kind \in Kinds, Produce(t, kind)
      PROVE  committed' = committed /\ requests' = requests
    BY <1>1 DEF Produce
<1>2. CASE BrokerCommits \/ CommitLost
    BY <1>2 DEF BrokerCommits, CommitLost
<1>3. CASE LoopStep
    BY <1>3 DEF LoopStep, ConsumeNothing, ConsumeBatch, ConsumeRaises, GatherToCommit,
       GatherFailed, CommitSent, CommitRaises, SleepOver
<1>4. ASSUME NEW t \in Topics, TaskStep(t) PROVE committed' = committed /\ requests' = requests
    BY <1>4 DEF TaskStep, TaskBegins, TaskAcquires, InsertOk, InsertRaises, BackoffOver
<1>5. CASE DrainSignal \/ CancelSignal
    BY <1>5 DEF DrainSignal, CancelSignal
<1>6. CASE Exit \/ Crash \/ Restart
    BY <1>6 DEF Exit, Crash, Vanish, Restart
<1>7. CASE UNCHANGED vars
    BY <1>7 DEF vars
<1> QED
    BY <1>1, <1>2, <1>3, <1>4, <1>5, <1>6, <1>7 DEF Next

\* So every request of the new state was one before, or is the position of a commit.
LEMMA RequestsFrom ==
    ASSUME TypeOK, [Next]_vars
    PROVE  /\ committed' = committed \/ (1 \in DOMAIN requests /\ committed' = requests[1])
           /\ \A i \in DOMAIN requests' :
                 \/ \E j \in DOMAIN requests : requests'[i] = requests[j]
                 \/ loop = "commit" /\ requests'[i] = position
<1> DEFINE Old(x) == \/ \E j \in DOMAIN requests : x = requests[j]
                     \/ loop = "commit" /\ x = position
<1>1. requests \in Seq(Offsets) /\ position \in Offsets
    BY DEF TypeOK
<1>2. committed' = committed \/ (1 \in DOMAIN requests /\ committed' = requests[1])
  <2>1. requests # <<>> => Head(requests) = requests[1] /\ 1 \in DOMAIN requests
      BY <1>1, EmptySeq
  <2>2. committed' = committed \/ (requests # <<>> /\ committed' = Head(requests))
      BY OffsetsFrom
  <2> QED
      BY <2>1, <2>2, Zenon
<1>3. ASSUME NEW i \in DOMAIN requests' PROVE Old(requests'[i])
  <2>1. CASE requests' = requests
      BY <1>3, <2>1
  <2>2. CASE requests # <<>> /\ requests' = Tail(requests)
    <3>1. i + 1 \in DOMAIN requests /\ requests'[i] = requests[i + 1]
        BY <1>1, <1>3, <2>2, HeadTailProperties
    <3> QED
        BY <3>1
  <2>3. CASE loop = "commit" /\ requests' = Append(requests, position)
    <3>1. requests' \in Seq(Offsets) /\ i \in 1..(Len(requests) + 1)
        BY <1>1, <1>3, <2>3, AppendProperties
    <3>2. CASE i \in 1..Len(requests)
      <4>1. i \in DOMAIN requests /\ requests'[i] = requests[i]
          BY <1>1, <2>3, <3>2, AppendProperties
      <4> QED
          BY <4>1
    <3>3. CASE i = Len(requests) + 1
      <4>1. requests'[i] = position
          BY <1>1, <2>3, <3>3, AppendProperties
      <4> QED
          BY <2>3, <4>1
    <3> QED
        BY <1>1, <3>1, <3>2, <3>3
  <2>4. CASE requests' = <<>>
      BY <1>3, <2>4
  <2> QED
      BY <2>1, <2>2, <2>3, <2>4, OffsetsFrom
<1> QED
    BY <1>2, <1>3

\* A step moves the position as a poll does, or as a new process, or not at all.
LEMMA PositionFrom ==
    ASSUME TypeOK, LogInv, [Next]_vars
    PROVE  \/ position' = position
           \/ position' = committed /\ requests' = requests /\ proc = "down"
           \/ \E n \in Polls : position' = Forward(n) /\ loop = "poll" /\ requests' = requests
<1> USE DEF external, process, intake, cycle, givenUp, history
<1>1. ASSUME NEW t \in Topics, NEW kind \in Kinds, Produce(t, kind) PROVE position' = position
    BY <1>1 DEF Produce
<1>2. CASE BrokerCommits \/ CommitLost
    BY <1>2 DEF BrokerCommits, CommitLost
<1>3. CASE ConsumeBatch \/ ConsumeRaises
    BY <1>3 DEF ConsumeBatch, ConsumeRaises
<1>4. CASE ConsumeNothing \/ GatherToCommit \/ GatherFailed \/ CommitSent \/ CommitRaises \/ SleepOver
    BY <1>4 DEF ConsumeNothing, GatherToCommit, GatherFailed, CommitSent, CommitRaises, SleepOver
<1>5. ASSUME NEW t \in Topics, TaskStep(t) PROVE position' = position
    BY <1>5 DEF TaskStep, TaskBegins, TaskAcquires, InsertOk, InsertRaises, BackoffOver
<1>6. CASE DrainSignal \/ CancelSignal \/ Exit \/ Crash
    BY <1>6 DEF DrainSignal, CancelSignal, Exit, Crash, Vanish
<1>7. CASE Restart
    BY <1>7 DEF Restart
<1>8. CASE UNCHANGED vars
    BY <1>8 DEF vars
<1> QED
    BY <1>1, <1>2, <1>3, <1>4, <1>5, <1>6, <1>7, <1>8 DEF Next, LoopStep

\* Every step keeps the offsets within the logs.
LEMMA LogStep == TypeOK /\ LogInv /\ [Next]_vars => LogInv'
<1> SUFFICES ASSUME TypeOK, LogInv, [Next]_vars PROVE LogInv'
    OBVIOUS
<1>1. ASSUME NEW t \in Topics
      PROVE  /\ position[t] \in Nat /\ committed[t] \in Nat /\ Len(log[t]) \in Nat
             /\ Len(log'[t]) \in Nat /\ \A i \in DOMAIN requests : requests[i][t] \in Nat
  <2>1. log' \in [Topics -> Seq(Kinds)]
    <3>1. log \in [Topics -> Seq(Kinds)]
        BY DEF TypeOK
    <3>2. ASSUME NEW u \in Topics, NEW kind \in Kinds
          PROVE  [log EXCEPT ![u] = Append(@, kind)] \in [Topics -> Seq(Kinds)]
        BY <3>1, AppendProperties
    <3>3. CASE log' = log
        BY <3>1, <3>3
    <3>4. ASSUME NEW u \in Topics, NEW kind \in Kinds, log' = [log EXCEPT ![u] = Append(@, kind)]
          PROVE  log' \in [Topics -> Seq(Kinds)]
        BY <3>2, <3>4, Zenon
    <3> QED
        BY <3>3, <3>4, LogGrows
  <2>2. log[t] \in Seq(Kinds) /\ log'[t] \in Seq(Kinds) /\ requests \in Seq(Offsets)
      BY <1>1, <2>1 DEF TypeOK
  <2> QED
      BY <1>1, <2>2 DEF TypeOK, Offsets
<1>2. ASSUME NEW t \in Topics PROVE Len(log'[t]) <= MaxLog /\ Len(log[t]) <= Len(log'[t])
    BY <1>2, LogKept
<1>3. ASSUME NEW t \in Topics PROVE position'[t] <= Len(log[t])
    BY <1>3, PositionFrom, PolledRecords DEF LogInv
<1>4. ASSUME NEW t \in Topics PROVE committed'[t] <= Len(log[t])
    BY <1>4, RequestsFrom DEF LogInv
<1>5. ASSUME NEW i \in DOMAIN requests', NEW t \in Topics PROVE requests'[i][t] <= Len(log[t])
    BY <1>5, RequestsFrom DEF LogInv
<1>6. ASSUME NEW t \in Topics, NEW x \in Int, x <= Len(log[t]) PROVE x <= Len(log'[t])
    BY <1>1, <1>2, <1>6
<1>7. ASSUME NEW t \in Topics PROVE position'[t] \in Nat /\ committed'[t] \in Nat
  <2>1. position' \in Offsets
      BY PositionFrom, PolledRecords DEF TypeOK
  <2> QED
      BY <1>1, <1>7, <2>1, RequestsFrom DEF Offsets
<1>8. ASSUME NEW i \in DOMAIN requests', NEW t \in Topics PROVE requests'[i][t] \in Nat
    BY <1>1, <1>8, RequestsFrom
<1> QED
    BY <1>2, <1>3, <1>4, <1>5, <1>6, <1>7, <1>8 DEF LogInv

-----------------------------------------------------------------------------
(* Offsets in order *)

\* Nothing goes on after the end of the loop but a new process.
LEMMA OnlyRestart ==
    ASSUME [Next]_vars, ~Running, Running'
    PROVE  Restart
<1> USE DEF Running, external, process, intake, cycle, givenUp, history
<1>1. ASSUME NEW t \in Topics, NEW kind \in Kinds, Produce(t, kind) PROVE FALSE
    BY <1>1 DEF Produce
<1>2. CASE BrokerCommits \/ CommitLost
    BY <1>2 DEF BrokerCommits, CommitLost
<1>3. CASE LoopStep
    BY <1>3 DEF LoopStep, ConsumeNothing, ConsumeBatch, ConsumeRaises, GatherToCommit,
       GatherFailed, CommitSent, CommitRaises, SleepOver
<1>4. ASSUME NEW t \in Topics, TaskStep(t) PROVE FALSE
    BY <1>4 DEF TaskStep, TaskBegins, TaskAcquires, InsertOk, InsertRaises, BackoffOver
<1>5. CASE DrainSignal \/ CancelSignal \/ Exit \/ Crash
    BY <1>5 DEF DrainSignal, CancelSignal, Exit, Crash, Vanish
<1>6. CASE UNCHANGED vars
    BY <1>6 DEF vars
<1> QED
    BY <1>1, <1>2, <1>3, <1>4, <1>5, <1>6 DEF Next

\* What was committed or sent before the step is behind the position after it.
LEMMA PositionAhead ==
    ASSUME TypeOK, PhaseInv, LogInv, OrderInv, [Next]_vars, Running', NEW t \in Topics
    PROVE  committed[t] <= position'[t] /\ \A i \in DOMAIN requests : requests[i][t] <= position'[t]
<1>1. /\ committed[t] \in Nat /\ position[t] \in Nat /\ requests \in Seq(Offsets)
      /\ \A i \in DOMAIN requests : requests[i][t] \in Nat
    BY DEF TypeOK, Offsets
<1>2. CASE Running
  <2>1. committed[t] <= position[t] /\ \A i \in DOMAIN requests : requests[i][t] <= position[t]
      BY <1>2 DEF OrderInv
  <2>2. proc # "down"
      BY <1>2 DEF PhaseInv, Running
  <2>3. position'[t] \in Nat /\ position[t] <= position'[t]
    <3>1. CASE position' = position
        BY <1>1, <3>1
    <3>2. ASSUME NEW n \in Polls, position' = Forward(n) PROVE position'[t] \in Nat /\ position[t] <= position'[t]
        BY <3>2, PolledRecords DEF Offsets
    <3> QED
        BY <2>2, <3>1, <3>2, PositionFrom
  <2> QED
      BY <1>1, <2>1, <2>3
<1>3. CASE ~Running
  <2>1. proc = "down" /\ position' = committed
      BY <1>3, OnlyRestart DEF Restart
  <2> QED
      BY <1>1, <2>1 DEF PhaseInv
<1> QED
    BY <1>2, <1>3

\* Every step keeps the offsets in order.
LEMMA OrderStep ==
    ASSUME TypeOK, PhaseInv, LogInv, OrderInv, [Next]_vars
    PROVE  OrderInv'
<1>1. requests \in Seq(Offsets) /\ position \in Offsets /\ committed \in Offsets
    BY DEF TypeOK
<1>2. /\ \A i, j \in DOMAIN requests' :
             i < j => \A t \in Topics : requests'[i][t] <= requests'[j][t]
      /\ \A i \in DOMAIN requests' : \A t \in Topics : committed'[t] <= requests'[i][t]
  <2>1. CASE committed' = committed /\ requests' = requests
      BY <2>1 DEF OrderInv
  <2>2. CASE /\ requests # <<>>
             /\ committed' = committed \/ committed' = Head(requests)
             /\ requests' = Tail(requests)
    <3>1. Head(requests) = requests[1] /\ 1 \in DOMAIN requests
        BY <1>1, <2>2, EmptySeq
    <3>2. ASSUME NEW i \in DOMAIN requests'
          PROVE  i \in Nat /\ 1 < i + 1 /\ i + 1 \in DOMAIN requests /\ requests'[i] = requests[i + 1]
        BY <1>1, <2>2, <3>2, HeadTailProperties
    <3>3. ASSUME NEW i \in DOMAIN requests', NEW j \in DOMAIN requests', i < j, NEW t \in Topics
          PROVE  requests'[i][t] <= requests'[j][t]
      <4>1. i + 1 < j + 1
          BY <3>2, <3>3
      <4> QED
          BY <3>2, <4>1 DEF OrderInv
    <3>4. ASSUME NEW i \in DOMAIN requests', NEW t \in Topics PROVE committed'[t] <= requests'[i][t]
        BY <2>2, <3>1, <3>2, <3>4 DEF OrderInv
    <3> QED
        BY <3>3, <3>4
  <2>3. CASE loop = "commit" /\ committed' = committed /\ requests' = Append(requests, position)
    <3>1. /\ \A i \in DOMAIN requests : \A t \in Topics : requests[i][t] <= position[t]
          /\ \A t \in Topics : committed[t] <= position[t]
        BY <2>3 DEF OrderInv, Running
    <3>2. /\ requests' \in Seq(Offsets) /\ Len(requests') = Len(requests) + 1
          /\ requests'[Len(requests) + 1] = position
          /\ \A i \in 1..Len(requests) : requests'[i] = requests[i]
        BY <1>1, <2>3, AppendProperties
    <3>3. ASSUME NEW i \in DOMAIN requests', NEW j \in DOMAIN requests', i < j
          PROVE  i \in 1..Len(requests) /\ (j \in 1..Len(requests) \/ j = Len(requests) + 1)
        BY <1>1, <3>2, <3>3
    <3>4. ASSUME NEW i \in DOMAIN requests', NEW j \in DOMAIN requests', i < j, NEW t \in Topics
          PROVE  requests'[i][t] <= requests'[j][t]
        BY <1>1, <3>1, <3>2, <3>3, <3>4 DEF OrderInv
    <3>5. ASSUME NEW i \in DOMAIN requests', NEW t \in Topics PROVE committed'[t] <= requests'[i][t]
        BY <1>1, <2>3, <3>1, <3>2, <3>5 DEF OrderInv
    <3> QED
        BY <3>4, <3>5
  <2>4. CASE committed' = committed /\ requests' = <<>>
      BY <2>4
  <2> QED
      BY <2>1, <2>2, <2>3, <2>4, OffsetsFrom
<1>3. ASSUME Running', NEW t \in Topics PROVE committed'[t] <= position'[t]
    BY <1>3, PositionAhead, RequestsFrom
<1>4. ASSUME Running', NEW i \in DOMAIN requests', NEW t \in Topics PROVE requests'[i][t] <= position'[t]
  <2>1. CASE \E j \in DOMAIN requests : requests'[i] = requests[j]
      BY <1>4, <2>1, PositionAhead
  <2>2. CASE loop = "commit" /\ requests'[i] = position
    <3>1. position' = position
        BY <2>2, PositionFrom DEF PhaseInv
    <3> QED
        BY <1>1, <2>2, <3>1 DEF Offsets
  <2> QED
      BY <2>1, <2>2, RequestsFrom
<1> QED
    BY <1>2, <1>3, <1>4 DEF OrderInv

-----------------------------------------------------------------------------
(* Rows on their way *)

\* Every step keeps what the tasks have come to.
LEMMA TasksStep ==
    ASSUME TypeOK, TaskInv, [Next]_vars
    PROVE  TaskInv'
<1> USE DEF external, process, intake, cycle, givenUp, history
<1>1. ASSUME NEW t \in Topics, NEW r \in batches[t], copies[r] > 0 PROVE copies'[r] > 0
  <2>1. r \in Records
      BY <1>1 DEF TypeOK
  <2> QED
      BY <1>1, <2>1, CopiesGrow
<1>2. CASE UNCHANGED <<loop, batches, task, failed>>
    BY <1>1, <1>2 DEF TaskInv
<1>3. CASE loop' # "inserts"
    BY <1>3 DEF TaskInv
<1>4. ASSUME NEW t \in Topics, NEW kind \in Kinds, Produce(t, kind) PROVE TaskInv'
    BY <1>2, <1>4 DEF Produce
<1>5. CASE BrokerCommits \/ CommitLost \/ DrainSignal
    BY <1>2, <1>5 DEF BrokerCommits, CommitLost, DrainSignal
<1>6. CASE ConsumeBatch
    BY <1>6 DEF ConsumeBatch, TaskInv
<1>7. ASSUME NEW t \in Topics, TaskBegins(t) \/ TaskAcquires(t) \/ BackoffOver(t) PROVE TaskInv'
  <2>1. /\ UNCHANGED <<loop, batches, failed, copies>>
        /\ \/ task' = [task EXCEPT ![t] = "skipped"] /\ failed
           \/ task' = [task EXCEPT ![t] = "waiting"]
           \/ task' = [task EXCEPT ![t] = "insert"]
      BY <1>7 DEF TaskBegins, TaskAcquires, BackoffOver
  <2> QED
      BY <2>1 DEF TaskInv, TypeOK
<1>8. ASSUME NEW t \in Topics, InsertOk(t) PROVE TaskInv'
  <2>1. /\ UNCHANGED <<loop, batches, failed>> /\ task' = [task EXCEPT ![t] = "stored"]
        /\ \A r \in batches[t] : copies'[r] > 0
      BY <1>8, RowsAdded DEF InsertOk
  <2> QED
      BY <1>1, <2>1 DEF TaskInv, TypeOK
<1>9. ASSUME NEW t \in Topics, InsertRaises(t) PROVE TaskInv'
  <2>1. /\ UNCHANGED <<loop, batches>>
        /\ \/ task' = [task EXCEPT ![t] = "failed"] /\ failed'
           \/ task' = [task EXCEPT ![t] = "backoff"] /\ UNCHANGED failed
      BY <1>9, Zenon DEF InsertRaises
  <2> QED
      BY <1>1, <2>1 DEF TaskInv, TypeOK
<1>10. CASE ConsumeNothing \/ ConsumeRaises \/ GatherToCommit
    BY <1>3, <1>10 DEF ConsumeNothing, ConsumeRaises, GatherToCommit
<1>11. CASE GatherFailed \/ CommitSent \/ CommitRaises \/ SleepOver
    BY <1>3, <1>11, CycleEnds DEF GatherFailed, CommitSent, CommitRaises, SleepOver
<1>12. CASE CancelSignal \/ Exit \/ Crash \/ Restart
    BY <1>3, <1>12 DEF CancelSignal, Exit, Crash, Vanish, Restart
<1>13. CASE UNCHANGED vars
    BY <1>2, <1>13 DEF vars
<1> QED
    BY <1>4, <1>5, <1>6, <1>7, <1>8, <1>9, <1>10, <1>11, <1>12, <1>13
       DEF Next, LoopStep, TaskStep

\* Of a row a poll has moved the position over, nothing is forgotten but what raised.
LEMMA PolledRows ==
    ASSUME TypeOK, LogInv, NEW n \in Polls, NEW r \in Rows, r.index <= Forward(n)[r.topic]
    PROVE  r.index <= position[r.topic] \/ r \in Parsed(r.topic, n[r.topic])
<1>1. r \in Records /\ IsRow(r)
    BY DEF Rows, LogRecords
<1>2. r.topic \in Topics /\ r.index \in Nat /\ r = [topic |-> r.topic, index |-> r.index]
    BY <1>1, StorageAssumption DEF Records
<1>3. position[r.topic] \in Nat /\ n[r.topic] \in Nat
    BY <1>2, StorageAssumption DEF TypeOK, Offsets, Polls
<1>4. r.index <= position[r.topic] + n[r.topic]
    BY <1>2 DEF Forward
<1>5. ASSUME ~(r.index <= position[r.topic])
      PROVE  r.index \in (position[r.topic] + 1)..(position[r.topic] + n[r.topic])
    BY <1>2, <1>3, <1>4, <1>5
<1>6. ASSUME ~(r.index <= position[r.topic]) PROVE r \in Polled(r.topic, n[r.topic])
    BY <1>2, <1>5, <1>6 DEF Polled
<1> QED
    BY <1>1, <1>6 DEF Parsed

\* Every step keeps account of the rows behind the position.
LEMMA ReadStep ==
    ASSUME TypeOK, PhaseInv, LogInv, TaskInv, ReadInv, CommitInv, [Next]_vars
    PROVE  ReadInv'
<1> DEFINE Kept(r) == \/ Settled(r)'
                      \/ r \in buffers'[r.topic]
                      \/ loop' = "inserts" /\ r \in batches'[r.topic]
<1> SUFFICES ASSUME Running', NEW r \in Rows', r.index <= position'[r.topic]
             PROVE  Kept(r)
    BY DEF ReadInv
<1>1. r \in Records /\ r.topic \in Topics /\ r.index \in Nat
    BY KnownRows, StorageAssumption DEF Records
<1>2. r \in Rows
  <2>1. position'[r.topic] \in Nat /\ position'[r.topic] <= Len(log[r.topic])
    <3>1. position[r.topic] \in Nat /\ committed[r.topic] \in Nat
        BY <1>1 DEF TypeOK, Offsets
    <3>2. position[r.topic] <= Len(log[r.topic]) /\ committed[r.topic] <= Len(log[r.topic])
        BY <1>1 DEF LogInv
    <3>3. ASSUME NEW n \in Polls, position' = Forward(n)
          PROVE  position'[r.topic] \in Nat /\ position'[r.topic] <= Len(log[r.topic])
        BY <1>1, <3>3, PolledRecords DEF Offsets
    <3> QED
        BY <3>1, <3>2, <3>3, PositionFrom
  <2>2. Len(log[r.topic]) \in Nat
      BY <1>1 DEF TypeOK
  <2> QED
      BY <1>1, <2>1, <2>2, KnownRows
<1>3. CASE Settled(r)
    BY <1>1, <1>3, SettledStays
<1>4. CASE Restart
  <2>1. r.index <= committed[r.topic]
      BY <1>4 DEF Restart
  <2> QED
      BY <1>2, <1>3, <2>1 DEF CommitInv, Covers
<1>5. ASSUME ~Settled(r), Running, r.index <= position[r.topic]
      PROVE  r \in buffers[r.topic] \/ (loop = "inserts" /\ r \in batches[r.topic])
    BY <1>2, <1>5 DEF ReadInv
<1> USE DEF external, process, intake, cycle, givenUp, history
<1>6. CASE UNCHANGED <<loop, position, buffers, batches>>
    BY <1>3, <1>5, <1>6 DEF Running
<1>7. ASSUME NEW t \in Topics, NEW kind \in Kinds, Produce(t, kind) PROVE Kept(r)
    BY <1>6, <1>7 DEF Produce
<1>8. CASE BrokerCommits \/ CommitLost \/ DrainSignal \/ UNCHANGED vars
    BY <1>6, <1>8 DEF BrokerCommits, CommitLost, DrainSignal, vars
<1>9. ASSUME NEW t \in Topics, TaskStep(t) PROVE Kept(r)
    BY <1>6, <1>9 DEF TaskStep, TaskBegins, TaskAcquires, InsertOk, InsertRaises, BackoffOver
<1>10. CASE ConsumeNothing \/ CommitSent \/ CommitRaises \/ SleepOver
    BY <1>3, <1>5, <1>10 DEF ConsumeNothing, CommitSent, CommitRaises, SleepOver, Running
<1>11. CASE ConsumeBatch
  <2>1. PICK n \in Polls : position' = Forward(n) /\ batches' = Buffered(n)
      BY <1>11 DEF ConsumeBatch
  <2>2. loop = "poll" /\ loop' = IF batches' = Empty THEN "sleep" ELSE "inserts"
      BY <1>11 DEF ConsumeBatch
  <2>3. ASSUME ~Settled(r) PROVE r \in batches'[r.topic]
    <3>1. r \in buffers[r.topic] \/ r \in Parsed(r.topic, n[r.topic])
        BY <1>2, <1>5, <2>1, <2>2, <2>3, PolledRows DEF Running
    <3> QED
        BY <1>1, <2>1, <3>1 DEF Buffered
  <2>4. ASSUME ~Settled(r) PROVE batches' # Empty
      BY <1>1, <2>3, <2>4 DEF Empty
  <2> QED
      BY <1>3, <2>2, <2>3, <2>4
<1>12. CASE ConsumeRaises
  <2>1. PICK n \in Polls, m \in Polls :
            /\ position' = Forward(n)
            /\ buffers' = Buffered(m)
            /\ dropped' = dropped \cup UNION {Parsed(t, n[t]) \ Parsed(t, m[t]) : t \in Topics}
      BY <1>12 DEF ConsumeRaises
  <2>2. loop = "poll"
      BY <1>12 DEF ConsumeRaises
  <2>3. ASSUME ~Settled(r) PROVE r \in buffers[r.topic] \/ r \in Parsed(r.topic, n[r.topic])
      BY <1>2, <1>5, <2>1, <2>2, <2>3, PolledRows DEF Running
  <2>4. ASSUME r \in buffers[r.topic] \/ r \in Parsed(r.topic, m[r.topic]) PROVE r \in buffers'[r.topic]
      BY <1>1, <2>1, <2>4 DEF Buffered
  <2>5. ASSUME r \in Parsed(r.topic, n[r.topic]), r \notin Parsed(r.topic, m[r.topic]) PROVE Settled(r)'
      BY <1>1, <2>1, <2>5 DEF Settled
  <2> QED
      BY <1>3, <2>3, <2>4, <2>5
<1>13. CASE GatherToCommit
  <2>1. loop = "inserts" /\ TasksOver /\ ~failed /\ UNCHANGED <<position, buffers, copies>>
      BY <1>13 DEF GatherToCommit
  <2>2. ASSUME r \in batches[r.topic] PROVE Settled(r)
      BY <1>1, <2>1, <2>2 DEF TaskInv, TasksOver, Settled
  <2> QED
      BY <1>3, <1>5, <2>1, <2>2 DEF Running
<1>14. CASE GatherFailed
  <2>1. /\ loop = "inserts" /\ TasksOver /\ UNCHANGED <<position, buffers, copies>>
        /\ forsaken' = forsaken \cup
             UNION {batches[t] : t \in {u \in Topics : task[u] \in {"skipped", "failed"}}}
      BY <1>14 DEF GatherFailed
  <2>2. ASSUME r \in batches[r.topic] PROVE Settled(r)'
    <3>1. CASE task[r.topic] \in {"none", "stored"}
        BY <1>1, <1>3, <2>1, <2>2, <3>1 DEF TaskInv, Settled
    <3>2. CASE task[r.topic] \in {"skipped", "failed"}
        BY <1>1, <2>1, <2>2, <3>2 DEF Settled
    <3> QED
        BY <1>1, <2>1, <3>1, <3>2 DEF TasksOver
  <2> QED
      BY <1>3, <1>5, <2>1, <2>2 DEF Running
<1>15. CASE CancelSignal \/ Exit \/ Crash
    BY <1>15 DEF CancelSignal, Exit, Crash, Vanish, Running
<1> QED
    BY <1>4, <1>7, <1>8, <1>9, <1>10, <1>11, <1>12, <1>13, <1>14, <1>15 DEF Next, LoopStep

\* Offsets that covered settled rows only still do.
LEMMA CoverStays ==
    ASSUME TypeOK, LogInv, [Next]_vars
    PROVE  \A x \in Offsets :
             (\A t \in Topics : x[t] <= Len(log[t])) /\ Covers(x) =>
                 \A r \in Rows' : r.index <= x[r.topic] => Settled(r)'
<1> SUFFICES ASSUME NEW x \in Offsets, \A t \in Topics : x[t] <= Len(log[t]), Covers(x),
                    NEW r \in Rows', r.index <= x[r.topic]
             PROVE  Settled(r)'
    OBVIOUS
<1>1. r \in Records /\ r.topic \in Topics /\ r.index \in Nat /\ x[r.topic] \in Nat
    BY KnownRows, StorageAssumption DEF Records, Offsets
<1>2. Len(log[r.topic]) \in Nat
    BY <1>1 DEF TypeOK
<1>3. r \in Rows
    BY <1>1, <1>2, KnownRows
<1> QED
    BY <1>1, <1>3, SettledStays DEF Covers

\* Every step keeps the commits on settled rows.
LEMMA CommitStep ==
    ASSUME TypeOK, PhaseInv, LogInv, ReadInv, CommitInv, [Next]_vars
    PROVE  CommitInv'
<1> DEFINE CoversNext(x) == \A r \in Rows' : r.index <= x[r.topic] => Settled(r)'
<1>1. CoversNext(committed)
    BY CoverStays DEF CommitInv, LogInv, TypeOK
<1>2. ASSUME NEW j \in DOMAIN requests PROVE CoversNext(requests[j])
  <2>1. requests[j] \in Offsets /\ \A t \in Topics : requests[j][t] <= Len(log[t])
      BY <1>2 DEF TypeOK, LogInv
  <2> QED
      BY <1>2, <2>1, CoverStays DEF CommitInv
<1>3. ASSUME loop = "commit" PROVE CoversNext(position)
  <2>1. ASSUME NEW r \in Rows, r.index <= position[r.topic] PROVE Settled(r)
    <3>1. r.topic \in Topics
        BY DEF Rows, LogRecords, Records
    <3> QED
        BY <1>3, <2>1, <3>1 DEF ReadInv, PhaseInv, Running, Empty
  <2> QED
      BY <2>1, CoverStays DEF Covers, LogInv, TypeOK
<1>4. CoversNext(committed')
    BY <1>1, <1>2, RequestsFrom
<1>5. ASSUME NEW i \in DOMAIN requests' PROVE CoversNext(requests'[i])
    BY <1>2, <1>3, <1>5, RequestsFrom
<1> QED
    BY <1>4, <1>5 DEF CommitInv, Covers

-----------------------------------------------------------------------------
(* Copies *)

\* What a poll leaves in the buffers has not been inserted by this process.
LEMMA BufferedRecords ==
    ASSUME TypeOK, LogInv, HeldInv, NEW n \in Polls, NEW t \in Topics, NEW r \in Buffered(n)[t]
    PROVE  r \in Records /\ r.topic = t /\ r.index <= position[t] + n[t] /\ Fresh(r)
<1>1. n[t] \in Nat /\ position[t] \in Nat
    BY StorageAssumption DEF Polls, TypeOK, Offsets
<1>2. r \in Records
    BY PolledRecords
<1>3. CASE r \in buffers[t]
  <2>1. r.topic = t /\ r.index <= position[t] /\ r.index \in Nat
      BY <1>2, <1>3, StorageAssumption DEF HeldInv, Records
  <2> QED
      BY <1>1, <1>2, <1>3, <2>1 DEF Fresh
<1>4. CASE r \in Parsed(t, n[t])
  <2>1. PICK i \in (position[t] + 1)..(position[t] + n[t]) : r = [topic |-> t, index |-> i]
      BY <1>4 DEF Parsed, Polled
  <2>2. r.topic = t /\ r.index = i /\ i > position[t] /\ i <= position[t] + n[t]
      BY <1>1, <2>1
  <2> QED
      BY <1>2, <2>2 DEF Fresh
<1> QED
    BY <1>3, <1>4 DEF Buffered

\* Every step keeps the buffers and batches on records the position has passed.
LEMMA HeldStep ==
    ASSUME TypeOK, PhaseInv, LogInv, HeldInv, [Next]_vars
    PROVE  HeldInv'
<1> USE DEF external, process, intake, cycle, givenUp, history
<1>1. CASE UNCHANGED <<proc, loop, position, buffers, batches, task>>
    BY <1>1 DEF HeldInv, Active
<1>2. ASSUME UNCHANGED <<proc, buffers, position>>, \A t \in Topics : ~Active(t)',
             \A t \in Topics : batches'[t] \in {{}, batches[t]}
      PROVE  HeldInv'
    BY <1>2 DEF HeldInv
<1>3. ASSUME NoCycle PROVE \A t \in Topics : batches'[t] = {} /\ ~Active(t)'
    BY <1>3 DEF NoCycle, Empty, Active
<1>4. ASSUME TasksOver PROVE \A t \in Topics : ~Active(t)
    BY <1>4 DEF TasksOver, Active
<1>5. ASSUME loop # "inserts" PROVE \A t \in Topics : ~Active(t)
    BY <1>5 DEF HeldInv
<1>6. ASSUME NEW t \in Topics, NEW kind \in Kinds, Produce(t, kind) PROVE HeldInv'
    BY <1>1, <1>6 DEF Produce
<1>7. CASE BrokerCommits \/ CommitLost \/ DrainSignal \/ UNCHANGED vars
    BY <1>1, <1>7 DEF BrokerCommits, CommitLost, DrainSignal, vars
<1>8. CASE ConsumeNothing \/ SleepOver
    BY <1>2, <1>3, <1>8 DEF ConsumeNothing, SleepOver
<1>9. CASE ConsumeBatch
  <2>1. PICK n \in Polls : position' = Forward(n) /\ batches' = Buffered(n)
      BY <1>9 DEF ConsumeBatch
  <2>2. /\ buffers' = Empty /\ task' = [t \in Topics |-> IF batches'[t] = {} THEN "none" ELSE "new"]
        /\ loop' = IF batches' = Empty THEN "sleep" ELSE "inserts"
      BY <1>9 DEF ConsumeBatch
  <2>3. ASSUME NEW t \in Topics, NEW r \in batches'[t] PROVE r.topic = t /\ r.index <= position'[t]
      BY <2>1, <2>3, BufferedRecords DEF Forward
  <2>4. ASSUME NEW t \in Topics, Active(t)' PROVE loop' = "inserts"
      BY <2>2, <2>4 DEF Active, Empty
  <2> QED
      BY <2>2, <2>3, <2>4 DEF HeldInv, Empty
<1>10. CASE ConsumeRaises
  <2>1. PICK n \in Polls, m \in Polls :
            (\A t \in Topics : m[t] <= n[t]) /\ position' = Forward(n) /\ buffers' = Buffered(m)
      BY <1>10 DEF ConsumeRaises
  <2>2. proc' = proc /\ loop = "poll" /\ NoCycle
      BY <1>10 DEF ConsumeRaises
  <2>3. ASSUME NEW t \in Topics, NEW r \in buffers'[t] PROVE r.topic = t /\ r.index <= position'[t]
    <3>1. n[t] \in Nat /\ m[t] \in Nat /\ m[t] <= n[t] /\ position[t] \in Nat
        BY <2>1, <2>3, StorageAssumption DEF Polls, TypeOK, Offsets
    <3>2. r \in Records /\ r.topic = t /\ r.index <= position[t] + m[t]
        BY <2>1, <2>3, BufferedRecords
    <3>3. r.index \in Nat
        BY <3>2, StorageAssumption DEF Records
    <3> QED
        BY <2>1, <2>3, <3>1, <3>2, <3>3 DEF Forward
  <2> QED
      BY <1>3, <2>2, <2>3 DEF HeldInv, PhaseInv
<1>11. ASSUME NEW t \in Topics, TaskStep(t) PROVE HeldInv'
  <2>1. UNCHANGED <<proc, loop, position, buffers, batches>> /\ Active(t)
      BY <1>11 DEF TaskStep, TaskBegins, TaskAcquires, InsertOk, InsertRaises, BackoffOver, Active
  <2>2. \E x \in TaskStates : task' = [task EXCEPT ![t] = x]
      BY <1>11, Zenon DEF TaskStep, TaskBegins, TaskAcquires, InsertOk, InsertRaises, BackoffOver, TaskStates
  <2>3. ASSUME NEW u \in Topics, Active(u)' PROVE Active(u)
      BY <2>1, <2>2, <2>3 DEF Active, TypeOK
  <2> QED
      BY <2>1, <2>3 DEF HeldInv
<1>12. CASE GatherToCommit \/ GatherFailed \/ CommitSent \/ CommitRaises
    BY <1>2, <1>4, <1>5, <1>12 DEF GatherToCommit, GatherFailed, CommitSent, CommitRaises, Active
<1>13. CASE CancelSignal
    BY <1>2, <1>3, <1>13 DEF CancelSignal
<1>14. CASE Exit \/ Crash
    BY <1>3, <1>14 DEF Exit, Crash, Vanish, HeldInv, Empty
<1>15. CASE Restart
  <2>1. loop # "inserts" /\ buffers = Empty /\ UNCHANGED <<buffers, batches, task>> /\ proc' = "up"
      BY <1>15 DEF Restart, PhaseInv, HeldInv
  <2>2. \A t \in Topics : ~Active(t)'
      BY <1>5, <2>1 DEF Active
  <2> QED
      BY <2>1, <2>2 DEF HeldInv, Empty
<1> QED
    BY <1>6, <1>7, <1>8, <1>9, <1>10, <1>11, <1>12, <1>13, <1>14, <1>15 DEF Next, LoopStep

\* Every step keeps the account of the copies.
LEMMA CountStep ==
    ASSUME TypeOK, TypeOK', AttemptInv, PhaseInv, LogInv, HeldInv, CountInv, [Next]_vars
    PROVE  CountInv'
<1> USE DEF external, process, intake, cycle, givenUp, history
<1> DEFINE Last == MaxAttempts * (runs - 1)
<1>1. /\ Last \in Nat /\ MaxAttempts * runs = Last + MaxAttempts
      /\ runs \in Nat /\ lost \in Nat /\ MaxAttempts \in Nat
    BY StorageAssumption DEF TypeOK
<1>0. ASSUME NEW n \in Polls, position' = Forward(n), NEW t \in Topics
      PROVE  position[t] \in Nat /\ position'[t] \in Nat /\ position[t] <= position'[t]
  <2>1. Forward(n) \in Offsets /\ position[t] <= Forward(n)[t]
      BY PolledRecords
  <2> QED
      BY <1>0, <2>1 DEF TypeOK, Offsets
<1>2. ASSUME UNCHANGED <<copies, runs, lost>>,
             \A r \in Records : Fresh(r)' => Fresh(r),
             \A t \in Topics : Active(t)' =>
                 Active(t) /\ batches'[t] = batches[t] /\ attempts'[t] = attempts[t]
      PROVE  CountInv'
    BY <1>2 DEF CountInv, CopiesBounded, Before
<1>3. ASSUME NoCycle PROVE \A t \in Topics : ~Active(t)'
    BY <1>3 DEF NoCycle, Active
<1>4. ASSUME UNCHANGED <<position, buffers>> PROVE \A r \in Records : Fresh(r)' => Fresh(r)
    BY <1>4 DEF Fresh
<1>5. ASSUME NEW t \in Topics, NEW kind \in Kinds, Produce(t, kind) PROVE CountInv'
    BY <1>2, <1>4, <1>5 DEF Produce, Active
<1>6. CASE BrokerCommits \/ CommitLost \/ DrainSignal \/ UNCHANGED vars
    BY <1>2, <1>4, <1>6 DEF BrokerCommits, CommitLost, DrainSignal, vars, Active
<1>7. CASE ConsumeNothing \/ SleepOver
    BY <1>2, <1>3, <1>4, <1>7 DEF ConsumeNothing, SleepOver
<1>8. CASE ConsumeBatch
  <2>1. PICK n \in Polls : position' = Forward(n) /\ batches' = Buffered(n)
      BY <1>8 DEF ConsumeBatch
  <2>2. buffers' = Empty /\ attempts' = [t \in Topics |-> 0] /\ UNCHANGED <<copies, runs, lost>>
      BY <1>8 DEF ConsumeBatch
  <2>3. ASSUME NEW r \in Records, Fresh(r)' PROVE Fresh(r)
    <3>1. r.topic \in Topics /\ r.index \in Nat
        BY StorageAssumption DEF Records
    <3>2. position[r.topic] \in Nat /\ position'[r.topic] \in Nat /\ position[r.topic] <= position'[r.topic]
        BY <1>0, <2>1, <3>1
    <3> QED
        BY <2>2, <2>3, <3>1, <3>2 DEF Fresh, Empty
  <2>4. ASSUME NEW t \in Topics, NEW r \in batches'[t] PROVE Before(r, 0)
    <3>1. r \in Records /\ Fresh(r)
        BY <2>1, <2>4, BufferedRecords
    <3> QED
        BY <3>1 DEF CountInv
  <2> QED
      BY <2>2, <2>3, <2>4 DEF CountInv, CopiesBounded, Before
<1>9. CASE ConsumeRaises
  <2>1. PICK n \in Polls, m \in Polls : position' = Forward(n) /\ buffers' = Buffered(m)
      BY <1>9 DEF ConsumeRaises
  <2>2. NoCycle /\ UNCHANGED <<copies, runs, lost>>
      BY <1>9 DEF ConsumeRaises
  <2>3. ASSUME NEW r \in Records, Fresh(r)' PROVE Fresh(r)
    <3>1. r.topic \in Topics /\ r.index \in Nat
        BY StorageAssumption DEF Records
    <3>2. position[r.topic] \in Nat /\ position'[r.topic] \in Nat /\ position[r.topic] <= position'[r.topic]
        BY <1>0, <2>1, <3>1
    <3>3. CASE r \in buffers'[r.topic]
        BY <2>1, <3>1, <3>3, BufferedRecords
    <3> QED
        BY <2>3, <3>1, <3>2, <3>3 DEF Fresh
  <2> QED
      BY <1>2, <1>3, <2>2, <2>3
<1>10. ASSUME NEW t \in Topics, TaskBegins(t) \/ TaskAcquires(t) \/ BackoffOver(t) PROVE CountInv'
  <2>1. UNCHANGED <<position, buffers, batches, attempts, copies, runs, lost>> /\ Active(t)
      BY <1>10 DEF TaskBegins, TaskAcquires, BackoffOver, Active
  <2>2. \E x \in TaskStates : task' = [task EXCEPT ![t] = x]
      BY <1>10, Zenon DEF TaskBegins, TaskAcquires, BackoffOver, TaskStates
  <2>3. ASSUME NEW u \in Topics, Active(u)' PROVE Active(u)
      BY <2>1, <2>2, <2>3 DEF Active, TypeOK
  <2> QED
      BY <1>2, <1>4, <2>1, <2>3
\* An insert of a topic puts the rows of its batch in, which are not fresh.
<1>11. ASSUME NEW T \in SUBSET Topics, NEW r \in Records
       PROVE  /\ copies[r] \in Nat
              /\ WithRows(T)[r] = IF r.topic \in T /\ r \in batches[r.topic] THEN copies[r] + 1 ELSE copies[r]
  <2>1. \A t \in T : r \in batches[t] => t = r.topic
      BY <1>11 DEF HeldInv
  <2> QED
      BY <2>1 DEF WithRows, TypeOK
<1>12. ASSUME NEW r \in Records, Active(r.topic), r \in batches[r.topic]
       PROVE  ~Fresh(r) /\ Before(r, attempts[r.topic]) /\ attempts[r.topic] \in Nat
              /\ attempts[r.topic] + 1 <= MaxAttempts
  <2>1. r.topic \in Topics /\ r.index \in Nat
      BY StorageAssumption DEF Records
  <2>2. loop = "inserts" /\ r.index <= position[r.topic] /\ position[r.topic] \in Nat
      BY <1>12, <2>1 DEF HeldInv, TypeOK, Offsets
  <2>3. r \notin buffers[r.topic]
      BY <2>1, <2>2 DEF PhaseInv, Empty
  <2>4. attempts[r.topic] \in Nat /\ attempts[r.topic] < MaxAttempts
      BY <1>12, <2>1, StorageAssumption DEF AttemptInv, Active, TypeOK
  <2> QED
      BY <1>1, <1>12, <2>1, <2>2, <2>3, <2>4 DEF Fresh, CountInv
<1>13. ASSUME NEW t \in Topics, InsertOk(t) PROVE CountInv'
  <2>1. /\ UNCHANGED <<position, buffers, batches, attempts, runs, lost>> /\ Active(t)
        /\ copies' = WithRows({t}) /\ task' = [task EXCEPT ![t] = "stored"]
      BY <1>13 DEF InsertOk, Active
  <2>2. ASSUME NEW u \in Topics, Active(u)' PROVE Active(u) /\ u # t
      BY <2>1, <2>2 DEF Active, TypeOK
  <2>3. ASSUME NEW r \in Records, r.topic = t, r \in batches[t]
        PROVE  ~Fresh(r)' /\ copies'[r] <= runs + lost /\ copies'[r] <= MaxAttempts * runs
      BY <1>1, <1>11, <1>12, <2>1, <2>3 DEF Before, Fresh
  <2>4. ASSUME NEW r \in Records, ~(r.topic = t /\ r \in batches[t]) PROVE copies'[r] = copies[r]
      BY <1>11, <2>1, <2>4
  <2>5. CopiesBounded'
      BY <2>1, <2>3, <2>4 DEF CountInv, CopiesBounded
  <2>6. ASSUME NEW r \in Records, Fresh(r)' PROVE Before(r, 0)'
      BY <1>4, <2>1, <2>3, <2>4, <2>6 DEF CountInv, Before
  <2>7. ASSUME NEW u \in Topics, Active(u)', NEW r \in batches'[u] PROVE Before(r, attempts[u])'
    <3>1. r \in Records /\ r.topic = u /\ u # t
        BY <2>1, <2>2, <2>7 DEF HeldInv, TypeOK
    <3> QED
        BY <2>1, <2>2, <2>4, <2>7, <3>1 DEF CountInv, Before
  <2> QED
      BY <2>5, <2>6, <2>7 DEF CountInv
<1>14. ASSUME NEW t \in Topics, InsertRaises(t) PROVE CountInv'
  <2>1. /\ UNCHANGED <<position, buffers, batches, runs>> /\ Active(t)
        /\ attempts' = [attempts EXCEPT ![t] = @ + 1]
      BY <1>14 DEF InsertRaises, Active
  <2>2. \E x \in TaskStates : task' = [task EXCEPT ![t] = x]
      BY <1>14, Zenon DEF InsertRaises, TaskStates
  <2>3. ASSUME NEW u \in Topics, Active(u)' PROVE Active(u)
      BY <2>1, <2>2, <2>3 DEF Active, TypeOK
  <2>4. \/ copies' = copies /\ lost' = lost
        \/ copies' = WithRows({t}) /\ lost' = lost + 1
      BY <1>14 DEF InsertRaises, NotExecuted, ReplyLost
  <2>5. attempts'[t] = attempts[t] + 1 /\ \A u \in Topics : u # t => attempts'[u] = attempts[u]
      BY <2>1 DEF TypeOK
  <2>6. ASSUME NEW r \in Records, r.topic = t, r \in batches[t]
        PROVE  ~Fresh(r)' /\ Before(r, attempts[t])' /\ copies'[r] <= runs + lost'
               /\ copies'[r] <= MaxAttempts * runs
    <3>1. ~Fresh(r) /\ Before(r, attempts[t]) /\ attempts[t] \in Nat /\ attempts[t] + 1 <= MaxAttempts
        BY <1>12, <2>1, <2>6
    <3>2. ~Fresh(r)'
        BY <1>4, <2>1, <3>1
    <3>3. /\ copies[r] \in Nat
          /\ \/ copies'[r] = copies[r] /\ lost' = lost
             \/ copies'[r] = copies[r] + 1 /\ lost' = lost + 1
        BY <1>11, <2>4, <2>6
    <3> QED
        BY <1>1, <2>1, <2>5, <3>1, <3>2, <3>3 DEF Before
  <2>7. ASSUME NEW r \in Records, ~(r.topic = t /\ r \in batches[t])
        PROVE  copies'[r] = copies[r] /\ copies[r] \in Nat
      BY <1>11, <2>4, <2>7
  <2>8. lost' \in Nat /\ lost <= lost'
      BY <1>1, <2>4
  <2>9. CopiesBounded'
      BY <1>1, <2>1, <2>6, <2>7, <2>8 DEF CountInv, CopiesBounded
  <2>10. ASSUME NEW r \in Records, Fresh(r)' PROVE Before(r, 0)'
      BY <1>1, <1>4, <2>1, <2>6, <2>7, <2>8, <2>10 DEF CountInv, Before
  <2>11. ASSUME NEW u \in Topics, Active(u)', NEW r \in batches'[u] PROVE Before(r, attempts[u])'
    <3>1. r \in Records /\ r.topic = u
        BY <2>1, <2>11 DEF HeldInv, TypeOK
    <3>2. CASE u = t
        BY <2>1, <2>6, <2>11, <3>1, <3>2
    <3>3. CASE u # t
        BY <1>1, <2>1, <2>3, <2>5, <2>7, <2>8, <2>11, <3>1, <3>3 DEF CountInv, Before
    <3> QED
        BY <3>2, <3>3
  <2> QED
      BY <2>9, <2>10, <2>11 DEF CountInv
<1>15. CASE GatherToCommit \/ GatherFailed \/ CommitSent \/ CommitRaises
    BY <1>2, <1>4, <1>15 DEF GatherToCommit, GatherFailed, CommitSent, CommitRaises, Active
<1>16. CASE CancelSignal
  <2>1. PICK T \in SUBSET {t \in Topics : task[t] = "insert" /\ Insertable(t)} : copies' = WithRows(T)
      BY <1>16 DEF CancelSignal
  <2>2. NoCycle /\ UNCHANGED <<position, buffers, runs, lost>>
      BY <1>16 DEF CancelSignal
  <2>3. T \in SUBSET Topics /\ \A t \in T : Active(t)
      BY <2>1 DEF Active
  <2>4. ASSUME NEW r \in Records, r.topic \in T, r \in batches[r.topic]
        PROVE  ~Fresh(r)' /\ copies'[r] <= runs + lost /\ copies'[r] <= MaxAttempts * runs
      BY <1>1, <1>11, <1>12, <2>1, <2>2, <2>3, <2>4 DEF Before, Fresh
  <2>5. ASSUME NEW r \in Records, ~(r.topic \in T /\ r \in batches[r.topic]) PROVE copies'[r] = copies[r]
      BY <1>11, <2>1, <2>3, <2>5
  <2> QED
      BY <1>3, <1>4, <2>2, <2>4, <2>5 DEF CountInv, CopiesBounded, Before
<1>17. CASE Exit \/ Crash
  <2>1. NoCycle /\ buffers' = Empty /\ UNCHANGED <<position, copies, runs, lost>>
      BY <1>17 DEF Exit, Crash, Vanish
  <2>2. \A r \in Records : Fresh(r)' => Fresh(r)
      BY <2>1 DEF Fresh, Empty, Records
  <2> QED
      BY <1>2, <1>3, <2>1, <2>2
<1>18. CASE Restart
  <2>1. runs' = runs + 1 /\ UNCHANGED <<copies, lost, task, batches, attempts>> /\ loop # "inserts"
      BY <1>18 DEF Restart, PhaseInv
  <2>2. \A t \in Topics : ~Active(t)'
      BY <2>1 DEF HeldInv, Active
  <2>3. ASSUME NEW r \in Records PROVE Before(r, 0)' /\ copies'[r] <= runs' + lost' /\ copies'[r] <= MaxAttempts * runs'
    <3>1. copies[r] \in Nat /\ copies[r] <= runs + lost /\ copies[r] <= MaxAttempts * runs
        BY <1>11 DEF CountInv, CopiesBounded
    <3>2. runs' - 1 = runs /\ MaxAttempts * (runs + 1) = MaxAttempts * runs + MaxAttempts
          /\ MaxAttempts * runs \in Nat
        BY <1>1, <2>1
    <3> QED
        BY <1>1, <2>1, <3>1, <3>2 DEF Before
  <2> QED
      BY <2>2, <2>3 DEF CountInv, CopiesBounded
<1> QED
    BY <1>5, <1>6, <1>7, <1>8, <1>9, <1>10, <1>13, <1>14, <1>15, <1>16, <1>17, <1>18
       DEF Next, LoopStep, TaskStep

-----------------------------------------------------------------------------
(* Theorems *)

\* Every reachable state satisfies the inductive invariant.
THEOREM StorageInvariant == Spec => []IInv
<1>1. IInv /\ [Next]_vars => IInv'
    BY TypeStep, PhaseStep, LogStep, OrderStep, TasksStep, ReadStep, CommitStep,
       HeldStep, CountStep DEF IInv
<1> QED
    BY InitInv, <1>1, PTL DEF Spec

\* Every variable keeps its type: offsets stay within the log, an insert has at most
\* max_retries attempts, for any number of topics and of insert slots.
THEOREM StorageTypeCorrect == Spec => []TypeOK
<1>1. IInv => TypeOK
    BY DEF IInv
<1> QED
    BY StorageInvariant, <1>1, PTL

\* No crash, lost commit, signal or leftover in the buffers loses a row: what the
\* group's offsets cover is in ClickHouse, or was given up by a failed cycle or by
\* a poll that raised.
THEOREM StorageStoresOrForsakes == Spec => []StoredOrForsaken
<1>1. IInv => StoredOrForsaken
    BY DEF IInv, CommitInv, Covers, Settled, StoredOrForsaken, CommittedRows
<1> QED
    BY StorageInvariant, <1>1, PTL

\* A record is in ClickHouse at most once for each run of the process and for each
\* insert that raised after it was executed, and at most once for each attempt.
THEOREM StorageCopiesBounded == Spec => []CopiesBounded
<1>1. IInv => CopiesBounded
    BY DEF IInv, CountInv
<1> QED
    BY StorageInvariant, <1>1, PTL

\* The group's offsets never move back, whatever commits get lost and however often
\* the process starts again.
THEOREM StorageCommitsForward == Spec => CommitMonotone
<1>1. IInv /\ [Next]_vars => \A t \in Topics : committed[t] <= committed'[t]
  <2> SUFFICES ASSUME IInv, [Next]_vars, NEW t \in Topics PROVE committed[t] <= committed'[t]
      OBVIOUS
  <2>1. committed[t] \in Nat
      BY DEF IInv, TypeOK, Offsets
  <2>2. \A i \in DOMAIN requests : committed[t] <= requests[i][t]
      BY DEF IInv, OrderInv
  <2> QED
      BY <2>1, <2>2, RequestsFrom DEF IInv
<1>2. IInv /\ [Next]_vars => [\A t \in Topics : committed[t] <= committed'[t]]_vars
    BY <1>1
<1> QED
    BY StorageInvariant, <1>2, PTL DEF Spec, CommitMonotone
=============================================================================
