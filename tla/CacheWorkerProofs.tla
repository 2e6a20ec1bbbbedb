------------------------- MODULE CacheWorkerProofs -------------------------
(***************************************************************************)
(* Proofs about CacheWorker, for all values of its constants.              *)
(***************************************************************************)
EXTENDS CacheWorker, SequenceTheorems, FiniteSetTheorems, TLAPS

-----------------------------------------------------------------------------
(* Type correctness *)

\* The head of the loop leads to one of four points of the worker.
LEMMA LoopHeadType ==
    \A q, b : LoopHead(q, b) \in {"get", "wait", "final", "done"}
BY DEF LoopHead

\* The initial state of the service is well typed.
LEMMA TypeInit == Init => TypeOK
<1> SUFFICES ASSUME Init PROVE TypeOK
    OBVIOUS
<1> USE CacheAssumption DEF Init
<1>1. /\ log \in [Partitions -> Seq(Kinds)]
      /\ \A p \in Partitions : Len(log[p]) <= MaxLog
      /\ committed \in [Partitions -> NoCommit..MaxLog]
    BY DEF NoCommit
<1>2. position \in Offsets /\ origin \in Offsets /\ snapshot \in Offsets
    BY DEF Offsets
<1>3. queue \in Seq(Ops) /\ Len(queue) <= QueueMax
    OBVIOUS
<1>4. putting \in Seq(Ops) /\ Len(putting) <= 1 /\ batch \in Seq(Ops)
    OBVIOUS
<1>5. store \in SUBSET Ops /\ proc \in {"up", "stopping", "down"}
    OBVIOUS
<1>6. runs \in 1..MaxRuns /\ executed \in Nat
    OBVIOUS
<1>7. ready \in BOOLEAN
    OBVIOUS
<1>8. consumer \in ConsumerStates /\ worker \in WorkerStates
    BY DEF ConsumerStates, WorkerStates
<1> QED
    BY <1>1, <1>2, <1>3, <1>4, <1>5, <1>6, <1>7, <1>8 DEF TypeOK

\* Every step of the two coroutines and of the process keeps the types; the queue
\* stays within its bound because put() checks it.
LEMMA TypeStep == TypeOK /\ [Next]_vars => TypeOK'
<1> SUFFICES ASSUME TypeOK, [Next]_vars PROVE TypeOK'
    OBVIOUS
<1> USE CacheAssumption DEF TypeOK, broker, process, intake, flusher
<1>1. ASSUME NEW p \in Partitions, NEW kind \in Kinds, Produce(p, kind)
      PROVE  TypeOK'
    BY <1>1 DEF Produce
<1>2. CASE StartConsumer
  <2>1. position' \in Offsets /\ origin' \in Offsets
    BY <1>2 DEF StartConsumer, NoCommit, Offsets
  <2> QED
    BY <1>2, <2>1 DEF StartConsumer, ConsumerStates, WorkerStates
<1>3. CASE StartGivesUp
    BY <1>3 DEF StartGivesUp, ConsumerStates
<1>4. ASSUME NEW p \in Partitions, CanFetch(p)
      PROVE  Advance(p) \in Offsets /\ NextOp(p) \in Ops
    BY <1>4 DEF CanFetch, Advance, NextOp, Offsets, Ops
<1>5. ASSUME NEW p \in Partitions, FetchSkip(p) PROVE TypeOK'
    BY <1>4, <1>5 DEF FetchSkip
<1>6. ASSUME NEW p \in Partitions, FetchOp(p) PROVE TypeOK'
  <2>1. queue' \in Seq(Ops) /\ Len(queue') <= QueueMax
    BY <1>4, <1>6 DEF FetchOp
  <2> QED
    BY <1>4, <1>6, <2>1 DEF FetchOp
<1>7. ASSUME NEW p \in Partitions, FetchOpBlocks(p) PROVE TypeOK'
  <2>1. putting' \in Seq(Ops) /\ Len(putting') <= 1
    BY <1>4, <1>7 DEF FetchOpBlocks
  <2> QED
    BY <1>4, <1>7, <2>1 DEF FetchOpBlocks, ConsumerStates
<1>8. ASSUME NEW p \in Partitions, FetchBad(p) PROVE TypeOK'
    BY <1>4, <1>8 DEF FetchBad, ConsumerStates
<1>9. CASE PutReturns
  <2>1. queue' \in Seq(Ops) /\ Len(queue') <= QueueMax
    BY <1>9 DEF PutReturns
  <2> QED
    BY <1>9, <2>1 DEF PutReturns, ConsumerStates
<1>10. CASE ConsumerCloses
    BY <1>10 DEF ConsumerCloses, ConsumerStates
<1>11. ASSUME queue # <<>>
       PROVE  /\ Tail(queue) \in Seq(Ops) /\ Len(Tail(queue)) <= QueueMax
              /\ Append(batch, Head(queue)) \in Seq(Ops)
    BY <1>11
<1>12. CASE GetNoFlush
    BY <1>11, <1>12, LoopHeadType DEF GetNoFlush, WorkerStates
<1>13. CASE GetFlush
    BY <1>11, <1>13 DEF GetFlush, WorkerStates
<1>14. CASE GetTimeout
    BY <1>14, LoopHeadType DEF GetTimeout, WorkerStates
<1>15. CASE RedisExecutes
  <2>1. batch[executed + 1] \in Ops
    BY <1>15 DEF RedisExecutes
  <2> QED
    BY <1>15, <2>1 DEF RedisExecutes
<1>16. CASE ApplyOk
    BY <1>16 DEF ApplyOk, WorkerStates
<1>17. CASE ApplyFails
    BY <1>17 DEF ApplyFails, WorkerStates
<1>18. CASE RetryDelayOver
    BY <1>18, LoopHeadType DEF RetryDelayOver, WorkerStates
<1>19. CASE BrokerCommits
  <2>1. committed' \in [Partitions -> NoCommit..MaxLog]
    BY <1>19 DEF BrokerCommits, NoCommit, Offsets
  <2> QED
    BY <1>19, <2>1 DEF BrokerCommits
<1>20. CASE CommitReturns
    BY <1>20, LoopHeadType DEF CommitReturns, WorkerStates
<1>21. CASE FinalOk
    BY <1>21 DEF FinalOk, WorkerStates
<1>22. CASE FinalFails
  <2>1. dropped' \in SUBSET Ops /\ batch' \in Seq(Ops)
    BY <1>22 DEF FinalFails, Range
  <2> QED
    BY <1>22, <2>1 DEF FinalFails, WorkerStates
<1>23. CASE FinalCommitReturns
    BY <1>23 DEF FinalCommitReturns, WorkerStates
<1>24. CASE Shutdown
  <2>1. /\ consumer' \in ConsumerStates /\ worker' \in WorkerStates
        /\ putting' \in Seq(Ops) /\ Len(putting') <= 1 /\ executed' \in Nat
    <3>1. CASE CancelStarting
        BY <3>1 DEF CancelStarting, ConsumerStates
    <3>2. CASE CancelLoop
        BY <3>2 DEF CancelLoop, ConsumerStates
    <3>3. CASE CancelClosing
        BY <3>3 DEF CancelClosing, ConsumerStates, WorkerStates
    <3>4. CASE CancelFinished
        BY <3>4 DEF CancelFinished
    <3> QED
        BY <1>24, <3>1, <3>2, <3>3, <3>4 DEF Shutdown
  <2> QED
    BY <1>24, <2>1 DEF Shutdown
<1>25. ASSUME Vanish PROVE TypeOK'
  <2>1. queue' \in Seq(Ops) /\ Len(queue') <= QueueMax
    BY <1>25 DEF Vanish
  <2>2. putting' \in Seq(Ops) /\ Len(putting') <= 1 /\ batch' \in Seq(Ops)
    BY <1>25 DEF Vanish
  <2> QED
    BY <1>25, <2>1, <2>2 DEF Vanish, ConsumerStates, WorkerStates
<1>26. CASE Restart
    BY <1>26 DEF Restart, ConsumerStates
<1>27. CASE UNCHANGED vars
    BY <1>27 DEF vars
<1> QED
  <2> HIDE DEF TypeOK
  <2> QED
    BY <1>1, <1>2, <1>3, <1>5, <1>6, <1>7, <1>8, <1>9, <1>10, <1>12, <1>13, <1>14,
       <1>15, <1>16, <1>17, <1>18, <1>19, <1>20, <1>21, <1>22, <1>23, <1>24, <1>25,
       <1>26, <1>27
    DEF Next, ConsumerStep, WorkerStep, Exit, Crash

\* Every variable of the cache consumer keeps its type; in particular the queue
\* never holds more than redis_queue_max_size operations (put() suspends).
THEOREM TypeCorrect == Spec => []TypeOK
<1>1. Init => TypeOK
    BY TypeInit
<1>2. TypeOK /\ [Next]_vars => TypeOK'
    BY TypeStep
<1> QED
    BY <1>1, <1>2, PTL DEF Spec

-----------------------------------------------------------------------------
(* The inductive invariant *)

\* Which states of the two coroutines and of the process go together.
PhaseInv ==
    /\ consumer = "starting" => worker = "none" /\ batch = <<>> /\ queue = <<>>
    /\ Consuming => worker \in {"get", "wait", "apply", "sleep", "commit"}
    /\ consumer = "closing" => worker \notin {"none", "cancelled"}
    /\ consumer = "over" => worker \in {"none", "done", "cancelled"}
    /\ consumer = "put" <=> putting # <<>>
    /\ proc = "down" => /\ consumer = "over" /\ worker = "none"
                        /\ batch = <<>> /\ queue = <<>>
    /\ proc = "stopping" => consumer \in {"closing", "over"}
    /\ worker \in {"final", "finalCommit"} => queue = <<>>
    /\ dropped # {} => worker = "done"

\* What Redis has of the batch in flight: a prefix, and all of it at a commit.
ExecutedInv ==
    /\ executed <= Len(batch)
    /\ \A i \in 1..executed : batch[i] \in store
    /\ worker \in {"commit", "finalCommit"} =>
         \A i \in DOMAIN batch : batch[i] \in store
    /\ worker \notin {"apply", "final"} => executed = 0

\* All operations in hand, oldest first, come before the client's position.
AllInHand == batch \o queue \o putting

LineInv ==
    /\ InOrder(AllInHand)
    /\ \A i \in DOMAIN AllInHand :
          AllInHand[i].index <= position[AllInHand[i].partition]

PositionInv == \A p \in Partitions : position[p] <= Len(log[p])

CommitInv ==
    /\ \A p \in Partitions : committed[p] <= position[p]
    /\ worker \in {"commit", "finalCommit"} =>
         \A p \in Partitions : committed[p] <= snapshot[p] /\ snapshot[p] <= position[p]

\* The step of CommitMonotone.
CommitStepMonotone == \A p \in Partitions : committed[p] <= committed'[p]

IInv == /\ TypeOK /\ PhaseInv /\ ExecutedInv /\ LineInv /\ PositionInv
        /\ CommitInv /\ NoSilentLoss

\* Initially the consumer task is starting and nothing is in hand.
LEMMA PhaseInit == Init => PhaseInv
BY DEF Init, PhaseInv, Consuming

\* Consumer, worker and process only move between the combinations of states
\* PhaseInv lists: the worker lives from the start of the client to its close.
LEMMA PhaseStep == TypeOK /\ PhaseInv /\ [Next]_vars => PhaseInv'
<1> SUFFICES ASSUME TypeOK, PhaseInv, [Next]_vars PROVE PhaseInv'
    OBVIOUS
<1> USE DEF PhaseInv, Consuming, broker, process, intake, flusher
<1>0. queue \in Seq(Ops) /\ batch \in Seq(Ops) /\ putting \in Seq(Ops)
    BY DEF TypeOK
<1>1. ASSUME NEW p \in Partitions, NEW kind \in Kinds, Produce(p, kind)
      PROVE  PhaseInv'
    BY <1>1 DEF Produce
<1>2. CASE StartConsumer
    BY <1>2 DEF StartConsumer
<1>3. CASE StartGivesUp
    BY <1>3 DEF StartGivesUp
<1>4. ASSUME NEW p \in Partitions, FetchSkip(p) PROVE PhaseInv'
    BY <1>4 DEF FetchSkip, CanFetch
<1>5. ASSUME NEW p \in Partitions, FetchOp(p) PROVE PhaseInv'
    BY <1>5 DEF FetchOp, CanFetch
<1>6. ASSUME NEW p \in Partitions, FetchOpBlocks(p) PROVE PhaseInv'
    BY <1>6 DEF FetchOpBlocks, CanFetch
<1>7. ASSUME NEW p \in Partitions, FetchBad(p) PROVE PhaseInv'
    BY <1>7 DEF FetchBad, CanFetch
<1>8. CASE PutReturns
    BY <1>8 DEF PutReturns
<1>9. CASE ConsumerCloses
    BY <1>9 DEF ConsumerCloses
<1>10. CASE GetNoFlush
    BY <1>0, <1>10 DEF GetNoFlush, LoopHead, StopSet
<1>11. CASE GetFlush
    BY <1>0, <1>11 DEF GetFlush
<1>12. CASE GetTimeout
    BY <1>12 DEF GetTimeout, LoopHead, StopSet
<1>13. CASE RedisExecutes
    BY <1>13 DEF RedisExecutes
<1>14. CASE ApplyOk
    BY <1>14 DEF ApplyOk
<1>15. CASE ApplyFails
    BY <1>15 DEF ApplyFails
<1>16. CASE RetryDelayOver
    BY <1>16 DEF RetryDelayOver, LoopHead, StopSet
<1>17. CASE BrokerCommits
    BY <1>17 DEF BrokerCommits
<1>18. CASE CommitReturns
    BY <1>18 DEF CommitReturns, LoopHead, StopSet
<1>19. CASE FinalOk
    BY <1>19 DEF FinalOk
<1>20. CASE FinalFails
    BY <1>20 DEF FinalFails
<1>21. CASE FinalCommitReturns
    BY <1>21 DEF FinalCommitReturns
<1>22. CASE Shutdown
    BY <1>22 DEF Shutdown, CancelStarting, CancelLoop, CancelClosing, CancelFinished
<1>23. ASSUME Vanish PROVE PhaseInv'
    BY <1>23 DEF Vanish
<1>24. CASE Restart
    BY <1>24 DEF Restart
<1>25. CASE UNCHANGED vars
    BY <1>25 DEF vars
<1> QED
  <2> HIDE DEF PhaseInv
  <2> QED
    BY <1>1, <1>2, <1>3, <1>4, <1>5, <1>6, <1>7, <1>8, <1>9, <1>10, <1>11, <1>12,
       <1>13, <1>14, <1>15, <1>16, <1>17, <1>18, <1>19, <1>20, <1>21, <1>22, <1>23,
       <1>24, <1>25
    DEF Next, ConsumerStep, WorkerStep, Exit, Crash

\* Initially no pipeline is in flight.
LEMMA ExecutedInit == Init => ExecutedInv
BY DEF Init, ExecutedInv

\* The worker commits only behind a pipeline Redis has executed to its end.
LEMMA ExecutedStep == TypeOK /\ PhaseInv /\ ExecutedInv /\ [Next]_vars => ExecutedInv'
<1> SUFFICES ASSUME TypeOK, PhaseInv, ExecutedInv, [Next]_vars PROVE ExecutedInv'
    OBVIOUS
<1> USE DEF ExecutedInv, broker, process, intake, flusher
<1>0. /\ batch \in Seq(Ops) /\ queue \in Seq(Ops) /\ executed \in Nat
      /\ Len(batch) \in Nat
    BY DEF TypeOK
<1>1. ASSUME UNCHANGED <<worker, batch, executed, store>> PROVE ExecutedInv'
    BY <1>1
<1>2. CASE StartConsumer
    BY <1>2 DEF StartConsumer, PhaseInv
<1>3. CASE GetNoFlush \/ GetFlush
  <2>1. /\ worker \in {"get", "wait"} /\ queue # <<>> /\ executed' = executed
        /\ batch' = Append(batch, Head(queue))
        /\ worker' \in {"get", "wait", "final", "done", "apply"}
    BY <1>3, LoopHeadType DEF GetNoFlush, GetFlush
  <2>2. executed' = 0 /\ Len(batch') \in Nat
    BY <1>0, <2>1
  <2> QED
    BY <2>1, <2>2
<1>4. CASE GetTimeout
    BY <1>4, LoopHeadType DEF GetTimeout
<1>5. CASE RedisExecutes
    BY <1>0, <1>5 DEF RedisExecutes
<1>6. CASE ApplyOk
    BY <1>0, <1>6 DEF ApplyOk
<1>7. CASE ApplyFails
    BY <1>0, <1>7 DEF ApplyFails
<1>8. CASE RetryDelayOver
    BY <1>8, LoopHeadType DEF RetryDelayOver
<1>9. CASE BrokerCommits
    BY <1>9 DEF BrokerCommits
<1>10. CASE CommitReturns
  <2>1. batch' = <<>> /\ worker' \in {"get", "wait", "final", "done"} /\ executed' = 0
    BY <1>10, LoopHeadType DEF CommitReturns
  <2> QED
    BY <2>1
<1>11. CASE FinalOk
    BY <1>0, <1>11 DEF FinalOk
<1>12. CASE FinalFails
    BY <1>0, <1>12 DEF FinalFails
<1>13. CASE FinalCommitReturns
    BY <1>13 DEF FinalCommitReturns
<1>14. CASE Shutdown
  <2>1. CASE CancelClosing
    BY <1>0, <1>14, <2>1 DEF Shutdown, CancelClosing
  <2>2. CASE CancelStarting \/ CancelLoop \/ CancelFinished
    BY <1>1, <1>14, <2>2 DEF Shutdown, CancelStarting, CancelLoop, CancelFinished
  <2> QED
    BY <1>14, <2>1, <2>2 DEF Shutdown
<1>15. ASSUME Vanish PROVE ExecutedInv'
    BY <1>15 DEF Vanish
<1>16. CASE UNCHANGED vars
    BY <1>1, <1>16 DEF vars
<1>17. ASSUME \/ \E p \in Partitions, kind \in Kinds : Produce(p, kind)
              \/ \E p \in Partitions : FetchSkip(p) \/ FetchOp(p) \/ FetchOpBlocks(p)
                                       \/ FetchBad(p)
              \/ StartGivesUp \/ PutReturns \/ ConsumerCloses \/ Restart
       PROVE  UNCHANGED <<worker, batch, executed, store>>
    BY <1>17 DEF Produce, FetchSkip, FetchOp, FetchOpBlocks, FetchBad, StartGivesUp,
                 PutReturns, ConsumerCloses, Restart
<1> QED
  <2> HIDE DEF ExecutedInv
  <2> QED
    BY <1>1, <1>2, <1>3, <1>4, <1>5, <1>6, <1>7, <1>8, <1>9, <1>10, <1>11, <1>12,
       <1>13, <1>14, <1>15, <1>16, <1>17
    DEF Next, ConsumerStep, WorkerStep, Exit, Crash

-----------------------------------------------------------------------------
\* Initially client and broker are at the beginning of empty partitions.
LEMMA PositionInit == Init => PositionInv /\ CommitInv
BY DEF Init, PositionInv, CommitInv, NoCommit

\* Fetching and a start move the client inside the log; the log only grows.
LEMMA PositionStep == TypeOK /\ PositionInv /\ CommitInv /\ [Next]_vars => PositionInv'
<1> SUFFICES ASSUME TypeOK, PositionInv, CommitInv, [Next]_vars PROVE PositionInv'
    OBVIOUS
<1> USE DEF PositionInv, broker, process, intake, flusher
<1>0. /\ log \in [Partitions -> Seq(Kinds)] /\ position \in [Partitions -> Int]
      /\ committed \in [Partitions -> Int]
    BY CacheAssumption DEF TypeOK, Offsets, NoCommit
<1>1. ASSUME UNCHANGED <<log, position>> PROVE PositionInv'
    BY <1>1
<1>2. ASSUME NEW p \in Partitions, NEW kind \in Kinds, Produce(p, kind)
      PROVE  PositionInv'
  <2>1. ASSUME NEW q \in Partitions PROVE Len(log'[q]) >= Len(log[q])
    BY <1>0, <1>2 DEF Produce
  <2>2. position' = position
    BY <1>2 DEF Produce
  <2>3. \A q \in Partitions : Len(log[q]) \in Nat /\ Len(log'[q]) \in Nat
    BY <1>0, <1>2 DEF Produce
  <2> QED
    BY <1>0, <2>1, <2>2, <2>3
<1>3. CASE StartConsumer
  <2>1. \A q \in Partitions : committed[q] <= Len(log[q]) /\ Len(log[q]) \in Nat
    BY <1>0 DEF CommitInv
  <2> QED
    BY <1>0, <1>3, <2>1 DEF StartConsumer
<1>4. ASSUME NEW p \in Partitions, CanFetch(p), position' \in {position, Advance(p)},
             UNCHANGED log
      PROVE  PositionInv'
    BY <1>0, <1>4 DEF CanFetch, Advance
<1>5. ASSUME NEW p \in Partitions,
             FetchSkip(p) \/ FetchOp(p) \/ FetchOpBlocks(p) \/ FetchBad(p)
      PROVE  PositionInv'
    BY <1>4, <1>5 DEF FetchSkip, FetchOp, FetchOpBlocks, FetchBad
<1>6. ASSUME \/ StartGivesUp \/ PutReturns \/ ConsumerCloses \/ WorkerStep
             \/ Shutdown \/ Exit \/ Crash \/ Restart \/ UNCHANGED vars
      PROVE  UNCHANGED <<log, position>>
    BY <1>6 DEF StartGivesUp, PutReturns, ConsumerCloses, WorkerStep, GetNoFlush,
        GetFlush, GetTimeout, RedisExecutes, ApplyOk, ApplyFails, RetryDelayOver,
        BrokerCommits, CommitReturns, FinalOk, FinalFails, FinalCommitReturns,
        Shutdown, Exit, Crash, Vanish, Restart, vars
<1> QED
  <2> HIDE DEF PositionInv
  <2> QED
    BY <1>1, <1>2, <1>3, <1>5, <1>6 DEF Next, ConsumerStep

\* The offset at the broker trails the snapshot of the commit in flight, and that
\* trails the position; a new run starts at the offset it finds.
LEMMA CommitStep == TypeOK /\ CommitInv /\ [Next]_vars => CommitInv' /\ CommitStepMonotone
<1> SUFFICES ASSUME TypeOK, CommitInv, [Next]_vars
             PROVE  CommitInv' /\ CommitStepMonotone
    OBVIOUS
<1> USE DEF CommitInv, CommitStepMonotone, broker, process, intake, flusher
<1>0. /\ committed \in [Partitions -> Int] /\ position \in [Partitions -> Int]
      /\ snapshot \in [Partitions -> Int]
    BY CacheAssumption DEF TypeOK, Offsets, NoCommit
<1>1. ASSUME UNCHANGED <<committed, snapshot>>, 
             \A p \in Partitions : position[p] <= position'[p] /\ position'[p] \in Int,
             worker' \in {"commit", "finalCommit"} => worker' = worker
      PROVE  CommitInv' /\ CommitStepMonotone
    BY <1>0, <1>1
<1>2. CASE StartConsumer
  <2>1. \A p \in Partitions : committed[p] <= position'[p]
    <3>1. log \in [Partitions -> Seq(Kinds)]
        BY DEF TypeOK
    <3> QED
        BY <1>0, <1>2, <3>1 DEF StartConsumer, NoCommit
  <2> QED
    BY <1>0, <1>2, <2>1 DEF StartConsumer
<1>3. ASSUME NEW p \in Partitions,
             FetchSkip(p) \/ FetchOp(p) \/ FetchOpBlocks(p) \/ FetchBad(p)
      PROVE  CommitInv' /\ CommitStepMonotone
  <2>1. UNCHANGED <<committed, snapshot, worker>> /\ position' \in {position, Advance(p)}
    BY <1>3 DEF FetchSkip, FetchOp, FetchOpBlocks, FetchBad
  <2>2. \A q \in Partitions : position[q] <= position'[q] /\ position'[q] \in Int
    BY <1>0, <2>1 DEF Advance
  <2> QED
    BY <1>1, <2>1, <2>2
<1>4. CASE ApplyOk
    BY <1>0, <1>4 DEF ApplyOk
<1>5. CASE FinalOk
    BY <1>0, <1>5 DEF FinalOk
<1>6. CASE BrokerCommits
    BY <1>0, <1>6 DEF BrokerCommits
<1>7. ASSUME \/ \E p \in Partitions, kind \in Kinds : Produce(p, kind)
             \/ StartGivesUp \/ PutReturns \/ ConsumerCloses \/ GetNoFlush \/ GetFlush
             \/ GetTimeout \/ RedisExecutes \/ ApplyFails \/ RetryDelayOver
             \/ CommitReturns \/ FinalFails \/ FinalCommitReturns \/ Shutdown
             \/ Exit \/ Crash \/ Restart \/ UNCHANGED vars
      PROVE  CommitInv' /\ CommitStepMonotone
  <2>1. UNCHANGED <<committed, snapshot, position>>
    BY <1>7 DEF Produce, StartGivesUp, PutReturns, ConsumerCloses, GetNoFlush, GetFlush,
        GetTimeout, RedisExecutes, ApplyFails, RetryDelayOver, CommitReturns,
        FinalFails, FinalCommitReturns, Shutdown, Exit, Crash, Vanish, Restart, vars
  <2>2. worker' \in {"commit", "finalCommit"} => worker' = worker
    BY <1>7, LoopHeadType DEF Produce, StartGivesUp, PutReturns, ConsumerCloses,
        GetNoFlush, GetFlush, GetTimeout, RedisExecutes, ApplyFails, RetryDelayOver,
        CommitReturns, FinalFails, FinalCommitReturns, Shutdown, CancelStarting,
        CancelLoop, CancelClosing, CancelFinished, Exit, Crash, Vanish, Restart, vars
  <2> QED
    BY <1>0, <1>1, <2>1, <2>2
<1> QED
  <2> HIDE DEF CommitInv, CommitStepMonotone
  <2> QED
    BY <1>2, <1>3, <1>4, <1>5, <1>6, <1>7 DEF Next, ConsumerStep, WorkerStep

-----------------------------------------------------------------------------
(* The line of operations in hand *)

\* What get() does to batch and queue leaves their concatenation as it is.
LEMMA MoveHead ==
    ASSUME NEW S, NEW b \in Seq(S), NEW q \in Seq(S), q # <<>>
    PROVE  Append(b, Head(q)) \o Tail(q) = b \o q
<1> DEFINE l == Append(b, Head(q)) \o Tail(q)
           r == b \o q
<1>1. /\ Head(q) \in S /\ Tail(q) \in Seq(S) /\ Len(Tail(q)) = Len(q) - 1
      /\ Append(b, Head(q)) \in Seq(S) /\ Len(Append(b, Head(q))) = Len(b) + 1
    OBVIOUS
<1>2. l \in Seq(S) /\ r \in Seq(S) /\ Len(l) = Len(b) + Len(q) /\ Len(r) = Len(b) + Len(q)
    BY <1>1
<1>3. ASSUME NEW i \in 1..(Len(b) + Len(q)) PROVE l[i] = r[i]
    BY <1>1
<1> QED
    BY <1>2, <1>3, SeqEqual

\* Without the batch in front, the rest of the line is left.
LEMMA DropFront ==
    ASSUME NEW S, NEW b \in Seq(S), NEW r \in Seq(S)
    PROVE  SubSeq(b \o r, Len(b) + 1, Len(b \o r)) = r
<1> DEFINE l == SubSeq(b \o r, Len(b) + 1, Len(b \o r))
<1>1. b \o r \in Seq(S) /\ Len(b \o r) = Len(b) + Len(r)
    OBVIOUS
<1>2. l \in Seq(S) /\ Len(l) = Len(r)
    BY <1>1
<1>3. ASSUME NEW i \in 1..Len(r) PROVE l[i] = r[i]
    BY <1>1
<1> QED
    BY <1>2, <1>3, SeqEqual

\* Without the last operation, the line in front of it is left.
LEMMA DropBack ==
    ASSUME NEW S, NEW s \in Seq(S), NEW e \in S
    PROVE  SubSeq(s \o <<e>>, 1, Len(s \o <<e>>) - 1) = s
<1> DEFINE l == SubSeq(s \o <<e>>, 1, Len(s \o <<e>>) - 1)
<1>1. s \o <<e>> \in Seq(S) /\ Len(s \o <<e>>) = Len(s) + 1
    OBVIOUS
<1>2. l \in Seq(S) /\ Len(l) = Len(s)
    BY <1>1
<1>3. ASSUME NEW i \in 1..Len(s) PROVE l[i] = s[i]
    BY <1>1
<1> QED
    BY <1>2, <1>3, SeqEqual

\* A suspended put holds exactly one operation.
LEMMA SingletonSeq ==
    ASSUME NEW S, NEW s \in Seq(S), s # <<>>, Len(s) <= 1
    PROVE  \E e \in S : s = <<e>>
<1>1. Len(s) \in Nat \ {0}
    BY EmptySeq, Zenon
<1>2. Len(s) = 1
    BY <1>1
<1>3. s[1] \in S
    BY <1>2
<1>4. /\ <<s[1]>> \in Seq(S) /\ Len(<<s[1]>>) = 1
      /\ \A i \in 1..Len(s) : s[i] = <<s[1]>>[i]
    BY <1>2, <1>3
<1>5. s = <<s[1]>>
    BY <1>2, <1>4, SeqEqual
<1> QED
    BY <1>3, <1>5

\* An operation read from Kafka joins the line at its end.
LEMMA LineFetch ==
    ASSUME TypeOK, PhaseInv, NEW p \in Partitions, FetchOp(p) \/ FetchOpBlocks(p)
    PROVE  AllInHand' = Append(AllInHand, NextOp(p)) /\ NextOp(p) \in Ops
<1>1. /\ batch \in Seq(Ops) /\ queue \in Seq(Ops) /\ putting = <<>>
      /\ batch' = batch /\ CanFetch(p)
    BY DEF TypeOK, PhaseInv, FetchOp, FetchOpBlocks, CanFetch, flusher
<1>2. NextOp(p) \in Ops
    BY <1>1, CacheAssumption DEF TypeOK, Offsets, CanFetch, NextOp, Ops
<1>3. batch \o queue \in Seq(Ops)
    BY <1>1
<1>4. AllInHand = batch \o queue
    BY <1>1, <1>3, ConcatEmptySeq DEF AllInHand
<1>5. Append(AllInHand, NextOp(p)) = (batch \o queue) \o <<NextOp(p)>>
    BY <1>2, <1>3, <1>4, AppendIsConcat
<1>6. CASE FetchOp(p)
  <2>1. queue' = queue \o <<NextOp(p)>> /\ putting' = <<>>
    BY <1>1, <1>2, <1>6, AppendIsConcat DEF FetchOp
  <2>2. AllInHand' = batch \o (queue \o <<NextOp(p)>>)
    BY <1>1, <1>2, <2>1, ConcatEmptySeq DEF AllInHand
  <2> QED
    BY <1>1, <1>2, <1>5, <2>2, ConcatAssociative
<1>7. CASE FetchOpBlocks(p)
    BY <1>1, <1>2, <1>5, <1>7 DEF FetchOpBlocks, AllInHand
<1> QED
    BY <1>2, <1>6, <1>7

\* get() and the end of a suspended put() move an operation inside the line.
LEMMA LineKept ==
    ASSUME TypeOK,
           GetNoFlush \/ GetFlush \/ PutReturns \/ UNCHANGED <<batch, queue, putting>>
    PROVE  AllInHand' = AllInHand
<1>1. batch \in Seq(Ops) /\ queue \in Seq(Ops) /\ putting \in Seq(Ops)
    BY DEF TypeOK
<1>2. CASE GetNoFlush \/ GetFlush
  <2>1. /\ queue # <<>> /\ batch' = Append(batch, Head(queue))
        /\ queue' = Tail(queue) /\ putting' = putting
    BY <1>2 DEF GetNoFlush, GetFlush, intake
  <2> QED
    BY <1>1, <2>1, MoveHead DEF AllInHand
<1>3. CASE PutReturns
  <2>1. AllInHand' = (batch \o (queue \o putting)) \o <<>>
    BY <1>3 DEF PutReturns, AllInHand, flusher
  <2>2. AllInHand' = batch \o (queue \o putting)
    BY <1>1, <2>1, ConcatEmptySeq
  <2>3. batch \o (queue \o putting) = (batch \o queue) \o putting
    BY <1>1, ConcatAssociative
  <2> QED
    BY <2>2, <2>3 DEF AllInHand
<1> QED
    BY <1>2, <1>3 DEF AllInHand

\* The written batch leaves at the front.
LEMMA LineRetired ==
    ASSUME TypeOK, CommitReturns
    PROVE  AllInHand' = SubSeq(AllInHand, Len(batch) + 1, Len(AllInHand))
<1>1. batch \in Seq(Ops) /\ queue \in Seq(Ops) /\ putting \in Seq(Ops)
    BY DEF TypeOK
<1>2. AllInHand = batch \o (queue \o putting)
    BY <1>1, ConcatAssociative DEF AllInHand
<1>3. batch' = <<>> /\ queue' = queue /\ putting' = putting
    BY DEF CommitReturns, intake
<1>4. AllInHand' = queue \o putting
    BY <1>1, <1>3, ConcatEmptySeq DEF AllInHand
<1>5. queue \o putting \in Seq(Ops)
    BY <1>1
<1> QED
    BY <1>1, <1>2, <1>4, <1>5, DropFront

\* When the final flush fails the worker holds all that is left, and drops it.
LEMMA LineDropped ==
    ASSUME TypeOK, PhaseInv, FinalFails
    PROVE  /\ AllInHand = batch /\ AllInHand' = <<>>
           /\ consumer = "closing" /\ queue = <<>> /\ putting = <<>>
<1>1. consumer = "closing" /\ queue = <<>> /\ putting = <<>>
    BY DEF FinalFails, PhaseInv, Consuming, TypeOK, ConsumerStates
<1>2. batch \in Seq(Ops) /\ UNCHANGED <<queue, putting>> /\ batch' = <<>>
    BY DEF TypeOK, FinalFails, intake
<1>3. AllInHand = batch
    BY <1>1, <1>2, ConcatEmptySeq DEF AllInHand
<1>4. AllInHand' = <<>>
    BY <1>1, <1>2, ConcatEmptySeq DEF AllInHand
<1> QED
    BY <1>1, <1>3, <1>4

\* A cancelled put() takes its operation, the last of the line, with it.
LEMMA LineCancelled ==
    ASSUME TypeOK, putting' = <<>>, UNCHANGED <<batch, queue>>
    PROVE  \/ AllInHand' = AllInHand
           \/ AllInHand' = SubSeq(AllInHand, 1, Len(AllInHand) - 1)
<1>1. batch \in Seq(Ops) /\ queue \in Seq(Ops) /\ putting \in Seq(Ops) /\ Len(putting) <= 1
    BY DEF TypeOK
<1>2. batch \o queue \in Seq(Ops)
    BY <1>1
<1>3. AllInHand' = batch \o queue
    BY <1>2, ConcatEmptySeq DEF AllInHand
<1>4. CASE putting = <<>>
    BY <1>4 DEF AllInHand
<1>5. CASE putting # <<>>
  <2>2. PICK e \in Ops : putting = <<e>>
    BY <1>1, <1>5, SingletonSeq
  <2>3. AllInHand = (batch \o queue) \o <<e>>
    BY <2>2 DEF AllInHand
  <2>4. SubSeq(AllInHand, 1, Len(AllInHand) - 1) = batch \o queue
    BY <1>2, <2>3, DropBack
  <2> QED
    BY <1>3, <2>4
<1> QED
    BY <1>4, <1>5

-----------------------------------------------------------------------------
\* A part of a line in order is in order, and has no other elements.
LEMMA InOrderSub ==
    ASSUME NEW s \in Seq(Ops), NEW m \in Nat \ {0}, NEW n \in Int, n <= Len(s), InOrder(s)
    PROVE  /\ InOrder(SubSeq(s, m, n))
           /\ \A i \in DOMAIN SubSeq(s, m, n) :
                 \E j \in DOMAIN s : SubSeq(s, m, n)[i] = s[j]
<1> DEFINE u == SubSeq(s, m, n)
<1>1. \A i \in m..n : s[i] \in Ops
    OBVIOUS
<1>2. /\ Len(u) = IF m <= n THEN n - m + 1 ELSE 0
      /\ \A i \in 1..(n - m + 1) : u[i] = s[m + i - 1]
      /\ u \in Seq(Ops)
    BY <1>1, SubSeqProperties
<1>3. ASSUME NEW i \in DOMAIN u
      PROVE  m + i - 1 \in DOMAIN s /\ u[i] = s[m + i - 1] /\ i \in Int
    BY <1>2
<1>4. ASSUME NEW i \in DOMAIN u, NEW j \in DOMAIN u, i < j,
             u[i].partition = u[j].partition
      PROVE  u[i].index < u[j].index
  <2>1. m + i - 1 < m + j - 1
    BY <1>3, <1>4
  <2> QED
    BY <1>3, <1>4, <2>1 DEF InOrder
<1> HIDE DEF u
<1>5. InOrder(u)
    BY <1>4 DEF InOrder
<1> QED
    BY <1>3, <1>5 DEF u

\* A line in order stays so when a newer operation joins at its end.
LEMMA InOrderAppend ==
    ASSUME NEW s \in Seq(Ops), NEW op \in Ops, InOrder(s),
           \A i \in DOMAIN s : s[i].partition = op.partition => s[i].index < op.index
    PROVE  InOrder(Append(s, op))
BY DEF InOrder

\* Initially the line of operations in hand is empty.
LEMMA LineInit == Init => LineInv
BY DEF Init, LineInv, AllInHand, InOrder

\* Queue, put, batch, retry and cancellation keep the line in the order of the
\* partitions, behind the position of the client.
LEMMA LineStep ==
    TypeOK /\ PhaseInv /\ LineInv /\ [Next]_vars => LineInv'
<1> SUFFICES ASSUME TypeOK, PhaseInv, LineInv, [Next]_vars PROVE LineInv'
    OBVIOUS
<1> DEFINE L == AllInHand
<1>0. /\ L \in Seq(Ops) /\ position \in [Partitions -> Int]
      /\ \A i \in DOMAIN L : L[i].partition \in Partitions /\ L[i].index \in Int
  <2>1. L \in Seq(Ops)
    BY DEF TypeOK, AllInHand
  <2>2. position \in [Partitions -> Int]
    BY CacheAssumption DEF TypeOK, Offsets
  <2>3. \A i \in DOMAIN L : L[i] \in Ops
    BY <2>1
  <2>4. \A op \in Ops : op.partition \in Partitions /\ op.index \in Int
    BY DEF Ops
  <2> QED
    BY <2>1, <2>2, <2>3, <2>4
<1>1. ASSUME L' = L, \A p \in Partitions : position[p] <= position'[p] /\ position'[p] \in Int
      PROVE  LineInv'
    BY <1>0, <1>1 DEF LineInv
<1>2. ASSUME UNCHANGED position, InOrder(L'),
             \A i \in DOMAIN L' : \E j \in DOMAIN L : L'[i] = L[j]
      PROVE  LineInv'
    BY <1>0, <1>2 DEF LineInv
<1>3. CASE StartConsumer
    BY <1>3 DEF StartConsumer, PhaseInv, Consuming, LineInv, AllInHand, InOrder
<1>4. ASSUME NEW p \in Partitions, FetchSkip(p) \/ FetchBad(p) PROVE LineInv'
  <2>1. UNCHANGED <<batch, queue, putting>> /\ position' \in {position, Advance(p)}
    BY <1>4 DEF FetchSkip, FetchBad, flusher
  <2>2. \A q \in Partitions : position[q] <= position'[q] /\ position'[q] \in Int
    BY <1>0, <2>1 DEF Advance
  <2> QED
    BY <1>1, <2>1, <2>2, LineKept
<1>5. ASSUME NEW p \in Partitions, FetchOp(p) \/ FetchOpBlocks(p) PROVE LineInv'
  <2>1. L' = Append(L, NextOp(p)) /\ NextOp(p) \in Ops
    BY <1>5, LineFetch
  <2>2. position' = Advance(p)
    BY <1>5 DEF FetchOp, FetchOpBlocks
  <2>3. /\ \A q \in Partitions : position[q] <= position'[q] /\ position'[q] \in Int
        /\ position'[p] = position[p] + 1
    BY <1>0, <2>2 DEF Advance
  <2>4. \A i \in DOMAIN L : L[i].partition = p => L[i].index < position[p] + 1
    BY <1>0 DEF LineInv
  <2>5. InOrder(L')
    BY <1>0, <2>1, <2>4, InOrderAppend DEF LineInv, NextOp
  <2>6. ASSUME NEW i \in DOMAIN L' PROVE L'[i].index <= position'[L'[i].partition]
    <3>1. CASE i \in DOMAIN L
        BY <1>0, <2>1, <2>3, <3>1 DEF LineInv
    <3>2. CASE i = Len(L) + 1
        BY <1>0, <2>1, <2>3, <3>2 DEF NextOp
    <3> QED
        BY <1>0, <2>1, <3>1, <3>2
  <2> QED
    BY <2>5, <2>6 DEF LineInv
<1>6. CASE GetNoFlush \/ GetFlush \/ PutReturns
  <2>1. UNCHANGED position
    BY <1>6 DEF GetNoFlush, GetFlush, PutReturns, intake
  <2> QED
    BY <1>0, <1>1, <1>6, <2>1, LineKept
<1>7. CASE CommitReturns
  <2>1. UNCHANGED position /\ Len(batch) + 1 \in Nat \ {0} /\ Len(L) \in Int
    BY <1>0, <1>7 DEF CommitReturns, intake, TypeOK
  <2>2. L' = SubSeq(L, Len(batch) + 1, Len(L))
    BY <1>7, LineRetired
  <2>3. InOrder(L') /\ \A i \in DOMAIN L' : \E j \in DOMAIN L : L'[i] = L[j]
    BY <1>0, <2>1, <2>2, InOrderSub DEF LineInv
  <2> QED
    BY <1>2, <2>1, <2>3
<1>8. CASE Shutdown
  <2>1. UNCHANGED <<position, batch, queue>> /\ putting' \in {putting, <<>>}
    BY <1>8 DEF Shutdown, CancelStarting, CancelLoop, CancelClosing, CancelFinished
  <2>2. CASE putting' = putting
    BY <1>0, <1>1, <2>1, <2>2, LineKept
  <2>3. CASE putting' = <<>>
    <3>1. L' = L \/ L' = SubSeq(L, 1, Len(L) - 1)
        BY <2>1, <2>3, LineCancelled
    <3>2. Len(L) - 1 \in Int /\ Len(L) - 1 <= Len(L) /\ 1 \in Nat \ {0}
        BY <1>0
    <3>3. CASE L' = L
        BY <1>0, <1>1, <2>1, <3>3
    <3>4. CASE L' = SubSeq(L, 1, Len(L) - 1)
        <4>1. InOrder(L') /\ \A i \in DOMAIN L' : \E j \in DOMAIN L : L'[i] = L[j]
            BY <1>0, <3>2, <3>4, InOrderSub DEF LineInv
        <4> QED
            BY <1>2, <2>1, <4>1
    <3> QED
        BY <3>1, <3>3, <3>4
  <2> QED
    BY <2>1, <2>2, <2>3
<1>9. ASSUME Vanish PROVE LineInv'
    BY <1>9 DEF Vanish, LineInv, AllInHand, InOrder
<1>10. ASSUME \/ \E p \in Partitions, kind \in Kinds : Produce(p, kind)
              \/ StartGivesUp \/ ConsumerCloses \/ GetTimeout \/ RedisExecutes
              \/ ApplyOk \/ ApplyFails \/ RetryDelayOver \/ BrokerCommits \/ FinalOk
              \/ FinalCommitReturns \/ Restart \/ UNCHANGED vars
       PROVE  LineInv'
  <2>1. UNCHANGED <<position, batch, queue, putting>>
    BY <1>10 DEF Produce, StartGivesUp, ConsumerCloses, GetTimeout, RedisExecutes,
        ApplyOk, ApplyFails, RetryDelayOver, BrokerCommits, FinalOk,
        FinalCommitReturns, Restart, vars, intake, flusher
  <2> QED
    BY <1>0, <1>1, <2>1, LineKept
<1>11. CASE FinalFails
  <2>1. AllInHand' = <<>>
    BY <1>11, LineDropped
  <2> QED
    BY <2>1 DEF LineInv, InOrder
<1> QED
    BY <1>3, <1>4, <1>5, <1>6, <1>7, <1>8, <1>9, <1>10, <1>11
    DEF Next, ConsumerStep, WorkerStep, Exit, Crash

-----------------------------------------------------------------------------
(* No operation is lost on the way *)

\* Initially nothing has been read.
LEMMA LossInit == Init => NoSilentLoss
BY DEF Init, NoSilentLoss, Consuming

\* Of the records read, those that are operations stay the same when the log
\* grows or the client passes a record that is none.
LEMMA ConsumedKept ==
    ASSUME TypeOK, PositionInv, NEW p \in Partitions, origin' = origin,
           \/ \E kind \in Kinds : Produce(p, kind)
           \/ /\ CanFetch(p) /\ log' = log /\ log[p][position[p] + 1] # "op"
              /\ position' \in {position, Advance(p)}
    PROVE  Consumed' = Consumed
<1>0. /\ log \in [Partitions -> Seq(Kinds)] /\ position \in [Partitions -> Int]
      /\ \A op \in Ops : op.partition \in Partitions /\ op.index \in Nat \ {0}
  <2>1. log \in [Partitions -> Seq(Kinds)] /\ position \in [Partitions -> Int]
    BY CacheAssumption DEF TypeOK, Offsets
  <2>2. \A op \in Ops : op.partition \in Partitions /\ op.index \in Nat \ {0}
    BY CacheAssumption DEF Ops
  <2> QED
    BY <2>1, <2>2
<1>1. CASE \E kind \in Kinds : Produce(p, kind)
  <2>1. \A op \in Ops : op.index <= position[op.partition] =>
          log'[op.partition][op.index] = log[op.partition][op.index]
    BY <1>0, <1>1 DEF Produce, PositionInv
  <2>2. position' = position
    BY <1>1 DEF Produce, intake
  <2> QED
    BY <2>1, <2>2 DEF Consumed
<1>2. CASE /\ CanFetch(p) /\ log' = log /\ log[p][position[p] + 1] # "op"
           /\ position' \in {position, Advance(p)}
  <2>1. ASSUME NEW op \in Ops, log[op.partition][op.index] = "op"
        PROVE  op.index <= position'[op.partition] <=> op.index <= position[op.partition]
    <3>1. op.partition \in Partitions /\ op.index \in Int
        BY <1>0
    <3>2. CASE op.partition = p
      <4>1. op.index # position[p] + 1
        BY <1>2, <2>1, <3>2
      <4> QED
        BY <1>0, <1>2, <3>1, <3>2, <4>1 DEF Advance
    <3>3. CASE op.partition # p
        BY <1>0, <1>2, <3>1, <3>3 DEF Advance
    <3> QED
        BY <3>2, <3>3
  <2> QED
    BY <1>2, <2>1 DEF Consumed
<1> QED
    BY <1>1, <1>2

\* Fetching an operation adds that operation to the ones read.
LEMMA ConsumedGrows ==
    ASSUME TypeOK, NEW p \in Partitions, FetchOp(p) \/ FetchOpBlocks(p)
    PROVE  Consumed' \subseteq Consumed \cup {NextOp(p)}
<1>0. /\ position \in [Partitions -> Int] /\ position' = Advance(p)
      /\ origin' = origin /\ log' = log
    BY CacheAssumption DEF TypeOK, Offsets, FetchOp, FetchOpBlocks, broker
<1>1. ASSUME NEW op \in Ops, op.index <= position'[op.partition],
             ~ (op.index <= position[op.partition])
      PROVE  op = NextOp(p)
  <2>0. op.partition \in Partitions /\ op.index \in Int
    BY DEF Ops
  <2>1. op.partition = p /\ op.index = position[p] + 1
    BY <1>0, <1>1, <2>0 DEF Advance
  <2> QED
    BY <2>1 DEF Ops, NextOp
<1> QED
    BY <1>0, <1>1 DEF Consumed

\* The operations in hand are those of batch, queue and suspended put.
LEMMA RangeOfLine ==
    ASSUME NEW b \in Seq(Ops), NEW q \in Seq(Ops), NEW t \in Seq(Ops)
    PROVE  Range(b \o q \o t) = Range(b) \cup Range(q) \cup Range(t)
<1> DEFINE u == b \o q
<1>1. u \in Seq(Ops)
    OBVIOUS
<1>2. Range(u) = Range(b) \cup Range(q)
    BY RangeConcatenation
<1> HIDE DEF u
<1>3. Range(u \o t) = Range(u) \cup Range(t)
    BY <1>1, RangeConcatenation
<1> QED
    BY <1>2, <1>3 DEF u

\* No step of the consumer, of the worker or of a shutdown loses an operation,
\* but for the batch of a failed final flush and the one a cancelled put() holds.
LEMMA LossStep ==
    TypeOK /\ TypeOK' /\ PhaseInv /\ ExecutedInv /\ PositionInv /\ NoSilentLoss /\ [Next]_vars
      => NoSilentLoss'
<1> SUFFICES ASSUME TypeOK, TypeOK', PhaseInv, ExecutedInv, PositionInv, NoSilentLoss,
                    [Next]_vars
             PROVE  NoSilentLoss'
    OBVIOUS
<1> USE DEF Consuming
<1>0. InHand = Range(AllInHand) /\ InHand' = Range(AllInHand')
    BY RangeOfLine DEF InHand, AllInHand, TypeOK
<1>1. PhaseInv'
    BY PhaseStep
<1>2. ASSUME ~Vanish PROVE dropped \subseteq dropped'
  <2>1. CASE FinalFails
    BY <2>1 DEF FinalFails, PhaseInv
  <2>2. CASE ~FinalFails
    BY <1>2, <2>2 DEF Next, vars, ConsumerStep, WorkerStep, Produce, StartConsumer,
        StartGivesUp, FetchSkip, FetchOp, FetchOpBlocks, FetchBad, PutReturns,
        ConsumerCloses, GetNoFlush, GetFlush, GetTimeout, RedisExecutes, ApplyOk,
        ApplyFails, RetryDelayOver, BrokerCommits, CommitReturns, FinalOk,
        FinalCommitReturns, Shutdown, Exit, Crash, Restart, flusher
  <2> QED
    BY <2>1, <2>2
<1>3. ASSUME consumer' \in {"starting", "over"} PROVE NoSilentLoss'
    BY <1>3 DEF NoSilentLoss
\* Enough: nothing new is unaccounted for but what is dropped, what was dropped
\* stays so, and the loop was not closed before.
<1>4. ASSUME Unaccounted' \subseteq Unaccounted \cup dropped',
             consumer' \notin {"starting", "over"} =>
               /\ consumer \notin {"starting", "over"} /\ proc' = proc
               /\ consumer = "closing" => consumer' = "closing"
      PROVE  NoSilentLoss'
  <2>1. CASE Vanish
    BY <1>3, <2>1 DEF Vanish
  <2>2. CASE ~Vanish
    <3>1. dropped \subseteq dropped'
        BY <1>2, <2>2
    <3>2. Unaccounted' \ dropped' \subseteq Unaccounted \ dropped
        BY <1>4, <3>1
    <3>3. Consuming' => Consuming /\ dropped' = {} /\ dropped = {}
        BY <1>4, <1>1, <3>1 DEF TypeOK, ConsumerStates, PhaseInv
    <3> QED
        BY <1>4, <3>1, <3>2, <3>3 DEF NoSilentLoss, TypeOK, ConsumerStates, PhaseInv
  <2> QED
    BY <2>1, <2>2
<1>5. ASSUME Consumed' \subseteq Consumed, store \subseteq store',
             InHand \subseteq InHand' \cup store'
      PROVE  Unaccounted' \subseteq Unaccounted
    BY <1>5 DEF Unaccounted
<1>6. ASSUME UNCHANGED <<log, position, origin>> PROVE Consumed' = Consumed
    BY <1>6 DEF Consumed
<1>7. ASSUME NEW p \in Partitions, NEW kind \in Kinds, Produce(p, kind)
      PROVE  NoSilentLoss'
  <2>1. UNCHANGED <<consumer, proc, store, origin, batch, queue, putting>>
    BY <1>7 DEF Produce, process, intake, flusher
  <2>2. Consumed' = Consumed /\ InHand' = InHand
    BY <1>7, <2>1, ConsumedKept DEF InHand
  <2> QED
    BY <1>4, <1>5, <2>1, <2>2
<1>8. CASE StartConsumer
  <2>1. consumer' = "iter" /\ origin' = position' /\ position' \in [Partitions -> Int]
    BY <1>8, CacheAssumption DEF StartConsumer, TypeOK, Offsets
  <2>2. Consumed' = {}
    BY <2>1 DEF Consumed, Ops
  <2> QED
    BY <2>1, <2>2 DEF NoSilentLoss, Unaccounted
<1>9. ASSUME NEW p \in Partitions, FetchSkip(p) \/ FetchBad(p) PROVE NoSilentLoss'
  <2>1. /\ UNCHANGED <<log, proc, store, origin, batch, queue, putting>>
        /\ consumer = "iter" /\ consumer' \in {"iter", "closing"}
        /\ CanFetch(p) /\ log[p][position[p] + 1] # "op"
        /\ position' \in {position, Advance(p)}
    BY <1>9 DEF FetchSkip, FetchBad, CanFetch, broker, process, flusher
  <2>2. Consumed' = Consumed /\ InHand' = InHand
    BY <2>1, ConsumedKept DEF InHand
  <2> QED
    BY <1>4, <1>5, <2>1, <2>2
<1>10. ASSUME NEW p \in Partitions, FetchOp(p) \/ FetchOpBlocks(p) PROVE NoSilentLoss'
  <2>1. /\ UNCHANGED <<proc, store>>
        /\ consumer = "iter" /\ consumer' \in {"iter", "put"}
    BY <1>10 DEF FetchOp, FetchOpBlocks, CanFetch, process
  <2>2. Consumed' \subseteq Consumed \cup {NextOp(p)}
    BY <1>10, ConsumedGrows
  <2>3. AllInHand' = Append(AllInHand, NextOp(p)) /\ NextOp(p) \in Ops
    BY <1>10, LineFetch
  <2>4. AllInHand \in Seq(Ops)
    BY DEF TypeOK, AllInHand
  <2>5. Range(AllInHand') = Range(AllInHand) \cup {NextOp(p)}
    BY <2>3, <2>4, AppendProperties DEF Range
  <2>6. InHand' = InHand \cup {NextOp(p)}
    BY <1>0, <2>5
  <2>7. Unaccounted' \subseteq Unaccounted
    BY <2>1, <2>2, <2>6 DEF Unaccounted
  <2> QED
    BY <1>4, <2>1, <2>7
<1>11. CASE GetNoFlush \/ GetFlush \/ PutReturns
  <2>1. /\ UNCHANGED <<log, position, origin, proc, store>>
        /\ consumer' = IF PutReturns THEN "iter" ELSE consumer
        /\ PutReturns => consumer = "put"
    BY <1>11 DEF GetNoFlush, GetFlush, PutReturns, broker, process, intake
  <2>2. AllInHand' = AllInHand
    BY <1>11, LineKept
  <2> QED
    BY <1>0, <1>4, <1>5, <1>6, <2>1, <2>2
<1>12. CASE CommitReturns
  <2>1. /\ UNCHANGED <<log, position, origin, proc, store, consumer, queue, putting>>
        /\ worker = "commit"
    BY <1>12 DEF CommitReturns, broker, process, intake
  <2>2. Range(batch) \subseteq store
    BY <2>1 DEF ExecutedInv, Range
  <2>3. InHand \subseteq InHand' \cup store'
    BY <2>1, <2>2 DEF InHand
  <2> QED
    BY <1>4, <1>5, <1>6, <2>1, <2>3
<1>13. CASE Shutdown
  <2>1. UNCHANGED <<log, position, origin, store, batch, queue>> /\ proc' = "stopping"
    BY <1>13 DEF Shutdown, broker
  <2>2. CASE CancelStarting \/ CancelClosing \/ CancelFinished
    BY <1>3, <2>2 DEF CancelStarting, CancelClosing, CancelFinished
  <2>3. CASE CancelLoop
    <3>1. consumer' = "closing" /\ Unaccounted = {} /\ putting' = <<>>
        BY <2>3 DEF CancelLoop, NoSilentLoss
    <3>2. Unaccounted' \subseteq Range(putting)
        BY <1>6, <2>1, <3>1 DEF Unaccounted, InHand
    <3>3. \A r, s \in Range(putting) : r = s
      <4>1. putting \in Seq(Ops) /\ Len(putting) <= 1
        BY DEF TypeOK
      <4> QED
        BY <4>1 DEF Range
    <3> QED
        BY <2>1, <3>1, <3>2, <3>3 DEF NoSilentLoss
  <2> QED
    BY <1>13, <2>2, <2>3 DEF Shutdown
<1>14. ASSUME \/ StartGivesUp \/ ConsumerCloses \/ Vanish \/ Restart
       PROVE  NoSilentLoss'
    BY <1>3, <1>14 DEF StartGivesUp, ConsumerCloses, Vanish, Restart
<1>15. ASSUME \/ GetTimeout \/ RedisExecutes \/ ApplyOk \/ ApplyFails \/ RetryDelayOver
              \/ BrokerCommits \/ FinalOk \/ FinalCommitReturns
              \/ UNCHANGED vars
       PROVE  NoSilentLoss'
  <2>1. /\ UNCHANGED <<log, position, origin, proc, consumer, batch, queue, putting>>
        /\ store \subseteq store'
    BY <1>15 DEF GetTimeout, RedisExecutes, ApplyOk, ApplyFails, RetryDelayOver,
        BrokerCommits, FinalOk, FinalCommitReturns, vars, broker, process,
        intake, flusher
  <2>2. InHand' = InHand
    BY <2>1 DEF InHand
  <2> QED
    BY <1>4, <1>5, <1>6, <2>1, <2>2
<1>16. CASE FinalFails
  <2>1. /\ UNCHANGED <<log, position, origin, proc, consumer, store>>
        /\ dropped' = Range(batch)
    BY <1>16 DEF FinalFails, broker, process, intake
  <2>2. InHand = dropped'
    BY <1>0, <1>16, <2>1, LineDropped
  <2>3. Unaccounted' \subseteq Unaccounted \cup dropped'
    BY <1>6, <2>1, <2>2 DEF Unaccounted
  <2>4. consumer = "closing"
    BY <1>16, LineDropped
  <2> QED
    BY <1>4, <2>1, <2>3, <2>4
<1> QED
    BY <1>7, <1>8, <1>9, <1>10, <1>11, <1>12, <1>13, <1>14, <1>15, <1>16
    DEF Next, ConsumerStep, WorkerStep, Exit, Crash

-----------------------------------------------------------------------------
(* The theorems that follow from the invariant *)

\* The inductive invariant holds initially.
LEMMA InvInit == Init => IInv
BY TypeInit, PhaseInit, ExecutedInit, PositionInit, LineInit, LossInit DEF IInv

\* Every step keeps the inductive invariant.
LEMMA InvStep == IInv /\ [Next]_vars => IInv'
<1> SUFFICES ASSUME IInv, [Next]_vars PROVE IInv'
    OBVIOUS
<1> USE DEF IInv
<1>1. TypeOK'
    BY TypeStep
<1>2. PhaseInv' /\ ExecutedInv'
    BY PhaseStep, ExecutedStep
<1>3. PositionInv' /\ CommitInv'
    BY PositionStep, CommitStep
<1>4. LineInv'
    BY LineStep
<1>5. NoSilentLoss'
    BY <1>1, LossStep
<1> QED
    BY <1>1, <1>2, <1>3, <1>4, <1>5

\* The inductive invariant holds in every state of the cache consumer.
THEOREM Invariance == Spec => []IInv
BY InvInit, InvStep, PTL DEF Spec

\* Up to the cancellation of the consumer task every operation read from Kafka is
\* in Redis, in hand, or in the one batch a failed final flush has dropped, for any
\* queue size, batch size and number of failures; a cancellation costs one more.
THEOREM NothingLost == Spec => []NoSilentLoss
<1>1. IInv => NoSilentLoss
    BY DEF IInv
<1> QED
    BY <1>1, Invariance, PTL

\* Redis is given the operations of one partition in the order of the log.
THEOREM OrderKept == Spec => []PartitionOrder
<1>1. IInv => PartitionOrder
    BY DEF IInv, LineInv, AllInHand, PartitionOrder
<1> QED
    BY <1>1, Invariance, PTL

\* The offsets of the consumer group never move back.
THEOREM CommitsAdvance == Spec => CommitMonotone
<1>1. IInv /\ [Next]_vars => [CommitStepMonotone]_vars
    BY CommitStep DEF IInv
<1> QED
    BY <1>1, Invariance, PTL DEF Spec, CommitMonotone, CommitStepMonotone

\* At the final commit everything read is in Redis, or all but one operation when
\* the task was cancelled.
THEOREM FinalCommitDrained == Spec => []DrainedAtFinalCommit
<1>1. ASSUME IInv, worker = "finalCommit"
      PROVE  IF proc = "up" THEN Consumed \subseteq store
             ELSE Cardinality(Consumed \ store) <= 1
  <2> USE DEF IInv
  <2>1. consumer = "closing" /\ queue = <<>> /\ putting = <<>>
    BY <1>1 DEF PhaseInv, TypeOK, ConsumerStates, Consuming
  <2>2. Range(batch) \subseteq store /\ Range(queue) = {} /\ Range(putting) = {}
    BY <1>1, <2>1 DEF ExecutedInv, Range
  <2>3. Unaccounted = Consumed \ store
    BY <2>2 DEF Unaccounted, InHand
  <2>4. /\ proc = "up" => Consumed \ store = {}
        /\ \A r, s \in Consumed \ store : r = s
    BY <1>1, <2>1, <2>3 DEF NoSilentLoss, PhaseInv
  <2>5. Cardinality(Consumed \ store) <= 1
    <3>1. CASE Consumed \ store = {}
        BY <3>1, FS_EmptySet
    <3>2. CASE Consumed \ store # {}
      <4>1. PICK r : Consumed \ store = {r}
        BY <2>4, <3>2
      <4> QED
        BY <4>1, FS_Singleton
    <3> QED
        BY <3>1, <3>2
  <2> QED
    BY <2>4, <2>5
<1>2. IInv => DrainedAtFinalCommit
    BY <1>1 DEF DrainedAtFinalCommit
<1> QED
    BY <1>2, Invariance, PTL

-----------------------------------------------------------------------------
(* CacheWorker implements OpStream *)

StreamVars == <<Phase, Line, store>>

\* The initial state maps to the initial state of OpStream.
LEMMA StreamInit == Init => Stream!Init
BY DEF Init, Stream!Init, Phase, Line, Consuming

\* Every step of the cache consumer maps to a step of OpStream or a stutter.
LEMMA StreamStep == IInv /\ [Next]_vars => Stream!Next \/ UNCHANGED StreamVars
<1> SUFFICES ASSUME IInv, [Next]_vars PROVE Stream!Next \/ UNCHANGED StreamVars
    OBVIOUS
<1> DEFINE Goal == Stream!Next \/ UNCHANGED StreamVars
<1> USE DEF IInv, Consuming
<1>0. /\ AllInHand \in Seq(Ops) /\ batch \in Seq(Ops)
      /\ Len(AllInHand) = Len(batch) + Len(queue) + Len(putting)
      /\ Len(batch) \in Nat /\ Len(queue) \in Nat /\ Len(putting) \in Nat
      /\ \A i \in 1..Len(batch) : AllInHand[i] = batch[i]
    BY DEF TypeOK, AllInHand
<1>1. Line = (IF Phase = "closed" THEN <<>> ELSE AllInHand)
    BY DEF Line, AllInHand
<1>2. Line' = (IF Phase' = "closed" THEN <<>> ELSE AllInHand')
    BY DEF Line, AllInHand
<1>3. worker \in {"get", "wait", "apply", "sleep", "commit", "final", "finalCommit"}
        => Phase # "closed"
    BY DEF Phase, PhaseInv, TypeOK, ConsumerStates
<1>4. ASSUME UNCHANGED <<consumer, store>>, AllInHand' = AllInHand
      PROVE  UNCHANGED StreamVars
    BY <1>1, <1>2, <1>4 DEF StreamVars, Phase
<1>5. CASE StartConsumer
  <2>1. /\ Phase = "closed" /\ Phase' = "open" /\ store' = store
        /\ batch' = <<>> /\ queue' = <<>> /\ putting' = <<>>
    BY <1>5 DEF StartConsumer, Phase, PhaseInv
  <2>2. Line = <<>> /\ Line' = <<>>
    BY <1>1, <2>1 DEF Line
  <2> QED
    BY <2>1, <2>2 DEF Stream!Next, Stream!Open
<1>6. ASSUME NEW p \in Partitions, FetchOp(p) \/ FetchOpBlocks(p) PROVE Goal
  <2>1. /\ Phase = "open" /\ Phase' = "open" /\ store' = store
    BY <1>6 DEF FetchOp, FetchOpBlocks, CanFetch, Phase
  <2>2. Line' = Append(Line, NextOp(p)) /\ NextOp(p) \in Ops /\ Line = AllInHand
    BY <1>1, <1>2, <1>6, <2>1, LineFetch
  <2>3. ASSUME NEW i \in DOMAIN Line, Line[i].partition = NextOp(p).partition
        PROVE  Line[i].index < NextOp(p).index
    <3>1. Line[i] \in Ops /\ Line[i].index <= position[Line[i].partition]
        BY <1>0, <2>2 DEF LineInv
    <3>2. Line[i].index \in Int /\ position[p] \in Int
        BY <3>1, CacheAssumption DEF Ops, TypeOK, Offsets
    <3> QED
        BY <2>3, <3>1, <3>2 DEF NextOp
  <2>4. Stream!Accept(NextOp(p))
    BY <2>1, <2>2, <2>3 DEF Stream!Accept
  <2> QED
    BY <2>2, <2>4 DEF Stream!Next
<1>7. ASSUME NEW p \in Partitions, FetchBad(p) PROVE Goal
  <2>1. /\ Phase = "open" /\ Phase' = "closing" /\ store' = store
        /\ UNCHANGED <<batch, queue, putting>>
    BY <1>7 DEF FetchBad, CanFetch, Phase, flusher
  <2>2. Line' = Line
    BY <2>1 DEF Line
  <2> QED
    BY <2>1, <2>2 DEF Stream!Next, Stream!BeginClose
<1>8. CASE GetNoFlush \/ GetFlush
    BY <1>4, <1>8, LineKept DEF GetNoFlush, GetFlush, intake
<1>9. CASE PutReturns
  <2>1. Phase = "open" /\ Phase' = "open" /\ store' = store
    BY <1>9 DEF PutReturns, Phase
  <2>2. Line' = Line
    BY <1>1, <1>2, <1>9, <2>1, LineKept
  <2> QED
    BY <2>1, <2>2 DEF StreamVars
<1>10. CASE RedisExecutes
  <2> DEFINE k == executed + 1
  <2>1. /\ worker \in {"apply", "final"} /\ executed < Len(batch)
        /\ store' = store \cup {batch[k]}
        /\ UNCHANGED <<consumer, batch, queue, putting>>
    BY <1>10 DEF RedisExecutes, intake
  <2>2. k \in 1..Len(batch) /\ executed \in Nat
    BY <1>0, <2>1 DEF TypeOK
  <2>3. Line = AllInHand /\ Line' = Line /\ Phase' = Phase
    BY <1>1, <1>3, <2>1 DEF Line, Phase
  <2>4. Line[k] = batch[k] /\ k \in 1..Len(Line)
    BY <1>0, <2>2, <2>3
  <2>5. ASSUME NEW j \in 1..(k - 1) PROVE Line[j] \in store
    <3>1. j \in 1..executed /\ j \in 1..Len(batch)
        BY <1>0, <2>2
    <3> QED
        BY <1>0, <2>3, <3>1 DEF ExecutedInv
  <2>6. Stream!Persist(k)
    BY <2>1, <2>3, <2>4, <2>5 DEF Stream!Persist
  <2> QED
    BY <2>4, <2>6 DEF Stream!Next
<1>11. CASE CommitReturns
  <2>1. worker = "commit" /\ UNCHANGED <<consumer, store>>
    BY <1>11 DEF CommitReturns, intake
  <2>2. Line = AllInHand /\ Line' = AllInHand' /\ Phase' = Phase
    BY <1>1, <1>2, <1>3, <2>1 DEF Phase
  <2>3. Line' = SubSeq(Line, Len(batch) + 1, Len(Line))
    BY <1>11, <2>2, LineRetired
  <2>4. CASE batch = <<>>
    <3>1. batch' = batch /\ UNCHANGED <<queue, putting>>
        BY <1>11, <2>4 DEF CommitReturns, intake
    <3> QED
        BY <1>4, <2>1, <3>1 DEF AllInHand
  <2>5. CASE batch # <<>>
    <3>1. Len(batch) \in 1..Len(Line)
        BY <1>0, <2>2, <2>5, EmptySeq
    <3>2. \A i \in 1..Len(batch) : Line[i] \in store
        BY <1>0, <2>1, <2>2 DEF ExecutedInv
    <3>3. Stream!Retire(Len(batch))
        BY <2>1, <2>2, <2>3, <3>2 DEF Stream!Retire
    <3> QED
        BY <3>1, <3>3 DEF Stream!Next
  <2> QED
    BY <2>4, <2>5
<1>12. ASSUME consumer = "closing", consumer' = "over", store' = store PROVE Goal
  <2>1. Phase # "closed" /\ Phase' = "closed"
    BY <1>12 DEF Phase
  <2> QED
    BY <1>2, <1>12, <2>1 DEF Stream!Next, Stream!Close
<1>13. ASSUME consumer \in {"starting", "over"}, consumer' \in {"starting", "over"},
              store' = store
       PROVE  UNCHANGED StreamVars
    BY <1>1, <1>2, <1>13 DEF Phase, StreamVars
<1>14. CASE Shutdown
  <2>1. UNCHANGED <<store, batch, queue>>
    BY <1>14 DEF Shutdown
  <2>2. CASE CancelLoop
    <3>1. Phase = "open" /\ Phase' = "closing" /\ putting' = <<>>
        BY <2>2 DEF CancelLoop, Phase
    <3>2. Line' = Line \/ Line' = SubSeq(Line, 1, Len(Line) - 1)
        BY <1>1, <1>2, <2>1, <3>1, LineCancelled
    <3> QED
        BY <2>1, <3>1, <3>2 DEF Stream!Next, Stream!BeginClose
  <2>3. CASE CancelClosing
    BY <1>12, <2>1, <2>3 DEF CancelClosing
  <2>4. CASE CancelStarting \/ CancelFinished
    BY <1>13, <2>1, <2>4 DEF CancelStarting, CancelFinished
  <2> QED
    BY <1>14, <2>2, <2>3, <2>4 DEF Shutdown
<1>15. ASSUME Vanish PROVE Goal
  <2>1. Phase' = "closed" /\ Line' = <<>> /\ store' = store
    BY <1>15 DEF Vanish, Phase, Line
  <2>2. CASE Phase = "closed"
    BY <1>1, <2>1, <2>2 DEF StreamVars
  <2>3. CASE Phase # "closed"
    BY <2>1, <2>3 DEF Stream!Next, Stream!Close
  <2> QED
    BY <2>2, <2>3
<1>16. CASE ConsumerCloses
    BY <1>12, <1>16 DEF ConsumerCloses
<1>17. CASE StartGivesUp
    BY <1>13, <1>17 DEF StartGivesUp
<1>18. CASE Restart
    BY <1>13, <1>18 DEF Restart, PhaseInv
<1>19. ASSUME \/ \E p \in Partitions, kind \in Kinds : Produce(p, kind)
              \/ \E p \in Partitions : FetchSkip(p)
              \/ GetTimeout \/ ApplyOk \/ ApplyFails \/ RetryDelayOver
              \/ BrokerCommits \/ FinalOk \/ FinalCommitReturns
              \/ UNCHANGED vars
       PROVE  UNCHANGED StreamVars
  <2>1. UNCHANGED <<consumer, store, batch, queue, putting>>
    BY <1>19 DEF Produce, FetchSkip, GetTimeout, ApplyOk, ApplyFails, RetryDelayOver,
        BrokerCommits, FinalOk, FinalCommitReturns, vars, intake, flusher
  <2> QED
    BY <1>4, <2>1 DEF AllInHand
<1>20. CASE FinalFails
  <2>1. /\ Phase = "closing" /\ Phase' = "closing" /\ store' = store
        /\ AllInHand' = <<>>
    BY <1>20, LineDropped DEF FinalFails, Phase, intake
  <2> QED
    BY <1>2, <2>1 DEF Stream!Next, Stream!GiveUp
<1> QED
    BY <1>5, <1>6, <1>7, <1>8, <1>9, <1>10, <1>11, <1>14, <1>15, <1>16, <1>17, <1>18,
       <1>19, <1>20
    DEF Next, ConsumerStep, WorkerStep, Exit, Crash

\* Queue, batch and suspended put are one line that stores in order and drops
\* nothing while it is open: every step of the cache consumer is a step of
\* OpStream or leaves the line alone.
THEOREM ImplementsStream == Spec => StreamSpec
<1>1. IInv /\ [Next]_vars => [Stream!Next]_(Stream!vars)
    BY StreamStep DEF StreamVars, Stream!vars
<1> QED
    BY <1>1, StreamInit, Invariance, PTL DEF Spec, StreamSpec, Stream!Spec

-----------------------------------------------------------------------------
(* How far a commit runs ahead of Redis *)

Few(S) == IsFiniteSet(S) /\ Cardinality(S) <= QueueMax + 1

\* Both the broker's offset and a commit in flight cover few unwritten operations.
SlackInv ==
    /\ Few(CoveredBy(committed) \ store)
    /\ worker \in {"commit", "finalCommit"} => Few(CoveredBy(snapshot) \ store)

\* A part of at most QueueMax + 1 operations is at most QueueMax + 1 operations.
LEMMA FewSubset == ASSUME NEW S, NEW T \in SUBSET S, Few(S) PROVE Few(T)
<1>1. IsFiniteSet(T) /\ Cardinality(T) <= Cardinality(S)
    BY FS_Subset DEF Few
<1>2. Cardinality(T) \in Nat /\ Cardinality(S) \in Nat /\ QueueMax \in Nat
    BY <1>1, FS_CardinalityType, CacheAssumption DEF Few
<1> QED
    BY <1>1, <1>2 DEF Few

\* A line has no more different operations than elements.
LEMMA RangeSize ==
    ASSUME NEW s \in Seq(Ops)
    PROVE  IsFiniteSet(Range(s)) /\ Cardinality(Range(s)) <= Len(s)
<1>1. s \in Surjection(1..Len(s), Range(s))
    BY DEF Surjection, Range
<1>2. IsFiniteSet(1..Len(s)) /\ Cardinality(1..Len(s)) = Len(s)
  <2>1. Len(s) \in Nat /\ 1 \in Int /\ Len(s) \in Int
    OBVIOUS
  <2>2. /\ IsFiniteSet(1..Len(s))
        /\ Cardinality(1..Len(s)) = IF 1 > Len(s) THEN 0 ELSE Len(s) - 1 + 1
    BY <2>1, FS_Interval, Zenon
  <2> QED
    BY <2>1, <2>2
<1> QED
    BY <1>1, <1>2, FS_Surjection

\* A set whose elements are all equal has at most one.
LEMMA AtMostOne ==
    ASSUME NEW S, \A r, s \in S : r = s
    PROVE  IsFiniteSet(S) /\ Cardinality(S) <= 1
<1>1. CASE S = {}
    BY <1>1, FS_EmptySet
<1>2. CASE S # {}
  <2>1. PICK r : S = {r}
    BY <1>2
  <2>2. IsFiniteSet(S) /\ Cardinality(S) = 1
    BY <2>1, FS_Singleton, Zenon
  <2> QED
    BY <2>2
<1> QED
    BY <1>1, <1>2

\* A set of one more than the queue holds, as a union.
LEMMA FewUnion ==
    ASSUME NEW S, NEW T, IsFiniteSet(S), IsFiniteSet(T),
           Cardinality(S) <= QueueMax, Cardinality(T) <= 1
    PROVE  Few(S \cup T)
<1>1. /\ IsFiniteSet(S \cup T)
      /\ Cardinality(S \cup T) = Cardinality(S) + Cardinality(T) - Cardinality(S \cap T)
    BY FS_Union
<1>2. IsFiniteSet(S \cap T)
    BY FS_Intersection
<1>3. /\ Cardinality(S) \in Nat /\ Cardinality(T) \in Nat /\ Cardinality(S \cap T) \in Nat
      /\ QueueMax \in Nat
    BY <1>2, FS_CardinalityType, CacheAssumption
<1> QED
    BY <1>1, <1>3 DEF Few

\* After a flush, what was read and is not in Redis fits in queue and put().
LEMMA FewUnwritten ==
    ASSUME IInv, ApplyOk \/ FinalOk
    PROVE  Few(Consumed \ store)
<1> USE DEF IInv, Consuming
<1>1. /\ Range(batch) \subseteq store
      /\ queue \in Seq(Ops) /\ putting \in Seq(Ops)
      /\ Len(queue) <= QueueMax /\ Len(putting) <= 1
    BY DEF ApplyOk, FinalOk, ExecutedInv, Range, TypeOK
<1>2. Consumed \ store \subseteq Range(queue) \cup (Range(putting) \cup Unaccounted)
    BY <1>1 DEF Unaccounted, InHand
<1>3. \/ Unaccounted = {}
      \/ Range(putting) = {} /\ \A r, s \in Unaccounted : r = s
  <2>1. CASE Consuming
    BY <2>1 DEF NoSilentLoss
  <2>2. CASE consumer = "closing"
    <3>1. putting = <<>> /\ dropped = {}
        BY <2>2 DEF PhaseInv, ApplyOk, FinalOk
    <3> QED
        BY <2>2, <3>1 DEF NoSilentLoss, Range
  <2> QED
    BY <2>1, <2>2 DEF PhaseInv, TypeOK, ConsumerStates, ApplyOk, FinalOk
<1>4. /\ IsFiniteSet(Range(queue)) /\ IsFiniteSet(Range(putting))
      /\ Cardinality(Range(queue)) <= Len(queue)
      /\ Cardinality(Range(putting)) <= Len(putting)
    BY <1>1, RangeSize
<1>5. Cardinality(Range(queue)) <= QueueMax /\ Cardinality(Range(putting)) <= 1
  <2>1. /\ Cardinality(Range(queue)) \in Nat /\ Cardinality(Range(putting)) \in Nat
        /\ Len(queue) \in Nat /\ Len(putting) \in Nat /\ QueueMax \in Nat
    BY <1>1, <1>4, FS_CardinalityType, CacheAssumption
  <2> QED
    BY <1>1, <1>4, <2>1
<1>6. /\ IsFiniteSet(Range(putting) \cup Unaccounted)
      /\ Cardinality(Range(putting) \cup Unaccounted) <= 1
  <2>1. CASE Unaccounted = {}
    BY <1>4, <1>5, <2>1
  <2>2. CASE Range(putting) = {} /\ \A r, s \in Unaccounted : r = s
    BY <2>2, AtMostOne
  <2> QED
    BY <1>3, <2>1, <2>2
<1>7. Few(Range(queue) \cup (Range(putting) \cup Unaccounted))
    BY <1>4, <1>5, <1>6, FewUnion
<1> QED
    BY <1>2, <1>7, FewSubset

\* A step reads nothing but the record at the client's position, or starts anew.
LEMMA ConsumedStep ==
    ASSUME IInv, [Next]_vars
    PROVE  \A r \in Consumed' : r \in Consumed \/ r.index = position[r.partition] + 1
<1> USE DEF IInv
<1>1. CASE StartConsumer
  <2>1. origin' = position' /\ position' \in [Partitions -> Int]
    BY <1>1, TypeStep, CacheAssumption DEF StartConsumer, TypeOK, Offsets
  <2>2. Consumed' = {}
    BY <2>1 DEF Consumed, Ops
  <2> QED
    BY <2>2
<1>2. ASSUME NEW p \in Partitions, NEW kind \in Kinds, Produce(p, kind)
      PROVE  Consumed' = Consumed
  <2>1. origin' = origin
    BY <1>2 DEF Produce, intake
  <2> QED
    BY <1>2, <2>1, ConsumedKept
<1>3. ASSUME NEW p \in Partitions, FetchSkip(p) \/ FetchBad(p) PROVE Consumed' = Consumed
  <2>1. /\ origin' = origin /\ CanFetch(p) /\ log' = log
        /\ log[p][position[p] + 1] # "op" /\ position' \in {position, Advance(p)}
    BY <1>3 DEF FetchSkip, FetchBad, broker
  <2> QED
    BY <2>1, ConsumedKept
<1>4. ASSUME NEW p \in Partitions, FetchOp(p) \/ FetchOpBlocks(p)
      PROVE  Consumed' \subseteq Consumed \cup {NextOp(p)}
    BY <1>4, ConsumedGrows
<1>5. ASSUME \/ StartGivesUp \/ PutReturns \/ ConsumerCloses \/ WorkerStep
             \/ Shutdown \/ Exit \/ Crash \/ Restart \/ UNCHANGED vars
      PROVE  Consumed' = Consumed
  <2>1. UNCHANGED <<log, position, origin>>
    BY <1>5 DEF StartGivesUp, PutReturns, ConsumerCloses, WorkerStep, GetNoFlush,
        GetFlush, GetTimeout, RedisExecutes, ApplyOk, ApplyFails, RetryDelayOver,
        BrokerCommits, CommitReturns, FinalOk, FinalFails, FinalCommitReturns,
        Shutdown, Exit, Crash, Vanish, Restart, vars, broker, intake
  <2> QED
    BY <2>1 DEF Consumed
<1> QED
    BY <1>1, <1>2, <1>3, <1>4, <1>5 DEF Next, ConsumerStep, NextOp

\* Initially no offset is committed, so it covers nothing.
LEMMA SlackInit == Init => SlackInv
<1> SUFFICES ASSUME Init PROVE SlackInv
    OBVIOUS
<1>1. CoveredBy(committed) = {}
    BY DEF Init, CoveredBy, Consumed, Ops, NoCommit
<1>2. Few({})
    BY FS_EmptySet, CacheAssumption DEF Few
<1> QED
    BY <1>1, <1>2 DEF SlackInv, Init

\* Every step keeps the bound on what commits cover and Redis does not have.
LEMMA SlackStep == IInv /\ SlackInv /\ [Next]_vars => SlackInv'
<1> SUFFICES ASSUME IInv, SlackInv, [Next]_vars PROVE SlackInv'
    OBVIOUS
<1> USE DEF IInv
<1>0. /\ store \subseteq store'
      /\ \A p \in Partitions : position[p] \in Int /\ committed[p] \in Int /\ snapshot[p] \in Int
      /\ \A r \in Consumed' : r.partition \in Partitions /\ r.index \in Int
  <2>1. store \subseteq store'
    BY DEF Next, vars, ConsumerStep, WorkerStep, Produce, StartConsumer, StartGivesUp,
        FetchSkip, FetchOp, FetchOpBlocks, FetchBad, PutReturns, ConsumerCloses,
        GetNoFlush, GetFlush, GetTimeout, RedisExecutes, ApplyOk, ApplyFails,
        RetryDelayOver, BrokerCommits, CommitReturns, FinalOk, FinalFails,
        FinalCommitReturns, Shutdown, Exit, Crash, Vanish, Restart
  <2>2. \A p \in Partitions : position[p] \in Int /\ committed[p] \in Int /\ snapshot[p] \in Int
    BY CacheAssumption DEF TypeOK, Offsets, NoCommit
  <2>3. \A r \in Consumed' : r.partition \in Partitions /\ r.index \in Int
    BY DEF Consumed, Ops
  <2> QED
    BY <2>1, <2>2, <2>3
<1>1. CASE BrokerCommits
  <2>1. UNCHANGED <<log, position, origin, store, snapshot, worker>>
        /\ committed' = snapshot /\ worker \in {"commit", "finalCommit"}
    BY <1>1 DEF BrokerCommits, intake, flusher
  <2>2. CoveredBy(committed)' = CoveredBy(snapshot) /\ CoveredBy(snapshot)' = CoveredBy(snapshot)
    BY <2>1 DEF CoveredBy, Consumed
  <2> QED
    BY <2>1, <2>2 DEF SlackInv
<1>2. ASSUME committed' = committed PROVE Few((CoveredBy(committed) \ store)')
  <2>1. (CoveredBy(committed) \ store)' \subseteq CoveredBy(committed) \ store
    BY <1>0, <1>2, ConsumedStep DEF CoveredBy, CommitInv
  <2> QED
    BY <2>1, FewSubset DEF SlackInv
<1>3. CASE ApplyOk \/ FinalOk
  <2>1. /\ UNCHANGED <<log, position, origin, store, committed>>
        /\ snapshot' = position
    BY <1>3 DEF ApplyOk, FinalOk, intake, broker
  <2>2. (CoveredBy(snapshot) \ store)' \subseteq Consumed \ store
    BY <2>1 DEF CoveredBy, Consumed
  <2>3. Few((CoveredBy(snapshot) \ store)')
    BY <1>3, <2>2, FewUnwritten, FewSubset
  <2> QED
    BY <1>2, <2>1, <2>3 DEF SlackInv
<1>4. CASE ~ (BrokerCommits \/ ApplyOk \/ FinalOk)
  <2>1. /\ committed' = committed /\ snapshot' = snapshot
        /\ worker' \in {"commit", "finalCommit"} => worker' = worker
    BY <1>4, LoopHeadType DEF Next, vars, ConsumerStep, WorkerStep, Produce, StartConsumer,
        StartGivesUp, FetchSkip, FetchOp, FetchOpBlocks, FetchBad, PutReturns,
        ConsumerCloses, GetNoFlush, GetFlush, GetTimeout, RedisExecutes, ApplyFails,
        RetryDelayOver, CommitReturns, FinalFails, FinalCommitReturns, Shutdown,
        CancelStarting, CancelLoop, CancelClosing, CancelFinished, Exit, Crash, Vanish,
        Restart, broker, flusher
  <2>2. ASSUME worker' \in {"commit", "finalCommit"}
        PROVE  Few((CoveredBy(snapshot) \ store)')
    <3>1. (CoveredBy(snapshot) \ store)' \subseteq CoveredBy(snapshot) \ store
        BY <1>0, <2>1, <2>2, ConsumedStep DEF CoveredBy, CommitInv
    <3> QED
        BY <2>1, <2>2, <3>1, FewSubset DEF SlackInv
  <2> QED
    BY <1>2, <2>1, <2>2 DEF SlackInv
<1> QED
    BY <1>1, <1>3, <1>4

\* A commit never covers more unwritten operations than a full queue and one
\* suspended put() hold: that is what a crash makes the next run skip, at most.
THEOREM SlackBounded == Spec => []CommitSlack
<1>1. Init => SlackInv
    BY SlackInit
<1>2. IInv /\ SlackInv /\ [Next]_vars => SlackInv'
    BY SlackStep
<1>3. SlackInv => CommitSlack
    BY DEF SlackInv, Few, CommitSlack
<1> QED
    BY <1>1, <1>2, <1>3, Invariance, PTL DEF Spec
=============================================================================
