--------------------------- MODULE IngestionProofs ---------------------------
(***************************************************************************)
(* Proofs about IngestionProducer, for any number of workers and events,   *)
(* any bound of the queue and any number of attempts.                      *)
(***************************************************************************)
EXTENDS IngestionProducer, FiniteSetTheorems, TLAPS

-----------------------------------------------------------------------------
(* The inductive invariant *)

\* The loop of send_event has an attempt left while it is in it.
AttemptInv == \A w \in Workers : step[w] = "produce" => attempt[w] < MaxAttempts

\* The requests in hand: none at an idle worker, each unanswered and at one worker.
HandInv ==
    /\ \A w \in Workers : step[w] = "idle" => sending[w] = {}
    /\ \A w \in Workers : \A e \in sending[w] : answer[e] = "pending"
    /\ \A w, v \in Workers : w # v => sending[w] \cap sending[v] = {}

\* No client, and no report, has anything of the event, and the topic has not either.
Nowhere(e) ==
    /\ topic[e] = 0
    /\ \A w \in Workers : e \notin local[w] \cup acked[w] \cup failed[w]

\* Events nobody has sent, events produce() has not taken, and events refused are
\* nowhere.
NowhereInv ==
    /\ \A e \in Events : answer[e] \in {"unsent", "error"} => Nowhere(e)
    /\ \A w \in Workers : step[w] \in {"produce", "flush", "flushed"} => \A e \in sending[w] : Nowhere(e)

Accounted(e) ==
    \/ topic[e] > 0
    \/ \E w \in Workers : e \in local[w] \cup failed[w]
    \/ e \in logged \cup remaining \cup killed

\* An event is accounted for from the moment produce() has taken it.
AccountedInv ==
    /\ \A e \in Events : answer[e] = "accepted" => Accounted(e)
    /\ \A w \in Workers : step[w] = "respond" => \A e \in sending[w] : Accounted(e)

\* A worker that has flushed to stop holds nothing but what the flush warned of.
FlushedInv ==
    \A w \in Workers :
        life[w] = "stopping" =>
            /\ step[w] \in {"flush", "flushed"}
            /\ step[w] = "flushed" => local[w] \cup failed[w] \subseteq remaining

\* One copy of an event is either in one queue or in the topic; the others were resent.
CopyInv ==
    /\ \A e \in Events : topic[e] <= 1 + resends
    /\ \A w \in Workers : \A e \in local[w] : topic[e] <= resends
    /\ \A w, v \in Workers : w # v => local[w] \cap local[v] = {}

IInv ==
    TypeOK /\ AttemptInv /\ HandInv /\ NowhereInv /\ FlushedInv /\ AccountedInv /\ CopyInv

-----------------------------------------------------------------------------
(* Types and attempts *)

\* The initial state satisfies the inductive invariant.
LEMMA InitInv == Init => IInv
<1> SUFFICES ASSUME Init PROVE IInv
    OBVIOUS
<1> USE IngestionAssumption DEF Init, None
<1>1. TypeOK
    BY DEF TypeOK, Steps, Answers
<1>2. AttemptInv /\ HandInv /\ FlushedInv /\ CopyInv
    BY DEF AttemptInv, HandInv, FlushedInv, CopyInv
<1>3. NowhereInv
    BY DEF NowhereInv, Nowhere
<1>4. AccountedInv
    BY DEF AccountedInv
<1> QED
    BY <1>1, <1>2, <1>3, <1>4 DEF IInv

\* Every step keeps the types, and counts no attempt beyond the last.
LEMMA TypeStep == TypeOK /\ AttemptInv /\ [Next]_vars => TypeOK' /\ AttemptInv'
<1> SUFFICES ASSUME TypeOK, AttemptInv, [Next]_vars PROVE TypeOK' /\ AttemptInv'
    OBVIOUS
<1> USE IngestionAssumption DEF TypeOK, AttemptInv, Steps, Answers, process, request, client,
        broker, history
<1>1. ASSUME NEW w \in Workers, NEW e \in Events, TrackEvent(w, e)
      PROVE  TypeOK' /\ AttemptInv'
    BY <1>1 DEF TrackEvent
<1>2. ASSUME NEW w \in Workers, NEW e \in Events, Transmit(w, e)
      PROVE  TypeOK' /\ AttemptInv'
    BY <1>2 DEF Transmit
<1>3. ASSUME NEW w \in Workers, NEW e \in Events, AckLost(w, e)
      PROVE  TypeOK' /\ AttemptInv'
    BY <1>3 DEF AckLost
<1>4. ASSUME NEW w \in Workers, NEW e \in Events, DeliveryFails(w, e)
      PROVE  TypeOK' /\ AttemptInv'
    BY <1>4 DEF DeliveryFails
<1>5. ASSUME NEW w \in Workers, ProduceOk(w) PROVE TypeOK' /\ AttemptInv'
    BY <1>5 DEF ProduceOk
<1>6. ASSUME NEW w \in Workers, ProduceFull(w) PROVE TypeOK' /\ AttemptInv'
    BY <1>6 DEF ProduceFull, Poll
<1>7. ASSUME NEW w \in Workers, NEW what \in {"accepted", "error"}, Answered(w, what)
      PROVE  /\ answer' \in [Events -> Answers] /\ step' \in [Workers -> Steps]
             /\ sending' \in [Workers -> SUBSET Events]
             /\ step'[w] = "idle" /\ \A v \in Workers \ {w} : step'[v] = step[v]
    BY <1>7 DEF Answered
<1>8. ASSUME NEW w \in Workers, ProduceRaises(w) PROVE TypeOK' /\ AttemptInv'
    BY <1>7, <1>8 DEF ProduceRaises
<1>9. ASSUME NEW w \in Workers, Respond(w) PROVE TypeOK' /\ AttemptInv'
    BY <1>7, <1>9 DEF Respond, Poll
<1>10. ASSUME NEW w \in Workers, FlushServes(w) PROVE TypeOK' /\ AttemptInv'
    BY <1>10 DEF FlushServes, Poll
<1>11. ASSUME NEW w \in Workers, GiveUp(w) PROVE TypeOK' /\ AttemptInv'
    BY <1>7, <1>11 DEF GiveUp
<1>12. ASSUME NEW w \in Workers, Shutdown(w) \/ FlushEnds(w) PROVE TypeOK' /\ AttemptInv'
    BY <1>12 DEF Shutdown, FlushEnds, FlushEmpties, FlushTimesOut
<1>13. ASSUME NEW w \in Workers, Exit(w) \/ Crash(w) PROVE TypeOK' /\ AttemptInv'
    BY <1>13 DEF Exit, Crash, Vanish
<1>14. ASSUME NEW w \in Workers, Restart(w) PROVE TypeOK' /\ AttemptInv'
    BY <1>14 DEF Restart
<1>15. CASE UNCHANGED vars
    BY <1>15 DEF vars
<1> QED
    BY <1>1, <1>2, <1>3, <1>4, <1>5, <1>6, <1>8, <1>9, <1>10, <1>11, <1>12, <1>13, <1>14,
       <1>15 DEF Next, RequestStep, ClientStep

-----------------------------------------------------------------------------
(* The requests in hand *)

\* A step gives a worker at most one request more, which nobody had sent before,
\* or answers the one it has.
LEMMA HandStep == TypeOK /\ HandInv /\ [Next]_vars => HandInv'
<1> SUFFICES ASSUME TypeOK, HandInv, [Next]_vars PROVE HandInv'
    OBVIOUS
<1> USE DEF TypeOK, HandInv, process, request, client, broker, history
<1>1. ASSUME NEW w \in Workers, NEW e \in Events, TrackEvent(w, e) PROVE HandInv'
    BY <1>1 DEF TrackEvent
<1>2. ASSUME UNCHANGED <<step, sending, answer>> PROVE HandInv'
    BY <1>2
<1>3. ASSUME NEW w \in Workers,
             ProduceOk(w) \/ ProduceFull(w) \/ Shutdown(w) \/ FlushEnds(w)
      PROVE  HandInv'
    BY <1>3 DEF ProduceOk, ProduceFull, Shutdown, FlushEnds, FlushEmpties, FlushTimesOut
<1>4. ASSUME NEW w \in Workers, NEW what, Answered(w, what) PROVE HandInv'
    BY <1>4 DEF Answered
<1>5. ASSUME NEW w \in Workers, Vanish(w) PROVE HandInv'
    BY <1>5 DEF Vanish
<1>6. ASSUME NEW w \in Workers, NEW e \in Events, ClientStep(w, e) PROVE HandInv'
    BY <1>2, <1>6 DEF ClientStep, Transmit, AckLost, DeliveryFails
<1>7. ASSUME NEW w \in Workers, FlushServes(w) \/ Restart(w) PROVE HandInv'
    BY <1>2, <1>7 DEF FlushServes, Restart
<1>8. CASE UNCHANGED vars
    BY <1>2, <1>8 DEF vars
<1> QED
    BY <1>1, <1>3, <1>4, <1>5, <1>6, <1>7, <1>8
       DEF Next, RequestStep, ProduceRaises, Respond, GiveUp, Exit, Crash

-----------------------------------------------------------------------------
(* Where events are *)

\* Only produce(), called with the event, brings an event somewhere that is nowhere.
LEMMA StaysNowhere ==
    ASSUME TypeOK, [Next]_vars, NEW e \in Events, Nowhere(e),
           \A w \in Workers : ProduceOk(w) => e \notin sending[w]
    PROVE  Nowhere(e)'
<1> USE DEF TypeOK, Nowhere, process, request, client, broker, history
<1>1. ASSUME UNCHANGED <<client, broker>> PROVE Nowhere(e)'
    BY <1>1
<1>2. ASSUME NEW w \in Workers, NEW f \in Events, TrackEvent(w, f) PROVE Nowhere(e)'
    BY <1>1, <1>2 DEF TrackEvent
<1>3. ASSUME NEW w \in Workers, NEW f \in Events, ClientStep(w, f) PROVE Nowhere(e)'
    BY <1>3 DEF ClientStep, Transmit, AckLost, DeliveryFails
<1>4. ASSUME NEW w \in Workers, ProduceOk(w) PROVE Nowhere(e)'
    BY <1>4 DEF ProduceOk
<1>5. ASSUME NEW w \in Workers, ProduceFull(w) \/ Respond(w) \/ FlushServes(w)
      PROVE  Nowhere(e)'
    BY <1>5 DEF ProduceFull, Respond, FlushServes, Poll
<1>6. ASSUME NEW w \in Workers,
             GiveUp(w) \/ ProduceRaises(w) \/ Shutdown(w) \/ FlushEnds(w) \/ Restart(w)
      PROVE  Nowhere(e)'
    BY <1>1, <1>6
       DEF GiveUp, ProduceRaises, Shutdown, FlushEnds, FlushEmpties, FlushTimesOut, Restart
<1>7. ASSUME NEW w \in Workers, Vanish(w) PROVE Nowhere(e)'
    BY <1>7 DEF Vanish
<1>8. CASE UNCHANGED vars
    BY <1>1, <1>8 DEF vars
<1> QED
    BY <1>2, <1>3, <1>4, <1>5, <1>6, <1>7, <1>8 DEF Next, RequestStep, Exit, Crash

\* A flush that empties the queue leaves no message and no report.
LEMMA Emptied ==
    ASSUME TypeOK, NEW w \in Workers, QueueLength(w) = 0
    PROVE  local[w] = {} /\ acked[w] = {} /\ failed[w] = {}
<1>1. IsFiniteSet(local[w]) /\ IsFiniteSet(acked[w]) /\ IsFiniteSet(failed[w])
    BY IngestionAssumption, FS_Subset DEF IngestionAssumption, TypeOK
<1>2. /\ Cardinality(local[w]) \in Nat /\ Cardinality(acked[w]) \in Nat
      /\ Cardinality(failed[w]) \in Nat
    BY <1>1, FS_CardinalityType
<1>3. Cardinality(local[w]) = 0 /\ Cardinality(acked[w]) = 0 /\ Cardinality(failed[w]) = 0
    BY <1>2 DEF QueueLength
<1> QED
    BY <1>1, <1>3, FS_EmptySet

\* What is accounted for stays so: reports follow queues, logs follow reports.
LEMMA StaysAccounted ==
    ASSUME TypeOK, FlushedInv, [Next]_vars, NEW e \in Events, Accounted(e)
    PROVE  Accounted(e)'
<1> USE DEF TypeOK, Accounted, process, request, client, broker, history
<1>1. ASSUME UNCHANGED <<client, broker, history>> PROVE Accounted(e)'
    BY <1>1
<1>2. ASSUME NEW w \in Workers, NEW f \in Events, TrackEvent(w, f) PROVE Accounted(e)'
    BY <1>1, <1>2 DEF TrackEvent
<1>3. ASSUME NEW w \in Workers, NEW f \in Events, Transmit(w, f) \/ AckLost(w, f)
      PROVE  Accounted(e)'
    BY <1>3 DEF Transmit, AckLost
<1>4. ASSUME NEW w \in Workers, NEW f \in Events, DeliveryFails(w, f) PROVE Accounted(e)'
    BY <1>4 DEF DeliveryFails
<1>5. ASSUME NEW w \in Workers, ProduceOk(w) PROVE Accounted(e)'
    BY <1>5 DEF ProduceOk
<1>6. ASSUME NEW w \in Workers, ProduceFull(w) \/ Respond(w) \/ FlushServes(w)
      PROVE  Accounted(e)'
    BY <1>6 DEF ProduceFull, Respond, FlushServes, Poll
<1>7. ASSUME NEW w \in Workers, GiveUp(w) \/ ProduceRaises(w) \/ Shutdown(w) \/ Restart(w)
      PROVE  Accounted(e)'
    BY <1>1, <1>7 DEF GiveUp, ProduceRaises, Shutdown, Restart
<1>8. ASSUME NEW w \in Workers, FlushEnds(w) PROVE Accounted(e)'
    BY <1>8 DEF FlushEnds, FlushEmpties, FlushTimesOut
<1>9. ASSUME NEW w \in Workers, Exit(w) PROVE Accounted(e)'
    BY <1>9 DEF Exit, Vanish, FlushedInv
<1>10. ASSUME NEW w \in Workers, Crash(w) PROVE Accounted(e)'
    BY <1>10 DEF Crash, Vanish
<1>11. CASE UNCHANGED vars
    BY <1>1, <1>11 DEF vars
<1> QED
    BY <1>2, <1>3, <1>4, <1>5, <1>6, <1>7, <1>8, <1>9, <1>10, <1>11
       DEF Next, RequestStep, ClientStep

\* A worker that stops produces nothing more: after its flush the queue only shrinks,
\* and reports come of what was in it.
LEMMA FlushedStep == TypeOK /\ FlushedInv /\ [Next]_vars => FlushedInv'
<1> SUFFICES ASSUME TypeOK, FlushedInv, [Next]_vars PROVE FlushedInv'
    OBVIOUS
<1> USE DEF TypeOK, FlushedInv, process, request, client, broker, history
<1>1. ASSUME NEW w \in Workers, NEW e \in Events, TrackEvent(w, e) PROVE FlushedInv'
    BY <1>1 DEF TrackEvent
<1>2. ASSUME NEW w \in Workers, NEW e \in Events, ClientStep(w, e) PROVE FlushedInv'
    BY <1>2 DEF ClientStep, Transmit, AckLost, DeliveryFails
<1>3. ASSUME NEW w \in Workers, ProduceOk(w) \/ ProduceFull(w) PROVE FlushedInv'
    BY <1>3 DEF ProduceOk, ProduceFull, Poll
<1>4. ASSUME NEW w \in Workers, ProduceRaises(w) \/ GiveUp(w) PROVE FlushedInv'
    BY <1>4 DEF ProduceRaises, GiveUp, Answered
<1>5. ASSUME NEW w \in Workers, Respond(w) PROVE FlushedInv'
    BY <1>5 DEF Respond, Answered, Poll
<1>6. ASSUME NEW w \in Workers, FlushServes(w) PROVE FlushedInv'
    BY <1>6 DEF FlushServes, Poll
<1>7. ASSUME NEW w \in Workers, FlushEmpties(w) PROVE FlushedInv'
  <2>1. local[w] = {} /\ failed[w] = {}
      BY <1>7, Emptied DEF FlushEmpties
  <2> QED
      BY <1>7, <2>1 DEF FlushEmpties
<1>8. ASSUME NEW w \in Workers, FlushTimesOut(w) PROVE FlushedInv'
    BY <1>8 DEF FlushTimesOut
<1>9. ASSUME NEW w \in Workers, Shutdown(w) \/ Restart(w) PROVE FlushedInv'
    BY <1>9 DEF Shutdown, Restart
<1>10. ASSUME NEW w \in Workers, Vanish(w) PROVE FlushedInv'
    BY <1>10 DEF Vanish
<1>11. CASE UNCHANGED vars
    BY <1>11 DEF vars
<1> QED
    BY <1>1, <1>2, <1>3, <1>4, <1>5, <1>6, <1>7, <1>8, <1>9, <1>10, <1>11
       DEF Next, RequestStep, FlushEnds, Exit, Crash

\* An event that is refused, or still to be produced, has been nowhere.
LEMMA NowhereStep == TypeOK /\ HandInv /\ NowhereInv /\ [Next]_vars => NowhereInv'
<1> SUFFICES ASSUME TypeOK, HandInv, NowhereInv, [Next]_vars PROVE NowhereInv'
    OBVIOUS
<1> USE DEF TypeOK, HandInv, NowhereInv, process, request, client, broker, history
<1>1. ASSUME NEW e \in Events, Nowhere(e), \A w \in Workers : ProduceOk(w) => e \notin sending[w]
      PROVE  Nowhere(e)'
    BY <1>1, StaysNowhere
<1>2. CASE \E w \in Workers : ProduceOk(w)
  <2>1. PICK w \in Workers : ProduceOk(w)
      BY <1>2
  <2>2. ASSUME NEW v \in Workers, ProduceOk(v) PROVE v = w
      BY <2>1, <2>2 DEF ProduceOk, Steps
  <2>3. ASSUME NEW e \in Events, Nowhere(e), e \notin sending[w] PROVE Nowhere(e)'
      BY <1>1, <2>2, <2>3
  <2> QED
      BY <2>1, <2>3 DEF ProduceOk
<1>3. CASE \A w \in Workers : ~ProduceOk(w)
  <2>1. \A e \in Events : Nowhere(e) => Nowhere(e)'
      BY <1>1, <1>3
  <2>2. ASSUME NEW w \in Workers, NEW e \in Events, TrackEvent(w, e) PROVE NowhereInv'
      BY <2>1, <2>2 DEF TrackEvent
  <2>3. ASSUME UNCHANGED <<step, sending, answer>> PROVE NowhereInv'
      BY <2>1, <2>3
  <2>4. ASSUME NEW w \in Workers, ProduceFull(w) \/ FlushEnds(w) PROVE NowhereInv'
      BY <2>1, <2>4 DEF ProduceFull, FlushEnds, FlushEmpties, FlushTimesOut
  <2>5. ASSUME NEW w \in Workers, GiveUp(w) \/ ProduceRaises(w) PROVE NowhereInv'
      BY <2>1, <2>5 DEF GiveUp, ProduceRaises, Answered
  <2>6. ASSUME NEW w \in Workers, Respond(w) PROVE NowhereInv'
      BY <2>1, <2>6 DEF Respond, Answered
  <2>7. ASSUME NEW w \in Workers, Vanish(w) PROVE NowhereInv'
      BY <2>1, <2>7 DEF Vanish
  <2>8. ASSUME NEW w \in Workers, NEW e \in Events, ClientStep(w, e) PROVE NowhereInv'
      BY <2>3, <2>8 DEF ClientStep, Transmit, AckLost, DeliveryFails
  <2>9. ASSUME NEW w \in Workers, FlushServes(w) \/ Restart(w) PROVE NowhereInv'
      BY <2>3, <2>9 DEF FlushServes, Restart
  <2>10. ASSUME NEW w \in Workers, Shutdown(w) PROVE NowhereInv'
      BY <2>1, <2>10 DEF Shutdown
  <2>11. CASE UNCHANGED vars
      BY <2>3, <2>11 DEF vars
  <2> QED
      BY <1>3, <2>2, <2>4, <2>5, <2>6, <2>7, <2>8, <2>9, <2>10, <2>11
         DEF Next, RequestStep, Exit, Crash
<1> QED
    BY <1>2, <1>3

\* 202 is answered for an event produce() has taken.
LEMMA AccountedStep ==
    TypeOK /\ HandInv /\ FlushedInv /\ AccountedInv /\ [Next]_vars => AccountedInv'
<1> SUFFICES ASSUME TypeOK, HandInv, FlushedInv, AccountedInv, [Next]_vars PROVE AccountedInv'
    OBVIOUS
<1> USE DEF TypeOK, HandInv, AccountedInv, process, request, client, broker, history
<1>1. \A e \in Events : Accounted(e) => Accounted(e)'
    BY StaysAccounted
<1>2. ASSUME NEW w \in Workers, NEW e \in Events, TrackEvent(w, e) PROVE AccountedInv'
    BY <1>1, <1>2 DEF TrackEvent
<1>3. ASSUME UNCHANGED <<step, sending, answer>> PROVE AccountedInv'
    BY <1>1, <1>3
<1>4. ASSUME NEW w \in Workers, ProduceOk(w) PROVE AccountedInv'
  <2>1. \A e \in sending[w] : Accounted(e)'
      BY <1>4 DEF ProduceOk, Accounted
  <2> QED
      BY <1>1, <1>4, <2>1 DEF ProduceOk
<1>5. ASSUME NEW w \in Workers, ProduceFull(w) \/ Shutdown(w) \/ FlushEnds(w)
      PROVE  AccountedInv'
    BY <1>1, <1>5 DEF ProduceFull, Shutdown, FlushEnds, FlushEmpties, FlushTimesOut
<1>6. ASSUME NEW w \in Workers, GiveUp(w) \/ ProduceRaises(w) PROVE AccountedInv'
    BY <1>1, <1>6 DEF GiveUp, ProduceRaises, Answered
<1>7. ASSUME NEW w \in Workers, Respond(w) PROVE AccountedInv'
    BY <1>1, <1>7 DEF Respond, Answered
<1>8. ASSUME NEW w \in Workers, Vanish(w) PROVE AccountedInv'
    BY <1>1, <1>8 DEF Vanish
<1>9. ASSUME NEW w \in Workers, NEW e \in Events, ClientStep(w, e) PROVE AccountedInv'
    BY <1>3, <1>9 DEF ClientStep, Transmit, AckLost, DeliveryFails
<1>10. ASSUME NEW w \in Workers, FlushServes(w) \/ Restart(w) PROVE AccountedInv'
    BY <1>3, <1>10 DEF FlushServes, Restart
<1>11. CASE UNCHANGED vars
    BY <1>3, <1>11 DEF vars
<1> QED
    BY <1>2, <1>4, <1>5, <1>6, <1>7, <1>8, <1>9, <1>10, <1>11
       DEF Next, RequestStep, Exit, Crash

\* produce() is called for an event that is nowhere, so it adds the only copy that is
\* not a resend.
LEMMA CopyStep == TypeOK /\ HandInv /\ NowhereInv /\ CopyInv /\ [Next]_vars => CopyInv'
<1> SUFFICES ASSUME TypeOK, HandInv, NowhereInv, CopyInv, [Next]_vars PROVE CopyInv'
    OBVIOUS
<1> USE IngestionAssumption DEF TypeOK, CopyInv, process, request, client, broker, history
<1>1. ASSUME UNCHANGED <<local, broker>> PROVE CopyInv'
    BY <1>1
<1>2. ASSUME NEW w \in Workers, NEW e \in Events, Transmit(w, e) PROVE CopyInv'
    BY <1>2 DEF Transmit
<1>3. ASSUME NEW w \in Workers, NEW e \in Events, AckLost(w, e) PROVE CopyInv'
    BY <1>3 DEF AckLost
<1>4. ASSUME NEW w \in Workers, NEW e \in Events, DeliveryFails(w, e) PROVE CopyInv'
    BY <1>4 DEF DeliveryFails
<1>5. ASSUME NEW w \in Workers, ProduceOk(w) PROVE CopyInv'
  <2>1. \A e \in sending[w] : topic[e] = 0 /\ \A v \in Workers : e \notin local[v]
      BY <1>5 DEF ProduceOk, NowhereInv, Nowhere
  <2> QED
      BY <1>5, <2>1 DEF ProduceOk
<1>6. ASSUME NEW w \in Workers, Vanish(w) PROVE CopyInv'
    BY <1>6 DEF Vanish
<1>7. ASSUME NEW w \in Workers, NEW e \in Events, TrackEvent(w, e) PROVE CopyInv'
    BY <1>1, <1>7 DEF TrackEvent
<1>8. ASSUME NEW w \in Workers,
             \/ ProduceFull(w) \/ Respond(w) \/ FlushServes(w) \/ GiveUp(w)
             \/ ProduceRaises(w) \/ Shutdown(w) \/ FlushEnds(w) \/ Restart(w)
      PROVE  CopyInv'
    BY <1>1, <1>8 DEF ProduceFull, Respond, FlushServes, GiveUp, ProduceRaises, Shutdown,
                      FlushEnds, FlushEmpties, FlushTimesOut, Restart
<1>9. CASE UNCHANGED vars
    BY <1>1, <1>9 DEF vars
<1> QED
    BY <1>2, <1>3, <1>4, <1>5, <1>6, <1>7, <1>8, <1>9
       DEF Next, RequestStep, ClientStep, Exit, Crash

-----------------------------------------------------------------------------
(* Theorems *)

\* The inductive invariant holds in every state the workers reach.
THEOREM IngestionInvariance == Spec => []IInv
<1>1. IInv /\ [Next]_vars => IInv'
    BY TypeStep, HandStep, NowhereStep, FlushedStep, AccountedStep, CopyStep DEF IInv
<1> QED
    BY InitInv, <1>1, PTL DEF Spec

\* send_event makes no attempt beyond its last, and all else has its type,
\* for any bound of the queue.
THEOREM IngestionTypeCorrect == Spec => []TypeOK
<1>1. IInv => TypeOK
    BY DEF IInv
<1> QED
    BY <1>1, IngestionInvariance, PTL

\* An event answered with 202 is in the topic, on its way, reported or logged as
\* failed, warned of by the flush of a shutdown, or in a process that crashed; for any
\* number of workers and any queue.
THEOREM AcceptedIsAccounted == Spec => []AcceptedAccounted
<1>1. IInv => AcceptedAccounted
    BY DEF IInv, AccountedInv, Accounted, AcceptedAccounted
<1> QED
    BY <1>1, IngestionInvariance, PTL

\* An event whose request failed is not in the topic and never gets there.
THEOREM RefusedNeverSent == Spec => []RefusedIsNotSent
<1>1. IInv => RefusedIsNotSent
    BY DEF IInv, NowhereInv, Nowhere, RefusedIsNotSent
<1> QED
    BY <1>1, IngestionInvariance, PTL

\* The retries of send_event put one message on one queue; only resends of the client
\* make copies.
THEOREM EventSentOnce == Spec => []SentOnce
<1>1. IInv => SentOnce
    BY DEF IInv, CopyInv, SentOnce
<1> QED
    BY <1>1, IngestionInvariance, PTL
=============================================================================
