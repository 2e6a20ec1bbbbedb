-------------------------- MODULE IngestionProducer --------------------------
(***************************************************************************)
(* The ingestion service: worker processes of one server accept events     *)
(* over HTTP and hand them to EventProducer, which puts them on the local  *)
(* queue of its Kafka client.  The client's own thread sends them later    *)
(* and leaves a delivery report for each, which the service serves when it *)
(* next polls the client.  The answer 202 is given before any of that.     *)
(*                                                                         *)
(* send_event never awaits (its retry delay is time.sleep), so a worker    *)
(* has one request in hand; the client's thread runs between its calls.    *)
(* An event stands for the one request that carries it.  A worker has one  *)
(* EventProducer: get_kafka_producer is cached; that concurrent first      *)
(* calls of it could build two is left out.                                *)
(***************************************************************************)
EXTENDS Integers, FiniteSets

CONSTANTS Workers,      \* uvicorn --workers
          Events,       \* the requests clients make
          QueueMax,     \* queue.buffering.max.messages of the Kafka client
          MaxAttempts,  \* attempts of send_event (200 in the code)
          MaxResends,   \* bound: messages the broker has taken and the client sends again
          MaxRuns       \* bound: times a worker is started

ASSUME IngestionAssumption ==
    /\ IsFiniteSet(Events)
    /\ QueueMax \in Nat \ {0}
    /\ MaxAttempts \in Nat \ {0}
    /\ MaxResends \in Nat
    /\ MaxRuns \in Nat \ {0}

VARIABLES
    life,       \* of each worker: "up", "stopping" (lifespan exit), "down"
    runs,       \* times it was started
    step,       \* of the request in hand: where it is
    sending,    \* its event
    attempt,    \* BufferErrors it has met
    local,      \* the local queue of the worker's Kafka client
    acked,      \* delivery reports of success that were not served yet
    failed,     \* delivery reports of failure that were not served yet
    topic,      \* copies of each event in analytics_events
    resends,    \* messages the broker took though the client sends them again
    answer,     \* what the client of each request has seen
    logged,     \* events whose kafka_delivery_failed was logged
    remaining,  \* events the flush of a shutdown has warned it leaves behind
    killed      \* events in a client whose process crashed (history)

process == <<life, runs>>
request == <<step, sending, attempt>>
client  == <<local, acked, failed>>
broker  == <<topic, resends>>
history == <<logged, remaining, killed>>
vars    == <<process, request, client, broker, answer, history>>

Steps == {"idle", "produce", "respond", "flush", "flushed"}

Answers == {"unsent", "pending", "accepted", "error"}

TypeOK ==
    /\ life \in [Workers -> {"up", "stopping", "down"}]
    /\ runs \in [Workers -> 1..MaxRuns]
    /\ step \in [Workers -> Steps]
    /\ sending \in [Workers -> SUBSET Events]
    /\ attempt \in [Workers -> 0..MaxAttempts]
    /\ local \in [Workers -> SUBSET Events]
    /\ acked \in [Workers -> SUBSET Events]
    /\ failed \in [Workers -> SUBSET Events]
    /\ topic \in [Events -> Nat]
    /\ resends \in 0..MaxResends
    /\ answer \in [Events -> Answers]
    /\ logged \in SUBSET Events
    /\ remaining \in SUBSET Events
    /\ killed \in SUBSET Events

None == [w \in Workers |-> {}]

Init ==
    /\ life = [w \in Workers |-> "up"]
    /\ runs = [w \in Workers |-> 1]
    /\ step = [w \in Workers |-> "idle"]
    /\ sending = None
    /\ attempt = [w \in Workers |-> 0]
    /\ local = None
    /\ acked = None
    /\ failed = None
    /\ topic = [e \in Events |-> 0]
    /\ resends = 0
    /\ answer = [e \in Events |-> "unsent"]
    /\ logged = {}
    /\ remaining = {}
    /\ killed = {}

-----------------------------------------------------------------------------
(* track_event and send_event *)

TrackEvent(w, e) ==
    /\ life[w] = "up"
    /\ step[w] = "idle"
    /\ answer[e] = "unsent"
    /\ answer' = [answer EXCEPT ![e] = "pending"]
    /\ step' = [step EXCEPT ![w] = "produce"]
    /\ sending' = [sending EXCEPT ![w] = {e}]
    /\ attempt' = [attempt EXCEPT ![w] = 0]
    /\ UNCHANGED <<process, client, broker, history>>

\* A message counts until its delivery report has been served.
QueueLength(w) == Cardinality(local[w]) + Cardinality(acked[w]) + Cardinality(failed[w])

\* poll(0): all reports are served; _delivery_report logs the failures.
Poll(w) ==
    /\ acked' = [acked EXCEPT ![w] = {}]
    /\ failed' = [failed EXCEPT ![w] = {}]
    /\ logged' = logged \cup failed[w]

\* Mutant of ProduceOk: no break, so that the loop produces the event again.
ProduceOkNoBreak(w) ==
    /\ step[w] = "produce"
    /\ QueueLength(w) < QueueMax
    /\ local' = [local EXCEPT ![w] = @ \cup sending[w]]
    /\ attempt' = [attempt EXCEPT ![w] = @ + 1]
    /\ step' = [step EXCEPT ![w] = IF attempt'[w] = MaxAttempts THEN "flush" ELSE "produce"]
    /\ UNCHANGED <<process, sending, acked, failed, broker, answer, history>>

\* produce() takes the event: break.
ProduceOk(w) ==
    /\ step[w] = "produce"
    /\ QueueLength(w) < QueueMax
    /\ local' = [local EXCEPT ![w] = @ \cup sending[w]]
    /\ step' = [step EXCEPT ![w] = "respond"]
    /\ UNCHANGED <<process, sending, attempt, acked, failed, broker, answer, history>>

\* Mutants of ProduceFull: the loop is left as after a success; it has no bound;
\* it makes one attempt more.
ProduceFullBreaks(w) ==
    /\ step[w] = "produce"
    /\ QueueLength(w) >= QueueMax
    /\ Poll(w)
    /\ step' = [step EXCEPT ![w] = "respond"]
    /\ UNCHANGED <<process, sending, attempt, local, broker, answer, remaining, killed>>

ProduceFullForever(w) ==
    /\ step[w] = "produce"
    /\ QueueLength(w) >= QueueMax
    /\ Poll(w)
    /\ UNCHANGED <<process, request, local, broker, answer, remaining, killed>>

ProduceFullOneMore(w) ==
    /\ step[w] = "produce"
    /\ QueueLength(w) >= QueueMax
    /\ Poll(w)
    /\ attempt' = [attempt EXCEPT ![w] = @ + 1]
    /\ step' = [step EXCEPT ![w] = IF attempt[w] = MaxAttempts THEN "flush" ELSE "produce"]
    /\ UNCHANGED <<process, sending, local, broker, answer, remaining, killed>>

\* BufferError: poll(0) and a short sleep; after the last attempt, flush().
ProduceFull(w) ==
    /\ step[w] = "produce"
    /\ QueueLength(w) >= QueueMax
    /\ Poll(w)
    /\ attempt' = [attempt EXCEPT ![w] = @ + 1]
    /\ step' = [step EXCEPT ![w] = IF attempt'[w] = MaxAttempts THEN "flush" ELSE "produce"]
    /\ UNCHANGED <<process, sending, local, broker, answer, remaining, killed>>

Answered(w, what) ==
    /\ answer' = [e \in Events |-> IF e \in sending[w] THEN what ELSE answer[e]]
    /\ step' = [step EXCEPT ![w] = "idle"]
    /\ sending' = [sending EXCEPT ![w] = {}]

\* A KafkaException or any other exception of produce() ends the request.
ProduceRaises(w) ==
    /\ step[w] = "produce"
    /\ Answered(w, "error")
    /\ UNCHANGED <<process, attempt, client, broker, history>>

\* poll(0) after the loop, then 202.
Respond(w) ==
    /\ step[w] = "respond"
    /\ Poll(w)
    /\ Answered(w, "accepted")
    /\ UNCHANGED <<process, attempt, local, broker, remaining, killed>>

-----------------------------------------------------------------------------
(* flush, of send_event and of lifespan *)

\* It serves the reports that come in while it waits.
FlushServes(w) ==
    /\ step[w] = "flush"
    /\ acked[w] \cup failed[w] # {}
    /\ Poll(w)
    /\ UNCHANGED <<process, request, local, broker, answer, remaining, killed>>

FlushEmpties(w) ==
    /\ step[w] = "flush"
    /\ QueueLength(w) = 0
    /\ step' = [step EXCEPT ![w] = "flushed"]
    /\ UNCHANGED <<process, sending, attempt, client, broker, answer, history>>

\* Its timeout is over with messages left: it warns and returns.
FlushTimesOut(w) ==
    /\ step[w] = "flush"
    /\ QueueLength(w) > 0
    /\ step' = [step EXCEPT ![w] = "flushed"]
    /\ remaining' = IF life[w] = "stopping"
                     THEN remaining \cup local[w] \cup failed[w] ELSE remaining
    /\ UNCHANGED <<process, sending, attempt, client, broker, answer, logged, killed>>

\* send_event goes on: BufferError.
GiveUp(w) ==
    /\ life[w] = "up"
    /\ step[w] = "flushed"
    /\ Answered(w, "error")
    /\ UNCHANGED <<process, attempt, client, broker, history>>

-----------------------------------------------------------------------------
(* The thread of the Kafka client *)

Transmit(w, e) ==
    /\ e \in local[w]
    /\ topic' = [topic EXCEPT ![e] = @ + 1]
    /\ local' = [local EXCEPT ![w] = @ \ {e}]
    /\ acked' = [acked EXCEPT ![w] = @ \cup {e}]
    /\ UNCHANGED <<process, request, failed, resends, answer, history>>

\* The broker has taken the message and the acknowledgement gets lost.
AckLost(w, e) ==
    /\ e \in local[w]
    /\ resends < MaxResends
    /\ resends' = resends + 1
    /\ topic' = [topic EXCEPT ![e] = @ + 1]
    /\ UNCHANGED <<process, request, client, answer, history>>

\* message.timeout.ms is over, or the broker refuses the message for good.
DeliveryFails(w, e) ==
    /\ e \in local[w]
    /\ local' = [local EXCEPT ![w] = @ \ {e}]
    /\ failed' = [failed EXCEPT ![w] = @ \cup {e}]
    /\ UNCHANGED <<process, request, acked, broker, answer, history>>

-----------------------------------------------------------------------------
(* lifespan *)

\* Mutant of Shutdown: lifespan does not flush.
ShutdownNoFlush(w) ==
    /\ life[w] = "up"
    /\ step[w] = "idle"
    /\ life' = [life EXCEPT ![w] = "stopping"]
    /\ step' = [step EXCEPT ![w] = "flushed"]
    /\ UNCHANGED <<runs, sending, attempt, client, broker, answer, history>>

\* The server waits for the request in hand; then lifespan calls flush().
Shutdown(w) ==
    /\ life[w] = "up"
    /\ step[w] = "idle"
    /\ life' = [life EXCEPT ![w] = "stopping"]
    /\ step' = [step EXCEPT ![w] = "flush"]
    /\ UNCHANGED <<runs, sending, attempt, client, broker, answer, history>>

\* The process ends, and what its Kafka client still holds with it.
Vanish(w) ==
    /\ life' = [life EXCEPT ![w] = "down"]
    /\ step' = [step EXCEPT ![w] = "idle"]
    /\ sending' = [sending EXCEPT ![w] = {}]
    /\ local' = [local EXCEPT ![w] = {}]
    /\ acked' = [acked EXCEPT ![w] = {}]
    /\ failed' = [failed EXCEPT ![w] = {}]
    /\ UNCHANGED <<runs, attempt, broker, answer, logged, remaining>>

\* flush() has returned: the worker ends.
Exit(w) ==
    /\ life[w] = "stopping"
    /\ step[w] = "flushed"
    /\ Vanish(w)
    /\ UNCHANGED killed

Crash(w) ==
    /\ life[w] # "down"
    /\ Vanish(w)
    /\ killed' = killed \cup local[w] \cup failed[w]

Restart(w) ==
    /\ life[w] = "down"
    /\ runs[w] < MaxRuns
    /\ life' = [life EXCEPT ![w] = "up"]
    /\ runs' = [runs EXCEPT ![w] = @ + 1]
    /\ UNCHANGED <<request, client, broker, answer, history>>

-----------------------------------------------------------------------------
FlushEnds(w) == FlushEmpties(w) \/ FlushTimesOut(w)

RequestStep(w) == ProduceOk(w) \/ ProduceFull(w) \/ Respond(w) \/ GiveUp(w)

ClientStep(w, e) == Transmit(w, e) \/ AckLost(w, e) \/ DeliveryFails(w, e)

Next ==
    \E w \in Workers :
        \/ \E e \in Events : TrackEvent(w, e) \/ ClientStep(w, e)
        \/ RequestStep(w) \/ ProduceRaises(w)
        \/ FlushServes(w) \/ FlushEnds(w)
        \/ Shutdown(w) \/ Exit(w) \/ Crash(w) \/ Restart(w)

Spec == Init /\ [][Next]_vars

-----------------------------------------------------------------------------
(* Fairness: the service's own code runs, and flush() has a timeout.  Nothing *)
(* is assumed of Kafka or of the client's thread, nor that produce() raises.  *)

FairSpec ==
    /\ Spec
    /\ \A w \in Workers : WF_vars(RequestStep(w)) /\ WF_vars(FlushEnds(w))

-----------------------------------------------------------------------------
(* Properties *)

\* An event whose client was told 202 is in the topic, or on its way there, or its
\* failure is reported or logged, or the flush of a shutdown has warned that it is
\* left, or its process crashed: neither a full queue, nor a report served late, nor
\* a graceful stop loses it without a trace.
AcceptedAccounted ==
    \A e \in Events :
        answer[e] = "accepted" =>
            \/ topic[e] > 0
            \/ \E w \in Workers : e \in local[w] \cup failed[w]
            \/ e \in logged \cup remaining \cup killed

\* An event whose client was told of an error is not in the topic and never will
\* be, though send_event has tried it up to 200 times: a client that sends it
\* again makes no duplicate.
RefusedIsNotSent ==
    \A e \in Events :
        answer[e] = "error" => topic[e] = 0 /\ \A w \in Workers : e \notin local[w]

\* One request puts one message on one queue; only a lost acknowledgement makes
\* the topic hold it twice.
SentOnce ==
    /\ \A e \in Events : topic[e] <= 1 + resends
    /\ \A w, v \in Workers : w # v => local[w] \cap local[v] = {}

\* Every request gets its answer, with Kafka down and the queue full, unless the
\* process dies first: the retries of send_event and its flush end.
RequestsAnswered ==
    \A e \in Events, w \in Workers :
        (e \in sending[w]) ~> (answer[e] \in {"accepted", "error"} \/ life[w] = "down")
=============================================================================
