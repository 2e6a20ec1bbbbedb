----------------------------- MODULE StreamJobs -----------------------------
(***************************************************************************)
(* The three SQL jobs of the processing service, as Flink runs them: events *)
(* are read from the partitions of analytics_events, pass the filter of    *)
(* the job, gather in a window of their key, and are dropped if the window *)
(* is behind the watermark already.  When the watermark passes the end of  *)
(* a window its result goes to the job's topic.  Flink takes checkpoints,  *)
(* from which it restores the job after a failure; the job submitted anew  *)
(* starts at the earliest offset.                                          *)
(*                                                                         *)
(* What the repository decides is which events count, their keys, windows, *)
(* watermark delay, idle timeout, and where a submitted job starts.  What  *)
(* Flink makes of it is modelled as external.  The jobs share nothing but  *)
(* the topic they read: a behaviour is that of one of them.                *)
(***************************************************************************)
EXTENDS Integers, Sequences, FiniteSets, FiniteSetsExt

CONSTANTS Visitors,    \* user and session ids
          Home,        \* the partition of each visitor: messages are keyed by user id
          Shapes,      \* [type, load, agent] of the events there are
          Size,        \* processing_metrics_window_size_seconds
          LongSize,    \* processing_performance_window_size_seconds
          Gap,         \* processing_session_gap_seconds
          Delay,       \* flink_watermark_delay_seconds
          MaxTime,     \* bound: timestamps, which the clients supply
          MaxEvents,   \* bound: events
          MaxFailures  \* bound: failures and new submissions of the job

Partitions == {Home[v] : v \in Visitors}

Jobs == {"EventAggregator", "SessionTracker", "PerformanceTracker"}

Allowed == {"page_view", "click", "conversion", "add_to_cart"}

ASSUME StreamAssumption ==
    /\ IsFiniteSet(Visitors)
    /\ Home \in [Visitors -> Partitions]
    /\ \A s \in Shapes : DOMAIN s = {"type", "load", "agent"} /\ s.load \in BOOLEAN
    /\ Size \in Nat \ {0} /\ LongSize \in Nat \ {0} /\ Gap \in Nat \ {0}
    /\ Delay \in Nat /\ MaxTime \in Nat /\ MaxEvents \in Nat /\ MaxFailures \in Nat

VARIABLES
    job,         \* the job this behaviour is of
    log,         \* the events of each partition
    position,    \* how many of them the job has read
    latest,      \* the greatest timestamp it has read from each, since it started
    idle,        \* partitions left out of the watermark
    watermark,   \* of the window operator
    windows,     \* open windows
    results,     \* what the job's topic holds
    unflushed,   \* results a failure may lose: they came after the checkpoint
    checkpoint,  \* the last one, or what the job starts from
    run,         \* failures and submissions so far
    dropped,     \* events dropped as late
    stale,       \* events let in though behind the watermark (history)
    idled        \* partitions that have been idle (history)

source == <<position, latest, idle>>
history == <<stale, idled>>
vars == <<job, log, source, watermark, windows, results, unflushed, checkpoint,
          run, dropped, history>>

Events == [visitor : Visitors, shape : Shapes, time : 0..MaxTime]

NoWatermark == -Delay - 1

EventAt(id) == log[id[1]][id[2]]

TimeOf(id) == EventAt(id).time

Seen == {id \in Partitions \X (1..MaxEvents) : id[2] <= position[id[1]]}

-----------------------------------------------------------------------------
(* build_pipeline of the three jobs *)

\* Mutant of Tumble: the window opens with the event.
TumbleFromEvent(t, size) == [start |-> t, end |-> t + size]

Tumble(t, size) == [start |-> t - (t % size), end |-> t - (t % size) + size]

\* categorize_device: the first of three marks its user agent has.
DeviceCategory(agent) ==
    CASE "Mobile" \in agent -> "Mobile"
      [] "Mobile" \notin agent /\ "Tablet" \in agent -> "Tablet"
      [] agent \cap {"Mobile", "Tablet"} = {} /\ "Bot" \in agent -> "Bot"
      [] OTHER -> "Desktop"

\* The filter of each job, the key it groups by, and the window of a single event.
EventAggregator(event) ==
    [counted |-> event.shape.type \in Allowed,
     key |-> event.shape.type,
     span |-> Tumble(event.time, Size)]

SessionTracker(event) ==
    [counted |-> event.shape.type = "page_view",
     key |-> event.visitor,
     span |-> [start |-> event.time, end |-> event.time + Gap]]

PerformanceTracker(event) ==
    [counted |-> event.shape.type = "page_view" /\ event.shape.load,
     key |-> DeviceCategory(event.shape.agent),
     span |-> Tumble(event.time, LongSize)]

Pipeline(event) ==
    CASE job = "EventAggregator" -> EventAggregator(event)
      [] job = "SessionTracker" -> SessionTracker(event)
      [] job = "PerformanceTracker" -> PerformanceTracker(event)

Counted(event) == Pipeline(event).counted

WindowOf(id) ==
    LET own == Pipeline(EventAt(id))
    IN  [key |-> own.key, start |-> own.span.start, end |-> own.span.end, events |-> {id}]

\* Mutant of SplitWatermark: no delay.
SplitWatermarkUndelayed(p) == IF latest[p] < 0 THEN NoWatermark ELSE latest[p]

\* event_time minus the delay, of the greatest event_time so far.
SplitWatermark(p) == IF latest[p] < 0 THEN NoWatermark ELSE latest[p] - Delay

-----------------------------------------------------------------------------
(* What Flink makes of windows *)

\* Sessions merge if they overlap or touch; tumbling windows if they are the same.
Joins(v, w) ==
    /\ v.key = w.key
    /\ IF job = "SessionTracker" THEN v.start <= w.end /\ w.start <= v.end
                                 ELSE v.start = w.start

Neighbours(w) == {v \in windows : Joins(v, w)}

Merged(w) ==
    LET all == {w} \cup Neighbours(w)
    IN  [key |-> w.key, start |-> Min({v.start : v \in all}),
         end |-> Max({v.end : v \in all}), events |-> UNION {v.events : v \in all}]

\* A window fires when the watermark comes to its last instant, and is late then.
IsOver(w, mark) == w.end - 1 <= mark

IsLate(w) == IsOver(w, watermark)

-----------------------------------------------------------------------------
Snapshot == [position |-> position, windows |-> windows, dropped |-> dropped]

Scratch == [position |-> [p \in Partitions |-> 0], windows |-> {}, dropped |-> {}]

TypeOK ==
    /\ job \in Jobs
    /\ DOMAIN log = Partitions
    /\ \A p \in Partitions : log[p] \in Seq(Events) /\ position[p] \in 0..Len(log[p])
    /\ latest \in [Partitions -> -1..MaxTime]
    /\ idle \subseteq idled /\ idled \subseteq Partitions
    /\ watermark \in NoWatermark..(MaxTime - Delay)
    /\ dropped \subseteq Seen
    /\ run \in 0..MaxFailures

Init ==
    /\ job \in Jobs
    /\ log = [p \in Partitions |-> <<>>]
    /\ position = [p \in Partitions |-> 0]
    /\ latest = [p \in Partitions |-> -1]
    /\ idle = {}
    /\ watermark = NoWatermark
    /\ windows = {}
    /\ results = {}
    /\ unflushed = {}
    /\ checkpoint = Scratch
    /\ run = 0
    /\ dropped = {}
    /\ stale = {}
    /\ idled = {}

\* The producer of the ingestion service; timestamps come from the clients.
Arrive(event) ==
    /\ Cardinality(UNION {{p} \X DOMAIN log[p] : p \in Partitions}) < MaxEvents
    /\ log' = [log EXCEPT ![Home[event.visitor]] = Append(@, event)]
    /\ UNCHANGED <<job, source, watermark, windows, results, unflushed, checkpoint,
                   run, dropped, history>>

\* The source reads an event, and the window operator takes it in or drops it.
Read(p) ==
    LET id == <<p, position[p] + 1>>
        w == Merged(WindowOf(id))
    IN  /\ position[p] < Len(log[p])
        /\ position' = [position EXCEPT ![p] = @ + 1]
        /\ latest' = [latest EXCEPT ![p] = Max({@, TimeOf(id)})]
        /\ idle' = idle \ {p}
        /\ IF ~Counted(EventAt(id)) THEN UNCHANGED <<windows, dropped, stale>>
           ELSE IF IsLate(w)
           THEN dropped' = dropped \cup {id} /\ UNCHANGED <<windows, stale>>
           ELSE /\ windows' = (windows \ Neighbours(WindowOf(id))) \cup {w}
                /\ stale' = IF TimeOf(id) <= watermark THEN stale \cup {id} ELSE stale \ {id}
                /\ dropped' = dropped
        /\ UNCHANGED <<job, log, watermark, results, unflushed, checkpoint, run, idled>>

\* table.exec.source.idle-timeout: no event of the partition has come for a while,
\* or none could be fetched.
GoIdle(p) ==
    /\ p \notin idle
    /\ idle' = idle \cup {p}
    /\ idled' = idled \cup {p}
    /\ UNCHANGED <<job, log, position, latest, watermark, windows, results, unflushed,
                   checkpoint, run, dropped, stale>>

Result(w) == [key |-> w.key, start |-> w.start, end |-> w.end, events |-> w.events,
              run |-> run]

\* The watermark of the source reaches the operator: windows that are over fire.
Advance ==
    LET mark == Min({SplitWatermark(p) : p \in Partitions \ idle})
        over == {w \in windows : IsOver(w, mark)}
    IN  /\ idle # Partitions
        /\ mark > watermark
        /\ watermark' = mark
        /\ windows' = windows \ over
        /\ results' = results \cup {Result(w) : w \in over}
        /\ unflushed' = unflushed \cup {Result(w) : w \in over}
        /\ UNCHANGED <<job, log, source, checkpoint, run, dropped, history>>

\* The sinks flush at a checkpoint.  The watermark is not part of it.
Checkpoint ==
    /\ checkpoint # Snapshot
    /\ checkpoint' = Snapshot
    /\ unflushed' = {}
    /\ UNCHANGED <<job, log, source, watermark, windows, results, run, dropped, history>>

StartFrom(state) ==
    /\ position' = state.position
    /\ windows' = state.windows
    /\ dropped' = state.dropped
    /\ checkpoint' = state
    /\ latest' = [p \in Partitions |-> -1]
    /\ idle' = {}
    /\ watermark' = NoWatermark
    /\ run' = run + 1
    /\ unflushed' = {}
    /\ UNCHANGED <<job, log, history>>

\* The job fails, and with it results on their way; Flink restores the checkpoint.
Restore ==
    /\ run < MaxFailures
    /\ \E gone \in SUBSET unflushed : results' = results \ gone
    /\ StartFrom(checkpoint)

\* Mutant of Resubmit: scan.startup.mode is latest-offset.
ResubmitLatest ==
    /\ run < MaxFailures
    /\ \E gone \in SUBSET unflushed : results' = results \ gone
    /\ StartFrom([Scratch EXCEPT !.position = [p \in Partitions |-> Len(log[p])]])

\* The driver submits the jobs anew: earliest-offset, and no state.
Resubmit ==
    /\ run < MaxFailures
    /\ \E gone \in SUBSET unflushed : results' = results \ gone
    /\ StartFrom(Scratch)

-----------------------------------------------------------------------------
Next ==
    \/ \E event \in Events : Arrive(event)
    \/ \E p \in Partitions : Read(p) \/ GoIdle(p)
    \/ Advance \/ Checkpoint \/ Restore \/ Resubmit

Spec == Init /\ [][Next]_vars

-----------------------------------------------------------------------------
(* Properties *)

\* Every event a job has read and counts is in an open window, in a result of its
\* topic, or was dropped as late: neither a failure that loses results on their way
\* nor a new submission loses an event between offsets, state and sink.
EventsAccounted ==
    \A id \in Seen :
        Counted(EventAt(id)) =>
            \/ id \in dropped
            \/ \E w \in windows \cup results : id \in w.events

\* An event is dropped only if an event read before it from its own partition is so
\* much newer that the event's window had ended the delay before it, or if the
\* partition had been idle, so that the others could overtake it.
LateOnlyIfBehind ==
    \A id \in dropped :
        LET p == id[1]
            behind(w) == \E i \in 1..(id[2] - 1) : w.end - 1 <= log[p][i].time - Delay
        IN  behind(WindowOf(id)) \/ p \in idled

\* Once its result is out, no time of a tumbling window is counted again for its key
\* in the same run.  That of a session may be, but only if the one or the other has
\* taken in an event from behind the watermark: one that joins an open session is let
\* in however late it is, even if its own gap was over long ago.
NotReopened ==
    \A r \in results, w \in windows :
        /\ r.run = run /\ r.key = w.key
        /\ r.start < w.end /\ w.start < r.end
        => job = "SessionTracker" /\ (r.events \cup w.events) \cap stale # {}
=============================================================================
