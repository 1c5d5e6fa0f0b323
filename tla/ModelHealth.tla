---------------------------- MODULE ModelHealth ----------------------------
(***************************************************************************)
(* The health of one pair of provider and model                            *)
(* (naked-core/src/model_catalog/health.rs): turns on several threads      *)
(* append what became of them to a log, without a lock, and to a ring in   *)
(* memory, under one; enough failures in the window put the pair into      *)
(* quarantine, which the chain of fallbacks of a research run passes over  *)
(* (selector.rs); a new process reads the window from the log.             *)
(***************************************************************************)
EXTENDS Integers, FiniteSets

CONSTANTS
    Thread,       \* turns that report at the same time
    EmptyAt, ErrorAt,               \* failures in the window that start a quarantine
    Horizon, Quarantine, Recovery,  \* window_hours, quarantine_duration_secs, recovery_window_secs
    MaxEvents, MaxTicks, MaxMishaps \* bounds on reports, on time, on crashes and full disks

VARIABLES
    clock,
    ring,         \* PairRing: events as a set, until (0 for no quarantine), ever
    health_log,   \* events on a line of their own, and those on the line not yet ended
    happened,     \* history: every event that was to be reported
    report,       \* thread -> [at, event]
    last,         \* history: the moment of the event last counted if it is a failure, else 0
    mishaps

vars == <<clock, ring, health_log, happened, report, last, mishaps>>

Kinds == {"success", "empty", "error"}
NoEvent == [ts |-> 0, kind |-> "none", nth |-> 0]
\* Reports of one kind and moment are told apart by their number.
Event == [ts : 1..MaxTicks, kind : Kinds, nth : 1..MaxEvents]
NewRing == [events |-> {}, until |-> 0, ever |-> FALSE]
NoReport == [at |-> "idle", event |-> NoEvent]

Init ==
    /\ clock = 1 /\ ring = NewRing /\ happened = {}
    /\ health_log = [lines |-> {}, open |-> {}]
    /\ report = [t \in Thread |-> NoReport]
    /\ last = 0 /\ mishaps = MaxMishaps

-----------------------------------------------------------------------------
\* What counts, of the events, at a moment.

Within(events, now) == {e \in events : e.ts >= now - Horizon}
Count(events, kind) == Cardinality({e \in events : e.kind = kind})

\* maybe_quarantine: either threshold is enough.  (A timeout counts as an error.)
Triggers(events) == Count(events, "empty") >= EmptyAt \/ Count(events, "error") >= ErrorAt

\* trim_ring, with the time of the report
Untrimmed(events, now) == events
Trimmed(events, now) == Within(events, now)

\* A success soon after the start of a quarantine clears it; what triggers it is
\* looked at again in the same call.
Clears(e) ==
    /\ e.kind = "success" /\ ring.until > e.ts
    /\ e.ts - (ring.until - Quarantine) <= Recovery

CountedBefore(e) ==
    LET events == Trimmed(ring.events, e.ts)
        until == IF Clears(e) THEN 0 ELSE ring.until IN
    [events |-> events \cup {e},
     until |-> IF Triggers(events) /\ until <= e.ts THEN e.ts + Quarantine ELSE until,
     ever |-> ring.ever \/ e.kind = "success"]

Updated(e) ==
    LET events == Trimmed(ring.events \cup {e}, e.ts)
        until == IF Clears(e) THEN 0 ELSE ring.until IN
    [events |-> events,
     until |-> IF Triggers(events) /\ until <= e.ts THEN e.ts + Quarantine ELSE until,
     ever |-> ring.ever \/ e.kind = "success"]

\* The transitions the observer is told of.  (Failure modes are left out.)
ToTell(e) ==
    {o \in {"first_success", "resurrected", "key_died"} :
        CASE o = "first_success" -> e.kind = "success" /\ ~ring.ever
          [] o = "resurrected"   -> Clears(e)
          [] o = "key_died"      -> ring.until <= e.ts /\ Updated(e).until > e.ts}

\* quarantined_until, as ModelSelector::filter_chain asks
Quarantined == ring.until > clock

\* Two events on one line are no JSON: the line is passed over.
Lines(log) == IF Cardinality(log.open) = 1 THEN log.lines \cup log.open ELSE log.lines

-----------------------------------------------------------------------------
\* The report of a turn, record().

New(kind) ==
    [ts |-> clock, kind |-> kind,
     nth |-> Cardinality({e \in happened : e.ts = clock /\ e.kind = kind}) + 1]

To(t, step, e) == report' = [report EXCEPT ![t] = [at |-> step, event |-> e]]

\* writeln! on a file is two writes: the text, and the end of the line.
Reports(t) ==
    /\ report[t].at = "idle" /\ t = CHOOSE idle \in Thread : report[idle].at = "idle"  \* any will do
    /\ Cardinality(happened) < MaxEvents
    /\ \E kind \in Kinds :
        LET e == New(kind) IN
        /\ happened' = happened \cup {e} /\ To(t, "newline", e)
        /\ health_log' = [health_log EXCEPT !.open = @ \cup {e}]
    /\ UNCHANGED <<clock, ring, last, mishaps>>

\* The log is best effort: the memory goes on without it.
AppendFails(t) ==
    /\ report[t].at = "idle" /\ t = CHOOSE idle \in Thread : report[idle].at = "idle"
    /\ Cardinality(happened) < MaxEvents /\ mishaps > 0
    /\ mishaps' = mishaps - 1
    /\ \E kind \in Kinds :
        happened' = happened \cup {New(kind)} /\ To(t, "update", New(kind))
    /\ UNCHANGED <<clock, ring, health_log, last>>

EndLine(t) ==
    /\ report[t].at = "newline"
    /\ health_log' = [lines |-> Lines(health_log), open |-> {}]
    /\ To(t, "update", report[t].event)
    /\ UNCHANGED <<clock, ring, happened, last, mishaps>>

Failure(e) == IF e.kind \in {"empty", "error"} THEN e.ts ELSE 0

\* The observer is told after the lock was given back.
Update(t) ==
    /\ report[t].at = "update"
    /\ ring' = Updated(report[t].event) /\ last' = Failure(report[t].event)
    /\ report' = [report EXCEPT ![t] = NoReport]
    /\ UNCHANGED <<clock, health_log, happened, mishaps>>

\* A tick is minutes, a report a few small writes: it sees one tick at most.
Tick ==
    /\ clock < MaxTicks /\ clock' = clock + 1
    /\ \A t \in Thread : report[t].at = "idle" \/ report[t].event.ts = clock
    /\ UNCHANGED <<ring, health_log, happened, report, last, mishaps>>

-----------------------------------------------------------------------------
\* A new process.

LoadedAfter(log, now) == Within(Lines(log), now + 1)
Loaded(log, now) == Within(Lines(log), now)

\* load: the events of the window, no quarantine.
Restart ==
    /\ mishaps > 0 /\ mishaps' = mishaps - 1
    /\ LET events == Loaded(health_log, clock) IN
       ring' = [NewRing EXCEPT !.events = events, !.ever = Count(events, "success") > 0]
    /\ report' = [t \in Thread |-> NoReport] /\ last' = 0
    /\ UNCHANGED <<clock, health_log, happened>>

Next ==
    \/ Tick \/ Restart
    \/ \E t \in Thread :
        Reports(t) \/ AppendFails(t) \/ EndLine(t) \/ Update(t)

-----------------------------------------------------------------------------
(***************************************************************************)
(* Properties.                                                             *)
(***************************************************************************)

TypeOK ==
    /\ clock \in 1..MaxTicks /\ mishaps \in 0..MaxMishaps /\ last \in 0..MaxTicks
    /\ happened \subseteq Event /\ ring.until \in 0..(MaxTicks + Quarantine)
    /\ ring.events \cup health_log.lines \cup health_log.open \subseteq happened
    /\ \A t \in Thread : report[t].at \in {"idle", "newline", "update"}

Settled == \A t \in Thread : report[t].at = "idle"

\* Everything that happened is in the log, each on a line of its own.
LogIsWhole == Lines(health_log) = happened

\* What happened and the ring may count, at a moment.
Since(start) == Within(happened, start)

\* A pair is in quarantine only for failures that happened within the window before
\* the quarantine began, however many threads report and whatever a restart reads
\* (maybe_quarantine, trim_ring, load).
QuarantineIsEarned == ring.until > 0 => Triggers(Since(ring.until - Quarantine))

\* Enough failures in the window: the last of them to be counted leaves the pair in
\* quarantine at its own moment, in whatever order the threads came to count
\* (record).  (One that is counted after a later one may find a quarantine that ends
\* between the two.)  Checked when nobody reports and no line is lost; a restart
\* forgets the quarantine until then.
LastEvent == CHOOSE n \in {e.ts : e \in happened} : \A e \in happened : e.ts <= n
FailuresQuarantine ==
    Settled /\ last > 0 /\ LogIsWhole /\ Triggers(Since(LastEvent)) => ring.until > last

\* Of the window the ring counts what happened, each report once, also when a new
\* process took it from the log (load), when nobody reports and no line is lost.
RingCountsWindow == Settled /\ LogIsWhole => Within(ring.events, clock) = Since(clock)

HealthHolds == QuarantineIsEarned /\ FailuresQuarantine /\ RingCountsWindow

\* Does not hold: two threads write two texts before the ends of their lines, and a
\* new process passes over both; a text whose process died takes the next with it.
LinesAreWhole == Settled /\ mishaps = MaxMishaps => LogIsWhole

\* Does not hold: the failures that began the quarantine are still in the window when
\* a success clears it, so it begins again in the same call, with "resurrected" told.
ResurrectedIsFree ==
    \A t \in Thread :
        report[t].at = "update" /\ "resurrected" \in ToTell(report[t].event)
            => Updated(report[t].event).until <= clock
=============================================================================
