------------------------------ MODULE Watchdog ------------------------------
(***************************************************************************)
(* Who notices that the bot is stuck (naked-tg/src/watchdog.rs,            *)
(* naked-core/src/liveness.rs, runtime.rs, scheduler/lifecycle.rs): the    *)
(* polling loop and the scheduler each beat once a round, a ticker tells   *)
(* systemd that the process lives while both beats are young enough, and   *)
(* systemd kills a process it has not heard of and starts the next.        *)
(* Eight periods, chosen in five files, have to fit each other.  Time      *)
(* passes in steps; what is due at a moment happens before the next one.   *)
(***************************************************************************)
EXTENDS Integers

CONSTANTS
    WatchdogSec,     \* of the unit of systemd: silence for which it kills
    Grace,           \* no beat is asked for in the first time of the ticker
    PollTimeout,     \* of one getUpdates; the pause after one that failed is one unit at most
    TickInterval,                   \* of the scheduler, which may be woken earlier
    BuildLimit,      \* bound on the wiring
    MaxSilence,      \* source -> max_silence
    MaxStuck        \* bound on loops that get stuck and clocks that are set

VARIABLES
    bot,             \* "building", "running", "stopping"
    scheduler_on,    \* research is enabled and the lock is held: the scheduler was started
    loops,           \* source -> what its loop does
    silence,         \* source -> time since its last beat, or since the start
    beaten,          \* sources that have beaten
    ticker,          \* "off", "waits", "looks"
    ticked,          \* time the ticker has waited
    uptime,          \* of the ticker, to the end of the grace
    unheard,         \* time since systemd heard of the process
    overran,         \* history: since then the scheduler took longer than the ticker forgives
    late,            \* history: the wiring took half the interval or longer
    doubted,         \* sources whose last beat is of a time before the clock was set
    clock_set,       \* history: the wall clock was set in this process
    faults_left

process == <<bot, scheduler_on, late, clock_set, faults_left>>
beats == <<silence, beaten, doubted>>
timers == <<ticker, ticked, uptime, unheard, overran>>
vars == <<process, loops, beats, timers>>

Source == {"tg_polling.tick", "scheduler.tick"}
Poll == "tg_polling.tick"
Scheduler == "scheduler.tick"

\* systemd-recommended: one ping may be missed.
Whole == WatchdogSec
Half == WatchdogSec \div 2

\* No process lives with a silence above this.
Detected(s) ==
    (IF MaxSilence[s] > BuildLimit + Grace THEN MaxSilence[s] ELSE BuildLimit + Grace) + WatchdogSec
Utmost(s) == Detected(s) + 1

Cleared ==
    /\ loops' = [s \in Source |-> "off"] /\ beaten' = {} /\ doubted' = {}
    /\ silence' = [s \in Source |-> 0]
    /\ ticker' = "off" /\ ticked' = 0 /\ uptime' = 0 /\ unheard' = 0 /\ overran' = FALSE

Begins == bot' = "building" /\ late' = FALSE /\ clock_set' = FALSE /\ Cleared

\* READY=1 is sent before the wiring (bootstrap.rs): systemd counts from here.
Init ==
    /\ scheduler_on \in BOOLEAN /\ faults_left = MaxStuck
    /\ bot = "building" /\ late = FALSE /\ clock_set = FALSE
    /\ loops = [s \in Source |-> "off"] /\ beaten = {} /\ doubted = {}
    /\ silence = [s \in Source |-> 0]
    /\ ticker = "off" /\ ticked = 0 /\ uptime = 0 /\ unheard = 0 /\ overran = FALSE

-----------------------------------------------------------------------------
\* The start.

To(s, step) == loops' = [loops EXCEPT ![s] = step]
Beat(s) ==
    /\ silence' = [silence EXCEPT ![s] = 0]
    /\ beaten' = beaten \cup {s} /\ doubted' = doubted \ {s}

\* Neither the lock of another process nor a switched-off research stops the bot.
StartScheduler ==
    /\ bot = "building" /\ scheduler_on /\ loops[Scheduler] = "off"
    /\ To(Scheduler, "boots")
    /\ UNCHANGED <<process, beats, timers>>

\* The end of the wiring, the notices to interrupted chats, start_watchdog; then the
\* loop beats for the first time.
Serve ==
    /\ bot = "building" /\ bot' = "running"
    /\ scheduler_on => loops[Scheduler] # "off"
    /\ late' = (unheard >= Half)
    /\ ticker' = "waits" /\ ticked' = 0 /\ uptime' = 0
    /\ To(Poll, "polls") /\ Beat(Poll)
    /\ UNCHANGED <<scheduler_on, clock_set, faults_left, unheard, overran>>

-----------------------------------------------------------------------------
\* The polling loop: a beat, getUpdates within its timeout, the dispatch.  (Handlers are
\* spawned; the dispatch itself takes no time.)

Polled ==
    /\ bot = "running" /\ loops[Poll] \in {"polls", "paused"}
    /\ To(Poll, "polls") /\ Beat(Poll)
    /\ UNCHANGED <<process, timers>>

PollFails ==
    /\ bot = "running" /\ loops[Poll] = "polls" /\ To(Poll, "pauses")
    /\ UNCHANGED <<process, beats, timers>>

\* The scheduler: the pass at boot, then a beat, a sleep, a scan.  Nothing bounds the
\* length of the pass or of a scan.
Woken ==
    /\ loops[Scheduler] = "sleeps" /\ To(Scheduler, "scans")
    /\ UNCHANGED <<process, beats, timers>>

Scanned ==
    /\ loops[Scheduler] \in {"boots", "scans"}
    /\ To(Scheduler, "sleeps") /\ Beat(Scheduler)
    /\ UNCHANGED <<process, timers>>

\* Whatever it is that does not come back, a lock or a request without a timeout.
Wedge(s) ==
    /\ bot = "running" /\ loops[s] \notin {"off", "wedged"} /\ To(s, "wedged")
    /\ faults_left > 0 /\ faults_left' = faults_left - 1
    /\ UNCHANGED <<bot, scheduler_on, late, clock_set, beats, timers>>

\* last_beat compares wall clocks.  Set forward, a beat is older than it is; set back,
\* its age is below zero, which as an unsigned number is longer than any silence.
SetClock ==
    /\ bot = "running" /\ faults_left > 0 /\ faults_left' = faults_left - 1
    /\ clock_set' = TRUE /\ doubted' = beaten
    /\ UNCHANGED <<bot, scheduler_on, late, loops, silence, beaten, timers>>

-----------------------------------------------------------------------------
\* The ticker.

Wake ==
    /\ ticker = "waits" /\ ticked = Half /\ ticker' = "looks"
    /\ UNCHANGED <<process, loops, beats, ticked, uptime, unheard, overran>>

\* collect_stale; a source that never beat is stale.  Both sources are required, whether
\* or not the scheduler was started.
Stale(s) == s \notin beaten \/ s \in doubted \/ silence[s] > MaxSilence[s]
AllStale == \A s \in Source : Stale(s)
AnyStale == \E s \in Source : Stale(s)

Ungraced == ~AnyStale
Alive == uptime < Grace \/ ~AnyStale

Look ==
    /\ ticker = "looks" /\ ticker' = "waits" /\ ticked' = 0
    /\ unheard' = (IF Alive THEN 0 ELSE unheard) /\ overran' = (overran /\ ~Alive)
    /\ UNCHANGED <<process, loops, beats, uptime>>

\* Ctrl-C: notify_waiters reaches a ticker that waits, then STOPPING=1; the loops end.
Stop ==
    /\ bot = "running" /\ bot' = "stopping"
    /\ IF ticker = "looks" THEN UNCHANGED <<loops, beats, timers>> ELSE Cleared
    /\ UNCHANGED <<scheduler_on, late, clock_set, faults_left>>

-----------------------------------------------------------------------------
\* systemd, and time.

\* Restart=always, for a process that ended and one that was killed alike.
Exit == bot = "stopping" /\ Begins /\ UNCHANGED <<scheduler_on, faults_left>>

Due == bot # "stopping" /\ unheard >= WatchdogSec
Kill == Due /\ Begins /\ UNCHANGED <<scheduler_on, faults_left>>

\* What is due at this moment: no time passes before it.
PollDue == bot = "running" /\ (loops[Poll] = "paused" \/ (loops[Poll] = "polls" /\ silence[Poll] >= PollTimeout))
SchedulerDue == loops[Scheduler] = "sleeps" /\ silence[Scheduler] >= TickInterval
TickerDue == ticker = "looks" \/ (ticker = "waits" /\ ticked = Half)
BuildDue == bot = "building" /\ unheard >= BuildLimit

\* A pass at boot that is not done after the grace, a scan that is not done when the beat
\* before it is too old.
Overruns ==
    \/ loops[Scheduler] = "boots" /\ uptime >= Grace
    \/ loops[Scheduler] = "scans" /\ silence[Scheduler] > MaxSilence[Scheduler]

Upto(n, limit) == IF n < limit THEN n + 1 ELSE limit

\* (systemd asks for no pings once it was told STOPPING=1.)
Pass ==
    /\ bot # "stopping" /\ ~PollDue /\ ~SchedulerDue /\ ~TickerDue /\ ~BuildDue /\ ~Due
    /\ silence' = [s \in Source |-> Upto(silence[s], Utmost(s))]
    /\ loops' = [loops EXCEPT ![Poll] = IF @ = "pauses" THEN "paused" ELSE @]
    /\ ticked' = IF ticker = "waits" THEN ticked + 1 ELSE ticked
    /\ uptime' = IF ticker = "off" THEN 0 ELSE Upto(uptime, Grace)
    /\ unheard' = unheard + 1 /\ overran' = (overran \/ Overruns')
    /\ UNCHANGED <<process, beaten, doubted, ticker>>

\* What is due happens, and time passes.
Progress ==
    \/ StartScheduler \/ Serve \/ Wake \/ Look \/ Exit \/ Kill \/ Pass
    \/ PollDue /\ (Polled \/ PollFails)
    \/ SchedulerDue /\ Woken

Next ==
    \/ StartScheduler \/ Serve \/ Wake \/ Look \/ Exit \/ Kill \/ Pass
    \/ Polled \/ PollFails \/ Woken \/ Scanned
    \/ Stop \/ SetClock \/ \E s \in Source : Wedge(s)

-----------------------------------------------------------------------------
(***************************************************************************)
(* Properties.                                                             *)
(***************************************************************************)

TypeOK ==
    /\ bot \in {"building", "running", "stopping"} /\ ticker \in {"off", "waits", "looks"}
    /\ {scheduler_on, late, clock_set, overran} \subseteq BOOLEAN
    /\ loops[Poll] \in {"off", "polls", "pauses", "paused", "wedged"}
    /\ loops[Scheduler] \in {"off", "boots", "sleeps", "scans", "wedged"}
    /\ beaten \subseteq Source /\ doubted \subseteq beaten /\ \A s \in Source : silence[s] \in 0..Utmost(s)
    /\ ticked \in 0..Half /\ uptime \in 0..Grace /\ unheard \in 0..(WatchdogSec + BuildLimit)
    /\ faults_left \in 0..MaxStuck

\* systemd is never about to kill a process that works: a getUpdates that timed out with
\* its pause, a sleep of the scheduler with its scan, and the pass at boot, each in whatever
\* phase of the ticker, cost no more than the pings systemd can miss, as long as the pass is
\* done in the grace and the scan within max_silence of the beat before it.  Except: a loop
\* is stuck, the scheduler was not started, the wiring took half of WatchdogSec, somebody
\* set the clock.
HealthySpared ==
    bot = "running" /\ Due =>
        \/ \E s \in Source : loops[s] = "wedged"
        \/ overran \/ ~scheduler_on \/ late \/ clock_set

\* A loop that is stuck, whichever and wherever, also before its first beat, is noticed:
\* no process outlives what the ticker forgives by more than WatchdogSec, though the
\* other loop goes on beating (collect_stale asks for every source).
StuckIsNoticed ==
    bot = "running" => \A s \in Source : silence[s] <= Detected(s)

FitsTogether == HealthySpared /\ StuckIsNoticed

\* The bot comes back from whatever got stuck.
Serving == bot = "running" /\ \A s \in Source : loops[s] # "wedged"

\* Does not hold: nothing bounds a scan or the pass at boot, so a scheduler that works, only
\* slowly, has the bot killed.
SlowScanIsSpared ==
    bot = "running" /\ Due =>
        (\E s \in Source : loops[s] = "wedged") \/ ~scheduler_on \/ late \/ clock_set

\* Does not hold: with research switched off, or its lock in the hands of another process,
\* nobody beats for the scheduler; the bot is killed after the grace, for ever.
SparedWithoutScheduler ==
    bot = "running" /\ Due =>
        (\E s \in Source : loops[s] = "wedged") \/ overran \/ late \/ clock_set

\* Does not hold: a READY=1 before the wiring starts the clock of systemd, and the first
\* ping comes half an interval after the wiring ("can take 10-30s", bootstrap.rs).
SlowBuildIsSpared ==
    bot = "running" /\ Due =>
        (\E s \in Source : loops[s] = "wedged") \/ overran \/ ~scheduler_on \/ clock_set

\* Does not hold: beats are compared by the wall clock.
ClockMaySet ==
    bot = "running" /\ Due =>
        (\E s \in Source : loops[s] = "wedged") \/ overran \/ ~scheduler_on \/ late

\* Does not hold: notify_waiters wakes only who waits; a ticker that is just looking goes
\* on, and "no leak after shutdown" (tests/watchdog_e2e.rs) fails.
QuietAfterStopping == bot = "stopping" /\ ticker = "looks" => ~Alive
=============================================================================
