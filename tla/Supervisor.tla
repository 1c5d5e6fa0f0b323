----------------------------- MODULE Supervisor -----------------------------
(***************************************************************************)
(* spawn_supervised_with_opts (naked-tg/src/supervised.rs): a loop that    *)
(* starts the body of a task, awaits its end, and starts it again after an *)
(* error or a panic, later each time.                                      *)
(***************************************************************************)
EXTENDS Naturals

CONSTANTS
    Initial, Longest, Multiplier,    \* the Backoff
    Cap,         \* max_attempts, 0 for None
    Listens,     \* whether the body ends when its token is cancelled
    MaxFaults    \* bound on errors and panics of bodies

VARIABLES
    at,          \* the supervisor
    bodies,      \* bodies that run
    outcome,     \* how the last body ended
    delay, panics,
    shutdown,    \* the token
    aborted,     \* whether the handle of the supervisor was aborted
    faults,
    found        \* history: where the supervisor was when the token was cancelled

vars == <<at, bodies, outcome, delay, panics, shutdown, aborted, faults, found>>

Steps == {"check", "spawn", "awaits", "hook", "after", "sleeps", "done"}

Init ==
    /\ at = "check" /\ bodies = 0 /\ outcome = "none"
    /\ delay = Initial /\ panics = 0
    /\ shutdown = FALSE /\ aborted = FALSE /\ faults = MaxFaults
    /\ found = "none"

\* The token may be cancelled on another thread right after it was looked at.
CheckNothing ==
    /\ at = "check" /\ at' = "spawn"
    /\ UNCHANGED <<bodies, outcome, delay, panics, shutdown, aborted, faults, found>>
Check ==
    /\ at = "check"
    /\ at' = IF shutdown THEN "done" ELSE "spawn"
    /\ UNCHANGED <<bodies, outcome, delay, panics, shutdown, aborted, faults, found>>

Start ==
    /\ at = "spawn" /\ at' = "awaits" /\ bodies' = bodies + 1
    /\ UNCHANGED <<outcome, delay, panics, shutdown, aborted, faults, found>>

\* A body ends by itself, or because it listens to the token.
BodyFails(how) ==
    /\ bodies > 0 /\ faults > 0 /\ faults' = faults - 1
    /\ bodies' = bodies - 1 /\ outcome' = how
    /\ UNCHANGED <<at, delay, panics, shutdown, aborted, found>>
BodyReturns ==
    /\ bodies > 0 /\ bodies' = bodies - 1 /\ outcome' = "ok"
    /\ UNCHANGED <<at, delay, panics, shutdown, aborted, faults, found>>

AwaitOrShutdown == bodies = 0 \/ shutdown
Await == bodies = 0

AfterErrorGivesUp == "done"
AfterError == "after"

Observe ==
    /\ at = "awaits" /\ Await
    /\ at' = CASE outcome = "panic" -> "hook" [] outcome = "err" -> AfterError [] OTHER -> "done"
    /\ panics' = IF outcome = "panic" THEN panics + 1 ELSE panics
    /\ UNCHANGED <<bodies, outcome, delay, shutdown, aborted, faults, found>>

\* Errors do not count towards the cap.
Hooked ==
    /\ at = "hook"
    /\ at' = IF Cap > 0 /\ panics >= Cap THEN "done" ELSE "after"
    /\ UNCHANGED <<bodies, outcome, delay, panics, shutdown, aborted, faults, found>>

BackOff ==
    /\ at = "after"
    /\ at' = IF shutdown THEN "done" ELSE "sleeps"
    /\ UNCHANGED <<bodies, outcome, delay, panics, shutdown, aborted, faults, found>>

NextDelay == IF delay * Multiplier > Longest THEN Longest ELSE delay * Multiplier

\* The sleep and the token race; when both are ready either may win.
SleepEnds ==
    /\ at = "sleeps" /\ at' = "check" /\ delay' = NextDelay
    /\ UNCHANGED <<bodies, outcome, panics, shutdown, aborted, faults, found>>
SleepInterrupted ==
    /\ at = "sleeps" /\ shutdown /\ at' = "done"
    /\ UNCHANGED <<bodies, outcome, delay, panics, shutdown, aborted, faults, found>>

Shutdown ==
    /\ ~ shutdown /\ shutdown' = TRUE /\ found' = at
    /\ UNCHANGED <<at, bodies, outcome, delay, panics, aborted, faults>>

\* The body has a task of its own: it loses its supervisor and runs on.
Abort ==
    /\ at \in {"awaits", "hook", "sleeps"} /\ ~ aborted
    /\ at' = "done" /\ aborted' = TRUE
    /\ UNCHANGED <<bodies, outcome, delay, panics, shutdown, faults, found>>

Advance == Check \/ Start \/ Observe \/ Hooked \/ BackOff \/ SleepEnds \/ SleepInterrupted

Next ==
    \/ Advance \/ BodyReturns \/ Shutdown \/ Abort
    \/ \E how \in {"err", "panic"} : BodyFails(how)

Obeys == shutdown /\ Listens /\ BodyReturns

\* The loop goes on; a body that listens ends when it is told to.
Spec ==
    /\ Init /\ [][Next]_vars
    /\ WF_vars(Advance) /\ WF_vars(Obeys)

-----------------------------------------------------------------------------
(***************************************************************************)
(* Properties                                                              *)
(***************************************************************************)

\* The types; the delays stay on the curve of the backoff.
TypeOK ==
    /\ at \in Steps /\ found \in Steps \cup {"none"}
    /\ bodies \in 0..1 /\ delay \in Initial..Longest /\ panics \in 0..MaxFaults

\* A supervisor that is done has awaited its body, unless it was aborted: a
\* shutdown does not leave half a task behind.
DoneMeansQuiet == at = "done" /\ ~ aborted => bodies = 0

\* Whatever the race of the sleep and the token, no body is started once the
\* token is cancelled, except one that had been let in at that very moment.
StartsUnlessShutDown == bodies' > bodies => ~ shutdown \/ found = "spawn"
NoStartAfterShutdown == [][StartsUnlessShutDown]_vars

\* A task that failed comes back: it stays away only after a clean end, a
\* shutdown, an abort, or as many panics as the cap allows; errors do not count.
UpOrOver ==
    bodies > 0 \/ outcome = "ok" \/ shutdown \/ aborted \/ (Cap > 0 /\ panics >= Cap)
ComesBack == []<>UpOrOver

\* "Aborting that handle signals everything to wind down".  It does not hold:
\* nothing cancels the token, and the body is only detached.
AbortStopsBody == []<>(aborted => bodies = 0)
=============================================================================
