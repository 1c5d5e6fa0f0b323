---------------------------- MODULE EditLimiter ----------------------------
(***************************************************************************)
(* The limiter of edits in one Telegram chat (naked-tg/src/rate_limit.rs). *)
(* An editor asks how long to wait under the lock, sleeps and sends        *)
(* without it, and reports the answer under it again.  Time is kept as     *)
(* ages and as time to go, so that it needs no end.                        *)
(***************************************************************************)
EXTENDS Naturals, Sequences, FiniteSets

CONSTANTS
    EditorKind,   \* editor -> "edit" (stale updates may be dropped) or "must"
    Crowds,       \* the sets of editors that may be at work
    Budget,       \* BUDGET
    Window,       \* the rolling window, 60 s
    Gap,          \* MIN_GAP
    DropAfter,    \* 30 s
    MaxGap,       \* MAX_GAP
    MaxTries,     \* attempts of edit_must_deliver
    RetryAfter,   \* what Telegram may ask to wait
    MaxEdits      \* bound on the edits of an editor; one that is alone makes one more

VARIABLES
    window_edits, \* the ages of the edits that count, oldest first
    last_edit,    \* the age of the last one, at most Gap
    blocked,      \* time until blocked_until
    editor,       \* editor -> [at, wait, tries]
    crowd, edits  \* who is at work, and the edits it has yet to make

vars == <<window_edits, last_edit, blocked, editor, crowd, edits>>

Editor == DOMAIN EditorKind
Steps == {"idle", "asks", "sleeps", "sends"}
Idle == [at |-> "idle", wait |-> 0, tries |-> 0]

Init ==
    /\ window_edits = <<>> /\ last_edit = Gap /\ blocked = 0
    /\ editor = [e \in Editor |-> Idle]
    /\ crowd \in Crowds /\ edits = [e \in crowd |-> IF crowd = {e} THEN MaxEdits + 1 ELSE MaxEdits]

limiter == <<window_edits, last_edit, blocked>>

\* Under a 429 the rest of it, else until the oldest edit leaves a window that
\* is full, else until the gap has passed.
UntilNextGap == IF blocked > 0 THEN blocked ELSE Gap - last_edit
UntilRoom == IF Len(window_edits) >= Budget THEN Window - Head(window_edits) ELSE Gap - last_edit
TimeUntilAllowed ==
    IF blocked > 0 THEN blocked
    ELSE IF Len(window_edits) >= Budget THEN Window - Head(window_edits)
    ELSE Gap - last_edit

Start(e) ==
    /\ e \in crowd /\ editor[e].at = "idle" /\ edits[e] > 0
    /\ edits' = [edits EXCEPT ![e] = @ - 1]
    /\ editor' = [editor EXCEPT ![e].at = "asks"]
    /\ UNCHANGED <<limiter, crowd>>

\* A long wait is not worth it for an update that will be stale.
Ask(e) ==
    LET wait == TimeUntilAllowed IN
    /\ editor[e].at = "asks"
    /\ editor' = [editor EXCEPT ![e] =
            IF EditorKind[e] = "edit" /\ wait > DropAfter THEN Idle
            ELSE [@ EXCEPT !.at = IF wait = 0 THEN "sends" ELSE "sleeps", !.wait = wait]]
    /\ UNCHANGED <<limiter, crowd, edits>>

\* Nothing is asked again after the sleep.
Wake(e) ==
    /\ editor[e].at = "sleeps" /\ editor[e].wait = 0
    /\ editor' = [editor EXCEPT ![e].at = "sends"]
    /\ UNCHANGED <<limiter, crowd, edits>>

\* An edit that was made or refused for good counts.
RecordEdit ==
    /\ window_edits' = Append(window_edits, 0) /\ last_edit' = 0
    /\ UNCHANGED blocked

Answered(e) ==
    /\ editor[e].at = "sends"
    /\ RecordEdit
    /\ editor' = [editor EXCEPT ![e] = Idle]
    /\ UNCHANGED <<crowd, edits>>

Unclamped(secs) == secs
Clamped(secs) == IF secs > MaxGap THEN MaxGap ELSE secs

TooManyForEver(e, secs) ==
    /\ editor[e].at = "sends"
    /\ blocked' = Clamped(secs)
    /\ editor' = [editor EXCEPT ![e] =
            IF EditorKind[e] = "must" THEN [Idle EXCEPT !.at = "asks"] ELSE Idle]
    /\ UNCHANGED <<window_edits, last_edit, crowd, edits>>

\* A 429 parks the chat; the edit is lost, or tried again.
TooMany(e, secs) ==
    /\ editor[e].at = "sends"
    /\ blocked' = Clamped(secs)
    /\ editor' = [editor EXCEPT ![e] =
            IF EditorKind[e] = "must" /\ @.tries + 1 < MaxTries
            THEN [at |-> "asks", wait |-> 0, tries |-> @.tries + 1] ELSE Idle]
    /\ UNCHANGED <<window_edits, last_edit, crowd, edits>>

\* retain: the edits are listed in the order they were made, so the first n leave.
Retain(n) ==
    /\ \A i \in DOMAIN window_edits : window_edits[i] + 1 < Window <=> i > n
    /\ window_edits' = [i \in 1..(Len(window_edits) - n) |-> window_edits[i + n] + 1]

\* A timer fires in time; an answer of Telegram may take any time.
Tick ==
    /\ \A e \in Editor : editor[e].at = "sleeps" => editor[e].wait > 0
    /\ \E n \in 0..Len(window_edits) : Retain(n)
    /\ last_edit' = IF last_edit < Gap THEN last_edit + 1 ELSE Gap
    /\ blocked' = IF blocked > 0 THEN blocked - 1 ELSE 0
    /\ editor' = [e \in Editor |->
            IF editor[e].at = "sleeps" THEN [editor[e] EXCEPT !.wait = @ - 1] ELSE editor[e]]
    /\ UNCHANGED <<crowd, edits>>

\* The timers fire and Telegram answers every request, one way or the other.
Progress ==
    \/ Tick
    \/ \E e \in Editor :
        Ask(e) \/ Wake(e) \/ Answered(e) \/ \E secs \in RetryAfter : TooMany(e, secs)
Next == Progress \/ \E e \in Editor : Start(e)

Spec == Init /\ [][Next]_vars /\ WF_vars(Progress)

-----------------------------------------------------------------------------
(***************************************************************************)
(* Properties                                                              *)
(***************************************************************************)

\* The types; the window lists what is young enough, oldest first.
TypeOK ==
    /\ \A i \in DOMAIN window_edits :
        window_edits[i] < Window /\ (i > 1 => window_edits[i] <= window_edits[i - 1])
    /\ last_edit \in 0..Gap
    /\ \A e \in Editor : editor[e].at \in Steps
    /\ crowd \subseteq Editor /\ edits \in [crowd -> 0..(MaxEdits + 1)]

\* "A single rolling-window budget": one editor stays within it, though the gap
\* alone, which is rounded down, would let it exceed the budget, and though an
\* edit that met a 429 is tried again without another look at the window.
BudgetHeldAlone == Cardinality(crowd) = 1 => Len(window_edits) <= Budget

\* The same of everyone.  It does not hold with two editors: those that ask at
\* the same time are let in together, since none is counted before its answer.
BudgetHeld == Len(window_edits) <= Budget

\* "Hard ceiling - even under backoff, never wait longer than this", whatever
\* Telegram asks for.
CeilingHeld ==
    /\ blocked <= MaxGap
    /\ \A e \in Editor : editor[e].wait <= MaxGap
    /\ \A e \in Editor : EditorKind[e] = "edit" => editor[e].wait <= DropAfter

\* A request that is sent while the chat is parked was let in before: an editor
\* that asks during a park sleeps to its end, even when it must deliver.
RespectsPark ==
    \A e \in Editor : editor[e].at = "asks" /\ editor'[e].at = "sends" => blocked = 0
ParkIsRespected == [][RespectsPark]_vars

\* "On 429: the limiter parks ALL edits for that chat for the full Retry-After":
\* nothing is sent while it is parked.  It does not hold: a sleeping editor
\* does not ask again.
ParkedIsQuiet ==
    [][\A e \in Editor :
        editor[e].at # "sends" /\ editor'[e].at = "sends" => blocked = 0]_vars

\* A park is not cut short by another answer.  It does not hold: the last 429
\* decides.
ParkIsKept == [][blocked' >= blocked - 1]_vars

\* Every edit returns to its caller, however often Telegram says 429.
Quiet == \A e \in Editor : editor[e].at = "idle"
EditsEnd == []<>Quiet
=============================================================================
