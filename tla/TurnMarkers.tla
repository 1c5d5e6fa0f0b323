---------------------------- MODULE TurnMarkers ----------------------------
(***************************************************************************)
(* The file .active_sessions: which sessions were in a turn when the       *)
(* process died, and whose chats are told at the next start                *)
(* (session/jsonl_store.rs, session_ops/turn.rs, turn.rs, lib.rs,          *)
(* naked-tg/src/runtime.rs).  Every change reads the whole file and writes *)
(* it again; the start and the end of a turn do so under the lock of the   *)
(* sessions, the refusal of one after it gave that lock back.              *)
(***************************************************************************)
EXTENDS Lists

CONSTANTS
    Session,
    ChatsOf,      \* a set of choices for chats
    None,
    MaxTurns, MaxDeaths, MaxUnsent \* bounds on turns, on crashes and on notices Telegram refuses

VARIABLES
    chats,        \* the sessions of a chat; the others belong to research runs
    marked,       \* .active_sessions: its lines, or None
    turn,         \* session -> where its turn is
    owner,        \* the session whose step holds the lock of the sessions
    write,        \* writer -> [at, op, text]: a session, or its refusal
    recent,       \* sessions whose file says they were updated in the last minutes
    boot,         \* where the start of the process is
    drained,      \* sessions it is to tell
    cut,          \* history: chats whose turn a crash cut off, to be told at the start
    blamed,       \* history: sessions that may be in the file a crash left
    notices,      \* history: session -> times told since the process was last up
    tangled,      \* history: changes of the file overlapped that no lock keeps apart
    turns, deaths, unsent

live == <<turn, owner, write>>
start == <<boot, drained>>
told_of == <<cut, blamed, notices>>
bounds == <<turns, deaths, unsent>>
vars == <<chats, marked, live, recent, start, told_of, tangled, bounds>>

Own(s) == <<s, "turn">>
Refusal(s) == <<s, "refusal">>
FileUser == Session \X {"turn", "refusal"}
NoWrite == [at |-> "idle", op |-> "none", text |-> <<>>]
TurnAt == {"none", "let in", "starting", "running", "ending", "saving"}

Lines == IF marked = None THEN <<>> ELSE marked

Init ==
    /\ chats \in ChatsOf /\ marked = None
    /\ turn = [s \in Session |-> "none"] /\ owner = None
    /\ write = [w \in FileUser |-> NoWrite]
    /\ recent \in {Session, {}}
    /\ boot = "up" /\ drained = {}
    /\ cut = {} /\ blamed = {} /\ notices = [s \in Session |-> 0] /\ tangled = FALSE
    /\ turns = MaxTurns /\ deaths = MaxDeaths /\ unsent = MaxUnsent

-----------------------------------------------------------------------------
\* The file.

\* fs::write empties the file, then writes from its front: of two that emptied it
\* the later one covers the lines of the other.  (All ids have the same length.)
Over(new, old) ==
    [i \in 1..(IF Len(new) > Len(old) THEN Len(new) ELSE Len(old)) |->
        IF i <= Len(new) THEN new[i] ELSE old[i]]

Step(w, at) == write' = [write EXCEPT ![w].at = at]
Using(w) == write[w].at # "idle"
Busy == \E w \in FileUser : Using(w)

\* mark_active writes nothing when the line is there.
Marked(s) == IF s \in Range(Lines) THEN None ELSE Append(Lines, s)
\* mark_idle writes what is left, were it nothing at all.
Everything(s) == IF marked = None THEN None ELSE <<>>
Unmarked(s) == IF marked = None THEN None ELSE Kept(marked, {i \in DOMAIN marked : marked[i] # s})

Read(w, s) ==
    /\ write[w].at = "read"
    /\ LET text == IF write[w].op = "mark" THEN Marked(s) ELSE Unmarked(s) IN
       write' = [write EXCEPT ![w] = IF text = None THEN [@ EXCEPT !.at = "done"]
                                     ELSE [@ EXCEPT !.at = "empty", !.text = text]]
    /\ UNCHANGED <<marked, turn, owner, recent, start, told_of, bounds>>

Empty(w) ==
    /\ write[w].at = "empty" /\ marked' = <<>> /\ Step(w, "write")
    /\ UNCHANGED <<turn, owner, recent, start, told_of, bounds>>

\* A file that was removed in between takes the text with it.
Write(w) ==
    /\ write[w].at = "write" /\ Step(w, "done")
    /\ marked' = IF marked = None THEN None ELSE Over(write[w].text, marked)
    /\ UNCHANGED <<turn, owner, recent, start, told_of, bounds>>

-----------------------------------------------------------------------------
\* A turn.

\* Chats are served once the process is up; the scheduler of the research runs earlier.
Serves(s) == boot = "up" \/ s \notin chats

Dispatch(s) ==
    /\ Serves(s) /\ turns > 0 /\ turns' = turns - 1
    /\ turn[s] = "none" /\ owner = None
    /\ turn' = [turn EXCEPT ![s] = "let in"]
    /\ UNCHANGED <<marked, owner, write, recent, start, told_of, deaths, unsent>>

Begins(w, op) == write' = [write EXCEPT ![w] = [at |-> "read", op |-> op, text |-> <<>>]]

\* setup_turn marks the session while it has the lock.
SetupUnlocked(s) ==
    /\ turn[s] = "let in" /\ owner = None
    /\ turn' = [turn EXCEPT ![s] = "starting"] /\ Begins(Own(s), "mark")
    /\ UNCHANGED <<marked, owner, recent, start, told_of, bounds>>
Setup(s) ==
    /\ turn[s] = "let in" /\ owner = None /\ owner' = s
    /\ turn' = [turn EXCEPT ![s] = "starting"] /\ Begins(Own(s), "mark")
    /\ UNCHANGED <<marked, recent, start, told_of, bounds>>

Runs(s) ==
    /\ turn[s] = "starting" /\ write[Own(s)].at = "done"
    /\ owner' = IF owner = s THEN None ELSE owner
    /\ turn' = [turn EXCEPT ![s] = "running"] /\ write' = [write EXCEPT ![Own(s)] = NoWrite]
    /\ UNCHANGED <<marked, recent, start, told_of, bounds>>

\* A failed compaction or a model that is not offered: the session is idle at once,
\* its line goes later, without the lock.
Refuse(s) ==
    /\ turn[s] = "running" /\ owner = None /\ ~Using(Refusal(s))
    /\ turn' = [turn EXCEPT ![s] = "none"] /\ Begins(Refusal(s), "unmark")
    /\ UNCHANGED <<marked, owner, recent, start, told_of, bounds>>

Refused(s) ==
    /\ write[Refusal(s)].at = "done" /\ write' = [write EXCEPT ![Refusal(s)] = NoWrite]
    /\ UNCHANGED <<marked, turn, owner, recent, start, told_of, bounds>>

\* persist_turn_result: the line goes, then the session is saved, under the lock.
Persist(s) ==
    /\ turn[s] = "running" /\ owner = None /\ owner' = s
    /\ turn' = [turn EXCEPT ![s] = "ending"] /\ Begins(Own(s), "unmark")
    /\ UNCHANGED <<marked, recent, start, told_of, bounds>>

Saves(s) ==
    /\ turn[s] = "ending" /\ write[Own(s)].at = "done"
    /\ turn' = [turn EXCEPT ![s] = "saving"] /\ write' = [write EXCEPT ![Own(s)] = NoWrite]
    /\ UNCHANGED <<marked, owner, recent, start, told_of, bounds>>

\* An append leaves the time in the first line of the file as it was.
Saved(s) ==
    /\ turn[s] = "saving" /\ owner' = None
    /\ turn' = [turn EXCEPT ![s] = "none"]
    /\ recent' \in {recent, recent \cup {s}}
    /\ UNCHANGED <<marked, write, start, told_of, bounds>>

\* Minutes go by, also between a crash and the next start.
Ages ==
    /\ recent # {} /\ recent' = {}
    /\ cut' = IF boot \in {"begins", "drain"} THEN {} ELSE cut
    /\ UNCHANGED <<marked, live, start, blamed, notices, bounds>>

-----------------------------------------------------------------------------
\* A crash, and the next start.

Crash ==
    /\ deaths > 0 /\ deaths' = deaths - 1
    /\ cut' = IF tangled \/ Busy \/ boot = "tell" THEN {}
              ELSE IF boot = "up" THEN {s \in recent \cap chats : turn[s] = "running"} ELSE cut
    /\ blamed' = IF tangled THEN Session
                 ELSE IF boot = "up" THEN {s \in Session : turn[s] # "none" \/ Using(Refusal(s))} ELSE blamed
    /\ notices' = IF boot = "up" \/ tangled THEN [s \in Session |-> 0] ELSE notices
    /\ boot' = "begins" /\ drained' = {} /\ owner' = None
    /\ turn' = [s \in Session |-> "none"] /\ write' = [w \in FileUser |-> NoWrite]
    /\ UNCHANGED <<marked, recent, turns, unsent>>

\* drain_interrupted reads the file, then removes it; of what it read, sessions that
\* were updated a short while ago and belong to a chat are told.
DrainRead ==
    /\ boot = "begins" /\ boot' = "drain" /\ drained' = Range(Lines)
    /\ UNCHANGED <<marked, live, recent, told_of, bounds>>

DrainKeeps ==
    /\ boot = "drain" /\ boot' = "tell"
    /\ drained' = drained \cap recent \cap chats
    /\ cut' = IF tangled \/ Busy THEN {} ELSE cut
    /\ UNCHANGED <<marked, live, recent, blamed, notices, bounds>>
DrainRemove ==
    /\ boot = "drain" /\ boot' = "tell" /\ marked' = None
    /\ drained' = drained \cap recent \cap chats
    /\ cut' = IF tangled \/ Busy THEN {} ELSE cut
    /\ UNCHANGED <<live, recent, blamed, notices, bounds>>

\* notify_interrupted_sessions: one chat after the other; a failure is logged.
Notify(s) ==
    /\ boot = "tell" /\ s \in drained /\ drained' = drained \ {s}
    /\ notices' = [notices EXCEPT ![s] = @ + 1]
    /\ UNCHANGED <<marked, live, recent, boot, cut, blamed, bounds>>

NotifyFails(s) ==
    /\ boot = "tell" /\ s \in drained /\ drained' = drained \ {s}
    /\ unsent > 0 /\ unsent' = unsent - 1
    /\ cut' = cut \ {s}
    /\ UNCHANGED <<marked, live, recent, boot, blamed, notices, turns, deaths>>

Up ==
    /\ boot = "tell" /\ drained = {} /\ boot' = "up"
    /\ UNCHANGED <<marked, live, recent, drained, told_of, bounds>>

-----------------------------------------------------------------------------
\* A refusal that is not done while another writer uses the file, or any writer while
\* the file is read and removed at the start.
Overlap ==
    \/ \E s \in Session, w \in FileUser : w # Refusal(s) /\ Using(Refusal(s)) /\ Using(w)
    \/ boot = "drain" /\ Busy

\* The file is new once it was removed with nobody at it.
Tangles == tangled' = (Overlap' \/ (tangled /\ ~(boot' = "tell" /\ marked' = None /\ ~Busy')))

Turn(s) ==
    Dispatch(s) \/ Setup(s) \/ Runs(s) \/ Refuse(s) \/ Refused(s) \/ Persist(s) \/ Saves(s) \/ Saved(s)
Writes ==
    \/ \E s \in Session : Read(Own(s), s) \/ Read(Refusal(s), s)
    \/ \E w \in FileUser : Empty(w) \/ Write(w)
Starts ==
    DrainRead \/ DrainRemove \/ Up \/ \E s \in Session : Notify(s) \/ NotifyFails(s)

Next ==
    /\ Writes \/ Starts \/ Ages \/ Crash \/ \E s \in Session : Turn(s)
    /\ Tangles /\ UNCHANGED chats

\* The disk answers, a turn ends, Telegram answers.
Progress ==
    /\ \/ Writes \/ Starts
       \/ \E s \in Session : Setup(s) \/ Runs(s) \/ Refused(s) \/ Persist(s) \/ Saves(s) \/ Saved(s)
    /\ Tangles /\ UNCHANGED chats

-----------------------------------------------------------------------------
(***************************************************************************)
(* Properties.                                                             *)
(***************************************************************************)

TypeOK ==
    /\ chats \in ChatsOf
    /\ marked # None => marked \in Seq(Session)
    /\ turn \in [Session -> TurnAt] /\ owner \in Session \cup {None}
    /\ \A w \in FileUser : write[w].at \in {"idle", "read", "empty", "write", "done"}
    /\ recent \subseteq Session /\ drained \subseteq Session
    /\ boot \in {"begins", "drain", "tell", "up"}

\* While nobody changes the file it lists exactly the chats with a turn that runs,
\* each once, as long as no changes overlapped that the lock of the sessions does not
\* keep apart (mark_active, mark_idle under that lock; drain_interrupted).
MarkersAreTrue ==
    boot = "up" /\ ~tangled /\ ~Busy =>
        LET lines == Kept(Lines, {i \in DOMAIN Lines : Lines[i] \in chats}) IN
        /\ Range(lines) = {s \in chats : turn[s] = "running"}
        /\ Len(lines) = Cardinality(Range(lines))

\* Over a crash, or several: a chat whose turn was cut off has been told once when the
\* process is up again; nobody is told twice, and nobody who had no turn at the crash
\* (notify_interrupted_sessions).  Except: changes of the file overlapped before the
\* crash or during the start, one was under way at the crash, the session was last
\* written some minutes ago, Telegram refused.
CutAreTold ==
    /\ boot = "up" => \A s \in cut : notices[s] = 1
    /\ \A s \in Session : notices[s] <= 1 /\ (notices[s] > 0 => s \in blamed)

MarkersHold == MarkersAreTrue /\ CutAreTold

\* No change of the file stops half-way, and a start comes to its end.
Quiet == boot = "up" /\ ~Busy /\ owner = None

\* Does not hold: a refusal that comes late takes away the line of the next turn of its
\* session, or writes back what it read before another turn began or ended.
MarkersAreAlwaysTrue ==
    boot = "up" /\ ~Busy => Range(Lines) \cap chats = {s \in chats : turn[s] = "running"}

\* Does not hold either: a research turn that begins while the file is read and removed
\* writes the lines of the chats back, and they are told again after the next crash.

\* Does not hold: the line goes before the session is saved; a crash in between loses
\* the turn and tells nobody.
UnsavedIsMarked ==
    \A s \in chats : boot = "up" /\ ~Busy /\ ~tangled /\ turn[s] = "saving" => s \in Range(Lines)
=============================================================================
