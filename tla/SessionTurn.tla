---------------------------- MODULE SessionTurn -----------------------------
(***************************************************************************)
(* One session of naked-core and the turns dispatched on it:               *)
(* session_ops/turn.rs (dispatch_turn), session_ops/control.rs             *)
(* (compact_and_prepare, abort, compact_session), turn.rs                  *)
(* (persist_turn_result) and the JSONL store they save to.                 *)
(*                                                                         *)
(* The sessions lock is dropped between the phases of a dispatch and is    *)
(* not held while the agent loop runs, so each phase is an action and the  *)
(* phases of several turns, /abort, /compact, queued notes and a crash     *)
(* interleave.  A message is the set of the inputs and replies it speaks   *)
(* for; a compaction summary speaks for everything it replaced.            *)
(***************************************************************************)
EXTENDS Naturals, Sequences

CONSTANTS
    Turn,          \* calls of send_prompt
    Note,          \* calls of queue_message
    None,
    Keep,          \* DEFAULT_PRESERVE_RECENT
    MaxReplies,    \* bound on the messages one loop adds
    MaxShrinks,    \* bound on compactions and cycle restarts
    MaxAborts,     \* bound on calls of abort
    MaxCrashes     \* bound on restarts of the process

ASSUME SessionTurnAssumption ==
    /\ Keep \in Nat \ {0} /\ MaxReplies \in Nat /\ MaxShrinks \in Nat
    /\ MaxAborts \in Nat /\ MaxCrashes \in Nat
    /\ None \notin Turn

VARIABLES
    state,         \* Session::state, or "Absent" when the file does not load
    history,       \* Session::history
    persisted,     \* Session::persisted_msg_count
    updated,       \* Session::updated_at, seen from the 5-minute window
    disk,          \* session.jsonl: its messages, its meta line, how it ends
    halved,        \* history: what an append that stopped half-way left is in the file
    marked,        \* the session is listed in .active_sessions
    cancels,       \* whose token the cancels map holds
    cancelled,     \* the tokens that were cancelled
    turn,          \* per turn: phase, private history, token, data gathered
    aborter,       \* abort() between its two locks
    compactor,     \* cmd_compact between its check and compact_session
    archived,      \* what the cycle archives on disk speak for
    queued,        \* the notes pushed so far
    spent,         \* how often each bounded event happened
    targets,       \* history: the turns in flight when abort was called
    owed,          \* history: a recent turn was cut off by the last crash
    notified       \* notify_interrupted_sessions told the chat

memory == <<state, history, persisted, updated>>
store == <<disk, halved, marked>>
tokens == <<cancels, cancelled>>
recovery == <<owed, notified>>
vars == <<memory, store, tokens, turn, aborter, compactor, archived, queued,
          spent, targets, recovery>>

Phase == {"new", "claimed", "gathered", "prepared", "refused", "unmarking",
          "looping", "ended", "saved", "unsaved", "rejected", "busy", "dead"}
InFlight == {"claimed", "gathered", "prepared", "refused", "looping", "ended"}
Source == ((Turn \X {"prompt", "reply"}) \cup (Note \X {"note"}))
Message == SUBSET Source
Ending == {"line", "open", "torn"}
File == [msgs : Seq(Message), updated : {"recent", "old"}, end : Ending]
TurnState == [phase : Phase, private : Seq(Message), token : Turn \cup {None},
              compact : BOOLEAN, gathered : Message, replies : 0..MaxReplies]
Event == {"shrink", "abort", "crash"}
Limit == [shrink |-> MaxShrinks, abort |-> MaxAborts, crash |-> MaxCrashes]

Prompt(t) == {<<t, "prompt">>}
Reply(t) == {<<t, "reply">>}
Carried(h) == UNION {h[i] : i \in DOMAIN h}

Spend(event) ==
    /\ spent[event] < Limit[event]
    /\ spent' = [spent EXCEPT ![event] = @ + 1]

Become(t, phase) == turn' = [turn EXCEPT ![t].phase = phase]

-----------------------------------------------------------------------------
(* Compaction. *)

\* messages_for_compaction: what the summary is written from.
Older(h) == SubSeq(h, 1, Len(h) - Keep)

\* compact_with_llm_summary: the given summary, then the last Keep messages.
CompactWithSummary(h, summary) ==
    IF Len(h) <= Keep THEN h
    ELSE <<summary>> \o SubSeq(h, Len(h) - Keep + 1, Len(h))

\* auto_compact: the cut is moved forward to a turn boundary, anywhere up to the end.
AutoCompacted(h) ==
    IF Len(h) <= Keep THEN {h}
    ELSE {<<Carried(SubSeq(h, 1, cut))>> \o SubSeq(h, cut + 1, Len(h)) :
              cut \in (Len(h) - Keep)..Len(h)}

-----------------------------------------------------------------------------
(* JsonlSessionStore::save and load. *)

CanAppend(h) == persisted > 0 /\ Len(h) > persisted

\* The new messages up to the last one written.  The file ends with a whole line, or
\* with one that lacks its newline (it loads, but the next append joins it), or with
\* a piece load cannot parse, which only a rewrite removes.
Appended(h, last, end) ==
    [disk EXCEPT !.msgs = @ \o SubSeq(h, persisted + 1, last),
                 !.end = IF @ = "line" THEN end ELSE "torn"]

\* write_all and flush give up, or the process dies, before the last byte.
Interrupted(h) ==
    {Appended(h, last, "line") : last \in (persisted + 1)..(Len(h) - 1)}
    \cup {Appended(h, last, "open") : last \in (persisted + 1)..Len(h)}
    \cup {Appended(h, last, "torn") : last \in persisted..(Len(h) - 1)}

\* A rewrite goes to a temporary file that is renamed.
Rewritten(h) == [msgs |-> h, updated |-> "recent", end |-> "line"]

SavedSkippingOne(h) ==
    IF CanAppend(h)
    THEN [disk EXCEPT !.msgs = @ \o SubSeq(h, persisted + 2, Len(h))]
    ELSE Rewritten(h)

SavedWithOverlap(h) ==
    IF CanAppend(h)
    THEN [disk EXCEPT !.msgs = @ \o SubSeq(h, persisted, Len(h))]
    ELSE Rewritten(h)

\* Only an append leaves the meta line, and with it updated_at, as it was.
Saved(h) == IF CanAppend(h) THEN Appended(h, Len(h), "line") ELSE Rewritten(h)

-----------------------------------------------------------------------------
Init ==
    /\ state = "Idle" /\ history = <<>> /\ persisted = 0 /\ updated = "recent"
    /\ disk = [msgs |-> <<>>, updated |-> "recent", end |-> "line"] /\ halved = FALSE
    /\ marked = FALSE
    /\ cancels = None /\ cancelled = {}
    /\ turn = [t \in Turn |-> [phase |-> "new", private |-> <<>>, token |-> None,
                               compact |-> FALSE, gathered |-> {}, replies |-> 0]]
    /\ aborter = "idle" /\ compactor = "idle"
    /\ archived = {} /\ queued = {}
    /\ spent = [e \in Event |-> 0]
    /\ targets = {} /\ owed = FALSE /\ notified = FALSE

DispatchUnchecked(t) ==
    /\ turn[t].phase = "new" /\ state # "Absent"
    /\ state' = "Active" /\ Become(t, "claimed")
    /\ UNCHANGED <<history, persisted, updated, store, tokens, aborter, compactor,
                   archived, queued, spent, targets, recovery>>

\* dispatch_turn, its first block: an Active session answers SessionBusy.
Dispatch(t) ==
    /\ turn[t].phase = "new"
    /\ state # "Absent"
    /\ IF state = "Active"
       THEN Become(t, "busy") /\ UNCHANGED memory
       ELSE /\ state' = "Active" /\ Become(t, "claimed")
            /\ UNCHANGED <<history, persisted, updated>>
    /\ UNCHANGED <<store, tokens, aborter, compactor, archived, queued, spent,
                   targets, recovery>>

\* setup_turn, one critical section: Active again, the marker, the prompt, and
\* what compaction will be given.  Whether it is needed depends on token counts.
Setup(t) ==
    /\ turn[t].phase = "claimed"
    /\ state' = "Active" /\ marked' = TRUE /\ updated' = "recent"
    /\ history' = Append(history, Prompt(t))
    /\ \E compact \in BOOLEAN :
           /\ IF compact THEN Spend("shrink") ELSE UNCHANGED spent
           /\ turn' = [turn EXCEPT ![t].phase = "gathered", ![t].compact = compact,
                                   ![t].gathered = IF compact THEN Carried(Older(history'))
                                                              ELSE {}]
    /\ UNCHANGED <<persisted, disk, halved, tokens, aborter, compactor, archived,
                   queued, targets, recovery>>

\* compact_and_prepare after the call of the model: compaction is applied to the
\* history of now, the history is cloned and a fresh token replaces the old one.
Prepare(t) ==
    /\ turn[t].phase = "gathered"
    /\ \/ ~turn[t].compact /\ UNCHANGED history
       \/ turn[t].gathered # {} /\ history' = CompactWithSummary(history, turn[t].gathered)
       \/ turn[t].compact /\ history' \in AutoCompacted(history) \cup {history}
    /\ cancels' = t
    /\ turn' = [turn EXCEPT ![t].phase = "prepared", ![t].private = history']
    /\ UNCHANGED <<state, persisted, updated, store, cancelled, aborter, compactor,
                   archived, queued, spent, targets, recovery>>

\* validate_model fails: Error and Idle events, then the session is set idle...
Refuse(t) ==
    /\ turn[t].phase = "prepared"
    /\ Become(t, "refused")
    /\ UNCHANGED <<memory, store, tokens, aborter, compactor, archived, queued,
                   spent, targets, recovery>>

MarkIdleForgotten(t) ==
    /\ turn[t].phase = "refused" /\ Become(t, "unmarking")
    /\ UNCHANGED <<memory, store, tokens, aborter, compactor, archived, queued, spent,
                   targets, recovery>>

MarkIdleAfterReject(t) ==
    /\ turn[t].phase = "refused"
    /\ state' = "Idle" /\ Become(t, "unmarking")
    /\ UNCHANGED <<history, persisted, updated, store, tokens, aborter, compactor,
                   archived, queued, spent, targets, recovery>>

\* ... and the marker is cleared after the lock was given back.
UnmarkAfterReject(t) ==
    /\ turn[t].phase = "unmarking"
    /\ marked' = FALSE /\ Become(t, "rejected")
    /\ UNCHANGED <<memory, disk, halved, tokens, aborter, compactor, archived, queued,
                   spent, targets, recovery>>

LaunchWithFreshToken(t) ==
    /\ turn[t].phase = "prepared"
    /\ turn' = [turn EXCEPT ![t].phase = "looping", ![t].token = None]
    /\ UNCHANGED <<memory, store, tokens, aborter, compactor, archived, queued,
                   spent, targets, recovery>>

\* The model is valid: tools are built, the token is read back from the map.
Launch(t) ==
    /\ turn[t].phase = "prepared"
    /\ turn' = [turn EXCEPT ![t].phase = "looping", ![t].token = cancels]
    /\ UNCHANGED <<memory, store, tokens, aborter, compactor, archived, queued,
                   spent, targets, recovery>>

LoopReplyUnbounded(t) ==
    /\ turn[t].phase = "looping"
    /\ turn' = [turn EXCEPT ![t].private = Append(@, Reply(t)), ![t].replies = @ + 1]
    /\ UNCHANGED <<memory, store, tokens, aborter, compactor, archived, queued,
                   spent, targets, recovery>>

\* AgentLoop::run works on the private history alone.
LoopReply(t) ==
    /\ turn[t].phase = "looping" /\ turn[t].replies < MaxReplies
    /\ turn' = [turn EXCEPT ![t].private = Append(@, Reply(t)), ![t].replies = @ + 1]
    /\ UNCHANGED <<memory, store, tokens, aborter, compactor, archived, queued,
                   spent, targets, recovery>>

\* advance_cycle_if_needed: archive the messages and start from none.
LoopCycle(t) ==
    /\ turn[t].phase = "looping" /\ turn[t].private # <<>>
    /\ Spend("shrink")
    /\ archived' = archived \cup Carried(turn[t].private)
    /\ turn' = [turn EXCEPT ![t].private = <<>>]
    /\ UNCHANGED <<memory, store, tokens, aborter, compactor, queued, targets, recovery>>

\* run returns, in whatever way; clients have seen the Idle event by now.
LoopEnd(t) ==
    /\ turn[t].phase = "looping"
    /\ Become(t, "ended")
    /\ UNCHANGED <<memory, store, tokens, aborter, compactor, archived, queued,
                   spent, targets, recovery>>

PersistStillActive(t) ==
    /\ turn[t].phase = "ended"
    /\ history' = turn[t].private /\ disk' = Saved(turn[t].private)
    /\ persisted' = Len(turn[t].private) /\ Become(t, "saved")
    /\ UNCHANGED <<state, updated, halved, marked, tokens, aborter, compactor, archived, queued,
                   spent, targets, recovery>>

PersistCountedAnyway(t) ==
    /\ turn[t].phase = "ended"
    /\ state' = "Idle" /\ updated' = "recent" /\ marked' = FALSE
    /\ history' = turn[t].private /\ persisted' = Len(turn[t].private)
    /\ \/ disk' = Saved(turn[t].private) /\ UNCHANGED halved /\ Become(t, "saved")
       \/ /\ CanAppend(turn[t].private) /\ disk' \in Interrupted(turn[t].private)
          /\ halved' = TRUE /\ Become(t, "unsaved")
    /\ UNCHANGED <<tokens, aborter, compactor, archived, queued, spent, targets,
                   recovery>>

\* persist_turn_result, under the sessions lock.  A save that fails leaves the count
\* as it was: a rewrite leaves the file too, an append may leave part of its lines.
Persist(t) ==
    /\ turn[t].phase = "ended"
    /\ state' = "Idle" /\ updated' = "recent" /\ marked' = FALSE
    /\ history' = turn[t].private
    /\ \/ /\ disk' = Saved(turn[t].private)
          /\ halved' = (halved /\ CanAppend(turn[t].private))
          /\ persisted' = Len(turn[t].private)
          /\ Become(t, "saved")
       \/ UNCHANGED <<disk, halved, persisted>> /\ Become(t, "unsaved")
       \/ /\ CanAppend(turn[t].private) /\ disk' \in Interrupted(turn[t].private)
          /\ halved' = TRUE
          /\ UNCHANGED persisted /\ Become(t, "unsaved")
    /\ UNCHANGED <<tokens, aborter, compactor, archived, queued, spent, targets,
                   recovery>>

-----------------------------------------------------------------------------
(* The other callers of the session. *)

\* abort: the token of the map is cancelled under one lock...
AbortCancel ==
    /\ aborter = "idle" /\ state # "Absent"
    /\ Spend("abort")
    /\ aborter' = "cancelled"
    /\ cancelled' = cancelled \cup ({cancels} \ {None})
    /\ targets' = {t \in Turn : turn[t].phase \in InFlight}
    /\ UNCHANGED <<memory, store, cancels, turn, compactor, archived, queued, recovery>>

\* ... and the session is set Idle under another, whatever is running on it.
AbortIdle ==
    /\ aborter = "cancelled"
    /\ aborter' = "idle" /\ state' = "Idle"
    /\ UNCHANGED <<history, persisted, updated, store, tokens, turn, compactor,
                   archived, queued, spent, targets, recovery>>

\* queue_message: the continuation of a model switch, the note of a reaction.
QueueMessage(n) ==
    /\ n \notin queued /\ state # "Absent"
    /\ queued' = queued \cup {n}
    /\ history' = Append(history, {<<n, "note">>})
    /\ UNCHANGED <<state, persisted, updated, store, tokens, turn, aborter, compactor,
                   archived, spent, targets, recovery>>

\* cmd_compact: is_session_active is asked first...
CompactCheck ==
    /\ compactor = "idle" /\ state \in {"Idle", "Sleeping"}
    /\ Spend("shrink")
    /\ compactor' = "checked"
    /\ UNCHANGED <<memory, store, tokens, turn, aborter, archived, queued, targets,
                   recovery>>

\* ... and compact_session asks no more.
CompactSession ==
    /\ compactor = "checked"
    /\ compactor' = "idle"
    /\ history' \in AutoCompacted(history)
    /\ UNCHANGED <<state, persisted, updated, store, tokens, turn, aborter, archived,
                   queued, spent, targets, recovery>>

\* Five minutes pass: every updated_at written so far leaves the window.
Age ==
    /\ updated = "recent" \/ disk.updated = "recent"
    /\ updated' = "old" /\ disk' = [disk EXCEPT !.updated = "old"]
    /\ UNCHANGED <<state, history, persisted, halved, marked, tokens, turn, aborter, compactor,
                   archived, queued, spent, targets, recovery>>

\* The process dies and boots: restore_sessions, then notify_interrupted_sessions.
\* Dying inside a save leaves the file with some of its bytes or all of them; load
\* gives up on a line it cannot parse and the session is skipped.
Restart ==
    /\ Spend("crash")
    /\ \/ UNCHANGED disk
       \/ \E t \in Turn :
              /\ turn[t].phase = "ended"
              /\ \/ disk' = Saved(turn[t].private)
                 \/ CanAppend(turn[t].private) /\ disk' \in Interrupted(turn[t].private)
    /\ halved' = (disk'.end # "line")
    /\ history' = IF disk'.end = "torn" THEN <<>> ELSE disk'.msgs
    /\ persisted' = Len(history')
    /\ updated' = disk'.updated
    /\ state' = IF disk'.end = "torn" THEN "Absent" ELSE "Sleeping"
    /\ owed' = (updated = "recent" /\ \E t \in Turn : turn[t].phase \in InFlight \ {"claimed", "refused"})
    /\ notified' = (marked /\ disk' = disk /\ disk.end # "torn" /\ disk.updated = "recent")
    /\ marked' = FALSE
    /\ cancels' = None /\ cancelled' = {} /\ targets' = {}
    /\ turn' = [t \in Turn |-> IF turn[t].phase \in InFlight \cup {"unmarking"}
                               THEN [turn[t] EXCEPT !.phase = "dead"] ELSE turn[t]]
    /\ aborter' = "idle" /\ compactor' = "idle"
    /\ UNCHANGED <<archived, queued>>

-----------------------------------------------------------------------------
TurnStep(t) ==
    \/ Setup(t) \/ Prepare(t) \/ Refuse(t) \/ MarkIdleAfterReject(t)
    \/ UnmarkAfterReject(t) \/ Launch(t) \/ LoopReply(t) \/ LoopCycle(t)
    \/ LoopEnd(t) \/ Persist(t)

Next ==
    \/ \E t \in Turn : Dispatch(t) \/ TurnStep(t)
    \/ AbortCancel \/ AbortIdle
    \/ \E n \in Note : QueueMessage(n)
    \/ CompactCheck \/ CompactSession
    \/ Age \/ Restart

\* A spawned future is polled until it is done; a loop is bounded by max_iterations
\* and a call of the model by its time-outs, so a loop that can end does.
Fairness == \A t \in Turn : WF_vars(TurnStep(t))

Spec == Init /\ [][Next]_vars /\ Fairness
-----------------------------------------------------------------------------
TypeOK ==
    /\ state \in {"Active", "Idle", "Sleeping", "Absent"}
    /\ history \in Seq(Message) /\ persisted \in Nat
    /\ updated \in {"recent", "old"}
    /\ disk \in File /\ halved \in BOOLEAN
    /\ marked \in BOOLEAN
    /\ cancels \in Turn \cup {None} /\ cancelled \in SUBSET Turn
    /\ turn \in [Turn -> TurnState]
    /\ aborter \in {"idle", "cancelled"} /\ compactor \in {"idle", "checked"}
    /\ archived \in Message /\ queued \in SUBSET Note
    /\ spent \in [Event -> Nat] /\ targets \in SUBSET Turn
    /\ owed \in BOOLEAN /\ notified \in BOOLEAN

\* A session answers SessionBusy only while a turn is on its way: no path of
\* dispatch_turn, not even one that raced with abort, leaves it Active for good.
StuckFree == state = "Active" => \E t \in Turn : turn[t].phase \in InFlight

\* persisted_msg_count is never more than the file holds, through appends, rewrites,
\* failed saves, compactions and restarts; unless an append stopped half-way, it is
\* that number and the file ends with a whole line.
DiskCount ==
    /\ persisted <= Len(disk.msgs)
    /\ ~halved => disk.end = "line" /\ Len(disk.msgs) = persisted

\* A session has one turn in flight (dispatch_turn answers SessionBusy to a second).
OneTurn == \A t, u \in Turn :
               turn[t].phase \in InFlight /\ turn[u].phase \in InFlight => t = u

\* The prompt of a turn that was saved stays, in memory, in the file or in an
\* archive of its cycle, whatever the later turns, notes and restarts are.
SavedTurnsKept ==
    \A t \in Turn : turn[t].phase = "saved" =>
        /\ Prompt(t) \subseteq archived \cup Carried(disk.msgs)
        /\ state # "Absent" => Prompt(t) \subseteq archived \cup Carried(history)

\* A save that succeeds leaves in the file the messages of the session.  What an
\* append that stopped half-way left before it may be there too, twice or joined to
\* another line, but no message of the session is missing.
SaveIsFaithful ==
    [][\A t \in Turn : turn[t].phase = "ended" /\ turn'[t].phase = "saved"
           => /\ Carried(history') \subseteq Carried(disk'.msgs)
              /\ ~halved' => disk'.msgs = history' /\ disk'.end = "line"]_vars

\* abort cancels the token that the running loop listens to.
AbortReachesLoop ==
    [][spent'.abort > spent.abort =>
           \A t \in Turn : turn[t].phase = "looping" => turn[t].token \in cancelled']_vars

\* abort stops the turn that was in flight when it was called: the turn never
\* runs a loop whose token is not cancelled.
AbortStopsTurn ==
    aborter = "idle" => \A t \in targets :
                            turn[t].phase = "looping" => turn[t].token \in cancelled

\* A continuation or a note queued for the session is in its history.
NotesKept == \A n \in queued : <<n, "note">> \in Carried(history) \cup archived

\* A chat whose turn, started in the last five minutes, was cut off by a crash
\* is told so at the next boot.
InterruptedIsNotified == owed => notified

\* A busy session becomes free again.
BusyEnds == state = "Active" ~> state # "Active"
=============================================================================
