------------------------------ MODULE Scheduler ------------------------------
(***************************************************************************)
(* The research scheduler of naked-tg.  One tick at a time sweeps the      *)
(* workers it knows (heartbeat, cancel, hard abort, drop), finalises stale *)
(* ledger records, drains the records a dead process left and dispatches   *)
(* the specs that are due.  A worker saves its own progress to the ledger  *)
(* and does its own accounting; an operator may start, abort or resume a   *)
(* spec at any moment.  A step of the model ends where the code awaits the *)
(* store, the state lock or the notifier.                                  *)
(*                                                                         *)
(* Time is abstract: a worker may at any moment pass its timeout and, once *)
(* asked to cancel, its grace period; a record with no handle may at any   *)
(* moment outlive the heartbeat budget; any listed spec may be due.        *)
(***************************************************************************)
EXTENDS Integers, FiniteSets

CONSTANTS Job,           \* ids of research specs
          OneShot,        \* those whose only trigger is run_at
          Worker,         \* bound: tokio tasks alive at once
          NoWorker,
          MaxConcurrent,  \* max_concurrent_runs
          MaxResurrect,   \* max_resurrection_attempts, 0 disables
          AlertAfter,     \* max_retries_before_alert, 0 disables
          PauseAfter,     \* auto_pause_after_failures, 0 disables
          Grace,          \* cancel_grace_period > 0
          MaxCrashes,     \* bound: restarts of the process
          MaxCommands,    \* bound: commands of the operator
          Hazards         \* which of "crash", "shutdown", "runnow",
                          \* "bgabort", "resume" may happen

ASSUME ConfigAssumption ==
  /\ IsFiniteSet(Job) /\ Job # {} /\ OneShot \subseteq Job
  /\ NoWorker \notin Worker
  /\ {MaxConcurrent, MaxResurrect, AlertAfter, PauseAfter, MaxCrashes,
      MaxCommands} \subseteq Nat
  /\ Grace \in BOOLEAN

VARIABLES
  ledger, old,        \* inflight.json of each spec; records past the budget
  paused, runAt,      \* of spec.json
  logged, lastRun,    \* one-shots with a run since run_at: runs.jsonl, in memory
  running,            \* the handles: spec -> worker
  failures, alerted,  \* the streaks
  worker,             \* the spawned tasks
  tick, op,           \* where the loop and the operator's command are
  crashes, commands,
  fired, debt         \* history: dispatches of a one-shot; deaths not counted yet

spec   == <<paused, runAt>>
runs   == <<logged, lastRun>>
disk   == <<ledger, old, spec, runs>>
streak == <<failures, alerted>>
bounds == <<crashes, commands>>
ghost  == <<fired, debt>>
vars   == <<disk, running, streak, worker, tick, op, bounds, ghost>>

State    == {"none", "scheduled", "running", "completed", "failed"}
Inflight == [state: State, attempt: Nat, resurrected: BOOLEAN]
NoRecord == [state |-> "none", attempt |-> 0, resurrected |-> FALSE]

Terminal(r)      == r.state \in {"completed", "failed"}
NonTerminal(r)   == r.state \in {"scheduled", "running"}
Scheduled(n)     == [state |-> "scheduled", attempt |-> n, resurrected |-> FALSE]
MarkRunning(n)   == [state |-> "running", attempt |-> n, resurrected |-> FALSE]
Resurrected(n)   == [state |-> "scheduled", attempt |-> n, resurrected |-> TRUE]
MarkFailed(r)    == [r EXCEPT !.state = "failed"]

Live  == {"born", "work", "won", "lost", "alert", "pause"}
Ended == {"done", "panicked"}
Clock == {"fresh", "late", "asked", "overdue"}
Free  == [pc |-> "free", spec |-> CHOOSE s \in Job : TRUE, attempt |-> 0,
          clock |-> "fresh", by |-> "tick"]

LiveWorkers == {w \in Worker : worker[w].pc \in Live}
Tracked     == {s \in Job : running[s] # NoWorker}
\* mutant: the handles of earlier ticks are not subtracted
SlotsOfOneTick == MaxConcurrent

Slots       == IF Cardinality(Tracked) < MaxConcurrent
               THEN MaxConcurrent - Cardinality(Tracked) ELSE 0

NoJobs == [beat |-> {}, ask |-> {}, abort |-> {}, drop |-> {}]
Quiet  == [ pc |-> "idle", open |-> {}, jobs |-> NoJobs, todo |-> {},
            seen |-> [s \in Job |-> NoRecord], held |-> NoRecord,
            id |-> CHOOSE s \in Job : TRUE, new |-> NoWorker, next |-> "idle" ]
Back(t, pc) == [t EXCEPT !.pc = pc, !.id = Quiet.id, !.held = NoRecord,
                         !.new = NoWorker, !.next = "idle"]
NoOp   == [ pc |-> "idle", id |-> CHOOSE s \in Job : TRUE,
            held |-> NoRecord, new |-> NoWorker ]

MaxAttempt == IF MaxResurrect = 0 THEN 1 ELSE MaxResurrect

Init ==
  /\ ledger = [s \in Job |-> NoRecord]
  /\ old = {}
  /\ paused = [s \in Job |-> FALSE] /\ runAt = OneShot /\ logged = {} /\ lastRun = {}
  /\ running = [s \in Job |-> NoWorker]
  /\ failures = [s \in Job |-> 0] /\ alerted = {}
  /\ worker = [w \in Worker |-> Free]
  /\ tick = Quiet /\ op = NoOp
  /\ crashes = 0 /\ commands = 0
  /\ fired = [s \in Job |-> 0] /\ debt = {}

Save(s, r) == ledger' = [ledger EXCEPT ![s] = r] /\ old' = old \ {s}

-----------------------------------------------------------------------------
(* apply_outcome, the section under the lock.                              *)

Policy(s) ==
  LET n == failures[s] + 1 IN
  CASE PauseAfter > 0 /\ n >= PauseAfter -> "pause"
    [] ~(PauseAfter > 0 /\ n >= PauseAfter) /\ AlertAfter > 0 /\ n >= AlertAfter
         /\ s \notin alerted -> "alert"
    [] OTHER -> "quiet"

CountFailure(s) ==
  /\ failures' = [failures EXCEPT ![s] = IF Policy(s) = "pause" THEN 0 ELSE @ + 1]
  /\ alerted' = IF Policy(s) = "pause" THEN alerted \ {s} ELSE alerted

\* mutant: a success leaves the spec muted
CountSuccessMuted(s) ==
  /\ failures' = [failures EXCEPT ![s] = 0]
  /\ alerted' = alerted

CountSuccess(s) ==
  /\ failures' = [failures EXCEPT ![s] = 0]
  /\ alerted' = alerted \ {s}

(* The notifier says whether the alert was delivered.                      *)
Notify(s) == \E delivered \in BOOLEAN :
  alerted' = IF delivered THEN alerted \cup {s} ELSE alerted

-----------------------------------------------------------------------------
(* spawn_task: save Scheduled, tokio::spawn, insert the handle.            *)

CanSpawn == \E w \in Worker : worker[w].pc = "free"
NextFree == CHOOSE w \in Worker : worker[w].pc = "free"

Spawn(s, n, by) ==
  worker' = [worker EXCEPT ![NextFree] =
    [pc |-> "born", spec |-> s, attempt |-> n, clock |-> "fresh", by |-> by]]

(* The handle that insert replaces is dropped, which detaches its task.    *)
Insert(s, w) ==
  /\ running' = [running EXCEPT ![s] = w]
  /\ worker' = [v \in Worker |->
       IF v = running[s] /\ worker[v].pc \in Ended THEN Free ELSE worker[v]]

-----------------------------------------------------------------------------
(* The worker.  Its JoinHandle keeps a task that ended until it is dropped. *)

Held(w) == w \in {running[s] : s \in Job} \cup {tick.new, op.new}
End(w, how) == worker' = [worker EXCEPT ![w] =
                 IF Held(w) THEN [@ EXCEPT !.pc = how, !.clock = "fresh"] ELSE Free]
Goto(w, pc) == worker' = [worker EXCEPT ![w].pc = pc]

Start(w) ==
  /\ worker[w].pc = "born"
  /\ Save(worker[w].spec, MarkRunning(worker[w].attempt))
  /\ Goto(w, "work")
  /\ UNCHANGED <<spec, runs, running, streak, tick, op, bounds, ghost>>

(* The run is in runs.jsonl when it returns; the worker's own copy of the   *)
(* record becomes terminal.                                                *)
Finish(w) ==
  /\ worker[w].pc = "work"
  /\ \E ok \in BOOLEAN :
       /\ Save(worker[w].spec, [MarkRunning(worker[w].attempt) EXCEPT
                 !.state = IF ok THEN "completed" ELSE "failed"])
       /\ Goto(w, IF ok THEN "won" ELSE "lost")
  /\ logged' = logged \cup (OneShot \cap {worker[w].spec})
  /\ UNCHANGED <<spec, lastRun, running, streak, tick, op, bounds, ghost>>

Succeed(w) ==
  /\ worker[w].pc = "won"
  /\ CountSuccess(worker[w].spec)
  /\ lastRun' = lastRun \cup (OneShot \cap {worker[w].spec})
  /\ End(w, "done")
  /\ UNCHANGED <<ledger, old, spec, logged, running, tick, op, bounds, ghost>>

Fail(w) ==
  /\ worker[w].pc = "lost"
  /\ CountFailure(worker[w].spec)
  /\ IF Policy(worker[w].spec) = "quiet" THEN End(w, "done")
                                         ELSE Goto(w, Policy(worker[w].spec))
  /\ UNCHANGED <<disk, running, tick, op, bounds, ghost>>

Alert(w) ==
  /\ worker[w].pc = "alert"
  /\ Notify(worker[w].spec)
  /\ End(w, "done")
  /\ UNCHANGED <<disk, running, failures, tick, op, bounds, ghost>>

AutoPause(w) ==
  /\ worker[w].pc = "pause"
  /\ paused' = [paused EXCEPT ![worker[w].spec] = TRUE]
  /\ End(w, "done")
  /\ UNCHANGED <<ledger, old, runAt, runs, running, streak, tick, op, bounds, ghost>>

Panic(w) ==
  /\ worker[w].pc = "work"
  /\ End(w, "panicked")
  /\ debt' = IF Held(w) THEN debt \cup {worker[w].spec} ELSE debt
  /\ UNCHANGED <<disk, running, streak, tick, op, bounds, fired>>

(* Time passes for a worker that has not ended.                            *)
Expire(w) ==
  /\ worker[w].pc \in Live /\ worker[w].clock \in {"fresh", "asked"}
  /\ worker' = [worker EXCEPT ![w].clock = IF @ = "fresh" THEN "late" ELSE "overdue"]
  /\ UNCHANGED <<disk, running, streak, tick, op, bounds, ghost>>

(* Time passes for records that nobody refreshes.                          *)
Unattended == {s \in Job : NonTerminal(ledger[s]) /\ running[s] = NoWorker} \ old
Age(ss) ==
  /\ ss # {} /\ old' = old \cup ss
  /\ UNCHANGED <<ledger, spec, runs, running, streak, worker, tick, op, bounds, ghost>>

-----------------------------------------------------------------------------
(* scan_and_dispatch lists the specs once; the dispatch at the end of the   *)
(* tick still reads this listing.                                          *)
TickBegin ==
  /\ tick.pc = "idle"
  /\ tick' = [tick EXCEPT !.pc = "classify",
       !.open = {s \in Job : ~paused[s] /\ (s \in OneShot => s \in runAt)}]
  /\ UNCHANGED <<disk, running, streak, worker, op, bounds, ghost>>

(* sweep_running.  The first section under the lock sorts the handles.      *)
Classify ==
  /\ tick.pc = "classify"
  /\ LET handle(s) == worker[running[s]]
         live(s)   == s \in Tracked /\ handle(s).pc \in Live
     IN tick' = [tick EXCEPT !.pc = "sweep", !.jobs =
          [beat  |-> {s \in Job : live(s) /\ handle(s).clock = "fresh"},
           ask   |-> {s \in Job : live(s) /\ handle(s).clock = "late"},
           abort |-> {s \in Job : live(s) /\ handle(s).clock = "overdue"},
           drop  |-> Tracked \ {s \in Job : live(s)}]]
  /\ UNCHANGED <<disk, running, streak, worker, op, bounds, ghost>>

BeatLoad(s) ==
  /\ tick.pc = "sweep" /\ s \in tick.jobs.beat
  /\ tick' = [tick EXCEPT !.jobs.beat = @ \ {s},
                          !.pc = IF ledger[s].state = "running" THEN "beatsave" ELSE @,
                          !.id = IF ledger[s].state = "running" THEN s ELSE @,
                          !.held = IF ledger[s].state = "running" THEN ledger[s] ELSE @]
  /\ UNCHANGED <<disk, running, streak, worker, op, bounds, ghost>>

BeatSave ==
  /\ tick.pc = "beatsave"
  /\ Save(tick.id, tick.held)
  /\ tick' = Back(tick, "sweep")
  /\ UNCHANGED <<spec, runs, running, streak, worker, op, bounds, ghost>>

Beaten == tick.pc = "sweep" /\ tick.jobs.beat = {}

\* mutant: cancel_requested_at is not stamped
AskCancelUnstamped ==
  /\ Beaten /\ tick.jobs.ask # {}
  /\ tick' = [tick EXCEPT !.jobs.ask = {}]
  /\ UNCHANGED <<disk, running, streak, worker, op, bounds, ghost>>

(* Cooperative cancel of whatever the ids point at now; without a grace     *)
(* period they are aborted at once.                                        *)
AskCancel ==
  /\ Beaten /\ tick.jobs.ask # {}
  /\ LET asked == {running[s] : s \in tick.jobs.ask}
     IN worker' = [w \in Worker |-> IF Grace /\ w \in asked /\ worker[w].pc \in Live
                     THEN [worker[w] EXCEPT !.clock = "asked"] ELSE worker[w]]
  /\ tick' = [tick EXCEPT !.jobs.ask = {},
                          !.jobs.abort = IF Grace THEN @ ELSE @ \cup tick.jobs.ask]
  /\ UNCHANGED <<disk, running, streak, op, bounds, ghost>>

Kill(ws) == worker' = [w \in Worker |-> IF w \in ws THEN Free ELSE worker[w]]

\* mutant: the handle is dropped, not aborted
HardAbortDetached(s) ==
  /\ Beaten /\ tick.jobs.ask = {} /\ s \in tick.jobs.abort
  /\ running' = [running EXCEPT ![s] = NoWorker]
  /\ debt' = debt \cup {s}
  /\ tick' = [tick EXCEPT !.jobs.abort = @ \ {s}, !.pc = "death", !.id = s]
  /\ UNCHANGED <<disk, streak, worker, op, bounds, fired>>

HardAbort(s) ==
  /\ Beaten /\ tick.jobs.ask = {} /\ s \in tick.jobs.abort
  /\ running' = [running EXCEPT ![s] = NoWorker]
  /\ Kill({running[s]})
  /\ debt' = debt \cup {s}
  /\ tick' = [tick EXCEPT !.jobs.abort = @ \ {s}, !.pc = "death", !.id = s]
  /\ UNCHANGED <<disk, streak, op, bounds, fired>>

Dropping(s) == /\ Beaten /\ tick.jobs.ask = {} /\ tick.jobs.abort = {}
               /\ s \in tick.jobs.drop

\* mutant: the result of the handle is not looked at, as before B121a
DropUnlooked(s) ==
  /\ Dropping(s)
  /\ running' = [running EXCEPT ![s] = NoWorker]
  /\ Kill({running[s]})
  /\ tick' = [tick EXCEPT !.jobs.drop = @ \ {s}]
  /\ UNCHANGED <<disk, streak, op, bounds, ghost>>

(* Awaits the handle it removed: a task that finished did its accounting,   *)
(* one that panicked left it to the sweep.  The handle may be younger than  *)
(* the classification and not finished.                                    *)
Drop(s) ==
  /\ Dropping(s)
  /\ running' = [running EXCEPT ![s] = NoWorker]
  /\ IF running[s] = NoWorker
     THEN tick' = [tick EXCEPT !.jobs.drop = @ \ {s}] /\ UNCHANGED worker
     ELSE LET pc == worker[running[s]].pc IN
          /\ tick' = [tick EXCEPT !.jobs.drop = @ \ {s},
               !.pc  = CASE pc = "done" -> "sweep" [] pc = "panicked" -> "death"
                         [] OTHER -> "await",
               !.id  = IF pc = "done" THEN @ ELSE s,
               !.new = IF pc \in Ended THEN NoWorker ELSE running[s]]
          /\ Kill(IF pc \in Ended THEN {running[s]} ELSE {})
  /\ UNCHANGED <<disk, streak, op, bounds, ghost>>

Awaited ==
  /\ tick.pc = "await" /\ worker[tick.new].pc \in Ended
  /\ tick' = IF worker[tick.new].pc = "done" THEN Back(tick, "sweep")
             ELSE [tick EXCEPT !.pc = "death", !.new = NoWorker]
  /\ Kill({tick.new})
  /\ UNCHANGED <<disk, running, streak, op, bounds, ghost>>

(* record_death_for_worker: load, save, apply_outcome.                     *)
DeathLoad ==
  /\ tick.pc = "death"
  /\ tick' = [tick EXCEPT
       !.pc   = IF NonTerminal(ledger[tick.id]) THEN "deathsave" ELSE "deathcount",
       !.held = IF NonTerminal(ledger[tick.id]) THEN MarkFailed(ledger[tick.id]) ELSE @]
  /\ UNCHANGED <<disk, running, streak, worker, op, bounds, ghost>>

DeathSave ==
  /\ tick.pc = "deathsave"
  /\ Save(tick.id, tick.held)
  /\ tick' = [tick EXCEPT !.pc = "deathcount", !.held = NoRecord]
  /\ UNCHANGED <<spec, runs, running, streak, worker, op, bounds, ghost>>

DeathCount ==
  /\ tick.pc = "deathcount"
  /\ CountFailure(tick.id)
  /\ debt' = debt \ {tick.id}
  /\ tick' = IF Policy(tick.id) = "quiet" THEN Back(tick, "sweep")
             ELSE [tick EXCEPT !.pc = Policy(tick.id)]
  /\ UNCHANGED <<disk, running, worker, op, bounds, fired>>

DeathAlert ==
  /\ tick.pc = "alert"
  /\ Notify(tick.id)
  /\ tick' = Back(tick, "sweep")
  /\ UNCHANGED <<disk, running, failures, worker, op, bounds, ghost>>

DeathPause ==
  /\ tick.pc = "pause"
  /\ paused' = [paused EXCEPT ![tick.id] = TRUE]
  /\ tick' = Back(tick, "sweep")
  /\ UNCHANGED <<ledger, old, runAt, runs, running, streak, worker, op, bounds, ghost>>

(* Records past the heartbeat budget that have no handle.                  *)
StaleBegin ==
  /\ tick.pc = "sweep" /\ tick.jobs = NoJobs
  /\ tick' = [tick EXCEPT !.pc = "stale", !.todo = Job \ Tracked]
  /\ UNCHANGED <<disk, running, streak, worker, op, bounds, ghost>>

\* mutant: only a Scheduled record can be stale
StaleLoadScheduled(s) ==
  /\ tick.pc = "stale" /\ s \in tick.todo
  /\ LET kick == ledger[s].state = "scheduled" /\ s \in old
     IN tick' = [tick EXCEPT !.todo = @ \ {s},
                             !.pc   = IF kick THEN "stalesave" ELSE @,
                             !.id   = IF kick THEN s ELSE @,
                             !.held = IF kick THEN MarkFailed(ledger[s]) ELSE @]
  /\ UNCHANGED <<disk, running, streak, worker, op, bounds, ghost>>

StaleLoad(s) ==
  /\ tick.pc = "stale" /\ s \in tick.todo
  /\ LET kick == NonTerminal(ledger[s]) /\ s \in old
     IN tick' = [tick EXCEPT !.todo = @ \ {s},
                             !.pc   = IF kick THEN "stalesave" ELSE @,
                             !.id   = IF kick THEN s ELSE @,
                             !.held = IF kick THEN MarkFailed(ledger[s]) ELSE @]
  /\ UNCHANGED <<disk, running, streak, worker, op, bounds, ghost>>

StaleSave ==
  /\ tick.pc = "stalesave"
  /\ Save(tick.id, tick.held)
  /\ tick' = Back(tick, "stale")
  /\ UNCHANGED <<spec, runs, running, streak, worker, op, bounds, ghost>>

-----------------------------------------------------------------------------
(* drain_resurrection_queue; then the last runs are looked up on disk and   *)
(* plan_dispatches reads the listing made before the sweep.                *)

DrainList ==
  /\ tick.pc = "stale" /\ tick.todo = {}
  /\ tick' = IF \E s \in Job : NonTerminal(ledger[s])
             THEN [tick EXCEPT !.pc = "drainplan", !.seen = ledger]
             ELSE [tick EXCEPT !.pc = "drain"]
  /\ UNCHANGED <<disk, running, streak, worker, op, bounds, ghost>>

Fills(picks, candidates) ==
  /\ picks \subseteq candidates /\ Cardinality(picks) <= Slots
  /\ Cardinality(picks) = Slots \/ picks = candidates

DrainPlan ==
  /\ tick.pc = "drainplan"
  /\ \E picks \in SUBSET Job :
       /\ Fills(picks, {s \in Job \ Tracked :
            tick.seen[s].state = "scheduled" /\ tick.seen[s].resurrected})
       /\ tick' = [tick EXCEPT !.pc = "drain", !.todo = picks, !.seen =
            [s \in Job |-> IF s \in picks THEN @[s] ELSE NoRecord]]
  /\ UNCHANGED <<disk, running, streak, worker, op, bounds, ghost>>

ToSpawn(t, s, n, next) ==
  [t EXCEPT !.todo = @ \ {s}, !.pc = "save", !.id = s, !.next = next,
            !.held = Scheduled(n), !.seen[s] = NoRecord]

Drain(s) ==
  /\ tick.pc = "drain" /\ s \in tick.todo
  /\ tick' = IF paused[s]
             THEN [tick EXCEPT !.todo = @ \ {s}, !.seen[s] = NoRecord]
             ELSE ToSpawn(tick, s, tick.seen[s].attempt, "drain")
  /\ UNCHANGED <<disk, running, streak, worker, op, bounds, ghost>>

Plan ==
  /\ tick.pc = "drain" /\ tick.todo = {}
  /\ lastRun' = lastRun \cup logged
  /\ \E due \in SUBSET ((tick.open \ Tracked) \ (lastRun \cup logged)), picks \in SUBSET Job :
       /\ Fills(picks, due)
       /\ tick' = IF picks = {} THEN Quiet
                  ELSE [Quiet EXCEPT !.pc = "dispatch", !.todo = picks]
  /\ UNCHANGED <<ledger, old, spec, logged, running, streak, worker, op, bounds, ghost>>

\* mutant: run_at stays on disk
DispatchUncleared(s) ==
  /\ tick.pc = "dispatch" /\ s \in tick.todo
  /\ lastRun' = lastRun \cup (OneShot \cap {s})
  /\ fired' = [fired EXCEPT ![s] = IF s \in OneShot /\ @ < 2 THEN @ + 1 ELSE @]
  /\ tick' = ToSpawn(tick, s, 1, "dispatch")
  /\ UNCHANGED <<ledger, old, spec, logged, running, streak, worker, op, bounds, debt>>

(* A one-shot loses its run_at on disk before it is spawned.               *)
Dispatch(s) ==
  /\ tick.pc = "dispatch" /\ s \in tick.todo
  /\ runAt' = runAt \ {s}
  /\ lastRun' = lastRun \cup (OneShot \cap {s})
  /\ fired' = [fired EXCEPT ![s] = IF s \in OneShot /\ @ < 2 THEN @ + 1 ELSE @]
  /\ tick' = ToSpawn(tick, s, 1, "dispatch")
  /\ UNCHANGED <<ledger, old, paused, logged, running, streak, worker, op, bounds, debt>>

\* mutant: the record is left to the worker
SpawnUnsaved ==
  /\ tick.pc = "save"
  /\ tick' = [tick EXCEPT !.pc = "spawn"]
  /\ UNCHANGED <<disk, running, streak, worker, op, bounds, ghost>>

SpawnSave ==
  /\ tick.pc = "save"
  /\ Save(tick.id, tick.held)
  /\ tick' = [tick EXCEPT !.pc = "spawn"]
  /\ UNCHANGED <<spec, runs, running, streak, worker, op, bounds, ghost>>

SpawnTask ==
  /\ tick.pc = "spawn" /\ CanSpawn
  /\ Spawn(tick.id, tick.held.attempt, "tick")
  /\ tick' = [tick EXCEPT !.pc = "insert", !.new = NextFree, !.held = NoRecord]
  /\ UNCHANGED <<disk, running, streak, op, bounds, ghost>>

SpawnInsert ==
  /\ tick.pc = "insert"
  /\ Insert(tick.id, tick.new)
  /\ tick' = IF tick.next = "dispatch" /\ tick.todo = {} THEN Quiet
             ELSE Back(tick, tick.next)
  /\ UNCHANGED <<disk, streak, op, bounds, ghost>>

Sweep == \/ Classify \/ BeatSave \/ AskCancel \/ Awaited \/ DeathLoad \/ DeathSave
         \/ DeathCount \/ DeathAlert \/ DeathPause \/ StaleBegin \/ StaleSave
         \/ \E s \in Job : BeatLoad(s) \/ HardAbort(s) \/ Drop(s) \/ StaleLoad(s)
Launch == \/ DrainList \/ DrainPlan \/ Plan \/ SpawnSave \/ SpawnTask \/ SpawnInsert
          \/ \E s \in Job : Drain(s) \/ Dispatch(s)

-----------------------------------------------------------------------------
(* The process dies and starts again: the ledger and the specs stay.       *)

Restart ==
  /\ crashes < MaxCrashes /\ crashes' = crashes + 1 /\ UNCHANGED commands
  /\ running' = [s \in Job |-> NoWorker]
  /\ failures' = [s \in Job |-> 0] /\ alerted' = {} /\ lastRun' = {}
  /\ worker' = [w \in Worker |-> Free]
  /\ op' = NoOp
  /\ debt' = {}

Crash ==
  /\ "crash" \in Hazards
  /\ Restart
  /\ tick' = [Quiet EXCEPT !.pc = "boot"]
  /\ UNCHANGED <<ledger, old, spec, logged, fired>>

(* shutdown_running_tasks: abort every handle, then flip the records.       *)
Shutdown ==
  /\ "shutdown" \in Hazards /\ tick.pc = "idle"
  /\ Restart
  /\ tick' = [Quiet EXCEPT !.pc = "shutdown", !.todo = Tracked]
  /\ UNCHANGED <<ledger, old, spec, logged, fired>>

ShutdownRecord(s) ==
  /\ tick.pc = "shutdown" /\ s \in tick.todo
  /\ IF NonTerminal(ledger[s]) THEN Save(s, MarkFailed(ledger[s]))
                               ELSE UNCHANGED <<ledger, old>>
  /\ tick' = [tick EXCEPT !.todo = @ \ {s}]
  /\ UNCHANGED <<spec, runs, running, streak, worker, op, bounds, ghost>>

ShutdownDone ==
  /\ tick.pc = "shutdown" /\ tick.todo = {}
  /\ tick' = [tick EXCEPT !.pc = "boot"]
  /\ UNCHANGED <<disk, running, streak, worker, op, bounds, ghost>>

(* rebuild_resurrection_queue, from one listing of the open records.       *)
BootList ==
  /\ tick.pc = "boot"
  /\ LET left == {s \in Job : NonTerminal(ledger[s])}
     IN tick' = IF left = {} THEN Quiet ELSE [tick EXCEPT !.pc = "rebuild",
          !.todo = left, !.seen = [s \in Job |-> IF s \in left THEN ledger[s] ELSE NoRecord]]
  /\ UNCHANGED <<disk, running, streak, worker, op, bounds, ghost>>

\* mutant: one resurrection too many
CapHitLate(n) == MaxResurrect = 0 \/ n > MaxResurrect

CapHit(n) == MaxResurrect = 0 \/ n >= MaxResurrect

Rebuild(s) ==
  /\ tick.pc = "rebuild" /\ s \in tick.todo
  /\ Save(s, IF paused[s] \/ CapHit(tick.seen[s].attempt)
             THEN MarkFailed(tick.seen[s])
             ELSE Resurrected(tick.seen[s].attempt + 1))
  /\ tick' = IF tick.todo = {s} THEN Quiet
             ELSE [tick EXCEPT !.todo = @ \ {s}, !.seen[s] = NoRecord]
  /\ UNCHANGED <<spec, runs, running, streak, worker, op, bounds, ghost>>

Boot == ShutdownDone \/ BootList \/ \E s \in Job : ShutdownRecord(s) \/ Rebuild(s)

-----------------------------------------------------------------------------
(* The operator: /research run, /bg abort, /research resume.               *)

Command(c) == /\ c \in Hazards /\ op.pc = "idle" /\ commands < MaxCommands
              /\ commands' = commands + 1 /\ UNCHANGED crashes

(* dispatch_immediate checks the cap, releases the lock and spawns.         *)
RunNow(s) ==
  /\ Command("runnow")
  /\ Cardinality(Tracked) < MaxConcurrent
  /\ op' = [op EXCEPT !.pc = "save", !.id = s]
  /\ UNCHANGED <<disk, running, streak, worker, tick, ghost>>

RunNowSave ==
  /\ op.pc = "save"
  /\ Save(op.id, Scheduled(1))
  /\ op' = [op EXCEPT !.pc = "spawn"]
  /\ UNCHANGED <<spec, runs, running, streak, worker, tick, bounds, ghost>>

RunNowSpawn ==
  /\ op.pc = "spawn" /\ CanSpawn
  /\ Spawn(op.id, 1, "operator")
  /\ op' = [op EXCEPT !.pc = "insert", !.new = NextFree]
  /\ UNCHANGED <<disk, running, streak, tick, bounds, ghost>>

RunNowInsert ==
  /\ op.pc = "insert"
  /\ Insert(op.id, op.new)
  /\ op' = NoOp
  /\ UNCHANGED <<disk, streak, tick, bounds, ghost>>

(* cancel_task, then the record is loaded and marked failed.               *)
BgAbort(s) ==
  /\ Command("bgabort")
  /\ running' = [running EXCEPT ![s] = NoWorker]
  /\ Kill({running[s]})
  /\ debt' = debt \ {s}
  /\ op' = [op EXCEPT !.pc = "load", !.id = s]
  /\ UNCHANGED <<disk, streak, tick, fired>>

BgAbortLoad ==
  /\ op.pc = "load"
  /\ op' = IF NonTerminal(ledger[op.id])
           THEN [op EXCEPT !.pc = "mark", !.held = MarkFailed(ledger[op.id])] ELSE NoOp
  /\ UNCHANGED <<disk, running, streak, worker, tick, bounds, ghost>>

BgAbortSave ==
  /\ op.pc = "mark"
  /\ Save(op.id, op.held)
  /\ op' = NoOp
  /\ UNCHANGED <<spec, runs, running, streak, worker, tick, bounds, ghost>>

(* reset_research_failures: the streak first, the spec on disk afterwards.  *)
Resume(s) ==
  /\ Command("resume")
  /\ CountSuccess(s)
  /\ op' = [op EXCEPT !.pc = "resume", !.id = s]
  /\ UNCHANGED <<disk, running, worker, tick, ghost>>

ResumeSave ==
  /\ op.pc = "resume"
  /\ paused' = [paused EXCEPT ![op.id] = FALSE]
  /\ op' = NoOp
  /\ UNCHANGED <<ledger, old, runAt, runs, running, streak, worker, tick, bounds, ghost>>

Operator == \/ RunNowSave \/ RunNowSpawn \/ RunNowInsert
            \/ BgAbortLoad \/ BgAbortSave \/ ResumeSave
            \/ \E s \in Job : RunNow(s) \/ BgAbort(s) \/ Resume(s)

-----------------------------------------------------------------------------
Task(w) == \/ Start(w) \/ Finish(w) \/ Succeed(w) \/ Fail(w) \/ Alert(w)
           \/ AutoPause(w) \/ Panic(w)
Loop    == TickBegin \/ Sweep \/ Launch \/ Boot
Next == \/ Loop \/ Crash \/ Shutdown \/ Operator
        \/ \E w \in Worker : Task(w) \/ Expire(w)
        \/ \E ss \in SUBSET Unattended : Age(ss)

(* The loop wakes every tick_interval and time passes.  Nothing is assumed  *)
(* of a worker: it may hang for ever at any of its awaits.                  *)
Fairness == /\ WF_vars(Loop)
            /\ WF_vars(\E w \in Worker : Expire(w))
            /\ WF_vars(Age(Unattended))
Spec == Init /\ [][Next]_vars /\ Fairness

-----------------------------------------------------------------------------
(* Properties.                                                             *)

TickPc == {"idle", "classify", "sweep", "beatsave", "await", "death", "deathsave",
           "deathcount", "alert", "pause", "stale", "stalesave", "drainplan", "drain",
           "dispatch", "save", "spawn", "insert", "shutdown", "boot", "rebuild"}

WorkerState == [pc : Live \cup Ended \cup {"free"}, spec : Job, attempt : Nat, clock : Clock,
                by : {"tick", "operator"}]
TickState   == [pc : TickPc, open : SUBSET Job,
                jobs : [beat : SUBSET Job, ask : SUBSET Job, abort : SUBSET Job,
                        drop : SUBSET Job],
                todo : SUBSET Job, seen : [Job -> Inflight], held : Inflight, id : Job,
                new : Worker \cup {NoWorker}, next : {"idle", "drain", "dispatch"}]
OpState     == [pc : {"idle", "save", "spawn", "insert", "load", "mark", "resume"},
                id : Job, held : Inflight, new : Worker \cup {NoWorker}]

(* The types; no chain of resurrections runs past max_resurrection_attempts. *)
TypeOK ==
  /\ ledger \in [Job -> Inflight]
  /\ \A s \in Job : ledger[s].attempt <= MaxAttempt
  /\ old \subseteq Job /\ paused \in [Job -> BOOLEAN] /\ runAt \subseteq OneShot
  /\ logged \subseteq OneShot /\ lastRun \subseteq OneShot
  /\ running \in [Job -> Worker \cup {NoWorker}]
  /\ failures \in [Job -> Nat] /\ alerted \subseteq Job
  /\ worker \in [Worker -> WorkerState] /\ tick \in TickState /\ op \in OpState
  /\ crashes \in 0..MaxCrashes /\ commands \in 0..MaxCommands
  /\ fired \in [Job -> 0..2] /\ debt \subseteq Job

(* Resurrected and fresh runs together stay within max_concurrent_runs     *)
(* ("Hard cap on concurrent runs the scheduler will keep in flight").       *)
CapHeld == Cardinality(Tracked) <= MaxConcurrent

(* With operators, who check the cap and insert later, the handles of the   *)
(* loop's own making stay within it.                                       *)
OwnShareHeld ==
  Cardinality({s \in Tracked : worker[running[s]].by = "tick"}) <= MaxConcurrent

(* A spec never has two tasks alive: the fan-out that the hard abort of     *)
(* sweep_running is there to prevent.                                      *)
OneWorkerPerSpec ==
  \A v, w \in LiveWorkers : worker[v].spec = worker[w].spec => v = w

(* Work in progress is open in the ledger, so a crash now leaves a record    *)
(* for the next boot.                                                      *)
WorkIsOnDisk ==
  \A w \in Worker : worker[w].pc \in {"born", "work"} => NonTerminal(ledger[worker[w].spec])

(* A worker that died without its accounting keeps its slot until the sweep *)
(* has counted the death (B121a).                                          *)
DeathIsCounted ==
  \A s \in debt : \/ s \in Tracked
                  \/ tick.id = s /\ tick.pc \in {"insert", "await", "death", "deathsave", "deathcount"}

(* A spec is only muted within a streak that reached the alert threshold:   *)
(* a new streak is heard again.                                            *)
AlertedMeansStreak == \A s \in alerted : failures[s] >= AlertAfter

(* A one-shot run_at is dispatched at most once, whatever crashes.         *)
OneShotOnce == \A s \in OneShot : fired[s] <= 1

(* Concurrency: the cap is kept and no spec runs twice at a time, though a   *)
(* worker may hang, be aborted, and its successor start meanwhile.         *)
SlotsHold == CapHeld /\ OneWorkerPerSpec

(* Crashes: work is never without a record, a one-shot never runs twice, and  *)
(* (in the types) a chain of resurrections never passes its cap.           *)
CrashSafe == TypeOK /\ WorkIsOnDisk /\ OneShotOnce

(* Failures: every death reaches the streak of its spec, and a spec is muted *)
(* only within a streak, so that the next streak is heard.                  *)
FailuresAreHeard == DeathIsCounted /\ AlertedMeansStreak

(* An open record is closed in the end, though its worker may hang, panic or *)
(* die with the process.                                                   *)
LedgerSettles == \A s \in Job : NonTerminal(ledger[s]) ~> ~NonTerminal(ledger[s])

(* A full cap does not stay full, though every worker may hang and ignore    *)
(* its cancellation.                                                       *)
SlotComesFree == Slots = 0 ~> Slots > 0

(* "patches spec.paused = true on disk and stops touching the spec until an *)
(* operator runs /research resume": what is being launched is not paused.   *)
PausedIsLeftAlone == tick.pc \in {"save", "spawn"} => ~paused[tick.id]

(* A terminal record is not reopened by a heartbeat ("we should NOT touch    *)
(* the entry anymore").                                                    *)
TerminalIsFinal == [][\A s \in Job : Terminal(ledger[s]) => ledger'[s].state # "running"]_vars

(* A run aborted by a graceful shutdown is resurrected at the next boot.    *)
ShutdownIsResurrected ==
  [][\A s \in Job : tick.pc = "shutdown" /\ NonTerminal(ledger[s]) => NonTerminal(ledger'[s])]_vars
=============================================================================
