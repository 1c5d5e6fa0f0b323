--------------------------- MODULE SchedulerProofs ---------------------------
(***************************************************************************)
(* Scheduler for any specs, workers, thresholds and numbers of restarts.   *)
(* Types, handles, the share of the loop and the one-shots hold whatever   *)
(* operators do; from NoOperator on, the loop is by itself (MaxCommands is *)
(* 0): that is where the cap, the ledger and the streaks are exact.        *)
(***************************************************************************)
EXTENDS Scheduler, FiniteSetTheorems, TLAPS

\* Records whose chain of resurrections is within its cap, and what holds one.
Capped      == {r \in Inflight : r.attempt <= MaxAttempt}
WorkerShape == [pc : Live \cup Ended \cup {"free"}, spec : Job, attempt : 0..MaxAttempt,
                clock : Clock, by : {"tick", "operator"}]
Jobs        == [beat : SUBSET Job, ask : SUBSET Job, abort : SUBSET Job, drop : SUBSET Job]
TickShape   == [pc : TickPc, open : SUBSET Job, jobs : Jobs, todo : SUBSET Job,
                seen : [Job -> Capped], held : Capped, id : Job,
                new : Worker \cup {NoWorker}, next : {"idle", "drain", "dispatch"}]
OpShape     == [pc : {"idle", "save", "spawn", "insert", "load", "mark", "resume"},
                id : Job, held : Capped, new : Worker \cup {NoWorker}]

LedgerTyped  == ledger \in [Job -> Capped] /\ old \subseteq Job
SpecTyped    == /\ paused \in [Job -> BOOLEAN] /\ runAt \subseteq OneShot
                /\ logged \subseteq OneShot /\ lastRun \subseteq OneShot
RunningTyped == running \in [Job -> Worker \cup {NoWorker}]
StreakTyped  == failures \in [Job -> Nat] /\ alerted \subseteq Job
WorkerTyped  == worker \in [Worker -> WorkerShape]
TickTyped    == tick \in TickShape
OpTyped      == op \in OpShape
CountTyped   == /\ crashes \in 0..MaxCrashes /\ commands \in 0..MaxCommands
                /\ fired \in [Job -> 0..2] /\ debt \subseteq Job
Typed == /\ LedgerTyped /\ SpecTyped /\ RunningTyped /\ StreakTyped
         /\ WorkerTyped /\ TickTyped /\ OpTyped /\ CountTyped

-----------------------------------------------------------------------------
LEMMA SomeJob == (CHOOSE s \in Job : TRUE) \in Job
BY ConfigAssumption

LEMMA CapIsPositive == MaxAttempt \in Nat /\ 1 <= MaxAttempt
BY ConfigAssumption DEF MaxAttempt

\* What the scheduler writes into a record stays within the cap.
LEMMA Records ==
    /\ NoRecord \in Capped /\ Scheduled(1) \in Capped
    /\ \A n \in 0..MaxAttempt : Scheduled(n) \in Capped /\ MarkRunning(n) \in Capped
    /\ \A n \in 0..MaxAttempt : \A st \in {"completed", "failed"} :
         [MarkRunning(n) EXCEPT !.state = st] \in Capped
    /\ \A r \in Capped : MarkFailed(r) \in Capped /\ r.attempt \in 0..MaxAttempt
    /\ \A r \in Capped : ~CapHit(r.attempt) => Resurrected(r.attempt + 1) \in Capped
<1>1. /\ NoRecord \in Capped /\ Scheduled(1) \in Capped
      /\ \A n \in 0..MaxAttempt : Scheduled(n) \in Capped /\ MarkRunning(n) \in Capped
  BY CapIsPositive DEF Capped, Inflight, State, NoRecord, Scheduled, MarkRunning
<1>2. \A n \in 0..MaxAttempt : \A st \in {"completed", "failed"} :
         [MarkRunning(n) EXCEPT !.state = st] \in Capped
  BY <1>1 DEF Capped, Inflight, State
<1>3. \A r \in Capped : MarkFailed(r) \in Capped /\ r.attempt \in 0..MaxAttempt
  BY CapIsPositive DEF Capped, Inflight, State, MarkFailed
<1>4. ASSUME NEW r \in Capped, ~CapHit(r.attempt) PROVE Resurrected(r.attempt + 1) \in Capped
  <2>1. r.attempt + 1 \in 0..MaxAttempt
    BY <1>4, ConfigAssumption DEF CapHit, MaxAttempt, Capped, Inflight
  <2> QED BY <2>1, CapIsPositive DEF Capped, Inflight, State, Resurrected
<1> QED BY <1>1, <1>2, <1>3, <1>4

LEMMA Blank ==
    /\ Free \in WorkerShape /\ Free.pc = "free" /\ Free.by = "tick"
    /\ Quiet \in TickShape /\ Quiet.pc = "idle" /\ Quiet.new = NoWorker
    /\ Quiet.open = {} /\ Quiet.todo = {}
    /\ NoOp \in OpShape /\ NoOp.pc = "idle" /\ NoOp.new = NoWorker
<1>1. Free \in WorkerShape /\ Free.pc = "free" /\ Free.by = "tick"
  BY SomeJob, CapIsPositive DEF Free, WorkerShape, Clock
<1>2. NoJobs \in Jobs
  BY DEF NoJobs, Jobs
<1>3. Quiet \in TickShape
  BY <1>2, SomeJob, Records DEF Quiet, TickShape, TickPc
<1>4. NoOp \in OpShape
  BY SomeJob, Records DEF NoOp, OpShape
<1>5. /\ Quiet.pc = "idle" /\ Quiet.new = NoWorker /\ Quiet.open = {} /\ Quiet.todo = {}
      /\ NoOp.pc = "idle" /\ NoOp.new = NoWorker
  BY DEF Quiet, NoOp
<1> QED BY <1>1, <1>3, <1>4, <1>5

LEMMA InitTyped == Init => Typed
<1> SUFFICES ASSUME Init PROVE Typed
  OBVIOUS
<1>1. LedgerTyped
  BY Records DEF Init, LedgerTyped
<1>2. SpecTyped /\ RunningTyped /\ StreakTyped
  BY DEF Init, SpecTyped, RunningTyped, StreakTyped
<1>3. WorkerTyped /\ TickTyped /\ OpTyped
  BY Blank DEF Init, WorkerTyped, TickTyped, OpTyped
<1>4. CountTyped
  BY ConfigAssumption DEF Init, CountTyped
<1> QED BY <1>1, <1>2, <1>3, <1>4 DEF Typed

-----------------------------------------------------------------------------
LEMMA TypedMeansTypeOK == Typed => TypeOK
<1> SUFFICES ASSUME Typed PROVE TypeOK
  OBVIOUS
<1>1. ledger \in [Job -> Inflight] /\ \A s \in Job : ledger[s].attempt <= MaxAttempt
  BY DEF Typed, LedgerTyped, Capped
<1>2. worker \in [Worker -> WorkerState]
  BY CapIsPositive DEF Typed, WorkerTyped, WorkerShape, WorkerState
<1>3. tick \in TickState
  <2>1. tick.seen \in [Job -> Inflight] /\ tick.held \in Inflight
    BY DEF Typed, TickTyped, TickShape, Capped
  <2> QED BY <2>1 DEF Typed, TickTyped, TickShape, TickState, Jobs
<1>4. op \in OpState
  BY DEF Typed, OpTyped, OpShape, OpState, Capped
<1> QED BY <1>1, <1>2, <1>3, <1>4
        DEF TypeOK, Typed, LedgerTyped, SpecTyped, RunningTyped, StreakTyped, CountTyped

\* Every write of a record goes through one assignment of the whole record.
LEMMA SaveTyped ==
    ASSUME LedgerTyped, NEW s \in Job, NEW r \in Capped, Save(s, r) PROVE LedgerTyped'
BY DEF LedgerTyped, Save

LEMMA LedgerStep == ASSUME Typed, [Next]_vars PROVE LedgerTyped'
<1> USE DEF Typed
<1>1. CASE UNCHANGED <<ledger, old>>
  BY <1>1 DEF LedgerTyped
<1>2. ASSUME NEW w \in Worker, Start(w) \/ Finish(w) PROVE LedgerTyped'
  <2>1. worker[w].spec \in Job /\ worker[w].attempt \in 0..MaxAttempt
    BY DEF WorkerTyped, WorkerShape
  <2> QED BY <1>2, <2>1, SaveTyped, Records DEF Start, Finish
<1>3. CASE BeatSave \/ DeathSave \/ StaleSave \/ SpawnSave
  BY <1>3, SaveTyped DEF BeatSave, DeathSave, StaleSave, SpawnSave, TickTyped, TickShape
<1>4. CASE RunNowSave \/ BgAbortSave
  BY <1>4, SaveTyped, Records DEF RunNowSave, BgAbortSave, OpTyped, OpShape
<1>5. ASSUME NEW s \in Job, ShutdownRecord(s) PROVE LedgerTyped'
  BY <1>5, SaveTyped, Records DEF ShutdownRecord, LedgerTyped
<1>6. ASSUME NEW s \in Job, Rebuild(s) PROVE LedgerTyped'
  <2>1. tick.seen[s] \in Capped
    BY DEF TickTyped, TickShape
  <2> QED BY <1>6, <2>1, SaveTyped, Records DEF Rebuild
<1>7. ASSUME NEW ss \in SUBSET Unattended, Age(ss) PROVE LedgerTyped'
  BY <1>7 DEF Age, Unattended, LedgerTyped
<1>8. \/ UNCHANGED <<ledger, old>> \/ BeatSave \/ DeathSave \/ StaleSave \/ SpawnSave
      \/ RunNowSave \/ BgAbortSave \/ \E w \in Worker : Start(w) \/ Finish(w)
      \/ \E s \in Job : ShutdownRecord(s) \/ Rebuild(s)
      \/ \E ss \in SUBSET Unattended : Age(ss)
  BY DEF Next, Loop, Sweep, Launch, Boot, Task, Operator, vars, disk, TickBegin, Classify,
         BeatLoad, AskCancel, HardAbort, Drop, Awaited, DeathLoad, DeathCount, DeathAlert,
         DeathPause, StaleBegin, StaleLoad, DrainList, DrainPlan, Drain, Plan, Dispatch,
         SpawnTask, SpawnInsert, Crash, Shutdown, ShutdownDone, BootList, RunNow,
         RunNowSpawn, RunNowInsert, BgAbort, BgAbortLoad, Resume, ResumeSave, Succeed, Fail,
         Alert, AutoPause, Panic, Expire
<1> QED BY <1>1, <1>2, <1>3, <1>4, <1>5, <1>6, <1>7, <1>8

LEMMA SpecStep == ASSUME Typed, [Next]_vars PROVE SpecTyped'
<1> USE DEF Typed
<1>1. CASE UNCHANGED <<spec, runs>>
  BY <1>1 DEF SpecTyped, spec, runs
<1>2. ASSUME NEW w \in Worker, Finish(w) \/ Succeed(w) \/ AutoPause(w) PROVE SpecTyped'
  BY <1>2 DEF Finish, Succeed, AutoPause, SpecTyped, spec, runs
<1>3. CASE DeathPause \/ ResumeSave
  BY <1>3 DEF DeathPause, ResumeSave, SpecTyped, runs
<1>4. CASE Plan
  BY <1>4 DEF Plan, SpecTyped, spec
<1>5. ASSUME NEW s \in Job, Dispatch(s) PROVE SpecTyped'
  BY <1>5 DEF Dispatch, SpecTyped
<1>6. CASE Crash \/ Shutdown
  BY <1>6 DEF Crash, Shutdown, Restart, SpecTyped, spec
<1>7. \/ UNCHANGED <<spec, runs>> \/ DeathPause \/ ResumeSave \/ Plan \/ Crash \/ Shutdown
      \/ \E w \in Worker : Finish(w) \/ Succeed(w) \/ AutoPause(w)
      \/ \E s \in Job : Dispatch(s)
  BY DEF Next, Loop, Sweep, Launch, Boot, Task, Operator, vars, disk, TickBegin, Classify,
         BeatLoad, BeatSave, AskCancel, HardAbort, Drop, Awaited, DeathLoad, DeathSave,
         DeathCount, DeathAlert, StaleBegin, StaleLoad, StaleSave, DrainList, DrainPlan,
         Drain, SpawnSave, SpawnTask, SpawnInsert, ShutdownRecord, ShutdownDone, BootList,
         Rebuild, RunNow, RunNowSave, RunNowSpawn, RunNowInsert, BgAbort, BgAbortLoad,
         BgAbortSave, Resume, Start, Fail, Alert, Panic, Expire, Age
<1> QED BY <1>1, <1>2, <1>3, <1>4, <1>5, <1>6, <1>7

LEMMA RunningStep == ASSUME Typed, [Next]_vars PROVE RunningTyped'
<1> USE DEF Typed
<1>1. CASE UNCHANGED running
  BY <1>1 DEF RunningTyped
<1>2. ASSUME NEW s \in Job, HardAbort(s) \/ Drop(s) \/ BgAbort(s) PROVE RunningTyped'
  BY <1>2 DEF HardAbort, Drop, BgAbort, RunningTyped
<1>3. CASE SpawnInsert \/ RunNowInsert
  BY <1>3 DEF SpawnInsert, RunNowInsert, Insert, RunningTyped, TickTyped, TickShape, OpTyped, OpShape
<1>4. CASE Crash \/ Shutdown
  BY <1>4 DEF Crash, Shutdown, Restart, RunningTyped
<1>5. \/ UNCHANGED running \/ SpawnInsert \/ RunNowInsert \/ Crash \/ Shutdown
      \/ \E s \in Job : HardAbort(s) \/ Drop(s) \/ BgAbort(s)
  BY DEF Next, Loop, Sweep, Launch, Boot, Task, Operator, vars, TickBegin, Classify,
         BeatLoad, BeatSave, AskCancel, Awaited, DeathLoad, DeathSave, DeathCount,
         DeathAlert, DeathPause, StaleBegin, StaleLoad, StaleSave, DrainList, DrainPlan,
         Drain, Plan, Dispatch, SpawnSave, SpawnTask, ShutdownRecord, ShutdownDone,
         BootList, Rebuild, RunNow, RunNowSave, RunNowSpawn, BgAbortLoad, BgAbortSave,
         Resume, ResumeSave, Start, Finish, Succeed, Fail, Alert, AutoPause, Panic,
         Expire, Age
<1> QED BY <1>1, <1>2, <1>3, <1>4, <1>5

LEMMA StreakStep == ASSUME Typed, [Next]_vars PROVE StreakTyped'
<1> USE DEF Typed
<1>1. CASE UNCHANGED streak
  BY <1>1 DEF StreakTyped, streak
<1>2. ASSUME NEW s \in Job, CountSuccess(s) \/ CountFailure(s) \/ (Notify(s) /\ failures' = failures)
      PROVE StreakTyped'
  BY <1>2 DEF CountSuccess, CountFailure, Notify, StreakTyped
<1>3. CASE Crash \/ Shutdown
  BY <1>3 DEF Crash, Shutdown, Restart, StreakTyped
<1>4. ASSUME NEW w \in Worker, Succeed(w) \/ Fail(w) \/ Alert(w) PROVE StreakTyped'
  <2>1. worker[w].spec \in Job
    BY DEF WorkerTyped, WorkerShape
  <2> QED BY <1>4, <1>2, <2>1 DEF Succeed, Fail, Alert
<1>5. CASE DeathCount \/ DeathAlert
  BY <1>5, <1>2 DEF DeathCount, DeathAlert, TickTyped, TickShape
<1>6. ASSUME NEW s \in Job, Resume(s) PROVE StreakTyped'
  BY <1>6, <1>2 DEF Resume
<1>7. \/ UNCHANGED streak \/ Crash \/ Shutdown \/ DeathCount \/ DeathAlert
      \/ \E s \in Job : Resume(s)
      \/ \E w \in Worker : Succeed(w) \/ Fail(w) \/ Alert(w)
  BY DEF Next, Loop, Sweep, Launch, Boot, Task, Operator, vars, TickBegin, Classify,
         BeatLoad, BeatSave, AskCancel, HardAbort, Drop, Awaited, DeathLoad, DeathSave,
         DeathPause, StaleBegin, StaleLoad, StaleSave, DrainList, DrainPlan,
         Drain, Plan, Dispatch, SpawnSave, SpawnTask, SpawnInsert, ShutdownRecord,
         ShutdownDone, BootList, Rebuild, RunNow, RunNowSave, RunNowSpawn, RunNowInsert,
         BgAbort, BgAbortLoad, BgAbortSave, ResumeSave, Start, Finish, AutoPause, Panic,
         Expire, Age
<1> QED BY <1>1, <1>3, <1>4, <1>5, <1>6, <1>7

-----------------------------------------------------------------------------
LEMMA PolicyKinds == \A s \in Job : Policy(s) \in {"pause", "alert", "quiet"}
BY DEF Policy

LEMMA CanSpawnFree == CanSpawn => NextFree \in Worker /\ worker[NextFree].pc = "free"
BY DEF CanSpawn, NextFree

LEMMA EndTyped ==
    ASSUME WorkerTyped, NEW w \in Worker, NEW how \in Ended, End(w, how) PROVE WorkerTyped'
BY Blank DEF WorkerTyped, WorkerShape, End, Clock

LEMMA GotoTyped ==
    ASSUME WorkerTyped, NEW w \in Worker, NEW pc \in Live, Goto(w, pc) PROVE WorkerTyped'
BY DEF WorkerTyped, WorkerShape, Goto

LEMMA KillTyped == ASSUME WorkerTyped, NEW ws, Kill(ws) PROVE WorkerTyped'
BY Blank DEF WorkerTyped, Kill

LEMMA SpawnTyped ==
    ASSUME WorkerTyped, CanSpawn, NEW s \in Job, NEW n \in 0..MaxAttempt,
           NEW by \in {"tick", "operator"}, Spawn(s, n, by)
    PROVE  WorkerTyped'
<1>1. [pc |-> "born", spec |-> s, attempt |-> n, clock |-> "fresh", by |-> by] \in WorkerShape
  BY DEF WorkerShape, Live, Clock
<1> QED BY <1>1 DEF WorkerTyped, Spawn

LEMMA InsertTyped ==
    ASSUME WorkerTyped, NEW s \in Job, NEW w, Insert(s, w) PROVE WorkerTyped'
BY Blank DEF WorkerTyped, Insert

LEMMA WorkerStep == ASSUME Typed, [Next]_vars PROVE WorkerTyped'
<1> USE DEF Typed
<1>1. CASE UNCHANGED worker
  BY <1>1 DEF WorkerTyped
<1>2. ASSUME NEW w \in Worker, Start(w) \/ Finish(w) PROVE WorkerTyped'
  BY <1>2, GotoTyped DEF Start, Finish, Live
<1>3. ASSUME NEW w \in Worker, Succeed(w) \/ Alert(w) \/ AutoPause(w) \/ Panic(w)
      PROVE WorkerTyped'
  BY <1>3, EndTyped DEF Succeed, Alert, AutoPause, Panic, Ended
<1>4. ASSUME NEW w \in Worker, Fail(w) PROVE WorkerTyped'
  <2>1. worker[w].spec \in Job
    BY DEF WorkerTyped, WorkerShape
  <2> QED BY <1>4, <2>1, EndTyped, GotoTyped, PolicyKinds DEF Fail, Live, Ended
<1>5. ASSUME NEW w \in Worker, Expire(w) PROVE WorkerTyped'
  BY <1>5 DEF Expire, WorkerTyped, WorkerShape, Clock
<1>6. ASSUME NEW s \in Job, HardAbort(s) \/ Drop(s) \/ BgAbort(s) PROVE WorkerTyped'
  <2>1. UNCHANGED worker \/ \E ws : Kill(ws)
    BY <1>6 DEF HardAbort, Drop, BgAbort
  <2> QED BY <1>1, <2>1, KillTyped
<1>7. CASE AskCancel
  BY <1>7 DEF AskCancel, WorkerTyped, WorkerShape, Clock
<1>8. CASE Awaited
  BY <1>8, KillTyped DEF Awaited
<1>9. CASE SpawnTask
  BY <1>9, SpawnTyped, Records DEF SpawnTask, TickTyped, TickShape
<1>10. CASE RunNowSpawn
  BY <1>10, SpawnTyped, CapIsPositive DEF RunNowSpawn, OpTyped, OpShape
<1>11. CASE SpawnInsert \/ RunNowInsert
  BY <1>11, InsertTyped DEF SpawnInsert, RunNowInsert, TickTyped, TickShape, OpTyped, OpShape
<1>12. CASE Crash \/ Shutdown
  BY <1>12, Blank DEF Crash, Shutdown, Restart, WorkerTyped
<1>13. \/ UNCHANGED worker \/ AskCancel \/ Awaited \/ SpawnTask \/ RunNowSpawn
       \/ SpawnInsert \/ RunNowInsert \/ Crash \/ Shutdown
       \/ \E w \in Worker : \/ Start(w) \/ Finish(w) \/ Succeed(w) \/ Fail(w) \/ Alert(w)
                            \/ AutoPause(w) \/ Panic(w) \/ Expire(w)
       \/ \E s \in Job : HardAbort(s) \/ Drop(s) \/ BgAbort(s)
  BY DEF Next, Loop, Sweep, Launch, Boot, Task, Operator, vars, TickBegin, Classify,
         BeatLoad, BeatSave, DeathLoad, DeathSave, DeathCount, DeathAlert, DeathPause,
         StaleBegin, StaleLoad, StaleSave, DrainList, DrainPlan, Drain, Plan, Dispatch,
         SpawnSave, ShutdownRecord, ShutdownDone, BootList, Rebuild, RunNow, RunNowSave,
         BgAbortLoad, BgAbortSave, Resume, ResumeSave, Age
<1> QED BY <1>1, <1>2, <1>3, <1>4, <1>5, <1>6, <1>7, <1>8, <1>9, <1>10, <1>11, <1>12, <1>13

LEMMA OpStep == ASSUME Typed, [Next]_vars PROVE OpTyped'
<1> USE DEF Typed
<1>1. CASE UNCHANGED op
  BY <1>1 DEF OpTyped
<1>2. ASSUME NEW s \in Job, RunNow(s) \/ BgAbort(s) \/ Resume(s) PROVE OpTyped'
  BY <1>2 DEF RunNow, BgAbort, Resume, OpTyped, OpShape
<1>3. CASE RunNowSave
  BY <1>3 DEF RunNowSave, OpTyped, OpShape
<1>4. CASE RunNowSpawn
  BY <1>4, CanSpawnFree DEF RunNowSpawn, OpTyped, OpShape
<1>5. CASE BgAbortLoad
  <2>1. MarkFailed(ledger[op.id]) \in Capped
    BY Records DEF LedgerTyped, OpTyped, OpShape
  <2> QED BY <1>5, <2>1, Blank DEF BgAbortLoad, OpTyped, OpShape
<1>6. CASE RunNowInsert \/ BgAbortSave \/ ResumeSave \/ Crash \/ Shutdown
  BY <1>6, Blank DEF RunNowInsert, BgAbortSave, ResumeSave, Crash, Shutdown, Restart, OpTyped
<1>7. \/ UNCHANGED op \/ RunNowSave \/ RunNowSpawn \/ BgAbortLoad
      \/ RunNowInsert \/ BgAbortSave \/ ResumeSave \/ Crash \/ Shutdown
      \/ \E s \in Job : RunNow(s) \/ BgAbort(s) \/ Resume(s)
  BY DEF Next, Loop, Sweep, Launch, Boot, Task, Operator, vars, TickBegin, Classify,
         BeatLoad, BeatSave, AskCancel, HardAbort, Drop, Awaited, DeathLoad, DeathSave,
         DeathCount, DeathAlert, DeathPause, StaleBegin, StaleLoad, StaleSave, DrainList,
         DrainPlan, Drain, Plan, Dispatch, SpawnSave, SpawnTask, SpawnInsert,
         ShutdownRecord, ShutdownDone, BootList, Rebuild, Start, Finish, Succeed, Fail,
         Alert, AutoPause, Panic, Expire, Age
<1> QED BY <1>1, <1>2, <1>3, <1>4, <1>5, <1>6, <1>7

LEMMA CountStep == ASSUME Typed, [Next]_vars PROVE CountTyped'
<1> USE DEF Typed
<1>1. CASE UNCHANGED <<bounds, ghost>>
  BY <1>1 DEF CountTyped, bounds, ghost
<1>2. ASSUME NEW w \in Worker, Panic(w) PROVE CountTyped'
  BY <1>2 DEF Panic, CountTyped, bounds, WorkerTyped, WorkerShape
<1>3. ASSUME NEW s \in Job, HardAbort(s) PROVE CountTyped'
  BY <1>3 DEF HardAbort, CountTyped, bounds
<1>4. ASSUME NEW s \in Job, Dispatch(s) PROVE CountTyped'
  <2>1. fired' \in [Job -> 0..2]
    BY <1>4 DEF Dispatch, CountTyped
  <2> QED BY <1>4, <2>1 DEF Dispatch, CountTyped, bounds
<1>5. CASE DeathCount
  BY <1>5 DEF DeathCount, CountTyped, bounds
<1>6. ASSUME NEW s \in Job, RunNow(s) \/ BgAbort(s) \/ Resume(s) PROVE CountTyped'
  BY <1>6, ConfigAssumption DEF RunNow, BgAbort, Resume, Command, CountTyped, ghost
<1>7. CASE Crash \/ Shutdown
  BY <1>7, ConfigAssumption DEF Crash, Shutdown, Restart, CountTyped
<1>8. \/ UNCHANGED <<bounds, ghost>> \/ DeathCount \/ Crash \/ Shutdown
      \/ \E w \in Worker : Panic(w)
      \/ \E s \in Job : HardAbort(s) \/ Dispatch(s) \/ RunNow(s) \/ BgAbort(s) \/ Resume(s)
  BY DEF Next, Loop, Sweep, Launch, Boot, Task, Operator, vars, TickBegin, Classify,
         BeatLoad, BeatSave, AskCancel, Drop, Awaited, DeathLoad, DeathSave,
         DeathAlert, DeathPause, StaleBegin, StaleLoad, StaleSave, DrainList,
         DrainPlan, Drain, Plan, SpawnSave, SpawnTask, SpawnInsert,
         ShutdownRecord, ShutdownDone, BootList, Rebuild, RunNowSave, RunNowSpawn,
         RunNowInsert, BgAbortLoad, BgAbortSave, ResumeSave, Start, Finish, Succeed, Fail,
         Alert, AutoPause, Expire, Age
<1> QED BY <1>1, <1>2, <1>3, <1>4, <1>5, <1>6, <1>7, <1>8

-----------------------------------------------------------------------------
LEMMA BackTyped == \A t \in TickShape : \A pc \in TickPc : Back(t, pc) \in TickShape
<1> SUFFICES ASSUME NEW t \in TickShape, NEW pc \in TickPc PROVE Back(t, pc) \in TickShape
  OBVIOUS
<1>1. Quiet.id \in Job /\ NoRecord \in Capped
  BY Blank, Records DEF TickShape
<1> QED BY <1>1 DEF Back, TickShape

LEMMA SweepTyped == ASSUME Typed, Sweep PROVE TickTyped'
<1> USE DEF Typed
<1>1. CASE Classify
  BY <1>1 DEF Classify, TickTyped, TickShape, TickPc, Jobs, Tracked
<1>2. ASSUME NEW s \in Job, BeatLoad(s) PROVE TickTyped'
  <2> DEFINE t == [tick EXCEPT !.jobs.beat = @ \ {s}]
  <2>1. t \in TickShape
    BY DEF TickTyped, TickShape, Jobs
  <2>2. \/ tick' = t
        \/ tick' = [t EXCEPT !.pc = "beatsave", !.id = s, !.held = ledger[s]]
    BY <1>2 DEF BeatLoad, TickTyped, TickShape
  <2>3. ledger[s] \in Capped
    BY DEF LedgerTyped
  <2> HIDE DEF t
  <2> QED BY <2>1, <2>2, <2>3 DEF TickTyped, TickShape, TickPc
<1>3. CASE BeatSave \/ StaleSave \/ DeathAlert \/ DeathPause
  BY <1>3, BackTyped DEF BeatSave, StaleSave, DeathAlert, DeathPause, TickTyped, TickPc
<1>4. CASE AskCancel
  BY <1>4 DEF AskCancel, TickTyped, TickShape, Jobs
<1>5. ASSUME NEW s \in Job, HardAbort(s) PROVE TickTyped'
  BY <1>5 DEF HardAbort, TickTyped, TickShape, TickPc, Jobs
<1>6. ASSUME NEW s \in Job, Drop(s) PROVE TickTyped'
  <2> DEFINE t == [tick EXCEPT !.jobs.drop = @ \ {s}]
  <2>1. t \in TickShape
    BY DEF TickTyped, TickShape, Jobs
  <2>2. \/ tick' = t
        \/ \E pc \in {"sweep", "death", "await"}, id \in {t.id, s}, new \in {NoWorker, running[s]} :
             tick' = [t EXCEPT !.pc = pc, !.id = id, !.new = new]
    BY <1>6 DEF Drop, TickTyped, TickShape
  <2>3. running[s] \in Worker \cup {NoWorker} /\ t.id \in Job
    BY DEF RunningTyped, TickTyped, TickShape
  <2> HIDE DEF t
  <2>4. ASSUME NEW pc \in {"sweep", "death", "await"}, NEW id \in Job, NEW new \in Worker \cup {NoWorker}
        PROVE  [t EXCEPT !.pc = pc, !.id = id, !.new = new] \in TickShape
    BY <2>1 DEF TickShape, TickPc
  <2>5. CASE tick' = t
    BY <2>5, <2>1 DEF TickTyped
  <2>6. CASE tick' # t
    <3>1. PICK pc \in {"sweep", "death", "await"}, id \in {t.id, s}, new \in {NoWorker, running[s]} :
             tick' = [t EXCEPT !.pc = pc, !.id = id, !.new = new]
      BY <2>2, <2>6
    <3>2. id \in Job /\ new \in Worker \cup {NoWorker}
      BY <2>3
    <3> QED BY <3>1, <3>2, <2>4 DEF TickTyped
  <2> QED BY <2>5, <2>6
<1>7. CASE Awaited
  <2>1. Back(tick, "sweep") \in TickShape
    BY BackTyped DEF TickTyped, TickPc
  <2>2. [tick EXCEPT !.pc = "death", !.new = NoWorker] \in TickShape
    BY DEF TickTyped, TickShape, TickPc
  <2> QED BY <1>7, <2>1, <2>2 DEF Awaited, TickTyped
<1>8. CASE DeathLoad
  <2>1. MarkFailed(ledger[tick.id]) \in Capped
    BY Records DEF LedgerTyped, TickTyped, TickShape
  <2> QED BY <1>8, <2>1 DEF DeathLoad, TickTyped, TickShape, TickPc
<1>9. CASE DeathSave
  BY <1>9, Records DEF DeathSave, TickTyped, TickShape, TickPc
<1>10. CASE DeathCount
  <2>1. Policy(tick.id) \in {"pause", "alert", "quiet"}
    BY PolicyKinds DEF TickTyped, TickShape
  <2> QED BY <1>10, <2>1, BackTyped DEF DeathCount, TickTyped, TickShape, TickPc
<1>11. CASE StaleBegin
  BY <1>11 DEF StaleBegin, TickTyped, TickShape, TickPc
<1>12. ASSUME NEW s \in Job, StaleLoad(s) PROVE TickTyped'
  <2>1. MarkFailed(ledger[s]) \in Capped
    BY Records DEF LedgerTyped
  <2>2. \/ tick' = [tick EXCEPT !.todo = @ \ {s}]
        \/ tick' = [tick EXCEPT !.todo = @ \ {s}, !.pc = "stalesave", !.id = s,
                                !.held = MarkFailed(ledger[s])]
    BY <1>12 DEF StaleLoad, TickTyped, TickShape
  <2> QED BY <2>1, <2>2 DEF TickTyped, TickShape, TickPc
<1> QED BY <1>1, <1>2, <1>3, <1>4, <1>5, <1>6, <1>7, <1>8, <1>9, <1>10, <1>11, <1>12 DEF Sweep

LEMMA ToSpawnTyped ==
    ASSUME NEW t \in TickShape, NEW s \in Job, NEW n \in 0..MaxAttempt, NEW next \in {"drain", "dispatch"}
    PROVE  ToSpawn(t, s, n, next) \in TickShape
BY Records DEF ToSpawn, TickShape, TickPc

LEMMA LaunchTyped == ASSUME Typed, Launch PROVE TickTyped'
<1> USE DEF Typed
<1>1. CASE DrainList
  BY <1>1 DEF DrainList, TickTyped, TickShape, TickPc, LedgerTyped
<1>2. CASE DrainPlan
  <2>1. PICK picks \in SUBSET Job :
          tick' = [tick EXCEPT !.pc = "drain", !.todo = picks, !.seen =
                     [s \in Job |-> IF s \in picks THEN @[s] ELSE NoRecord]]
    BY <1>2 DEF DrainPlan
  <2>2. [s \in Job |-> IF s \in picks THEN tick.seen[s] ELSE NoRecord] \in [Job -> Capped]
    BY Records DEF TickTyped, TickShape
  <2> QED BY <2>1, <2>2 DEF TickTyped, TickShape, TickPc
<1>3. CASE Plan
  <2>1. PICK picks \in SUBSET Job :
          tick' = IF picks = {} THEN Quiet ELSE [Quiet EXCEPT !.pc = "dispatch", !.todo = picks]
    BY <1>3 DEF Plan
  <2> QED BY <2>1, Blank DEF TickTyped, TickShape, TickPc
<1>4. CASE SpawnSave
  BY <1>4 DEF SpawnSave, TickTyped, TickShape, TickPc
<1>5. CASE SpawnTask
  BY <1>5, CanSpawnFree, Records DEF SpawnTask, TickTyped, TickShape, TickPc
<1>6. CASE SpawnInsert
  <2>1. tick.next \in TickPc
    BY DEF TickTyped, TickShape, TickPc
  <2> QED BY <1>6, <2>1, Blank, BackTyped DEF SpawnInsert, TickTyped
<1>7. ASSUME NEW s \in Job, Drain(s) PROVE TickTyped'
  <2>1. tick.seen[s].attempt \in 0..MaxAttempt
    BY Records DEF TickTyped, TickShape
  <2>2. [tick EXCEPT !.todo = @ \ {s}, !.seen[s] = NoRecord] \in TickShape
    BY Records DEF TickTyped, TickShape
  <2> QED BY <1>7, <2>1, <2>2, ToSpawnTyped DEF Drain, TickTyped
<1>8. ASSUME NEW s \in Job, Dispatch(s) PROVE TickTyped'
  BY <1>8, CapIsPositive, ToSpawnTyped DEF Dispatch, TickTyped
<1> QED BY <1>1, <1>2, <1>3, <1>4, <1>5, <1>6, <1>7, <1>8 DEF Launch

LEMMA BootTyped == ASSUME Typed, Boot \/ Crash \/ Shutdown \/ TickBegin PROVE TickTyped'
<1> USE DEF Typed
<1>1. CASE Crash \/ Shutdown
  BY <1>1, Blank DEF Crash, Shutdown, Tracked, TickTyped, TickShape, TickPc
<1>2. CASE TickBegin
  BY <1>2 DEF TickBegin, TickTyped, TickShape, TickPc
<1>6. CASE ShutdownDone
  BY <1>6 DEF ShutdownDone, TickTyped, TickShape, TickPc
<1>3. ASSUME NEW s \in Job, ShutdownRecord(s) PROVE TickTyped'
  BY <1>3 DEF ShutdownRecord, TickTyped, TickShape
<1>4. CASE BootList
  <2> DEFINE left == {s \in Job : NonTerminal(ledger[s])}
             seen == [s \in Job |-> IF s \in left THEN ledger[s] ELSE NoRecord]
  <2>1. seen \in [Job -> Capped]
    BY Records DEF LedgerTyped
  <2>2. tick' = Quiet \/ tick' = [tick EXCEPT !.pc = "rebuild", !.todo = left, !.seen = seen]
    BY <1>4 DEF BootList
  <2>3. left \in SUBSET Job
    OBVIOUS
  <2> HIDE DEF left, seen
  <2> QED BY <2>1, <2>2, <2>3, Blank DEF TickTyped, TickShape, TickPc
<1>5. ASSUME NEW s \in Job, Rebuild(s) PROVE TickTyped'
  BY <1>5, Blank, Records DEF Rebuild, TickTyped, TickShape
<1> QED BY <1>1, <1>2, <1>3, <1>4, <1>5, <1>6 DEF Boot

LEMMA TypedStep == ASSUME Typed, [Next]_vars PROVE Typed'
<1>1. TickTyped'
  <2>1. CASE UNCHANGED tick
    BY <2>1 DEF Typed, TickTyped
  <2>2. \/ UNCHANGED tick \/ Sweep \/ Launch \/ Boot \/ Crash \/ Shutdown \/ TickBegin
    BY DEF Next, Loop, Task, Operator, vars, RunNow, RunNowSave, RunNowSpawn, RunNowInsert,
           BgAbort, BgAbortLoad, BgAbortSave, Resume, ResumeSave, Start, Finish, Succeed,
           Fail, Alert, AutoPause, Panic, Expire, Age
  <2> QED BY <2>1, <2>2, SweepTyped, LaunchTyped, BootTyped
<1> QED BY <1>1, LedgerStep, SpecStep, RunningStep, StreakStep, WorkerStep, OpStep, CountStep
        DEF Typed

LEMMA Types == Spec => []Typed
BY InitTyped, TypedStep, PTL DEF Spec

\* Types, and no chain of resurrections passes its cap in the ledger: of every
\* behaviour, with crashes and operators.
THEOREM TypeCorrect == Spec => []TypeOK
BY Types, TypedMeansTypeOK, PTL

-----------------------------------------------------------------------------
(* Who holds whom: a handle points at a task of its own spec, and the loop  *)
(* and the operator each hold at most the one they are about to insert.    *)

Handles ==
    /\ \A s \in Job : running[s] # NoWorker =>
         /\ worker[running[s]].pc # "free" /\ worker[running[s]].spec = s
         /\ running[s] # tick.new /\ running[s] # op.new
    /\ tick.new # NoWorker =>
         /\ tick.pc \in {"insert", "await"} /\ tick.new # op.new
         /\ worker[tick.new].pc # "free" /\ worker[tick.new].spec = tick.id
    /\ op.new # NoWorker =>
         /\ op.pc = "insert" /\ worker[op.new].pc # "free" /\ worker[op.new].spec = op.id
    /\ tick.pc \in {"insert", "await"} => tick.new # NoWorker
    /\ op.pc = "insert" => op.new # NoWorker /\ worker[op.new].by = "operator"
    /\ tick.pc = "insert" => worker[tick.new].by = "tick"

LEMMA InitHandles == Init => Handles
BY DEF Init, Handles, Quiet, NoOp

\* A task keeps its spec and its maker, and a held one is not forgotten.
WorkersKept == \A w \in Worker :
    /\ worker'[w].pc # "free" => /\ worker[w].pc # "free"
                                 /\ worker'[w].spec = worker[w].spec /\ worker'[w].by = worker[w].by
    /\ Held(w) /\ worker[w].pc # "free" => worker'[w].pc # "free"

LEMMA EndKeeps ==
    ASSUME WorkerTyped, NEW w \in Worker, NEW how \in Ended, worker[w].pc # "free", End(w, how)
    PROVE  WorkersKept
BY Blank DEF WorkerTyped, WorkerShape, End, WorkersKept, Ended

LEMMA GotoKeeps ==
    ASSUME WorkerTyped, NEW w \in Worker, NEW pc \in Live, worker[w].pc # "free", Goto(w, pc)
    PROVE  WorkersKept
BY DEF WorkerTyped, WorkerShape, Goto, WorkersKept, Live

LEMMA TaskKeeps == ASSUME Typed, NEW w \in Worker, Task(w) \/ Expire(w)
                   PROVE  WorkersKept /\ UNCHANGED <<running, tick, op>>
<1> USE DEF Typed
<1>1. CASE Start(w) \/ Finish(w)
  BY <1>1, GotoKeeps DEF Start, Finish, Live
<1>2. CASE Succeed(w) \/ Alert(w) \/ AutoPause(w) \/ Panic(w)
  BY <1>2, EndKeeps DEF Succeed, Alert, AutoPause, Panic, Ended
<1>3. CASE Fail(w)
  <2>1. worker[w].spec \in Job
    BY DEF WorkerTyped, WorkerShape
  <2> QED BY <1>3, <2>1, EndKeeps, GotoKeeps, PolicyKinds DEF Fail, Live, Ended
<1>4. CASE Expire(w)
  BY <1>4 DEF Expire, WorkersKept, WorkerTyped, WorkerShape
<1> QED BY <1>1, <1>2, <1>3, <1>4 DEF Task

LEMMA KeptHandles ==
    ASSUME Typed, Handles, WorkersKept, UNCHANGED <<running, tick, op>> PROVE Handles'
<1>1. /\ \A s \in Job : running[s] \in Worker \cup {NoWorker}
      /\ tick.new \in Worker \cup {NoWorker} /\ op.new \in Worker \cup {NoWorker}
  BY DEF Typed, RunningTyped, TickTyped, TickShape, OpTyped, OpShape
<1> QED BY <1>1 DEF Handles, WorkersKept, Held

\* Steps of the loop at which it neither takes nor gives a handle.
NoHandOver == /\ tick.pc \notin {"insert", "await"} /\ tick'.pc \notin {"insert", "await"}
              /\ tick'.new \in {tick.new, NoWorker}

LEMMA LoopKeeps ==
    ASSUME Typed, Loop,
           ~Awaited, ~SpawnTask, ~SpawnInsert, \A s \in Job : ~Drop(s)
    PROVE  NoHandOver
<1> USE DEF Typed
<1>1. CASE TickBegin \/ Classify \/ BeatSave \/ AskCancel \/ DeathLoad \/ DeathSave
           \/ DeathAlert \/ DeathPause \/ StaleBegin \/ StaleSave
  BY <1>1 DEF TickBegin, Classify, BeatSave, AskCancel, DeathLoad, DeathSave,
         DeathAlert, DeathPause, StaleBegin, StaleSave, Beaten, Back, NoHandOver, TickTyped, TickShape
<1>2. CASE DeathCount
  <2>1. Policy(tick.id) \in {"pause", "alert", "quiet"}
    BY PolicyKinds DEF TickTyped, TickShape
  <2> QED BY <1>2, <2>1 DEF DeathCount, Back, NoHandOver, TickTyped, TickShape
<1>3. CASE DrainList \/ DrainPlan \/ SpawnSave \/ ShutdownDone
  BY <1>3 DEF DrainList, DrainPlan, SpawnSave, ShutdownDone, NoHandOver, TickTyped, TickShape
<1>4. CASE Plan
  <2>1. /\ tick.pc = "drain"
        /\ \E picks \in SUBSET Job :
             tick' = IF picks = {} THEN Quiet ELSE [Quiet EXCEPT !.pc = "dispatch", !.todo = picks]
    BY <1>4 DEF Plan
  <2> QED BY <2>1, Blank DEF NoHandOver, TickShape
<1>9. CASE BootList
  BY <1>9, Blank DEF BootList, NoHandOver, TickTyped, TickShape
<1>5. ASSUME NEW s \in Job, BeatLoad(s) \/ HardAbort(s) \/ StaleLoad(s) PROVE NoHandOver
  BY <1>5 DEF BeatLoad, HardAbort, StaleLoad, Beaten, NoHandOver, TickTyped, TickShape
<1>6. ASSUME NEW s \in Job, Drain(s) \/ Dispatch(s) PROVE NoHandOver
  BY <1>6 DEF Drain, Dispatch, ToSpawn, NoHandOver, TickTyped, TickShape
<1>7. ASSUME NEW s \in Job, ShutdownRecord(s) \/ Rebuild(s) PROVE NoHandOver
  BY <1>7, Blank DEF ShutdownRecord, Rebuild, NoHandOver, TickTyped, TickShape
<1> QED BY <1>1, <1>2, <1>3, <1>4, <1>5, <1>6, <1>7, <1>9 DEF Loop, Sweep, Launch, Boot

LEMMA HandlesStep == ASSUME Typed, Handles, [Next]_vars PROVE Handles'
<1> USE DEF Typed
<1>0. /\ \A s \in Job : running[s] \in Worker \cup {NoWorker}
      /\ tick.new \in Worker \cup {NoWorker} /\ op.new \in Worker \cup {NoWorker}
      /\ tick.id \in Job /\ op.id \in Job
  BY DEF RunningTyped, TickTyped, TickShape, OpTyped, OpShape
\* The loop where no handle changes hands.
<1>1. ASSUME NoHandOver, UNCHANGED <<running, worker, op>> PROVE Handles'
  BY <1>1 DEF Handles, NoHandOver
<1>2. CASE AskCancel
  <2>1. WorkersKept /\ \A w \in Worker : worker[w].pc # "free" => worker'[w].pc # "free"
    BY <1>2 DEF AskCancel, WorkersKept, WorkerTyped, WorkerShape
  <2>2. NoHandOver /\ UNCHANGED <<running, op>>
    BY <1>2, LoopKeeps DEF Loop, Sweep, AskCancel, Awaited, SpawnTask, SpawnInsert, Drop, Dropping, Beaten
  <2> QED BY <2>1, <2>2, <1>0 DEF Handles, NoHandOver, WorkersKept
\* One handle goes with its task.
<1>3. ASSUME NEW s \in Job, HardAbort(s) PROVE Handles'
  <2>1. NoHandOver
    BY <1>3 DEF HardAbort, Beaten, NoHandOver, TickTyped, TickShape
  <2>2. UNCHANGED op /\ running' = [running EXCEPT ![s] = NoWorker] /\ Kill({running[s]})
    BY <1>3 DEF HardAbort
  <2> QED BY <2>1, <2>2, <1>0 DEF Handles, NoHandOver, Kill, RunningTyped
<1>4. ASSUME NEW s \in Job, BgAbort(s) PROVE Handles'
  <2>1. UNCHANGED tick /\ running' = [running EXCEPT ![s] = NoWorker] /\ Kill({running[s]})
    BY <1>4 DEF BgAbort
  <2>2. op'.pc = "load" /\ op'.new = op.new /\ op.new = NoWorker
    BY <1>4 DEF BgAbort, Command, OpTyped, OpShape, Handles
  <2> QED BY <2>1, <2>2, <1>0 DEF Handles, Kill, RunningTyped
<1>5. ASSUME NEW s \in Job, Drop(s) PROVE Handles'
  <2>1. tick.pc = "sweep" /\ tick.new = NoWorker /\ UNCHANGED op /\ running' = [running EXCEPT ![s] = NoWorker]
    BY <1>5 DEF Drop, Dropping, Beaten, Handles
  <2>2. CASE running[s] = NoWorker \/ worker[running[s]].pc \in Ended
    <3>1. Kill({running[s]} \ {NoWorker}) \/ (running[s] = NoWorker /\ UNCHANGED worker)
      BY <1>5, <2>2, ConfigAssumption DEF Drop, Kill
    <3>2. tick'.pc \in {"sweep", "death"} /\ tick'.new = NoWorker
      BY <1>5, <2>1, <2>2 DEF Drop, TickTyped, TickShape, Ended
    <3> QED BY <2>1, <3>1, <3>2, <1>0 DEF Handles, Kill, RunningTyped
  <2>3. CASE running[s] # NoWorker /\ worker[running[s]].pc \notin Ended
    <3>1. tick'.pc = "await" /\ tick'.new = running[s] /\ tick'.id = s
      BY <1>5, <2>3 DEF Drop, TickTyped, TickShape, Ended
    <3>2. \A w \in Worker : worker'[w] = worker[w]
      BY <1>5, <2>3 DEF Drop, Kill
    <3> QED BY <2>1, <2>3, <3>1, <3>2, <1>0 DEF Handles, RunningTyped
  <2> QED BY <2>2, <2>3
<1>6. CASE Awaited
  <2>1. tick.pc = "await" /\ UNCHANGED <<running, op>> /\ Kill({tick.new})
    BY <1>6 DEF Awaited
  <2>2. tick'.pc \in {"sweep", "death"} /\ tick'.new = NoWorker
    BY <1>6 DEF Awaited, Back, TickTyped, TickShape
  <2> QED BY <2>1, <2>2, <1>0 DEF Handles, Kill
\* A task is made, and then takes the place of whatever handle its spec had.
<1>7. CASE SpawnTask
  <2> DEFINE w == NextFree
  <2>1. w \in Worker /\ worker[w].pc = "free"
    BY <1>7, CanSpawnFree DEF SpawnTask
  <2>2. /\ tick.pc = "spawn" /\ UNCHANGED <<running, op>>
        /\ tick'.pc = "insert" /\ tick'.id = tick.id /\ tick'.new = w
    BY <1>7 DEF SpawnTask, TickTyped, TickShape
  <2>3. /\ worker'[w].pc = "born" /\ worker'[w].spec = tick.id /\ worker'[w].by = "tick"
        /\ \A v \in Worker \ {w} : worker'[v] = worker[v]
    BY <1>7, <2>1 DEF SpawnTask, Spawn, WorkerTyped
  <2> HIDE DEF w
  <2> QED BY <2>1, <2>2, <2>3, <1>0, ConfigAssumption DEF Handles
<1>8. CASE RunNowSpawn
  <2> DEFINE w == NextFree
  <2>1. w \in Worker /\ worker[w].pc = "free"
    BY <1>8, CanSpawnFree DEF RunNowSpawn
  <2>2. /\ op.pc = "spawn" /\ UNCHANGED <<running, tick>>
        /\ op'.pc = "insert" /\ op'.id = op.id /\ op'.new = w
    BY <1>8 DEF RunNowSpawn, OpTyped, OpShape
  <2>3. /\ worker'[w].pc = "born" /\ worker'[w].spec = op.id /\ worker'[w].by = "operator"
        /\ \A v \in Worker \ {w} : worker'[v] = worker[v]
    BY <1>8, <2>1 DEF RunNowSpawn, Spawn, WorkerTyped
  <2> HIDE DEF w
  <2> QED BY <2>1, <2>2, <2>3, <1>0, ConfigAssumption DEF Handles
<1>9. ASSUME NEW s \in Job, NEW w \in Worker, worker[w].pc # "free", worker[w].spec = s,
             Insert(s, w), \A t \in Job : running[t] # w
      PROVE  /\ running' = [running EXCEPT ![s] = w]
             /\ \A v \in Worker : v # running[s] => worker'[v] = worker[v]
  BY <1>9 DEF Insert
<1>10. CASE SpawnInsert
  <2>1. tick.pc = "insert" /\ UNCHANGED op /\ Insert(tick.id, tick.new)
    BY <1>10 DEF SpawnInsert
  <2>2. tick'.pc \in {"idle", "drain", "dispatch"} /\ tick'.new = NoWorker
    BY <1>10, Blank DEF SpawnInsert, Back, TickTyped, TickShape
  <2>3. /\ running' = [running EXCEPT ![tick.id] = tick.new]
        /\ \A v \in Worker : v # running[tick.id] => worker'[v] = worker[v]
    BY <2>1, <1>0, <1>9 DEF Handles
  <2> QED BY <2>1, <2>2, <2>3, <1>0 DEF Handles, RunningTyped
<1>11. CASE RunNowInsert
  <2>1. op.pc = "insert" /\ UNCHANGED tick /\ Insert(op.id, op.new)
    BY <1>11 DEF RunNowInsert
  <2>2. op'.pc = "idle" /\ op'.new = NoWorker
    BY <1>11, Blank DEF RunNowInsert
  <2>3. /\ running' = [running EXCEPT ![op.id] = op.new]
        /\ \A v \in Worker : v # running[op.id] => worker'[v] = worker[v]
    BY <2>1, <1>0, <1>9 DEF Handles
  <2> QED BY <2>1, <2>2, <2>3, <1>0 DEF Handles, RunningTyped
<1>12. CASE RunNowSave \/ BgAbortLoad \/ BgAbortSave \/ ResumeSave
  <2>1. op.pc # "insert" /\ op'.pc # "insert" /\ op'.new = NoWorker
    BY <1>12, Blank DEF RunNowSave, BgAbortLoad, BgAbortSave, ResumeSave, Handles, OpTyped, OpShape
  <2>2. UNCHANGED <<running, worker, tick>>
    BY <1>12 DEF RunNowSave, BgAbortLoad, BgAbortSave, ResumeSave
  <2> QED BY <2>1, <2>2 DEF Handles
<1>13. ASSUME NEW s \in Job, RunNow(s) \/ Resume(s) PROVE Handles'
  <2>1. op.pc # "insert" /\ op'.pc # "insert" /\ op'.new = NoWorker
    BY <1>13 DEF RunNow, Resume, Command, Handles, OpTyped, OpShape
  <2>2. UNCHANGED <<running, worker, tick>>
    BY <1>13 DEF RunNow, Resume
  <2> QED BY <2>1, <2>2 DEF Handles
<1>14. CASE Crash \/ Shutdown
  <2>1. tick'.pc \in {"boot", "shutdown"} /\ tick'.new = NoWorker
    BY <1>14, Blank DEF Crash, Shutdown, TickShape
  <2>2. op'.pc = "idle" /\ op'.new = NoWorker /\ \A s \in Job : running'[s] = NoWorker
    BY <1>14, Blank DEF Crash, Shutdown, Restart
  <2> QED BY <2>1, <2>2 DEF Handles
<1>15. CASE UNCHANGED <<running, worker, tick, op>>
  BY <1>15 DEF Handles
<1>16. \/ UNCHANGED <<running, worker, tick, op>> \/ AskCancel \/ Awaited \/ SpawnTask \/ SpawnInsert
       \/ RunNowSave \/ RunNowSpawn \/ RunNowInsert \/ BgAbortLoad \/ BgAbortSave \/ ResumeSave
       \/ Crash \/ Shutdown \/ Loop
       \/ \E w \in Worker : Task(w) \/ Expire(w)
       \/ \E s \in Job : HardAbort(s) \/ BgAbort(s) \/ Drop(s) \/ RunNow(s) \/ Resume(s)
  BY DEF Next, Operator, vars, Age
<1>17. CASE Loop
  <2>1. \/ UNCHANGED <<running, worker, op>> \/ AskCancel \/ Awaited \/ SpawnTask \/ SpawnInsert
        \/ \E s \in Job : HardAbort(s) \/ Drop(s)
    BY <1>17 DEF Loop, Sweep, Launch, Boot, TickBegin, Classify, BeatLoad, BeatSave,
         DeathLoad, DeathSave, DeathCount, DeathAlert, DeathPause, StaleBegin,
         StaleLoad, StaleSave, DrainList, DrainPlan, Drain, Plan, Dispatch, SpawnSave,
         ShutdownRecord, ShutdownDone, BootList, Rebuild
  <2> QED BY <1>17, <2>1, <1>1, <1>2, <1>3, <1>5, <1>6, <1>7, <1>10, LoopKeeps
<1>18. ASSUME NEW w \in Worker, Task(w) \/ Expire(w) PROVE Handles'
  BY <1>18, TaskKeeps, KeptHandles
<1> QED BY <1>2, <1>3, <1>4, <1>5, <1>6, <1>7, <1>8, <1>10, <1>11, <1>12, <1>13, <1>14, <1>15,
           <1>16, <1>17, <1>18

-----------------------------------------------------------------------------
(* The slots of the loop: the specs it runs, is about to start or has       *)
(* planned to start fill at most max_concurrent_runs.                      *)

Own       == {s \in Tracked : worker[running[s]].by = "tick"}
Launching == (IF tick.pc \in {"drain", "dispatch", "save", "spawn", "insert"} THEN tick.todo ELSE {})
             \cup (IF tick.pc \in {"save", "spawn", "insert"} THEN {tick.id} ELSE {})
ShareHeld == Cardinality(Own \cup Launching) <= MaxConcurrent

LEMMA ShareIsFinite == ASSUME Typed, NEW S, S \subseteq Job
                       PROVE  IsFiniteSet(S) /\ Cardinality(S) \in Nat
BY ConfigAssumption, FS_Subset, FS_CardinalityType

LEMMA ShareInJob == Typed => Own \cup Launching \subseteq Job /\ Tracked \subseteq Job
BY DEF Typed, TickTyped, TickShape, Own, Launching, Tracked

LEMMA InitShare == Init => ShareHeld
<1> SUFFICES ASSUME Init PROVE ShareHeld
  OBVIOUS
<1>1. Own = {} /\ Launching = {}
  BY Blank DEF Init, Own, Launching, Tracked
<1> QED BY <1>1, FS_EmptySet, ConfigAssumption DEF ShareHeld

\* A share that gains no spec is held.
LEMMA ShareShrinks ==
    ASSUME Typed, Typed', ShareHeld, (Own \cup Launching)' \subseteq Own \cup Launching
    PROVE  ShareHeld'
<1>1. (Own \cup Launching)' \subseteq Job /\ Own \cup Launching \subseteq Job
  BY ShareInJob
<1>2. Cardinality((Own \cup Launching)') <= Cardinality(Own \cup Launching)
  BY <1>1, ShareIsFinite, FS_Subset
<1> QED BY <1>1, <1>2, ShareIsFinite, ConfigAssumption DEF ShareHeld

\* What a plan adds fits in the slots that no handle takes.
LEMMA PlanFits ==
    ASSUME Typed, Typed', ShareHeld, NEW picks \in SUBSET Job, Cardinality(picks) <= Slots,
           Own' \subseteq Own, Launching' \subseteq picks
    PROVE  ShareHeld'
<1>1. /\ Own \subseteq Tracked /\ Tracked \subseteq Job
      /\ (Own \cup Launching)' \subseteq Tracked \cup picks
  BY DEF Own, Tracked
<1>2. CASE Cardinality(Tracked) < MaxConcurrent
  <2>1. /\ Cardinality(Tracked \cup picks) <= Cardinality(Tracked) + Cardinality(picks)
        /\ Cardinality((Own \cup Launching)') <= Cardinality(Tracked \cup picks)
    <3>1. IsFiniteSet(Tracked) /\ IsFiniteSet(picks) /\ Tracked \cup picks \subseteq Job
      BY <1>1, ShareIsFinite
    <3>2. /\ Cardinality(Tracked \cup picks)
               = Cardinality(Tracked) + Cardinality(picks) - Cardinality(Tracked \cap picks)
          /\ Cardinality(Tracked \cap picks) \in Nat
          /\ Cardinality(Tracked) \in Nat /\ Cardinality(picks) \in Nat
      BY <1>1, <3>1, FS_Union, ShareIsFinite
    <3>3. Cardinality((Own \cup Launching)') <= Cardinality(Tracked \cup picks)
      BY <1>1, <3>1, ShareIsFinite, FS_Subset
    <3> QED BY <3>2, <3>3
  <2>2. {Cardinality(Tracked), Cardinality(picks), Cardinality((Own \cup Launching)'),
         Cardinality(Tracked \cup picks)} \subseteq Nat
    BY <1>1, ShareInJob, ShareIsFinite
  <2> QED BY <1>2, <2>1, <2>2, ConfigAssumption DEF ShareHeld, Slots
<1>3. CASE ~(Cardinality(Tracked) < MaxConcurrent)
  <2>1. picks = {}
    BY <1>3, ShareIsFinite, FS_EmptySet DEF Slots
  <2> QED BY <2>1, ShareShrinks
<1> QED BY <1>2, <1>3

\* Steps after which the loop has no handle that it did not have.
OwnKept == \A s \in Job :
    /\ running'[s] \in {running[s], NoWorker}
    /\ running'[s] # NoWorker => worker'[running[s]].by = worker[running[s]].by

LEMMA OwnShrinks == ASSUME OwnKept PROVE Own' \subseteq Own
BY DEF OwnKept, Own, Tracked

LEMMA KeptIsOwn ==
    ASSUME Typed, Handles, WorkersKept, UNCHANGED running PROVE OwnKept
<1>1. \A s \in Job : running[s] \in Worker \cup {NoWorker}
  BY DEF Typed, RunningTyped
<1> QED BY <1>1 DEF Handles, WorkersKept, OwnKept, Held

LEMMA LaunchingShrinks ==
    ASSUME Typed, Loop, ~Plan, ~DrainPlan, ~SpawnInsert
    PROVE  Launching' \subseteq Launching
<1> USE DEF Typed
<1>1. CASE TickBegin \/ Classify \/ BeatSave \/ AskCancel \/ DeathLoad \/ DeathSave
           \/ DeathAlert \/ DeathPause \/ StaleBegin \/ StaleSave \/ Awaited \/ ShutdownDone
  BY <1>1 DEF TickBegin, Classify, BeatSave, AskCancel, DeathLoad, DeathSave, ShutdownDone,
         DeathAlert, DeathPause, StaleBegin, StaleSave, Awaited, Beaten, Back, Launching, TickTyped, TickShape
<1>2. CASE DeathCount
  <2>1. Policy(tick.id) \in {"pause", "alert", "quiet"}
    BY PolicyKinds DEF TickTyped, TickShape
  <2> QED BY <1>2, <2>1 DEF DeathCount, Back, Launching, TickTyped, TickShape
<1>3. CASE DrainList \/ SpawnSave \/ SpawnTask
  BY <1>3 DEF DrainList, SpawnSave, SpawnTask, Launching, TickTyped, TickShape
<1>4. CASE BootList
  BY <1>4, Blank DEF BootList, Launching, TickTyped, TickShape
<1>5. ASSUME NEW s \in Job, BeatLoad(s) \/ HardAbort(s) \/ StaleLoad(s) PROVE Launching' \subseteq Launching
  BY <1>5 DEF BeatLoad, HardAbort, StaleLoad, Beaten, Launching, TickTyped, TickShape
<1>6. ASSUME NEW s \in Job, Drain(s) \/ Dispatch(s) PROVE Launching' \subseteq Launching
  <2>1. s \in tick.todo /\ tick.pc \in {"drain", "dispatch"}
    BY <1>6 DEF Drain, Dispatch
  <2>2. \/ tick'.pc = "save" /\ tick'.todo = tick.todo \ {s} /\ tick'.id = s
        \/ tick'.pc = "drain" /\ tick'.todo = tick.todo \ {s}
    BY <1>6 DEF Drain, Dispatch, ToSpawn, TickTyped, TickShape
  <2> QED BY <2>1, <2>2 DEF Launching
<1>7. ASSUME NEW s \in Job, ShutdownRecord(s) \/ Rebuild(s) PROVE Launching' \subseteq Launching
  BY <1>7, Blank DEF ShutdownRecord, Rebuild, Launching, TickTyped, TickShape
<1>8. ASSUME NEW s \in Job, Drop(s) PROVE Launching' \subseteq Launching
  <2>1. tick.pc = "sweep"
    BY <1>8 DEF Drop, Dropping, Beaten
  <2>2. tick'.pc \in {"sweep", "death", "await"}
    BY <1>8, <2>1 DEF Drop, TickTyped, TickShape
  <2> QED BY <2>2 DEF Launching
<1> QED BY <1>1, <1>2, <1>3, <1>4, <1>5, <1>6, <1>7, <1>8 DEF Loop, Sweep, Launch, Boot

LEMMA OwnStep ==
    ASSUME Typed, Handles, [Next]_vars, ~SpawnInsert PROVE Own' \subseteq Own
<1> USE DEF Typed
<1>0. /\ \A s \in Job : running[s] \in Worker \cup {NoWorker}
      /\ tick.id \in Job /\ op.id \in Job /\ NoWorker \notin Worker
  BY ConfigAssumption DEF RunningTyped, TickTyped, TickShape, OpTyped, OpShape
<1>1. CASE UNCHANGED <<running, worker>>
  BY <1>1 DEF Own, Tracked
<1>2. CASE AskCancel
  <2>1. WorkersKept /\ UNCHANGED running
    BY <1>2 DEF AskCancel, WorkersKept, WorkerTyped, WorkerShape
  <2> QED BY <2>1, KeptIsOwn, OwnShrinks
<1>3. ASSUME NEW s \in Job, HardAbort(s) \/ BgAbort(s) PROVE Own' \subseteq Own
  <2>1. running' = [running EXCEPT ![s] = NoWorker] /\ Kill({running[s]})
    BY <1>3 DEF HardAbort, BgAbort
  <2>2. OwnKept
    BY <2>1, <1>0 DEF Kill, OwnKept, Handles, RunningTyped
  <2> QED BY <2>2, OwnShrinks
<1>4. ASSUME NEW s \in Job, Drop(s) PROVE Own' \subseteq Own
  <2>1. /\ running' = [running EXCEPT ![s] = NoWorker]
        /\ UNCHANGED worker \/ Kill({running[s]}) \/ Kill({})
    BY <1>4 DEF Drop
  <2>2. OwnKept
    BY <2>1, <1>0 DEF Kill, OwnKept, Handles, RunningTyped
  <2> QED BY <2>2, OwnShrinks
<1>5. CASE Awaited
  <2>1. UNCHANGED running /\ Kill({tick.new})
    BY <1>5 DEF Awaited
  <2>2. OwnKept
    BY <2>1, <1>0 DEF Kill, OwnKept, Handles
  <2> QED BY <2>2, OwnShrinks
<1>6. CASE SpawnTask \/ RunNowSpawn
  <2>1. UNCHANGED running /\ NextFree \in Worker /\ worker[NextFree].pc = "free"
    BY <1>6, CanSpawnFree DEF SpawnTask, RunNowSpawn
  <2>2. \A v \in Worker \ {NextFree} : worker'[v] = worker[v]
    BY <1>6, <2>1 DEF SpawnTask, RunNowSpawn, Spawn, WorkerTyped
  <2>3. OwnKept
    BY <2>1, <2>2, <1>0 DEF OwnKept, Handles
  <2> QED BY <2>3, OwnShrinks
<1>7. CASE RunNowInsert
  <2>1. op.pc = "insert" /\ Insert(op.id, op.new)
    BY <1>7 DEF RunNowInsert
  <2>2. /\ running' = [running EXCEPT ![op.id] = op.new] /\ worker[op.new].by = "operator"
        /\ \A v \in Worker : v # running[op.id] => worker'[v] = worker[v]
        /\ op.new \in Worker /\ op.new # running[op.id]
    BY <2>1, <1>0 DEF Insert, Handles, OpTyped, OpShape
  <2>3. worker'[op.new].by = "operator"
    BY <2>2
  <2> QED BY <2>2, <2>3, <1>0 DEF Own, Tracked, Handles, RunningTyped
<1>8. CASE Crash \/ Shutdown
  BY <1>8 DEF Crash, Shutdown, Restart, Own, Tracked
<1>9. ASSUME NEW w \in Worker, Task(w) \/ Expire(w) PROVE Own' \subseteq Own
  BY <1>9, TaskKeeps, KeptIsOwn, OwnShrinks
<1>10. \/ UNCHANGED <<running, worker>> \/ AskCancel \/ Awaited \/ SpawnTask \/ SpawnInsert
       \/ RunNowSpawn \/ RunNowInsert \/ Crash \/ Shutdown
       \/ \E w \in Worker : Task(w) \/ Expire(w)
       \/ \E s \in Job : HardAbort(s) \/ BgAbort(s) \/ Drop(s)
  BY DEF Next, Loop, Sweep, Launch, Boot, Operator, vars, TickBegin, Classify,
         BeatLoad, BeatSave, DeathLoad, DeathSave, DeathCount, DeathAlert, DeathPause,
         StaleBegin, StaleLoad, StaleSave, DrainList, DrainPlan, Drain, Plan, Dispatch,
         SpawnSave, ShutdownRecord, ShutdownDone, BootList, Rebuild, RunNow, RunNowSave,
         BgAbortLoad, BgAbortSave, Resume, ResumeSave, Age
<1> QED BY <1>1, <1>2, <1>3, <1>4, <1>5, <1>6, <1>7, <1>8, <1>9, <1>10

LEMMA ShareStep == ASSUME Typed, Typed', Handles, ShareHeld, [Next]_vars PROVE ShareHeld'
<1> USE DEF Typed
<1>1. CASE SpawnInsert
  <2>1. /\ tick.pc = "insert" /\ Insert(tick.id, tick.new)
        /\ tick.id \in Job /\ tick.new \in Worker
    BY <1>1 DEF SpawnInsert, Handles, TickTyped, TickShape
  <2>2. Launching' \subseteq Launching /\ tick.id \in Launching
    BY <1>1, Blank DEF SpawnInsert, Back, Launching, TickTyped, TickShape
  <2>3. /\ running' = [running EXCEPT ![tick.id] = tick.new]
        /\ \A v \in Worker : v # running[tick.id] => worker'[v] = worker[v]
    BY <2>1 DEF Insert
  <2>4. Own' \subseteq Own \cup {tick.id}
    BY <2>1, <2>3, ConfigAssumption DEF Own, Tracked, Handles, RunningTyped
  <2> QED BY <2>2, <2>4, ShareShrinks
<1>2. CASE DrainPlan
  <2>1. PICK picks \in SUBSET Job : Cardinality(picks) <= Slots /\
          tick' = [tick EXCEPT !.pc = "drain", !.todo = picks, !.seen =
                     [s \in Job |-> IF s \in picks THEN @[s] ELSE NoRecord]]
    BY <1>2 DEF DrainPlan, Fills
  <2>2. Launching' \subseteq picks
    BY <2>1 DEF Launching, TickTyped, TickShape
  <2>3. Own' \subseteq Own
    BY <1>2 DEF DrainPlan, Own, Tracked
  <2> QED BY <2>1, <2>2, <2>3, PlanFits
<1>3. CASE Plan
  <2>1. PICK picks \in SUBSET Job : Cardinality(picks) <= Slots /\
          tick' = IF picks = {} THEN Quiet ELSE [Quiet EXCEPT !.pc = "dispatch", !.todo = picks]
    BY <1>3 DEF Plan, Fills
  <2>2. Launching' \subseteq picks
    BY <2>1, Blank DEF Launching, TickShape
  <2>3. Own' \subseteq Own
    BY <1>3 DEF Plan, Own, Tracked
  <2> QED BY <2>1, <2>2, <2>3, PlanFits
<1>4. CASE ~SpawnInsert /\ Launching' \subseteq Launching
  BY <1>4, OwnStep, ShareShrinks
<1>5. CASE Crash \/ Shutdown
  <2>1. tick'.pc \in {"boot", "shutdown"}
    BY <1>5, Blank DEF Crash, Shutdown, TickShape
  <2>2. Launching' = {} /\ Own' = {}
    BY <1>5, <2>1 DEF Crash, Shutdown, Restart, Launching, Own, Tracked
  <2> QED BY <2>2, ShareShrinks
<1>7. CASE UNCHANGED tick
  <2>1. Launching' = Launching
    BY <1>7 DEF Launching
  <2>2. CASE ~SpawnInsert
    BY <2>1, <2>2, <1>4
  <2> QED BY <2>2, <1>1
<1>6. UNCHANGED tick \/ Crash \/ Shutdown \/ Loop
  BY DEF Next, Operator, vars, Task, RunNow, RunNowSave, RunNowSpawn, RunNowInsert,
         BgAbort, BgAbortLoad, BgAbortSave, Resume, ResumeSave, Start, Finish, Succeed,
         Fail, Alert, AutoPause, Panic, Expire, Age
<1> QED BY <1>1, <1>2, <1>3, <1>4, <1>5, <1>6, <1>7, LaunchingShrinks

LEMMA Shares == Spec => [](Typed /\ Handles /\ ShareHeld)
<1>1. Init => Typed /\ Handles /\ ShareHeld
  BY InitTyped, InitHandles, InitShare
<1>2. Typed /\ Handles /\ ShareHeld /\ [Next]_vars => (Typed /\ Handles /\ ShareHeld)'
  BY TypedStep, HandlesStep, ShareStep
<1> QED BY <1>1, <1>2, PTL DEF Spec

\* Whatever operators start or abort meanwhile, the handles of the loop's own
\* making stay within max_concurrent_runs.
THEOREM OwnShare == Spec => []OwnShareHeld
<1>1. Typed /\ ShareHeld => OwnShareHeld
  <2> SUFFICES ASSUME Typed, ShareHeld PROVE OwnShareHeld
    OBVIOUS
  <2>1. Own \cup Launching \subseteq Job /\ Own \subseteq Own \cup Launching
    BY ShareInJob
  <2>2. Cardinality(Own) <= Cardinality(Own \cup Launching)
    BY <2>1, ShareIsFinite, FS_Subset
  <2> QED BY <2>1, <2>2, ShareIsFinite, ConfigAssumption DEF ShareHeld, OwnShareHeld, Own
<1> QED BY <1>1, Shares, PTL

-----------------------------------------------------------------------------
(* A one-shot is dispatched once: its run_at leaves the disk before its     *)
(* task is made, and no listing outlives the tick that dispatches it.      *)

Dispatching == \/ tick.pc = "dispatch"
               \/ tick.pc \in {"save", "spawn", "insert"} /\ tick.next = "dispatch"
Once == \A s \in OneShot :
    /\ fired[s] <= 1 /\ (s \in runAt => fired[s] = 0) /\ (s \in tick.open => s \in runAt)
    /\ Dispatching => s \notin tick.open /\ (s \in tick.todo => s \in runAt)

LEMMA InitOnce == Init => Once
<1> SUFFICES ASSUME Init PROVE Once
  OBVIOUS
<1>1. tick.open = {} /\ tick.pc = "idle" /\ runAt = OneShot /\ \A s \in OneShot : fired[s] = 0
  BY Blank, ConfigAssumption DEF Init
<1> QED BY <1>1 DEF Once, Dispatching

\* Steps that neither list a spec nor plan a dispatch.
ListsNothing == /\ tick'.open \subseteq tick.open
                /\ Dispatching' => Dispatching /\ tick'.todo \subseteq tick.todo

LEMMA LoopListsNothing ==
    ASSUME Typed, Loop, ~TickBegin, ~Plan, \A s \in Job : ~Dispatch(s) PROVE ListsNothing
<1> USE DEF Typed
<1>1. CASE Classify \/ BeatSave \/ AskCancel \/ DeathLoad \/ DeathSave
           \/ DeathAlert \/ DeathPause \/ StaleBegin \/ StaleSave \/ Awaited \/ ShutdownDone
  BY <1>1 DEF Classify, BeatSave, AskCancel, DeathLoad, DeathSave, ShutdownDone, DeathAlert,
         DeathPause, StaleBegin, StaleSave, Awaited, Beaten, Back, Dispatching, ListsNothing,
         TickTyped, TickShape
<1>2. CASE DeathCount
  <2>1. Policy(tick.id) \in {"pause", "alert", "quiet"}
    BY PolicyKinds DEF TickTyped, TickShape
  <2> QED BY <1>2, <2>1 DEF DeathCount, Back, Dispatching, ListsNothing, TickTyped, TickShape
<1>3. CASE DrainList \/ SpawnSave \/ SpawnTask
  BY <1>3 DEF DrainList, SpawnSave, SpawnTask, Dispatching, ListsNothing, TickTyped, TickShape
<1>4. CASE DrainPlan
  <2>1. tick'.pc = "drain" /\ tick'.open = tick.open
    BY <1>4 DEF DrainPlan, TickTyped, TickShape
  <2> QED BY <2>1 DEF Dispatching, ListsNothing
<1>5. CASE SpawnInsert
  <2>1. tick.pc = "insert" /\ (tick' = Quiet \/ tick' = Back(tick, tick.next))
    BY <1>5 DEF SpawnInsert
  <2>2. CASE tick' = Quiet
    BY <2>2, Blank DEF Dispatching, ListsNothing
  <2>3. CASE tick' = Back(tick, tick.next)
    BY <2>1, <2>3 DEF Back, Dispatching, ListsNothing, TickTyped, TickShape
  <2> QED BY <2>1, <2>2, <2>3
<1>6. CASE BootList
  BY <1>6, Blank DEF BootList, Dispatching, ListsNothing, TickTyped, TickShape
<1>7. ASSUME NEW s \in Job, BeatLoad(s) \/ HardAbort(s) \/ StaleLoad(s) PROVE ListsNothing
  BY <1>7 DEF BeatLoad, HardAbort, StaleLoad, Beaten, Dispatching, ListsNothing, TickTyped, TickShape
<1>8. ASSUME NEW s \in Job, Drain(s) PROVE ListsNothing
  BY <1>8 DEF Drain, ToSpawn, Dispatching, ListsNothing, TickTyped, TickShape
<1>9. ASSUME NEW s \in Job, ShutdownRecord(s) \/ Rebuild(s) PROVE ListsNothing
  BY <1>9, Blank DEF ShutdownRecord, Rebuild, Dispatching, ListsNothing, TickTyped, TickShape
<1>10. ASSUME NEW s \in Job, Drop(s) PROVE ListsNothing
  <2>1. tick.pc = "sweep"
    BY <1>10 DEF Drop, Dropping, Beaten
  <2>2. tick'.pc \in {"sweep", "death", "await"} /\ tick'.open = tick.open
    BY <1>10, <2>1 DEF Drop, TickTyped, TickShape
  <2> QED BY <2>2 DEF Dispatching, ListsNothing
<1> QED BY <1>1, <1>2, <1>3, <1>4, <1>5, <1>6, <1>7, <1>8, <1>9, <1>10 DEF Loop, Sweep, Launch, Boot

LEMMA OnceStep == ASSUME Typed, Once, [Next]_vars PROVE Once'
<1> USE DEF Typed
<1>1. ASSUME ListsNothing, UNCHANGED <<runAt, fired>> PROVE Once'
  BY <1>1 DEF Once, ListsNothing
<1>2. CASE TickBegin
  <2>1. /\ tick'.pc = "classify" /\ tick'.open = {s \in Job : ~paused[s] /\ (s \in OneShot => s \in runAt)}
        /\ UNCHANGED <<runAt, fired>>
    BY <1>2 DEF TickBegin, TickTyped, TickShape, disk, spec, ghost
  <2> QED BY <2>1 DEF Once, Dispatching
<1>3. CASE Plan
  <2>1. PICK picks \in SUBSET Job : picks \subseteq tick.open /\
          tick' = IF picks = {} THEN Quiet ELSE [Quiet EXCEPT !.pc = "dispatch", !.todo = picks]
    BY <1>3 DEF Plan, Fills
  <2>2. UNCHANGED <<runAt, fired>>
    BY <1>3 DEF Plan, spec, ghost
  <2>3. tick'.open = {} /\ (Dispatching' => tick'.todo = picks)
    BY <2>1, Blank DEF Dispatching, TickShape
  <2> QED BY <2>1, <2>2, <2>3 DEF Once
<1>4. ASSUME NEW s \in Job, Dispatch(s) PROVE Once'
  <2>1. tick.pc = "dispatch" /\ s \in tick.todo
    BY <1>4 DEF Dispatch
  <2>2. tick'.open = tick.open /\ tick'.todo = tick.todo \ {s}
    BY <1>4 DEF Dispatch, ToSpawn, TickTyped, TickShape
  <2>3. /\ runAt' = runAt \ {s}
        /\ fired' = [fired EXCEPT ![s] = IF s \in OneShot /\ @ < 2 THEN @ + 1 ELSE @]
    BY <1>4 DEF Dispatch
  <2>4. ASSUME NEW t \in OneShot PROVE /\ fired'[t] <= 1 /\ (t \in runAt' => fired'[t] = 0)
    <3>1. t \in Job
      BY ConfigAssumption
    <3>2. CASE t = s
      <4>1. fired[s] = 0 /\ fired'[s] = 1
        BY <2>1, <2>3, <2>4, <3>2 DEF Once, Dispatching, CountTyped
      <4> QED BY <4>1, <3>2, <2>3
    <3>3. CASE t # s
      <4>1. fired'[t] = fired[t]
        BY <2>3, <3>1, <3>3 DEF CountTyped
      <4> QED BY <4>1, <2>3, <2>4 DEF Once
    <3> QED BY <3>2, <3>3
  <2> QED BY <2>1, <2>2, <2>3, <2>4 DEF Once, Dispatching
<1>5. CASE Crash \/ Shutdown
  <2>1. tick'.pc \in {"boot", "shutdown"} /\ tick'.open = {} /\ UNCHANGED <<runAt, fired>>
    BY <1>5, Blank DEF Crash, Shutdown, spec, TickShape
  <2> QED BY <2>1 DEF Once, Dispatching
<1>6. CASE UNCHANGED <<tick, runAt, fired>>
  BY <1>6 DEF Once, Dispatching
<1>7. UNCHANGED <<tick, runAt, fired>> \/ Crash \/ Shutdown \/ Loop
  BY DEF Next, Operator, vars, disk, spec, ghost, Task, RunNow, RunNowSave, RunNowSpawn,
         RunNowInsert, BgAbort, BgAbortLoad, BgAbortSave, Resume, ResumeSave, Start, Finish,
         Succeed, Fail, Alert, AutoPause, Panic, Expire, Age
<1>8. Loop => UNCHANGED <<runAt, fired>> \/ \E s \in Job : Dispatch(s)
  BY DEF Loop, Sweep, Launch, Boot, disk, spec, ghost, TickBegin, Classify, BeatLoad, BeatSave,
         AskCancel, HardAbort, Drop, Awaited, DeathLoad, DeathSave, DeathCount, DeathAlert,
         DeathPause, StaleBegin, StaleLoad, StaleSave, DrainList, DrainPlan, Drain, Plan,
         SpawnSave, SpawnTask, SpawnInsert, ShutdownRecord, ShutdownDone, BootList, Rebuild
<1> QED BY <1>1, <1>2, <1>3, <1>4, <1>5, <1>6, <1>7, <1>8, LoopListsNothing

LEMMA FiredOnce == Spec => []OneShotOnce
<1>1. Init => Typed /\ Once
  BY InitTyped, InitOnce
<1>2. Typed /\ Once /\ [Next]_vars => (Typed /\ Once)'
  BY TypedStep, OnceStep
<1>3. Once => OneShotOnce
  BY DEF Once, OneShotOnce
<1> QED BY <1>1, <1>2, <1>3, PTL DEF Spec

-----------------------------------------------------------------------------
(* The loop by itself: with no operator every task is the loop's own.       *)

NoOperator == op = NoOp /\ \A w \in Worker : worker[w].by = "tick"

LEMMA OperatorIsIdle == ASSUME Typed, MaxCommands = 0, NoOperator PROVE ~Operator
<1>1. op.pc = "idle"
  BY Blank DEF NoOperator
<1>2. ~(commands < MaxCommands)
  BY DEF Typed, CountTyped
<1> QED BY <1>1, <1>2 DEF Operator, RunNow, BgAbort, Resume, Command, RunNowSave, RunNowSpawn,
                          RunNowInsert, BgAbortLoad, BgAbortSave, ResumeSave

LEMMA NoOperatorStep ==
    ASSUME Typed, MaxCommands = 0, NoOperator, [Next]_vars PROVE NoOperator'
<1> USE DEF Typed
<1>1. op' = op
  <2>1. CASE Crash \/ Shutdown
    BY <2>1 DEF Crash, Shutdown, Restart, NoOperator
  <2>2. UNCHANGED op \/ Crash \/ Shutdown
    BY OperatorIsIdle DEF Next, Loop, Sweep, Launch, Boot, Task, vars, TickBegin, Classify,
         BeatLoad, BeatSave, AskCancel, HardAbort, Drop, Awaited, DeathLoad, DeathSave,
         DeathCount, DeathAlert, DeathPause, StaleBegin, StaleLoad, StaleSave, DrainList,
         DrainPlan, Drain, Plan, Dispatch, SpawnSave, SpawnTask, SpawnInsert,
         ShutdownRecord, ShutdownDone, BootList, Rebuild, Start, Finish, Succeed, Fail,
         Alert, AutoPause, Panic, Expire, Age
  <2> QED BY <2>1, <2>2
<1>2. ASSUME \A w \in Worker : worker'[w].by \in {worker[w].by, "tick"} PROVE NoOperator'
  BY <1>1, <1>2 DEF NoOperator
<1>3. CASE UNCHANGED worker
  BY <1>2, <1>3
<1>4. ASSUME NEW w \in Worker, Task(w) \/ Expire(w) PROVE NoOperator'
  <2>1. ASSUME NEW how \in Ended, End(w, how) PROVE NoOperator'
    BY <1>2, <2>1, Blank DEF End, WorkerTyped, WorkerShape
  <2>2. ASSUME NEW pc \in Live, Goto(w, pc) PROVE NoOperator'
    BY <1>2, <2>2 DEF Goto, WorkerTyped, WorkerShape
  <2>3. worker[w].spec \in Job
    BY DEF WorkerTyped, WorkerShape
  <2>4. CASE Expire(w)
    BY <1>2, <2>4 DEF Expire, WorkerTyped, WorkerShape
  <2>5. CASE Start(w) \/ Finish(w)
    BY <2>5, <2>2 DEF Start, Finish, Live
  <2>6. CASE Succeed(w) \/ Alert(w) \/ AutoPause(w) \/ Panic(w)
    BY <2>6, <2>1 DEF Succeed, Alert, AutoPause, Panic, Ended
  <2>7. CASE Fail(w)
    BY <2>7, <2>1, <2>2, <2>3, PolicyKinds DEF Fail, Live, Ended
  <2> QED BY <1>4, <2>4, <2>5, <2>6, <2>7 DEF Task
<1>5. CASE AskCancel
  BY <1>5, <1>2 DEF AskCancel, WorkerTyped, WorkerShape
<1>6. ASSUME NEW ws, Kill(ws) PROVE NoOperator'
  BY <1>6, <1>2, Blank DEF Kill
<1>7. ASSUME NEW s \in Job, HardAbort(s) \/ Drop(s) PROVE NoOperator'
  BY <1>7, <1>3, <1>6 DEF HardAbort, Drop
<1>8. CASE Awaited
  BY <1>8, <1>6 DEF Awaited
<1>9. CASE SpawnTask
  BY <1>9, <1>2, CanSpawnFree DEF SpawnTask, Spawn, WorkerTyped
<1>10. CASE SpawnInsert
  BY <1>10, <1>2, Blank DEF SpawnInsert, Insert
<1>11. CASE Crash \/ Shutdown
  BY <1>11, <1>2, Blank DEF Crash, Shutdown, Restart
<1>12. \/ UNCHANGED worker \/ AskCancel \/ Awaited \/ SpawnTask \/ SpawnInsert \/ Crash \/ Shutdown
       \/ \E w \in Worker : Task(w) \/ Expire(w)
       \/ \E s \in Job : HardAbort(s) \/ Drop(s)
  BY OperatorIsIdle DEF Next, Loop, Sweep, Launch, Boot, vars, TickBegin, Classify, BeatLoad,
         BeatSave, DeathLoad, DeathSave, DeathCount, DeathAlert, DeathPause,
         StaleBegin, StaleLoad, StaleSave, DrainList, DrainPlan, Drain, Plan, Dispatch,
         SpawnSave, ShutdownRecord, ShutdownDone, BootList, Rebuild, Age
<1> QED BY <1>3, <1>4, <1>5, <1>7, <1>8, <1>9, <1>10, <1>11, <1>12

-----------------------------------------------------------------------------
(* Where the tasks are: a task is behind the handle of its spec, or is the  *)
(* one the loop holds, whose spec then has no handle.                      *)

Handling == {"await", "death", "deathsave", "deathcount", "alert", "pause", "stalesave",
             "save", "spawn", "insert"}
Homes ==
    /\ \A w \in Worker : worker[w].pc # "free" => running[worker[w].spec] = w \/ tick.new = w
    /\ tick.pc \in Handling => running[tick.id] = NoWorker
    /\ tick.pc \in {"stale", "stalesave", "drain", "dispatch", "save", "spawn", "insert"}
         => tick.todo \cap Tracked = {}
    /\ tick.pc \in {"save", "spawn", "insert"} => tick.id \notin tick.todo
    /\ tick.pc \in {"shutdown", "boot", "rebuild"} => \A w \in Worker : worker[w].pc = "free"

LEMMA InitHomes == Init => Homes
BY Blank DEF Init, Homes, Handling

Placed == Typed /\ Handles /\ NoOperator /\ Homes

\* A spec without a handle has no task, but for the one in the loop's hands.
LEMMA Vacant ==
    ASSUME Placed, NEW s \in Job, running[s] = NoWorker, NEW w \in Worker,
           worker[w].pc # "free", worker[w].spec = s
    PROVE  tick.new = w /\ tick.id = s /\ tick.pc \in {"insert", "await"}
BY ConfigAssumption DEF Placed, Homes, Handles

LEMMA OnePerSpec ==
    ASSUME Placed, NEW v \in Worker, NEW w \in Worker, worker[v].pc # "free",
           worker[w].pc # "free", worker[v].spec = worker[w].spec
    PROVE  v = w
<1>1. worker[v].spec \in Job
  BY DEF Placed, Typed, WorkerTyped, WorkerShape
<1>2. CASE running[worker[v].spec] = NoWorker
  BY <1>1, <1>2, Vacant
<1>3. CASE running[worker[v].spec] # NoWorker
  <2>1. ASSUME NEW u \in Worker, worker[u].pc # "free", worker[u].spec = worker[v].spec
        PROVE  running[worker[v].spec] = u
    <3>1. tick.new = u => tick.id = worker[v].spec /\ tick.pc \in Handling
      BY <2>1, ConfigAssumption DEF Placed, Handles, Handling
    <3> QED BY <1>3, <2>1, <3>1 DEF Placed, Homes
  <2> QED BY <2>1
<1> QED BY <1>2, <1>3

LEMMA HomesStep == ASSUME Placed, MaxCommands = 0, [Next]_vars PROVE Homes'
<1> USE DEF Placed, Typed
<1>0. /\ \A s \in Job : running[s] \in Worker \cup {NoWorker}
      /\ tick.new \in Worker \cup {NoWorker} /\ tick.id \in Job /\ NoWorker \notin Worker
      /\ \A w \in Worker : worker[w].spec \in Job
  BY ConfigAssumption DEF RunningTyped, TickTyped, TickShape, WorkerTyped, WorkerShape
\* Where no handle changes hands and none is taken away, only the plan moves.
<1>1. ASSUME NoHandOver, UNCHANGED <<running, worker>>
      PROVE  \A w \in Worker : worker'[w].pc # "free" => running'[worker'[w].spec] = w \/ tick'.new = w
  BY <1>1, <1>0 DEF Homes, Handles, NoHandOver
<1>2. ASSUME NoHandOver, UNCHANGED <<running, worker>>,
             tick'.pc \in {"idle", "classify", "sweep", "drainplan", "beatsave"}
      PROVE  Homes'
  BY <1>1, <1>2 DEF Homes, Handling
<1>3. ASSUME NoHandOver, UNCHANGED <<running, worker>>, tick.pc \in Handling,
             tick'.pc \in {"death", "deathsave", "deathcount", "alert", "pause"}, tick'.id = tick.id
      PROVE  Homes'
  BY <1>1, <1>3 DEF Homes, Handling
<1>4. ASSUME NoHandOver, UNCHANGED <<running, worker>>, tick'.pc \in {"stale", "drain", "dispatch"},
             tick'.todo \cap Tracked = {}
      PROVE  Homes'
  BY <1>1, <1>4 DEF Homes, Handling, Tracked
<1>5. ASSUME NoHandOver, UNCHANGED <<running, worker>>, tick'.pc \in {"stalesave", "save", "spawn"},
             tick'.todo \cap Tracked = {}, running[tick'.id] = NoWorker, tick'.id \notin tick'.todo
      PROVE  Homes'
  BY <1>1, <1>5 DEF Homes, Handling, Tracked
<1>6. ASSUME NoHandOver, UNCHANGED <<running, worker>>, tick.pc \in {"shutdown", "boot", "rebuild"},
             tick'.pc \in {"idle", "shutdown", "boot", "rebuild"}
      PROVE  Homes'
  BY <1>1, <1>6 DEF Homes, Handling
<1>7. CASE TickBegin \/ Classify \/ BeatSave \/ DeathAlert \/ DeathPause
  <2>1. NoHandOver /\ UNCHANGED <<running, worker>> /\ tick'.pc \in {"classify", "sweep"}
    BY <1>7 DEF TickBegin, Classify, BeatSave, DeathAlert, DeathPause, Back, NoHandOver, TickTyped, TickShape
  <2> QED BY <1>2, <2>1
<1>8. ASSUME NEW s \in Job, BeatLoad(s) PROVE Homes'
  <2>1. NoHandOver /\ UNCHANGED <<running, worker>> /\ tick'.pc \in {"beatsave", "sweep"}
    BY <1>8 DEF BeatLoad, NoHandOver, TickTyped, TickShape
  <2> QED BY <1>2, <2>1
<1>9. CASE DeathLoad \/ DeathSave
  <2>1. /\ NoHandOver /\ UNCHANGED <<running, worker>> /\ tick.pc \in {"death", "deathsave"}
        /\ tick'.pc \in {"deathsave", "deathcount"} /\ tick'.id = tick.id
    BY <1>9 DEF DeathLoad, DeathSave, NoHandOver, TickTyped, TickShape
  <2> QED BY <1>3, <2>1 DEF Handling
<1>10. CASE DeathCount
  <2>1. Policy(tick.id) \in {"pause", "alert", "quiet"}
    BY <1>0, PolicyKinds
  <2>2. /\ NoHandOver /\ UNCHANGED <<running, worker>> /\ tick.pc = "deathcount"
        /\ tick'.pc = "sweep" \/ (tick'.pc \in {"alert", "pause"} /\ tick'.id = tick.id)
    <3>1. tick.pc = "deathcount" /\ UNCHANGED <<running, worker>>
      BY <1>10 DEF DeathCount
    <3>2. CASE Policy(tick.id) = "quiet"
      <4>1. tick' = Back(tick, "sweep")
        BY <1>10, <3>2 DEF DeathCount
      <4> QED BY <3>1, <4>1 DEF Back, NoHandOver, TickTyped, TickShape
    <3>3. CASE Policy(tick.id) # "quiet"
      BY <1>10, <2>1, <3>1, <3>3 DEF DeathCount, NoHandOver, TickTyped, TickShape
    <3> QED BY <3>2, <3>3
  <2> QED BY <1>2, <1>3, <2>2 DEF Handling
<1>11. CASE StaleBegin
  <2>1. /\ NoHandOver /\ UNCHANGED <<running, worker>> /\ tick'.pc = "stale"
        /\ tick'.todo = Job \ Tracked
    BY <1>11 DEF StaleBegin, NoHandOver, TickTyped, TickShape
  <2> QED BY <1>4, <2>1
<1>12. ASSUME NEW s \in Job, StaleLoad(s) PROVE Homes'
  <2>1. /\ UNCHANGED <<running, worker>> /\ tick.pc = "stale" /\ s \in tick.todo
        /\ \/ tick' = [tick EXCEPT !.todo = @ \ {s}]
           \/ tick' = [tick EXCEPT !.todo = @ \ {s}, !.pc = "stalesave", !.id = s,
                                   !.held = MarkFailed(ledger[s])]
    BY <1>12 DEF StaleLoad, TickTyped, TickShape
  <2>2. /\ NoHandOver /\ tick'.todo = tick.todo \ {s}
        /\ tick'.pc = "stale" \/ (tick'.pc = "stalesave" /\ tick'.id = s)
    BY <2>1 DEF NoHandOver, TickTyped, TickShape
  <2>3. tick.todo \cap Tracked = {} /\ running[s] = NoWorker
    BY <2>1 DEF Homes, Tracked
  <2> QED BY <1>4, <1>5, <2>1, <2>2, <2>3
<1>13. CASE StaleSave
  <2>1. /\ NoHandOver /\ UNCHANGED <<running, worker>> /\ tick.pc = "stalesave"
        /\ tick'.pc = "stale" /\ tick'.todo = tick.todo
    BY <1>13 DEF StaleSave, Back, NoHandOver, TickTyped, TickShape
  <2> QED BY <1>4, <2>1 DEF Homes
<1>14. CASE DrainList
  <2>1. /\ NoHandOver /\ UNCHANGED <<running, worker>> /\ tick'.pc \in {"drainplan", "drain"}
        /\ tick'.todo = {}
    BY <1>14 DEF DrainList, NoHandOver, TickTyped, TickShape
  <2> QED BY <1>2, <1>4, <2>1
<1>15. CASE DrainPlan
  <2>1. PICK picks \in SUBSET Job : picks \subseteq Job \ Tracked /\
          tick' = [tick EXCEPT !.pc = "drain", !.todo = picks, !.seen =
                     [s \in Job |-> IF s \in picks THEN @[s] ELSE NoRecord]]
    BY <1>15 DEF DrainPlan, Fills
  <2>2. /\ NoHandOver /\ UNCHANGED <<running, worker>> /\ tick'.pc = "drain" /\ tick'.todo = picks
    BY <1>15, <2>1 DEF DrainPlan, NoHandOver, TickTyped, TickShape
  <2> QED BY <1>4, <2>1, <2>2
<1>16. CASE Plan
  <2>1. PICK picks \in SUBSET Job : picks \subseteq Job \ Tracked /\
          tick' = IF picks = {} THEN Quiet ELSE [Quiet EXCEPT !.pc = "dispatch", !.todo = picks]
    BY <1>16 DEF Plan, Fills, TickTyped, TickShape
  <2>2. /\ NoHandOver /\ UNCHANGED <<running, worker>>
        /\ tick'.pc = "idle" \/ (tick'.pc = "dispatch" /\ tick'.todo = picks)
    BY <1>16, <2>1, Blank DEF Plan, NoHandOver, TickShape
  <2> QED BY <1>2, <1>4, <2>1, <2>2
<1>17. ASSUME NEW s \in Job, Drain(s) \/ Dispatch(s) PROVE Homes'
  <2>1. /\ UNCHANGED <<running, worker>> /\ tick.pc \in {"drain", "dispatch"} /\ s \in tick.todo
    BY <1>17 DEF Drain, Dispatch
  <2>2. \/ tick.pc = "drain" /\ tick' = [tick EXCEPT !.todo = @ \ {s}, !.seen[s] = NoRecord]
        \/ \E n, next : tick' = ToSpawn(tick, s, n, next)
    BY <1>17 DEF Drain, Dispatch
  <2>4. /\ NoHandOver /\ tick'.todo = tick.todo \ {s}
        /\ tick'.pc = "drain" \/ (tick'.pc = "save" /\ tick'.id = s)
    BY <2>1, <2>2 DEF ToSpawn, NoHandOver, TickTyped, TickShape
  <2>3. tick.todo \cap Tracked = {} /\ running[s] = NoWorker
    BY <2>1 DEF Homes, Tracked
  <2> QED BY <1>4, <1>5, <2>1, <2>3, <2>4
<1>18. CASE SpawnSave
  <2>1. /\ NoHandOver /\ UNCHANGED <<running, worker>> /\ tick.pc = "save" /\ tick'.pc = "spawn"
        /\ tick'.todo = tick.todo /\ tick'.id = tick.id
    BY <1>18 DEF SpawnSave, NoHandOver, TickTyped, TickShape
  <2>2. tick.todo \cap Tracked = {} /\ running[tick.id] = NoWorker /\ tick.id \notin tick.todo
    BY <2>1 DEF Homes, Handling
  <2> QED BY <1>5, <2>1, <2>2
<1>19. CASE ShutdownDone
  <2>1. /\ NoHandOver /\ UNCHANGED <<running, worker>> /\ tick.pc = "shutdown" /\ tick'.pc = "boot"
    BY <1>19 DEF ShutdownDone, NoHandOver, TickTyped, TickShape
  <2> QED BY <1>6, <2>1
<1>20. CASE BootList
  <2>1. /\ NoHandOver /\ UNCHANGED <<running, worker>> /\ tick.pc = "boot" /\ tick'.pc \in {"idle", "rebuild"}
    BY <1>20, Blank DEF BootList, NoHandOver, TickTyped, TickShape
  <2> QED BY <1>6, <2>1
<1>21. ASSUME NEW s \in Job, ShutdownRecord(s) \/ Rebuild(s) PROVE Homes'
  <2>1. /\ NoHandOver /\ UNCHANGED <<running, worker>> /\ tick.pc \in {"shutdown", "rebuild"}
        /\ tick'.pc \in {"idle", "shutdown", "rebuild"}
    BY <1>21, Blank DEF ShutdownRecord, Rebuild, NoHandOver, TickTyped, TickShape
  <2> QED BY <1>6, <2>1
\* Handles that go, with their tasks or into the hands of the loop.
<1>22. CASE AskCancel
  <2>1. /\ tick.pc = "sweep" /\ tick'.pc = "sweep" /\ tick'.new = tick.new /\ UNCHANGED running
        /\ \A w \in Worker : worker'[w].pc = worker[w].pc /\ worker'[w].spec = worker[w].spec
    BY <1>22 DEF AskCancel, Beaten, TickTyped, TickShape, WorkerTyped, WorkerShape
  <2> QED BY <2>1 DEF Homes, Handling
<1>23. ASSUME NEW s \in Job, HardAbort(s) PROVE Homes'
  <2>1. /\ tick.pc = "sweep" /\ tick'.pc = "death" /\ tick'.id = s /\ tick'.new = tick.new
        /\ running' = [running EXCEPT ![s] = NoWorker] /\ Kill({running[s]})
    BY <1>23 DEF HardAbort, Beaten, TickTyped, TickShape
  <2> QED BY <2>1, <1>0, Blank DEF Homes, Handles, Handling, Kill, RunningTyped
<1>24. ASSUME NEW s \in Job, Drop(s) PROVE Homes'
  <2>1. /\ tick.pc = "sweep" /\ tick.new = NoWorker /\ running' = [running EXCEPT ![s] = NoWorker]
    BY <1>24 DEF Drop, Dropping, Beaten, Handles
  <2>2. CASE running[s] = NoWorker \/ worker[running[s]].pc \in Ended
    <3>1. \/ Kill({running[s]}) \/ (running[s] = NoWorker /\ UNCHANGED worker)
      BY <1>24, <2>2 DEF Drop
    <3>2. tick'.pc = "sweep" \/ (tick'.pc = "death" /\ tick'.id = s)
      <4>1. CASE running[s] = NoWorker
        BY <1>24, <2>1, <4>1 DEF Drop, TickTyped, TickShape
      <4>2. CASE running[s] # NoWorker /\ worker[running[s]].pc = "done"
        BY <1>24, <2>1, <4>2 DEF Drop, TickTyped, TickShape
      <4>3. CASE running[s] # NoWorker /\ worker[running[s]].pc = "panicked"
        BY <1>24, <2>1, <4>3 DEF Drop, TickTyped, TickShape
      <4> QED BY <2>2, <4>1, <4>2, <4>3 DEF Ended
    <3>3. ASSUME NEW w \in Worker, worker'[w].pc # "free"
          PROVE  worker'[w] = worker[w] /\ w # running[s] /\ running[worker[w].spec] = w
      BY <2>1, <3>1, <3>3, <1>0, Blank DEF Homes, Handles, Kill
    <3>4. running'[s] = NoWorker
      BY <2>1 DEF RunningTyped
    <3>5. \A w \in Worker : worker'[w].pc # "free" => running'[worker'[w].spec] = w
      BY <2>1, <3>3, <1>0 DEF RunningTyped
    <3> QED BY <3>2, <3>4, <3>5 DEF Homes, Handling
  <2>3. CASE running[s] # NoWorker /\ worker[running[s]].pc \notin Ended
    <3>1. tick'.pc = "await" /\ tick'.new = running[s] /\ tick'.id = s
      BY <1>24, <2>3 DEF Drop, TickTyped, TickShape, Ended
    <3>2. \A w \in Worker : worker'[w] = worker[w]
      BY <1>24, <2>3 DEF Drop, Kill
    <3> QED BY <2>1, <3>1, <3>2, <1>0 DEF Homes, Handles, Handling, RunningTyped
  <2> QED BY <2>2, <2>3
<1>25. CASE Awaited
  <2>1. tick.pc = "await" /\ UNCHANGED running /\ Kill({tick.new})
    BY <1>25 DEF Awaited
  <2>2. tick' = Back(tick, "sweep") \/ tick' = [tick EXCEPT !.pc = "death", !.new = NoWorker]
    BY <1>25 DEF Awaited
  <2>3. tick'.pc = "sweep" \/ (tick'.pc = "death" /\ tick'.id = tick.id)
    BY <2>2 DEF Back, TickTyped, TickShape
  <2> QED BY <2>1, <2>3, <1>0, Blank DEF Homes, Handling, Kill
\* A new task, and its handle.
<1>26. CASE SpawnTask
  <2> DEFINE w == NextFree
  <2>1. w \in Worker /\ worker[w].pc = "free"
    BY <1>26, CanSpawnFree DEF SpawnTask
  <2>2. /\ tick.pc = "spawn" /\ UNCHANGED running /\ tick'.pc = "insert" /\ tick'.id = tick.id
        /\ tick'.todo = tick.todo /\ tick'.new = w
    BY <1>26 DEF SpawnTask, TickTyped, TickShape
  <2>3. \A v \in Worker \ {w} : worker'[v] = worker[v]
    BY <1>26, <2>1 DEF SpawnTask, Spawn, WorkerTyped
  <2> HIDE DEF w
  <2> QED BY <2>1, <2>2, <2>3, <1>0 DEF Homes, Handles, Handling, Tracked
<1>27. CASE SpawnInsert
  <2>1. /\ tick.pc = "insert" /\ Insert(tick.id, tick.new) /\ tick.new \in Worker
        /\ running[tick.id] = NoWorker /\ worker[tick.new].spec = tick.id
    BY <1>27, <1>0 DEF SpawnInsert, Homes, Handles, Handling
  <2>2. /\ running' = [running EXCEPT ![tick.id] = tick.new]
        /\ \A v \in Worker : worker'[v] = worker[v]
    BY <2>1, <1>0 DEF Insert
  <2>3. tick'.pc = "idle" \/ (tick'.pc \in {"drain", "dispatch"} /\ tick'.todo = tick.todo)
    BY <1>27, Blank DEF SpawnInsert, Back, TickTyped, TickShape
  <2>4. \A v \in Worker : worker'[v].pc # "free" => running'[worker'[v].spec] = v
    BY <2>1, <2>2, <1>0 DEF Homes, RunningTyped
  <2>5. tick.todo \cap {s \in Job : running'[s] # NoWorker} = {}
    BY <2>1, <2>2, <1>0 DEF Homes, Tracked, RunningTyped
  <2> QED BY <2>3, <2>4, <2>5 DEF Homes, Handling, Tracked
\* Everything else.
<1>28. CASE Crash \/ Shutdown
  <2>1. tick'.pc \in {"boot", "shutdown"}
    BY <1>28, Blank DEF Crash, Shutdown, TickShape
  <2>2. \A w \in Worker : worker'[w].pc = "free"
    BY <1>28, Blank DEF Crash, Shutdown, Restart
  <2> QED BY <2>1, <2>2 DEF Homes, Handling
<1>29. ASSUME NEW w \in Worker, Task(w) \/ Expire(w) PROVE Homes'
  <2>1. WorkersKept /\ UNCHANGED <<running, tick>>
    BY <1>29, TaskKeeps
  <2> QED BY <2>1 DEF WorkersKept, Homes, Tracked
<1>30. CASE UNCHANGED <<running, worker, tick>>
  BY <1>30 DEF Homes, Tracked
<1>31. \/ UNCHANGED <<running, worker, tick>> \/ Crash \/ Shutdown \/ Loop
       \/ \E w \in Worker : Task(w) \/ Expire(w)
  BY OperatorIsIdle DEF Next, vars, Age
<1> QED BY <1>7, <1>8, <1>9, <1>10, <1>11, <1>12, <1>13, <1>14, <1>15, <1>16, <1>17, <1>18, <1>19,
           <1>20, <1>21, <1>22, <1>23, <1>24, <1>25, <1>26, <1>27, <1>28, <1>29, <1>30, <1>31
        DEF Loop, Sweep, Launch, Boot

LEMMA PlacedStep == ASSUME Placed, MaxCommands = 0, [Next]_vars PROVE Placed'
BY TypedStep, HandlesStep, NoOperatorStep, HomesStep DEF Placed

LEMMA InitPlaced == Init => Placed
<1>1. Init => NoOperator
  BY Blank DEF Init, NoOperator
<1> QED BY <1>1, InitTyped, InitHandles, InitHomes DEF Placed

LEMMA Places == ASSUME MaxCommands = 0 PROVE Spec => [](Placed /\ ShareHeld)
<1>1. Init => Placed /\ ShareHeld
  BY InitPlaced, InitShare
<1>2. Placed /\ ShareHeld /\ [Next]_vars => (Placed /\ ShareHeld)'
  BY PlacedStep, ShareStep, TypedStep DEF Placed
<1> QED BY <1>1, <1>2, PTL DEF Spec

\* Without operators the loop never runs more than max_concurrent_runs specs
\* at a time, nor one of them twice, whoever hangs, is aborted or dies.
THEOREM SlotsAreHeld == ASSUME MaxCommands = 0 PROVE Spec => []SlotsHold
<1>1. Placed /\ ShareHeld => SlotsHold
  <2> SUFFICES ASSUME Placed, ShareHeld PROVE SlotsHold
    OBVIOUS
  <2>1. \A s \in Job : running[s] # NoWorker => running[s] \in Worker
    BY DEF Placed, Typed, RunningTyped
  <2>2. Tracked \subseteq Own \cup Launching /\ Own \cup Launching \subseteq Job
    BY <2>1, ShareInJob DEF Placed, NoOperator, Own, Tracked
  <2>3. Cardinality(Tracked) <= Cardinality(Own \cup Launching)
    BY <2>2, ShareIsFinite, FS_Subset DEF Placed
  <2>4. CapHeld
    BY <2>2, <2>3, ShareIsFinite, ConfigAssumption DEF CapHeld, ShareHeld, Placed
  <2>5. OneWorkerPerSpec
    BY OnePerSpec DEF OneWorkerPerSpec, LiveWorkers, Live
  <2> QED BY <2>4, <2>5 DEF SlotsHold
<1> QED BY <1>1, Places, PTL

-----------------------------------------------------------------------------
(* Work is on disk: a record is closed only by the task it belongs to, or   *)
(* when its spec has no task.                                              *)

OnDisk ==
    /\ WorkIsOnDisk
    /\ tick.pc = "spawn" => NonTerminal(ledger[tick.id])
    /\ tick.pc = "save" => NonTerminal(tick.held)
    /\ tick.pc = "beatsave" => tick.held.state = "running"

\* Steps that open or leave every record that is in use.
OpenKept == \A s \in Job : NonTerminal(ledger[s]) => NonTerminal(ledger'[s])

LEMMA OnDiskKept ==
    ASSUME Placed, OnDisk, OpenKept, UNCHANGED worker, UNCHANGED tick PROVE OnDisk'
BY DEF Placed, Typed, WorkerTyped, WorkerShape, TickTyped, TickShape, OnDisk, OpenKept, WorkIsOnDisk

LEMMA SaveReads ==
    ASSUME Typed, NEW s \in Job, NEW r, Save(s, r)
    PROVE  ledger'[s] = r /\ \A t \in Job \ {s} : ledger'[t] = ledger[t]
BY DEF Typed, LedgerTyped, Save

LEMMA OnDiskStep == ASSUME Placed, OnDisk, MaxCommands = 0, [Next]_vars PROVE OnDisk'
<1> USE DEF Placed, Typed
<1>0. /\ tick.id \in Job /\ \A w \in Worker : worker[w].spec \in Job
      /\ tick.new \in Worker \cup {NoWorker} /\ NoWorker \notin Worker
  BY ConfigAssumption DEF TickTyped, TickShape, WorkerTyped, WorkerShape
\* The loop, away from the ledger.
<1>1. ASSUME UNCHANGED ledger, tick'.pc \notin {"save", "spawn", "beatsave"},
             \A w \in Worker : worker'[w].pc \in {"born", "work"} =>
               worker[w].pc \in {"born", "work"} /\ worker'[w].spec = worker[w].spec
      PROVE  OnDisk'
  BY <1>1 DEF OnDisk, WorkIsOnDisk
<1>2. CASE TickBegin \/ Classify \/ DeathLoad \/ DeathAlert \/ DeathPause \/ StaleBegin \/ DrainList
  <2>1. UNCHANGED <<ledger, worker>> /\ tick'.pc \notin {"save", "spawn", "beatsave"}
    BY <1>2 DEF TickBegin, Classify, DeathLoad, DeathAlert, DeathPause, StaleBegin, DrainList,
                disk, Back, TickTyped, TickShape
  <2> QED BY <1>1, <2>1
<1>3. CASE DeathCount
  <2>1. Policy(tick.id) \in {"pause", "alert", "quiet"}
    BY <1>0, PolicyKinds
  <2>2. UNCHANGED <<ledger, worker>> /\ tick'.pc \notin {"save", "spawn", "beatsave"}
    BY <1>3, <2>1 DEF DeathCount, disk, Back, TickTyped, TickShape
  <2> QED BY <1>1, <2>2
<1>4. CASE ShutdownDone \/ BootList \/ DrainPlan \/ Plan
  <2>1. UNCHANGED <<ledger, worker>>
    BY <1>4 DEF ShutdownDone, BootList, DrainPlan, Plan, disk
  <2>2. tick'.pc \in {"boot", "rebuild", "idle", "drain", "dispatch"}
    <3>1. CASE ShutdownDone \/ BootList
      BY <3>1, Blank DEF ShutdownDone, BootList, TickTyped, TickShape
    <3>2. CASE DrainPlan
      BY <3>2 DEF DrainPlan, TickTyped, TickShape
    <3>3. CASE Plan
      BY <3>3, Blank DEF Plan, TickShape
    <3> QED BY <1>4, <3>1, <3>2, <3>3
  <2> QED BY <1>1, <2>1, <2>2
<1>5. CASE AskCancel
  <2>1. /\ UNCHANGED ledger /\ tick'.pc = "sweep"
        /\ \A w \in Worker : worker'[w].pc = worker[w].pc /\ worker'[w].spec = worker[w].spec
    BY <1>5 DEF AskCancel, Beaten, disk, TickTyped, TickShape, WorkerTyped, WorkerShape
  <2> QED BY <1>1, <2>1
<1>6. ASSUME NEW s \in Job, HardAbort(s) \/ Drop(s) PROVE OnDisk'
  <2>1. /\ UNCHANGED ledger /\ tick.pc = "sweep" /\ (UNCHANGED worker \/ \E ws : Kill(ws))
    BY <1>6 DEF HardAbort, Drop, Dropping, Beaten, disk
  <2>2. tick'.pc \in {"sweep", "death", "await"}
    BY <1>6, <2>1 DEF HardAbort, Drop, TickTyped, TickShape
  <2> QED BY <1>1, <2>1, <2>2, Blank DEF Kill
<1>7. CASE Awaited
  <2>1. UNCHANGED ledger /\ Kill({tick.new}) /\ tick'.pc \in {"sweep", "death"}
    BY <1>7 DEF Awaited, disk, Back, TickTyped, TickShape
  <2> QED BY <1>1, <2>1, Blank DEF Kill
\* The loop writes: a heartbeat, or the end of a record nobody works on.
<1>8. ASSUME NEW s \in Job, BeatLoad(s) PROVE OnDisk'
  <2>1. /\ UNCHANGED <<ledger, worker>>
        /\ tick'.pc = "sweep" \/ (tick'.pc = "beatsave" /\ tick'.held.state = "running")
    BY <1>8 DEF BeatLoad, disk, TickTyped, TickShape
  <2> QED BY <2>1 DEF OnDisk, WorkIsOnDisk
<1>9. CASE BeatSave
  <2>1. Save(tick.id, tick.held) /\ tick.held.state = "running" /\ UNCHANGED worker /\ tick'.pc = "sweep"
    BY <1>9 DEF BeatSave, OnDisk, Back, TickTyped, TickShape
  <2> QED BY <2>1, <1>0, SaveReads DEF OnDisk, WorkIsOnDisk, NonTerminal
<1>10. CASE DeathSave \/ StaleSave
  <2>1. /\ Save(tick.id, tick.held) /\ tick.pc \in {"deathsave", "stalesave"} /\ UNCHANGED worker
        /\ tick'.pc \in {"deathcount", "stale"}
    BY <1>10 DEF DeathSave, StaleSave, Back, TickTyped, TickShape
  <2>2. \A w \in Worker : worker[w].pc # "free" => worker[w].spec # tick.id
    BY <2>1, <1>0, Vacant DEF Homes, Handling
  <2> QED BY <2>1, <2>2, <1>0, SaveReads DEF OnDisk, WorkIsOnDisk
<1>11. ASSUME NEW s \in Job, StaleLoad(s) PROVE OnDisk'
  <2>1. UNCHANGED <<ledger, worker>> /\ tick'.pc \in {"stale", "stalesave"}
    BY <1>11 DEF StaleLoad, disk, TickTyped, TickShape
  <2> QED BY <1>1, <2>1
<1>12. ASSUME NEW s \in Job, ShutdownRecord(s) \/ Rebuild(s) PROVE OnDisk'
  <2>1. /\ tick.pc \in {"shutdown", "rebuild"} /\ UNCHANGED worker
        /\ tick'.pc \in {"shutdown", "rebuild", "idle"}
    BY <1>12, Blank DEF ShutdownRecord, Rebuild, TickTyped, TickShape
  <2>2. \A w \in Worker : worker[w].pc = "free"
    BY <2>1 DEF Homes
  <2> QED BY <2>1, <2>2 DEF OnDisk, WorkIsOnDisk
\* The loop spawns: Scheduled is on disk before the task is made.
<1>13. ASSUME NEW s \in Job, Drain(s) \/ Dispatch(s) PROVE OnDisk'
  <2>1. UNCHANGED <<ledger, worker>>
    BY <1>13 DEF Drain, Dispatch, disk
  <2>2. \/ tick.pc = "drain" /\ tick' = [tick EXCEPT !.todo = @ \ {s}, !.seen[s] = NoRecord]
        \/ \E n, next : tick' = ToSpawn(tick, s, n, next)
    BY <1>13 DEF Drain, Dispatch
  <2>4. \A n : NonTerminal(Scheduled(n))
    BY DEF Scheduled, NonTerminal
  <2>3. tick'.pc = "drain" \/ (tick'.pc = "save" /\ NonTerminal(tick'.held))
    <3>1. ASSUME NEW n, NEW next, tick' = ToSpawn(tick, s, n, next)
          PROVE  tick'.pc = "save" /\ tick'.held = Scheduled(n)
      BY <3>1 DEF ToSpawn, TickTyped, TickShape
    <3>2. CASE tick' = [tick EXCEPT !.todo = @ \ {s}, !.seen[s] = NoRecord] /\ tick.pc = "drain"
      BY <3>2 DEF TickTyped, TickShape
    <3> QED BY <2>2, <2>4, <3>1, <3>2
  <2> QED BY <2>1, <2>3 DEF OnDisk, WorkIsOnDisk
<1>14. CASE SpawnSave
  <2>1. /\ Save(tick.id, tick.held) /\ NonTerminal(tick.held) /\ UNCHANGED worker
        /\ tick'.pc = "spawn" /\ tick'.id = tick.id
    BY <1>14 DEF SpawnSave, OnDisk, TickTyped, TickShape
  <2> QED BY <2>1, <1>0, SaveReads DEF OnDisk, WorkIsOnDisk
<1>15. CASE SpawnTask
  <2>1. /\ UNCHANGED ledger /\ NonTerminal(ledger[tick.id]) /\ tick'.pc = "insert"
        /\ NextFree \in Worker
    BY <1>15, CanSpawnFree DEF SpawnTask, disk, OnDisk, TickTyped, TickShape
  <2>2. /\ worker'[NextFree].spec = tick.id
        /\ \A v \in Worker \ {NextFree} : worker'[v] = worker[v]
    BY <1>15, <2>1 DEF SpawnTask, Spawn, WorkerTyped
  <2> QED BY <2>1, <2>2 DEF OnDisk, WorkIsOnDisk
<1>16. CASE SpawnInsert
  <2>1. UNCHANGED ledger /\ tick'.pc \in {"idle", "drain", "dispatch"}
    BY <1>16, Blank DEF SpawnInsert, disk, Back, TickTyped, TickShape
  <2>2. \A w \in Worker : worker'[w] = worker[w] \/ worker'[w].pc = "free"
    BY <1>16, Blank DEF SpawnInsert, Insert
  <2> QED BY <1>1, <2>1, <2>2
\* The tasks write their own records.
<1>17. ASSUME NEW w \in Worker, Start(w) PROVE OnDisk'
  <2>1. Save(worker[w].spec, MarkRunning(worker[w].attempt)) /\ Goto(w, "work") /\ UNCHANGED tick
    BY <1>17 DEF Start
  <2>2. OpenKept /\ NonTerminal(ledger'[worker[w].spec])
    BY <2>1, <1>0, SaveReads DEF OpenKept, NonTerminal, MarkRunning
  <2> QED BY <2>1, <2>2, <1>0 DEF Goto, OnDisk, OpenKept, WorkIsOnDisk, WorkerTyped, WorkerShape
<1>18. ASSUME NEW w \in Worker, Finish(w) PROVE OnDisk'
  <2>1. /\ worker[w].pc = "work" /\ UNCHANGED tick /\ (Goto(w, "won") \/ Goto(w, "lost"))
        /\ \E r : Save(worker[w].spec, r)
    BY <1>18 DEF Finish
  <2>2. \A v \in Worker \ {w} : worker[v].pc # "free" => worker[v].spec # worker[w].spec
    BY <2>1, OnePerSpec
  <2>3. tick.pc = "spawn" => tick.id # worker[w].spec
    BY <2>1, <1>0, Vacant DEF Homes, Handling
  <2>4. \A s \in Job : s # worker[w].spec => ledger'[s] = ledger[s]
    BY <2>1, <1>0, SaveReads
  <2>5. /\ worker'[w].pc \in {"won", "lost"}
        /\ \A v \in Worker \ {w} : worker'[v] = worker[v]
    BY <2>1 DEF Goto, WorkerTyped, WorkerShape
  <2> QED BY <2>1, <2>2, <2>3, <2>4, <2>5, <1>0 DEF OnDisk, WorkIsOnDisk
<1>19. ASSUME NEW w \in Worker,
              Succeed(w) \/ Fail(w) \/ Alert(w) \/ AutoPause(w) \/ Panic(w) \/ Expire(w)
       PROVE  OnDisk'
  <2>1. UNCHANGED <<ledger, tick>>
    BY <1>19 DEF Succeed, Fail, Alert, AutoPause, Panic, Expire, disk
  <2>2. ASSUME NEW v \in Worker, worker'[v].pc \in {"born", "work"}
        PROVE  worker[v].pc \in {"born", "work"} /\ worker'[v].spec = worker[v].spec
    <3>1. CASE v # w
      BY <1>19, <2>2, <3>1 DEF Succeed, Fail, Alert, AutoPause, Panic, Expire, End, Goto, WorkerTyped
    <3>2. CASE v = w
      <4>1. ASSUME NEW how \in Ended, End(w, how) PROVE worker'[w].pc \notin {"born", "work"}
        BY <4>1, Blank DEF End, Ended, WorkerTyped, WorkerShape
      <4>2. ~(Succeed(w) \/ Alert(w) \/ AutoPause(w) \/ Panic(w))
        BY <4>1, <2>2, <3>2 DEF Succeed, Alert, AutoPause, Panic, Ended
      <4>3. CASE Fail(w)
        <5>1. Policy(worker[w].spec) \in {"pause", "alert", "quiet"}
          BY <1>0, PolicyKinds
        <5> QED BY <4>1, <4>3, <5>1, <2>2, <3>2 DEF Fail, Goto, Ended, WorkerTyped, WorkerShape
      <4>4. CASE Expire(w)
        BY <2>2, <3>2, <4>4 DEF Expire, WorkerTyped, WorkerShape
      <4> QED BY <1>19, <4>2, <4>3, <4>4
    <3> QED BY <3>1, <3>2
  <2> QED BY <2>1, <2>2 DEF OnDisk, WorkIsOnDisk
<1>20. CASE Crash \/ Shutdown
  <2>1. tick'.pc \in {"boot", "shutdown"} /\ \A w \in Worker : worker'[w].pc = "free"
    BY <1>20, Blank DEF Crash, Shutdown, Restart, TickShape
  <2> QED BY <2>1 DEF OnDisk, WorkIsOnDisk
<1>21. CASE UNCHANGED <<ledger, worker, tick>>
  BY <1>21 DEF OnDisk, WorkIsOnDisk
<1>22. \/ UNCHANGED <<ledger, worker, tick>> \/ Crash \/ Shutdown \/ Loop
       \/ \E w \in Worker : Task(w) \/ Expire(w)
  BY OperatorIsIdle DEF Next, vars, disk, Age
<1> QED BY <1>2, <1>3, <1>4, <1>5, <1>6, <1>7, <1>8, <1>9, <1>10, <1>11, <1>12, <1>13, <1>14, <1>15,
           <1>16, <1>17, <1>18, <1>19, <1>20, <1>21, <1>22
        DEF Loop, Sweep, Launch, Boot, Task

\* Without operators: work never lacks its open record, so a crash leaves
\* something to resume; no chain of resurrections passes its cap; and a
\* one-shot is dispatched once, whatever crashes.
THEOREM CrashesAreSafe == ASSUME MaxCommands = 0 PROVE Spec => []CrashSafe
<1>1. Init => Placed /\ OnDisk
  <2>1. Init => OnDisk
    BY Blank DEF Init, OnDisk, WorkIsOnDisk
  <2> QED BY <2>1, InitPlaced
<1>2. Placed /\ OnDisk /\ [Next]_vars => (Placed /\ OnDisk)'
  BY PlacedStep, OnDiskStep
<1>3. Placed /\ OnDisk /\ OneShotOnce => CrashSafe
  BY TypedMeansTypeOK DEF Placed, OnDisk, CrashSafe
<1> QED BY <1>1, <1>2, <1>3, FiredOnce, PTL DEF Spec

-----------------------------------------------------------------------------
(* The failures: a task that died without its accounting is behind a handle *)
(* or in the loop's hands until its death is counted, and who is about to   *)
(* alert has a streak.                                                     *)

Counted == \A s \in debt :
    \/ running[s] # NoWorker /\ worker[running[s]].pc = "panicked"
    \/ tick.id = s /\ tick.pc \in {"death", "deathsave", "deathcount"}
    \/ tick.id = s /\ tick.new # NoWorker /\ worker[tick.new].pc = "panicked"

LEMMA InitCounted == Init => Counted
BY DEF Init, Counted

\* A task that is dead stays as it is.
DeadKept == \A w \in Worker : worker[w].pc = "panicked" => worker'[w] = worker[w]

LEMMA TaskKeepsDead ==
    ASSUME Typed, NEW w \in Worker, Task(w) \/ Expire(w) PROVE DeadKept
<1>1. worker[w].pc # "panicked"
  BY DEF Task, Start, Finish, Succeed, Fail, Alert, AutoPause, Panic, Expire, Live
<1>2. \A v \in Worker : v # w => worker'[v] = worker[v]
  BY DEF Task, Start, Finish, Succeed, Fail, Alert, AutoPause, Panic, Expire, End, Goto,
         Typed, WorkerTyped
<1> QED BY <1>1, <1>2 DEF DeadKept

LEMMA CountedStep == ASSUME Placed, Counted, MaxCommands = 0, [Next]_vars PROVE Counted'
<1> USE DEF Placed, Typed
<1>0. /\ \A s \in Job : running[s] \in Worker \cup {NoWorker}
      /\ tick.new \in Worker \cup {NoWorker} /\ tick.id \in Job /\ NoWorker \notin Worker
      /\ \A w \in Worker : worker[w].spec \in Job
      /\ debt \subseteq Job
  BY ConfigAssumption DEF RunningTyped, TickTyped, TickShape, WorkerTyped, WorkerShape, CountTyped
\* The loop, with no death in its hands.
<1>1. ASSUME NoHandOver, UNCHANGED <<running, debt>>, DeadKept,
             tick.pc \notin {"death", "deathsave", "deathcount"}
      PROVE  Counted'
  BY <1>1, <1>0 DEF Counted, DeadKept, NoHandOver, Handles
<1>2. ASSUME Loop, UNCHANGED <<running, debt, worker>>, ~Awaited, ~SpawnTask, ~SpawnInsert,
             \A s \in Job : ~Drop(s), tick.pc \notin {"death", "deathsave", "deathcount"}
      PROVE  Counted'
  <2>1. DeadKept
    BY <1>2 DEF DeadKept
  <2> QED BY <1>1, <1>2, <2>1, LoopKeeps
<1>3. CASE AskCancel
  <2>1. /\ NoHandOver /\ tick.pc = "sweep" /\ UNCHANGED <<running, debt>>
        /\ \A w \in Worker : worker[w].pc \notin Live => worker'[w] = worker[w]
    BY <1>3 DEF AskCancel, Beaten, ghost, NoHandOver, TickTyped, TickShape
  <2>2. DeadKept
    BY <2>1 DEF DeadKept, Live
  <2> QED BY <2>1, <2>2, <1>1
<1>4. CASE DeathLoad \/ DeathSave
  <2>1. /\ UNCHANGED <<running, debt, worker>> /\ tick.pc \in {"death", "deathsave"}
        /\ tick'.pc \in {"deathsave", "deathcount"} /\ tick'.id = tick.id /\ tick'.new = tick.new
    BY <1>4 DEF DeathLoad, DeathSave, ghost, TickTyped, TickShape
  <2> QED BY <2>1 DEF Counted
<1>5. CASE DeathCount
  <2>1. UNCHANGED <<running, worker>> /\ debt' = debt \ {tick.id}
    BY <1>5 DEF DeathCount
  <2>2. tick.pc = "deathcount"
    BY <1>5 DEF DeathCount
  <2> QED BY <2>1, <2>2 DEF Counted
\* A death comes into the loop's hands.
<1>6. ASSUME NEW s \in Job, HardAbort(s) PROVE Counted'
  <2>1. /\ tick.pc = "sweep" /\ tick'.pc = "death" /\ tick'.id = s /\ debt' = debt \cup {s}
        /\ running' = [running EXCEPT ![s] = NoWorker] /\ Kill({running[s]})
    BY <1>6 DEF HardAbort, Beaten, TickTyped, TickShape
  <2> QED BY <2>1, <1>0 DEF Counted, Handles, Kill, RunningTyped
<1>7. ASSUME NEW s \in Job, Drop(s) PROVE Counted'
  <2>1. /\ tick.pc = "sweep" /\ tick.new = NoWorker /\ UNCHANGED debt
        /\ running' = [running EXCEPT ![s] = NoWorker]
    BY <1>7 DEF Drop, Dropping, Beaten, Handles, ghost
  <2>2. ASSUME NEW t \in debt, t # s
        PROVE  running'[t] # NoWorker /\ worker'[running'[t]].pc = "panicked"
    <3>1. t \in Job /\ running[t] # NoWorker /\ worker[running[t]].pc = "panicked"
      BY <2>1, <2>2, <1>0 DEF Counted
    <3>2. running[t] # running[s]
      BY <2>2, <3>1 DEF Handles
    <3>3. UNCHANGED worker \/ Kill({running[s]}) \/ Kill({})
      BY <1>7 DEF Drop
    <3> QED BY <2>1, <2>2, <3>1, <3>2, <3>3, <1>0 DEF Kill, RunningTyped
  <2>3. CASE s \in debt
    <3>1. running[s] # NoWorker /\ worker[running[s]].pc = "panicked"
      BY <2>1, <2>3 DEF Counted
    <3>2. tick'.pc = "death" /\ tick'.id = s
      BY <1>7, <3>1 DEF Drop, TickTyped, TickShape
    <3> QED BY <2>1, <2>2, <3>2 DEF Counted
  <2>4. CASE s \notin debt
    BY <2>1, <2>2, <2>4 DEF Counted
  <2> QED BY <2>3, <2>4
<1>8. CASE Awaited
  <2>1. tick.pc = "await" /\ UNCHANGED <<running, debt>> /\ Kill({tick.new}) /\ tick.new # NoWorker
    BY <1>8 DEF Awaited, ghost, Handles
  <2>2. worker[tick.new].pc = "panicked" => tick'.pc = "death" /\ tick'.id = tick.id
    BY <1>8 DEF Awaited, TickTyped, TickShape
  <2> QED BY <2>1, <2>2, <1>0 DEF Counted, Handles, Kill
\* A new task and its handle.
<1>9. CASE SpawnTask
  <2>1. /\ tick.pc = "spawn" /\ UNCHANGED <<running, debt>>
        /\ NextFree \in Worker /\ worker[NextFree].pc = "free"
    BY <1>9, CanSpawnFree DEF SpawnTask, ghost
  <2>2. \A v \in Worker \ {NextFree} : worker'[v] = worker[v]
    BY <1>9, <2>1 DEF SpawnTask, Spawn, WorkerTyped
  <2> QED BY <2>1, <2>2, <1>0 DEF Counted, Handles
<1>10. CASE SpawnInsert
  <2>1. /\ tick.pc = "insert" /\ Insert(tick.id, tick.new) /\ tick.new \in Worker
        /\ running[tick.id] = NoWorker /\ UNCHANGED debt
    BY <1>10, <1>0 DEF SpawnInsert, Homes, Handles, Handling, ghost
  <2>2. /\ running' = [running EXCEPT ![tick.id] = tick.new]
        /\ \A v \in Worker : worker'[v] = worker[v]
    BY <2>1, <1>0 DEF Insert
  <2> QED BY <2>1, <2>2, <1>0 DEF Counted, RunningTyped
\* The tasks.
<1>11. ASSUME NEW w \in Worker, Task(w) \/ Expire(w) PROVE Counted'
  <2>1. DeadKept /\ UNCHANGED <<running, tick, op>>
    BY <1>11, TaskKeepsDead, TaskKeeps
  <2>2. CASE UNCHANGED debt
    BY <2>1, <2>2, <1>0 DEF Counted, DeadKept
  <2>3. CASE Panic(w) /\ Held(w)
    <3>1. worker'[w].pc = "panicked" /\ debt' = debt \cup {worker[w].spec}
      BY <2>3 DEF Panic, End, WorkerTyped, WorkerShape
    <3>2. \/ running[worker[w].spec] = w
          \/ tick.new = w /\ tick.id = worker[w].spec
      BY <2>3, <1>0, Blank DEF Held, Handles, NoOperator
    <3> QED BY <2>1, <3>1, <3>2, <1>0 DEF Counted, DeadKept
  <2>4. UNCHANGED debt \/ (Panic(w) /\ Held(w))
    BY <1>11 DEF Task, Start, Finish, Succeed, Fail, Alert, AutoPause, Panic, Expire, ghost
  <2> QED BY <2>2, <2>3, <2>4
<1>12. CASE Crash \/ Shutdown
  BY <1>12 DEF Crash, Shutdown, Restart, Counted
<1>13. CASE UNCHANGED <<running, worker, tick, debt>>
  BY <1>13 DEF Counted
<1>14. CASE Loop
  <2>1. \/ UNCHANGED <<running, debt, worker>> \/ AskCancel \/ DeathCount \/ Awaited \/ SpawnTask
        \/ SpawnInsert \/ \E s \in Job : HardAbort(s) \/ Drop(s)
    BY <1>14 DEF Loop, Sweep, Launch, Boot, ghost, TickBegin, Classify, BeatLoad, BeatSave,
         DeathLoad, DeathSave, DeathAlert, DeathPause, StaleBegin,
         StaleLoad, StaleSave, DrainList, DrainPlan, Drain, Plan, Dispatch, SpawnSave,
         ShutdownRecord, ShutdownDone, BootList, Rebuild
  <2>2. tick.pc \in {"death", "deathsave", "deathcount"} => DeathLoad \/ DeathSave \/ DeathCount
    BY <1>14 DEF Loop, Sweep, Launch, Boot, TickBegin, Classify, BeatLoad, BeatSave, AskCancel,
         HardAbort, Drop, Dropping, Beaten, Awaited, DeathAlert, DeathPause, StaleBegin,
         StaleLoad, StaleSave, DrainList, DrainPlan, Drain, Plan, Dispatch, SpawnSave,
         SpawnTask, SpawnInsert, ShutdownRecord, ShutdownDone, BootList, Rebuild
  <2> QED BY <1>14, <2>1, <2>2, <1>2, <1>3, <1>4, <1>5, <1>6, <1>7, <1>8, <1>9, <1>10
<1>15. \/ UNCHANGED <<running, worker, tick, debt>> \/ Crash \/ Shutdown \/ Loop
       \/ \E w \in Worker : Task(w) \/ Expire(w)
  BY OperatorIsIdle DEF Next, vars, ghost, Age
<1> QED BY <1>11, <1>12, <1>13, <1>14, <1>15

Muting ==
    /\ AlertedMeansStreak
    /\ \A w \in Worker : worker[w].pc = "alert" => failures[worker[w].spec] >= AlertAfter
    /\ tick.pc = "alert" => failures[tick.id] >= AlertAfter

LEMMA InitMuting == Init => Muting
BY Blank DEF Init, Muting, AlertedMeansStreak

\* One failure more: the streak grows, or starts again unmuted.
LEMMA FailureCounted ==
    ASSUME Typed, AlertedMeansStreak, NEW s \in Job, CountFailure(s)
    PROVE  /\ AlertedMeansStreak' /\ \A t \in Job \ {s} : failures'[t] = failures[t]
           /\ Policy(s) = "alert" => failures'[s] >= AlertAfter
<1>1. failures \in [Job -> Nat] /\ alerted \subseteq Job /\ AlertAfter \in Nat
  BY ConfigAssumption DEF Typed, StreakTyped
<1>2. CASE Policy(s) = "pause"
  <2>1. failures' = [failures EXCEPT ![s] = 0] /\ alerted' = alerted \ {s}
    BY <1>2 DEF CountFailure
  <2> QED BY <1>1, <1>2, <2>1 DEF AlertedMeansStreak
<1>3. CASE Policy(s) # "pause"
  <2>1. failures' = [failures EXCEPT ![s] = @ + 1] /\ alerted' = alerted
    BY <1>3 DEF CountFailure
  <2>2. Policy(s) = "alert" => failures[s] + 1 >= AlertAfter
    BY DEF Policy
  <2> QED BY <1>1, <2>1, <2>2 DEF AlertedMeansStreak
<1> QED BY <1>2, <1>3

LEMMA SuccessCounted ==
    ASSUME Typed, AlertedMeansStreak, NEW s \in Job, CountSuccess(s)
    PROVE  AlertedMeansStreak' /\ \A t \in Job \ {s} : failures'[t] = failures[t]
<1>1. failures \in [Job -> Nat] /\ alerted \subseteq Job
  BY DEF Typed, StreakTyped
<1> QED BY <1>1 DEF CountSuccess, AlertedMeansStreak

\* Who is about to alert is the only task of its spec.
LEMMA AlertingAlone ==
    ASSUME Placed, NEW w \in Worker, worker[w].pc # "free"
    PROVE  /\ \A v \in Worker \ {w} : worker[v].pc = "alert" => worker[v].spec # worker[w].spec
           /\ tick.pc = "alert" => tick.id # worker[w].spec
<1>1. worker[w].spec \in Job /\ tick.id \in Job
  BY DEF Placed, Typed, WorkerTyped, WorkerShape, TickTyped, TickShape
<1>2. \A v \in Worker \ {w} : worker[v].pc = "alert" => worker[v].spec # worker[w].spec
  BY OnePerSpec
<1>3. ASSUME tick.pc = "alert", tick.id = worker[w].spec PROVE FALSE
  <2>1. running[tick.id] = NoWorker
    BY <1>3 DEF Placed, Homes, Handling
  <2> QED BY <1>1, <1>3, <2>1, Vacant
<1> QED BY <1>2, <1>3

LEMMA MutingStep == ASSUME Placed, Muting, MaxCommands = 0, [Next]_vars PROVE Muting'
<1> USE DEF Placed, Typed
<1>0. /\ tick.id \in Job /\ \A w \in Worker : worker[w].spec \in Job
      /\ failures \in [Job -> Nat] /\ AlertAfter \in Nat
  BY ConfigAssumption DEF TickTyped, TickShape, WorkerTyped, WorkerShape, StreakTyped
<1>1. ASSUME UNCHANGED <<failures, alerted>>,
             \A w \in Worker : worker'[w].pc = "alert" =>
               worker[w].pc = "alert" /\ worker'[w].spec = worker[w].spec,
             tick'.pc = "alert" => tick.pc = "alert" /\ tick'.id = tick.id
      PROVE  Muting'
  BY <1>1 DEF Muting, AlertedMeansStreak
<1>2. ASSUME NEW w \in Worker, Start(w) \/ Finish(w) \/ AutoPause(w) \/ Panic(w) \/ Expire(w)
      PROVE  Muting'
  <2>1. UNCHANGED <<failures, alerted, tick>>
    BY <1>2 DEF Start, Finish, AutoPause, Panic, Expire, streak
  <2>2. ASSUME NEW v \in Worker, worker'[v].pc = "alert"
        PROVE  worker[v].pc = "alert" /\ worker'[v].spec = worker[v].spec
    <3>1. CASE v # w
      BY <1>2, <2>2, <3>1 DEF Start, Finish, AutoPause, Panic, Expire, End, Goto, WorkerTyped
    <3>2. CASE v = w
      <4>1. ~(AutoPause(w) \/ Panic(w))
        BY <2>2, <3>2, Blank DEF AutoPause, Panic, End, WorkerTyped, WorkerShape
      <4>2. ~(Start(w) \/ Finish(w))
        BY <2>2, <3>2 DEF Start, Finish, Goto, WorkerTyped, WorkerShape
      <4>3. CASE Expire(w)
        BY <2>2, <3>2, <4>3 DEF Expire, WorkerTyped, WorkerShape
      <4> QED BY <1>2, <4>1, <4>2, <4>3
    <3> QED BY <3>1, <3>2
  <2> QED BY <1>1, <2>1, <2>2
\* The tasks account for themselves.
<1>3. ASSUME NEW w \in Worker, Succeed(w) PROVE Muting'
  <2>1. worker[w].pc = "won" /\ CountSuccess(worker[w].spec) /\ End(w, "done") /\ UNCHANGED tick
    BY <1>3 DEF Succeed
  <2>2. /\ worker'[w].pc # "alert"
        /\ \A v \in Worker \ {w} : worker'[v] = worker[v]
    BY <2>1, Blank DEF End, WorkerTyped, WorkerShape
  <2>3. /\ AlertedMeansStreak'
        /\ \A t \in Job : t # worker[w].spec => failures'[t] = failures[t]
    BY <2>1, <1>0, SuccessCounted DEF Muting
  <2> QED BY <2>1, <2>2, <2>3, <1>0, AlertingAlone DEF Muting
<1>4. ASSUME NEW w \in Worker, Fail(w) PROVE Muting'
  <2>1. worker[w].pc = "lost" /\ CountFailure(worker[w].spec) /\ UNCHANGED tick
    BY <1>4 DEF Fail
  <2>2. /\ \A v \in Worker \ {w} : worker'[v] = worker[v]
        /\ worker'[w].pc = "alert" => Policy(worker[w].spec) = "alert" /\ worker'[w].spec = worker[w].spec
    <3>1. CASE Policy(worker[w].spec) = "quiet"
      BY <1>4, <3>1, Blank DEF Fail, End, WorkerTyped, WorkerShape
    <3>2. CASE Policy(worker[w].spec) # "quiet"
      BY <1>4, <3>2 DEF Fail, Goto, WorkerTyped, WorkerShape
    <3> QED BY <3>1, <3>2
  <2>3. /\ AlertedMeansStreak'
        /\ \A t \in Job : t # worker[w].spec => failures'[t] = failures[t]
        /\ Policy(worker[w].spec) = "alert" => failures'[worker[w].spec] >= AlertAfter
    BY <2>1, <1>0, FailureCounted DEF Muting
  <2> QED BY <2>1, <2>2, <2>3, <1>0, AlertingAlone DEF Muting
<1>5. ASSUME NEW w \in Worker, Alert(w) PROVE Muting'
  <2>1. /\ worker[w].pc = "alert" /\ Notify(worker[w].spec) /\ End(w, "done")
        /\ UNCHANGED <<failures, tick>>
    BY <1>5 DEF Alert
  <2>2. /\ worker'[w].pc # "alert"
        /\ \A v \in Worker \ {w} : worker'[v] = worker[v]
    BY <2>1, Blank DEF End, WorkerTyped, WorkerShape
  <2>3. AlertedMeansStreak'
    BY <2>1 DEF Notify, Muting, AlertedMeansStreak
  <2> QED BY <2>1, <2>2, <2>3 DEF Muting
\* The loop accounts for a death.
<1>6. CASE DeathCount
  <2>1. /\ tick.pc = "deathcount" /\ CountFailure(tick.id) /\ UNCHANGED worker
    BY <1>6 DEF DeathCount
  <2>2. tick'.pc = "alert" => Policy(tick.id) = "alert" /\ tick'.id = tick.id
    <3>1. CASE Policy(tick.id) = "quiet"
      BY <1>6, <3>1 DEF DeathCount, Back, TickTyped, TickShape
    <3>2. CASE Policy(tick.id) # "quiet"
      BY <1>6, <3>2 DEF DeathCount, TickTyped, TickShape
    <3> QED BY <3>1, <3>2
  <2>3. /\ AlertedMeansStreak'
        /\ \A t \in Job : t # tick.id => failures'[t] = failures[t]
        /\ Policy(tick.id) = "alert" => failures'[tick.id] >= AlertAfter
    BY <2>1, <1>0, FailureCounted DEF Muting
  <2>4. \A w \in Worker : worker[w].pc # "free" => worker[w].spec # tick.id
    BY <2>1, <1>0, Vacant DEF Homes, Handling
  <2> QED BY <2>1, <2>2, <2>3, <2>4, <1>0 DEF Muting
<1>7. CASE DeathAlert
  <2>1. /\ tick.pc = "alert" /\ Notify(tick.id) /\ UNCHANGED <<failures, worker>> /\ tick'.pc = "sweep"
    BY <1>7 DEF DeathAlert, Back, TickTyped, TickShape
  <2>2. AlertedMeansStreak'
    BY <2>1 DEF Notify, Muting, AlertedMeansStreak
  <2> QED BY <2>1, <2>2 DEF Muting
\* The loop elsewhere.
<1>8. ASSUME Loop, ~DeathCount, ~DeathAlert
      PROVE  UNCHANGED <<failures, alerted>> /\ tick'.pc # "alert"
  <2>1. UNCHANGED <<failures, alerted>>
    BY <1>8 DEF Loop, Sweep, Launch, Boot, streak, TickBegin, Classify, BeatLoad, BeatSave, AskCancel,
         HardAbort, Drop, Awaited, DeathLoad, DeathSave, DeathPause, StaleBegin, StaleLoad,
         StaleSave, DrainList, DrainPlan, Drain, Plan, Dispatch, SpawnSave, SpawnTask,
         SpawnInsert, ShutdownRecord, ShutdownDone, BootList, Rebuild
  <2>2. CASE TickBegin \/ Classify \/ BeatSave \/ AskCancel \/ DeathLoad \/ DeathSave \/ DeathPause
             \/ StaleBegin \/ StaleSave \/ Awaited \/ ShutdownDone
    BY <2>1, <2>2 DEF TickBegin, Classify, BeatSave, AskCancel, DeathLoad, DeathSave, DeathPause,
         StaleBegin, StaleSave, Awaited, ShutdownDone, Beaten, Back, TickTyped, TickShape
  <2>3. CASE DrainList \/ DrainPlan \/ SpawnSave \/ SpawnTask
    BY <2>1, <2>3 DEF DrainList, DrainPlan, SpawnSave, SpawnTask, TickTyped, TickShape
  <2>4. CASE BootList
    BY <2>1, <2>4, Blank DEF BootList, TickTyped, TickShape
  <2>5. CASE SpawnInsert
    BY <2>1, <2>5, Blank DEF SpawnInsert, Back, TickTyped, TickShape
  <2>6. CASE Plan
    BY <2>1, <2>6, Blank DEF Plan, TickShape
  <2>7. ASSUME NEW s \in Job, BeatLoad(s) \/ HardAbort(s) \/ StaleLoad(s) PROVE tick'.pc # "alert"
    BY <2>7 DEF BeatLoad, HardAbort, StaleLoad, Beaten, TickTyped, TickShape
  <2>8. ASSUME NEW s \in Job, Drain(s) \/ Dispatch(s) PROVE tick'.pc # "alert"
    BY <2>8 DEF Drain, Dispatch, ToSpawn, TickTyped, TickShape
  <2>9. ASSUME NEW s \in Job, ShutdownRecord(s) \/ Rebuild(s) PROVE tick'.pc # "alert"
    BY <2>9, Blank DEF ShutdownRecord, Rebuild, TickTyped, TickShape
  <2>10. ASSUME NEW s \in Job, Drop(s) PROVE tick'.pc # "alert"
    BY <2>10 DEF Drop, Dropping, Beaten, TickTyped, TickShape
  <2> QED BY <1>8, <2>1, <2>2, <2>3, <2>4, <2>5, <2>6, <2>7, <2>8, <2>9, <2>10
          DEF Loop, Sweep, Launch, Boot
<1>9. CASE Loop /\ ~DeathCount /\ ~DeathAlert
  <2>1. ASSUME NEW w \in Worker, worker'[w].pc = "alert"
        PROVE  worker[w].pc = "alert" /\ worker'[w].spec = worker[w].spec
    <3>1. CASE UNCHANGED worker \/ \E ws : Kill(ws)
      BY <2>1, <3>1, Blank DEF Kill
    <3>2. CASE AskCancel
      BY <2>1, <3>2 DEF AskCancel, WorkerTyped, WorkerShape
    <3>3. CASE SpawnTask
      BY <2>1, <3>3, CanSpawnFree DEF SpawnTask, Spawn, WorkerTyped
    <3>4. CASE SpawnInsert
      BY <2>1, <3>4, Blank DEF SpawnInsert, Insert
    <3>5. (UNCHANGED worker \/ \E ws : Kill(ws)) \/ AskCancel \/ SpawnTask \/ SpawnInsert
      BY <1>9 DEF Loop, Sweep, Launch, Boot, TickBegin, Classify, BeatLoad, BeatSave,
         HardAbort, Drop, Awaited, DeathLoad, DeathSave, DeathPause, StaleBegin, StaleLoad,
         StaleSave, DrainList, DrainPlan, Drain, Plan, Dispatch, SpawnSave,
         ShutdownRecord, ShutdownDone, BootList, Rebuild
    <3> QED BY <3>1, <3>2, <3>3, <3>4, <3>5
  <2> QED BY <1>1, <1>8, <1>9, <2>1
<1>10. CASE Crash \/ Shutdown
  <2>1. /\ tick'.pc \in {"boot", "shutdown"} /\ \A w \in Worker : worker'[w].pc = "free"
        /\ alerted' = {}
    BY <1>10, Blank DEF Crash, Shutdown, Restart, TickShape
  <2> QED BY <2>1 DEF Muting, AlertedMeansStreak
<1>11. CASE UNCHANGED <<worker, tick, streak>>
  BY <1>11 DEF Muting, AlertedMeansStreak, streak
<1>12. \/ UNCHANGED <<worker, tick, streak>> \/ Crash \/ Shutdown \/ Loop
       \/ \E w \in Worker : Task(w) \/ Expire(w)
  BY OperatorIsIdle DEF Next, vars, Age
<1> QED BY <1>2, <1>3, <1>4, <1>5, <1>6, <1>7, <1>9, <1>10, <1>11, <1>12 DEF Task

\* Without operators: every death reaches the streak of its spec, and a spec
\* is muted only within a streak that reached the threshold.
THEOREM FailuresReachTheStreak == ASSUME MaxCommands = 0 PROVE Spec => []FailuresAreHeard
<1>1. Init => Placed /\ Counted /\ Muting
  BY InitPlaced, InitCounted, InitMuting
<1>2. Placed /\ Counted /\ Muting /\ [Next]_vars => (Placed /\ Counted /\ Muting)'
  BY PlacedStep, CountedStep, MutingStep
<1>3. Placed /\ Counted /\ Muting => FailuresAreHeard
  <2> SUFFICES ASSUME Placed, Counted, Muting PROVE DeathIsCounted /\ AlertedMeansStreak
    BY DEF FailuresAreHeard
  <2>1. DeathIsCounted
    BY DEF Placed, Typed, CountTyped, Handles, Counted, DeathIsCounted, Tracked
  <2> QED BY <2>1 DEF Muting
<1> QED BY <1>1, <1>2, <1>3, PTL DEF Spec
=============================================================================
