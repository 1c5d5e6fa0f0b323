------------------------------- MODULE Parts -------------------------------
(***************************************************************************)
(* Eleven parts of the system that share no state with each other nor      *)
(* with the rest: the file tools, the limiter of edits, the pool of keys,  *)
(* the supervisor of tasks, the client of an MCP server, the lasting       *)
(* shells, the memory, the research runs, the health of the models, the    *)
(* markers of interrupted turns and the watchdog.  A behaviour is one of   *)
(* any of them; the state of the others stays as it began.  The memory,    *)
(* the research runs and the markers are declared in Stores.               *)
(***************************************************************************)
EXTENDS Naturals, FiniteSets, Stores

CONSTANTS
    Agent, Spelled, Inode, Grain, MaxEntries, Plans, MaxOutside, Droppable,      \* FileTools
    EditorKind, Crowds, Budget, Window, Gap, DropAfter, MaxGap, MaxTries,
    RetryAfter, MaxEdits,                                                        \* EditLimiter
    ApiKey, Cycle, Tries, Requests, MaxChanges, MaxAged,                         \* KeyPool
    Initial, Longest, Multiplier, Cap, Listens, MaxFaults,                       \* Supervisor
    Client, MaxCalls, MaxDropped, MaxChatter,                                    \* McpTransport
    Shell, MaxShells, MaxRuns, MaxCancelled, MaxExits,                           \* ShellSessions
    Thread, EmptyAt, ErrorAt, Horizon, Quarantine, Recovery, MaxEvents, MaxTicks,
    MaxMishaps,                                                                  \* ModelHealth
    WatchdogSec, Grace, PollTimeout, TickInterval, BuildLimit,
    MaxSilence, MaxStuck                                                         \* Watchdog

\* The budget has room for an edit; neither the window nor the gap is longer than the
\* longest wait (rate_limit.rs).
ASSUME LimiterAssumption ==
    /\ {Budget, Window, Gap, DropAfter, MaxGap, MaxTries, MaxEdits} \subseteq Nat
    /\ Budget > 0 /\ Window > 0 /\ Window <= MaxGap /\ Gap <= MaxGap
    /\ RetryAfter \subseteq Nat
    /\ \A who \in Crowds : who \subseteq DOMAIN EditorKind /\ IsFiniteSet(who)

\* None is no caller of a tool (transport.rs).
ASSUME McpAssumption == None \notin Client

\* There are shells enough for those of the map and one of each session, so that a new one
\* is always new (persistent_bash.rs).
ASSUME ShellsAssumption ==
    /\ MaxShells \in Nat /\ None \notin Nat /\ None \notin Shell
    /\ IsFiniteSet(Session) /\ IsFiniteSet(Shell)
    /\ MaxShells + Cardinality(Session) <= Cardinality(Shell)

\* Whatever the length of the list, the cursor begins a new round of it when it begins one
\* of Cycle (pool.rs).
ASSUME KeysAssumption ==
    /\ ApiKey \subseteq Nat /\ IsFiniteSet(ApiKey) /\ Cycle \in Nat \ {0}
    /\ \A n \in 1..Cardinality(ApiKey) : Cycle % n = 0
    /\ \A c \in DOMAIN Tries : Tries[c] \in Nat

\* A quarantine lasts; the thresholds and the window are numbers (health.rs).
ASSUME HealthAssumption ==
    /\ {EmptyAt, ErrorAt, Horizon, Quarantine, Recovery, MaxEvents, MaxTicks, MaxMishaps} \subseteq Nat
    /\ Quarantine > 0 /\ MaxTicks > 0

\* The periods fit each other: systemd waits for two looks of the ticker at least; a poll with
\* its pause, and a sleep of the scheduler, are no longer than the silence that is forgiven
\* (watchdog.rs, runtime.rs, lifecycle.rs).  How long a scan takes is not assumed.
ASSUME WatchdogAssumption ==
    /\ {WatchdogSec, Grace, PollTimeout, TickInterval, BuildLimit, MaxStuck} \subseteq Nat
    /\ MaxSilence \in [{"tg_polling.tick", "scheduler.tick"} -> Nat]
    /\ WatchdogSec >= 2 /\ Grace >= 1
    /\ PollTimeout + 1 <= MaxSilence["tg_polling.tick"]
    /\ TickInterval <= MaxSilence["scheduler.tick"]

VARIABLES
    part,
    disk, texts, entries, lru, in_flight, call, seen, answer, abandoned, pool, plan,
    outside,
    window_edits, last_edit, blocked, editor, crowd, edits,
    offered, failing, keys, dead, cursor, stale, draw, used, requests, changes, aged,
    at, bodies, outcome, delay, panics, shutdown, aborted, faults, found,
    inbox, outbox, torn, up, exchange, desynced, next_id, tool_call, result, calls, dropped,
    chatter, disturbed,
    sessions, process, locked, run, jobs, stuck, mixed, runs, cancelled, exits, left,
    clock, ring, health_log, happened, report, last, mishaps,
    bot, scheduler_on, loops, silence, beaten, doubted, ticker, ticked, uptime, unheard,
    overran, late, clock_set, faults_left

files == <<disk, texts, entries, lru, in_flight, call, seen, answer, abandoned, pool, plan, outside>>
limiter == <<window_edits, last_edit, blocked, editor, crowd, edits>>
key_pool == <<offered, failing, keys, dead, cursor, stale, draw, used, requests, changes, aged>>
tasks == <<at, bodies, outcome, delay, panics, shutdown, aborted, faults, found>>
mcp == <<inbox, outbox, torn, up, exchange, desynced, next_id, tool_call, result, calls, dropped,
    chatter, disturbed>>
shells == <<sessions, process, locked, run, jobs, stuck, mixed, runs, cancelled, exits, left>>
health == <<clock, ring, health_log, happened, report, last, mishaps>>
watchdog == <<bot, scheduler_on, loops, silence, beaten, doubted, ticker, ticked, uptime, unheard,
    overran, late, clock_set, faults_left>>
vars == <<part, files, limiter, key_pool, tasks, mcp, shells, memory, research, health, markers,
    watchdog>>

FileTool == INSTANCE FileTools
Limiter == INSTANCE EditLimiter
Keys == INSTANCE KeyPool
Tasks == INSTANCE Supervisor
Mcp == INSTANCE McpTransport
Shells == INSTANCE ShellSessions
Health == INSTANCE ModelHealth
Watch == INSTANCE Watchdog

Init ==
    /\ part \in {"files", "limiter", "keys", "tasks", "mcp", "shells", "memory", "research",
                "health", "markers", "watchdog"}
    /\ FileTool!Init /\ Limiter!Init /\ Keys!Init /\ Tasks!Init
    /\ Mcp!Init /\ Shells!Init /\ Memory!Init /\ Runs!Init
    /\ Health!Init /\ Markers!Init /\ Watch!Init
    \* one start is enough for the parts that stay as they are
    /\ part # "files" => plan = CHOOSE p \in Plans : TRUE
    /\ part # "files" => disk = None
    /\ part # "limiter" => crowd = CHOOSE c \in Crowds : TRUE
    /\ part # "keys" => offered = {}
    /\ part # "research" => scene = CHOOSE s \in Scenes : TRUE
    /\ part # "markers" => chats = CHOOSE c \in ChatsOf : TRUE
    /\ part # "markers" => recent = {}
    /\ part # "watchdog" => scheduler_on

FilesMove ==
    /\ part = "files" /\ FileTool!Next
    /\ UNCHANGED <<part, limiter, key_pool, tasks, mcp, shells, memory, research, health,
        markers, watchdog>>
LimiterMoves ==
    /\ part = "limiter" /\ Limiter!Next
    /\ UNCHANGED <<part, files, key_pool, tasks, mcp, shells, memory, research, health, markers,
        watchdog>>
KeysMove ==
    /\ part = "keys" /\ Keys!Next
    /\ UNCHANGED <<part, files, limiter, tasks, mcp, shells, memory, research, health, markers,
        watchdog>>
TasksMove ==
    /\ part = "tasks" /\ Tasks!Next
    /\ UNCHANGED <<part, files, limiter, key_pool, mcp, shells, memory, research, health,
        markers, watchdog>>
McpMoves ==
    /\ part = "mcp" /\ Mcp!Next
    /\ UNCHANGED <<part, files, limiter, key_pool, tasks, shells, memory, research, health,
        markers, watchdog>>
ShellsMove ==
    /\ part = "shells" /\ Shells!Next
    /\ UNCHANGED <<part, files, limiter, key_pool, tasks, mcp, memory, research, health, markers,
        watchdog>>
MemoryMoves ==
    /\ part = "memory" /\ Memory!Next
    /\ UNCHANGED <<part, files, limiter, key_pool, tasks, mcp, shells, research, health, markers,
        watchdog>>
ResearchMoves ==
    /\ part = "research" /\ Runs!Next
    /\ UNCHANGED <<part, files, limiter, key_pool, tasks, mcp, shells, memory, health, markers,
        watchdog>>
HealthMoves ==
    /\ part = "health" /\ Health!Next
    /\ UNCHANGED <<part, files, limiter, key_pool, tasks, mcp, shells, memory, research, markers,
        watchdog>>
MarkersMove ==
    /\ part = "markers" /\ Markers!Next
    /\ UNCHANGED <<part, files, limiter, key_pool, tasks, mcp, shells, memory, research, health,
        watchdog>>
WatchdogMoves ==
    /\ part = "watchdog" /\ Watch!Next
    /\ UNCHANGED <<part, files, limiter, key_pool, tasks, mcp, shells, memory, research, health,
        markers>>

Next ==
    \/ FilesMove \/ LimiterMoves \/ KeysMove \/ TasksMove
    \/ McpMoves \/ ShellsMove \/ MemoryMoves \/ ResearchMoves
    \/ HealthMoves \/ MarkersMove \/ WatchdogMoves

\* The fairness of each part, while it is the one that moves.
Spec ==
    /\ Init /\ [][Next]_vars
    /\ WF_files(part = "files" /\ FileTool!Progress)
    /\ WF_limiter(part = "limiter" /\ Limiter!Progress)
    /\ WF_key_pool(part = "keys" /\ Keys!Progress)
    /\ WF_tasks(part = "tasks" /\ Tasks!Advance)
    /\ WF_tasks(part = "tasks" /\ Tasks!Obeys)
    /\ WF_mcp(part = "mcp" /\ Mcp!Progress)
    /\ WF_shells(part = "shells" /\ Shells!Progress)
    /\ WF_memory(part = "memory" /\ Memory!Progress)
    /\ WF_research(part = "research" /\ Runs!Progress)
    /\ WF_markers(part = "markers" /\ Markers!Progress)
    /\ WF_watchdog(part = "watchdog" /\ Watch!Progress)

-----------------------------------------------------------------------------
(***************************************************************************)
(* Properties: what each part is to do, stated in its module.              *)
(***************************************************************************)

\* What is asked of one part is asked while it is the one that moves.
Of(name, holds) == part = name => holds

\* The types of every part, with the order and the cap of the file cache, the
\* order of the window of edits and the curve of the backoff.
TypeOK ==
    /\ Of("files", FileTool!TypeOK) /\ Of("limiter", Limiter!TypeOK)
    /\ Of("keys", Keys!TypeOK) /\ Of("tasks", Tasks!TypeOK)
    /\ Of("mcp", Mcp!TypeOK) /\ Of("shells", Shells!TypeOK)
    /\ Of("memory", Memory!TypeOK) /\ Of("research", Runs!TypeOK)
    /\ Of("health", Health!TypeOK) /\ Of("markers", Markers!TypeOK)
    /\ Of("watchdog", Watch!TypeOK)

\* File tools: no tool undoes the work of another (file_lock.rs), and a guarded
\* edit replaces the very text its caller was told of (edit_guard.rs); a read
\* answers a text the file had during the read, and whoever waits for a load of
\* another agent waits for one that goes on, or for one that was dropped with its
\* turn (fs_cache.rs).
FilesHold ==
    /\ TypeOK
    /\ Of("files", FileTool!NoLostUpdate /\ FileTool!GuardedReplacesWhatWasRead)
    /\ Of("files", FileTool!FreshRead /\ FileTool!LoadsGoOn)

\* MCP and shells: whatever timeouts and dropped calls leave in the pipes, no tool
\* call takes the answer of another (transport.rs), and a shell gives a command the
\* output of that command unless a call of its session was dropped or left a job in the
\* background; calls that
\* merely run at the same time cost no server its stream and exceed no cap of shells.
\* A finding lands in the spec of the run that found it, and a run reports no more
\* replacements than were saved (store_fs.rs, runner_dispatch.rs).
AnswersAreOwn ==
    /\ Of("mcp", Mcp!ReplyIsOwn /\ Mcp!GivenUpForACause)
    /\ Of("shells", Shells!OutputIsOwn /\ Shells!ShellsBounded)
    /\ Of("research", Runs!SavesAreOwn /\ Runs!ReplacementsWereSaved)

\* Memory: what somebody was told is stored, by the line that is read of it, stays stored
\* through promotion, folding and crashes when no two writers overlap, unless it was
\* deleted, evicted or cut off a summary; nothing is stored twice, but for first lines of
\* longer texts; a day is marked as digested only when all its promotions are written.  Research: a finding that was
\* stored stays until a gatekeeper removes it, and no URL has two rows, whoever saves,
\* removes or heals beside it (store_fs.rs).  Markers: the file lists the chats whose turn
\* runs, and whom a crash cut off is told so, once (jsonl_store.rs, runtime.rs).
StoredIsKept ==
    /\ Of("memory", Memory!ToldIsKept /\ Memory!NoDuplicates /\ Memory!MarkMeansDone)
    /\ Of("research", Runs!FindingsKept /\ Runs!OneRowEach)
    /\ Of("markers", Markers!MarkersHold)

\* Limiter: one editor keeps the budget of the rolling window, also when an edit
\* is tried again after a 429; no wait passes the ceiling, whatever Telegram asks
\* for; and who asks while the chat is parked sleeps to the end of the park.  Watchdog:
\* a working process is given no cause to be killed, and one with a loop that is stuck is
\* not heard of any more in time (watchdog.rs, liveness.rs).
LimitsHeld ==
    [][/\ Limiter!BudgetHeldAlone' /\ Limiter!CeilingHeld' /\ Limiter!RespectsPark
       /\ Of("watchdog", Watch!FitsTogether)']_<<limiter, watchdog>>

\* Key pool: a refused key does not come back with a refresh that was under way
\* on another thread; while the list stays as it is the keys take turns.  Health: a model
\* is in quarantine for failures of the last hours, and whenever there were enough of
\* them, whoever reported them in whatever order and also after a restart (health.rs).
KeysInTurn ==
    /\ Of("keys", Keys!DeadStaysOut /\ Keys!EvenUse)
    /\ Of("health", Health!HealthHolds)

\* Supervisor: no body is started once the token is cancelled, but for one that
\* was let in at that moment; and who is done has awaited its body.  Research: a run
\* that is over has told its agent to stop, on every path but a hard abort
\* (research_adapter.rs).
StopsInOrder ==
    [][Tasks!StartsUnlessShutDown /\ Tasks!DoneMeansQuiet' /\ Runs!OverMeansStopped']_<<tasks, research>>

\* Every call of a tool, every edit and every request comes to its end, and so do
\* the writers of the memory: no lock, no load of another agent (but one
\* that was dropped with its turn), no 429, no refused key, no silent server and no busy
\* shell (but one that is being killed with its pipe full) is waited for for ever; a research
\* run and its saves end although its agent need not; a start gets past the interrupted turns;
\* a supervised task that failed comes back, and so does a process that was stuck.
WorkEnds ==
    []<>(/\ Of("files", FileTool!Quiet) /\ Of("limiter", Limiter!Quiet) /\ Of("keys", Keys!Quiet)
         /\ Of("mcp", Mcp!Quiet) /\ Of("shells", Shells!Quiet) /\ Of("memory", Memory!Quiet)
         /\ Of("research", Runs!Quiet) /\ Of("tasks", Tasks!UpOrOver)
         /\ Of("markers", Markers!Quiet) /\ Of("watchdog", Watch!Serving))
=============================================================================
