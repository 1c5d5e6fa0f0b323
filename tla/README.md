# tg_agent: models and proofs

TLA+ models of the Telegram agent in `src/naked/crates` (`naked-core`, the agent; `naked-tg`, the bot;
`naked-cli`, a small second front end), the TLC configurations that check them and the theorems TLAPS proves
about them. Paths below are relative to `src/naked/crates`.

| component | module | configurations | proofs |
|---|---|---|---|
| index of live Telegram streams | `RunRegistry` (with `Maps`), promise: `LiveRuns` | `RunRegistry.cfg` | `RunRegistryProofs` |
| a session, its turns and its file | `SessionTurn` | `SessionTurn.cfg`, `SessionTurnAll.cfg`, `SessionTurnAbort.cfg` | `TurnProofs` |
| one run of the agent loop, with steers | `AgentLoop` | `AgentLoop.cfg` | `AgentLoopProofs` |
| research scheduler, its ledger, operators | `Scheduler` | `Scheduler.cfg`, `SchedulerOps.cfg` | `SchedulerProofs` |
| failover between provider keys | `ProviderFailover` | `ProviderFailover.cfg` | `TurnProofs` |
| channel map, approvals, permission cards | `ChannelMap` | `ChannelMap.cfg` | `ChannelMapProofs` |
| from `getUpdates` to the end of an answer | `Inbound` | `Inbound.cfg` | `InboundProofs` |
| a stream shown, moved, mirrored, stopped | `Delivery` (with `RunRegistry`) | `Delivery.cfg` | `RunRegistryProofs` |
| file tools on one file | `FileTools` | `Parts.cfg` | none: model-checked |
| limiter of Telegram edits | `EditLimiter` | `Parts.cfg` | `PartsProofs` |
| pool of API keys | `KeyPool` | `Parts.cfg` | `PartsProofs` |
| supervisor of a task | `Supervisor` | `Parts.cfg` | `PartsProofs` |
| client of an MCP server | `McpTransport` | `Parts.cfg` | `PartsProofs` |
| shells that outlive a call | `ShellSessions` | `Parts.cfg` | `PartsProofs` |
| memory and its nightly digest | `MemoryFiles` | `Parts.cfg` | `StoresProofs`, `PartsProofs` |
| research runs and the file of their findings | `ResearchRuns` | `Parts.cfg` | `StoresProofs`, `PartsProofs` |
| health and quarantine of a model | `ModelHealth` | `Parts.cfg` | `PartsProofs` |
| marks of sessions in a turn, notices after a crash | `TurnMarkers` | `Parts.cfg` | `StoresProofs`, `PartsProofs` |
| watchdog, beats, restarts by systemd | `Watchdog` | `Parts.cfg` | `PartsProofs` |

`Parts` puts the last eleven beside each other; it extends `Stores`, which declares the three of them that keep
files. `MC...` modules only give constants their values, scenarios and
symmetry sets. Run one with `tlc -config Scheduler.cfg MCScheduler.tla`, prove one with `tlapm
RunRegistryProofs.tla`. `PROJECT.json` maps every definition to the lines it models, and gives for each property
of a passing run a *mutant*: a definition with a plausible bug (`...Unchecked`, `...Undrained`) under which TLC
finds that property violated.

## 1. The system

A Telegram update becomes a *prompt* of a *session* (one per chat and thread). The core runs a *turn*: the
agent loop asks a provider, streams the reply, runs tools, asks again. A *stream* in the bot shows the turn in
a message that is edited as events come; buttons under it abort, permit a tool, or move the stream to another
chat. A message sent meanwhile *steers* the running loop. Apart from chats, a *scheduler* starts research runs
on cron-like triggers and keeps a ledger so that a crash does not lose or multiply them. Everything is tokio
tasks over shared maps behind locks; what makes it hard is that no lock is held across an await of the model,
of a tool, of Telegram or of the disk.

### Components

| component | state | operations | interacts with | what is hard | what makes it correct |
|---|---|---|---|---|---|
| run registry `naked-tg/src/run_registry.rs` | six maps behind one mutex | register, bind, move, mirror, unmirror, remove | streams, callbacks, steer routing | five indexes kept by hand; moves | indexes agree with the handles; caps; a button never changes its run |
| session turns `naked-core/src/session_ops/`, `turn.rs` | sessions map, cancels map, private history of the loop | dispatch, compaction, persist, abort, queue a note, compact, restore | loop, store, `.active_sessions` | the lock is given back between phases; abort overlaps a turn | one turn at a time, nothing saved is lost, never stuck busy |
| session store `session/jsonl_store.rs` | `session.jsonl`, count of persisted messages; `.active_sessions` | save (append or rewrite), load; mark, unmark, drain | session turns, start of the bot | append is decided by a count; torn last line; one file of marks for all sessions | the file holds the session; who was cut off is told, once |
| history `history_mod/`, cycles `session/cycle.rs` | the messages | compaction, cycle restart | loop, turns | calls and results must stay paired | no cut between a call and its result |
| agent loop `loop_/`, `loop_guard.rs` | iteration, tokens, history, calls, guard, approvals | stream, batch, gate, execute, retry, return | provider, tools, cards, steers | every await races an abort, a deadline and a steer | requests well-formed, repeats stopped, abort obeyed |
| steer pipeline `loop_/steers.rs` | bounded channel, pending list | record, drain, close | loop, message handler | two paths fill the list, only some returns drain it | nothing dropped, duplicated or reordered |
| research scheduler `naked-tg/src/scheduler/` | handles, streaks, muted set; tick | sweep, stale pass, drain, plan, dispatch, worker accounting, shutdown, boot | ledger, specs, operator | load-modify-save with awaits; hung and panicking workers; crashes | cap, no twins, each death counted, one-shots once, records close |
| inflight ledger `research/inflight.rs`, `store_fs.rs` | one record per spec on disk | save, load, list open ones | scheduler, worker, operator | concurrent writers | terminal is final, open work has an open record |
| operator commands `commands/`, `services/research.rs` | none | run now, abort, resume | scheduler | act between any two awaits of the tick | their part of the same properties |
| provider failover `provider/resilient.rs`, `dead_key_persist.rs` | order, blacklist, mid-stream tallies, `naked.json` | stream, fold failures, boot audit, file a dead key | loop | shared by concurrent turns; a fold holds counts in its locals | no strike lost, only refused keys filed |
| channel map `channel_map.rs` | chat to session, approvals, allow-lists; a file and the config of each session | bind, `/yolo`, `/allow`, `/new`, flush, restore | dispatch, cards | four maps read one by one, two stores | approvals are what users gave and have not taken back, also after a restart |
| permission cards `callbacks/permission.rs`, `shared.rs` | pending map by call id | ask, claim, drain, time out | loop, stream, channel map | tap, drain, timeout and `/yolo off` race | nothing is approved that no user approved |
| polling loop `runtime.rs`, coalescer `album.rs` | offset, permits, buffers and timers | poll, spawn, submit, flush, shut down | dispatch | a timer is aborted while it may fire; permits held by turns | every message has one fate; every task ends |
| message dispatch `message_handler.rs`, `per_chat_locks.rs` | lock per chat and thread | steer, start | turns, registry | session read long before it is used | one session, one turn at a time |
| live stream `streaming_mod/` | view, message ids | events, edits, permission card, cleanup | registry, limiter, core | a move or an abort between its awaits | the bubble shown can stop the run; all mirrors get the answer |
| run controls `commands/research.rs`, `callbacks/stream.rs` | control card | move, show, stop | registry, stream | notices written after the fact | frozen bubbles are inert |
| edit limiter `rate_limit.rs` | per chat: window, gap, parking | edit, must-deliver edit | streams | the wait is computed, then slept, then the edit is counted | budget per window; parking respected |
| key pool `keys/pool.rs` | list, dead set, cursor | next, refresh, mark dead | search and scrape engines | the refresh runs outside the lock | a dead key stays out; keys take turns |
| file tools `tool/file_ops.rs`, `apply_patch.rs`, `fs_cache.rs`, `file_lock.rs` | lock per path, cache, loads in flight | read, snapshot, edit, patch, write | loop | agents, programs and dropped calls on one file | no lost update; guarded edits replace what was read |
| MCP client `mcp/transport.rs` | two pipes, one lock, a mark | call a tool | loop | late, missing and unasked replies | no call takes the answer of another |
| lasting shells `tool/persistent_bash.rs` | map of shells with a cap, pipes | run, evict, kill | loop | a timed-out command leaves output behind | output is the command's own; the cap holds |
| memory `memory/`, `memory_scheduler.rs` | `MEMORY.md`, drafts, marker of the last digest | store, delete, draft, digest | turns, provider | no lock between writers; the digest can die half-way | what was told is stored stays; a marked day is done |
| supervisors `supervised.rs` | backoff, panic count | restart, give up, stop | every long task | panics count, errors do not | shutdown obeyed, failed tasks come back |
| watchdog `watchdog.rs`, `liveness.rs` | age of the beat of each loop | beat, look, ping, stop | polling loop, scheduler, systemd | eight periods chosen in five files; a wall clock | working bots are spared, stuck ones noticed |
| scheduler lock `scheduler_lock.rs` | one flock | acquire, release | process start | two processes | an assumption of `Scheduler` |
| tool policy `tool/policy.rs`, `permissions/` | rules | classify | loop | pattern matching | an input of the loop |
| research runs `research/coordinator_mod/`, `store_fs.rs`, `context.rs` | `findings.jsonl` with a lock and a dedup set per spec, one context for all runs, permits | run, rounds of the gatekeeper, save, remove, heal | scheduler, loop | an agent outlives its run; runs of one spec overlap; torn lines | findings stay, once each, in their own spec; agents are stopped |
| model health `model_catalog/health.rs` | ring in memory, log on disk, quarantine | record, load | loop, choice of models for research | two writes a line without a lock; window and thresholds | quarantined for what happened, and whenever enough happened |
| LSP, search, scrape, rest of the catalog, agents, skills, configuration, rendering, CLI | tables, text, processes | - | - | - | not modelled |

## 2. What the modules model

A step of every model ends where the code gives back a lock or awaits. Data is reduced to what the properties
tell apart. Each constant that exists only to bound TLC is marked "bound" where it is declared.

### RunRegistry, LiveRuns

`naked-tg/src/run_registry.rs`. One mutex guards everything, so each public method is one action and
concurrency is the order of calls. The variables carry the names of the fields of `RunRegistryState`. A
thread's `Vec` is a set (a run is never in it twice; order is only for display). A handle keeps its session,
origin, source, bubble, mirrors and the set of bound message keys. `RegisterRun` has the four checks of
`register_run`; `RejectRun` is the rejection that has already consumed a generated id. `MoveRun` names the old
bubble by the *current* origin and the bound message id, as `primary_sink` does. Left out: the rendered text,
status and silence clock of a handle (nothing is routed by them).

`LiveRuns` is what the registry promises: one set of live runs, in which who owns a session, a source, a place
in a thread or a message is *computed*. `ImplementsLiveRuns` is its specification under the mapping that
forgets the five indexes; it is checked and proved.

### SessionTurn

`session_ops/turn.rs`, `session_ops/control.rs`, `turn.rs`, `session/jsonl_store.rs`, one session. A turn goes
through `Dispatch` (claim, or `SessionBusy`), `Setup`, `Prepare` (after the call of the model that writes a
summary), `Launch` or `Refuse`, the loop on its private copy, `LoopEnd`, `Persist`. Between any two of these,
`AbortCancel`/`AbortIdle` (two locks), `QueueMessage`, `CompactCheck`/`CompactSession` and `Restart` may
happen. A message is the set of inputs and replies it speaks for: a summary speaks for what it replaced, so
"the prompt survives" can be said through compaction. `Saved` is the append-or-rewrite of the store; only a
rewrite writes the meta line with `updated_at`. A save may fail. A rewrite goes to a `.tmp` file, so its failure
changes nothing; an append writes in place (`write_all`, `flush`), so an error half-way leaves any part of its
lines in the file, the last one perhaps without its newline (`end = "open"`) or torn (`end = "torn"`), while
the count of persisted messages stays. The next append repeats those lines, or joins its first one to a line that
has not ended, until a rewrite replaces the file; `halved` is the history variable that says so. A torn or
joined line makes the file unreadable and the session absent after a `Restart`, which may tear a line as well.
`Age` is five minutes passing. Left out: what the loop does
(`AgentLoop`), images, tools, rotation, the marker file (`TurnMarkers`), create and fork.

### AgentLoop

`loop_/run.rs`, `stream_turn.rs`, `tools.rs`, `permission.rs`, `steers.rs`, `loop_guard.rs` and the emergency
compaction of `history_mod`. `pc` is where the loop awaits: `stream`, `batch`, `ask`, `exec`, and the short stretches
between. A message keeps its role and the ids of the calls it makes or answers; a steer keeps which accepted message
it came from (`at`) and whose text it has (`text`), so an edit, a burst and a drain can be followed. An abort and a
deadline cancel the *same* token; `fired` says the deadline did. `Compact` is the code's cut with
`snap_to_turn_boundary`. Results of the guard itself are answers to a negative id, a call nobody made. The run starts
from the history of its session, one of `Sessions`, in which the calls `Open` have no answer: a turn cancelled in its
tools returns after its assistant message was pushed and before the results (`run.rs:302`, `run.rs:421`), and
`turn.rs:696` stores that history. Left out: chunks, retries of a connection, cycles, images, truncation.

### Scheduler

`naked-tg/src/scheduler/` with the ledger of `research/inflight.rs` and the commands of the operator. The tick
has a program counter with one value per await: `Classify` is the first section under the lock in
`sweep_running`; `BeatLoad`/`BeatSave` the heartbeat; `AskCancel`, `HardAbort`, `Drop`, `Awaited` the three
stages of the sweep; `DeathLoad`..`DeathPause` are `record_death_for_worker` and `apply_outcome`;
`StaleLoad`/`StaleSave` the pass over records past the budget; `DrainList`, `DrainPlan`, `Drain` the
resurrection queue; `Plan`, `Dispatch` the due specs, from the listing `open` that `TickBegin` made;
`SpawnSave`, `SpawnTask`, `SpawnInsert` are `spawn_task`. A worker is a task slot with its own counter:
`born`, `work`, then `won` or `lost` (its record saved, its accounting not done), `alert` or `pause`, `done`.
`Crash` may come at any step, `Shutdown` between ticks; both are followed by the boot pass. Operators go step
by step too (`RunNow*`, `BgAbort*`, `Resume*`).

Time is abstract and generous: any listed spec may be due; a live worker may at any moment pass its timeout,
and, once asked to cancel, its grace period; an unattended record may at any moment be older than the budget.
So no property depends on the lengths of periods. `fired` and `debt` are history variables.

Left out: failing writes, purges of old records and of `.tmp` files, deletion and edits of specs while they
run (the two spec patches of the scheduler, clearing `run_at` and setting `paused`, are atomic here although
the code loads and saves the whole spec), panics of the loop itself, what a run does.

### ProviderFailover

`provider/resilient.rs` with `dead_key_persist.rs`: one `ResilientProvider` shared by concurrent turns. Each
`lock()` is a step. A call drains the tally of failed streams, folds it into blacklist and order while other
streams go on bumping it, carries the rest back, takes a snapshot of the order and asks key after key;
`Refused` (auth, payment) blacklists for ever and files the key, `Failed` only demotes, a stream may break,
finish, or be dropped with its turn. The boot audit probes beside the first calls. `errors` and `settled` are
history: a strike is in the tally, in the hands of one fold, or settled. Left out: chains of chains, counters
for display.

### ChannelMap

`channel_map.rs` for one chat with two topics: which session a topic talks to, temporary and permanent
approval, the allow-list of one tool, permission cards, and the two stores (`channel_map.jsonl` and the
`config.json` of a session). Handlers run `/yolo`, `/yolo off`, `/allow`, `/new` and taps step by step; `flush`
reads the maps one after the other and holds the guards the code holds (`Held`); a flush may fail; a restart
rebuilds memory from both stores. A clock with `Ttl` lets approvals run out. `enables`, `granted` and
`revoked` are history: explicit enables, topics that were given any approval, and topics that a `/yolo off`
cleared, while no enable was under way, and that were given none since.

### Inbound

One chat and thread, from `getUpdates` to the end of the answer: offset and redelivery, a task per update,
the permits of `task_tracker`, the coalescer of albums and bursts with its cap, the lock per thread, `/new`,
the choice between steering and starting, register, placeholder, loop, final and cleanup, a research run that
the scheduler streams into the same thread, graceful stop, crash and restart. The updates of a behaviour are
a script (`Scenarios`). A message gets one `fate`, or is dropped at the cap and told of. A new message aborts the
timer of its burst and starts another, but an abort does not reach a task that is running (`album.rs:157`): a timer past
its sleep (`overdue`) takes the buffer all the same and is cut at its next wait (`CutShort`), where the messages it took
(`cut`) are lost. If the placeholder was already sent the run stays where it is (`left`). Left out: a cut inside
`send_prompt` itself, whose turn then goes on or not as in `SessionTurn`, and a timer that outlives the buffer it was
started for, which only flushes the next one early.

### Delivery

One live stream while an operator moves and mirrors it. The registry is not a copy: the module extends `RunRegistry`,
and the stream's steps call its actions on its variables. The stream reads its target, awaits an edit, and reads
again; a command posts a message, moves or adds the sink, binds, and writes its notice into the old bubble. A message
is what it shows and whether it has buttons. Another run lives next door, in the chat the stream may move to, so that
a wrong key is somebody else's message. Telegram may refuse a request. A stream that the scheduler runs may be dropped
at any await (`DropStream`): the timeout of an attempt drops the future (`scheduler/tasks.rs:142`), a hard abort its
task (`tasks.rs:395`). Nothing runs at a drop, so the cleanup and the removal are skipped and the run stays in the
registry. Left out: rendering, the model switch, long answers in several parts.

### Parts: eleven components that share nothing

Each has a module of its own; `Parts` lets a behaviour be one of any of them, so that one run checks all
(their states add up instead of multiplying). The variables and constants of the three that keep files
(`MemoryFiles`, `ResearchRuns`, `TurnMarkers`) are declared in `Stores`, which `Parts` extends, so that the proofs
about them are a module of their own. Nothing in the code makes them interact, other than that a
turn may be dropped, which each module has as an action of its own.

- `FileTools`: agents with plans of `snapshot`, `edit`, `guarded`, `write` on one file; `file_lock`, the read-through
  cache with its loads in flight, `atomic_write`, programs that take no lock, calls dropped at an await, the load of
  the cache included (a rename handed to the blocking pool still happens; a load leaves its key among the loads in
  flight, `abandoned`). A text is the number of the write that made it and remembers which it replaced, so a lost
  update is visible. A cache key is inode and time, with the clock's grain.
- `EditLimiter`: `edit` and `edit_must_deliver` of several editors: ask under the lock, sleep and send without it,
  report under it again; 429 with a small or a large `retry_after`. Time is kept as ages.
- `KeyPool`: callers draw keys; the refresh fetches outside the lock; a key is refused on another thread
  meanwhile. A key list changes and fails to load.
- `Supervisor`: `spawn_supervised_with_opts`: check, spawn, await, panic hook, cap, backoff sleep against the
  token; a body that listens or not; abort of the handle.
- `McpTransport`: calls of several clients over one pair of pipes; the server is slow, silent, chatty or dies; a
  call times out in the write or the read or is dropped anywhere; the mark `desynced`. A line nobody asked for
  carries no id (a notification); one with the id of a call that is still to come, which no server of the protocol
  sends, is not modelled.
- `ShellSessions`: the map of shells with its cap, eviction of the least recently used idle shell, one command at a
  time in a shell, a deadline that kills, a dropped call that does not. A command may leave a job in the background,
  which writes to the pipe of the shell while later commands run, and may leave its input unread: then the `exit` that
  begins the kill (`persistent_bash.rs:374`) waits on a full pipe, with the lock of the shell held. The same write for
  a process that has ended while a child keeps its full pipe open, when the shell is started again, is not modelled.
- `MemoryFiles`: every writer of `MEMORY.md` as load, open of the `.tmp` file, write, rename; drafts per day; the
  digest with plan, promotions, fold, rotation and marker; days pass, renames fail, the process crashes. An entry is
  its type, the set of rules its text speaks for and whether a fold wrote it. A save groups entries by section, and a
  load takes the first line of each (`ReadAs` says what a text of several lines is read as; its marks, that a user
  asked for it among them, are lost), so the eviction at the cap, which takes the first entry, takes the first of the
  first section. A fold goes section by section; its summary speaks for any part of what its victims say, since the
  prompt of the model, or the merge without one, cuts the text at `compact_max_chars`. Left out: texts whose further
  lines begin with `- ` or `## `, texts whose first line is empty, a file of drafts at its own cap, a text told under
  two types.
- `ResearchRuns`: runs take a permit, count, start an agent, wait for it, for the clock or for a cancel, write a
  record, stop the agent and let the gatekeeper remove findings and ask for another round. `research_save`
  takes the lock of the file, loads the set if it is empty, appends or rewrites; what a dropped or failing write
  or a crash leaves is a torn line, which joins the next row and is healed away by the next reader. The agent
  of a run that was aborted hard goes on. A row keeps its URL and who saved it. The texts and rules of the
  gatekeeper are a choice of at most one URL a round. In `Scheduler` all of this is one step of a worker.
- `ModelHealth`: one pair of provider and model. `record` takes its time, appends a line in two writes without a
  lock, then counts in the ring under one: trim to the window, clear a quarantine in the recovery window, look at
  both thresholds. The log may fail, a new process reads the window from it and has no quarantine. A log is the set
  of events on whole lines and the set on the line that has not ended; `nth` tells reports of one moment apart.
  `last` is the moment of the failure counted last. The minimum for the failure modes, which
  only feed a text, is left out.
- `TurnMarkers`: `.active_sessions`, which every change reads, empties and writes (`Read`, `Empty`, `Write`): `Setup`
  and `Persist` under the lock of the sessions, `Refuse` after it was given back, `DrainRead` and `DrainRemove` at
  the start, while research turns may already begin. Then the chats of recent sessions are told, one by one.
  `cut`, `blamed`, `notices`, `tangled` are history: `tangled` is set while changes overlap that no lock keeps apart.
- `Watchdog`: the polling loop beats and polls within its timeout or pauses after an error; the scheduler makes its
  pass at boot, then beats, sleeps and scans; the ticker waits half of `WatchdogSec`, looks at both beats and pings;
  systemd, which heard READY=1 before the wiring, kills what it has not heard of and starts the next. A loop may get
  stuck anywhere, the wall clock be set, the scheduler never be started. A scan and the pass at boot take as long as
  they take; `overran` is set when one outlasts the silence the ticker allows. Time passes in steps, and what is due
  at a moment happens before the next one.

## 3. The runs

| run | question | bounds | distinct states |
|---|---|---|---|
| `registry` | Do the indexes stay consistent and capped under every sequence of calls, and do they implement one set of live runs? | 2 chats, 3 sessions, 1 message id (a key is chat and id), 1 source, 1 requested and 2 generated ids, cap 2, 1 mirror | 105k |
| `session_turn` | Without abort and compaction: one turn at a time, nothing saved lost, saves faithful, busy ends? | 3 turns, 1 note, 1 reply, 1 restart; any save may fail | 1.47M |
| `session_turn_all` | With everything: never stuck busy, count right, abort reaches the loop? | 2 turns, 2 replies, keep 1, 1 compaction or cycle, 1 abort, 1 restart | 875k |
| `session_abort` | Is "the whole context is kept" true of abort? (no) | 2 turns, 1 abort | violation |
| `agent_loop` | Steers kept in order, requests paired, repeats stopped, abort obeyed? | a fresh session or one with an open call, 2 iterations of up to 2 calls, 2 accepted steers or edits, channel 2, 1 tool with 1 argument, guard at 3 | 825k |
| `scheduler` | The loop by itself: cap, no twins, open records for open work, deaths counted, muting, one-shots, liveness? | 1 periodic spec, 1 one-shot, 1 slot, 2 task slots, 2 resurrections, alert after 1, pause after 2, 2 restarts | 384k |
| `scheduler_operators` | With operators: does the loop keep its own share of the cap? | as above without restart, no grace period, pause after 1, 1 command | 2.84M |
| `provider` | Is every failure of a key counted once and remembered, and is only a refused key filed? | 2 keys, 2 calls, blacklist after 2, 2 errors, 1 restart | 956k |
| `channel_map` | Is every approval earned, and what is stored whole? | 2 topics, a turn running in one, 1 card, 2 handlers, 2 sessions, time to live 1, clock to 1, 2 commands, 1 event | 1.31M |
| `inbound` | Has every update one outcome, and does every task end? | 2 or 3 updates a script (3 calm, 2 with a stop, crash or failure), 1 or 2 permits, burst of 2, 2 places in a thread | 569k |
| `delivery` | Can the run be stopped where it is shown; do mirrors get the answer; does everything end? | 2 chats, 2 threads, 4 message ids, 1 or 2 commands, 1 failing request or dropped stream | 333k |
| `parts` | Eleven parts, each with its concurrent users (section 2) | 3 agents and 1 program on a file; budget 2, window 7, gap 3, 2 edits of each of 2 editors, 3 of one alone; 2 keys, 2 callers of 1 request (2 tries and 1); backoff to 3, 5 faults; 2 clients of 2 calls, 1 dropped; 2 sessions, 1 place, 2 runs of a shell; 3 rules, one of two lines, of 2 types, room for 2, 3 drafts, 1 writer, 2 days, 1 crash; 2 research runs on 1 or 2 specs, 2 URLs, 2 saves, up to 2 rounds, 1 fault; 2 threads, 3 reports, 4 ticks, quarantine at 2 empty answers or 3 errors, window and quarantine 2, recovery 1, 1 crash or full disk; 2 sessions, 2 turns, 2 crashes, 1 refused notice; `WatchdogSec` 2, grace 4, poll 5, tick 2, wiring 1, silence 6 and 8 (quarters of a minute), 1 loop stuck or clock set | 493k |

Why the bounds are enough:

- *registry.* Both ways into a full thread (register, move in) need two occupants and a third run; three
  sessions give them. Stealing a message needs two runs and one key. Two chats are two threads and the only
  source of a move; a second thread of a chat would be a third `ChatThreadKey` of the same kind.
- *session.* Every disagreement is between two turns, or one turn and one event; the third turn lets a loss
  be seen after a save. One restart is enough because a boot clears everything but the file.
- *loop.* A steer can arrive, be edited, and meet a drain in two accepted messages. The guard blocks at the
  third call with the same arguments; two iterations of two calls reach it inside one reply and across two.
- *scheduler.* One slot makes every spec wait for another; two task slots let a task outlive its handle, so a
  twin could exist; two restarts reach the cap of resurrections through a second crash during a boot pass.
  Pause after two lets one failure alert and the next pause. `SpawnTask` waits for a free task slot: with one
  handle and no operator, two are never both needed by live tasks (`SlotsHold`).
- *provider.* A strike can be lost only between two folds or a fold and a stream that fails, so two calls are
  the smallest crowd; two errors cross the threshold and leave one over. Every key but the first may be filed.
- *channel_map.* A cut of `flush` needs one change between two of its reads; two handlers give it one, and a
  second one that undoes it. The approval of another topic must not leak, hence two topics.
- *inbound.* Three updates make a burst of two with one outside it, or a photo, a text and an edit; one permit
  makes a buffered task and a turn compete. The scripts are listed in `MCInbound`.
- *delivery.* One bubble, one it left, one mirror and one of the neighbour: four ids. Two commands are a move
  and a move back, or a move and a mirror. Commands follow each other (`Overlap = FALSE`): see section 6.
- *parts.* Three agents are what a chain needs in which one waits for the load of another whose entry a third removes;
  the other plans of a file are for two. Two edits of two editors fill the budget twice; an editor alone has three,
  since two never fill it. The window and gap are those of the code, scaled: the gap is the window over the budget
  rounded down. Two keys and a refresh give a key that comes back; three tries take them round. The backoff reaches
  its ceiling before the last fault. A call of MCP that was dropped and one that waits are two clients. The cap of
  shells is one, so that each new session evicts. Two days let a digest end on the day after the one it planned for.
  Two research runs are one that ends and one that goes on; they meet on one spec at once, on one spec in turn, and on
  two specs in turn (`MCScenes`), and two saves of two URLs append and replace in either order. A fault is a crash, a
  cancel, a hard abort, a full disk or a refused start. Three reports reach either threshold; four ticks let a
  quarantine begin, lose the events that caused it and end; a report sees at most one tick, being two small writes.
  Two crashes are one during a turn and one during the start that follows it. The periods of the watchdog are those of
  the code with a quarter of a minute as the unit (the 30 s of `WatchdogSec` that `liveness.rs:12` names, 60 s of
  grace, 75 s, 90 s, 120 s), where a getUpdates of 6 would let a working bot be killed. A scan and a pass at boot have
  no bound in the code and none here. Three rules are one the user asked for, one of two lines and the one its first
  line looks like; room for two makes the third evict.

### What the properties say

*Registry.* `IndexesMatch`: each map names exactly the live runs it should, both ways, so a finished run never
blocks the next one and a stream is never found in a thread it left. `Capacity`: both ways in respect it.
`ImplementsLiveRuns`: each call does to the set of live runs what its name says, and no call hands a bound
message from one run to another.

*Session.* `StuckFree`: Active only while a turn is on its way to make it Idle. `DiskCount`: the count the append
decision rests on is right, unless an append failed half-way since the last rewrite; then it is never more than the
messages in the file. `SaveIsFaithful`: after a save the file holds the session, message for message; after a
half-done append it still holds everything, but may repeat or join lines. `OneTurn`, `SavedTurnsKept`, `BusyEnds` as
named; `AbortReachesLoop`: the token cancelled is the one the running loop listens to.

*Loop.* `SteersKept`: over history, pending list and channel together nothing is dropped, doubled or reordered
before the turn returns. `FailureKeepsSteers`: a failing turn first tells the history what it was sent.
`RequestsArePaired`: every call in a request is answered exactly once, but for
those the turns before left open: no turn adds to them while it runs. `RepeatsAreBlocked`: the guard counts
over the whole turn. `CancelEnds`: a cancelled loop returns though the provider or a tool never does.

*Scheduler.* `SlotsHold`: the cap, and no two workers of one spec. `CrashSafe`: a crash now leaves something for
the boot pass, and a one-shot is not fired again. `FailuresAreHeard`: a task that died without its accounting
keeps its slot until the sweep has counted it; a new streak is heard. `OwnShareHeld`: the workers the loop
started fit the cap whatever operators do. `LedgerSettles`: an open record is closed in the end.
`SlotComesFree`: a worker that never answers still gives back its slot.

*Provider.* `StrikesAccounted`: what streams of a key lost is in its tally, in the hands of one fold, or settled
by a fold or a success, and never in two places. `PendingIsFolded`: a mark goes only to a fold.
`OnlyRefusedAreFiled`: `naked.json` loses refused keys only, never the primary, and no later process asks them.

*Channel map.* `ApprovalIsEarned`: a tool runs unasked only where a user, or the start of a
research run, gave the topic an approval; where a `/yolo off`
took approval back, with no enable beside it, no grant is in force until one is given again or the process restarts,
and no command under way is about to bring one back; nothing counts more enables than users made.
`PermanentIsDurable`: what a user was told is permanent is there after a restart, once a flush was made. `CutIsReal`:
what a restart restores is a state the maps once had together.

*Inbound.* `MessagesAccounted`: a message that was taken from the server is in exactly one place until it has
its one fate: answered, steered, queued, refused, dropped at the cap and told of, or lost; and it is lost only with a
timer that was aborted past its sleep, or with the process. `OneAtATime`: one live session and one turn in a thread.
`EveryTaskEnds`: each task gives its permit back.

*Delivery.* `StopIsRight`: a tap on a shown button stops the run it is shown with; frozen bubbles are inert.
`MirrorsGetFinal`: the answer reaches every message in which the stream is shown when it ends; a
stream that was dropped ends without it. `EverythingEnds`: stream, commands and neighbour, and what ended is out of the
registry, unless its stream was dropped.

*Parts.* Stated in each module and in `Parts`. `FilesHold`: no lost update, guarded edits replace what was read, reads
are fresh, every load that is waited for goes on unless it was dropped. `KeysInTurn`: a dead key stays out, keys take
turns; a model is in quarantine only for failures in the window, enough failures put it there, and the ring counts
each report once. `AnswersAreOwn`: a reply is that of the call, output that of the command unless a call was dropped
or a job left in that shell, a finding in the spec of its run. `StoredIsKept`: what is told to be stored in the memory
(the first line of it) stays unless it is deleted, evicted or cut off a summary, and is there once unless it was cut
itself; findings stay, once each; the marks name the turns that run, and a chat that was cut off is told once.
`LimitsHeld`: edits stay in their window, heed a 429, and wait no longer than the ceiling; a bot that works is given
no cause to be killed, unless its scheduler was not started or is slower than the ticker forgives, the wiring took half
of `WatchdogSec` or the clock was set; and a process with a loop that is stuck dies within `WatchdogSec` of the
silence the ticker allows. `StopsInOrder`: nothing of a supervised task starts after the shutdown, and a research run
that is over, if it was not aborted hard, has stopped its agent. `WorkEnds`: each part comes to its end, or to rest, except who waits for a load
that was dropped or, behind a full pipe, for a shell that is being killed, and a bot that got stuck is back.

`StrikesAccounted`, `MessagesAccounted` and `FilesHold` include the type invariant of their module, as the
invariants of the other runs do: one formula each, so that a run asks one question at a time.

## 4. Fairness

- `RunRegistry`, `ProviderFailover` and `ChannelMap` have none: they are data structures with callers, and
  nothing has to happen.
- `SessionTurn`: weak fairness of each turn's next phase. A spawned future is polled until it is done, and the
  loop is bounded by `max_iterations` and its deadlines. Abort, notes, compaction and restarts are not fair.
- `AgentLoop`: weak fairness of `Progress`, what the loop does by itself. Nothing is assumed of providers and
  tools: they may hang for ever. A permission card is answered, because the wait for it has a timeout
  (`ask_permission` in `streaming_mod/flush.rs`).
- `Scheduler`: weak fairness of the loop (it wakes every `tick_interval`), and of time for workers and for
  records (`Expire`, `Age`). Nothing is assumed of workers: `LedgerSettles` and `SlotComesFree` hold though
  every worker hangs and ignores its cancel, because the hard abort does not need its help. With an operator
  the tick may await a young handle (section 6), so these two are stated of the loop by itself.
- `Inbound`: weak fairness of `Progress`: timers fire, requests have timeouts, tokio's mutex and semaphore
  are queues that serve in order, systemd starts a process that ended. Users send what the script says.
- `Delivery`: weak fairness of the steps of the stream and of the commands, and of the end of an idle agent
  (a loop is bounded, or stopped by its silence).
- `Parts`: one weak fairness for what the code of each part does by itself. A server of MCP and a command in a shell
  may be silent for ever, and a caller is served because it waits with a timeout; the agent of a research run may go
  on for ever, and the run ends by its wall clock. In `TurnMarkers` the disk answers, a turn ends and Telegram answers
  or refuses (`Progress`); nothing has to happen in `ModelHealth`. In `Watchdog` time passes, and what is due happens:
  a poll ends within its bound unless it is stuck, and a scan takes any time. Nothing is assumed of a command that
  does not read its input, so a kill that writes to a full pipe may wait for ever.

`CHECK_DEADLOCK FALSE` stands where the system may rightly stop: all turns over, no id left to generate, the
script read, all calls made. `AgentLoop`, `Scheduler` and `SchedulerOps` may not stop and are checked for it.

## 5. What is proved

TLAPS proves these for every value of the constants, from the assumptions named next to the constants (which
TLC evaluates in every run).

`RunRegistryProofs`, from `RegistryAssumption` (a cap above zero, the absent value is no id):
- `TypeCorrect`, `IndexesAgree`, `CapsHold`: `Spec => []TypeOK`, `[]IndexesMatch`, `[]Capacity`.
- `NeverStolen`: `Spec => MessageNeverStolen`.
- `ImplementsPromise`: `Spec => ImplementsLiveRuns`, that is `RunRegistry` refines `LiveRuns`.

The invariant is `IInv`: the properties together, plus `FiniteParts`. None of them is inductive alone.
The owner index needs the checks of `register_run` against the indexes, which say something about the handles
only because the indexes agree with them; the removal from an index, which is guarded by "if it still names
this run", loses nothing only by the same agreement; a move overfills no thread because the thread's set is
exactly its runs. Finiteness is there because a cardinality says nothing of an infinite set.

The refinement rests on the same agreement. `LiveRuns` computes from its one set what the code looks up in an
index; `SameOperators` says that under `IInv` the two are equal. Then each action has a lemma: a step of the
code is a step of the promise with the same arguments, or changes no live run.

The second half of the module is about `Delivery`, from `DeliveryAssumption` (an id for each message a plan can
lead to, and a `None` that is no message), for plans of any length, any chats, neighbour and number of refusals:
- `StopsWhereShown`: `ASSUME Overlap = FALSE PROVE StreamSpec => []StopIsRight`.
- `MirrorsAreTold`: the same for `MirrorsGetFinal`.

The steps of the registry keep `IInv` whoever calls them, so its lemmas are used again here. Above it `DInv` follows
the bubble, whether the stream lives or was dropped: it is a message of the run that no notice is on and no mirror
shows, except between a move and the binding after it (`Bubbled`); before the move may bind, its new message must be
one nobody uses (`Carries`), which is so because ids count up within a chat (`Numbered`) and the commands come one at
a time (`InTurn`). A text that says where the run went has its notice in the registry as long as the stream is not
over (`Marked`), which makes a frozen bubble inert. For the mirrors, `Finishing`: those of the end of the loop stay
mirrors, a move freezes no mirror, and what is neither written nor refused is still in `todo`. With `Overlap = TRUE`
the first statement is false (section 6), so its hypothesis cannot be dropped; the second is only claimed with it.

`TurnProofs`, its first part, from `SessionTurnAssumption`:
- `TypeCorrect`, `NeverStuckActive` (`[]StuckFree`), `CountMatchesFile` (`[]DiskCount`): for any number of turns,
  notes, aborts, compactions and restarts.
- `WithoutAbortOneTurn`: `MaxAborts = 0 => (Spec => []OneTurn)`.
- `SavedTurnsStay`, `SavesAreFaithful`: `MaxAborts = 0 /\ MaxShrinks = 0 => (Spec => []SavedTurnsKept)`, and the
  same for `SaveIsFaithful`, each with saves that fail, wholly or half-way.
- `FirstAbortReachesLoop`: `MaxAborts <= 1 => (Spec => AbortReachesLoop)`.

`StuckFree` is inductive over the type: the phases in `InFlight` are exactly those from which `Persist` or
`MarkIdleAfterReject` still comes. `DiskCount` needs the lengths of what an append adds; `halved` says when the count
is a lower bound only, and a rewrite makes it exact again. `OneTurn` needs `Alone`: while no abort was called, a turn
in flight implies Active, so `Dispatch` cannot admit a second one; it is abort, setting Idle without waiting, that
breaks exactly this. `Kept` is the invariant of the saves: the file `Covers` the session and the private copy of the
turn in flight, that is, it holds the messages that are counted and, unless an append stopped half-way, is a prefix of
both, so an append writes what is missing and a rewrite loses nothing; the prompt of a turn travels from there to the
file. The hypotheses are not there for the proof: one abort falsifies `SavedTurnsKept` (run `session_abort`), one
compaction `SaveIsFaithful` (section 6). `Reached` says that until the first abort `Alone` holds and the map holds the
token of the turn in flight. A second abort may come while the loop of the first one still unwinds beside a new turn;
then it cancels the token of one of the two, and TLC finds the violation with `MaxAborts = 2`.

`AgentLoopProofs`, from `BoundsAssumption`, for any number of tools, arguments, steers, iterations and calls:
- `TypeCorrect`: `Spec => []TypeOK`.
- `SteersAreKept`, `FailuresKeepSteers`: `Spec => []SteersKept`, `Spec => FailureKeepsSteers`.
- `RequestsPaired`: `Spec => []RequestsArePaired`, whatever history the session holds and whichever of its calls are open.
- `RepeatsBlocked`: `Spec => []RepeatsAreBlocked`.

`IInv` has three parts beside the types. *Steers* (`Steered`): history, pending list and channel together hold what
was accepted, in the order of acceptance; `Known` says that each names the accepted message it came from and has its
text or a later one, `Fresh` that what still waits has its own. *Pairs* (`Answering`): `RequestsArePaired` looks at
the history when a request is made; between two requests the ids of the calls in `batch` and `gated`, and of those
`Open` at the start, are the only ones without an answer, every other call has one behind it, and no id is used twice.
`Shape` says at which point which of the two lists is empty, so that nothing is open when the loop is at its top
again. A compaction keeps pairs because it keeps an end of the history and an answer is behind its call; an answer
whose call was cut off is not sent. *Guard* (`Within`): what ran with the same arguments, plus what was let through
and has not run, is at most the attempts counted and below `BlockAt`. `RepeatsAreBlocked` alone is not inductive: it
does not see the calls that wait behind the gate. What the loop computes with recursive functions (the guard over a
reply, the merge of a burst, the snap of a cut) is shown to keep these parts by an induction in the module itself:
`Least` and `Induction` are derived from the well-foundedness of the natural numbers and speak of sets, not of
operators.

`SchedulerProofs`, from `ConfigAssumption`, for any specs, workers, caps, thresholds, crashes and shutdowns:
- `TypeCorrect`: `Spec => []TypeOK`, the cap of a chain of resurrections included.
- `OwnShare`: `Spec => []OwnShareHeld`, whatever operators do.
- `SlotsAreHeld`, `CrashesAreSafe`, `FailuresReachTheStreak`: `ASSUME MaxCommands = 0 PROVE Spec => []SlotsHold`, and
  the same for `CrashSafe` and `FailuresAreHeard`.

With operators the last three are false, and that is the code's doing (`CapHeld`, `OneWorkerPerSpec` and
`AlertedMeansStreak` in section 6), so the hypothesis is what the code needs. `Handles`: a handle points at a
task of its own spec, and the loop and the operator each hold at most the one they are about to insert.
`ShareHeld` counts the loop's handles together with what the tick has planned and not started (`Launching`); the
handles alone are not inductive, since a plan is made long before its inserts. `Homes`: a task is behind the
handle of its spec or is the one in the loop's hands, and whatever the tick is about to start or to account for
has no handle; this is why the sweep counts a death only after the task is gone. On these rest `OnDisk` (work has an
open record at each step of a spawn, a heartbeat and a sweep), `Once` (a one-shot in the listing still has its
`run_at`, and none is left in it once dispatching begins), `Counted` (a task that died unaccounted is behind its
handle or in the hands of the sweep) and `Muting` (whoever is about to alert has a streak that reached the
threshold).

`InboundProofs`, from `InboundAssumption`, for any script, permits, caps of the bursts and restarts:
- `EveryMessageAccounted`: `Spec => []MessagesAccounted`.
- `OneSessionOneTurn`: `Spec => []OneAtATime`.

`MessagesAccounted` counts; that it stays true needs to know *where* a message is. `Unseen`: what this life has not
dispatched yet is in no task and no burst, so that nothing is taken twice. `Kinds` and `Buffered`: a burst holds
messages of its own kind and chat. `Parted`: no two tasks speak for one message, and those that are spoken for are
dispatched. `Fated`: the messages of an open task have no fate yet, so the step that ends the task is the one that
gives it; the counts of a cap are in the buffer until the task takes them over (`Dropped`, `OmittedAreTold`).
`Carried`: whatever was dispatched and has no fate is in an open task, which is why nothing disappears; `Taken`: what
a cut timer holds went through the buffer, and all its parts with it, which is why nothing else is lost. `OneAtATime`
rests on `Exclusive`, which says more: of one session there are no two turns that are not reaped, whatever the
permits. For that the tasks at the decision must hold the lock of the chat (`Locked`), and a new session must really
be new: each session of this life has its maker, the first message, a finished `/new` or a research task (`Made`).

`TurnProofs`, its second part, from `FailoverAssumption`, for any number of keys, calls, errors and restarts. The
module extends `SessionTurn` and `ProviderFailover` together, the turn and the provider it asks, so the definitions
of the latter carry its name (`ProviderSpec`, `ProviderTypeOK`):
- `ProviderTypes`: `ProviderSpec => []ProviderTypeOK`; the order holds every configured key once.
- `StrikesAreKept`: `ASSUME MaxErrors <= CountMask PROVE ProviderSpec => []StrikesAccounted`.
- `MarksWaitForFold`: `ProviderSpec => PendingIsFolded`.
- `RefusedAreFiled`: `ProviderSpec => OnlyRefusedAreFiled`.

The hypothesis is the code's own limit: the counter saturates at its mask, and an error beyond it is not counted.
`Rotating`: the order is an arrangement of the keys of the boot (each once, `Arrangement`), and each of them is
filed or was refused. `ToBack`, `ToFront` and hence `Demoted` (by the same induction as in `AgentLoopProofs`)
permute it. `Walked`, of each call: its snapshot is such a list too, what failed lies behind its position, and
only between drain and carry does it hold counts. On it rest both action properties, since a request is for a
key of the snapshot. The balance of strikes (`Counted`) needs that a total moves by what its one entry moves
(`TotalMoves`); that no merge is cut off at the mask follows from the balance itself, as what a tally and a fold
hold of a key is at most its errors.

`ChannelMapProofs`, from `ChannelAssumption`, for any topics, cards, handlers, sessions, times and failures:
- `ApprovalsAreEarned`: `Spec => []ApprovalIsEarned`, types and `OffHolds` included.
- `PermanentStays`: `Spec => []PermanentIsDurable`.
- `CutsAreReal`: `Spec => CutIsReal`.

An approval is in six places, memory, the cut of a flush, its file, the config of a session, the hands of a task that
is about to store it and the cards it answers, and each copies from another at a time of its own. `Given` says of all
of them that the topic was given an approval, and of an explicit one that an enable was made: this is why a restart,
which seeds the count from what it finds, seeds no more than users made. `OffHolds` follows from `Withdrawn`: in a
topic that was cleared nothing is in force and no enable is on its way; a flush and a restart cannot bring one back,
as the first only reads and the second forgets who was cleared (`OffStaysOff`, which asks for more, does not hold:
section 6). `Counted`: the count plus the enables that are not counted yet is at most the enables made; without the
second term the step that counts could overtake. `Sessions`: each topic has a linked session on disk and map, turns
and tasks name no other, so a restart restores each topic. `Durable` adds to `PermanentIsDurable` what a flush that
was cut before the count reached its end would break: the cut being written is permanent, or another task is still to
flush. `CutIsReal` rests on `Flushing`: while the cut is partial, what it has read is what memory holds, since writers
are held out.

`StoresProofs` and `PartsProofs`, of the parts that share nothing. The first has the lemmas about the three that
keep files, the second those about the others and the theorems, which speak of `Parts`:
- `EverythingStopsInOrder`: `Spec => StopsInOrder`.
- `LimitsAreHeld`: `Spec => LimitsHeld`.
- `KeysTakeTurns`: `Spec => []KeysInTurn`.
- `AnswersStayOwn`: `Spec => []AnswersAreOwn`.
- `StoredStays`: `Spec => []StoredIsKept`.

They are for any number of editors, keys, callers, clients, shells, threads, runs, URLs, rules, sessions, days,
faults and crashes, from the assumption of each part (`LimiterAssumption`, `KeysAssumption`, `McpAssumption`,
`ShellsAssumption`, `HealthAssumption`, `WatchdogAssumption`, `ScenesAssumption`, `MemoryAssumption`,
`MarkersAssumption`). A step of `Parts` is a step of one part, so a part has an invariant of its own, lemmas that it
begins with it, keeps it and is not disturbed by the others, and the theorems put them together:

- *Supervisor* (`TasksInv`): a body that runs has its supervisor waiting for it, unless that was aborted.
- *Limiter* (`LimiterInv`): ages and waits are within what they may be (`Ages`, `Editors`). The budget is claimed of an
  editor alone, and rests on `Alone`: a sleep ends neither before the park does nor before the window has room, and
  while the edit is sent the room is still there.
- *Watchdog* (`WatchInv`): how long each loop has been silent at each of its points (`PollLoop`, `SchedulerLoop`),
  what the ticker forgives (`WhileRunning`), and that a process that works was heard of within half an interval of the
  last look (`HeardOf`). The periods enter as the inequalities of `WatchdogAssumption`, so the theorem says which of
  them the choice of numbers in five files rests on: an interval of systemd that has a half, some grace, a poll and
  its pause within the silence allowed to the poll, a tick within that allowed to the scheduler. Of a scan and of the
  pass at boot nothing is assumed; `OverrunSeen` says that one which outlasts the silence is noted as the cause
  (`overran`), and the theorem spares only bots without.
- *MCP* (`McpInv`): the call that writes or reads has the exchange, a reply is that of its call, and unless something
  was late, dropped or chatty (`disturbed`) the pipes hold nothing but what belongs to that call (`InStep`).
- *Shells* (`ShellsInv`): a shell is of one session, in the map or at work (`OneOwner`), and its process owes no more
  answers than the one its session waits for, unless a call of that session was dropped or left a job (`Answered`).
- *Keys* (`KeysInv`): the keys used once more than the others are those between where the cursor stood when all were
  even and where it stands (`Turns`). The list holds no dead key, whatever a refresh brings.
- *Health* (`HealthInv`): `Accounted`, each event of the window is in the ring, is about to be counted, or is on no
  line of its own; `Numbered` keeps two reports of one moment apart.
- *Research* (`ResearchInv`): an agent is on only while its coordinator waits for it or has
  yet to clean up after it (`RunsInv`); the lock of the file is held by one save or removal
  (`FileMutex`), and what that is about to write was made of the file as it is (`FilesFit`); rows are of the spec of
  their run (`OwnInv`); between two counts of a run, what is there, what it removed and what it is about to save is no more
  than what was there and what was saved since (`CountsFit`).
- *Memory* (`MemoryInv`): unless writers raced (`raced`), there is one writer and the list in its hands already holds,
  as it will be read back, what will be told to be stored, less what it pushes out or cuts off (`OneWriter`); what the
  digest moves fits its plan (`DigestFits`).
- *Marks* (`MarkersInv`): unless changes overlapped that no lock keeps apart (`tangled`), there is one user of the
  file, and the file lists the marks before or after the change under way (`FileTrue`); whoever a crash cut off is
  still to be told (`CutFits`).

What a `disturbed`, `raced` or `tangled` exempts is in the properties as well: the code does not hold them there
(section 6). Two things came out of these proofs. `FailuresQuarantine` first said that enough failures leave the pair
in quarantine *now*. That held in the run by its bound only: with five ticks and four reports, a report counted after
a later one finds a quarantine that began at its own moment and ends between the two. The property says what the code
does, that the quarantine lasts beyond the moment of the failure counted last, and holds for every bound. And in
`Crash` of `TurnMarkers` two guards of a `CASE` overlapped, which leaves its value open; they are tried in order now.

Only model-checked, not proved: every liveness property (out of the prover's reach), and `FilesHold`, which is the types
of the eleven parts and the properties of the file tools. What the former asks of the other ten is for the most
part in their invariants above; the file tools, with a cache, its loads in flight and renames that outlive their calls,
have no proof yet.

## 6. Where code and words disagree

One run is expected to violate the property it checks, which states what a message of the code says.
`session_abort`: `abort` makes the session Idle while its loop still unwinds; the next prompt is admitted, and
if the old loop is persisted last it replaces the history by its own copy: the new prompt is gone.

Other statements are in the modules without a run. Some are words of a comment or a message, others what a
reader would expect and nothing promises. Each is violated when put into the named configuration.

| statement | configuration | behaviour |
|---|---|---|
| `NoticeOfLiveRun` | `RunRegistry.cfg` | two moves without a bind in between: the second notice is filed under the new chat and the old message id, a key that was never bound, and outlives the run |
| `AbortStopsTurn` | `SessionTurnAll.cfg` | an abort during setup cancels an older token, or none; the turn runs on |
| `NotesKept` | `SessionTurn.cfg` | a queued note is only in memory, and the turn in flight overwrites it |
| `InterruptedIsNotified` | `SessionTurn.cfg` | an append leaves `updated_at` of the file old, so the boot filter skips the chat that was cut off |
| `~halved` dropped from `SaveIsFaithful` | `SessionTurn.cfg` | after an append that failed half-way the next one writes the same lines again, or joins its first to a torn one, and the session cannot be loaded |
| `SaveIsFaithful` | `SessionTurn.cfg`, 3 replies, 1 compaction | a history that was compacted and then grew past the old count is *appended* to the old file, which keeps the replaced messages and lacks the summary |
| `AcceptedIsHeard` | `AgentLoop.cfg` | a steer taken between the last drain and the drop of the receiver is acknowledged and never told |
| `LateEditsAreCorrections` | `AgentLoop.cfg` | an edit that comes through a `select!` is not marked as a correction |
| `HaltIsTold` | `AgentLoop.cfg`, `HaltAt = 2` | the halt is the result of a call nobody made, which the OpenAI format leaves out |
| `ErrPathsDrain` | `AgentLoop.cfg`, 1 call | an abort in a running tool returns without the drain that "every Err return path" is said to have |
| `NoCutBetweenPairs` | `AgentLoop.cfg`, compaction | a steer before a gated call is a user message between a call and its result; `snap_to_turn_boundary` takes it for the start of a turn |
| `EveryRequestIsPaired` | `AgentLoop.cfg` | a turn cancelled in its tools leaves calls without an answer in the session; the next turn sends them. `openai_compat.rs:249` drops such orphans, `anthropic.rs:145` sends the history as it is |
| `ShutdownIsResurrected` | `Scheduler.cfg` | a graceful shutdown writes Failed, which the boot pass does not look at |
| `PausedIsLeftAlone` | `Scheduler.cfg`, no restart | a spec paused by the sweep is dispatched by the end of that tick, from the listing made before |
| `TerminalIsFinal` | `Scheduler.cfg`, no restart | the heartbeat loads `Running`, the worker saves `Completed`, the heartbeat saves `Running` over it |
| `CapHeld`, `OneWorkerPerSpec` | `SchedulerOps.cfg` | `/research run` checks the cap and inserts later, and replaces the handle of a running worker |
| `AlertedMeansStreak` | `SchedulerOps.cfg`, `AlertAfter = 1`, `PauseAfter = 0` | a resume between the count and the notifier leaves the spec muted |
| `PermanentIsPermanent` | `ProviderFailover.cfg` | a fold writes its hour over "for ever" |
| `DrainedIsFolded` | `ProviderFailover.cfg` | a call dropped between its locks takes the tally it drained with it |
| `FallbackIsTold`, `LabelIsOwn` | `ProviderFailover.cfg` | the label of the key that served is one field for all concurrent turns |
| `OnlyExpiredArePurged`, `OffStaysOff`, `NewIsRemembered`, `RemovedStaysRemoved`, `EnableLeavesNoCard` | `ChannelMap.cfg` | checks and writes of `/yolo`, `/new` and the flush are several locks |
| `NothingIsLost` | `Inbound.cfg` | the abort of a debounce timer does not reach a task that is past its sleep: it takes the buffer and is cut at its next wait, and nobody answers what it took |
| `PermitsMeanFinished`, `FollowUpFindsRun`, `SteeredIntoOwn`, `RefusedIsRunning` | `Inbound.cfg` | a message that is still buffered holds no permit; what a message is routed by is read long before it is used |
| `OthersUntouched`, `AnswerStays`, `ButtonsGo`, `NoticeIsCurrent`, `FrozenStays` | `Delivery.cfg` | a flush computed before a move lands after it; the notice names where the run was |
| `RunsAreRemoved` | `Delivery.cfg` | a research stream that the scheduler drops leaves its run in `RUN_REGISTRY`: no guard removes it, it counts against the cap of its thread, and its bubble keeps its buttons |
| `ReachableStop` | `Delivery.cfg`, `Overlap = TRUE` | two commands on one run bind in the other order |
| `NoLateLoss`, `NobodyIsStranded` | `Parts.cfg` | a rename that outlives its call undoes a later edit; a load whose owner was dropped stays in the table, and all later readers wait for it |
| `FreshRead` | `Parts.cfg`, `Grain = 2` | two writes within one tick of the file system's clock have one cache key |
| `NoLostUpdate` | `Parts.cfg`, two spellings | a lock per path as it is spelled |
| `BudgetHeld`, `ParkedIsQuiet`, `ParkIsKept` | `Parts.cfg` | two editors may both be told to go after the same sleep; a later 429 with a shorter wait shortens the park |
| `KeysSurviveErrors` | `Parts.cfg` | a list that fails to load and comes back empty empties the pool |
| `AbortStopsBody` | `Parts.cfg` | aborting the handle of the supervisor leaves its body running |
| `FreeMeansInStep` | `Parts.cfg`, `MaxChatter = 0` | between calls the pipe may still hold a late reply (its id is what keeps it out) |
| `OutputIsAlwaysOwn`, `ProcessesBounded`, `CallsEnd` of the shells | `Parts.cfg` | after a dropped call, or beside a job in the background, the next command reads what is not its own; an evicted shell is killed later; the `exit` that begins a kill (`persistent_bash.rs:374`) is written without a deadline, and with a full pipe the call and all who need its lock wait for ever |
| `ToldIsKeptAlways`, `NeverTorn` | `Parts.cfg` | writers of `MEMORY.md`, the digest among them, share no lock and one `.tmp` name, though `store.rs:137` says "atomic" |
| `StoredWhole`, `NeverTwice` | `Parts.cfg` | of a text of several lines only the first is read back (`store.rs:364-419`); it no longer equals the text, so the text is stored again each time, and what a user asked for loses its mark |
| `EvictsOldest` | `Parts.cfg` | "evicting oldest" takes the first entry of a list that was grouped by section when it was saved |
| `FoldKeeps` | `Parts.cfg` | a summary that "preserves the operational meaning of all" is cut at `compact_max_chars` (`digest/mod.rs:149`, `compact.rs:142`) |
| `FindingsKeptAlways` | `Parts.cfg` | a row saved after a torn line is appended to it, told to be stored, and healed away with it |
| `SavesAreAlwaysOwn` | `Parts.cfg`, `MCChain` with 2 permits or a hard abort | one context for all runs: a save without an id goes to the spec of the run that started last |
| `ReplacementsWereAlwaysSaved` | `Parts.cfg`, `MCTwins` with 3 rounds and 3 saves | the removals of all rounds are taken off the count of the last one, so findings are counted as new again |
| `CancelIsReported` | `Parts.cfg`, `MCAgain` not paused | the summary record of a verified run says the agent was idle; the scheduler, which "treats cancellation as a *failure*" (`scheduler/tasks.rs:98`), records a success |
| `PausedIsSkipped`, `ContextIsLive` | `Parts.cfg` | the gatekeeper sends an agent to a spec that was skipped as paused; a start that was refused leaves the context |
| `LinesAreWhole` | `Parts.cfg` | two threads write their texts before the ends of their lines; the next process passes over both, and over the report that follows one whose process died |
| `ResurrectedIsFree` | `Parts.cfg` | a success in the recovery window clears the quarantine, and the failures that are still in the window begin it again in the same call; the observer is told "resurrected" |
| `MarkersAreAlwaysTrue` | `Parts.cfg` | a refusal that comes late takes away the mark of the next turn of its session, or writes back what it read |
| `UnsavedIsMarked` | `Parts.cfg` | the mark goes before the session is saved: a crash in between loses the turn and tells nobody |
| `SparedWithoutScheduler` | `Parts.cfg` | the beat of the scheduler is required whether or not it was started: with research off, or its lock in another process, a working bot is killed after the grace, for ever |
| `SlowScanIsSpared` | `Parts.cfg` | nothing bounds a scan or the pass at boot: a scheduler that works, only slowly, has the bot killed |
| `SlowBuildIsSpared` | `Parts.cfg`, `BuildLimit = 1` | READY=1 before the wiring starts the clock of systemd, and the first ping comes half of `WatchdogSec` after the wiring, which "can take 10-30s" (`bootstrap.rs:87`) |
| `ClockMaySet` | `Parts.cfg` | ages are differences of a wall clock; set back, an age is negative and is cast to a huge unsigned one |
| `QuietAfterStopping` | `Parts.cfg` | `notify_waiters` does not reach a ticker that is just looking; it goes on pinging |
| `MarkedWasSeen` | `Parts.cfg`, `MaxDay = 3` | a digest that ends past midnight marks the day it did not read |

Behaviours that no text excludes and no statement names:
- A hard abort of a worker that is already in its own accounting counts one failure twice, or a success as a
  timeout; the sweep that drops a handle looks it up again by id and may await a younger one.
- A research run streamed into a thread has its own map of pending permissions, which the card of the thread
  does not see; a placeholder that fails leaves the entry of its steer sender behind.
- `is_key_dead` is `is_permanent`, so the transient branch behind it is never taken.
- `edit_must_deliver` "never drops", and gives up after its tries; a small `retry_after` skips gap and window.
- A patch removes as many lines as its hunk says, without comparing them, and falls back to the hinted line.
- A rule deleted from the memory comes back from the drafts that repeat it.
- A research turn that begins while the marks are read and removed at the start writes the marks of the chats
  back; they are told again after the next crash.

## 7. What is left to do

1. A proof of `FilesHold`: the types of the parts, most of which their invariants imply, and
   an invariant of `FileTools` about its cache and its loads.
2. `ResearchRuns` composed with `Scheduler`, whose worker is one run; `delete_spec`, which drops the lock of a
   file while somebody holds it; the target of a run (`research_set_target`) and the reconciler.
3. `TurnMarkers` composed with `SessionTurn` (the refusal is in both, the race of two sessions only in the former);
   session create and fork; the pending model switch beside `Delivery`.
4. The LSP client, after the pattern of `McpTransport`: `didOpen` may be overtaken by `didChange`, diagnostics
   may be of an older text, a server that died is never replaced.

## 8. What is not modelled

Provider wire formats are parsing whose outcome the loop takes as good or bad; scraping, search and the other tools
are requests with a timeout whose outcome is a string. Rendering, metrics, configuration, the tables of the catalog,
skills and agents feed no decision of the modelled parts beyond constants. The scheduler lock is one `flock`; the
models take from it that one process runs. Reports, briefs, prompts and the reconciler of research are texts made from
the findings. The CLI is a second, thinner front end of the same core. `PROJECT.json` lists each with its reason.
