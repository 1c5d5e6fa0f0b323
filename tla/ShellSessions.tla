--------------------------- MODULE ShellSessions ---------------------------
(***************************************************************************)
(* The shells that outlive a call of bash (naked-core/src/tool/            *)
(* persistent_bash.rs, used by tool/bash.rs): a map of session to shell    *)
(* with a cap, one process per shell, one command at a time in a process.  *)
(* The output of a command ends where the mark printed after it is read.   *)
(* A call may time out, or be dropped with its turn at any await; it may   *)
(* leave a job in the background, which writes to the same pipe; and the   *)
(* kill of a shell begins with a write that may find no room.              *)
(***************************************************************************)
EXTENDS Lists

CONSTANTS
    Session,      \* one turn at a time each, so one call at a time
    None,
    Shell,        \* the shells there may be: those of the map and one of each session
    MaxShells,    \* max_sessions
    MaxRuns,      \* bound on the commands of a session
    MaxCancelled, \* bound on dropped calls
    MaxExits      \* bound on processes that end by themselves

VARIABLES
    sessions,     \* <<session, shell>>, in the order of last_used
    process,      \* shell -> how many commands its process has been given and nobody read, or None
    locked,       \* shell -> the session whose call holds its state, or None
    run,          \* session -> [at, shell] of its call
    jobs,         \* shells whose process has a job in the background
    stuck,        \* sessions whose call has no room in the pipe for the "exit" of the kill
    mixed,        \* sessions whose last output has that of an earlier command in it
    runs, cancelled, exits,
    left          \* history: the sessions a call of which was dropped or left a job

bounds == <<runs, cancelled, exits>>
pipes == <<jobs, stuck>>
vars == <<sessions, process, locked, run, pipes, mixed, bounds, left>>

Resting == [at |-> "idle", shell |-> None]

Init ==
    /\ sessions = <<>>
    /\ process = [s \in Shell |-> None] /\ locked = [s \in Shell |-> None]
    /\ run = [o \in Session |-> Resting] /\ mixed = {} /\ jobs = {} /\ stuck = {}
    /\ runs = [o \in Session |-> MaxRuns] /\ cancelled = MaxCancelled /\ exits = MaxExits
    /\ left = {}

-----------------------------------------------------------------------------
(***************************************************************************)
(* PersistentBashManager::get_or_create: a loop of critical sections.      *)
(***************************************************************************)

Places(o) == {i \in DOMAIN sessions : sessions[i][1] = o}
Named == {e[2] : e \in Range(sessions)} \cup {run[o].shell : o \in Session}

Begin(o) ==
    /\ run[o].at = "idle" /\ runs[o] > 0
    /\ runs' = [runs EXCEPT ![o] = @ - 1]
    /\ run' = [run EXCEPT ![o].at = "get"]
    /\ UNCHANGED <<sessions, process, locked, pipes, mixed, cancelled, exits, left>>

Get(o) ==
    /\ run[o].at = "get"
    /\ \E i \in Places(o) :
        /\ sessions' = Append(Without(sessions, i), sessions[i])
        /\ run' = [run EXCEPT ![o] = [at |-> "shell", shell |-> sessions[i][2]]]
    /\ UNCHANGED <<process, locked, pipes, mixed, bounds, left>>

FullLate == Len(sessions) > MaxShells
Full == Len(sessions) >= MaxShells

\* A new shell has no process yet; that of a shell nobody has any more has lost
\* its pipes and is left to itself.
Create(o) ==
    LET s == CHOOSE f \in Shell \ Named : TRUE IN
    /\ run[o].at = "get" /\ Places(o) = {} /\ ~ Full
    /\ sessions' = Append(sessions, <<o, s>>)
    /\ process' = [process EXCEPT ![s] = None] /\ jobs' = jobs \ {s}
    /\ run' = [run EXCEPT ![o] = [at |-> "shell", shell |-> s]]
    /\ UNCHANGED <<locked, stuck, mixed, bounds, left>>

\* The shell that was used longest ago, of those whose state is not locked: when
\* the map is full, and below the cap when it is older than idle_ttl.
Victims == {i \in DOMAIN sessions : locked[sessions[i][2]] = None}
Evict(o) ==
    LET i == CHOOSE j \in Victims : \A k \in Victims : j <= k IN
    /\ run[o].at = "get" /\ Places(o) = {} /\ Victims # {}
    /\ sessions' = Without(sessions, i)
    /\ run' = [run EXCEPT ![o] = [at |-> "close", shell |-> sessions[i][2]]]
    /\ UNCHANGED <<process, locked, pipes, mixed, bounds, left>>

\* All are busy until the deadline.
Busy(o) ==
    /\ run[o].at = "get" /\ Places(o) = {} /\ Full /\ Victims = {}
    /\ run' = [run EXCEPT ![o] = Resting]
    /\ UNCHANGED <<sessions, process, locked, pipes, mixed, bounds, left>>

-----------------------------------------------------------------------------
(***************************************************************************)
(* ShellSession::run and ShellSession::close, under the lock of the state. *)
(***************************************************************************)

\* A shell without a process, or whose process is gone, starts one; the command
\* and its mark are written.
RunCommand(o) ==
    LET s == run[o].shell IN
    /\ run[o].at = "shell" /\ locked[s] = None
    /\ locked' = [locked EXCEPT ![s] = o]
    /\ process' = [process EXCEPT ![s] = IF @ = None THEN 1 ELSE @ + 1]
    /\ run' = [run EXCEPT ![o].at = "read"]
    /\ UNCHANGED <<sessions, pipes, mixed, bounds, left>>

Unlock(o) ==
    /\ locked' = [locked EXCEPT ![run[o].shell] = None]
    /\ run' = [run EXCEPT ![o] = Resting]

\* bash does not start.
StartFails(o) ==
    /\ run[o].at = "shell" /\ locked[run[o].shell] = None /\ process[run[o].shell] = None
    /\ run' = [run EXCEPT ![o] = Resting]
    /\ UNCHANGED <<sessions, process, locked, pipes, mixed, bounds, left>>

\* Everything up to the mark of this command, and what jobs of earlier ones wrote; the
\* command may have left one too.
ReadToMark(o) ==
    LET s == run[o].shell IN
    /\ run[o].at = "read" /\ process[s] # None
    /\ \E noise \in {process[s] > 1, process[s] > 1 \/ s \in jobs} :
            mixed' = IF noise THEN mixed \cup {o} ELSE mixed \ {o}
    /\ \E leaves \in BOOLEAN :
            /\ jobs' = IF leaves THEN jobs \cup {s} ELSE jobs
            /\ left' = IF leaves THEN left \cup {o} ELSE left
    /\ process' = [process EXCEPT ![s] = 0]
    /\ Unlock(o)
    /\ UNCHANGED <<sessions, stuck, bounds>>

\* The timeout, an error of a pipe or the end of the output: the process is
\* killed before the lock is given back.
FailsOnly(o) ==
    /\ run[o].at = "read" /\ Unlock(o)
    /\ UNCHANGED <<sessions, process, pipes, mixed, bounds, left>>
Fails(o) ==
    /\ run[o].at = "read"
    /\ run' = [run EXCEPT ![o].at = "reap"]
    /\ UNCHANGED <<sessions, process, locked, pipes, mixed, bounds, left>>

Close(o) ==
    /\ run[o].at = "close" /\ locked[run[o].shell] = None
    /\ locked' = [locked EXCEPT ![run[o].shell] = o]
    /\ run' = [run EXCEPT ![o].at = "kill"]
    /\ UNCHANGED <<sessions, process, pipes, mixed, bounds, left>>

\* kill_and_reap: for the call that failed, or for the one that wants the place.  The
\* write of "exit" has no deadline.  A command that reads nothing may keep the pipe full;
\* then the lock is held until it reads, or ends.
HasRoom(o) == o \notin stuck \/ process[run[o].shell] = None
KillAndReap(o) ==
    LET s == run[o].shell IN
    /\ run[o].at \in {"reap", "kill"} /\ HasRoom(o)
    /\ process' = [process EXCEPT ![s] = None] /\ locked' = [locked EXCEPT ![s] = None]
    /\ jobs' = jobs \ {s} /\ stuck' = stuck \ {o}
    /\ run' = [run EXCEPT ![o] = IF run[o].at = "kill" THEN [at |-> "get", shell |-> None] ELSE Resting]
    /\ UNCHANGED <<sessions, mixed, bounds, left>>

NoRoom(o) ==
    /\ run[o].at \in {"reap", "kill"} /\ process[run[o].shell] \notin {None, 0}
    /\ stuck' = (stuck \ {o}) \cup ({o} \ stuck)     \* or there is room again
    /\ UNCHANGED <<sessions, process, locked, run, jobs, mixed, bounds, left>>

\* The future of the call is dropped: the lock is free, and nothing is killed but
\* by a kill that was under way.
Dropped(o) ==
    LET s == run[o].shell IN
    /\ run[o].at # "idle" /\ cancelled > 0 /\ cancelled' = cancelled - 1
    /\ run' = [run EXCEPT ![o] = Resting]
    /\ locked' = [x \in Shell |-> IF locked[x] = o THEN None ELSE locked[x]]
    /\ \/ UNCHANGED <<process, jobs>>
       \/ /\ run[o].at \in {"reap", "kill"} /\ o \notin stuck
          /\ process' = [process EXCEPT ![s] = None] /\ jobs' = jobs \ {s}
    /\ stuck' = stuck \ {o} /\ left' = left \cup {o}
    /\ UNCHANGED <<sessions, mixed, runs, exits>>

\* A command ends its shell, now or in the background.
Exit(s) ==
    /\ s \in Named /\ process[s] # None /\ exits > 0 /\ exits' = exits - 1
    /\ process' = [process EXCEPT ![s] = None] /\ jobs' = jobs \ {s}
    /\ UNCHANGED <<sessions, locked, run, stuck, mixed, runs, cancelled, left>>

Progress == \E o \in Session :
    \/ Get(o) \/ Create(o) \/ Evict(o) \/ Busy(o)
    \/ RunCommand(o) \/ StartFails(o) \/ ReadToMark(o) \/ Fails(o)
    \/ Close(o) \/ KillAndReap(o)
Next == Progress \/ (\E o \in Session : Begin(o) \/ NoRoom(o) \/ Dropped(o)) \/ \E s \in Shell : Exit(s)

\* Every command has a deadline, and so has the wait for a place; that a full pipe is read
\* is not assumed.
Spec == Init /\ [][Next]_vars /\ WF_vars(Progress)

-----------------------------------------------------------------------------
(***************************************************************************)
(* Properties                                                              *)
(***************************************************************************)

\* The types; one shell per session, and a lock is held by a call that is at work.
TypeOK ==
    /\ IsInjective([i \in DOMAIN sessions |-> sessions[i][1]])
    /\ \A s \in Shell : process[s] \in Nat \cup {None}
    /\ \A o \in Session :
        run[o].at \in {"read", "reap", "kill"} <=> \E s \in Shell : locked[s] = o

\* However the calls of several sessions interleave, the map has no more shells
\* than its cap.
ShellsBounded == Len(sessions) <= MaxShells

\* A command that timed out or failed leaves nothing to the next one: the output
\* of a call is that of its own command, as long as no call of the session was dropped
\* and none left a job (persistent_bash_timeout_kills_and_session_recovers).
OutputIsOwn == mixed \subseteq left

\* Without that condition: it does not hold, a dropped call does not kill, and
\* the next one reads the output it left, or that of a job.
OutputIsAlwaysOwn == mixed = {}

\* "max_sessions" bounds the processes: it does not hold, a shell that was looked
\* up and is not yet locked is idle to an eviction, and runs outside the map.
ProcessesBounded == Cardinality({s \in Named \ {None} : process[s] # None}) <= MaxShells

\* Every call ends, but for one that kills a shell whose pipe is full and those that wait
\* for the lock it holds.
Waits(o) == o \in stuck \/ (run[o].at \in {"shell", "close"} /\ locked[run[o].shell] \in stuck)
Quiet == \A o \in Session : run[o].at = "idle" \/ Waits(o)

\* Without that: it does not hold.
CallsEnd == []<>(\A o \in Session : run[o].at = "idle")
=============================================================================
