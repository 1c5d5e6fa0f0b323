------------------------------ MODULE Inbound ------------------------------
(***************************************************************************)
(* From getUpdates to the end of the answer, for one chat and thread: the  *)
(* polling loop (naked-tg/src/runtime.rs), the coalescer of albums and     *)
(* text bursts (album.rs), the permits, the short lock per chat and thread *)
(* (per_chat_locks.rs), the choice between steering a turn and starting    *)
(* one (message_handler.rs), and the life of the stream that shows a turn  *)
(* (streaming_mod/pipeline.rs), with a research run that the scheduler     *)
(* streams into the same thread.  Every update runs as a task of its own;  *)
(* a step is what happens between two awaits that others can get between.  *)
(***************************************************************************)
EXTENDS Naturals, Sequences, FiniteSetsExt

CONSTANTS
    Scenarios,      \* the instances: the kinds of the updates; a bound on stops, crashes,
                    \* placeholders that are not sent and timers aborted while they fire; the
                    \* permits of task_tracker (50)
    MaxItems,       \* MAX_ALBUM_ITEMS, 16 in the code
    RunCap          \* live streams of a thread: 3, or 1 without the multi-stream switch

Kind == {"text", "photo", "new", "tap", "edit", "research"}

ASSUME InboundAssumption ==
    /\ MaxItems \in Nat \ {0} /\ RunCap \in Nat \ {0}
    /\ Scenarios \subseteq [kinds : Seq(Kind), events : Nat, permits : Nat \ {0}]

VARIABLES
    permits,
    sent,       \* the kinds of the updates, in the order of their ids
    acked,      \* updates Telegram no longer delivers
    offset,     \* the last update the bot has dispatched, as the process knows it
    stage,      \* "up" or "draining"
    ahead,      \* tasks that wait for permits before the shutdown does
    task,       \* update -> where its task is
    buffer,     \* coalescing key -> what waits for the debounce timer
    overdue,    \* keys whose aborted timer is past its sleep and takes the entry all the same
    cut,        \* history: the messages such timers took
    current,    \* the session the thread talks to, 0 for none
    created,    \* number of sessions made
    fresh,      \* history: how many of them in this life of the process
    lock,       \* holder of the lock of the thread, 0 for none
    turn,       \* update -> the turn it started
    fate,       \* history: update -> what became of it in this life of the process
    omitted, told,  \* history: items dropped at the cap; items a notice told of
    events      \* what is left of the bound on stops, crashes and failures

server == <<permits, sent, acked>>
poller == <<offset, stage, ahead>>
sessions == <<current, created, fresh>>
tally == <<omitted, told>>
timers == <<overdue, cut>>
vars == <<server, poller, task, buffer, timers, sessions, lock, turn, fate, tally, events>>

Update == DOMAIN sent
Key == {"text", "photo"}

NoTask == [pc |-> "none", session |-> 0, parts |-> {}]
NoTurn == [state |-> "none", session |-> 0, asked |-> FALSE]
Empty == [msgs |-> {}, dropped |-> 0]

Ended == [NoTask EXCEPT !.pc = "done"]
Goto(u, pc) == [task EXCEPT ![u].pc = pc]
End(us) == [u \in Update |-> IF u \in us THEN Ended ELSE task[u]]
Outcome(us, what) ==
    [u \in Update |-> IF u \notin us THEN fate[u] ELSE IF fate[u] = "none" THEN what ELSE "twice"]
Event == events > 0 /\ events' = events - 1

At(pcs) == {u \in Update : task[u].pc \in pcs}
Holding == At({"new", "tap", "media", "steer", "send", "register", "placeholder", "loop", "final",
               "cleaned", "drain"}) \ {u \in Update : sent[u] = "research"}
Unfinished == {u \in Update : task[u].pc \notin {"none", "done", "left"}}

\* What others can see of a turn and its stream.
ActiveUnlessAsking(s) ==
    \E u \in Update : turn[u].session = s /\ turn[u].state \in {"running", "idle"}
Active(s) == \E u \in Update : turn[u].session = s /\ turn[u].state # "none"
Registered == At({"placeholder", "left", "loop", "final", "cleaned"})       \* RUN_REGISTRY
Senders == At({"placeholder", "left", "loop", "final"})               \* STEER_SENDERS
Listening(u) == turn[u].state \in {"running", "asking"}

\* try_steer_active_turn: only a thread with one run is steered.
Steered == {u \in Registered \cap Senders : Registered = {u} /\ Listening(u)}

Init ==
    /\ \E s \in Scenarios : sent = s.kinds /\ events = s.events /\ permits = s.permits
    /\ acked = 0
    /\ offset = 0 /\ stage = "up" /\ ahead = {}
    /\ task = [u \in Update |-> NoTask] /\ buffer = [k \in Key |-> Empty]
    /\ overdue = {} /\ cut = {}
    /\ current = 0 /\ created = 0 /\ fresh = 0 /\ lock = 0
    /\ turn = [u \in Update |-> NoTurn] /\ fate = [u \in Update |-> "none"]
    /\ omitted = {} /\ told = 0

-----------------------------------------------------------------------------
(***************************************************************************)
(* Users, and the polling loop                                             *)
(***************************************************************************)

\* getUpdates confirms what was dispatched before and brings what users sent since;
\* a process that just started knows no offset and confirms nothing.  dispatch_update
\* gives every update a task, except an edit that steers the one run of its thread.
Batch(n) == {u \in Update : (IF offset = 0 THEN acked ELSE offset) < u /\ u <= n}
SteersAtOnce(u) == sent[u] = "edit" /\ Steered # {}

Poll ==
    /\ stage = "up"
    /\ acked' = IF offset = 0 THEN acked ELSE offset
    /\ offset' \in acked'..Len(sent)
    /\ task' = [u \in Update |->
                  IF u \notin Batch(offset') \/ sent[u] = "research" THEN task[u]
                  ELSE IF SteersAtOnce(u) THEN Ended
                  ELSE [NoTask EXCEPT !.pc = IF sent[u] \in Key THEN "gate" ELSE "permit"]]
    /\ fate' = Outcome({u \in Batch(offset') : SteersAtOnce(u)}, "steered")
    /\ UNCHANGED <<permits, sent, stage, ahead, buffer, timers, sessions, lock, turn, tally, events>>

-----------------------------------------------------------------------------
(***************************************************************************)
(* Coalescing                                                              *)
(***************************************************************************)

\* text_burst_key_if_eligible: a text is held back only while its thread is quiet.
Quiet == ~Active(current) /\ Registered = {}

\* submit_keyed: the cap and the buffer under the lock of the coalescer; the debounce
\* timer starts anew.  The old one is aborted, which stops it where it waits next: one that
\* is running already, past its sleep, still takes the entry when it gets the lock.
Submit(u) ==
    LET k == sent[u] IN
    /\ task[u].pc = "gate" /\ (k = "photo" \/ Quiet)
    /\ IF Cardinality(buffer[k].msgs) >= MaxItems
       THEN /\ buffer' = [buffer EXCEPT ![k].dropped = @ + 1]
            /\ task' = End({u}) /\ fate' = Outcome({u}, "omitted")
            /\ omitted' = omitted \cup {u}
       ELSE /\ buffer' = [buffer EXCEPT ![k].msgs = @ \cup {u}]
            /\ task' = Goto(u, "buffered")
            /\ UNCHANGED <<fate, omitted>>
    /\ \/ UNCHANGED <<overdue, events>>
       \/ buffer[k].msgs # {} /\ Event /\ overdue' = overdue \cup {k}
    /\ UNCHANGED <<server, poller, sessions, lock, turn, told, cut>>

Solo(u) ==
    /\ task[u].pc = "gate" /\ sent[u] = "text" /\ ~Quiet
    /\ task' = Goto(u, "permit")
    /\ UNCHANGED <<server, poller, buffer, timers, sessions, lock, turn, fate, tally, events>>

\* What the timer leaves of the entry of a key.
Kept(k) == buffer[k]
CountKept(k) == [buffer[k] EXCEPT !.msgs = {}]
AfterFlush(k) == Empty

\* The timer takes the entry; the flush runs as the task of the lowest message id and
\* begins by waiting for a permit.
Flush(k) ==
    LET msgs == buffer[k].msgs  first == Min(msgs) IN
    /\ msgs # {}
    /\ buffer' = [buffer EXCEPT ![k] = AfterFlush(k)]
    /\ told' = told + buffer[k].dropped
    /\ task' = [End(msgs) EXCEPT ![first] = [NoTask EXCEPT !.pc = "permit", !.parts = msgs]]
    /\ overdue' = overdue \ {k}
    /\ cut' = IF k \in overdue THEN cut \cup msgs ELSE cut
    /\ UNCHANGED <<server, poller, sessions, lock, turn, fate, omitted, events>>

-----------------------------------------------------------------------------
(***************************************************************************)
(* handle_message                                                          *)
(***************************************************************************)

PartsOfBurst(u) == {u}
Parts(u) == {u} \cup task[u].parts
Done(u, what) == task' = End({u}) /\ fate' = Outcome(Parts(u), what)

FreeOffByOne(u) == Cardinality(Holding) <= permits /\ (stage = "up" \/ u \in ahead)
Free(u) == Cardinality(Holding) < permits /\ (stage = "up" \/ u \in ahead)

\* The flush of an aborted timer is dropped at the first await it has to wait at, and the
\* sending of the placeholder is one: with it go its permit, the lock of the thread and the
\* messages; a turn it started runs on, and a run it registered stays registered.
CutShort(u) ==
    /\ u \in cut /\ task[u].pc \in {"permit", "media", "steer", "send", "register", "placeholder"}
    /\ task' = IF task[u].pc = "placeholder" THEN Goto(u, "left") ELSE End({u})
    /\ fate' = Outcome(Parts(u), "lost")
    /\ lock' = IF lock = u THEN 0 ELSE lock
    /\ UNCHANGED <<server, poller, buffer, timers, sessions, turn, tally, events>>

\* A permit, then the session the thread has now; what follows (media) takes long.
Acquire(u) ==
    /\ task[u].pc = "permit" /\ Free(u)
    /\ task' = [task EXCEPT ![u].pc = IF sent[u] \in {"new", "tap"} THEN sent[u] ELSE "media",
                            ![u].session = current]
    /\ UNCHANGED <<server, poller, buffer, timers, sessions, lock, turn, fate, tally, events>>

\* Commands do not take the lock of the thread.
CommandNew(u) ==
    /\ task[u].pc = "new"
    /\ created' = created + 1 /\ current' = created + 1 /\ fresh' = fresh + 1
    /\ Done(u, "handled")
    /\ UNCHANGED <<server, poller, buffer, timers, lock, turn, tally, events>>

\* A tap answers the card of a turn; the scheduler's runs keep their cards in a map of
\* their own that no tap reaches.
Cards == {v \in Update : turn[v].state = "asking" /\ sent[v] # "research"}

Tap(u) ==
    /\ task[u].pc = "tap"
    /\ turn' = [v \in Update |-> IF v \in Cards THEN [turn[v] EXCEPT !.state = "running"]
                                 ELSE turn[v]]
    /\ Done(u, IF Cards = {} THEN "told" ELSE "handled")
    /\ UNCHANGED <<server, poller, buffer, timers, sessions, lock, tally, events>>

\* get_or_create_session looks again under the write lock of the map.
ResolvedUnchecked(u) == IF task[u].session # 0 THEN task[u].session ELSE created + 1
Resolved(u) == IF task[u].session = 0 /\ current # 0 THEN current ELSE ResolvedUnchecked(u)

\* The lock of the thread; the session seen before the media was processed is kept.
Enter(u) ==
    LET s == Resolved(u) IN
    /\ task[u].pc = "media" /\ lock = 0
    /\ lock' = u
    /\ task' = [task EXCEPT ![u].session = s, ![u].pc = IF Active(s) THEN "steer" ELSE "send"]
    /\ IF s = created + 1 THEN created' = s /\ current' = s /\ fresh' = fresh + 1
       ELSE UNCHANGED sessions
    /\ UNCHANGED <<server, poller, buffer, timers, turn, fate, tally, events>>

Steer(u) ==
    /\ task[u].pc = "steer"
    /\ Done(u, IF Steered # {} THEN "steered" ELSE "told")      \* busy, or ambiguous
    /\ lock' = 0
    /\ UNCHANGED <<server, poller, buffer, timers, sessions, turn, tally, events>>

\* send_prompt; SessionBusy is answered as an active session is.
Send(u) ==
    /\ task[u].pc = "send"
    /\ IF Active(task[u].session) THEN task' = Goto(u, "steer") /\ UNCHANGED <<lock, turn>>
       ELSE /\ turn' = [turn EXCEPT ![u] = [NoTurn EXCEPT !.state = "running",
                                                          !.session = task[u].session]]
            /\ task' = Goto(u, "register") /\ lock' = 0
    /\ UNCHANGED <<server, poller, buffer, timers, sessions, fate, tally, events>>

-----------------------------------------------------------------------------
(***************************************************************************)
(* stream_response, which runs in the task that started the turn, after    *)
(* the lock of the thread was given back                                   *)
(***************************************************************************)

\* The scheduler starts a run in a session of its own, outside of lock and permits.
Launch(u) ==
    /\ stage = "up" /\ sent[u] = "research" /\ task[u].pc = "none"
    /\ created' = created + 1 /\ fresh' = fresh + 1
    /\ turn' = [turn EXCEPT ![u] = [NoTurn EXCEPT !.state = "running", !.session = created + 1]]
    /\ task' = [task EXCEPT ![u] = [NoTask EXCEPT !.pc = "register", !.session = created + 1]]
    /\ UNCHANGED <<server, poller, buffer, timers, current, lock, fate, tally, events>>

\* A cancelled turn leaves its loop.
Cancelled(u) == [turn EXCEPT ![u].state = IF @ = "none" THEN @ ELSE "idle"]

\* register_run refuses a full thread and a session that still has a stream.
Registrable(u) ==
    /\ Cardinality(Registered) < RunCap
    /\ \A v \in Registered : task[v].session # task[u].session

\* A refusal is told, the turn is cancelled and its events are drained.
Register(u) ==
    /\ task[u].pc = "register"
    /\ IF Registrable(u) THEN task' = Goto(u, "placeholder") /\ UNCHANGED <<turn, fate>>
       ELSE /\ task' = Goto(u, "drain") /\ turn' = Cancelled(u)
            /\ fate' = Outcome(Parts(u), "told")
    /\ UNCHANGED <<server, poller, buffer, timers, sessions, lock, tally, events>>

Placeholder(u) ==
    /\ task[u].pc = "placeholder" /\ u \notin cut
    /\ \/ task' = Goto(u, "loop") /\ UNCHANGED <<turn, fate, events>>
       \/ /\ Event
          /\ task' = Goto(u, "drain") /\ turn' = Cancelled(u)
          /\ fate' = Outcome(Parts(u), "unsent")
    /\ UNCHANGED <<server, poller, buffer, timers, sessions, lock, tally>>

\* drain_rejected_stream: until the turn is idle, or its timeout passes.
Drain(u) ==
    /\ task[u].pc = "drain"
    /\ task' = End({u})
    /\ UNCHANGED <<server, poller, buffer, timers, sessions, lock, turn, fate, tally, events>>

\* Idle, or the end of the channel, ends the loop; the last answer is sent; the steer
\* sender goes with the buttons, the run itself goes last.
ShowLast(u) ==
    /\ task[u].pc = "loop" /\ turn[u].state \in {"idle", "none"}
    /\ task' = Goto(u, "final")
    /\ UNCHANGED <<server, poller, buffer, timers, sessions, lock, turn, fate, tally, events>>

Cleanup(u) ==
    /\ task[u].pc = "final"
    /\ task' = Goto(u, "cleaned") /\ fate' = Outcome(Parts(u), "answered")
    /\ UNCHANGED <<server, poller, buffer, timers, sessions, lock, turn, tally, events>>

RemoveRun(u) ==
    /\ task[u].pc = "cleaned"
    /\ task' = End({u})
    /\ UNCHANGED <<server, poller, buffer, timers, sessions, lock, turn, fate, tally, events>>

-----------------------------------------------------------------------------
(***************************************************************************)
(* The core: a turn asks at most once, emits Idle, and frees its session   *)
(***************************************************************************)

SetTurn(u, from, to) ==
    /\ turn[u].state \in from
    /\ turn' = [turn EXCEPT ![u].state = to, ![u].asked = @ \/ to = "asking"]
    /\ UNCHANGED <<server, poller, task, buffer, timers, sessions, lock, fate, tally, events>>

AskPermission(u) == task[u].pc = "loop" /\ ~turn[u].asked /\ SetTurn(u, {"running"}, "asking")
NoCardTimeout(u) == FALSE
CardTimeout(u) == SetTurn(u, {"asking"}, "running")
TurnIdle(u) == SetTurn(u, {"running"}, "idle")
TurnOver(u) ==
    /\ turn[u].state = "idle"
    /\ turn' = [turn EXCEPT ![u] = NoTurn]
    /\ UNCHANGED <<server, poller, task, buffer, timers, sessions, lock, fate, tally, events>>

-----------------------------------------------------------------------------
(***************************************************************************)
(* Shutdown and crash                                                      *)
(***************************************************************************)

\* The loop ends between two batches.  The shutdown asks for all permits: who waited
\* before it goes first, who comes later waits for good.
Stop ==
    /\ stage = "up" /\ Event
    /\ stage' = "draining"
    /\ ahead' = At({"permit"})
    /\ UNCHANGED <<server, offset, task, buffer, timers, sessions, lock, turn, fate, tally>>

Drained == Holding = {} /\ At({"permit"}) \cap ahead = {}

\* It has them all, or 30 s passed, or the process was killed: nothing of it is left.
\* systemd starts it again and the map of sessions is restored.
Restart ==
    /\ stage = "draining"
    /\ offset' = 0 /\ stage' = "up" /\ ahead' = {}
    /\ task' = [u \in Update |-> NoTask] /\ buffer' = [k \in Key |-> Empty]
    /\ overdue' = {} /\ cut' = {}
    /\ lock' = 0 /\ turn' = [u \in Update |-> NoTurn]
    /\ fate' = [u \in Update |-> "none"] /\ omitted' = {} /\ told' = 0 /\ fresh' = 0
    /\ UNCHANGED <<server, current, created, events>>

Handling(u) == Submit(u) \/ Solo(u) \/ Acquire(u) \/ CommandNew(u) \/ Tap(u) \/ Enter(u)
                  \/ Steer(u) \/ Send(u) \/ CutShort(u)
Streaming(u) == Register(u) \/ Placeholder(u) \/ Drain(u) \/ ShowLast(u) \/ Cleanup(u)
                   \/ RemoveRun(u)
Turning(u) == CardTimeout(u) \/ TurnIdle(u) \/ TurnOver(u)

\* What the runtime carries on by itself.
Progress ==
    \/ Poll
    \/ \E u \in Update : Handling(u) \/ Streaming(u) \/ Turning(u)
    \/ \E k \in Key : Flush(k)
    \/ Restart

Next ==
    \/ \E u \in Update : Launch(u) \/ AskPermission(u)
    \/ Stop
    \/ Progress

\* Timers, timeouts and the fair queues of the lock and the permits: no task waits for
\* ever while the process lives, and systemd starts it again.
Spec == Init /\ [][Next]_vars /\ WF_vars(Progress)

-----------------------------------------------------------------------------
(***************************************************************************)
(* Properties                                                              *)
(***************************************************************************)

Outcomes == {"steered", "told", "handled", "omitted", "unsent", "answered", "lost"}

\* Types; one task holds the lock of the thread, and within the permits.
TypeOK ==
    /\ acked \in 0..Len(sent) /\ offset \in 0..Len(sent) /\ current \in 0..created
    /\ Cardinality(Holding) <= permits
    /\ At({"steer", "send"}) = IF lock = 0 THEN {} ELSE {lock}
    /\ \A u \in Update : task[u].session \in 0..created /\ fate[u] \in Outcomes \cup {"none", "twice"}
    /\ \A k \in Key : buffer[k].msgs = {u \in At({"buffered"}) : sent[u] = k}

\* However its task, the timer, the lock and the streams interleave, a message
\* has one outcome in a life of the process: nothing is flushed twice, and no
\* message is both steered and answered.
OneFate == \A u \in Update : fate[u] # "twice"

\* Two first messages of a thread make one session; only /new and a research
\* run make another.
OneSession ==
    fresh <= 1 + Cardinality({u \in Update : sent[u] \in {"new", "research"}})

\* Two turns never run in one session: the decision to start one is made under
\* the lock of the thread, though the lock is given back before the turn ends.
OneTurn ==
    \A u, v \in Update :
        u # v /\ turn[u].session = turn[v].session /\ turn[u].session # 0 =>
            ~(Listening(u) /\ Listening(v))

\* One session for the first messages of a thread, one turn at a time in a session.
OneAtATime == OneSession /\ OneTurn

\* A message that was dispatched is steered, answered, told of or lost, or a task that
\* has not got so far speaks for it: none disappears between buffer, flush and turn.
NoneDisappears ==
    \A u \in Update :
        fate[u] = "none" /\ task[u].pc # "none" => \E v \in Unfinished : u \in Parts(v)

\* Only a message that an aborted timer took is lost.
LostWasCut == \A u \in Update : fate[u] = "lost" => u \in cut

\* Every item that was dropped at the cap is told of in the burst it belongs to.
OmittedAreTold == Cardinality(omitted) = told + buffer["text"].dropped + buffer["photo"].dropped

\* Every message is accounted for: it has one fate, or a task that is under way has it;
\* what was dropped at the cap is written into its burst; and a message is lost only with
\* a burst whose timer was restarted when it had fired already.
MessagesAccounted == TypeOK /\ OneFate /\ NoneDisappears /\ LostWasCut /\ OmittedAreTold

\* No task waits for ever, not even when the turns that wait for a tap hold all the
\* permits and the tap waits for one of them: the card times out.
EveryTaskEnds == []<>(Unfinished = {})

\* album.rs, on the overflow of a burst: "we still want to flush whatever we have".
NothingIsLost == \A u \in Update : fate[u] # "lost"

\* runtime.rs, "Wait for all permits to be returned (all tasks finished)": when the
\* shutdown has the permits, no message is left waiting in a task or in the buffer.
PermitsMeanFinished ==
    stage = "draining" /\ Drained => {u \in Unfinished : sent[u] # "research"} = {}

\* message_handler.rs, under the lock: "the new-turn-vs-steer/queue decision and
\* registration": who gets the lock finds the run of an active session.
FollowUpFindsRun ==
    lock = 0 => \A u \in Update : sent[u] # "research" /\ Listening(u) => u \in Registered

\* A message is steered into the turn of the session it is meant for.
SteeredIntoOwn ==
    [][\A u \in Update : task[u].pc = "steer" /\ Steered # {} /\ lock' # lock =>
          task[Min(Steered)].session = task[u].session]_vars

\* reject_message, "a turn of this session is already running": it is so.
RefusedIsRunning ==
    [][\A u \in Update :
          task[u].pc = "register" /\ task'[u].pc = "drain" /\ Cardinality(Registered) < RunCap =>
              \E v \in Update \ {u} : turn[v].session = task[u].session
                                         /\ turn[v].state \in {"running", "asking"}]_vars

=============================================================================
