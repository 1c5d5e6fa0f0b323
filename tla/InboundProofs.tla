--------------------------- MODULE InboundProofs ---------------------------
(***************************************************************************)
(* Inbound for any updates, permits, cap of a burst and cap of streams.    *)
(***************************************************************************)
EXTENDS Inbound, FiniteSetTheorems, WellFoundedInduction, TLAPS

(* Types. *)

Pc == {"none", "gate", "buffered", "permit", "new", "tap", "media", "steer", "send", "register",
       "placeholder", "left", "loop", "final", "cleaned", "drain", "done"}
Task == [pc : Pc, session : Nat, parts : SUBSET Update]
Entry == [msgs : SUBSET Update, dropped : Nat]
Turn == [state : {"none", "running", "asking", "idle"}, session : Nat, asked : BOOLEAN]
Fate == Outcomes \cup {"none", "twice"}

ServerTyped == sent \in Seq(Kind) /\ permits \in Nat
PollerTyped == acked \in 0..Len(sent) /\ offset \in 0..Len(sent)
TaskTyped == task \in [Update -> Task]
BufferTyped == buffer \in [Key -> Entry]
SessionsTyped == current \in Nat /\ created \in Nat /\ fresh \in Nat
LockTyped == lock \in Update \cup {0}
TurnTyped == turn \in [Update -> Turn]
FateTyped == fate \in [Update -> Fate]
TallyTyped == omitted \subseteq Update /\ told \in Nat
TimersTyped == cut \subseteq Update

Typed ==
    /\ ServerTyped /\ PollerTyped /\ TaskTyped /\ BufferTyped /\ SessionsTyped /\ LockTyped
    /\ TurnTyped /\ FateTyped /\ TallyTyped /\ TimersTyped

LEMMA SameUpdates == ASSUME [Next]_vars PROVE UNCHANGED <<permits, sent>> /\ Update' = Update
<1>1. UNCHANGED <<permits, sent>>
    BY DEF Next, Progress, Handling, Streaming, Turning, vars, server, Poll, Submit, Solo, Flush,
           Acquire, CommandNew, Tap, Enter, Steer, Send, CutShort, Launch, Register, Placeholder, Drain, ShowLast,
           Cleanup, RemoveRun, SetTurn, AskPermission, CardTimeout, TurnIdle, TurnOver, Stop, Restart
<1> QED
    BY <1>1 DEF Update

LEMMA Updates == ServerTyped => Update = 1..Len(sent) /\ Update \subseteq Nat \ {0} /\ IsFiniteSet(Update)
<1> SUFFICES ASSUME ServerTyped PROVE Update = 1..Len(sent) /\ Update \subseteq Nat \ {0} /\ IsFiniteSet(Update)
    OBVIOUS
<1>1. Update = 1..Len(sent) /\ Len(sent) \in Nat
    BY DEF ServerTyped, Update
<1>2. IsFiniteSet(1..Len(sent))
    BY <1>1, FS_Interval
<1> QED
    BY <1>1, <1>2

LEMMA Least == ASSUME NEW T, T \subseteq Nat, T # {} PROVE Min(T) \in T
<1>1. PICK n \in T : \A m \in T : <<m, n>> \notin OpToRel(<, Nat)
    BY WFMin, NatLessThanWellFounded
<1>2. \A m \in T : ~(m < n)
    BY <1>1 DEF OpToRel
<1>3. \A m \in T : n <= m
    BY <1>2
<1> QED
    BY <1>3 DEF Min

LEMMA EndTyped ==
    ASSUME TaskTyped, NEW us PROVE End(us) \in [Update -> Task]
BY DEF TaskTyped, Task, End, Ended, NoTask, Pc

LEMMA GotoTyped ==
    ASSUME TaskTyped, NEW u \in Update, NEW pc \in Pc PROVE Goto(u, pc) \in [Update -> Task]
BY DEF TaskTyped, Task, Goto

LEMMA OutcomeTyped ==
    ASSUME FateTyped, NEW us, NEW what \in Outcomes PROVE Outcome(us, what) \in [Update -> Fate]
BY DEF FateTyped, Fate, Outcome

LEMMA InitTyped == Init => Typed
<1> SUFFICES ASSUME Init PROVE Typed
    OBVIOUS
<1>1. ServerTyped
    BY InboundAssumption DEF Init, ServerTyped
<1>2. Len(sent) \in Nat
    BY <1>1 DEF ServerTyped
<1> QED
    BY <1>1, <1>2
    DEF Init, Typed, PollerTyped, TaskTyped, BufferTyped, SessionsTyped, LockTyped, TurnTyped, FateTyped,
        TallyTyped, TimersTyped, Task, Pc, Entry, Turn, Fate, NoTask, Empty, NoTurn

\* The actions that leave a part of the state alone.
LEMMA PollerFrame ==
    ASSUME [Next]_vars PROVE UNCHANGED <<acked, offset>> \/ Poll \/ Restart
BY DEF Next, Progress, Handling, Streaming, Turning, vars, server, poller, Submit, Solo, Flush,
       Acquire, CommandNew, Tap, Enter, Steer, Send, CutShort, Launch, Register, Placeholder, Drain, ShowLast,
       Cleanup, RemoveRun, SetTurn, AskPermission, CardTimeout, TurnIdle, TurnOver, Stop

LEMMA TaskFrame ==
    ASSUME [Next]_vars
    PROVE  \/ UNCHANGED task
           \/ Poll \/ Restart \/ \E k \in Key : Flush(k)
           \/ \E u \in Update : Handling(u) \/ Streaming(u) \/ Launch(u)
BY DEF Next, Progress, Turning, vars, SetTurn, AskPermission, CardTimeout, TurnIdle, TurnOver, Stop

LEMMA BufferFrame ==
    ASSUME [Next]_vars
    PROVE  \/ UNCHANGED <<buffer, omitted, told>>
           \/ Restart \/ (\E k \in Key : Flush(k)) \/ (\E u \in Update : Submit(u))
BY DEF Next, Progress, Handling, Streaming, Turning, vars, tally, Poll, Solo,
       Acquire, CommandNew, Tap, Enter, Steer, Send, CutShort, Launch, Register, Placeholder, Drain, ShowLast,
       Cleanup, RemoveRun, SetTurn, AskPermission, CardTimeout, TurnIdle, TurnOver, Stop

LEMMA SessionsFrame ==
    ASSUME [Next]_vars
    PROVE  \/ UNCHANGED <<current, created, fresh>>
           \/ Restart \/ (\E u \in Update : CommandNew(u) \/ Enter(u) \/ Launch(u))
BY DEF Next, Progress, Handling, Streaming, Turning, vars, sessions, Poll, Submit, Solo, Flush,
       Acquire, Tap, Steer, Send, CutShort, Register, Placeholder, Drain, ShowLast,
       Cleanup, RemoveRun, SetTurn, AskPermission, CardTimeout, TurnIdle, TurnOver, Stop

LEMMA LockFrame ==
    ASSUME [Next]_vars
    PROVE  UNCHANGED lock \/ Restart \/ (\E u \in Update : Enter(u) \/ Steer(u) \/ Send(u) \/ CutShort(u))
BY DEF Next, Progress, Handling, Streaming, Turning, vars, Poll, Submit, Solo, Flush,
       Acquire, CommandNew, Tap, Launch, Register, Placeholder, Drain, ShowLast,
       Cleanup, RemoveRun, SetTurn, AskPermission, CardTimeout, TurnIdle, TurnOver, Stop

LEMMA TurnFrame ==
    ASSUME [Next]_vars
    PROVE  \/ UNCHANGED turn
           \/ Restart
           \/ \E u \in Update : \/ Tap(u) \/ Send(u) \/ Launch(u) \/ Register(u) \/ Placeholder(u)
                                \/ AskPermission(u) \/ Turning(u)
BY DEF Next, Progress, Handling, Streaming, vars, Poll, Submit, Solo, Flush,
       Acquire, CommandNew, Enter, Steer, CutShort, Drain, ShowLast, Cleanup, RemoveRun, Stop

LEMMA FateFrame ==
    ASSUME [Next]_vars
    PROVE  \/ UNCHANGED fate
           \/ Poll \/ Restart
           \/ \E u \in Update : \/ Submit(u) \/ CommandNew(u) \/ Tap(u) \/ Steer(u) \/ CutShort(u)
                                \/ Register(u) \/ Placeholder(u) \/ Cleanup(u)
BY DEF Next, Progress, Handling, Streaming, Turning, vars, Solo, Flush,
       Acquire, Enter, Send, Launch, Drain, ShowLast, RemoveRun, SetTurn, AskPermission,
       CardTimeout, TurnIdle, TurnOver, Stop

LEMMA TimersFrame ==
    ASSUME [Next]_vars
    PROVE  UNCHANGED cut \/ Restart \/ \E k \in Key : Flush(k)
BY DEF Next, Progress, Handling, Streaming, Turning, vars, timers, Poll, Submit, Solo,
       Acquire, CommandNew, Tap, Enter, Steer, Send, CutShort, Launch, Register, Placeholder, Drain,
       ShowLast, Cleanup, RemoveRun, SetTurn, AskPermission, CardTimeout, TurnIdle, TurnOver, Stop

LEMMA Placing ==
    ASSUME NEW r \in Task, NEW pc \in Pc, NEW n \in Nat PROVE [r EXCEPT !.pc = pc, !.session = n] \in Task
BY DEF Task

LEMMA TaskStep == ASSUME Typed, [Next]_vars PROVE task' \in [Update -> Task]
<1>0. TaskTyped /\ SessionsTyped /\ BufferTyped
    BY DEF Typed
<1>1. CASE Poll
    BY <1>0, <1>1 DEF Poll, TaskTyped, Task, Ended, NoTask, Pc
<1>2. CASE Restart
    BY <1>2 DEF Restart, Task, NoTask, Pc
<1>3. ASSUME NEW k \in Key, Flush(k) PROVE task' \in [Update -> Task]
    <2>1. End(buffer[k].msgs) \in [Update -> Task]
        BY <1>0, EndTyped
    <2>2. [NoTask EXCEPT !.pc = "permit", !.parts = buffer[k].msgs] \in Task
        BY <1>0 DEF BufferTyped, Entry, Task, NoTask, Pc
    <2> HIDE DEF Task
    <2> QED
        BY <1>3, <2>1, <2>2 DEF Flush
<1>4. ASSUME NEW u \in Update, Handling(u) \/ Streaming(u) \/ Launch(u) PROVE task' \in [Update -> Task]
    <2>1. \/ task' = task \/ task' = End({u}) \/ (\E pc \in Pc : task' = Goto(u, pc))
          \/ Acquire(u) \/ Enter(u) \/ Launch(u)
        BY <1>4 DEF Handling, Streaming, Submit, Solo, CommandNew, Tap, Steer, Send, CutShort, Register, Placeholder,
                    Drain, ShowLast, Cleanup, RemoveRun, Done, Pc
    <2>2. CASE Acquire(u)
        <3>1. (IF sent[u] \in {"new", "tap"} THEN sent[u] ELSE "media") \in Pc
            BY DEF Pc
        <3>2. task' = [task EXCEPT ![u] = [task[u] EXCEPT
                           !.pc = IF sent[u] \in {"new", "tap"} THEN sent[u] ELSE "media",
                           !.session = current]]
            BY <1>0, <2>2 DEF Acquire, TaskTyped, Task
        <3>3. task'[u] \in Task
            BY <1>0, <3>1, <3>2, Placing DEF TaskTyped, SessionsTyped
        <3> QED
            BY <1>0, <3>2, <3>3 DEF TaskTyped
    <2>3. CASE Enter(u)
        <3>1. Resolved(u) \in Nat
            BY <1>0 DEF Resolved, ResolvedUnchecked, TaskTyped, SessionsTyped, Task
        <3> QED
            BY <1>0, <2>3, <3>1 DEF Enter, TaskTyped, Task, Pc
    <2>4. CASE Launch(u)
        <3>1. [NoTask EXCEPT !.pc = "register", !.session = created + 1] \in Task
            <4>1. NoTask \in Task /\ "register" \in Pc /\ created + 1 \in Nat
                BY <1>0 DEF SessionsTyped, Task, NoTask, Pc
            <4> QED
                BY <4>1, Placing
        <3> QED
            BY <1>0, <2>4, <3>1 DEF Launch, TaskTyped
    <2> QED
        BY <1>0, <2>1, <2>2, <2>3, <2>4, EndTyped, GotoTyped DEF TaskTyped
<1> QED
    BY <1>0, <1>1, <1>2, <1>3, <1>4, TaskFrame DEF TaskTyped

LEMMA TurnStep == ASSUME Typed, [Next]_vars PROVE turn' \in [Update -> Turn]
<1>0. TurnTyped /\ TaskTyped /\ SessionsTyped
    BY DEF Typed
<1>1. CASE Restart
    BY <1>1 DEF Restart, Turn, NoTurn
<1>2. NoTurn \in Turn /\ \A s \in Nat : [NoTurn EXCEPT !.state = "running", !.session = s] \in Turn
    BY DEF Turn, NoTurn
<1>3. ASSUME NEW u \in Update, NEW state \in {"none", "running", "asking", "idle"}
      PROVE  [turn[u] EXCEPT !.state = state] \in Turn
    BY <1>0 DEF TurnTyped, Turn
<1>4. ASSUME NEW u \in Update PROVE Cancelled(u) \in [Update -> Turn]
    BY <1>0 DEF Cancelled, TurnTyped, Turn
<1>5. ASSUME NEW u \in Update, Tap(u) \/ Register(u) \/ Placeholder(u) PROVE turn' \in [Update -> Turn]
    BY <1>0, <1>3, <1>4, <1>5 DEF Tap, Register, Placeholder, TurnTyped
<1>6. ASSUME NEW u \in Update, Send(u) \/ Launch(u) \/ TurnOver(u) PROVE turn' \in [Update -> Turn]
    <2>1. task[u].session \in Nat /\ created + 1 \in Nat
        BY <1>0 DEF TaskTyped, SessionsTyped, Task
    <2>2. turn' = turn \/ turn' = [turn EXCEPT ![u] = NoTurn]
          \/ \E s \in Nat : turn' = [turn EXCEPT ![u] = [NoTurn EXCEPT !.state = "running", !.session = s]]
        BY <1>6, <2>1 DEF Send, Launch, TurnOver
    <2> HIDE DEF Turn
    <2> QED
        BY <1>0, <1>2, <2>2 DEF TurnTyped
<1>7. ASSUME NEW u \in Update, AskPermission(u) \/ CardTimeout(u) \/ TurnIdle(u) PROVE turn' \in [Update -> Turn]
    <2>1. \E to \in {"asking", "running", "idle"} :
              turn' = [turn EXCEPT ![u].state = to, ![u].asked = @ \/ to = "asking"]
        BY <1>7 DEF AskPermission, CardTimeout, TurnIdle, SetTurn
    <2> QED
        BY <1>0, <2>1 DEF TurnTyped, Turn
<1> QED
    BY <1>0, <1>1, <1>5, <1>6, <1>7, TurnFrame DEF TurnTyped, Turning

LEMMA FateStep == ASSUME Typed, [Next]_vars PROVE fate' \in [Update -> Fate]
<1>0. FateTyped
    BY DEF Typed
<1>1. CASE Restart
    BY <1>1 DEF Restart, Fate
<1>2. \/ fate' = fate \/ Restart
      \/ \E us, what : what \in Outcomes /\ fate' = Outcome(us, what)
    BY FateFrame
    DEF Poll, Submit, CommandNew, Tap, Steer, CutShort, Register, Placeholder, Cleanup, Done, Outcomes
<1> QED
    BY <1>0, <1>1, <1>2, OutcomeTyped DEF FateTyped

LEMMA BufferStep ==
    ASSUME Typed, [Next]_vars PROVE buffer' \in [Key -> Entry] /\ omitted' \subseteq Update /\ told' \in Nat
<1>0. BufferTyped /\ TallyTyped
    BY DEF Typed
<1>1. CASE Restart
    BY <1>1 DEF Restart, Entry, Empty
<1>2. ASSUME NEW k \in Key, Flush(k) PROVE buffer' \in [Key -> Entry] /\ omitted' \subseteq Update /\ told' \in Nat
    BY <1>0, <1>2 DEF Flush, AfterFlush, Empty, Entry, BufferTyped, TallyTyped
<1>3. ASSUME NEW u \in Update, Submit(u) PROVE buffer' \in [Key -> Entry] /\ omitted' \subseteq Update /\ told' \in Nat
    BY <1>0, <1>3 DEF Submit, Entry, BufferTyped, TallyTyped
<1> QED
    BY <1>0, <1>1, <1>2, <1>3, BufferFrame DEF BufferTyped, TallyTyped

LEMMA TypedStep == ASSUME Typed, [Next]_vars PROVE Typed'
<1>0. /\ ServerTyped /\ PollerTyped /\ SessionsTyped /\ LockTyped /\ TaskTyped
      /\ UNCHANGED <<permits, sent>> /\ Update' = Update
    BY SameUpdates DEF Typed
<1>1. ServerTyped'
    BY <1>0 DEF ServerTyped
<1>2. PollerTyped'
    <2>1. Len(sent) \in Nat
        BY <1>0 DEF ServerTyped
    <2> QED
        BY <1>0, <2>1, PollerFrame DEF PollerTyped, Poll, Restart, server
<1>3. SessionsTyped'
    <2>1. ASSUME NEW u \in Update, CommandNew(u) \/ Enter(u) \/ Launch(u) PROVE SessionsTyped'
        BY <1>0, <2>1 DEF CommandNew, Enter, Launch, SessionsTyped, sessions
    <2> QED
        BY <1>0, <2>1, SessionsFrame DEF SessionsTyped, Restart
<1>4. LockTyped'
    BY <1>0, LockFrame DEF LockTyped, Restart, Enter, Steer, Send, CutShort
<1>5. TaskTyped' /\ TurnTyped' /\ FateTyped' /\ BufferTyped' /\ TallyTyped'
    <2>1. Task' = Task /\ Turn' = Turn /\ Fate' = Fate /\ Entry' = Entry
        BY <1>0 DEF Task, Turn, Fate, Entry
    <2> QED
        BY <1>0, <2>1, TaskStep, TurnStep, FateStep, BufferStep
        DEF TaskTyped, TurnTyped, FateTyped, BufferTyped, TallyTyped
<1>6. TimersTyped'
    <2>1. ASSUME NEW k \in Key, Flush(k) PROVE cut' \subseteq Update
        BY <2>1 DEF Flush, Typed, TimersTyped, BufferTyped, Entry
    <2> QED
        BY <1>0, <2>1, TimersFrame DEF Typed, TimersTyped, Restart
<1> QED
    BY <1>1, <1>2, <1>3, <1>4, <1>5, <1>6 DEF Typed

-----------------------------------------------------------------------------
(* How a task moves.                                                       *)

\* The buffer of a key holds the items whose tasks wait for its timer.
Buffered == \A k \in Key : buffer[k].msgs = {u \in At({"buffered"}) : sent[u] = k}

\* Only what can be coalesced is, and the command is one.
Kinds ==
    \A u \in Update :
        /\ task[u].pc = "gate" => sent[u] \in Key
        /\ task[u].pc = "new" => sent[u] = "new"

\* What the polling loop has not dispatched in this life has no task.
Unseen == \A u \in Update : u > offset /\ sent[u] # "research" => task[u].pc = "none"

Fetched(v) ==
    /\ Poll /\ task[v].pc = "none" /\ sent[v] # "research"
    /\ task'[v].parts = {} /\ task'[v].session = 0
    /\ \/ task'[v].pc = "done" /\ SteersAtOnce(v)
       \/ task'[v].pc = "permit" /\ ~SteersAtOnce(v) /\ sent[v] \notin Key
       \/ task'[v].pc = "gate" /\ ~SteersAtOnce(v) /\ sent[v] \in Key

Flushed(v) == \E k \in Key : Flush(k) /\ v \in buffer[k].msgs

LEMMA PollMoves ==
    ASSUME Typed, Unseen, Poll, NEW v \in Update
    PROVE  \/ task'[v] = task[v] /\ ~(v \in Batch(offset') /\ SteersAtOnce(v))
           \/ Fetched(v) /\ v \in Batch(offset')
<1>0. /\ task' = [u \in Update |->
                  IF u \notin Batch(offset') \/ sent[u] = "research" THEN task[u]
                  ELSE IF SteersAtOnce(u) THEN Ended
                  ELSE [NoTask EXCEPT !.pc = IF sent[u] \in Key THEN "gate" ELSE "permit"]]
      /\ offset \in Nat /\ v \in Nat \ {0}
    BY Updates DEF Poll, Typed, PollerTyped, ServerTyped
<1>1. Ended.parts = {} /\ Ended.session = 0 /\ Ended.pc = "done"
    BY DEF Ended, NoTask
<1>2. ASSUME NEW pc PROVE LET r == [NoTask EXCEPT !.pc = pc] IN r.pc = pc /\ r.parts = {} /\ r.session = 0
    BY DEF NoTask
<1>3. SteersAtOnce(v) => sent[v] = "edit"
    BY DEF SteersAtOnce
<1>4. CASE v \notin Batch(offset') \/ sent[v] = "research"
    BY <1>0, <1>3, <1>4
<1>5. CASE v \in Batch(offset') /\ sent[v] # "research"
    <2>1. task[v].pc = "none"
        BY <1>0, <1>5 DEF Batch, Unseen
    <2>2. CASE SteersAtOnce(v)
        BY <1>0, <1>1, <1>5, <2>1, <2>2 DEF Fetched
    <2>3. CASE ~SteersAtOnce(v)
        <3>1. task'[v] = [NoTask EXCEPT !.pc = IF sent[v] \in Key THEN "gate" ELSE "permit"]
            BY <1>0, <1>5, <2>3
        <3> QED
            BY <1>2, <1>5, <2>1, <2>3, <3>1 DEF Fetched
    <2> QED
        BY <2>2, <2>3
<1> QED
    BY <1>4, <1>5

LEMMA PollDone ==
    ASSUME Typed, Unseen, Poll, NEW v \in Update, v \in Batch(offset'), SteersAtOnce(v)
    PROVE  task'[v].pc = "done"
BY PollMoves DEF Fetched

\* A step of one task leaves the others where they are.
LEMMA Others ==
    ASSUME Typed, NEW u \in Update, Handling(u) \/ Streaming(u) \/ Launch(u), NEW v \in Update \ {u}
    PROVE  task'[v] = task[v]
<1>1. task \in [Update -> Task]
    BY DEF Typed, TaskTyped
<1>2. \/ task' = task \/ task' = End({u}) \/ \E r : task' = [task EXCEPT ![u] = r]
    BY <1>1
    DEF Handling, Streaming, Launch, Submit, Solo, Acquire, CommandNew, Tap, Enter, Steer, Send, CutShort, Register,
        Placeholder, Drain, ShowLast, Cleanup, RemoveRun, Done, Goto
<1> QED
    BY <1>1, <1>2 DEF End

LEMMA Moves ==
    ASSUME Typed, Unseen, [Next]_vars, ~Restart, NEW v \in Update, task'[v] # task[v]
    PROVE  Fetched(v) \/ Flushed(v) \/ Launch(v) \/ Handling(v) \/ Streaming(v)
<1>1. CASE Poll
    BY <1>1, PollMoves
<1>2. ASSUME NEW k \in Key, Flush(k) PROVE Flushed(v)
    <2>1. buffer[k].msgs \subseteq Nat /\ buffer[k].msgs # {}
        BY <1>2, Updates DEF Flush, Typed, BufferTyped, Entry
    <2>2. Min(buffer[k].msgs) \in buffer[k].msgs
        BY <2>1, Least
    <2>3. v \in buffer[k].msgs
        BY <1>2, <2>2 DEF Flush, End, Typed, TaskTyped
    <2> QED
        BY <1>2, <2>3 DEF Flushed
<1> QED
    BY <1>1, <1>2, TaskFrame, Others

\* The steps of one task by where it is: from, and where it goes.
LEMMA Hops ==
    ASSUME Typed, NEW v \in Update, Handling(v) \/ Streaming(v) \/ Launch(v)
    PROVE  \/ Submit(v) /\ task[v].pc = "gate" /\ task'[v].pc \in {"done", "buffered"}
           \/ Solo(v) /\ task[v].pc = "gate" /\ task'[v].pc = "permit"
           \/ Acquire(v) /\ task[v].pc = "permit" /\ task'[v].pc = (IF sent[v] \in {"new", "tap"} THEN sent[v] ELSE "media")
           \/ CommandNew(v) /\ task[v].pc = "new" /\ task'[v].pc = "done"
           \/ Tap(v) /\ task[v].pc = "tap" /\ task'[v].pc = "done"
           \/ Enter(v) /\ task[v].pc = "media" /\ task'[v].pc \in {"steer", "send"}
           \/ Steer(v) /\ task[v].pc = "steer" /\ task'[v].pc = "done"
           \/ Send(v) /\ task[v].pc = "send" /\ task'[v].pc \in {"steer", "register"}
           \/ /\ CutShort(v) /\ task[v].pc \in {"permit", "media", "steer", "send", "register", "placeholder"}
              /\ task'[v].pc \in {"done", "left"}
           \/ Launch(v) /\ task[v].pc = "none" /\ sent[v] = "research" /\ task'[v].pc = "register"
           \/ Register(v) /\ task[v].pc = "register" /\ task'[v].pc \in {"placeholder", "drain"}
           \/ Placeholder(v) /\ task[v].pc = "placeholder" /\ task'[v].pc \in {"loop", "drain"}
           \/ Drain(v) /\ task[v].pc = "drain" /\ task'[v].pc = "done"
           \/ ShowLast(v) /\ task[v].pc = "loop" /\ task'[v].pc = "final"
           \/ Cleanup(v) /\ task[v].pc = "final" /\ task'[v].pc = "cleaned"
           \/ RemoveRun(v) /\ task[v].pc = "cleaned" /\ task'[v].pc = "done"
<1>1. task \in [Update -> Task]
    BY DEF Typed, TaskTyped
<1>2. \A pc : Goto(v, pc)[v].pc = pc
    BY <1>1 DEF Goto, Task
<1>3. End({v})[v].pc = "done"
    BY DEF End, Ended, NoTask
<1>4. \A a, b : [task EXCEPT ![v].pc = a, ![v].session = b][v].pc = a
    BY <1>1 DEF Task
<1>5. \A a, b : [task EXCEPT ![v].session = b, ![v].pc = a][v].pc = a
    BY <1>1 DEF Task
<1>6. \A r : [task EXCEPT ![v] = r][v] = r
    BY <1>1
<1>7. [NoTask EXCEPT !.pc = "register", !.session = created + 1].pc = "register"
    BY DEF NoTask
<1>8. CASE Acquire(v)
    <2>1. /\ Acquire(v) /\ task[v].pc = "permit"
          /\ task'[v].pc = (IF sent[v] \in {"new", "tap"} THEN sent[v] ELSE "media")
        BY <1>4, <1>8 DEF Acquire
    <2> QED
        BY <2>1
<1>9. CASE Enter(v)
    BY <1>5, <1>9 DEF Enter
<1>10. CASE Launch(v)
    BY <1>6, <1>7, <1>10 DEF Launch
<1>11. CASE \/ Submit(v) \/ Solo(v) \/ CommandNew(v) \/ Tap(v) \/ Steer(v) \/ CutShort(v)
    BY <1>2, <1>3, <1>11 DEF Submit, Solo, CommandNew, Tap, Steer, CutShort, Done
<1>12. CASE \/ Send(v) \/ Register(v) \/ Placeholder(v) \/ Drain(v)
    BY <1>2, <1>3, <1>12 DEF Send, Register, Placeholder, Drain
<1>13. CASE \/ ShowLast(v) \/ Cleanup(v) \/ RemoveRun(v)
    BY <1>2, <1>3, <1>13 DEF ShowLast, Cleanup, RemoveRun
<1> QED
    BY <1>8, <1>9, <1>10, <1>11, <1>12, <1>13 DEF Handling, Streaming

LEMMA FlushMoves ==
    ASSUME Typed, NEW k \in Key, Flush(k), Buffered, NEW v \in Update
    PROVE  LET msgs == buffer[k].msgs  first == Min(msgs) IN
           /\ first \in msgs /\ first \in Update
           /\ v \notin msgs => task'[v] = task[v]
           /\ v \in msgs => task[v].pc = "buffered" /\ sent[v] = k
           /\ v \in msgs /\ v # first => task'[v] = Ended
           /\ v = first => /\ task'[v].pc = "permit" /\ task'[v].parts = msgs /\ task'[v].session = 0
<1> DEFINE msgs == buffer[k].msgs
           first == Min(msgs)
           r == [NoTask EXCEPT !.pc = "permit", !.parts = msgs]
<1>1. msgs \subseteq Update /\ msgs \subseteq Nat /\ msgs # {}
    BY Updates DEF Flush, Typed, BufferTyped, Entry
<1>2. first \in msgs
    BY <1>1, Least
<1>3. r.pc = "permit" /\ r.parts = msgs /\ r.session = 0
    BY DEF NoTask
<1>4. task' = [End(msgs) EXCEPT ![first] = r]
    BY DEF Flush
<1>5. v \in msgs => task[v].pc = "buffered" /\ sent[v] = k
    BY DEF Buffered, At
<1> HIDE DEF msgs, first, r
<1>6. /\ v \notin msgs => task'[v] = task[v]
      /\ v \in msgs /\ v # first => task'[v] = Ended
      /\ v = first => task'[v] = r
    BY <1>1, <1>2, <1>4 DEF End
<1>7. /\ first \in msgs /\ first \in Update
      /\ v \notin msgs => task'[v] = task[v]
      /\ v \in msgs => task[v].pc = "buffered" /\ sent[v] = k
      /\ v \in msgs /\ v # first => task'[v] = Ended
      /\ v = first => task'[v].pc = "permit" /\ task'[v].parts = msgs /\ task'[v].session = 0
    BY <1>1, <1>2, <1>3, <1>5, <1>6
<1> QED
    BY <1>7 DEF msgs, first

LEMMA FlushedMoves ==
    ASSUME Typed, Buffered, NEW v \in Update, Flushed(v)
    PROVE  task[v].pc = "buffered" /\ task'[v].pc \in {"done", "permit"}
BY FlushMoves DEF Flushed, Ended, NoTask

LEMMA BufferedStep == ASSUME Typed, Unseen, Kinds, Buffered, [Next]_vars PROVE Buffered'
<1>0. UNCHANGED sent /\ Update' = Update /\ TaskTyped /\ BufferTyped
    BY SameUpdates DEF Typed
<1>1. CASE Restart
    BY <1>0, <1>1 DEF Restart, Buffered, At, NoTask, Empty
<1>2. ASSUME NEW k \in Key, Flush(k) PROVE Buffered'
    <2>1. ASSUME NEW v \in Update PROVE v \in buffer[k].msgs => task'[v].pc # "buffered"
        BY <1>2, <2>1, FlushMoves DEF Ended, NoTask
    <2>2. ASSUME NEW v \in Update PROVE v \notin buffer[k].msgs => task'[v] = task[v]
        BY <1>2, <2>2, FlushMoves
    <2>3. /\ buffer'[k].msgs = {}
          /\ \A j \in Key \ {k} : buffer'[j] = buffer[j]
        BY <1>0, <1>2 DEF Flush, AfterFlush, Empty, BufferTyped
    <2>4. buffer[k].msgs = {u \in At({"buffered"}) : sent[u] = k}
        BY DEF Buffered
    <2>5. ASSUME NEW j \in Key PROVE buffer'[j].msgs = {u \in Update : task'[u].pc = "buffered" /\ sent[u] = j}
        <3>1. CASE j = k
            BY <2>1, <2>2, <2>3, <2>4, <3>1 DEF At
        <3>2. CASE j # k
            <4>1. buffer'[j].msgs = {u \in Update : task[u].pc = "buffered" /\ sent[u] = j}
                BY <2>3, <3>2 DEF Buffered, At
            <4> QED
                BY <2>1, <2>2, <2>4, <3>2, <4>1 DEF At
        <3> QED
            BY <3>1, <3>2
    <2> QED
        BY <1>0, <2>5 DEF Buffered, At
<1>3. ASSUME NEW u \in Update, Submit(u) PROVE Buffered'
    <2>0. sent[u] \in Key /\ task[u].pc = "gate"
        BY <1>3 DEF Submit, Kinds
    <2>1. ASSUME NEW v \in Update \ {u} PROVE task'[v] = task[v]
        BY <1>3, Others DEF Handling
    <2>2. CASE Cardinality(buffer[sent[u]].msgs) >= MaxItems
        <3>1. task'[u].pc = "done"
            BY <1>3, <2>2 DEF Submit, End, Ended, NoTask
        <3>2. \A k \in Key : buffer'[k].msgs = buffer[k].msgs
            BY <1>0, <1>3, <2>2 DEF Submit, BufferTyped, Entry
        <3> QED
            BY <1>0, <2>0, <2>1, <3>1, <3>2 DEF Buffered, At
    <2>3. CASE ~(Cardinality(buffer[sent[u]].msgs) >= MaxItems)
        <3>1. task'[u].pc = "buffered"
            BY <1>0, <1>3, <2>3 DEF Submit, Goto, TaskTyped, Task
        <3>2. buffer' = [buffer EXCEPT ![sent[u]].msgs = @ \cup {u}]
            BY <1>3, <2>3 DEF Submit
        <3>3. ASSUME NEW k \in Key
              PROVE  buffer'[k].msgs = {v \in Update : task'[v].pc = "buffered" /\ sent[v] = k}
            <4>1. buffer[k].msgs = {v \in Update : task[v].pc = "buffered" /\ sent[v] = k}
                BY DEF Buffered, At
            <4>2. CASE k = sent[u]
                <5>1. buffer'[k].msgs = buffer[k].msgs \cup {u}
                    BY <1>0, <3>2, <4>2 DEF BufferTyped, Entry
                <5> QED
                    BY <2>1, <3>1, <4>1, <4>2, <5>1
            <4>3. CASE k # sent[u]
                <5>1. buffer'[k] = buffer[k]
                    BY <1>0, <2>0, <3>2, <4>3 DEF BufferTyped
                <5> QED
                    BY <2>1, <3>1, <4>1, <4>3, <5>1
            <4> QED
                BY <4>2, <4>3
        <3> QED
            BY <1>0, <3>3 DEF Buffered, At
    <2> QED
        BY <2>2, <2>3
<1>4. CASE ~Restart /\ ~(\E k \in Key : Flush(k)) /\ ~(\E u \in Update : Submit(u))
    <2>1. buffer' = buffer
        BY <1>4, BufferFrame
    <2>2. ASSUME NEW v \in Update PROVE task'[v].pc = "buffered" <=> task[v].pc = "buffered"
        <3>1. CASE task'[v] # task[v]
            <4>1. Fetched(v) \/ Handling(v) \/ Streaming(v) \/ Launch(v)
                BY <1>4, <3>1, Moves DEF Flushed
            <4> QED
                BY <1>4, <4>1, Hops DEF Fetched
        <3> QED
            BY <3>1
    <2> QED
        BY <1>0, <2>1, <2>2 DEF Buffered, At
<1> QED
    BY <1>1, <1>2, <1>3, <1>4

LEMMA UnseenStep == ASSUME Typed, Unseen, Buffered, [Next]_vars PROVE Unseen'
<1>0. UNCHANGED sent /\ Update' = Update /\ offset \in Nat /\ offset' \in Nat /\ Update \subseteq Nat
    BY SameUpdates, TypedStep, Updates DEF Typed, PollerTyped, ServerTyped
<1>1. CASE Restart
    BY <1>0, <1>1 DEF Restart, Unseen, NoTask
<1>2. CASE Poll
    <2>1. offset' >= offset
        BY <1>0, <1>2 DEF Poll, Typed, PollerTyped, ServerTyped
    <2>2. ASSUME NEW u \in Update, u > offset', sent[u] # "research" PROVE task'[u].pc = "none"
        <3>1. u \notin Batch(offset') /\ u > offset
            BY <1>0, <2>1, <2>2 DEF Batch
        <3> QED
            BY <2>2, <3>1, <1>2, PollMoves DEF Unseen
    <2> QED
        BY <1>0, <2>2 DEF Unseen
<1>3. CASE ~Restart /\ ~Poll
    <2>1. offset' = offset
        BY <1>3, PollerFrame
    <2>2. ASSUME NEW u \in Update, u > offset, sent[u] # "research" PROVE task'[u].pc = "none"
        <3>1. task[u].pc = "none"
            BY <2>2 DEF Unseen
        <3>2. ~Flushed(u)
            BY <3>1, FlushedMoves
        <3> QED
            BY <1>3, <2>2, <3>1, <3>2, Moves, Hops DEF Fetched
    <2> QED
        BY <1>0, <2>1, <2>2 DEF Unseen
<1> QED
    BY <1>1, <1>2, <1>3

LEMMA KindsStep == ASSUME Typed, Unseen, Kinds, Buffered, [Next]_vars PROVE Kinds'
<1>0. UNCHANGED sent /\ Update' = Update
    BY SameUpdates
<1>1. CASE Restart
    BY <1>0, <1>1 DEF Restart, Kinds, NoTask
<1>2. ASSUME ~Restart, NEW u \in Update
      PROVE  (task'[u].pc = "gate" => sent[u] \in Key) /\ (task'[u].pc = "new" => sent[u] = "new")
    <2>1. CASE task'[u] = task[u]
        BY <2>1 DEF Kinds
    <2>2. CASE Fetched(u)
        BY <2>2 DEF Fetched
    <2>3. CASE Flushed(u)
        BY <2>3, FlushedMoves
    <2>4. CASE Handling(u) \/ Streaming(u) \/ Launch(u)
        BY <2>4, Hops
    <2> QED
        BY <1>2, <2>1, <2>2, <2>3, <2>4, Moves
<1> QED
    BY <1>0, <1>1, <1>2 DEF Kinds

\* Where a turn begins, and what else happens to it.
LEMMA TurnMoves ==
    ASSUME Typed, [Next]_vars, ~Restart, NEW u \in Update, turn'[u] # turn[u], ~Send(u), ~Launch(u)
    PROVE  \/ turn[u].state # "none" /\ turn'[u].state # "none" /\ turn'[u].session = turn[u].session
           \/ turn'[u] = NoTurn
<1>0. turn \in [Update -> Turn]
    BY DEF Typed, TurnTyped
<1>1. ASSUME NEW v \in Update, Send(v) \/ Launch(v) PROVE v = u
    BY <1>0, <1>1 DEF Send, Launch
<1>2. ASSUME NEW v \in Update, Tap(v)
      PROVE  turn[u].state # "none" /\ turn'[u].state # "none" /\ turn'[u].session = turn[u].session
    BY <1>0, <1>2 DEF Tap, Cards, Turn
<1>3. ASSUME NEW v \in Update, turn' = Cancelled(v)
      PROVE  turn[u].state # "none" /\ turn'[u].state # "none" /\ turn'[u].session = turn[u].session
    BY <1>0, <1>3 DEF Cancelled, Turn
<1>4. ASSUME NEW v \in Update, AskPermission(v) \/ CardTimeout(v) \/ TurnIdle(v)
      PROVE  turn[u].state # "none" /\ turn'[u].state # "none" /\ turn'[u].session = turn[u].session
    BY <1>0, <1>4 DEF AskPermission, CardTimeout, TurnIdle, SetTurn, Turn
<1>5. ASSUME NEW v \in Update, TurnOver(v) PROVE turn'[u] = NoTurn
    BY <1>0, <1>5 DEF TurnOver
<1> QED
    BY <1>1, <1>2, <1>3, <1>4, <1>5, TurnFrame DEF Register, Placeholder, Turning

LEMMA TurnSessions ==
    ASSUME Typed, [Next]_vars, ~Restart, NEW u \in Update
    PROVE  turn'[u].session \in {turn[u].session, 0} \/ Send(u) \/ Launch(u)
BY TurnMoves DEF NoTurn

-----------------------------------------------------------------------------
(* The permits, the lock of the thread and the ids of sessions.            *)

Placed == Typed /\ Unseen /\ Kinds /\ Buffered

LEMMA InitPlaced == Init => Placed
BY InitTyped DEF Init, Placed, Unseen, Kinds, Buffered, At, NoTask, Empty

LEMMA PlacedStep == ASSUME Placed, [Next]_vars PROVE Placed'
BY TypedStep, UnseenStep, KindsStep, BufferedStep DEF Placed

LEMMA PlacedMoves ==
    ASSUME Placed, [Next]_vars, ~Restart, NEW v \in Update, task'[v] # task[v]
    PROVE  \/ Fetched(v) \/ Launch(v) \/ Handling(v) \/ Streaming(v)
           \/ task[v].pc = "buffered" /\ task'[v].pc \in {"done", "permit"}
BY Moves, FlushedMoves DEF Placed

Within == Cardinality(Holding) <= permits

LEMMA WithinStep == ASSUME Placed, Within, [Next]_vars PROVE Within'
<1>0. /\ UNCHANGED <<permits, sent>> /\ Update' = Update /\ IsFiniteSet(Update) /\ permits \in Nat
      /\ IsFiniteSet(Holding) /\ Holding' \subseteq Update
    <2>1. UNCHANGED <<permits, sent>> /\ Update' = Update /\ IsFiniteSet(Update) /\ permits \in Nat
        BY SameUpdates, Updates DEF Placed, Typed, ServerTyped
    <2>2. Holding \subseteq Update /\ Holding' \subseteq Update'
        BY DEF Holding, At
    <2> QED
        BY <2>1, <2>2, FS_Subset
<1>1. CASE Restart
    <2>1. Holding' = {}
        BY <1>0, <1>1 DEF Restart, Holding, At, NoTask
    <2> QED
        BY <1>0, <2>1, FS_EmptySet DEF Within
<1>2. ASSUME ~Restart, NEW v \in Holding', v \notin Holding PROVE Acquire(v)
    <2>1. v \in Update /\ task'[v] # task[v]
        BY <1>0, <1>2 DEF Holding, At
    <2>2. /\ task'[v].pc \in {"new", "tap", "media", "steer", "send", "register", "placeholder",
                              "loop", "final", "cleaned", "drain"}
          /\ sent[v] # "research"
        BY <1>0, <1>2, <2>1 DEF Holding, At
    <2>3. Handling(v) \/ Streaming(v)
        BY <1>2, <2>1, <2>2, PlacedMoves DEF Fetched, Launch
    <2> QED
        BY <1>2, <2>1, <2>2, <2>3, Hops DEF Placed, Holding, At
<1>3. CASE ~Restart /\ \E u \in Update : Acquire(u)
    <2>1. PICK u \in Update : Acquire(u)
        BY <1>3
    <2>2. Holding' \subseteq Holding \cup {u}
        BY <1>0, <2>1, Others DEF Holding, At, Placed, Handling
    <2>3. Cardinality(Holding) < permits
        BY <2>1 DEF Acquire, Free
    <2>4. /\ IsFiniteSet(Holding \cup {u}) /\ Cardinality(Holding) \in Nat
          /\ Cardinality(Holding \cup {u}) <= Cardinality(Holding) + 1
        <3>1. Cardinality(Holding) \in Nat
            BY <1>0, FS_CardinalityType
        <3>2. /\ IsFiniteSet(Holding \cup {u})
              /\ \/ Cardinality(Holding \cup {u}) = Cardinality(Holding)
                 \/ Cardinality(Holding \cup {u}) = Cardinality(Holding) + 1
            BY <1>0, FS_AddElement, Zenon
        <3> QED
            BY <3>1, <3>2
    <2>5. Cardinality(Holding') <= Cardinality(Holding \cup {u}) /\ Cardinality(Holding') \in Nat
        BY <2>2, <2>4, FS_Subset, FS_CardinalityType
    <2>6. Cardinality(Holding \cup {u}) \in Nat
        BY <2>4, FS_CardinalityType
    <2> QED
        BY <1>0, <2>3, <2>4, <2>5, <2>6 DEF Within
<1>4. CASE ~Restart /\ ~\E u \in Update : Acquire(u)
    <2>1. Holding' \subseteq Holding
        BY <1>0, <1>2, <1>4
    <2>2. Cardinality(Holding') <= Cardinality(Holding) /\ Cardinality(Holding) \in Nat /\ Cardinality(Holding') \in Nat
        BY <1>0, <2>1, FS_Subset, FS_CardinalityType
    <2> QED
        BY <1>0, <2>2 DEF Within
<1> QED
    BY <1>1, <1>3, <1>4

\* One task at a time is between the lock of the thread and its release.
Locked == \A u \in Update : task[u].pc \in {"steer", "send"} <=> lock = u

LEMMA LockedStep == ASSUME Placed, Locked, [Next]_vars PROVE Locked'
<1>0. Update' = Update /\ Update \subseteq Nat \ {0} /\ Typed /\ lock \in Update \cup {0}
    BY SameUpdates, Updates DEF Placed, Typed, LockTyped
<1>1. CASE Restart
    BY <1>0, <1>1 DEF Restart, Locked, NoTask
<1>2. ASSUME NEW u \in Update, Enter(u) PROVE Locked'
    <2>1. ASSUME NEW v \in Update \ {u} PROVE task'[v] = task[v]
        BY <1>0, <1>2, Others DEF Handling
    <2>2. task'[u].pc \in {"steer", "send"}
        BY <1>0, <1>2, Hops DEF Handling, Enter, Submit, Solo, Acquire, CommandNew, Tap, Steer, Send, CutShort,
           Launch, Register, Placeholder, Drain, ShowLast, Cleanup, RemoveRun
    <2>3. lock = 0 /\ lock' = u
        BY <1>2 DEF Enter
    <2> QED
        BY <1>0, <2>1, <2>2, <2>3 DEF Locked
<1>3. ASSUME NEW u \in Update, Steer(u) \/ Send(u) PROVE Locked'
    <2>1. ASSUME NEW v \in Update \ {u} PROVE task'[v] = task[v]
        BY <1>0, <1>3, Others DEF Handling
    <2>2. lock = u
        BY <1>3 DEF Locked, Steer, Send
    <2>3. \/ task'[u].pc \in {"done", "register"} /\ lock' = 0
          \/ task'[u].pc = "steer" /\ lock' = lock
        <3>1. \A pc : Goto(u, pc)[u].pc = pc
            BY <1>0 DEF Goto, Typed, TaskTyped, Task
        <3>2. End({u})[u].pc = "done"
            BY DEF End, Ended, NoTask
        <3>3. CASE Steer(u)
            BY <3>2, <3>3 DEF Steer, Done
        <3>4. CASE Send(u)
            <4>1. \/ task' = Goto(u, "steer") /\ lock' = lock
                  \/ task' = Goto(u, "register") /\ lock' = 0
                BY <3>4 DEF Send
            <4> QED
                BY <3>1, <4>1
        <3> QED
            BY <1>3, <3>3, <3>4
    <2> QED
        BY <1>0, <2>1, <2>2, <2>3 DEF Locked
<1>5. ASSUME NEW u \in Update, CutShort(u) PROVE Locked'
    <2>1. ASSUME NEW v \in Update \ {u} PROVE task'[v] = task[v]
        BY <1>0, <1>5, Others DEF Handling
    <2>2. task'[u].pc \in {"done", "left"}
        <3>1. Goto(u, "left")[u].pc = "left"
            BY <1>0 DEF Goto, Typed, TaskTyped, Task
        <3>2. End({u})[u].pc = "done"
            BY DEF End, Ended, NoTask
        <3> QED
            BY <1>5, <3>1, <3>2 DEF CutShort
    <2>3. lock' = IF lock = u THEN 0 ELSE lock
        BY <1>5 DEF CutShort
    <2> QED
        BY <1>0, <2>1, <2>2, <2>3 DEF Locked
<1>4. CASE ~Restart /\ ~\E u \in Update : Enter(u) \/ Steer(u) \/ Send(u) \/ CutShort(u)
    <2>1. lock' = lock
        BY <1>4, LockFrame
    <2>2. ASSUME NEW v \in Update, task'[v] # task[v]
          PROVE  ~(task[v].pc \in {"steer", "send"}) /\ ~(task'[v].pc \in {"steer", "send"})
        <3>1. CASE Handling(v) \/ Streaming(v) \/ Launch(v)
            BY <1>0, <1>4, <3>1, Hops
        <3> QED
            BY <1>4, <2>2, <3>1, PlacedMoves DEF Fetched
    <2> QED
        BY <1>0, <2>1, <2>2 DEF Locked
<1> QED
    BY <1>1, <1>2, <1>3, <1>4, <1>5

\* Nobody knows a session that was not made.
Owned ==
    /\ current <= created
    /\ \A u \in Update : task[u].session <= created /\ turn[u].session <= created

LEMMA OwnedStep == ASSUME Placed, Owned, [Next]_vars PROVE Owned'
<1>0. /\ Update' = Update /\ Typed /\ TaskTyped /\ TurnTyped
      /\ current \in Nat /\ created \in Nat
    BY SameUpdates DEF Placed, Typed, SessionsTyped
<1>1. CASE Restart
    BY <1>0, <1>1 DEF Restart, Owned, NoTask, NoTurn
<1>2. CASE ~Restart
    <2>1. current' <= created' /\ created' \in Nat /\ created <= created'
        <3>1. ASSUME NEW u \in Update, CommandNew(u) \/ Enter(u) \/ Launch(u)
              PROVE  current' <= created' /\ created' \in Nat /\ created <= created'
            BY <1>0, <3>1 DEF Owned, CommandNew, Enter, Launch, sessions
        <3> QED
            BY <1>0, <1>2, <3>1, SessionsFrame DEF Owned
    <2>2. ASSUME NEW u \in Update, task'[u] # task[u] PROVE task'[u].session <= created'
        <3>1. ASSUME NEW k \in Key, Flush(k) PROVE task'[u].session = 0
            BY <1>0, <2>2, <3>1, FlushMoves DEF Placed, Ended, NoTask
        <3>2. CASE Acquire(u)
            <4>1. task'[u].session = current /\ created' = created
                BY <1>0, <3>2 DEF Acquire, TaskTyped, Task, sessions
            <4> QED
                BY <4>1 DEF Owned
        <3>3. CASE Enter(u)
            <4>1. task'[u].session = Resolved(u)
                BY <1>0, <3>3 DEF Enter, TaskTyped, Task
            <4>2. Resolved(u) <= created \/ (Resolved(u) = created + 1 /\ created' = created + 1)
                <5>1. Resolved(u) \in {task[u].session, current, created + 1}
                    BY DEF Resolved, ResolvedUnchecked
                <5>2. Resolved(u) = created + 1 => created' = created + 1
                    BY <3>3 DEF Enter
                <5> QED
                    BY <5>1, <5>2 DEF Owned
            <4>3. Resolved(u) \in Nat
                BY <1>0 DEF Resolved, ResolvedUnchecked, TaskTyped, Task
            <4> QED
                BY <1>0, <2>1, <4>1, <4>2, <4>3
        <3>4. CASE Launch(u)
            <4>1. [NoTask EXCEPT !.pc = "register", !.session = created + 1].session = created + 1
                BY DEF NoTask
            <4>2. task'[u].session = created + 1
                BY <1>0, <3>4, <4>1 DEF Launch, TaskTyped
            <4> QED
                BY <1>0, <3>4, <4>2 DEF Launch
        <3>5. CASE (Handling(u) \/ Streaming(u)) /\ ~Acquire(u) /\ ~Enter(u)
            <4>1. \/ task' = task \/ task' = End({u}) \/ \E pc : task' = Goto(u, pc)
                BY <3>5
                DEF Handling, Streaming, Submit, Solo, CommandNew, Tap, Steer, Send, CutShort, Register,
                    Placeholder, Drain, ShowLast, Cleanup, RemoveRun, Done
            <4>2. End({u})[u].session = 0
                BY DEF End, Ended, NoTask
            <4>3. \A pc : Goto(u, pc)[u].session = task[u].session
                BY <1>0 DEF Goto, TaskTyped, Task
            <4>4. task'[u].session <= created /\ task'[u].session \in Nat
                BY <1>0, <4>1, <4>2, <4>3 DEF Owned, TaskTyped, Task
            <4> QED
                BY <1>0, <2>1, <4>4
        <3> QED
            BY <1>0, <1>2, <2>1, <2>2, <3>1, <3>2, <3>3, <3>4, <3>5, Moves DEF Placed, Fetched, Flushed
    <2>3. ASSUME NEW u \in Update PROVE task'[u].session <= created'
        <3>1. task[u].session <= created /\ task[u].session \in Nat
            BY <1>0 DEF Owned, TaskTyped, Task
        <3> QED
            BY <1>0, <2>1, <2>2, <3>1
    <2>4. ASSUME NEW u \in Update PROVE turn'[u].session <= created'
        <3>0. turn[u].session <= created /\ turn[u].session \in Nat
            BY <1>0 DEF Owned, TurnTyped, Turn
        <3>1. turn'[u].session \in {turn[u].session, 0} \/ Send(u) \/ Launch(u)
            BY <1>2, TurnSessions DEF Placed
        <3>2. CASE Send(u)
            <4>1. turn'[u].session \in {turn[u].session, task[u].session}
                BY <1>0, <3>2 DEF Send, TurnTyped, Turn, NoTurn
            <4>2. task[u].session <= created /\ task[u].session \in Nat
                BY <1>0 DEF Owned, TaskTyped, Task
            <4> QED
                BY <1>0, <2>1, <3>0, <4>1, <4>2
        <3>3. CASE Launch(u)
            <4>1. turn'[u].session = created + 1
                BY <1>0, <3>3 DEF Launch, TurnTyped, NoTurn
            <4> QED
                BY <1>0, <3>3, <4>1 DEF Launch
        <3> QED
            BY <1>0, <2>1, <3>0, <3>1, <3>2, <3>3
    <2> QED
        BY <1>0, <2>1, <2>3, <2>4 DEF Owned
<1> QED
    BY <1>1, <1>2

-----------------------------------------------------------------------------
(* One fate: a task that is not over speaks for messages without a fate,   *)
(* and no two tasks speak for one message.                                 *)

Open == {"gate", "buffered", "permit", "new", "tap", "media", "steer", "send", "register",
         "placeholder", "loop", "final"}

Parted ==
    /\ \A u \in Update : \A v \in task[u].parts \ {u} : task[v].pc = "done"
    /\ \A u \in Update : \A v \in Update \ {u} : task[u].parts \cap task[v].parts = {}
    /\ \A u \in Update : task[u].pc \in {"none", "gate", "buffered", "done"} => task[u].parts = {}

Fated ==
    /\ OneFate
    /\ \A u \in Update : task[u].pc = "none" => fate[u] = "none"
    /\ \A u \in Update : task[u].pc \in Open => \A v \in Parts(u) : fate[v] = "none"

\* A move leaves a task its parts, or takes them away; only a flush gives some.
LEMMA PartsKept ==
    ASSUME Placed, Parted, [Next]_vars, ~Restart, NEW u \in Update
    PROVE  \/ task'[u].parts = task[u].parts
           \/ task'[u].parts = {}
           \/ \E k \in Key : Flush(k) /\ u = Min(buffer[k].msgs) /\ task'[u].parts = buffer[k].msgs
<1>0. Typed /\ task \in [Update -> Task]
    BY DEF Placed, Typed, TaskTyped
<1>1. CASE Handling(u) \/ Streaming(u) \/ Launch(u)
    <2>1. \A pc : Goto(u, pc)[u].parts = task[u].parts
        BY <1>0 DEF Goto, Task
    <2>2. End({u})[u].parts = {}
        BY DEF End, Ended, NoTask
    <2>3. CASE Acquire(u)
        BY <1>0, <2>3 DEF Acquire, Task
    <2>4. CASE Enter(u)
        BY <1>0, <2>4 DEF Enter, Task
    <2>5. CASE Launch(u)
        <3>1. [NoTask EXCEPT !.pc = "register", !.session = created + 1].parts = {}
            BY DEF NoTask
        <3> QED
            BY <1>0, <2>5, <3>1 DEF Launch
    <2>6. CASE (Handling(u) \/ Streaming(u)) /\ ~Acquire(u) /\ ~Enter(u)
        <3>1. \/ task' = task \/ task' = End({u}) \/ \E pc : task' = Goto(u, pc)
            BY <2>6
            DEF Handling, Streaming, Submit, Solo, CommandNew, Tap, Steer, Send, CutShort, Register,
                Placeholder, Drain, ShowLast, Cleanup, RemoveRun, Done
        <3> QED
            BY <2>1, <2>2, <3>1
    <2> QED
        BY <1>1, <2>3, <2>4, <2>5, <2>6
<1>2. ASSUME NEW k \in Key, Flush(k)
      PROVE  \/ task'[u].parts = task[u].parts
             \/ task'[u].parts = {}
             \/ u = Min(buffer[k].msgs) /\ task'[u].parts = buffer[k].msgs
    BY <1>0, <1>2, FlushMoves DEF Placed, Ended, NoTask
<1> QED
    BY <1>0, <1>1, <1>2, Moves DEF Placed, Fetched, Flushed

LEMMA DoneStays ==
    ASSUME Placed, [Next]_vars, ~Restart, NEW u \in Update, task[u].pc = "done" PROVE task'[u] = task[u]
<1> SUFFICES ASSUME task'[u] # task[u] PROVE FALSE
    OBVIOUS
<1>1. Typed
    BY DEF Placed
<1>2. Handling(u) \/ Streaming(u) \/ Launch(u)
    BY PlacedMoves DEF Fetched
<1> QED
    BY <1>1, <1>2, Hops

LEMMA PartedStep == ASSUME Placed, Parted, [Next]_vars PROVE Parted'
<1>0. Update' = Update /\ Typed
    BY SameUpdates DEF Placed
<1>1. CASE Restart
    BY <1>0, <1>1 DEF Restart, Parted, NoTask
<1>2. CASE ~Restart
    <2>1. ASSUME NEW u \in Update, NEW v \in task'[u].parts \ {u} PROVE task'[v].pc = "done"
        <3>1. CASE v \in task[u].parts
            <4>1. task[v].pc = "done" /\ v \in Update
                BY <1>0, <2>1, <3>1 DEF Parted, Typed, TaskTyped, Task
            <4> QED
                BY <1>2, <4>1, DoneStays
        <3>2. CASE v \notin task[u].parts
            <4>1. PICK k \in Key : Flush(k) /\ u = Min(buffer[k].msgs) /\ task'[u].parts = buffer[k].msgs
                BY <1>2, <2>1, <3>2, PartsKept
            <4>2. v \in Update /\ v \in buffer[k].msgs
                BY <1>0, <2>1, <4>1 DEF Typed, BufferTyped, Entry
            <4>3. task'[v] = Ended
                BY <1>0, <2>1, <4>1, <4>2, FlushMoves DEF Placed
            <4> QED
                BY <4>3 DEF Ended, NoTask
        <3> QED
            BY <3>1, <3>2
    <2>2. ASSUME NEW k \in Key, Flush(k), NEW u \in Update, u = Min(buffer[k].msgs), NEW w \in Update \ {u}
          PROVE  task'[w].parts \cap buffer[k].msgs = {}
        <3> SUFFICES ASSUME NEW x \in task'[w].parts, x \in buffer[k].msgs PROVE FALSE
            OBVIOUS
        <3>1. x \in Update
            BY <1>0, <2>2 DEF Typed, BufferTyped, Entry
        <3>2. task[x].pc = "buffered"
            BY <1>0, <2>2, <3>1, FlushMoves DEF Placed
        <3>3. w \notin buffer[k].msgs
            BY <1>0, <2>2, FlushMoves DEF Placed, Ended, NoTask
        <3>4. x \in task[w].parts
            BY <1>0, <2>2, <3>3, FlushMoves DEF Placed
        <3> QED
            BY <3>1, <3>2, <3>3, <3>4 DEF Parted
    <2>3. ASSUME NEW u \in Update, NEW v \in Update \ {u} PROVE task'[u].parts \cap task'[v].parts = {}
        <3>1. CASE task'[u].parts \subseteq task[u].parts /\ task'[v].parts \subseteq task[v].parts
            BY <3>1 DEF Parted
        <3>2. ASSUME ~(task'[u].parts \subseteq task[u].parts) PROVE task'[u].parts \cap task'[v].parts = {}
            <4>1. PICK k \in Key : Flush(k) /\ u = Min(buffer[k].msgs) /\ task'[u].parts = buffer[k].msgs
                BY <1>2, <3>2, PartsKept
            <4> QED
                BY <2>2, <4>1
        <3>3. ASSUME ~(task'[v].parts \subseteq task[v].parts) PROVE task'[u].parts \cap task'[v].parts = {}
            <4>1. PICK k \in Key : Flush(k) /\ v = Min(buffer[k].msgs) /\ task'[v].parts = buffer[k].msgs
                BY <1>2, <3>3, PartsKept
            <4> QED
                BY <2>2, <4>1
        <3> QED
            BY <3>1, <3>2, <3>3
    <2>4. ASSUME NEW u \in Update, task'[u].pc \in {"none", "gate", "buffered", "done"} PROVE task'[u].parts = {}
        <3>1. CASE task'[u] = task[u]
            BY <2>4, <3>1 DEF Parted
        <3>2. CASE Fetched(u)
            BY <3>2 DEF Fetched
        <3>3. CASE Flushed(u)
            BY <1>0, <2>4, <3>3, FlushMoves DEF Placed, Flushed, Ended, NoTask
        <3>4. CASE Handling(u) \/ Streaming(u) \/ Launch(u)
            <4>1. CASE task' = End({u})
                BY <4>1 DEF End, Ended, NoTask
            <4>2. CASE Submit(u) /\ task' = Goto(u, "buffered")
                <5>1. task'[u].parts = task[u].parts
                    BY <1>0, <4>2 DEF Goto, Typed, TaskTyped, Task
                <5>2. task[u].pc = "gate" /\ task[u].parts = {}
                    BY <4>2 DEF Submit, Parted
                <5> QED
                    BY <5>1, <5>2
            <4>3. CASE \E pc : task' = Goto(u, pc) /\ pc \notin {"none", "gate", "buffered", "done"}
                BY <1>0, <2>4, <4>3 DEF Goto, Typed, TaskTyped, Task
            <4>4. CASE Acquire(u) \/ Enter(u) \/ Launch(u)
                <5>1. \A a, b : /\ [task EXCEPT ![u].pc = a, ![u].session = b][u].pc = a
                                /\ [task EXCEPT ![u].session = b, ![u].pc = a][u].pc = a
                    BY <1>0 DEF Typed, TaskTyped, Task
                <5>2. CASE Acquire(u)
                    BY <2>4, <5>1, <5>2 DEF Acquire
                <5>3. CASE Enter(u)
                    BY <2>4, <5>1, <5>3 DEF Enter
                <5>4. CASE Launch(u)
                    BY <1>0, <2>4, <5>4 DEF Launch, Typed, TaskTyped, NoTask
                <5> QED
                    BY <4>4, <5>2, <5>3, <5>4
            <4>5. CASE Submit(u)
                BY <4>1, <4>2, <4>5 DEF Submit
            <4>6. \/ task' = End({u}) \/ Submit(u) \/ Acquire(u) \/ Enter(u) \/ Launch(u)
                  \/ \E pc : task' = Goto(u, pc) /\ pc \notin {"none", "gate", "buffered", "done"}
                BY <3>4
                DEF Handling, Streaming, Solo, CommandNew, Tap, Steer, Send, CutShort, Register,
                    Placeholder, Drain, ShowLast, Cleanup, RemoveRun, Done
            <4> QED
                BY <4>1, <4>3, <4>4, <4>5, <4>6
        <3> QED
            BY <1>0, <1>2, <3>1, <3>2, <3>3, <3>4, Moves DEF Placed
    <2> QED
        BY <1>0, <2>1, <2>3, <2>4 DEF Parted
<1> QED
    BY <1>1, <1>2

\* Who gives a fate: the poll to an edit that steers at once, and a task to the
\* messages it speaks for, when it stops being open.
LEMMA Judged ==
    ASSUME Placed, Parted, [Next]_vars, ~Restart, ~Poll, fate' # fate
    PROVE  \E u \in Update, what \in Outcomes :
              /\ Handling(u) \/ Streaming(u)
              /\ task[u].pc \in Open /\ task'[u].pc \notin Open
              /\ fate' = Outcome(Parts(u), what)
<1>0. Typed /\ task \in [Update -> Task]
    BY DEF Placed, Typed, TaskTyped
<1>1. \A u \in Update : End({u})[u].pc = "done" /\ Goto(u, "drain")[u].pc = "drain" /\ Goto(u, "cleaned")[u].pc = "cleaned"
                        /\ Goto(u, "left")[u].pc = "left"
    BY <1>0 DEF End, Ended, NoTask, Goto, Task
<1>2. ASSUME NEW u \in Update, Submit(u)
      PROVE  /\ Handling(u) /\ task[u].pc \in Open /\ task'[u].pc \notin Open
             /\ fate' = Outcome(Parts(u), "omitted")
    <2>1. task[u].pc = "gate" /\ task' = End({u}) /\ fate' = Outcome({u}, "omitted")
        BY <1>2 DEF Submit
    <2>2. Parts(u) = {u}
        BY <2>1 DEF Parts, Parted
    <2> QED
        BY <1>1, <1>2, <2>1, <2>2 DEF Handling, Open
<1>3. ASSUME NEW u \in Update, CommandNew(u) \/ Tap(u) \/ Steer(u) \/ CutShort(u)
      PROVE  /\ Handling(u) /\ task[u].pc \in Open /\ task'[u].pc \notin Open
             /\ \E what \in Outcomes : fate' = Outcome(Parts(u), what)
    BY <1>1, <1>3 DEF CommandNew, Tap, Steer, CutShort, Done, Handling, Open, Outcomes
<1>4. ASSUME NEW u \in Update, Register(u)
      PROVE  /\ Streaming(u) /\ task[u].pc \in Open /\ task'[u].pc \notin Open
             /\ fate' = Outcome(Parts(u), "told")
    BY <1>1, <1>4 DEF Register, Streaming, Open
<1>5. ASSUME NEW u \in Update, Placeholder(u)
      PROVE  /\ Streaming(u) /\ task[u].pc \in Open /\ task'[u].pc \notin Open
             /\ fate' = Outcome(Parts(u), "unsent")
    BY <1>1, <1>5 DEF Placeholder, Streaming, Open
<1>6. ASSUME NEW u \in Update, Cleanup(u)
      PROVE  /\ Streaming(u) /\ task[u].pc \in Open /\ task'[u].pc \notin Open
             /\ fate' = Outcome(Parts(u), "answered")
    BY <1>1, <1>6 DEF Cleanup, Streaming, Open
<1>7. {"omitted", "told", "unsent", "answered"} \subseteq Outcomes
    BY DEF Outcomes
<1> QED
    BY <1>2, <1>3, <1>4, <1>5, <1>6, <1>7, FateFrame

LEMMA OutcomeOf ==
    ASSUME NEW us, NEW what, fate' = Outcome(us, what), NEW v \in Update
    PROVE  /\ v \notin us => fate'[v] = fate[v]
           /\ v \in us /\ fate[v] = "none" => fate'[v] = what
BY DEF Outcome

LEMMA PollFates ==
    ASSUME Placed, Poll, NEW v \in Update
    PROVE  \/ fate'[v] = fate[v] /\ ~(Fetched(v) /\ task'[v].pc = "done")
           \/ Fetched(v) /\ task'[v].pc = "done" /\ (fate[v] = "none" => fate'[v] = "steered")
<1> DEFINE us == {u \in Batch(offset') : SteersAtOnce(u)}
<1>1. fate' = Outcome(us, "steered")
    BY DEF Poll
<1>2. CASE v \in us
    <2>1. Fetched(v) /\ SteersAtOnce(v)
        BY <1>2, PollMoves DEF Placed
    <2>2. task'[v].pc = "done"
        BY <1>2, <2>1, PollDone DEF Placed
    <2> QED
        BY <1>1, <1>2, <2>1, <2>2, OutcomeOf
<1>3. CASE v \notin us
    <2>1. ~(Fetched(v) /\ task'[v].pc = "done")
        <3> SUFFICES ASSUME Fetched(v), task'[v].pc = "done" PROVE FALSE
            OBVIOUS
        <3>1. SteersAtOnce(v) /\ task'[v] # task[v]
            BY DEF Fetched
        <3>2. v \in Batch(offset')
            BY <3>1, PollMoves DEF Placed
        <3> QED
            BY <1>3, <3>1, <3>2
    <2> QED
        BY <1>1, <1>3, <2>1, OutcomeOf
<1> QED
    BY <1>2, <1>3

LEMMA Disjoint ==
    ASSUME Parted, NEW u \in Update, NEW w \in Update \ {u}, task[u].pc # "done", task[w].pc # "done"
    PROVE  Parts(u) \cap Parts(w) = {}
BY DEF Parted, Parts

LEMMA NoneStays ==
    ASSUME Placed, [Next]_vars, ~Restart, NEW u \in Update, task'[u].pc = "none" PROVE task'[u] = task[u]
<1> SUFFICES ASSUME task'[u] # task[u] PROVE FALSE
    OBVIOUS
<1>1. Typed
    BY DEF Placed
<1>2. Handling(u) \/ Streaming(u) \/ Launch(u)
    BY PlacedMoves DEF Fetched
<1>3. task'[u].pc # "none"
    BY <1>1, <1>2, Hops
<1> QED
    BY <1>3

LEMMA FatedStep == ASSUME Placed, Parted, Fated, [Next]_vars PROVE Fated'
<1>0. /\ Update' = Update /\ Typed /\ fate \in [Update -> Fate] /\ fate' \in [Update -> Fate]
      /\ task \in [Update -> Task]
    BY SameUpdates, FateStep DEF Placed, Typed, FateTyped, TaskTyped
<1>1. CASE Restart
    BY <1>0, <1>1 DEF Restart, Fated, OneFate, Parts, NoTask, Open
<1>2. CASE ~Restart /\ Poll
    <2>1. ASSUME NEW v \in Update PROVE fate'[v] # "twice"
        BY <1>2, <2>1, PollFates DEF Fated, OneFate, Fetched
    <2>2. ASSUME NEW v \in Update, task'[v].pc = "none" PROVE fate'[v] = "none"
        BY <1>2, <2>2, PollFates, NoneStays DEF Fated
    <2>3. ASSUME NEW u \in Update, task'[u].pc \in Open, NEW v \in {u} \cup task'[u].parts PROVE fate'[v] = "none"
        <3>1. CASE task'[u] = task[u]
            <4>1. fate[v] = "none" /\ v \in Update
                BY <1>0, <2>3, <3>1 DEF Fated, Parts, Task
            <4>2. task[v].pc = "done" \/ (v = u /\ task'[v].pc # "done")
                BY <2>3, <3>1 DEF Parted, Open
            <4>3. ~(Fetched(v) /\ task'[v].pc = "done")
                BY <4>2 DEF Fetched
            <4> QED
                BY <1>2, <4>1, <4>3, PollFates
        <3>2. CASE Fetched(u)
            <4>1. v = u /\ fate[u] = "none" /\ task'[u].pc # "done"
                BY <2>3, <3>2 DEF Fetched, Fated, Open
            <4> QED
                BY <1>2, <4>1, PollFates
        <3> QED
            BY <1>2, <3>1, <3>2, PollMoves DEF Placed
    <2> QED
        BY <1>0, <2>1, <2>2, <2>3 DEF Fated, OneFate, Parts
<1>3. CASE ~Restart /\ ~Poll /\ fate' # fate
    <2>1. PICK u \in Update, what \in Outcomes :
              /\ Handling(u) \/ Streaming(u)
              /\ task[u].pc \in Open /\ task'[u].pc \notin Open
              /\ fate' = Outcome(Parts(u), what)
        BY <1>3, Judged
    <2>2. \A v \in Update : v \notin Parts(u) => fate'[v] = fate[v]
        BY <2>1, OutcomeOf
    <2>3. \A v \in Update : v \in Parts(u) => fate'[v] = what
        BY <2>1, OutcomeOf DEF Fated
    <2>4. ASSUME NEW v \in Update PROVE fate'[v] # "twice"
        BY <2>2, <2>3 DEF Fated, OneFate, Outcomes
    <2>5. ASSUME NEW v \in Update, task'[v].pc = "none" PROVE fate'[v] = "none"
        <3>1. task[v].pc = "none"
            BY <1>3, <2>5, NoneStays
        <3>2. v \notin Parts(u)
            BY <2>1, <3>1 DEF Parts, Parted, Open
        <3> QED
            BY <2>2, <3>1, <3>2 DEF Fated
    <2>6. ASSUME NEW w \in Update, task'[w].pc \in Open, NEW v \in {w} \cup task'[w].parts PROVE fate'[v] = "none"
        <3>1. w # u /\ task'[w] = task[w]
            BY <1>0, <2>1, <2>6, Others
        <3>2. v \in Parts(w) /\ fate[v] = "none" /\ v \in Update
            BY <1>0, <2>6, <3>1 DEF Fated, Parts, Task
        <3>3. Parts(u) \cap Parts(w) = {}
            BY <2>1, <2>6, <3>1, Disjoint DEF Open
        <3> QED
            BY <2>2, <3>2, <3>3
    <2> QED
        BY <1>0, <2>4, <2>5, <2>6 DEF Fated, OneFate, Parts
<1>4. CASE ~Restart /\ ~Poll /\ fate' = fate
    <2>1. ASSUME NEW v \in Update, task'[v].pc = "none" PROVE fate[v] = "none"
        BY <1>4, <2>1, NoneStays DEF Fated
    <2>2. ASSUME NEW u \in Update, task'[u].pc \in Open, NEW v \in {u} \cup task'[u].parts PROVE fate[v] = "none"
        <3>1. ASSUME NEW k \in Key, Flush(k), u = Min(buffer[k].msgs), task'[u].parts = buffer[k].msgs
              PROVE  fate[v] = "none"
            <4>1. u \in buffer[k].msgs
                BY <1>0, <3>1, FlushMoves DEF Placed
            <4>2. v \in Update /\ v \in buffer[k].msgs
                BY <1>0, <2>2, <3>1, <4>1 DEF Typed, BufferTyped, Entry
            <4>3. task[v].pc = "buffered"
                BY <1>0, <3>1, <4>2, FlushMoves DEF Placed
            <4> QED
                BY <4>2, <4>3 DEF Fated, Open, Parts
        <3>2. CASE task'[u].parts \subseteq task[u].parts
            <4>1. CASE task[u].pc \in Open
                BY <2>2, <3>2, <4>1 DEF Fated, Parts
            <4>2. CASE task[u].pc = "none"
                BY <2>2, <3>2, <4>2 DEF Fated, Parted
            <4>3. task[u].pc \in Open \cup {"none"}
                <5>1. CASE task'[u] = task[u]
                    BY <2>2, <5>1
                <5>2. CASE Handling(u) \/ Streaming(u) \/ Launch(u)
                    BY <1>0, <2>2, <5>2, Hops DEF Open
                <5>3. CASE task[u].pc = "buffered"
                    BY <5>3 DEF Open
                <5> QED
                    BY <1>4, <5>1, <5>2, <5>3, PlacedMoves DEF Fetched
            <4> QED
                BY <4>1, <4>2, <4>3
        <3> QED
            BY <1>4, <3>1, <3>2, PartsKept
    <2> QED
        BY <1>0, <1>4, <2>1, <2>2 DEF Fated, OneFate, Parts
<1> QED
    BY <1>1, <1>2, <1>3, <1>4

-----------------------------------------------------------------------------
(* Nothing disappears: a message without a fate has a task that is open    *)
(* and speaks for it; only what an aborted timer took is lost.             *)

Carried ==
    \A u \in Update :
        fate[u] = "none" /\ task[u].pc # "none" => \E v \in Update : task[v].pc \in Open /\ u \in Parts(v)

Taken ==
    \A u \in cut : Parts(u) \subseteq cut /\ task[u].pc \notin {"none", "gate", "buffered"}

\* A task that closes gives its messages a fate; one that stays open keeps them.
LEMMA ClosingJudges ==
    ASSUME Placed, Parted, NEW v \in Update, Handling(v) \/ Streaming(v),
           task[v].pc \in Open, task'[v].pc \notin Open
    PROVE  \E what \in Outcomes : fate' = Outcome(Parts(v), what)
<1>0. Typed /\ task \in [Update -> Task]
    BY DEF Placed, Typed, TaskTyped
<1>1. \A pc : Goto(v, pc)[v].pc = pc
    BY <1>0 DEF Goto, Task
<1>2. CASE Submit(v) /\ task'[v].pc = "done"
    <2>1. task[v].pc = "gate" /\ fate' = Outcome({v}, "omitted")
        BY <1>1, <1>2 DEF Submit
    <2>2. Parts(v) = {v}
        BY <2>1 DEF Parts, Parted
    <2> QED
        BY <2>1, <2>2 DEF Outcomes
<1>3. CASE CommandNew(v) \/ Tap(v) \/ Steer(v) \/ CutShort(v)
    BY <1>3 DEF CommandNew, Tap, Steer, CutShort, Done, Outcomes
<1>4. CASE Register(v) /\ task'[v].pc = "drain"
    BY <1>1, <1>4 DEF Register, Outcomes
<1>5. CASE Placeholder(v) /\ task'[v].pc = "drain"
    BY <1>1, <1>5 DEF Placeholder, Outcomes
<1>6. CASE Cleanup(v)
    BY <1>6 DEF Cleanup, Outcomes
<1>7. \/ Submit(v) /\ task'[v].pc = "done"
      \/ CommandNew(v) \/ Tap(v) \/ Steer(v) \/ CutShort(v) \/ Cleanup(v)
      \/ Register(v) /\ task'[v].pc = "drain"
      \/ Placeholder(v) /\ task'[v].pc = "drain"
    BY <1>0, Hops DEF Open
<1> QED
    BY <1>2, <1>3, <1>4, <1>5, <1>6, <1>7

LEMMA StaysWhole ==
    ASSUME Placed, NEW v \in Update, Handling(v) \/ Streaming(v), task'[v].pc # "done"
    PROVE  task'[v].parts = task[v].parts
<1>0. task \in [Update -> Task]
    BY DEF Placed, Typed, TaskTyped
<1>1. \A pc : Goto(v, pc)[v].parts = task[v].parts
    BY <1>0 DEF Goto, Task
<1>2. End({v})[v].pc = "done"
    BY DEF End, Ended, NoTask
<1>3. CASE Acquire(v)
    BY <1>0, <1>3 DEF Acquire, Task
<1>4. CASE Enter(v)
    BY <1>0, <1>4 DEF Enter, Task
<1>5. \/ Acquire(v) \/ Enter(v) \/ task' = task \/ task' = End({v}) \/ \E pc : task' = Goto(v, pc)
    BY DEF Handling, Streaming, Submit, Solo, CommandNew, Tap, Steer, Send, CutShort, Register,
           Placeholder, Drain, ShowLast, Cleanup, RemoveRun, Done
<1> QED
    BY <1>1, <1>2, <1>3, <1>4, <1>5

\* A fate is never taken back.
LEMMA FatesLast ==
    ASSUME Typed, [Next]_vars, ~Restart, NEW u \in Update, fate'[u] = "none" PROVE fate[u] = "none"
<1>1. fate' = fate \/ \E us, what : what \in Outcomes /\ fate' = Outcome(us, what)
    BY FateFrame
    DEF Poll, Submit, CommandNew, Tap, Steer, CutShort, Register, Placeholder, Cleanup, Done, Outcomes
<1> QED
    BY <1>1 DEF Outcome, Outcomes

LEMMA CarriedStep == ASSUME Placed, Parted, Fated, Carried, [Next]_vars PROVE Carried'
<1>0. Update' = Update /\ Typed
    BY SameUpdates DEF Placed
<1>1. CASE Restart
    BY <1>0, <1>1 DEF Restart, Carried, NoTask
<1>2. ASSUME ~Restart, NEW u \in Update, fate'[u] = "none", task'[u].pc # "none"
      PROVE  \E v \in Update : task'[v].pc \in Open /\ u \in {v} \cup task'[v].parts
    <2>1. fate[u] = "none"
        BY <1>0, <1>2, FatesLast
    <2>2. CASE task[u].pc = "none"
        <3>1. task'[u] # task[u]
            BY <1>2, <2>2
        <3>2. ~Flushed(u)
            BY <1>0, <2>2, FlushedMoves DEF Placed
        <3>3. CASE Fetched(u)
            <4>1. task'[u].pc # "done"
                BY <1>2, <2>1, <3>3, PollFates DEF Fetched
            <4> QED
                BY <3>3, <4>1 DEF Fetched, Open
        <3>4. CASE Handling(u) \/ Streaming(u) \/ Launch(u)
            <4>1. task'[u].pc = "register"
                BY <1>0, <2>2, <3>4, Hops
            <4> QED
                BY <4>1 DEF Open
        <3> QED
            BY <1>0, <1>2, <3>1, <3>2, <3>3, <3>4, Moves DEF Placed
    <2>3. CASE task[u].pc # "none"
        <3>1. PICK v \in Update : task[v].pc \in Open /\ u \in Parts(v)
            BY <2>1, <2>3 DEF Carried
        <3>2. CASE task'[v] = task[v]
            BY <3>1, <3>2 DEF Parts
        <3>3. ASSUME NEW k \in Key, Flush(k), v \in buffer[k].msgs
              PROVE  \E w \in Update : task'[w].pc \in Open /\ u \in {w} \cup task'[w].parts
            <4>1. task[v].pc = "buffered"
                BY <1>0, <3>3, FlushMoves DEF Placed
            <4>2. u = v
                BY <3>1, <4>1 DEF Parts, Parted
            <4>3. PICK w \in Update : w = Min(buffer[k].msgs)
                BY <1>0, <3>3, FlushMoves DEF Placed
            <4>4. task'[w].pc = "permit" /\ task'[w].parts = buffer[k].msgs
                BY <1>0, <3>3, <4>3, FlushMoves DEF Placed
            <4> QED
                BY <3>3, <4>2, <4>4 DEF Open
        <3>4. CASE Handling(v) \/ Streaming(v)
            <4>1. CASE task'[v].pc \in Open
                <5>1. task'[v].parts = task[v].parts
                    BY <3>4, <4>1, StaysWhole DEF Open
                <5> QED
                    BY <3>1, <4>1, <5>1 DEF Parts
            <4>2. CASE task'[v].pc \notin Open
                <5>1. PICK what \in Outcomes : fate' = Outcome(Parts(v), what)
                    BY <3>1, <3>4, <4>2, ClosingJudges
                <5>2. fate'[u] = what
                    BY <2>1, <3>1, <5>1, OutcomeOf
                <5> QED
                    BY <1>2, <5>2 DEF Outcomes
            <4> QED
                BY <4>1, <4>2
        <3>5. ~Fetched(v) /\ ~Launch(v)
            BY <3>1 DEF Fetched, Launch, Open
        <3> QED
            BY <1>0, <1>2, <3>2, <3>3, <3>4, <3>5, Moves DEF Placed, Flushed
    <2> QED
        BY <2>2, <2>3
<1> QED
    BY <1>0, <1>1, <1>2 DEF Carried, Parts

LEMMA TakenStep == ASSUME Placed, Parted, Taken, [Next]_vars PROVE Taken'
<1>0. Update' = Update /\ Typed /\ cut \subseteq Update
    BY SameUpdates DEF Placed, Typed, TimersTyped
<1>1. CASE Restart
    BY <1>1 DEF Restart, Taken
<1>2. CASE ~Restart
    <2>1. ASSUME NEW u \in cut PROVE task'[u].pc \notin {"none", "gate", "buffered"}
        <3>1. u \in Update /\ task[u].pc \notin {"none", "gate", "buffered"}
            BY <1>0 DEF Taken
        <3>2. CASE task'[u] = task[u]
            BY <3>1, <3>2
        <3>3. CASE Handling(u) \/ Streaming(u) \/ Launch(u)
            BY <1>0, <3>1, <3>3, Hops
        <3> QED
            BY <1>2, <3>1, <3>2, <3>3, PlacedMoves DEF Fetched
    <2>2. ASSUME NEW u \in cut PROVE task'[u].parts \subseteq cut
        <3>1. u \in Update /\ task[u].parts \subseteq cut
            BY <1>0 DEF Taken, Parts
        <3>2. ASSUME NEW k \in Key, Flush(k), u = Min(buffer[k].msgs) PROVE FALSE
            <4>1. task[u].pc = "buffered"
                BY <1>0, <3>1, <3>2, FlushMoves DEF Placed
            <4> QED
                BY <4>1 DEF Taken
        <3> QED
            BY <1>2, <3>1, <3>2, PartsKept
    <2>3. ASSUME NEW k \in Key, Flush(k), cut' = cut \cup buffer[k].msgs, NEW u \in buffer[k].msgs
          PROVE  task'[u].parts \subseteq cut' /\ task'[u].pc \notin {"none", "gate", "buffered"}
        <3>1. u \in Update
            BY <1>0, <2>3 DEF Typed, BufferTyped, Entry
        <3>2. \/ task'[u] = Ended
              \/ task'[u].pc = "permit" /\ task'[u].parts = buffer[k].msgs
            BY <1>0, <2>3, <3>1, FlushMoves DEF Placed
        <3>3. Ended.pc = "done" /\ Ended.parts = {}
            BY DEF Ended, NoTask
        <3> QED
            BY <2>3, <3>2, <3>3
    <2>4. \/ cut' = cut
          \/ \E k \in Key : Flush(k) /\ cut' = cut \cup buffer[k].msgs
        <3>1. ASSUME NEW k \in Key, Flush(k) PROVE cut' = cut \/ cut' = cut \cup buffer[k].msgs
            BY <3>1 DEF Flush
        <3> QED
            BY <1>2, <3>1, TimersFrame
    <2> QED
        BY <2>1, <2>2, <2>3, <2>4 DEF Taken, Parts
<1> QED
    BY <1>1, <1>2

LEMMA LostStep == ASSUME Placed, Taken, LostWasCut, [Next]_vars PROVE LostWasCut'
<1>0. Update' = Update /\ Typed
    BY SameUpdates DEF Placed
<1>1. CASE Restart
    BY <1>0, <1>1 DEF Restart, LostWasCut
<1>2. ASSUME ~Restart, NEW u \in Update, fate'[u] = "lost" PROVE u \in cut'
    <2>1. cut \subseteq cut'
        <3>1. ASSUME NEW k \in Key, Flush(k) PROVE cut \subseteq cut'
            BY <3>1 DEF Flush
        <3> QED
            BY <1>2, <3>1, TimersFrame
    <2>2. CASE fate[u] = "lost"
        BY <2>1, <2>2 DEF LostWasCut
    <2>3. ASSUME fate[u] # "lost", NEW v \in Update, CutShort(v) PROVE u \in cut
        <3>1. fate' = Outcome(Parts(v), "lost") /\ v \in cut
            BY <2>3 DEF CutShort
        <3>2. u \in Parts(v)
            BY <1>2, <2>3, <3>1, OutcomeOf
        <3> QED
            BY <3>1, <3>2 DEF Taken
    <2>4. CASE fate' = fate \/ \E us, what : what \in Outcomes \ {"lost"} /\ fate' = Outcome(us, what)
        BY <1>2, <2>2, <2>4 DEF Outcome
    <2>5. \/ fate' = fate \/ (\E us, what : what \in Outcomes \ {"lost"} /\ fate' = Outcome(us, what))
          \/ \E v \in Update : CutShort(v)
        BY <1>2, FateFrame
        DEF Poll, Submit, CommandNew, Tap, Steer, Register, Placeholder, Cleanup, Done, Outcomes
    <2> QED
        BY <2>1, <2>2, <2>3, <2>4, <2>5
<1> QED
    BY <1>0, <1>1, <1>2 DEF LostWasCut

-----------------------------------------------------------------------------
(* What the cap dropped is told.                                           *)

Dropped == \A u \in omitted : task[u].pc = "done"

LEMMA SubmitDone ==
    ASSUME Typed, NEW u \in Update, Submit(u), omitted' # omitted
    PROVE  /\ task[u].pc = "gate" /\ task'[u].pc = "done" /\ omitted' = omitted \cup {u}
           /\ buffer' = [buffer EXCEPT ![sent[u]].dropped = @ + 1]
<1>1. End({u})[u].pc = "done"
    BY DEF End, Ended, NoTask
<1> QED
    BY <1>1 DEF Submit

LEMMA DroppedStep == ASSUME Placed, Dropped, [Next]_vars PROVE Dropped'
<1>0. Typed /\ omitted \subseteq Update
    BY DEF Placed, Typed, TallyTyped
<1>1. CASE Restart
    BY <1>1 DEF Restart, Dropped
<1>2. CASE ~Restart
    <2>1. ASSUME NEW u \in omitted PROVE task'[u].pc = "done"
        BY <1>0, <1>2, DoneStays DEF Dropped
    <2>2. ASSUME NEW u \in omitted', u \notin omitted PROVE task'[u].pc = "done"
        <3>1. PICK v \in Update : Submit(v)
            BY <1>2, <2>2, BufferFrame DEF Flush
        <3> QED
            BY <1>0, <2>2, <3>1, SubmitDone
    <2> QED
        BY <2>1, <2>2 DEF Dropped
<1> QED
    BY <1>1, <1>2

LEMMA ToldStep == ASSUME Placed, Dropped, OmittedAreTold, [Next]_vars PROVE OmittedAreTold'
<1>0. /\ Typed /\ IsFiniteSet(omitted) /\ BufferTyped /\ told \in Nat
      /\ buffer["text"].dropped \in Nat /\ buffer["photo"].dropped \in Nat
    <2>1. Typed /\ omitted \subseteq Update /\ IsFiniteSet(Update) /\ BufferTyped /\ told \in Nat
        BY Updates DEF Placed, Typed, TallyTyped
    <2> QED
        BY <2>1, FS_Subset DEF BufferTyped, Entry, Key
<1>1. CASE Restart
    <2>1. buffer'["text"].dropped = 0 /\ buffer'["photo"].dropped = 0 /\ told' = 0 /\ omitted' = {}
        BY <1>1 DEF Restart, Empty, Key
    <2> QED
        BY <2>1, FS_EmptySet DEF OmittedAreTold
<1>2. ASSUME NEW k \in Key, Flush(k) PROVE OmittedAreTold'
    <2>1. /\ buffer'[k].dropped = 0 /\ told' = told + buffer[k].dropped /\ omitted' = omitted
          /\ \A j \in Key \ {k} : buffer'[j].dropped = buffer[j].dropped
        BY <1>0, <1>2 DEF Flush, AfterFlush, Empty, BufferTyped
    <2>2. CASE k = "text"
        BY <1>0, <2>1, <2>2 DEF OmittedAreTold, Key
    <2>3. CASE k = "photo"
        BY <1>0, <2>1, <2>3 DEF OmittedAreTold, Key
    <2> QED
        BY <2>2, <2>3 DEF Key
<1>3. ASSUME NEW u \in Update, Submit(u) PROVE OmittedAreTold'
    <2>0. told' = told
        BY <1>3 DEF Submit
    <2>1. CASE omitted' = omitted
        <3>1. \A k \in Key : buffer'[k].dropped = buffer[k].dropped
            <4>1. buffer' = [buffer EXCEPT ![sent[u]].msgs = @ \cup {u}]
                <5>1. u \notin omitted
                    BY <1>3 DEF Dropped, Submit
                <5> QED
                    BY <1>3, <2>1, <5>1 DEF Submit
            <4> QED
                BY <1>0, <4>1 DEF BufferTyped, Entry
        <3> QED
            BY <2>0, <2>1, <3>1 DEF OmittedAreTold, Key
    <2>2. CASE omitted' # omitted
        <3>1. /\ u \notin omitted /\ omitted' = omitted \cup {u} /\ sent[u] \in Key
              /\ buffer' = [buffer EXCEPT ![sent[u]].dropped = @ + 1]
            BY <1>0, <1>3, <2>2, SubmitDone DEF Dropped, Placed, Kinds
        <3>2. Cardinality(omitted') = Cardinality(omitted) + 1
            BY <1>0, <3>1, FS_AddElement
        <3>3. \A k \in Key : buffer'[k].dropped = IF k = sent[u] THEN buffer[k].dropped + 1 ELSE buffer[k].dropped
            BY <1>0, <3>1 DEF BufferTyped, Entry
        <3>4. CASE sent[u] = "text"
            BY <1>0, <2>0, <3>2, <3>3, <3>4 DEF OmittedAreTold, Key
        <3>5. CASE sent[u] = "photo"
            BY <1>0, <2>0, <3>2, <3>3, <3>5 DEF OmittedAreTold, Key
        <3> QED
            BY <3>1, <3>4, <3>5 DEF Key
    <2> QED
        BY <2>1, <2>2
<1>4. CASE UNCHANGED <<buffer, omitted, told>>
    BY <1>4 DEF OmittedAreTold
<1> QED
    BY <1>1, <1>2, <1>3, <1>4, BufferFrame

-----------------------------------------------------------------------------
(* Sessions: each one made in this life of the process has its maker.      *)

Makers == {u \in Update : \/ sent[u] = "new" /\ task[u].pc = "done"
                          \/ sent[u] = "research" /\ task[u].pc # "none"}

Made == fresh <= (IF current = 0 THEN 0 ELSE 1) + Cardinality(Makers)

LEMMA MadeStep == ASSUME Placed, Owned, Made, [Next]_vars PROVE Made'
<1>0. /\ Typed /\ UNCHANGED sent /\ Update' = Update /\ IsFiniteSet(Makers) /\ IsFiniteSet(Makers')
      /\ current \in Nat /\ created \in Nat /\ fresh \in Nat
    <2>1. Typed /\ UNCHANGED sent /\ Update' = Update /\ IsFiniteSet(Update)
        BY SameUpdates, Updates DEF Placed, Typed
    <2>2. Makers \subseteq Update /\ Makers' \subseteq Update
        BY <2>1 DEF Makers
    <2> QED
        BY <2>1, <2>2, FS_Subset DEF Typed, SessionsTyped
<1>1. Cardinality(Makers) \in Nat /\ Cardinality(Makers') \in Nat
    BY <1>0, FS_CardinalityType
<1>2. CASE Restart
    <2>1. fresh' = 0 /\ current' = current
        BY <1>2 DEF Restart
    <2> QED
        BY <1>0, <1>1, <2>1 DEF Made
<1>3. CASE ~Restart
    <2>1. Makers \subseteq Makers'
        <3> SUFFICES ASSUME NEW u \in Makers PROVE u \in Makers'
            OBVIOUS
        <3>1. u \in Update /\ task[u].pc # "none"
            BY DEF Makers
        <3>2. task'[u].pc # "none"
            BY <1>3, <3>1, NoneStays
        <3>3. task[u].pc = "done" => task'[u].pc = "done"
            BY <1>3, <3>1, DoneStays
        <3> QED
            BY <1>0, <3>2, <3>3 DEF Makers
    <2>2. Cardinality(Makers) <= Cardinality(Makers')
        BY <1>0, <2>1, FS_Subset
    <2>3. ASSUME NEW u \in Update, CommandNew(u) \/ Launch(u) PROVE Made'
        <3>1. u \in Makers' /\ u \notin Makers
            <4>1. CASE CommandNew(u)
                <5>1. task[u].pc = "new" /\ sent[u] = "new" /\ task'[u].pc = "done"
                    BY <4>1 DEF CommandNew, Done, End, Ended, NoTask, Placed, Kinds
                <5> QED
                    BY <1>0, <5>1 DEF Makers
            <4>2. CASE Launch(u)
                <5>1. task[u].pc = "none" /\ sent[u] = "research"
                    BY <4>2 DEF Launch
                <5>2. task'[u].pc # "none"
                    <6>1. [NoTask EXCEPT !.pc = "register", !.session = created + 1].pc = "register"
                        BY DEF NoTask
                    <6> QED
                        BY <1>0, <4>2, <6>1 DEF Launch, Typed, TaskTyped
                <5> QED
                    BY <1>0, <5>1, <5>2 DEF Makers
            <4> QED
                BY <2>3, <4>1, <4>2
        <3>2. Cardinality(Makers \cup {u}) = Cardinality(Makers) + 1
            BY <1>0, <3>1, FS_AddElement
        <3>3. Cardinality(Makers \cup {u}) <= Cardinality(Makers')
            <4>1. Makers \cup {u} \subseteq Makers'
                BY <2>1, <3>1
            <4> QED
                BY <1>0, <4>1, FS_Subset
        <3>4. /\ fresh' = fresh + 1 /\ current' \in Nat
              /\ current # 0 => current' # 0
            BY <1>0, <2>3 DEF CommandNew, Launch
        <3> QED
            BY <1>0, <1>1, <3>2, <3>3, <3>4 DEF Made
    <2>4. ASSUME NEW u \in Update, Enter(u) PROVE Made'
        <3>1. CASE UNCHANGED <<current, fresh>>
            BY <1>0, <1>1, <2>2, <3>1 DEF Made
        <3>2. CASE ~UNCHANGED <<current, fresh>>
            <4>1. Resolved(u) = created + 1 /\ fresh' = fresh + 1 /\ current' = created + 1
                BY <2>4, <3>2 DEF Enter, sessions
            <4>2. current = 0
                <5>1. task[u].session \in Nat /\ task[u].session <= created /\ current <= created
                    BY <1>0 DEF Owned, Typed, TaskTyped, Task
                <5>2. Resolved(u) = current => current = 0
                    BY <1>0, <4>1, <5>1
                <5>3. Resolved(u) # task[u].session
                    BY <1>0, <4>1, <5>1
                <5> QED
                    BY <5>2, <5>3 DEF Resolved, ResolvedUnchecked
            <4> QED
                BY <1>0, <1>1, <2>2, <4>1, <4>2 DEF Made
        <3> QED
            BY <3>1, <3>2
    <2>5. CASE UNCHANGED <<current, created, fresh>>
        BY <1>0, <1>1, <2>2, <2>5 DEF Made
    <2> QED
        BY <1>3, <2>3, <2>4, <2>5, SessionsFrame
<1> QED
    BY <1>2, <1>3

-----------------------------------------------------------------------------
(* Turns: of all turns that were not reaped, no two are of one session.    *)

Exclusive ==
    \A u \in Update : \A v \in Update \ {u} :
        turn[u].state # "none" /\ turn[v].state # "none" => turn[u].session # turn[v].session

LEMMA ExclusiveStep == ASSUME Placed, Owned, Exclusive, [Next]_vars PROVE Exclusive'
<1>0. Typed /\ Update' = Update /\ turn \in [Update -> Turn] /\ created \in Nat
    BY SameUpdates DEF Placed, Typed, TurnTyped, SessionsTyped
<1>1. CASE Restart
    BY <1>0, <1>1 DEF Restart, Exclusive, NoTurn
<1>2. ASSUME NEW u \in Update, Send(u) \/ Launch(u) PROVE Exclusive'
    <2>1. CASE turn' = turn
        BY <1>0, <2>1 DEF Exclusive
    <2>2. CASE turn' # turn
        <3>1. ASSUME NEW v \in Update \ {u} PROVE turn'[v] = turn[v]
            BY <1>0, <1>2 DEF Send, Launch
        <3>2. ASSUME NEW v \in Update \ {u}, turn[v].state # "none" PROVE turn'[u].session # turn[v].session
            <4>1. CASE Send(u)
                <5>1. turn'[u].session = task[u].session /\ ~Active(task[u].session)
                    BY <1>0, <2>2, <4>1 DEF Send, NoTurn
                <5> QED
                    BY <3>2, <5>1 DEF Active
            <4>2. CASE Launch(u)
                <5>1. turn'[u].session = created + 1
                    BY <1>0, <4>2 DEF Launch, NoTurn
                <5>2. turn[v].session <= created /\ turn[v].session \in Nat
                    BY <1>0 DEF Owned, Turn
                <5> QED
                    BY <1>0, <5>1, <5>2
            <4> QED
                BY <1>2, <4>1, <4>2
        <3> QED
            BY <1>0, <3>1, <3>2 DEF Exclusive
    <2> QED
        BY <2>1, <2>2
<1>3. CASE ~Restart /\ ~\E u \in Update : Send(u) \/ Launch(u)
    <2>1. ASSUME NEW u \in Update, turn'[u].state # "none"
          PROVE  turn[u].state # "none" /\ turn'[u].session = turn[u].session
        BY <1>0, <1>3, <2>1, TurnMoves DEF NoTurn
    <2> QED
        BY <1>0, <2>1 DEF Exclusive
<1> QED
    BY <1>1, <1>2, <1>3

-----------------------------------------------------------------------------
IInv ==
    /\ Placed /\ Within /\ Locked /\ Owned /\ Parted /\ Fated /\ Dropped /\ OmittedAreTold
    /\ Made /\ Exclusive /\ Carried /\ Taken /\ LostWasCut

LEMMA InitInv == Init => IInv
<1> SUFFICES ASSUME Init PROVE IInv
    OBVIOUS
<1>1. Placed
    BY InitPlaced
<1>2. /\ Locked /\ Owned /\ Parted /\ Fated /\ Dropped /\ Exclusive /\ Carried /\ Taken /\ LostWasCut
    BY Updates, InitTyped
    DEF Init, Carried, Taken, LostWasCut, Locked, Owned, Parted, Fated, OneFate, Dropped, Exclusive, NoTask, NoTurn, Parts, Open, Typed
<1>3. Holding = {} /\ omitted = {} /\ told = 0 /\ buffer["text"].dropped = 0 /\ buffer["photo"].dropped = 0
    BY DEF Init, Holding, At, NoTask, Key, Empty
<1>4. permits \in Nat /\ fresh = 0 /\ current = 0
    BY InitTyped DEF Init, Typed, ServerTyped
<1>5. IsFiniteSet(Makers)
    <2>1. Makers \subseteq Update /\ IsFiniteSet(Update)
        BY InitTyped, Updates DEF Makers, Typed
    <2> QED
        BY <2>1, FS_Subset
<1>6. Cardinality(Makers) \in Nat
    BY <1>5, FS_CardinalityType
<1>7. Within /\ OmittedAreTold /\ Made
    BY <1>3, <1>4, <1>6, FS_EmptySet DEF Within, OmittedAreTold, Made
<1> QED
    BY <1>1, <1>2, <1>7 DEF IInv

LEMMA NextInv == ASSUME IInv, [Next]_vars PROVE IInv'
BY PlacedStep, WithinStep, LockedStep, OwnedStep, PartedStep, FatedStep, DroppedStep, ToldStep, MadeStep,
   ExclusiveStep, CarriedStep, TakenStep, LostStep DEF IInv

LEMMA IInvHolds == Spec => []IInv
BY InitInv, NextInv, PTL DEF Spec

LEMMA TypesFollow == IInv => TypeOK
<1> SUFFICES ASSUME IInv PROVE TypeOK
    OBVIOUS
<1>1. Typed /\ Update \subseteq Nat \ {0} /\ lock \in Update \cup {0}
    BY Updates DEF IInv, Placed, Typed, LockTyped
<1>2. At({"steer", "send"}) = IF lock = 0 THEN {} ELSE {lock}
    BY <1>1 DEF IInv, Locked, At
<1>3. acked \in 0..Len(sent) /\ offset \in 0..Len(sent) /\ current \in 0..created
    BY <1>1 DEF IInv, Owned, Typed, PollerTyped, SessionsTyped
<1>4. \A u \in Update : task[u].session \in 0..created /\ fate[u] \in Outcomes \cup {"none", "twice"}
    BY <1>1 DEF IInv, Owned, Typed, TaskTyped, Task, SessionsTyped, FateTyped, Fate
<1> QED
    BY <1>2, <1>3, <1>4 DEF IInv, Within, Placed, Buffered, TypeOK

\* However its task, the timer of the coalescer, the lock of the thread, the permits and
\* the streams interleave, and whenever the process stops: no message disappears, each is
\* under way in the task that speaks for it or has one fate in this life of the process; it
\* is lost only with a burst that an aborted timer took; and the user is told how many
\* items the cap of the coalescer dropped.
THEOREM EveryMessageAccounted == Spec => []MessagesAccounted
<1>1. IInv => NoneDisappears
    BY DEF IInv, Carried, NoneDisappears, Unfinished, Open
<1>2. IInv => MessagesAccounted
    BY <1>1, TypesFollow DEF IInv, Fated, MessagesAccounted
<1> QED
    BY <1>2, IInvHolds, PTL

\* The first messages of a thread make one session between them, and two turns never run
\* in one session, though each is started under a lock that is given back before it ends.
THEOREM OneSessionOneTurn == Spec => []OneAtATime
<1>1. ASSUME IInv PROVE OneSession
    <2>1. IsFiniteSet(Update) /\ fresh \in Nat
        BY <1>1, Updates DEF IInv, Placed, Typed, SessionsTyped
    <2> DEFINE S == {u \in Update : sent[u] \in {"new", "research"}}
    <2>2. IsFiniteSet(S) /\ Makers \subseteq S
        BY <2>1, FS_Subset DEF Makers
    <2>3. Cardinality(Makers) <= Cardinality(S) /\ Cardinality(S) \in Nat /\ Cardinality(Makers) \in Nat
        BY <2>2, FS_Subset, FS_CardinalityType
    <2>4. fresh <= (IF current = 0 THEN 0 ELSE 1) + Cardinality(Makers)
        BY <1>1 DEF IInv, Made
    <2> HIDE DEF S
    <2>5. fresh <= 1 + Cardinality(S)
        BY <2>1, <2>3, <2>4
    <2> QED
        BY <2>5 DEF S, OneSession
<1>2. IInv => OneTurn
    BY DEF IInv, Exclusive, OneTurn, Listening
<1>3. IInv => OneAtATime
    BY <1>1, <1>2 DEF OneAtATime
<1> QED
    BY <1>3, IInvHolds, PTL

=============================================================================
