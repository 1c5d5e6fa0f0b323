----------------------------- MODULE ChannelMap -----------------------------
(***************************************************************************)
(* naked-tg/src/channel_map.rs for one chat: which session a topic talks   *)
(* to, the temporary (per topic) and permanent (chat-wide) auto-approval,  *)
(* the allow-list; with the commands that change them (commands/tools.rs,  *)
(* commands/session.rs, callbacks/permission.rs), the permission cards     *)
(* that read them, the two stores they are kept in (channel_map.jsonl and  *)
(* the config.json of a session) and a restart.  Every write lock and      *)
(* every file access of the source is a step; handlers run concurrently.   *)
(***************************************************************************)
EXTENDS Naturals, Sequences, FiniteSetsExt, Functions

CONSTANTS
    Topic,
    Card,           \* call ids of permission requests
    Handler,        \* tasks that run a command or a callback
    MaxSessions,    \* bound on the sessions of a topic
    Ttl, MaxNow,    \* YOLO_TTL_SECS and the bound of the clock, in one unit
    MaxCommands,    \* bound on the commands of users
    MaxEvents,      \* bound on restarts, turns, failed writes, timer flushes and ticks
    None

ASSUME ChannelAssumption ==
    /\ MaxSessions \in Nat \ {0} /\ Ttl \in Nat \ {0}
    /\ MaxNow \in Nat /\ MaxCommands \in Nat /\ MaxEvents \in Nat
    /\ None \notin Nat \cup Card \cup Handler \cup {"timer"} /\ "timer" \notin Handler

PermanentAfter == 2     \* YOLO_PERMANENT_AFTER

VARIABLES
    now,
    map, yolo, chat, allow,     \* the four maps of ChannelSessionMap; one tool
    flush,                      \* the flush in progress, under flush_lock
    task,                       \* Handler -> the locals of its command
    cards,                      \* pending_perms, and what became of each card
    running,                    \* Topic -> sessions with a turn in flight
    snapshot,                   \* channel_map.jsonl
    config,                     \* Topic -> session -> its config.json
    saved,                      \* Topic -> [recent, linked], the session files
    commands, events,           \* what was used of the bounds
    enables, granted,           \* history: explicit enables; topics given any approval
    revoked,                    \* history: topics a /yolo off cleared, not given any since
    unsaved                     \* history: which of the two stores missed a write

memory == <<map, yolo, chat, allow>>
disk == <<snapshot, config, saved>>
history == <<commands, events, enables, granted, revoked, unsaved>>
vars == <<now, memory, flush, task, cards, running, disk, history>>

Session == 1..MaxSessions
Time == 0..MaxNow
Live(at) == now - at < Ttl                          \* yolo_within_ttl
Active(grant) == grant # None /\ Live(grant.at)

NoRow == [count |-> 0, permanent |-> FALSE, last_call |-> None]
NoConfig == [yolo |-> None, allow |-> FALSE]
NoCut == [yolo |-> [t \in Topic |-> None], chat |-> NoRow, allow |-> [t \in Topic |-> FALSE]]
NoFlush == [by |-> None, stage |-> "none", cut |-> NoCut]
Idle == [pc |-> "idle", command |-> None, topic |-> None, call |-> None, permanent |-> FALSE,
         session |-> None, edited |-> None, left |-> {}]
Finish(p) == [task EXCEPT ![p] = Idle]
Goto(p, pc) == [task EXCEPT ![p].pc = pc]

\* An event of the environment; the others it leaves alone.
Event == events < MaxEvents /\ events' = events + 1
quiet == <<commands, enables, granted, revoked, unsaved>>

\* flush reads map and yolo first and holds their guards until it has the rest.  Its
\* map rows are left out: Restart overrides them, since each topic has a linked session.
Partial == flush.stage = "begun"
HeldNot == FALSE
Held == Partial

\* Each topic has had its first message; in one the turn is still running.
Init ==
    /\ now = 0
    /\ map = [t \in Topic |-> 1]
    /\ yolo = [t \in Topic |-> None]
    /\ chat = NoRow
    /\ allow = [t \in Topic |-> FALSE]
    /\ flush = NoFlush
    /\ task = [p \in Handler |-> Idle]
    /\ cards = [c \in Card |-> [state |-> "new", topic |-> None, tapped |-> FALSE]]
    /\ \E t \in Topic : running = [u \in Topic |-> IF u = t THEN {1} ELSE {}]
    /\ snapshot = NoCut
    /\ config = [t \in Topic |-> [s \in Session |-> NoConfig]]
    /\ saved = [t \in Topic |-> [recent |-> <<1>>, linked |-> {1}]]
    /\ commands = 0 /\ events = 0 /\ enables = 0 /\ granted = {} /\ revoked = {}
    /\ unsaved = {}

-----------------------------------------------------------------------------
(***************************************************************************)
(* Commands: the first step of a handler                                   *)
(***************************************************************************)

Command(p, name, t, pc, session) ==
    /\ task[p].pc = "idle" /\ commands < MaxCommands
    /\ commands' = commands + 1
    /\ task' = [task EXCEPT ![p] = [Idle EXCEPT !.pc = pc, !.command = name, !.topic = t,
                                                !.session = session]]

\* grant_temporary_yolo of dispatch_research: an automated grant of one topic.
Research(t) ==
    /\ ~Held /\ commands < MaxCommands
    /\ commands' = commands + 1
    /\ yolo' = [yolo EXCEPT ![t] = [at |-> now, explicit |-> FALSE]]
    /\ granted' = granted \cup {t} /\ revoked' = revoked \ {t}
    /\ UNCHANGED <<now, map, chat, allow, flush, task, cards, running, disk, events, enables,
                   unsaved>>

\* escalate_if_live: the card is claimed and allowed under one lock, then yolo is enabled.
TapYolo(p, c) ==
    /\ task[p].pc = "idle" /\ cards[c].state = "pending"
    /\ cards' = [cards EXCEPT ![c] = [@ EXCEPT !.state = "allowed", !.tapped = TRUE]]
    /\ task' = [task EXCEPT ![p] = [Idle EXCEPT !.pc = "grant", !.command = "yolo",
                                                !.topic = cards[c].topic, !.call = c]]
    /\ UNCHANGED <<now, memory, flush, running, disk, history>>

-----------------------------------------------------------------------------
(***************************************************************************)
(* enable_yolo, and what cmd_yolo and handle_yolo do after it              *)
(***************************************************************************)

Enable(t) ==
    /\ ~Held
    /\ yolo' = [yolo EXCEPT ![t] = [at |-> now, explicit |-> TRUE]]
    /\ enables' = enables + 1 /\ granted' = granted \cup {t} /\ revoked' = revoked \ {t}
    /\ UNCHANGED <<now, map, chat, allow, flush, cards, running, disk, events, unsaved>>

Yolo(p, t) == Command(p, "yolo", t, "count", None) /\ Enable(t)

GrantTap(p) ==
    /\ task[p].pc = "grant"
    /\ Enable(task[p].topic)
    /\ task' = Goto(p, "count")
    /\ UNCHANGED commands

\* The call id of a card counts once; a command always counts.
EscalatedTwice(row, call) ==
    [count |-> row.count + 2, permanent |-> row.permanent \/ row.count + 2 >= PermanentAfter,
     last_call |-> call]
Escalated(row, call) ==
    IF call # None /\ row.last_call = call THEN row
    ELSE [count |-> row.count + 1, permanent |-> row.permanent \/ row.count + 1 >= PermanentAfter,
          last_call |-> call]

Count(p) ==
    /\ task[p].pc = "count"
    /\ chat' = Escalated(chat, task[p].call)
    /\ task' = [task EXCEPT ![p] = [@ EXCEPT !.permanent = chat'.permanent, !.pc = "load"]]
    /\ revoked' = IF chat'.permanent THEN {} ELSE revoked
    /\ UNCHANGED <<now, map, yolo, allow, flush, cards, running, disk, commands, events, enables,
                   granted, unsaved>>

Covers(p, t) == task[p].permanent \/ task[p].topic = t
DrainedChatWide(p) == {c \in Card : cards[c].state = "pending"}
Drained(p) == {c \in DrainedChatWide(p) : Covers(p, cards[c].topic)}

\* approve_pending_perms; a permanent tier is flushed at once.
AfterApprovalUnsaved(p) == Finish(p)
AfterApproval(p) == IF task[p].permanent THEN Goto(p, "flush") ELSE Finish(p)

Approve(p) ==
    /\ task[p].pc = "approve"
    /\ cards' = [c \in Card |-> IF c \in Drained(p) THEN [cards[c] EXCEPT !.state = "allowed"]
                                ELSE cards[c]]
    /\ task' = AfterApproval(p)
    /\ UNCHANGED <<now, memory, flush, running, disk, history>>

-----------------------------------------------------------------------------
(***************************************************************************)
(* config.json of a session: read, edited and written without a lock       *)
(***************************************************************************)

Edited(p, old) ==
    CASE task[p].command = "yolo" -> [old EXCEPT !.yolo = now]
      [] task[p].command = "off" -> [old EXCEPT !.yolo = None]
      [] OTHER -> [old EXCEPT !.allow = allow[task[p].topic]]

\* set_session_yolo and set_session_allow_list for the session of the topic ...
Load(p) ==
    /\ task[p].pc = "load" /\ task[p].command # "off"
    /\ LET t == task[p].topic IN
       task' = [task EXCEPT ![p] = [@ EXCEPT !.session = <<t, map[t]>>,
                                             !.edited = Edited(p, config[t][map[t]]),
                                             !.pc = "store"]]
    /\ UNCHANGED <<now, memory, flush, cards, running, disk, history>>

\* ... or, for /yolo off, of every session the map names for the chat.
LoadNext(p) ==
    /\ task[p].pc = "load" /\ task[p].command = "off"
    /\ \E s \in task[p].left :
          task' = [task EXCEPT ![p] = [@ EXCEPT !.session = s, !.left = task[p].left \ {s},
                                                !.edited = Edited(p, config[s[1]][s[2]]),
                                                !.pc = "store"]]
    /\ UNCHANGED <<now, memory, flush, cards, running, disk, history>>

AfterStore(p) ==
    CASE task[p].command = "yolo" -> Goto(p, "approve")
      [] task[p].command = "off" -> Goto(p, IF task[p].left = {} THEN "flush" ELSE "load")
      [] OTHER -> Finish(p)

\* A failed write is logged; /yolo off tells of it in its reply.
Store(p) ==
    /\ task[p].pc = "store"
    /\ LET s == task[p].session IN
       \/ /\ config' = [config EXCEPT ![s[1]][s[2]] = task[p].edited]
          /\ UNCHANGED <<unsaved, events>>
       \/ /\ Event /\ unsaved' = unsaved \cup {"config"}
          /\ UNCHANGED config
    /\ task' = AfterStore(p)
    /\ UNCHANGED <<now, memory, flush, cards, running, snapshot, saved, commands, enables,
                   granted, revoked>>

-----------------------------------------------------------------------------
(***************************************************************************)
(* /yolo off, /allow and /new                                              *)
(***************************************************************************)

\* clear_yolo_chat
Off(p, t) ==
    /\ Command(p, "off", t, "clear_topics", None)
    /\ chat' = NoRow
    /\ UNCHANGED <<now, map, yolo, allow, flush, cards, running, disk, events, enables, granted,
                   revoked, unsaved>>

\* The topics whose approval this command takes back for good: nobody enables beside it.
TakenBack ==
    IF chat = NoRow /\ \A q \in Handler : task[q].command # "yolo" THEN {t \in Topic : ~allow[t]}
    ELSE revoked

OwnCleared(p) == [yolo EXCEPT ![task[p].topic] = None]
Cleared(p) == [t \in Topic |-> None]

ClearTopics(p) ==
    /\ task[p].pc = "clear_topics" /\ ~Held
    /\ yolo' = Cleared(p)
    /\ revoked' = TakenBack
    /\ task' = Goto(p, "deny")
    /\ UNCHANGED <<now, map, chat, allow, flush, cards, running, disk, commands, events, enables,
                   granted, unsaved>>

\* deny_pending_perms, then sessions_for_chat
Deny(p) ==
    /\ task[p].pc = "deny"
    /\ cards' = [c \in Card |-> IF cards[c].state = "pending"
                                THEN [cards[c] EXCEPT !.state = "denied"] ELSE cards[c]]
    /\ task' = [task EXCEPT ![p] = [@ EXCEPT !.left = {<<t, map[t]>> : t \in Topic}, !.pc = "load"]]
    /\ UNCHANGED <<now, memory, flush, running, disk, history>>

\* allow_add, allow_remove
Allow(p, t, name) ==
    /\ Command(p, name, t, "load", None)
    /\ allow' = [allow EXCEPT ![t] = (name = "add")]
    /\ granted' = IF name = "add" THEN granted \cup {t} ELSE granted
    /\ revoked' = IF name = "add" THEN revoked \ {t} ELSE revoked
    /\ UNCHANGED <<now, map, yolo, chat, flush, cards, running, disk, events, enables, unsaved>>

\* cmd_new: the session is created and saved, mapped, and linked to its topic last.
New(p, t) ==
    /\ Len(saved[t].recent) < MaxSessions
    /\ LET s == Len(saved[t].recent) + 1 IN
       /\ Command(p, "new", t, "set", <<t, s>>)
       /\ saved' = [saved EXCEPT ![t].recent = Append(@, s)]
    /\ UNCHANGED <<now, memory, flush, cards, running, snapshot, config, events, enables, granted,
                   revoked, unsaved>>

Set(p) ==
    /\ task[p].pc = "set" /\ ~Held
    /\ map' = [map EXCEPT ![task[p].topic] = task[p].session[2]]
    /\ task' = Goto(p, "disable")
    /\ UNCHANGED <<now, yolo, chat, allow, flush, cards, running, disk, history>>

Disable(p) ==
    /\ task[p].pc = "disable" /\ ~Held
    /\ yolo' = [yolo EXCEPT ![task[p].topic] = None]
    /\ task' = Goto(p, "link")
    /\ UNCHANGED <<now, map, chat, allow, flush, cards, running, disk, history>>

Link(p) ==
    /\ task[p].pc = "link"
    /\ saved' = [saved EXCEPT ![task[p].topic].linked = @ \cup {task[p].session[2]}]
    /\ task' = Finish(p)
    /\ UNCHANGED <<now, memory, flush, cards, running, snapshot, config, history>>

-----------------------------------------------------------------------------
(***************************************************************************)
(* flush: under flush_lock; read guards in the order map, yolo, yolo_chat, *)
(* allow_list, all kept until the last is taken; then write and rename     *)
(***************************************************************************)

FlushBegin(by) ==
    /\ flush.stage = "none"
    /\ IF by = "timer" THEN Event ELSE task[by].pc = "flush" /\ UNCHANGED events
    /\ flush' = [by |-> by, stage |-> "begun", cut |-> [NoCut EXCEPT !.yolo = yolo]]
    /\ UNCHANGED <<now, memory, task, cards, running, disk, quiet>>

FlushCut ==
    /\ Partial
    /\ flush' = [flush EXCEPT !.stage = "cut",
                              !.cut = [yolo |-> @.yolo, chat |-> [chat EXCEPT !.last_call = None],
                                       allow |-> allow]]
    /\ UNCHANGED <<now, memory, task, cards, running, disk, history>>

FlushWrite ==
    /\ flush.stage = "cut"
    /\ \/ snapshot' = flush.cut /\ unsaved' = unsaved \ {"snapshot"} /\ UNCHANGED events
       \/ Event /\ unsaved' = unsaved \cup {"snapshot"} /\ UNCHANGED snapshot
    /\ task' = IF flush.by \in Handler THEN Finish(flush.by) ELSE task
    /\ flush' = NoFlush
    /\ UNCHANGED <<now, memory, cards, running, config, saved, commands, enables, granted,
                   revoked>>

-----------------------------------------------------------------------------
(***************************************************************************)
(* Turns and their permission requests                                     *)
(***************************************************************************)

StartTurn(t) ==
    /\ map[t] \notin running[t] /\ Event
    /\ running' = [running EXCEPT ![t] = @ \cup {map[t]}]
    /\ UNCHANGED <<now, memory, flush, task, cards, disk, quiet>>

\* The session becomes the one updated last.
Renewed(recent, s) ==
    LET p == CHOOSE p \in DOMAIN recent : recent[p] = s
    IN  [i \in DOMAIN recent |-> IF i < p THEN recent[i]
                                 ELSE IF i = Len(recent) THEN s ELSE recent[i + 1]]

\* persist_turn_result saves the session with a new updated_at.
EndTurn(t, s) ==
    /\ s \in running[t]
    /\ \A c \in Card : cards[c].topic = t => cards[c].state \in {"allowed", "denied", "lost"}
    /\ running' = [running EXCEPT ![t] = @ \ {s}]
    /\ saved' = [saved EXCEPT ![t].recent = Renewed(@, s)]
    /\ UNCHANGED <<now, memory, flush, task, cards, snapshot, config, history>>

SetCard(c, state) == cards' = [cards EXCEPT ![c].state = state]

\* should_auto_approve: is_yolo, which removes an expired grant under a lock it takes
\* anew, then the allow-list.
Request(c, t) ==
    /\ cards[c].state = "new" /\ running[t] # {}
    /\ LET state == IF chat.permanent \/ Active(yolo[t]) THEN "allowed"
                    ELSE IF yolo[t] # None THEN "purge"
                    ELSE IF allow[t] THEN "allowed" ELSE "asking"
       IN cards' = [cards EXCEPT ![c] = [@ EXCEPT !.state = state, !.topic = t]]
    /\ UNCHANGED <<now, memory, flush, task, running, disk, history>>

Purge(c) ==
    /\ cards[c].state = "purge" /\ ~Held
    /\ yolo' = [yolo EXCEPT ![cards[c].topic] = None]
    /\ SetCard(c, IF allow[cards[c].topic] THEN "allowed" ELSE "asking")
    /\ UNCHANGED <<now, map, chat, allow, flush, task, running, disk, history>>

\* ask_permission enters the card in pending_perms ...
Ask(c) ==
    /\ cards[c].state = "asking"
    /\ SetCard(c, "pending")
    /\ UNCHANGED <<now, memory, flush, task, running, disk, history>>

\* ... and takes it out when it cannot be sent or when PERMISSION_TIMEOUT passes;
\* handle_single_permission claims it for the answer of a tap.
Answer(c, state) ==
    /\ cards[c].state = "pending"
    /\ cards' = [cards EXCEPT ![c] = [@ EXCEPT !.state = state, !.tapped = (state = "allowed")]]
    /\ UNCHANGED <<now, memory, flush, task, running, disk, history>>

Tick ==
    /\ now < MaxNow /\ Event
    /\ now' = now + 1
    /\ UNCHANGED <<memory, flush, task, cards, running, disk, quiet>>

-----------------------------------------------------------------------------
(***************************************************************************)
(* restore_channel_state after a crash or a restart                        *)
(***************************************************************************)

\* channel_session_mappings: of the sessions linked to a topic, the one updated last.
Best(t) ==
    LET recent == saved[t].recent
    IN  recent[Max({i \in DOMAIN recent : recent[i] \in saved[t].linked})]

\* The snapshot first, then what the config of the best session says.
RestoredYolo(t, own, at) ==
    IF own # None /\ at - own < Ttl THEN [at |-> own, explicit |-> TRUE]
    ELSE IF snapshot.yolo[t] # None /\ at - snapshot.yolo[t].at < Ttl THEN snapshot.yolo[t]
    ELSE None

SeedsAny(grant) == grant # None

\* Only a grant that a user made counts.
Seeds(grant) == grant # None /\ grant.explicit

\* seed_missing_chat_counts
Seeded(row, grants) ==
    IF row = NoRow /\ \E t \in Topic : Seeds(grants[t]) THEN [NoRow EXCEPT !.count = 1] ELSE row

Restored(files, at) ==
    LET grants == [t \in Topic |-> RestoredYolo(t, files[t][Best(t)].yolo, at)] IN
    [yolo |-> grants, chat |-> Seeded(snapshot.chat, grants),
     allow |-> [t \in Topic |-> snapshot.allow[t] \/ files[t][Best(t)].allow]]

\* A config whose write was cut short reads as the default one.
Torn == {task[p].session : p \in {q \in Handler : task[q].pc = "store"}}
Surviving(torn) ==
    [t \in Topic |-> [s \in Session |-> IF <<t, s>> \in torn THEN NoConfig ELSE config[t][s]]]

\* A crash and the next start, at once or later; the initial flush may fail.
Restart ==
    /\ Event
    /\ now' \in now..MaxNow
    /\ \E torn \in SUBSET Torn : config' = Surviving(torn)
    /\ map' = [t \in Topic |-> Best(t)]
    /\ LET state == Restored(config', now') IN
       /\ yolo' = state.yolo /\ chat' = state.chat /\ allow' = state.allow
       /\ \/ snapshot' = state /\ unsaved' = unsaved \ {"snapshot"}
          \/ unsaved' = unsaved \cup {"snapshot"} /\ UNCHANGED snapshot
    /\ flush' = NoFlush /\ task' = [p \in Handler |-> Idle] /\ running' = [t \in Topic |-> {}]
    /\ cards' = [c \in Card |-> IF cards[c].state \in {"purge", "asking", "pending"}
                                THEN [cards[c] EXCEPT !.state = "lost"] ELSE cards[c]]
    /\ revoked' = {}
    /\ UNCHANGED <<saved, commands, enables, granted>>

Started(p, t) == Yolo(p, t) \/ Off(p, t) \/ New(p, t) \/ \E name \in {"add", "remove"} : Allow(p, t, name)
Enabling(p) == GrantTap(p) \/ Count(p) \/ Approve(p)
Clearing(p) == ClearTopics(p) \/ Deny(p) \/ LoadNext(p)
Renewing(p) == Set(p) \/ Disable(p) \/ Link(p)
Carding(c) == Purge(c) \/ Ask(c) \/ (\E s \in {"allowed", "denied"} : Answer(c, s))

Next ==
    \/ \E p \in Handler :
          \/ \E t \in Topic : Started(p, t)
          \/ \E c \in Card : TapYolo(p, c)
          \/ Enabling(p) \/ Clearing(p) \/ Renewing(p) \/ Load(p) \/ Store(p)
    \/ \E by \in Handler \cup {"timer"} : FlushBegin(by)
    \/ FlushCut \/ FlushWrite
    \/ \E t \in Topic : Research(t) \/ StartTurn(t) \/ \E s \in Session : EndTurn(t, s)
    \/ \E c \in Card : Carding(c) \/ \E t \in Topic : Request(c, t)
    \/ Tick
    \/ Restart
Spec == Init /\ [][Next]_vars

-----------------------------------------------------------------------------
(***************************************************************************)
(* Properties                                                              *)
(***************************************************************************)

Row == [count : 0..(enables + 1), permanent : BOOLEAN, last_call : {None} \cup Card]
Grants == [Topic -> {None} \cup [at : Time, explicit : BOOLEAN]]

\* Types; a topic has a session that is linked to it on disk.
TypeOK ==
    /\ now \in Time /\ map \in [Topic -> Session] /\ yolo \in Grants /\ chat \in Row
    /\ allow \in [Topic -> BOOLEAN]
    /\ snapshot \in [yolo : Grants, chat : Row, allow : [Topic -> BOOLEAN]]
    /\ config \in [Topic -> [Session -> [yolo : {None} \cup Time, allow : BOOLEAN]]]
    /\ \A t \in Topic :
          /\ IsInjective(saved[t].recent) /\ Range(saved[t].recent) = 1..Len(saved[t].recent)
          /\ saved[t].linked \subseteq Range(saved[t].recent) /\ 1 \in saved[t].linked
    /\ flush.by \in Handler \cup {"timer", None} /\ (flush.stage = "none") = (flush.by = None)
    /\ \A p \in Handler : task[p] = Idle \/ task[p].topic \in Topic
    /\ \A c \in Card : cards[c].state \in {"new", "purge", "asking", "pending", "allowed",
                                            "denied", "lost"}

\* The permanent, chat-wide approval is reached only by two explicit enables:
\* neither an automated grant, a card tapped twice, nor a restart that seeds
\* the count adds one that no user made.
PermanentIsEarned ==
    /\ chat.count <= enables /\ snapshot.chat.count <= enables
    /\ \A row \in {chat, snapshot.chat} : row.permanent <=> row.count >= PermanentAfter

\* A card that nobody tapped is allowed only where its topic was given an
\* approval at some time, by a user or by a research run, or the chat had its two
\* enables: a drain and a restart keep to the topic.
ApprovalHasConsent ==
    \A c \in Card :
        cards[c].state = "allowed" /\ ~cards[c].tapped =>
            cards[c].topic \in granted \/ enables >= PermanentAfter

\* What a /yolo off took back, with no enable beside it, is in force nowhere until
\* it is given again or the process restarts: neither the topic, the allow-list nor the chat
\* approves its calls, and no handler of an enable is about to.
OffHolds ==
    \A t \in revoked :
        /\ ~chat.permanent /\ ~Active(yolo[t]) /\ ~allow[t]
        /\ \A p \in Handler :
              task[p].command = "yolo" /\ task[p].pc \notin {"idle", "grant"} => ~Covers(p, t)

\* Nothing is approved that was never given, by a user or by the grant of a research run:
\* not for a card, not for a topic, not for the chat, and not by a restart; and what a user
\* took back stays so while the process lives.
ApprovalIsEarned == TypeOK /\ PermanentIsEarned /\ ApprovalHasConsent /\ OffHolds

\* The four parts of a snapshot are from one moment, though they are read one
\* after the other while commands change them.
CutIsReal ==
    [][Partial /\ flush'.stage = "cut" =>
          /\ flush'.cut.yolo = yolo' /\ flush'.cut.allow = allow'
          /\ flush'.cut.chat = [chat' EXCEPT !.last_call = None]]_vars

\* A permanent approval is on disk before the command that reached it is done,
\* unless the last flush failed; a slower, older flush never takes it back.
PermanentIsDurable ==
    chat.permanent /\ "snapshot" \notin unsaved =>
        \/ snapshot.chat.permanent
        \/ \E p \in Handler : task[p].permanent

\* is_yolo, "auto-removes expired temporary entries": a live grant goes only by
\* /yolo off and /new.
OnlyExpiredArePurged ==
    [][\A t \in Topic, c \in Card :
          cards[c].state = "purge" /\ cards[c].topic = t /\ cards'[c].state # "purge"
              /\ cards'[c].state # "lost" => ~Active(yolo[t])]_vars

\* /yolo off: what it clears is not revived by a restart.  When no handler is at
\* work and nothing failed to be written, memory is off and no card or command
\* turned it on, disk is off as well.
OffStaysOff ==
    /\ chat = NoRow /\ \A t \in Topic : ~Active(yolo[t])
    /\ unsaved = {} /\ flush = NoFlush /\ \A p \in Handler : task[p] = Idle
    /\ snapshot.chat = NoRow /\ \A t \in Topic : ~Active(snapshot.yolo[t])
    => \A t \in Topic : ~Active(Restored(config, now).yolo[t])

\* /new: a restart finds the session the topic talks to.
NewIsRemembered ==
    (\A p \in Handler : task[p] = Idle) => \A t \in Topic : Best(t) = map[t]

\* /allow rm: a tool that was removed is not allowed again by a restart.
RemovedStaysRemoved ==
    (\A p \in Handler : task[p] = Idle) =>
        \A t \in Topic : Restored(config, now).allow[t] => allow[t]

\* An enable leaves no card of its topic waiting.
EnableLeavesNoCard ==
    (\A p \in Handler : task[p] = Idle) =>
        \A c \in Card : cards[c].state = "pending" => ~Active(yolo[cards[c].topic])
=============================================================================
