------------------------------ MODULE Delivery ------------------------------
(***************************************************************************)
(* One live stream in Telegram while an operator moves it and mirrors it:  *)
(* the loop of stream_response (naked-tg/src/streaming_mod/pipeline.rs),   *)
(* the edits and the final of streaming_mod/flush.rs, /research move and   *)
(* /research show (commands/research.rs), the buttons under the bubbles    *)
(* (callbacks/stream.rs), and the registry between them: its operations    *)
(* are the actions of RunRegistry.  A step is what happens between two     *)
(* awaits; a message is what it shows and whether it has the buttons.  The *)
(* stream of a scheduled run is dropped at an await when the scheduler     *)
(* gives its attempt up (scheduler/tasks.rs).                              *)
(***************************************************************************)
EXTENDS RunRegistry, Sequences, FiniteSetsExt

CONSTANTS
    Home,        \* the chat and thread the stream was started in
    Plans,       \* the sequences of commands an operator may send
    Overlap,     \* whether a command may be sent before the bubble is there, or before the
                 \* last command has ended
    Neighbours,  \* the places another run may live in
    MaxFaults    \* bound on requests Telegram refuses

Command == [op : {"move", "show"}, from : ChatThreadKey]

\* Every message a plan can lead to has an id: the neighbour's, the placeholder, one a command.
ASSUME DeliveryAssumption ==
    /\ MaxGenerated > 0 /\ MaxFaults \in Nat
    /\ {1, 2} \subseteq Session /\ {1, 2} \subseteq RequestedId
    /\ None \notin Neighbours /\ None \notin MessageKey
    /\ Home \in ChatThreadKey /\ Neighbours \subseteq ChatThreadKey /\ Overlap \in BOOLEAN
    /\ \A p \in Plans : p \in Seq(Command) /\ 1..(Len(p) + 2) \subseteq MessageId

VARIABLES
    text,        \* message -> what it shows; a message that is not there has none
    buttons,     \* the messages with [Stop] and [Send]
    card,        \* CONTROL_CARDS: the message of the run's control card, or None
    docs,        \* chats that got the answer as a document
    pc, target, todo,      \* the stream: where it is, the bubble it read, messages left to write
    dropped,     \* whether the future of the stream was dropped where it is
    agent,       \* "runs", "idle" (Idle sent), "died" (channel closed without it)
    plan,        \* command -> what it is and where it is sent
    cmd,         \* command -> its step and its messages
    audience,    \* history: the mirrors there were when the loop ended
    faults

registry == vars
telegram == <<text, buttons, docs, faults>>
stream == <<pc, target, todo, dropped, audience>>
everything == <<registry, telegram, card, stream, agent, plan, cmd>>

Run == 1
Other == 2                    \* the run next door, with a bubble of its own
Live == Run \in DOMAIN by_run
Key(place, msg) == [chat |-> place.chat, msg |-> msg]

-----------------------------------------------------------------------------
(***************************************************************************)
(* What Telegram does                                                      *)
(***************************************************************************)

NextId(chat) == 1 + Cardinality({k \in DOMAIN text : k.chat = chat})

\* Message ids count up within a chat.
Post(place, what) == text' = Put(text, Key(place, NextId(place.chat)), what)

\* An edit of the text leaves the buttons alone; a message that is not there
\* refuses it, and any request may fail.
Edited(key, what) == key \in DOMAIN text /\ text' = [text EXCEPT ![key] = what]
Refused(key) == (key \notin DOMAIN text \/ faults > 0) /\ UNCHANGED text
Spent(key) == faults' = IF key \in DOMAIN text THEN faults - 1 ELSE faults

TryEdit(key, what) ==
    \/ Edited(key, what) /\ UNCHANGED faults
    \/ Refused(key) /\ Spent(key)

-----------------------------------------------------------------------------
(***************************************************************************)
(* The stream                                                              *)
(***************************************************************************)

NoCommand == [at |-> "ready", msg |-> None, old |-> {}]

\* With a neighbour, its bubble is the first message of its chat.
StreamInit ==
    \E next_door \in Neighbours \cup {None} :
        LET key == Key(next_door, 1)
            handle == [session |-> Other, origin |-> next_door, source |-> None, bubble |-> 1,
                       mirrors |-> {}, bound |-> {key}]
            Single(k, v) == IF next_door = None THEN EmptyMap ELSE Put(EmptyMap, k, v)
        IN
        /\ by_run = Single(Other, handle) /\ by_session = Single(Other, Other)
        /\ by_chat_thread = Single(next_door, {Other})
        /\ by_message = Single(key, Other)
        /\ text = Single(key, "other") /\ buttons = DOMAIN text
        /\ by_spec_id = EmptyMap /\ moved_messages = EmptyMap /\ next_generated = 0
        /\ card = None /\ docs = {}
        /\ pc = "start" /\ target = None /\ todo = {} /\ dropped = FALSE /\ agent = "runs"
        /\ plan \in Plans /\ cmd = [c \in DOMAIN plan |-> NoCommand]
        /\ audience = {}
        /\ faults = MaxFaults

\* A rejected start is told and drained; nothing else of it remains.
Register ==
    /\ pc = "start"
    /\ \/ RegisterRun(Run, Run, Home, None) /\ pc' = "placeholder"
       \/ RejectRun(Run, Home, None) /\ pc' = "over"
    /\ UNCHANGED <<telegram, card, target, todo, audience, agent, plan, cmd>>

PlaceholderSent ==
    /\ pc = "placeholder"
    /\ Post(Home, "live")
    /\ buttons' = buttons \cup {Key(Home, NextId(Home.chat))}
    /\ target' = Key(Home, NextId(Home.chat))
    /\ pc' = "bind"
    /\ UNCHANGED <<registry, docs, faults, card, todo, audience, agent, plan, cmd>>

KeepRun == UNCHANGED registry
ForgetRun == RemoveRun(Run)

\* After four attempts the run is taken out of the registry again.
PlaceholderFailed ==
    /\ pc = "placeholder" /\ faults > 0 /\ faults' = faults - 1
    /\ ForgetRun
    /\ pc' = "over"
    /\ UNCHANGED <<text, buttons, docs, card, target, todo, audience, agent, plan, cmd>>

\* bind_message and the control card; a refusal of the binding is ignored.
Bind ==
    /\ pc = "bind"
    /\ IF Bindable(Run, target) THEN BindMessage(Run, target) ELSE UNCHANGED registry
    /\ card' = target
    /\ pc' = "loop"
    /\ UNCHANGED <<telegram, target, todo, audience, agent, plan, cmd>>

BubbleUnread == target

\* primary_sink_or_fallback
Bubble == IF Live /\ by_run[Run].bubble # None THEN message_key(PrimarySink(Run)) ELSE target

Mirrors == IF Live THEN {message_key(s) : s \in by_run[Run].mirrors} ELSE {}

\* A tick with something to show reads the bubble, then waits for the limiter.
StartFlush ==
    /\ pc = "loop" /\ agent = "runs"
    /\ target' = Bubble
    /\ pc' = "flush"
    /\ UNCHANGED <<registry, telegram, card, todo, audience, agent, plan, cmd>>

FlushBubble ==
    /\ pc = "flush"
    /\ TryEdit(target, "live")
    /\ todo' = Mirrors
    /\ pc' = IF Mirrors = {} THEN "loop" ELSE "flush_mirrors"
    /\ UNCHANGED <<registry, buttons, docs, card, target, audience, agent, plan, cmd>>

FlushMirror(key) ==
    /\ pc = "flush_mirrors" /\ key \in todo
    /\ TryEdit(key, "live")
    /\ todo' = todo \ {key}
    /\ pc' = IF todo = {key} THEN "loop" ELSE pc
    /\ UNCHANGED <<registry, buttons, docs, card, target, audience, agent, plan, cmd>>

\* The turn ends by itself, by an abort, or with the task of the agent.
AgentEnds(how) ==
    /\ agent = "runs" /\ pc \in {"loop", "flush", "flush_mirrors"}
    /\ agent' = how
    /\ UNCHANGED <<registry, telegram, card, stream, plan, cmd>>

\* Idle or the closed channel ends the loop; the bubble is read once more.
StartFinal ==
    /\ pc = "loop" /\ agent # "runs"
    /\ target' = Bubble /\ audience' = Mirrors
    /\ pc' = "final"
    /\ UNCHANGED <<registry, telegram, card, todo, agent, plan, cmd>>

\* send_final: an edit that must be delivered; when it fails the answer goes
\* to the chat as a document.
SendFinal(key) ==
    \/ Edited(key, "final") /\ UNCHANGED <<docs, faults>>
    \/ Refused(key) /\ Spent(key) /\ docs' = docs \cup {key.chat}

\* A document that is refused as well is counted and given up.
SendFinalFails(key) ==
    /\ Refused(key) /\ UNCHANGED docs
    /\ faults > (IF key \in DOMAIN text THEN 1 ELSE 0)
    /\ faults' = faults - (IF key \in DOMAIN text THEN 2 ELSE 1)

FinalMirrorsNone == {}
FinalMirrors == Mirrors

FinalToBubble ==
    /\ pc = "final"
    /\ SendFinal(target) \/ SendFinalFails(target)
    /\ todo' = FinalMirrors
    /\ pc' = IF FinalMirrors = {} THEN "cleanup" ELSE "final_mirrors"
    /\ UNCHANGED <<registry, buttons, card, target, audience, agent, plan, cmd>>

FinalToMirror(key) ==
    /\ pc = "final_mirrors" /\ key \in todo
    /\ SendFinal(key) \/ SendFinalFails(key)
    /\ todo' = todo \ {key}
    /\ pc' = IF todo = {key} THEN "cleanup" ELSE pc
    /\ UNCHANGED <<registry, buttons, card, target, audience, agent, plan, cmd>>

CardKeyUnchecked == {card}
CardKey == {card} \ {None}

\* cleanup_stream_registries: the bound messages and the card, read once.
StartCleanup ==
    /\ pc = "cleanup"
    /\ todo' = (IF Live THEN by_run[Run].bound ELSE {}) \cup CardKey
    /\ card' = None
    /\ pc' = IF todo' = {} THEN "remove" ELSE "clear"
    /\ UNCHANGED <<registry, telegram, target, audience, agent, plan, cmd>>

ClearButtons(key) ==
    /\ pc = "clear" /\ key \in todo
    /\ \/ buttons' = buttons \ {key} /\ UNCHANGED faults
       \/ faults > 0 /\ faults' = faults - 1 /\ UNCHANGED buttons
    /\ todo' = todo \ {key}
    /\ pc' = IF todo = {key} THEN "remove" ELSE pc
    /\ UNCHANGED <<registry, text, docs, card, target, audience, agent, plan, cmd>>

Unregister ==
    /\ pc = "remove"
    /\ IF Live THEN ForgetRun ELSE UNCHANGED registry
    /\ pc' = "over"
    /\ UNCHANGED <<telegram, card, target, todo, audience, agent, plan, cmd>>

\* Both ways the scheduler gives an attempt up drop the stream at the await it is
\* in: the select that saw the cancellation and the abort of the task.  Nothing of
\* it runs any more, its cleanup included.
DropStream ==
    /\ ~dropped /\ pc \notin {"start", "over"}
    /\ dropped' = TRUE
    /\ UNCHANGED <<registry, telegram, card, pc, target, todo, audience, agent, plan, cmd>>

-----------------------------------------------------------------------------
(***************************************************************************)
(* The operator                                                            *)
(***************************************************************************)

Ended(c) == cmd[c].at = "done"
From(c) == plan[c].from
To(c, at) == cmd' = [cmd EXCEPT ![c].at = at]
Close(c) == cmd' = [cmd EXCEPT ![c] = [NoCommand EXCEPT !.at = "done"]]

\* The operator names the run: he has seen its bubble, or its id in a list.
May(c, op) ==
    /\ cmd[c].at = "ready" /\ plan[c].op = op /\ pc # "start"
    /\ \/ Overlap
       \/ pc \notin {"placeholder", "bind"} /\ \A d \in 1..(c - 1) : Ended(d)

\* move_live_run_here posts its bubble before it knows whether it may move.
MovePosts(c) ==
    /\ May(c, "move")
    /\ Post(From(c), "here")
    /\ cmd' = [cmd EXCEPT ![c] = [at |-> "posted", msg |-> Key(From(c), NextId(From(c).chat)),
                                  old |-> {}]]
    /\ UNCHANGED <<registry, buttons, docs, faults, card, stream, agent, plan>>

Movable(place) ==
    Live /\ (by_run[Run].origin = place \/ Cardinality(ThreadRuns(place)) < Cap)

MoveMoves(c) ==
    /\ cmd[c].at = "posted"
    /\ IF Movable(From(c))
       THEN /\ MoveRun(Run, From(c))
            /\ cmd' = [cmd EXCEPT ![c] = [@ EXCEPT !.at = "moved", !.old = OldBubble(Run)]]
       ELSE To(c, "refused") /\ UNCHANGED registry
    /\ UNCHANGED <<telegram, card, stream, agent, plan>>

MoveRefused(c) ==
    /\ cmd[c].at = "refused"
    /\ TryEdit(cmd[c].msg, "refused")
    /\ buttons' = buttons \ {cmd[c].msg}
    /\ Close(c)
    /\ UNCHANGED <<registry, docs, card, stream, agent, plan>>

\* Without the run, or when the message is taken, the bubble stays as it is.
MoveBinds(c) ==
    /\ cmd[c].at = "moved"
    /\ IF Bindable(Run, cmd[c].msg)
       THEN BindMessage(Run, cmd[c].msg) /\ card' = cmd[c].msg /\ To(c, "bound")
       ELSE UNCHANGED <<registry, card>> /\ To(c, "rehomed")
    /\ UNCHANGED <<telegram, stream, agent, plan>>

\* The buttons are attached after the binding; a failure is only logged.
MoveAttaches(c) ==
    /\ cmd[c].at = "bound"
    /\ \/ buttons' = buttons \cup {cmd[c].msg} /\ UNCHANGED faults
       \/ faults > 0 /\ faults' = faults - 1 /\ UNCHANGED buttons
    /\ To(c, "rehomed")
    /\ UNCHANGED <<registry, text, docs, card, stream, agent, plan>>

\* The frozen bubble, if there was one, says where the run went; then it loses
\* its buttons.
MoveFreezes(c) ==
    /\ cmd[c].at = "rehomed"
    /\ IF cmd[c].old = {}
       THEN UNCHANGED <<text, faults>> /\ Close(c)
       ELSE (\E key \in cmd[c].old : TryEdit(key, "moved")) /\ To(c, "frozen")
    /\ UNCHANGED <<registry, buttons, docs, card, stream, agent, plan>>

MoveClears(c) ==
    /\ cmd[c].at = "frozen"
    /\ buttons' = buttons \ cmd[c].old
    /\ Close(c)
    /\ UNCHANGED <<registry, text, docs, faults, card, stream, agent, plan>>

MoreMirrors == Cardinality(by_run[Run].mirrors) < MirrorCap

\* send_live_run_snapshot: what was last rendered, with buttons, then the sink.
ShowPosts(c) ==
    /\ May(c, "show")
    /\ IF Live /\ MoreMirrors
       THEN /\ Post(From(c), "live")
            /\ buttons' = buttons \cup {Key(From(c), NextId(From(c).chat))}
            /\ cmd' = [cmd EXCEPT ![c] = [at |-> "shown", msg |-> Key(From(c), NextId(From(c).chat)),
                                          old |-> {}]]
       ELSE Close(c) /\ UNCHANGED <<text, buttons>>
    /\ UNCHANGED <<registry, docs, faults, card, stream, agent, plan>>

ShowMirrors(c) ==
    /\ cmd[c].at = "shown"
    /\ LET sink == [chat |-> From(c).chat, thread |-> From(c).thread, msg |-> cmd[c].msg.msg]
       IN  IF Bindable(Run, cmd[c].msg) /\ MirrorRoom(Run, sink)
           THEN AddMirrorSink(Run, sink) /\ Close(c)
           ELSE UNCHANGED registry /\ To(c, "refused")
    /\ UNCHANGED <<telegram, card, stream, agent, plan>>

AbortsUnchecked(key) == Live

\* handle_stream_action: a superseded bubble only says where the run is; any
\* other button of the run aborts it while the run is registered.
Aborts(key) ==
    /\ Live
    /\ key \in DOMAIN moved_messages => moved_messages[key].run # Run

\* The card's buttons go at once; the agent answers with Idle.
TapStop(key) ==
    /\ key \in buttons /\ agent = "runs"
    /\ key \in DOMAIN by_message => by_message[key] = Run
    /\ Aborts(key)
    /\ agent' = "idle"
    /\ buttons' = buttons \ {card}
    /\ card' = None
    /\ UNCHANGED <<registry, text, docs, faults, stream, plan, cmd>>

-----------------------------------------------------------------------------
Polled == ~dropped /\ UNCHANGED dropped

StreamStep ==
    /\ Polled
    /\ \/ Register \/ PlaceholderSent \/ PlaceholderFailed \/ Bind
       \/ FlushBubble \/ StartFinal \/ FinalToBubble \/ StartCleanup \/ Unregister
       \/ \E key \in todo : FlushMirror(key) \/ FinalToMirror(key) \/ ClearButtons(key)

CommandStep(c) ==
    \/ MoveMoves(c) \/ MoveRefused(c) \/ MoveBinds(c) \/ MoveAttaches(c)
    \/ MoveFreezes(c) \/ MoveClears(c) \/ ShowMirrors(c)

StreamNext ==
    \/ StreamStep
    \/ Polled /\ StartFlush
    \/ DropStream
    \/ \E how \in {"idle", "died"} : AgentEnds(how)
    \/ \E c \in DOMAIN plan : MovePosts(c) \/ ShowPosts(c) \/ CommandStep(c)
    \/ \E key \in DOMAIN text : TapStop(key)

Fairness ==
    /\ WF_everything(StreamStep) /\ WF_everything(AgentEnds("idle"))
    /\ WF_everything(\E c \in DOMAIN plan : CommandStep(c))

StreamSpec == StreamInit /\ [][StreamNext]_everything /\ Fairness
-----------------------------------------------------------------------------
(***************************************************************************)
(* Properties                                                              *)
(***************************************************************************)

Shown == {"live", "here", "final", "moved", "refused", "other"}
Busy(c) == cmd[c].at \notin {"ready", "done"}
Moving == \E c \in DOMAIN plan : plan[c].op = "move" /\ Busy(c)

\* The registry keeps its types under these callers; messages, buttons and
\* the control card are messages Telegram has.
StreamTypeOK ==
    /\ TypeOK
    /\ DOMAIN text \subseteq MessageKey /\ \A key \in DOMAIN text : text[key] \in Shown
    /\ buttons \subseteq DOMAIN text /\ card \in DOMAIN text \cup {None}
    /\ docs \subseteq Chat /\ todo \subseteq DOMAIN text
    /\ target \in MessageKey \cup {None} /\ faults \in 0..MaxFaults

\* While a turn runs and no move is under way, the bubble the registry names
\* is a message of the run, has its buttons, and a tap on it aborts: no move,
\* there and back included, leaves a run that cannot be stopped from where it
\* is shown.  (One move at a time, sent once there is a bubble.)
ReachableStop ==
    (pc \in {"loop", "flush", "flush_mirrors"} /\ agent = "runs" /\ ~Moving /\ faults = MaxFaults)
        => Bubble \in buttons /\ by_message[Bubble] = Run /\ Aborts(Bubble)

\* Every mirror the run had when its loop ended shows the answer in the end,
\* or its chat got it as a document: nobody who watched a run is left with a
\* bubble that never finishes.
MirrorsGetFinal ==
    (pc = "over" /\ faults = MaxFaults) =>
        \A key \in audience : text[key] = "final" \/ key.chat \in docs

\* A bubble that says where the run went no longer aborts it, for as long as
\* its buttons are still there: the text and the registry's notice agree.
FrozenIsInert ==
    \A key \in buttons : text[key] = "moved" => ~Aborts(key)

\* A tap aborts the run where the run is shown and nowhere else: the bubble of the
\* registry can stop it and a frozen one cannot.
StopIsRight == StreamTypeOK /\ ReachableStop /\ FrozenIsInert

\* A run whose stream goes on to its end is removed from the registry, whichever way
\* that end comes; and every command of the operator comes to its end, the stream
\* dropped or not.  (RunsAreRemoved is this without the condition.)
EverythingEnds ==
    /\ <>[](dropped \/ (pc = "over" /\ ~Live))
    /\ \A c \in 1..2 : [](c \in DOMAIN plan /\ Busy(c) => <>Ended(c))
-----------------------------------------------------------------------------
(***************************************************************************)
(* What the comments and tests say and the code does not keep              *)
(***************************************************************************)

\* A stream writes to its own messages: between the move in the registry and
\* the binding of the new bubble, the old id names a message of the new chat.
OthersUntouched == \A key \in DOMAIN by_message : by_message[key] = Other => text[key] = "other"

\* No guard removes a run whose stream was dropped: it stays in RUN_REGISTRY, counted
\* against the limit of its thread, with a bubble that never finishes.
RunsAreRemoved == <>[]~Live

\* "Use for send_final where losing the message is unacceptable" (rate_limit):
\* a move that started before the answer was sent writes its notice over it.
AnswerStays ==
    (pc = "over" /\ agent # "runs" /\ faults = MaxFaults) =>
        docs # {} \/ \E key \in DOMAIN text : text[key] = "final"

\* "clear the [Stop] [Send now] inline keyboard from stream bubbles"
\* (cleanup_stream_registries): a bubble bound after the keys were read stays.
ButtonsGo ==
    (pc = "over" /\ faults = MaxFaults /\ \A c \in DOMAIN plan : ~Busy(c))
        => \A key \in buttons : text[key] = "other"

\* The notice under an older bubble says where the run is (moved_notice_text).
NoticeIsCurrent ==
    \A key \in DOMAIN moved_messages : Live => moved_messages[key].new_origin = by_run[Run].origin

\* A frozen bubble stays frozen: the flush that waited for the limiter does not know.
FrozenStays == [][\A key \in DOMAIN text : text[key] = "moved" => text'[key] = "moved"]_everything
=============================================================================
