---------------------------- MODULE RunRegistry -----------------------------
(***************************************************************************)
(* naked-tg/src/run_registry.rs: the in-memory index of live Telegram      *)
(* streams.  One mutex guards six maps; every public method is one step.   *)
(* A method that returns Err leaves the maps alone, so only its effect on  *)
(* the id generator, if any, is a step here.                               *)
(***************************************************************************)
EXTENDS Naturals, FiniteSets, Maps

CONSTANTS
    Chat, Thread,      \* chat_id and thread_id (None is one of the threads)
    MessageId,         \* message ids, unique only within a chat
    Session,           \* session ids
    SourceRef,         \* source references (research spec ids)
    RequestedId,       \* run ids that callers ask for
    None,              \* the absent Option
    Cap,               \* RegisterRunOptions::max_runs_per_thread
    MirrorCap,         \* MIRROR_SINK_CAP
    MaxGenerated       \* bound on next_generated

ASSUME RegistryAssumption ==
    /\ Cap \in Nat \ {0} /\ MirrorCap \in Nat /\ MaxGenerated \in Nat
    /\ None \notin MessageId /\ None \notin SourceRef /\ None \notin RequestedId

VARIABLES
    by_run,            \* RunId -> RunHandle
    by_chat_thread,    \* ChatThreadKey -> the runs of that thread
    by_spec_id,        \* SourceRef -> RunId
    by_message,        \* MessageKey -> RunId
    by_session,        \* SessionId -> RunId
    moved_messages,    \* MessageKey -> MovedRunNotice
    next_generated     \* counter of generate_run_id

vars == <<by_run, by_chat_thread, by_spec_id, by_message, by_session,
          moved_messages, next_generated>>

ChatThreadKey == [chat : Chat, thread : Thread]
MessageKey == [chat : Chat, msg : MessageId]
RunSink == [chat : Chat, thread : Thread, msg : MessageId]
RunId == RequestedId \cup (1..MaxGenerated)

RunHandle == [session : Session,
              origin  : ChatThreadKey,
              source  : SourceRef \cup {None},
              bubble  : MessageId \cup {None},
              mirrors : SUBSET RunSink,
              bound   : SUBSET MessageKey]

MovedRunNotice == [run : RunId, new_origin : ChatThreadKey]

message_key(sink) == [chat |-> sink.chat, msg |-> sink.msg]

\* list_for_thread and resolve_for_steer read this set; the Vec holds no run twice.
ThreadRuns(key) == Get(by_chat_thread, key, {})

RemoveFromThreadKeepsEmpty(threads, key, run) ==
    IF key \notin DOMAIN threads THEN threads ELSE [threads EXCEPT ![key] = @ \ {run}]

\* remove_run_id_from_thread: an emptied Vec is dropped from the map.
RemoveFromThread(threads, key, run) ==
    IF key \notin DOMAIN threads THEN threads
    ELSE IF threads[key] \subseteq {run} THEN Drop(threads, {key})
    ELSE [threads EXCEPT ![key] = @ \ {run}]

\* entry(key).or_default().push(run)
PushToThread(threads, key, run) == Put(threads, key, Get(threads, key, {}) \cup {run})

Init ==
    /\ by_run = EmptyMap
    /\ by_chat_thread = EmptyMap
    /\ by_spec_id = EmptyMap
    /\ by_message = EmptyMap
    /\ by_session = EmptyMap
    /\ moved_messages = EmptyMap
    /\ next_generated = 0

\* A requested id is used as it is, otherwise the counter moves to the next one.
ChosenId(requested) == IF requested = None THEN next_generated + 1 ELSE requested
CountedId(requested) == IF requested = None THEN next_generated + 1 ELSE next_generated

RegistrableSharedSession(run, session, origin, source) ==
    /\ run \notin DOMAIN by_run /\ source \notin DOMAIN by_spec_id
    /\ Cardinality(ThreadRuns(origin)) < Cap

RegistrableOffByOne(run, session, origin, source) ==
    /\ run \notin DOMAIN by_run /\ session \notin DOMAIN by_session
    /\ source \notin DOMAIN by_spec_id /\ Cardinality(ThreadRuns(origin)) <= Cap

\* The four checks of register_run, in its order; all must pass.
Registrable(run, session, origin, source) ==
    /\ run \notin DOMAIN by_run
    /\ session \notin DOMAIN by_session
    /\ source \notin DOMAIN by_spec_id
    /\ Cardinality(ThreadRuns(origin)) < Cap

RegisterRun(requested, session, origin, source) ==
    LET run == ChosenId(requested)
    IN  /\ Registrable(run, session, origin, source)
        /\ by_chat_thread' = PushToThread(by_chat_thread, origin, run)
        /\ by_spec_id' = IF source = None THEN by_spec_id ELSE Put(by_spec_id, source, run)
        /\ by_session' = Put(by_session, session, run)
        /\ by_run' = Put(by_run, run,
                         [session |-> session, origin |-> origin, source |-> source,
                          bubble |-> None, mirrors |-> {}, bound |-> {}])
        /\ next_generated' = CountedId(requested)
        /\ UNCHANGED <<by_message, moved_messages>>

\* A rejected registration has consumed its generated id.
RejectRun(session, origin, source) ==
    /\ ~Registrable(ChosenId(None), session, origin, source)
    /\ next_generated' = CountedId(None)
    /\ UNCHANGED <<by_run, by_chat_thread, by_spec_id, by_message, by_session, moved_messages>>

BindableUnchecked(run, key) == run \in DOMAIN by_run

\* Neither bind_message nor add_mirror_sink takes a message from another run.
Bindable(run, key) ==
    /\ run \in DOMAIN by_run
    /\ key \in DOMAIN by_message => by_message[key] = run

BindMessage(run, key) ==
    /\ Bindable(run, key)
    /\ by_run' = [by_run EXCEPT ![run].bubble = key.msg, ![run].bound = @ \cup {key}]
    /\ by_message' = Put(by_message, key, run)
    /\ UNCHANGED <<by_chat_thread, by_spec_id, by_session, moved_messages, next_generated>>

\* The bubble is named by the current origin's chat, wherever it was bound.
PrimarySink(run) ==
    [chat |-> by_run[run].origin.chat, thread |-> by_run[run].origin.thread,
     msg |-> by_run[run].bubble]

OldBubbleUnchecked(run) == {message_key(PrimarySink(run))}

\* The frozen bubble that a move leaves a notice on, if there is a bubble at all.
OldBubble(run) ==
    IF by_run[run].bubble = None THEN {} ELSE {message_key(PrimarySink(run))}

MoveRun(run, new_origin) ==
    /\ run \in DOMAIN by_run
    /\ LET old == by_run[run].origin
       IN  IF old = new_origin
           THEN UNCHANGED by_chat_thread
           ELSE /\ Cardinality(ThreadRuns(new_origin)) < Cap
                /\ by_chat_thread' =
                      PushToThread(RemoveFromThread(by_chat_thread, old, run), new_origin, run)
    /\ moved_messages' =
          [key \in DOMAIN moved_messages \cup OldBubble(run) |->
              IF key \in OldBubble(run) THEN [run |-> run, new_origin |-> new_origin]
              ELSE moved_messages[key]]
    /\ by_run' = [by_run EXCEPT ![run].origin = new_origin]
    /\ UNCHANGED <<by_spec_id, by_message, by_session, next_generated>>

\* The keys of a map, among a set, whose value names the run.
OwnKeys(map, keys, run) == {k \in DOMAIN map \cap keys : map[k] = run}
OwnNotices(keys, run) == {k \in DOMAIN moved_messages \cap keys : moved_messages[k].run = run}

RemoveRun(run) ==
    /\ run \in DOMAIN by_run
    /\ LET h == by_run[run]
       IN  /\ by_chat_thread' = RemoveFromThread(by_chat_thread, h.origin, run)
           /\ by_spec_id' = Drop(by_spec_id, OwnKeys(by_spec_id, {h.source}, run))
           /\ by_session' = Drop(by_session, OwnKeys(by_session, {h.session}, run))
           /\ by_message' = Drop(by_message, OwnKeys(by_message, h.bound, run))
           /\ moved_messages' = Drop(moved_messages, OwnNotices(h.bound, run))
    /\ by_run' = Drop(by_run, {run})
    /\ UNCHANGED next_generated

\* A full fan-out still accepts a sink it already has.
MirrorRoom(run, sink) ==
    \/ sink \in by_run[run].mirrors
    \/ Cardinality(by_run[run].mirrors) < MirrorCap

MirroredUnbound(handle, sink) == [handle EXCEPT !.mirrors = @ \cup {sink}]

Mirrored(handle, sink) ==
    [handle EXCEPT !.mirrors = @ \cup {sink}, !.bound = @ \cup {message_key(sink)}]

AddMirrorSink(run, sink) ==
    /\ Bindable(run, message_key(sink))
    /\ MirrorRoom(run, sink)
    /\ by_run' = [by_run EXCEPT ![run] = Mirrored(@, sink)]
    /\ by_message' = Put(by_message, message_key(sink), run)
    /\ UNCHANGED <<by_chat_thread, by_spec_id, by_session, moved_messages, next_generated>>

RemoveMirrorSink(run, key) ==
    /\ run \in DOMAIN by_run
    /\ by_run' = [by_run EXCEPT ![run].mirrors = {s \in @ : message_key(s) # key},
                                ![run].bound = @ \ {key}]
    /\ by_message' = Drop(by_message, OwnKeys(by_message, {key}, run))
    /\ moved_messages' = Drop(moved_messages, OwnNotices({key}, run))
    /\ UNCHANGED <<by_chat_thread, by_spec_id, by_session, next_generated>>

Next ==
    \/ \E requested \in RequestedId \cup {None}, session \in Session,
          origin \in ChatThreadKey, source \in SourceRef \cup {None} :
          /\ CountedId(requested) <= MaxGenerated
          /\ RegisterRun(requested, session, origin, source)
    \/ \E session \in Session, origin \in ChatThreadKey, source \in SourceRef \cup {None} :
          /\ CountedId(None) <= MaxGenerated
          /\ RejectRun(session, origin, source)
    \/ \E run \in DOMAIN by_run :
          \/ \E key \in MessageKey : BindMessage(run, key)
          \/ \E new_origin \in ChatThreadKey : MoveRun(run, new_origin)
          \/ RemoveRun(run)
          \/ \E sink \in RunSink : AddMirrorSink(run, sink)
          \/ \E key \in MessageKey : RemoveMirrorSink(run, key)

Spec == Init /\ [][Next]_vars

-----------------------------------------------------------------------------
(***************************************************************************)
(* Properties                                                              *)
(***************************************************************************)

\* Every map holds what its Rust type says.
TypeOK ==
    /\ by_run \in [DOMAIN by_run -> RunHandle] /\ DOMAIN by_run \subseteq RunId
    /\ by_chat_thread \in [DOMAIN by_chat_thread -> SUBSET RunId]
    /\ DOMAIN by_chat_thread \subseteq ChatThreadKey
    /\ by_spec_id \in [DOMAIN by_spec_id -> RunId] /\ DOMAIN by_spec_id \subseteq SourceRef
    /\ by_message \in [DOMAIN by_message -> RunId] /\ DOMAIN by_message \subseteq MessageKey
    /\ by_session \in [DOMAIN by_session -> RunId] /\ DOMAIN by_session \subseteq Session
    /\ moved_messages \in [DOMAIN moved_messages -> MovedRunNotice]
    /\ DOMAIN moved_messages \subseteq MessageKey
    /\ next_generated \in 0..MaxGenerated

\* list_for_thread and resolve_for_steer find a run under its origin and under
\* no other thread, through any number of moves, and an emptied thread leaves
\* no entry behind.
ThreadIndex ==
    /\ \A key \in ChatThreadKey, run \in RunId :
          run \in ThreadRuns(key) <=> run \in DOMAIN by_run /\ by_run[run].origin = key
    /\ \A key \in DOMAIN by_chat_thread : by_chat_thread[key] # {}

\* by_session and by_spec_id name exactly the live runs of a session or a
\* source: a finished run never blocks the next one of its session or spec
\* (the duplicate checks of register_run read these maps).
OwnerIndex ==
    /\ \A session \in Session, run \in RunId :
          (session \in DOMAIN by_session /\ by_session[session] = run)
             <=> (run \in DOMAIN by_run /\ by_run[run].session = session)
    /\ \A source \in SourceRef, run \in RunId :
          (source \in DOMAIN by_spec_id /\ by_spec_id[source] = run)
             <=> (run \in DOMAIN by_run /\ by_run[run].source = source)

\* A button under a message resolves to a run exactly while that run is live
\* and has the message bound (resolve_message), mirrors included.
MessageIndex ==
    /\ \A key \in MessageKey, run \in RunId :
          (key \in DOMAIN by_message /\ by_message[key] = run)
             <=> (run \in DOMAIN by_run /\ key \in by_run[run].bound)
    /\ \A run \in DOMAIN by_run : \A sink \in by_run[run].mirrors :
          message_key(sink) \in by_run[run].bound

\* Whatever calls were made in whatever order, the registry is in one piece: the
\* types and all four secondary indexes agree with by_run.
IndexesMatch == TypeOK /\ ThreadIndex /\ OwnerIndex /\ MessageIndex

\* Neither registering nor moving overfills a thread, and no run fans out to
\* more than MirrorCap mirrors.
Capacity ==
    /\ \A key \in ChatThreadKey : Cardinality(ThreadRuns(key)) <= Cap
    /\ \A run \in DOMAIN by_run : Cardinality(by_run[run].mirrors) <= MirrorCap

\* No step hands a message from one run straight to another one: the buttons
\* under a bubble never change the run they control.
MessageNeverStolen ==
    [][\A key \in DOMAIN by_message \cap DOMAIN by_message' :
          by_message'[key] = by_message[key]]_vars

\* What the test run_registry_remove_run_clears_all_indexes_transactionally
\* says of remove_run, for the index of frozen bubbles: no notice outlives
\* the run it is about.
NoticeOfLiveRun ==
    \A key \in DOMAIN moved_messages : moved_messages[key].run \in DOMAIN by_run
-----------------------------------------------------------------------------
(***************************************************************************)
(* The promise: forget the five indexes and keep the handles.              *)
(***************************************************************************)

LiveHandle(h) == [session |-> h.session, source |-> h.source,
                  origin |-> h.origin, keys |-> h.bound]

live == [run \in DOMAIN by_run |-> LiveHandle(by_run[run])]

Promise == INSTANCE LiveRuns WITH
    Source <- SourceRef, NoSource <- None, Thread <- ChatThreadKey, Key <- MessageKey

\* The registry behaves as one set of live runs: every registration, binding,
\* move and removal is decided by the indexes as that set would decide it, so
\* no stale entry refuses a run, admits a duplicate or gives a message away.
ImplementsLiveRuns == Promise!Spec
=============================================================================
