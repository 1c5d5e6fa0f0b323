------------------------- MODULE RunRegistryProofs --------------------------
(***************************************************************************)
(* The index invariants of RunRegistry, for every set of chats, sessions   *)
(* and ids and every cap; and, from them, what Delivery promises of the    *)
(* stream, the operator and the mirrors that call the registry.            *)
(***************************************************************************)
EXTENDS Delivery, FiniteSetTheorems, TLAPS

\* Cardinality means something only for finite sets.
FiniteParts ==
    /\ \A key \in ChatThreadKey : IsFiniteSet(ThreadRuns(key))
    /\ \A run \in DOMAIN by_run : IsFiniteSet(by_run[run].mirrors)

IInv == TypeOK /\ ThreadIndex /\ OwnerIndex /\ MessageIndex /\ FiniteParts /\ Capacity

LEMMA AddBelowCap ==
    ASSUME NEW S, NEW x, NEW cap \in Nat, IsFiniteSet(S), Cardinality(S) < cap
    PROVE  IsFiniteSet(S \cup {x}) /\ Cardinality(S \cup {x}) <= cap
<1>1. Cardinality(S) \in Nat
    BY FS_CardinalityType
<1>2. /\ IsFiniteSet(S \cup {x})
      /\ Cardinality(S \cup {x}) = IF x \in S THEN Cardinality(S) ELSE Cardinality(S) + 1
    BY FS_AddElement
<1> QED
    BY <1>1, <1>2

LEMMA RemoveBelowCap ==
    ASSUME NEW S, NEW T, T \subseteq S, NEW cap \in Nat, IsFiniteSet(S), Cardinality(S) <= cap
    PROVE  IsFiniteSet(T) /\ Cardinality(T) <= cap
<1>1. IsFiniteSet(T) /\ Cardinality(T) <= Cardinality(S)
    BY FS_Subset
<1> QED
    BY <1>1, FS_CardinalityType

LEMMA InitInv == Init => IInv
<1> SUFFICES ASSUME Init PROVE IInv
    OBVIOUS
<1> USE DEF Init, EmptyMap
<1>1. TypeOK
    BY RegistryAssumption DEF TypeOK
<1>2. \A key \in ChatThreadKey : ThreadRuns(key) = {}
    BY DEF ThreadRuns, Get
<1>3. ThreadIndex
    BY <1>2 DEF ThreadIndex
<1>4. OwnerIndex /\ MessageIndex
    BY DEF OwnerIndex, MessageIndex
<1>5. FiniteParts
    BY <1>2, FS_EmptySet DEF FiniteParts
<1>6. Capacity
    <2>1. Cardinality({}) <= Cap
        BY FS_EmptySet, RegistryAssumption
    <2> QED
        BY <1>2, <2>1 DEF Capacity
<1> QED
    BY <1>1, <1>3, <1>4, <1>5, <1>6 DEF IInv

LEMMA RegisterStep ==
    ASSUME IInv, NEW requested \in RequestedId \cup {None}, NEW session \in Session,
           NEW origin \in ChatThreadKey, NEW source \in SourceRef \cup {None},
           CountedId(requested) <= MaxGenerated,
           RegisterRun(requested, session, origin, source)
    PROVE  IInv'
<1> DEFINE run == ChosenId(requested)
           handle == [session |-> session, origin |-> origin, source |-> source,
                      bubble |-> None, mirrors |-> {}, bound |-> {}]
<1>0. /\ run \in RunId /\ CountedId(requested) \in 0..MaxGenerated
      /\ handle \in RunHandle
    BY RegistryAssumption DEF ChosenId, CountedId, RunId, IInv, TypeOK, RunHandle
<1>1. /\ run \notin DOMAIN by_run /\ session \notin DOMAIN by_session
      /\ source \notin DOMAIN by_spec_id /\ Cardinality(ThreadRuns(origin)) < Cap
      /\ by_chat_thread' = PushToThread(by_chat_thread, origin, run)
      /\ by_spec_id' = IF source = None THEN by_spec_id ELSE Put(by_spec_id, source, run)
      /\ by_session' = Put(by_session, session, run)
      /\ by_run' = Put(by_run, run, handle)
      /\ next_generated' = CountedId(requested)
      /\ by_message' = by_message /\ moved_messages' = moved_messages
    BY DEF RegisterRun, Registrable
<1> HIDE DEF run, handle
<1>2. TypeOK'
    <2>1. by_run' \in [DOMAIN by_run' -> RunHandle] /\ DOMAIN by_run' \subseteq RunId
        BY <1>0, <1>1 DEF IInv, TypeOK, Put
    <2>2. /\ by_chat_thread' \in [DOMAIN by_chat_thread' -> SUBSET RunId]
          /\ DOMAIN by_chat_thread' \subseteq ChatThreadKey
        BY <1>0, <1>1 DEF IInv, TypeOK, Put, PushToThread, Get
    <2>3. by_spec_id' \in [DOMAIN by_spec_id' -> RunId] /\ DOMAIN by_spec_id' \subseteq SourceRef
        BY <1>0, <1>1 DEF IInv, TypeOK, Put
    <2>4. by_session' \in [DOMAIN by_session' -> RunId] /\ DOMAIN by_session' \subseteq Session
        BY <1>0, <1>1 DEF IInv, TypeOK, Put
    <2> QED
        BY <1>0, <1>1, <2>1, <2>2, <2>3, <2>4 DEF IInv, TypeOK, MovedRunNotice
<1>3. \A key \in ChatThreadKey :
         ThreadRuns(key)' = IF key = origin THEN ThreadRuns(key) \cup {run} ELSE ThreadRuns(key)
    BY <1>1 DEF PushToThread, Put, Get, ThreadRuns
<1>4. ThreadIndex'
    <2>1. \A key \in DOMAIN by_chat_thread' : by_chat_thread'[key] # {}
        BY <1>1 DEF PushToThread, Put, Get, IInv, ThreadIndex
    <2> QED
        BY <1>0, <1>1, <1>3, <2>1 DEF IInv, ThreadIndex, Put, handle
<1>5. OwnerIndex'
    <2>1. \A r \in RunId, s \in Session :
             (s \in DOMAIN by_session' /\ by_session'[s] = r)
                <=> (r \in DOMAIN by_run' /\ by_run'[r].session = s)
        BY <1>0, <1>1 DEF IInv, TypeOK, OwnerIndex, Put, handle
    <2>2. \A r \in RunId, s \in SourceRef :
             (s \in DOMAIN by_spec_id' /\ by_spec_id'[s] = r)
                <=> (r \in DOMAIN by_run' /\ by_run'[r].source = s)
        BY <1>0, <1>1, RegistryAssumption DEF IInv, TypeOK, OwnerIndex, Put, handle
    <2> QED
        BY <2>1, <2>2 DEF OwnerIndex
<1>6. MessageIndex'
    BY <1>0, <1>1 DEF IInv, TypeOK, MessageIndex, Put, handle
<1>7. FiniteParts' /\ Capacity'
    <2>1. \A key \in ChatThreadKey : IsFiniteSet(ThreadRuns(key)') /\ Cardinality(ThreadRuns(key)') <= Cap
        <3> SUFFICES ASSUME NEW key \in ChatThreadKey
                     PROVE  IsFiniteSet(ThreadRuns(key)') /\ Cardinality(ThreadRuns(key)') <= Cap
            OBVIOUS
        <3>1. IsFiniteSet(ThreadRuns(key)) /\ Cardinality(ThreadRuns(key)) <= Cap
            BY DEF IInv, FiniteParts, Capacity
        <3>2. CASE key # origin
            BY <1>3, <3>1, <3>2
        <3>3. CASE key = origin
            <4>1. Cap \in Nat /\ Cardinality(ThreadRuns(key)) < Cap
                BY <1>1, <3>3, RegistryAssumption
            <4>2. /\ IsFiniteSet(ThreadRuns(key) \cup {run})
                  /\ Cardinality(ThreadRuns(key) \cup {run}) <= Cap
                BY <3>1, <4>1, AddBelowCap
            <4> QED
                BY <1>3, <3>3, <4>2
        <3> QED
            BY <3>2, <3>3
    <2>2. \A r \in DOMAIN by_run' :
             IsFiniteSet(by_run'[r].mirrors) /\ Cardinality(by_run'[r].mirrors) <= MirrorCap
        <3>1. IsFiniteSet({}) /\ Cardinality({}) <= MirrorCap
            BY FS_EmptySet, RegistryAssumption
        <3> QED
            BY <1>1, <3>1 DEF IInv, FiniteParts, Capacity, Put, handle
    <2> QED
        BY <2>1, <2>2 DEF FiniteParts, Capacity
<1> QED
    BY <1>2, <1>4, <1>5, <1>6, <1>7 DEF IInv

LEMMA RejectStep ==
    ASSUME IInv, NEW session \in Session, NEW origin \in ChatThreadKey,
           NEW source \in SourceRef \cup {None}, CountedId(None) <= MaxGenerated,
           RejectRun(session, origin, source)
    PROVE  IInv'
<1>1. next_generated' \in 0..MaxGenerated
    BY RegistryAssumption DEF RejectRun, CountedId, IInv, TypeOK
<1> QED
    BY <1>1 DEF RejectRun, IInv, TypeOK, ThreadIndex, OwnerIndex, MessageIndex,
                FiniteParts, Capacity, ThreadRuns, Get

LEMMA BindStep ==
    ASSUME IInv, NEW run \in DOMAIN by_run, NEW key \in MessageKey, BindMessage(run, key)
    PROVE  IInv'
<1> USE DEF BindMessage
<1>0. /\ run \in RunId /\ key.msg \in MessageId
      /\ by_run[run] \in RunHandle
    BY DEF IInv, TypeOK, MessageKey
<1>1. TypeOK'
    <2>1. by_run' \in [DOMAIN by_run' -> RunHandle] /\ DOMAIN by_run' = DOMAIN by_run
        BY <1>0 DEF IInv, TypeOK, RunHandle
    <2>2. by_message' \in [DOMAIN by_message' -> RunId] /\ DOMAIN by_message' \subseteq MessageKey
        BY <1>0 DEF IInv, TypeOK, Put
    <2> QED
        BY <2>1, <2>2 DEF IInv, TypeOK
<1>2. ThreadIndex' /\ OwnerIndex'
    BY <1>0 DEF IInv, TypeOK, ThreadIndex, OwnerIndex, ThreadRuns, Get, RunHandle
<1>3. MessageIndex'
    <2>1. \A k \in MessageKey, r \in RunId :
             (k \in DOMAIN by_message' /\ by_message'[k] = r)
                <=> (r \in DOMAIN by_run' /\ k \in by_run'[r].bound)
        BY <1>0 DEF Bindable, IInv, TypeOK, MessageIndex, Put, RunHandle
    <2>2. \A r \in DOMAIN by_run' : \A sink \in by_run'[r].mirrors :
             message_key(sink) \in by_run'[r].bound
        BY <1>0 DEF IInv, TypeOK, MessageIndex, RunHandle
    <2> QED
        BY <2>1, <2>2 DEF MessageIndex
<1>4. FiniteParts' /\ Capacity'
    BY <1>0 DEF IInv, TypeOK, FiniteParts, Capacity, ThreadRuns, Get, RunHandle
<1> QED
    BY <1>1, <1>2, <1>3, <1>4 DEF IInv

LEMMA MirrorStep ==
    ASSUME IInv, NEW run \in DOMAIN by_run, NEW sink \in RunSink, AddMirrorSink(run, sink)
    PROVE  IInv'
<1> USE DEF AddMirrorSink, Mirrored
<1>0. /\ run \in RunId /\ message_key(sink) \in MessageKey
      /\ by_run[run] \in RunHandle
    BY DEF IInv, TypeOK, MessageKey, message_key, RunSink
<1>1. TypeOK'
    <2>1. by_run' \in [DOMAIN by_run' -> RunHandle] /\ DOMAIN by_run' = DOMAIN by_run
        BY <1>0 DEF IInv, TypeOK, RunHandle
    <2>2. by_message' \in [DOMAIN by_message' -> RunId] /\ DOMAIN by_message' \subseteq MessageKey
        BY <1>0 DEF IInv, TypeOK, Put
    <2> QED
        BY <2>1, <2>2 DEF IInv, TypeOK
<1>2. ThreadIndex' /\ OwnerIndex'
    BY <1>0 DEF IInv, TypeOK, ThreadIndex, OwnerIndex, ThreadRuns, Get, RunHandle
<1>3. MessageIndex'
    <2>1. \A k \in MessageKey, r \in RunId :
             (k \in DOMAIN by_message' /\ by_message'[k] = r)
                <=> (r \in DOMAIN by_run' /\ k \in by_run'[r].bound)
        BY <1>0 DEF Bindable, IInv, TypeOK, MessageIndex, Put, RunHandle
    <2>2. \A r \in DOMAIN by_run' : \A s \in by_run'[r].mirrors :
             message_key(s) \in by_run'[r].bound
        BY <1>0 DEF IInv, TypeOK, MessageIndex, RunHandle
    <2> QED
        BY <2>1, <2>2 DEF MessageIndex
<1>4. /\ IsFiniteSet(by_run[run].mirrors \cup {sink})
      /\ Cardinality(by_run[run].mirrors \cup {sink}) <= MirrorCap
    <2>1. IsFiniteSet(by_run[run].mirrors) /\ Cardinality(by_run[run].mirrors) <= MirrorCap
        BY DEF IInv, FiniteParts, Capacity
    <2>2. CASE sink \in by_run[run].mirrors
        <3>1. by_run[run].mirrors \cup {sink} = by_run[run].mirrors
            BY <2>2
        <3> QED
            BY <2>1, <3>1
    <2>3. CASE Cardinality(by_run[run].mirrors) < MirrorCap
        BY <2>1, <2>3, AddBelowCap, RegistryAssumption
    <2> QED
        BY <2>2, <2>3 DEF MirrorRoom
<1>5. FiniteParts' /\ Capacity'
    BY <1>0, <1>4 DEF IInv, TypeOK, FiniteParts, Capacity, ThreadRuns, Get, RunHandle
<1> QED
    BY <1>1, <1>2, <1>3, <1>5 DEF IInv

LEMMA UnmirrorStep ==
    ASSUME IInv, NEW run \in DOMAIN by_run, NEW key \in MessageKey, RemoveMirrorSink(run, key)
    PROVE  IInv'
<1> DEFINE kept == {s \in by_run[run].mirrors : message_key(s) # key}
<1>0. /\ run \in RunId /\ by_run[run] \in RunHandle
      /\ by_run' = [by_run EXCEPT ![run].mirrors = kept, ![run].bound = @ \ {key}]
    BY DEF IInv, TypeOK, RemoveMirrorSink
<1>1. /\ by_message' = [k \in DOMAIN by_message \ OwnKeys(by_message, {key}, run) |-> by_message[k]]
      /\ moved_messages' = [k \in DOMAIN moved_messages \ OwnNotices({key}, run) |-> moved_messages[k]]
    BY DEF RemoveMirrorSink, Drop, Restrict
<1>7. /\ by_chat_thread' = by_chat_thread /\ by_spec_id' = by_spec_id
      /\ by_session' = by_session /\ next_generated' = next_generated
    BY DEF RemoveMirrorSink
<1>2. TypeOK'
    <2>1. by_run' \in [DOMAIN by_run' -> RunHandle] /\ DOMAIN by_run' = DOMAIN by_run
        BY <1>0 DEF IInv, TypeOK, RunHandle
    <2> QED
        BY <1>1, <1>7, <2>1 DEF IInv, TypeOK
<1>3. /\ DOMAIN by_run' = DOMAIN by_run
      /\ \A r \in DOMAIN by_run : /\ by_run'[r].session = by_run[r].session
                                  /\ by_run'[r].origin = by_run[r].origin
                                  /\ by_run'[r].source = by_run[r].source
    BY <1>0 DEF IInv, TypeOK, RunHandle
<1>8. \A r \in DOMAIN by_run :
         IF r = run THEN by_run'[r].bound = by_run[r].bound \ {key} /\ by_run'[r].mirrors = kept
         ELSE by_run'[r] = by_run[r]
    BY <1>0 DEF IInv, TypeOK, RunHandle
<1> HIDE DEF kept
<1>4. ThreadIndex' /\ OwnerIndex' /\ MessageIndex'
    <2>1. ThreadIndex' /\ OwnerIndex'
        BY <1>3, <1>7 DEF IInv, ThreadIndex, OwnerIndex, ThreadRuns, Get
    <2>2. \A k \in MessageKey, r \in RunId :
             (k \in DOMAIN by_message' /\ by_message'[k] = r)
                <=> (r \in DOMAIN by_run' /\ k \in by_run'[r].bound)
        BY <1>0, <1>1, <1>3, <1>8 DEF IInv, TypeOK, MessageIndex, OwnKeys
    <2>3. \A r \in DOMAIN by_run' : \A s \in by_run'[r].mirrors :
             message_key(s) \in by_run'[r].bound
        BY <1>3, <1>8 DEF IInv, MessageIndex, kept
    <2> QED
        BY <2>1, <2>2, <2>3 DEF MessageIndex
<1>5. IsFiniteSet(kept) /\ Cardinality(kept) <= MirrorCap
    <2>1. kept \subseteq by_run[run].mirrors
        BY DEF kept
    <2>2. IsFiniteSet(by_run[run].mirrors) /\ Cardinality(by_run[run].mirrors) <= MirrorCap
        BY DEF IInv, FiniteParts, Capacity
    <2> QED
        BY <2>1, <2>2, RemoveBelowCap, RegistryAssumption
<1>6. FiniteParts' /\ Capacity'
    BY <1>3, <1>5, <1>7, <1>8 DEF IInv, FiniteParts, Capacity, ThreadRuns, Get, RunHandle
<1> QED
    BY <1>2, <1>4, <1>6 DEF IInv

\* What remove_run_id_from_thread does to every thread of the index.
LEMMA RemovedFromThread ==
    ASSUME IInv, NEW run \in DOMAIN by_run,
           NEW threads, threads = RemoveFromThread(by_chat_thread, by_run[run].origin, run)
    PROVE  /\ threads \in [DOMAIN threads -> SUBSET RunId]
           /\ DOMAIN threads \subseteq ChatThreadKey
           /\ \A key \in DOMAIN threads : threads[key] # {}
           /\ \A key \in ChatThreadKey : Get(threads, key, {}) = ThreadRuns(key) \ {run}
<1> DEFINE key0 == by_run[run].origin
<1>0. run \in RunId /\ key0 \in ChatThreadKey
    BY DEF IInv, TypeOK, RunHandle
<1>1. key0 \in DOMAIN by_chat_thread /\ run \in by_chat_thread[key0]
    BY <1>0 DEF IInv, ThreadIndex, ThreadRuns, Get
<1>2. \A key \in ChatThreadKey : key # key0 => run \notin ThreadRuns(key)
    BY <1>0 DEF IInv, ThreadIndex
<1> HIDE DEF key0
<1>3. CASE by_chat_thread[key0] \subseteq {run}
    <2>1. threads = [k \in DOMAIN by_chat_thread \ {key0} |-> by_chat_thread[k]]
        BY <1>1, <1>3 DEF RemoveFromThread, Drop, Restrict, key0
    <2> QED
        BY <1>1, <1>2, <1>3, <2>1 DEF IInv, TypeOK, ThreadIndex, ThreadRuns, Get
<1>4. CASE ~(by_chat_thread[key0] \subseteq {run})
    <2>1. threads = [by_chat_thread EXCEPT ![key0] = @ \ {run}]
        BY <1>1, <1>4 DEF RemoveFromThread, key0
    <2> QED
        BY <1>1, <1>2, <1>4, <2>1 DEF IInv, TypeOK, ThreadIndex, ThreadRuns, Get
<1> QED
    BY <1>3, <1>4

LEMMA RemoveStep ==
    ASSUME IInv, NEW run \in DOMAIN by_run, RemoveRun(run)
    PROVE  IInv'
<1> DEFINE h == by_run[run]
<1>0. run \in RunId /\ h \in RunHandle
    BY DEF IInv, TypeOK
<1>1. /\ by_run' = [r \in DOMAIN by_run \ {run} |-> by_run[r]]
      /\ by_chat_thread' = RemoveFromThread(by_chat_thread, h.origin, run)
      /\ next_generated' = next_generated
    BY DEF RemoveRun, Drop, Restrict
<1>2. /\ by_spec_id' = [k \in DOMAIN by_spec_id \ OwnKeys(by_spec_id, {h.source}, run) |-> by_spec_id[k]]
      /\ by_session' = [k \in DOMAIN by_session \ OwnKeys(by_session, {h.session}, run) |-> by_session[k]]
      /\ by_message' = [k \in DOMAIN by_message \ OwnKeys(by_message, h.bound, run) |-> by_message[k]]
      /\ moved_messages' = [k \in DOMAIN moved_messages \ OwnNotices(h.bound, run) |-> moved_messages[k]]
    BY DEF RemoveRun, Drop, Restrict
<1>3. /\ by_chat_thread' \in [DOMAIN by_chat_thread' -> SUBSET RunId]
      /\ DOMAIN by_chat_thread' \subseteq ChatThreadKey
      /\ \A key \in DOMAIN by_chat_thread' : by_chat_thread'[key] # {}
      /\ \A key \in ChatThreadKey : ThreadRuns(key)' = ThreadRuns(key) \ {run}
    BY <1>1, RemovedFromThread DEF ThreadRuns
<1>4. TypeOK'
    <2>1. by_run' \in [DOMAIN by_run' -> RunHandle] /\ DOMAIN by_run' \subseteq RunId
        BY <1>1 DEF IInv, TypeOK
    <2> QED
        BY <1>1, <1>2, <1>3, <2>1 DEF IInv, TypeOK
<1>5. ThreadIndex'
    BY <1>1, <1>3 DEF IInv, ThreadIndex
<1>6. OwnerIndex'
    <2>1. \A s \in Session, r \in RunId :
             (s \in DOMAIN by_session' /\ by_session'[s] = r)
                <=> (r \in DOMAIN by_run' /\ by_run'[r].session = s)
        BY <1>0, <1>1, <1>2 DEF IInv, OwnerIndex, OwnKeys
    <2>2. \A s \in SourceRef, r \in RunId :
             (s \in DOMAIN by_spec_id' /\ by_spec_id'[s] = r)
                <=> (r \in DOMAIN by_run' /\ by_run'[r].source = s)
        BY <1>0, <1>1, <1>2 DEF IInv, OwnerIndex, OwnKeys
    <2> QED
        BY <2>1, <2>2 DEF OwnerIndex
<1>7. MessageIndex'
    BY <1>0, <1>1, <1>2 DEF IInv, MessageIndex, OwnKeys
<1>8. FiniteParts' /\ Capacity'
    <2>1. \A key \in ChatThreadKey :
             IsFiniteSet(ThreadRuns(key)') /\ Cardinality(ThreadRuns(key)') <= Cap
        <3> SUFFICES ASSUME NEW key \in ChatThreadKey
                     PROVE  IsFiniteSet(ThreadRuns(key)') /\ Cardinality(ThreadRuns(key)') <= Cap
            OBVIOUS
        <3>1. IsFiniteSet(ThreadRuns(key)) /\ Cardinality(ThreadRuns(key)) <= Cap
            BY DEF IInv, FiniteParts, Capacity
        <3>2. /\ IsFiniteSet(ThreadRuns(key) \ {run})
              /\ Cardinality(ThreadRuns(key) \ {run}) <= Cap
            BY <3>1, RemoveBelowCap, RegistryAssumption
        <3> QED
            BY <1>3, <3>2
    <2>2. \A r \in DOMAIN by_run' :
             IsFiniteSet(by_run'[r].mirrors) /\ Cardinality(by_run'[r].mirrors) <= MirrorCap
        BY <1>1 DEF IInv, FiniteParts, Capacity
    <2> QED
        BY <2>1, <2>2 DEF FiniteParts, Capacity
<1> QED
    BY <1>4, <1>5, <1>6, <1>7, <1>8 DEF IInv

LEMMA MoveStep ==
    ASSUME IInv, NEW run \in DOMAIN by_run, NEW new_origin \in ChatThreadKey,
           MoveRun(run, new_origin)
    PROVE  IInv'
<1> DEFINE old == by_run[run].origin
           left == RemoveFromThread(by_chat_thread, old, run)
<1>0. run \in RunId /\ by_run[run] \in RunHandle /\ old \in ChatThreadKey
    BY DEF IInv, TypeOK, RunHandle
<1>1. /\ by_run' = [by_run EXCEPT ![run].origin = new_origin]
      /\ by_spec_id' = by_spec_id /\ by_message' = by_message
      /\ by_session' = by_session /\ next_generated' = next_generated
    BY DEF MoveRun
<1>2. /\ by_run' \in [DOMAIN by_run -> RunHandle]
      /\ by_run'[run].origin = new_origin
      /\ \A r \in DOMAIN by_run : r # run => by_run'[r] = by_run[r]
      /\ \A r \in DOMAIN by_run : /\ by_run'[r].session = by_run[r].session
                                  /\ by_run'[r].source = by_run[r].source
                                  /\ by_run'[r].bound = by_run[r].bound
                                  /\ by_run'[r].mirrors = by_run[r].mirrors
    BY <1>0, <1>1 DEF IInv, TypeOK, RunHandle
<1>3. DOMAIN by_run' = DOMAIN by_run
    BY <1>1
<1>4. /\ moved_messages' \in [DOMAIN moved_messages' -> MovedRunNotice]
      /\ DOMAIN moved_messages' \subseteq MessageKey
    <2>1. OldBubble(run) \subseteq MessageKey
        BY <1>0 DEF OldBubble, message_key, PrimarySink, MessageKey, RunHandle, ChatThreadKey
    <2>2. [run |-> run, new_origin |-> new_origin] \in MovedRunNotice
        BY <1>0 DEF MovedRunNotice
    <2> QED
        BY <2>1, <2>2 DEF MoveRun, IInv, TypeOK
\* The thread index: the run has left its old thread and joined the new one.
<1>5. /\ by_chat_thread' \in [DOMAIN by_chat_thread' -> SUBSET RunId]
      /\ DOMAIN by_chat_thread' \subseteq ChatThreadKey
      /\ \A key \in DOMAIN by_chat_thread' : by_chat_thread'[key] # {}
      /\ ThreadRuns(new_origin)' = ThreadRuns(new_origin) \cup {run}
      /\ \A key \in ChatThreadKey :
            key # new_origin => ThreadRuns(key)' = ThreadRuns(key) \ {run}
      /\ old = new_origin \/ Cardinality(ThreadRuns(new_origin)) < Cap
    <2>1. \A key \in ChatThreadKey : run \in ThreadRuns(key) <=> key = old
        BY <1>0 DEF IInv, ThreadIndex
    <2>2. CASE old = new_origin
        BY <1>0, <2>1, <2>2 DEF MoveRun, IInv, TypeOK, ThreadIndex, ThreadRuns, Get
    <2>3. CASE old # new_origin
        <3>1. /\ by_chat_thread' = PushToThread(left, new_origin, run)
              /\ Cardinality(ThreadRuns(new_origin)) < Cap
            BY <2>3 DEF MoveRun
        <3>2. /\ left \in [DOMAIN left -> SUBSET RunId]
              /\ DOMAIN left \subseteq ChatThreadKey
              /\ \A key \in DOMAIN left : left[key] # {}
              /\ \A key \in ChatThreadKey : Get(left, key, {}) = ThreadRuns(key) \ {run}
            BY RemovedFromThread
        <3> HIDE DEF left, old
        <3>3. /\ by_chat_thread' = [k \in DOMAIN left \cup {new_origin} |->
                     IF k = new_origin THEN Get(left, new_origin, {}) \cup {run} ELSE left[k]]
            BY <3>1 DEF PushToThread, Put
        <3>4. /\ by_chat_thread' \in [DOMAIN by_chat_thread' -> SUBSET RunId]
              /\ DOMAIN by_chat_thread' \subseteq ChatThreadKey
              /\ \A key \in DOMAIN by_chat_thread' : by_chat_thread'[key] # {}
            BY <1>0, <3>2, <3>3 DEF Get
        <3>5. \A key \in ChatThreadKey :
                 key # new_origin => ThreadRuns(key)' = Get(left, key, {})
            BY <3>3 DEF ThreadRuns, Get
        <3>6. ThreadRuns(new_origin)' = Get(left, new_origin, {}) \cup {run}
            BY <3>3 DEF ThreadRuns, Get
        <3> QED
            BY <2>3, <3>1, <3>2, <3>4, <3>5, <3>6
    <2> QED
        BY <2>2, <2>3
<1>6. TypeOK'
    BY <1>1, <1>2, <1>3, <1>4, <1>5 DEF IInv, TypeOK
<1>7. ThreadIndex'
    BY <1>2, <1>3, <1>5 DEF IInv, ThreadIndex
<1>8. OwnerIndex'
    BY <1>1, <1>2, <1>3 DEF IInv, OwnerIndex
<1>9. MessageIndex'
    BY <1>1, <1>2, <1>3 DEF IInv, MessageIndex
<1>10. FiniteParts' /\ Capacity'
    <2>1. \A key \in ChatThreadKey :
             IsFiniteSet(ThreadRuns(key)') /\ Cardinality(ThreadRuns(key)') <= Cap
        <3> SUFFICES ASSUME NEW key \in ChatThreadKey
                     PROVE  IsFiniteSet(ThreadRuns(key)') /\ Cardinality(ThreadRuns(key)') <= Cap
            OBVIOUS
        <3>1. IsFiniteSet(ThreadRuns(key)) /\ Cardinality(ThreadRuns(key)) <= Cap
            BY DEF IInv, FiniteParts, Capacity
        <3>2. CASE key # new_origin
            <4>1. /\ IsFiniteSet(ThreadRuns(key) \ {run})
                  /\ Cardinality(ThreadRuns(key) \ {run}) <= Cap
                BY <3>1, RemoveBelowCap, RegistryAssumption
            <4> QED
                BY <1>5, <3>2, <4>1
        <3>3. CASE key = new_origin /\ old = new_origin
            <4>1. ThreadRuns(key) \cup {run} = ThreadRuns(key)
                BY <1>0, <3>3 DEF IInv, ThreadIndex
            <4> QED
                BY <1>5, <3>1, <3>3, <4>1
        <3>4. CASE key = new_origin /\ old # new_origin
            <4>1. /\ IsFiniteSet(ThreadRuns(key) \cup {run})
                  /\ Cardinality(ThreadRuns(key) \cup {run}) <= Cap
                BY <1>5, <3>1, <3>4, AddBelowCap, RegistryAssumption
            <4> QED
                BY <1>5, <3>4, <4>1
        <3> QED
            BY <3>2, <3>3, <3>4
    <2>2. \A r \in DOMAIN by_run' :
             IsFiniteSet(by_run'[r].mirrors) /\ Cardinality(by_run'[r].mirrors) <= MirrorCap
        BY <1>2, <1>3 DEF IInv, FiniteParts, Capacity
    <2> QED
        BY <2>1, <2>2 DEF FiniteParts, Capacity
<1> QED
    BY <1>6, <1>7, <1>8, <1>9, <1>10 DEF IInv

LEMMA NextInv == IInv /\ [Next]_vars => IInv'
<1> SUFFICES ASSUME IInv, [Next]_vars PROVE IInv'
    OBVIOUS
<1>1. CASE UNCHANGED vars
    BY <1>1 DEF vars, IInv, TypeOK, ThreadIndex, OwnerIndex, MessageIndex, FiniteParts,
                Capacity, ThreadRuns, Get
<1>2. CASE Next
    BY <1>2, RegisterStep, RejectStep, BindStep, MoveStep, RemoveStep, MirrorStep,
       UnmirrorStep DEF Next
<1> QED
    BY <1>1, <1>2

\* The type invariant, for every value of the constants.
THEOREM TypeCorrect == Spec => []TypeOK
<1>1. IInv => TypeOK
    BY DEF IInv
<1> QED
    BY <1>1, InitInv, NextInv, PTL DEF Spec

\* The four secondary indexes agree with by_run, for every value of the
\* constants: a run is found under its thread, session, source and messages
\* exactly while it is live.
THEOREM IndexesAgree == Spec => []IndexesMatch
<1>1. IInv => IndexesMatch
    BY DEF IInv, IndexesMatch
<1> QED
    BY <1>1, InitInv, NextInv, PTL DEF Spec

\* No thread exceeds its run cap and no run its mirror cap, for every cap.
THEOREM CapsHold == Spec => []Capacity
<1>1. IInv => Capacity
    BY DEF IInv
<1> QED
    BY <1>1, InitInv, NextInv, PTL DEF Spec

\* The message index never hands a message from one run to another.
THEOREM NeverStolen == Spec => MessageNeverStolen
<1> DEFINE Kept == \A key \in DOMAIN by_message \cap DOMAIN by_message' :
                      by_message'[key] = by_message[key]
<1>1. IInv /\ [Next]_vars => [Kept]_vars
    <2> SUFFICES ASSUME IInv, Next PROVE Kept
        OBVIOUS
    <2>1. ASSUME NEW run \in DOMAIN by_run, NEW key \in MessageKey, BindMessage(run, key)
          PROVE  Kept
        BY <2>1 DEF BindMessage, Bindable, Put
    <2>2. ASSUME NEW run \in DOMAIN by_run, NEW sink \in RunSink, AddMirrorSink(run, sink)
          PROVE  Kept
        BY <2>2 DEF AddMirrorSink, Bindable, Put
    <2>3. ASSUME NEW run \in DOMAIN by_run, RemoveRun(run)
          PROVE  Kept
        BY <2>3 DEF RemoveRun, Drop, Restrict
    <2>4. ASSUME NEW run \in DOMAIN by_run, NEW key \in MessageKey, RemoveMirrorSink(run, key)
          PROVE  Kept
        BY <2>4 DEF RemoveMirrorSink, Drop, Restrict
    <2>5. ASSUME UNCHANGED by_message
          PROVE  Kept
        BY <2>5
    <2> QED
        BY <2>1, <2>2, <2>3, <2>4, <2>5 DEF Next, RegisterRun, RejectRun, MoveRun
<1> QED
    BY <1>1, InitInv, NextInv, PTL DEF Spec, MessageNeverStolen
-----------------------------------------------------------------------------
(***************************************************************************)
(* The refinement: the handles alone are a LiveRuns.                       *)
(***************************************************************************)

\* The promise counts and updates with the operators of this module.
LEMMA SameOperators ==
    /\ \A S : Promise!Cardinality(S) = Cardinality(S)
    /\ \A f, k, v : Promise!Put(f, k, v) = Put(f, k, v)
    /\ \A f, K : Promise!Drop(f, K) = Drop(f, K)
<1>1. \A S : Promise!Cardinality(S) = Cardinality(S)
    BY DEF Promise!Cardinality, Cardinality, Promise!IsFiniteSet, IsFiniteSet
<1>2. \A f, k, v : Promise!Put(f, k, v) = Put(f, k, v)
    BY DEF Promise!Put, Put
<1>3. \A f, K : Promise!Drop(f, K) = Drop(f, K)
    BY DEF Promise!Drop, Drop, Promise!Restrict, Restrict
<1> QED
    BY <1>1, <1>2, <1>3

LEMMA LiveShape ==
    /\ DOMAIN live = DOMAIN by_run
    /\ \A r \in DOMAIN by_run : live[r] = LiveHandle(by_run[r])
    BY DEF live

LEMMA PrimedLiveShape ==
    /\ DOMAIN live' = DOMAIN by_run'
    /\ \A r \in DOMAIN by_run' : live'[r] = LiveHandle(by_run'[r])
    BY DEF live, LiveHandle

\* The thread index lists the runs that the set of live runs has in a thread.
LEMMA ThreadAgrees ==
    ASSUME IInv, NEW key \in ChatThreadKey
    PROVE  Promise!ByThread(key) = ThreadRuns(key)
<1>1. ThreadRuns(key) \subseteq RunId
    BY DEF IInv, TypeOK, ThreadRuns, Get
<1>2. DOMAIN by_run \subseteq RunId
    BY DEF IInv, TypeOK
<1> QED
    BY <1>1, <1>2, LiveShape DEF IInv, ThreadIndex, Promise!ByThread, LiveHandle

\* A message that can be bound belongs to no other live run.
LEMMA MessageAgrees ==
    ASSUME IInv, NEW run \in DOMAIN by_run, NEW key \in MessageKey, Bindable(run, key)
    PROVE  Promise!OwnersOf(key) \subseteq {run}
<1>1. DOMAIN by_run \subseteq RunId
    BY DEF IInv, TypeOK
<1> QED
    BY <1>1, LiveShape DEF IInv, MessageIndex, Bindable, Promise!OwnersOf, LiveHandle

LEMMA StartStep ==
    ASSUME IInv, NEW requested \in RequestedId \cup {None}, NEW session \in Session,
           NEW origin \in ChatThreadKey, NEW source \in SourceRef \cup {None},
           CountedId(requested) <= MaxGenerated,
           RegisterRun(requested, session, origin, source)
    PROVE  Promise!Next
<1> DEFINE run == ChosenId(requested)
           handle == [session |-> session, origin |-> origin, source |-> source,
                      bubble |-> None, mirrors |-> {}, bound |-> {}]
           fresh == [session |-> session, source |-> source, origin |-> origin, keys |-> {}]
<1>0. run \in RunId /\ DOMAIN by_run \subseteq RunId
    BY RegistryAssumption DEF ChosenId, CountedId, RunId, IInv, TypeOK
<1>1. /\ run \notin DOMAIN by_run /\ session \notin DOMAIN by_session
      /\ source \notin DOMAIN by_spec_id /\ Cardinality(ThreadRuns(origin)) < Cap
      /\ by_run' = Put(by_run, run, handle)
    BY DEF RegisterRun, Registrable
<1>2. LiveHandle(handle) = fresh
    BY DEF LiveHandle
<1> HIDE DEF run, handle, fresh
<1>3. run \notin DOMAIN live
    BY <1>1, LiveShape
<1>4. \A r \in DOMAIN live : live[r].session # session
    BY <1>0, <1>1, LiveShape DEF IInv, OwnerIndex, LiveHandle
<1>5. source # None => \A r \in DOMAIN live : live[r].source # source
    BY <1>0, <1>1, LiveShape DEF IInv, OwnerIndex, LiveHandle
<1>6. Cardinality(Promise!ByThread(origin)) < Cap
    BY <1>1, ThreadAgrees, SameOperators
<1>7. live' = Put(live, run, fresh)
    <2>1. DOMAIN by_run' = DOMAIN by_run \cup {run}
        BY <1>1 DEF Put
    <2>2. \A r \in DOMAIN by_run' : by_run'[r] = IF r = run THEN handle ELSE by_run[r]
        BY <1>1 DEF Put
    <2>3. live' = [r \in DOMAIN by_run' |-> LiveHandle(by_run'[r])]
        BY DEF live, LiveHandle
    <2>4. Put(live, run, fresh) =
             [r \in DOMAIN by_run \cup {run} |-> IF r = run THEN fresh ELSE live[r]]
        BY LiveShape DEF Put
    <2>5. \A r \in DOMAIN by_run' :
             LiveHandle(by_run'[r]) = IF r = run THEN fresh ELSE live[r]
        BY <1>1, <1>2, <2>1, <2>2, LiveShape
    <2> QED
        BY <2>1, <2>3, <2>4, <2>5
<1>8. Promise!Start(run, session, source, origin)
    BY <1>3, <1>4, <1>5, <1>6, <1>7, SameOperators DEF Promise!Start, fresh
<1> QED
    BY <1>0, <1>8 DEF Promise!Next

\* A step that rewrites one handle rewrites one live run.
LEMMA HandleStep ==
    ASSUME NEW run \in DOMAIN by_run, NEW h, by_run' = [by_run EXCEPT ![run] = h]
    PROVE  live' = [live EXCEPT ![run] = LiveHandle(h)]
<1>1. live' = [r \in DOMAIN by_run |-> LiveHandle(by_run'[r])]
    BY DEF live, LiveHandle
<1>2. \A r \in DOMAIN by_run : by_run'[r] = IF r = run THEN h ELSE by_run[r]
    OBVIOUS
<1>3. live = [r \in DOMAIN by_run |-> LiveHandle(by_run[r])]
    BY DEF live
<1> QED
    BY <1>1, <1>2, <1>3

LEMMA OwnStep ==
    ASSUME IInv, NEW run \in DOMAIN by_run, NEW key \in MessageKey, NEW h,
           Bindable(run, key), by_run' = [by_run EXCEPT ![run] = h],
           LiveHandle(h) = [LiveHandle(by_run[run]) EXCEPT !.keys = @ \cup {key}]
    PROVE  Promise!Next
<1>1. live' = [live EXCEPT ![run].keys = @ \cup {key}]
    BY HandleStep, LiveShape
<1>2. Promise!Own(run, key)
    BY <1>1, MessageAgrees, LiveShape DEF Promise!Own
<1> QED
    BY <1>2 DEF Promise!Next, IInv, TypeOK

LEMMA DisownStep ==
    ASSUME IInv, NEW run \in DOMAIN by_run, NEW key \in MessageKey, RemoveMirrorSink(run, key)
    PROVE  Promise!Next
<1> DEFINE h == [by_run[run] EXCEPT !.mirrors = {s \in @ : message_key(s) # key},
                                    !.bound = @ \ {key}]
<1>1. by_run[run] \in RunHandle /\ run \in RunId
    BY DEF IInv, TypeOK
<1>2. by_run' = [by_run EXCEPT ![run] = h]
    BY DEF RemoveMirrorSink
<1>3. LiveHandle(h) = [LiveHandle(by_run[run]) EXCEPT !.keys = @ \ {key}]
    BY <1>1 DEF LiveHandle, RunHandle
<1> HIDE DEF h
<1>4. live' = [live EXCEPT ![run].keys = @ \ {key}]
    BY <1>2, <1>3, HandleStep, LiveShape
<1>5. Promise!Disown(run, key)
    BY <1>4, LiveShape DEF Promise!Disown
<1> QED
    BY <1>1, <1>5 DEF Promise!Next

LEMMA MoveLiveStep ==
    ASSUME IInv, NEW run \in DOMAIN by_run, NEW new_origin \in ChatThreadKey,
           MoveRun(run, new_origin)
    PROVE  Promise!Next
<1> DEFINE h == [by_run[run] EXCEPT !.origin = new_origin]
<1>1. by_run[run] \in RunHandle /\ run \in RunId
    BY DEF IInv, TypeOK
<1>2. by_run' = [by_run EXCEPT ![run] = h]
    BY DEF MoveRun
<1>3. LiveHandle(h) = [LiveHandle(by_run[run]) EXCEPT !.origin = new_origin]
    BY <1>1 DEF LiveHandle, RunHandle
<1>4. by_run[run].origin # new_origin => Cardinality(ThreadRuns(new_origin)) < Cap
    BY DEF MoveRun
<1> HIDE DEF h
<1>5. live' = [live EXCEPT ![run].origin = new_origin]
    BY <1>2, <1>3, HandleStep, LiveShape
<1>6. live[run].origin # new_origin => Cardinality(Promise!ByThread(new_origin)) < Cap
    BY <1>4, LiveShape, ThreadAgrees DEF LiveHandle
<1>7. Promise!Move(run, new_origin)
    BY <1>5, <1>6, LiveShape, SameOperators DEF Promise!Move
<1> QED
    BY <1>1, <1>7 DEF Promise!Next

LEMMA StopStep ==
    ASSUME IInv, NEW run \in DOMAIN by_run, RemoveRun(run)
    PROVE  Promise!Next
<1>1. by_run' = Drop(by_run, {run}) /\ run \in RunId
    BY DEF RemoveRun, IInv, TypeOK
<1>2. live' = [r \in DOMAIN by_run' |-> LiveHandle(by_run'[r])]
    BY DEF live, LiveHandle
<1>3. DOMAIN by_run' = DOMAIN by_run \ {run} /\ \A r \in DOMAIN by_run' : by_run'[r] = by_run[r]
    BY <1>1 DEF Drop, Restrict
<1>4. Drop(live, {run}) = [r \in DOMAIN by_run \ {run} |-> live[r]]
    BY LiveShape DEF Drop, Restrict
<1>5. live' = Drop(live, {run})
    BY <1>2, <1>3, <1>4, LiveShape
<1>6. Promise!Stop(run)
    BY <1>5, LiveShape, SameOperators DEF Promise!Stop
<1> QED
    BY <1>1, <1>6 DEF Promise!Next

\* Every step of the registry is a step of one set of live runs, or leaves it
\* as it is.
LEMMA PromisedStep == IInv /\ [Next]_vars => [Promise!Next]_live
<1> SUFFICES ASSUME IInv, [Next]_vars PROVE Promise!Next \/ live' = live
    OBVIOUS
<1>1. ASSUME UNCHANGED by_run PROVE live' = live
    BY <1>1 DEF live, LiveHandle
<1>2. ASSUME NEW run \in DOMAIN by_run, NEW key \in MessageKey, BindMessage(run, key)
      PROVE  Promise!Next
    <2> DEFINE h == [by_run[run] EXCEPT !.bubble = key.msg, !.bound = @ \cup {key}]
    <2>0. by_run[run] \in RunHandle
        BY DEF IInv, TypeOK
    <2>1. Bindable(run, key) /\ by_run' = [by_run EXCEPT ![run] = h]
        BY <1>2 DEF BindMessage
    <2>2. LiveHandle(h) = [LiveHandle(by_run[run]) EXCEPT !.keys = @ \cup {key}]
        BY <2>0 DEF LiveHandle, RunHandle
    <2> QED
        BY <2>1, <2>2, OwnStep
<1>3. ASSUME NEW run \in DOMAIN by_run, NEW sink \in RunSink, AddMirrorSink(run, sink)
      PROVE  Promise!Next
    <2> DEFINE h == Mirrored(by_run[run], sink)
    <2>0. by_run[run] \in RunHandle
        BY DEF IInv, TypeOK
    <2>1. message_key(sink) \in MessageKey
        BY DEF message_key, MessageKey, RunSink
    <2>2. Bindable(run, message_key(sink)) /\ by_run' = [by_run EXCEPT ![run] = h]
        BY <1>3 DEF AddMirrorSink
    <2>3. LiveHandle(h) = [LiveHandle(by_run[run]) EXCEPT !.keys = @ \cup {message_key(sink)}]
        BY <2>0 DEF LiveHandle, Mirrored, RunHandle
    <2> QED
        BY <2>1, <2>2, <2>3, OwnStep
<1> QED
    BY <1>1, <1>2, <1>3, StartStep, MoveLiveStep, StopStep, DisownStep
    DEF Next, vars, RejectRun

\* The registry implements the set of live runs, for every value of the
\* constants: what its indexes decide is what that set alone would decide.
THEOREM ImplementsPromise == Spec => ImplementsLiveRuns
<1>1. Init => Promise!Init
    BY DEF Init, Promise!Init, live, EmptyMap, Promise!EmptyMap
<1> QED
    BY <1>1, InitInv, NextInv, PromisedStep, PTL DEF Spec, ImplementsLiveRuns, Promise!Spec

-----------------------------------------------------------------------------
(***************************************************************************)
(* The stream and the operator that call the registry.                     *)
(***************************************************************************)

Steps == {"ready", "posted", "moved", "refused", "bound", "rehomed", "frozen", "shown", "done"}
Places == {"start", "placeholder", "bind", "loop", "flush", "flush_mirrors", "final",
           "final_mirrors", "cleanup", "clear", "remove", "over"}
Before == {"start", "placeholder", "bind"}
PreFinal == Before \cup {"loop", "flush", "flush_mirrors"}

At(c, steps) == cmd[c].at \in steps
Handle == by_run[Run]
BubbleKey == message_key(PrimarySink(Run))
MirrorKeys == {message_key(s) : s \in Handle.mirrors}
Noticed == {k \in DOMAIN moved_messages : moved_messages[k].run = Run}

StreamTyped ==
    /\ text \in [DOMAIN text -> Shown] /\ DOMAIN text \subseteq MessageKey
    /\ buttons \subseteq DOMAIN text /\ card \in DOMAIN text \cup {None}
    /\ docs \subseteq Chat /\ todo \subseteq DOMAIN text /\ audience \subseteq DOMAIN text
    /\ target \in MessageKey \cup {None} /\ faults \in 0..MaxFaults
    /\ pc \in {"bind", "flush", "final"} => target \in MessageKey
    /\ pc \in Places /\ agent \in {"runs", "idle", "died"} /\ plan \in Plans
    /\ cmd \in [DOMAIN plan -> [at : Steps, msg : MessageKey \cup {None}, old : SUBSET MessageKey]]

\* Ids count up within a chat, and there are ids for what is still to be posted.
In(chat) == {k \in DOMAIN text : k.chat = chat}
Unsent == {c \in DOMAIN plan : At(c, {"ready"})}
Unposted == Cardinality(Unsent) + (IF pc \in {"start", "placeholder"} THEN 1 ELSE 0)
Numbered ==
    /\ \A chat \in Chat :
          /\ IsFiniteSet(In(chat)) /\ Cardinality(In(chat)) + Unposted <= Len(plan) + 2
          /\ \A k \in In(chat) : k.msg \in 1..Cardinality(In(chat))
    /\ DOMAIN by_message \subseteq DOMAIN text /\ DOMAIN moved_messages \subseteq DOMAIN text

\* The commands are sent one after the other, once there is a bubble.
InTurn ==
    /\ \A c \in DOMAIN plan : ~At(c, {"ready"}) => \A d \in 1..(c - 1) : At(d, {"done"})
    /\ pc \in Before => \A c \in DOMAIN plan : At(c, {"ready"})

\* What a command may have in its hands: a message nobody uses yet, and the frozen bubble.
Carries(c, r) ==
    /\ r.at \in {"posted", "moved", "refused", "shown"} =>
          r.msg \notin DOMAIN by_message \cup DOMAIN moved_messages \cup audience
    /\ r.at \notin {"ready", "done"} =>
          /\ r.msg \in DOMAIN text /\ r.old \subseteq DOMAIN text /\ r.old \cap audience = {}
          /\ Live => r.old \subseteq Noticed
    /\ r.at \in {"posted", "moved", "bound"} => plan[c].op = "move"
    /\ r.at \in {"posted", "shown"} => r.msg.chat = plan[c].from.chat
    /\ r.at = "moved" /\ Live => r.msg.chat = Handle.origin.chat
    /\ r.at = "bound" /\ Live => r.msg = BubbleKey
Commands == \A c \in DOMAIN plan : Carries(c, cmd[c])

\* The run is registered from its start to its end, and has a bubble once it was bound.
Registered ==
    /\ pc = "start" => next_generated = 0
    /\ Live <=> pc \notin {"start", "over"}
    /\ pc \in Before => moved_messages = EmptyMap /\ card = None
    /\ pc \in {"placeholder", "bind"} =>
          Handle.origin = Home /\ Handle.mirrors = {} /\ Handle.bound = {} /\ Handle.bubble = None
    /\ pc = "bind" =>
          target \in buttons /\ target \notin DOMAIN by_message /\ target.chat = Home.chat

\* The bubble is a message of the run that no move has left and no mirror shows; only
\* between the move and the binding is it not.
Rebinding == \E c \in DOMAIN plan : At(c, {"moved"})
Running == pc \in {"loop", "flush", "flush_mirrors"} /\ agent = "runs"
Unattached == \E c \in DOMAIN plan : At(c, {"moved", "bound"})
Bubbled ==
    (Live /\ pc \notin Before) =>
        /\ Handle.bubble # None
        /\ MirrorKeys \cap Noticed = {}
        /\ ~Rebinding => BubbleKey \in Handle.bound /\ BubbleKey \notin Noticed \cup MirrorKeys
        /\ (Running /\ faults = MaxFaults /\ ~Unattached) => BubbleKey \in buttons

\* A text that says where the run went has its notice in the registry.
Marked == pc # "over" => \A k \in DOMAIN text : text[k] = "moved" => k \in Noticed

\* What was mirrored when the loop ended is written, or still to be written.
Told(k) == text[k] = "final" \/ k.chat \in docs
Finishing ==
    /\ pc \in PreFinal => audience = {}
    /\ Live => audience \subseteq MirrorKeys
    /\ faults = MaxFaults /\ pc = "final_mirrors" => \A k \in audience \ todo : Told(k)
    /\ faults = MaxFaults /\ pc \in {"cleanup", "clear", "remove", "over"} =>
          \A k \in audience : Told(k)

OneAtATime == Overlap = FALSE

DInv ==
    /\ IInv /\ StreamTyped /\ Numbered /\ InTurn /\ Commands
    /\ Registered /\ Bubbled /\ Marked /\ Finishing

\* What the assumptions say, one by one.
LEMMA Facts ==
    ASSUME OneAtATime
    PROVE  /\ MaxFaults \in Nat /\ MaxGenerated \in Nat \ {0} /\ Overlap = FALSE
           /\ 1 <= Cap /\ 0 <= Cap /\ 0 <= MirrorCap
           /\ Run \in Session /\ Other \in Session /\ Run # Other
           /\ Run \in RequestedId /\ Other \in RequestedId
           /\ Run \in RunId /\ Other \in RunId /\ Run # None /\ Other # None
           /\ None \notin MessageKey /\ None \notin Neighbours
           /\ Home \in ChatThreadKey /\ Neighbours \subseteq ChatThreadKey
           /\ \A p \in Plans : p \in Seq(Command) /\ 1..(Len(p) + 2) \subseteq MessageId
BY RegistryAssumption, DeliveryAssumption DEF OneAtATime, Run, Other, RunId, MessageKey, ChatThreadKey

-----------------------------------------------------------------------------
\* The registry with the run next door alone.
LEMMA NeighbourInv ==
    ASSUME OneAtATime, NEW place \in Neighbours, 1 \in MessageId, NEW key, NEW handle,
           key = [chat |-> place.chat, msg |-> 1],
           handle = [session |-> Other, origin |-> place, source |-> None, bubble |-> 1,
                     mirrors |-> {}, bound |-> {key}],
           by_run = [r \in {Other} |-> handle], by_session = [s \in {Other} |-> Other],
           by_chat_thread = [p \in {place} |-> {Other}], by_message = [k \in {key} |-> Other],
           by_spec_id = EmptyMap, moved_messages = EmptyMap, next_generated = 0
    PROVE  IInv
<1>1. place \in ChatThreadKey /\ key \in MessageKey /\ handle \in RunHandle
    BY Facts DEF MessageKey, RunHandle, ChatThreadKey
<1>2. \A k \in ChatThreadKey : ThreadRuns(k) = IF k = place THEN {Other} ELSE {}
    BY DEF ThreadRuns, Get
<1>3. TypeOK
    BY <1>1, Facts, RegistryAssumption DEF TypeOK, EmptyMap
<1>4. ThreadIndex
    BY <1>1, <1>2 DEF ThreadIndex
<1>5. OwnerIndex
    BY <1>1, RegistryAssumption DEF OwnerIndex, EmptyMap
<1>6. MessageIndex
    BY <1>1 DEF MessageIndex
<1>7. FiniteParts /\ Capacity
    <2>1. IsFiniteSet({Other}) /\ Cardinality({Other}) = 1 /\ IsFiniteSet({}) /\ Cardinality({}) = 0
        BY FS_EmptySet, FS_Singleton
    <2>2. ASSUME NEW k \in ChatThreadKey
          PROVE  IsFiniteSet(ThreadRuns(k)) /\ Cardinality(ThreadRuns(k)) <= Cap
        <3>1. CASE k = place
            BY <1>2, <2>1, <3>1, Facts, Zenon
        <3>2. CASE k # place
            BY <1>2, <2>1, <3>2, Facts, Zenon
        <3> QED
            BY <3>1, <3>2
    <2>3. \A r \in DOMAIN by_run : by_run[r].mirrors = {}
        OBVIOUS
    <2>4. \A r \in DOMAIN by_run :
             IsFiniteSet(by_run[r].mirrors) /\ Cardinality(by_run[r].mirrors) <= MirrorCap
        BY <2>1, <2>3, Facts, Zenon
    <2> QED
        BY <2>2, <2>4 DEF FiniteParts, Capacity
<1> QED
    BY <1>3, <1>4, <1>5, <1>6, <1>7 DEF IInv

LEMMA DInitInv == OneAtATime /\ StreamInit => DInv
<1> SUFFICES ASSUME OneAtATime, StreamInit PROVE DInv
    OBVIOUS
<1>1. /\ moved_messages = EmptyMap /\ next_generated = 0 /\ by_spec_id = EmptyMap
      /\ card = None /\ docs = {} /\ pc = "start" /\ target = None /\ todo = {}
      /\ agent = "runs" /\ plan \in Plans /\ audience = {} /\ faults = MaxFaults
      /\ cmd = [c \in DOMAIN plan |-> [at |-> "ready", msg |-> None, old |-> {}]]
    BY DEF StreamInit, EmptyMap, NoCommand
<1>2. plan \in Seq(Command) /\ DOMAIN plan = 1..Len(plan) /\ Len(plan) \in Nat
      /\ 1..(Len(plan) + 2) \subseteq MessageId /\ 1 \in MessageId
    BY <1>1, Facts
\* Either the maps are empty, or they hold the neighbour.
<1>3. /\ IInv /\ text \in [DOMAIN text -> Shown] /\ DOMAIN text \subseteq MessageKey
      /\ buttons = DOMAIN text /\ Run \notin DOMAIN by_run /\ DOMAIN by_message = DOMAIN text
      /\ \A k \in DOMAIN text : text[k] = "other" /\ k.msg = 1
      /\ \A k, l \in DOMAIN text : k = l
    <2>1. PICK place \in Neighbours \cup {None} :
             LET key == [chat |-> place.chat, msg |-> 1]
                 handle == [session |-> Other, origin |-> place, source |-> None, bubble |-> 1,
                            mirrors |-> {}, bound |-> {key}]
                 Single(k, v) == IF place = None THEN EmptyMap ELSE Put(EmptyMap, k, v)
             IN  /\ by_run = Single(Other, handle) /\ by_session = Single(Other, Other)
                 /\ by_chat_thread = Single(place, {Other}) /\ by_message = Single(key, Other)
                 /\ text = Single(key, "other") /\ buttons = DOMAIN text
        BY DEF StreamInit, Key, EmptyMap, Put
    <2>2. CASE place = None
        <3>1. Init
            BY <1>1, <2>1, <2>2 DEF Init
        <3> QED
            BY <2>1, <2>2, <3>1, InitInv DEF EmptyMap
    <2>3. CASE place \in Neighbours
        <3> DEFINE key == [chat |-> place.chat, msg |-> 1]
                   handle == [session |-> Other, origin |-> place, source |-> None, bubble |-> 1,
                              mirrors |-> {}, bound |-> {key}]
        <3>1. place # None
            BY <2>3, Facts
        <3>2. ASSUME NEW k, NEW v PROVE Put(EmptyMap, k, v) = [x \in {k} |-> v]
            BY DEF Put, EmptyMap
        <3>3. /\ by_run = [r \in {Other} |-> handle] /\ by_session = [s \in {Other} |-> Other]
              /\ by_chat_thread = [p \in {place} |-> {Other}] /\ by_message = [k \in {key} |-> Other]
              /\ text = [k \in {key} |-> "other"] /\ buttons = DOMAIN text
            <4>1. /\ by_run = Put(EmptyMap, Other, handle)
                  /\ by_session = Put(EmptyMap, Other, Other)
                  /\ by_chat_thread = Put(EmptyMap, place, {Other})
                  /\ by_message = Put(EmptyMap, key, Other)
                  /\ text = Put(EmptyMap, key, "other") /\ buttons = DOMAIN text
                BY <2>1, <3>1
            <4> HIDE DEF key, handle
            <4> QED
                BY <3>2, <4>1
        <3>4. key \in MessageKey
            BY <1>2, <2>3, Facts DEF MessageKey, ChatThreadKey
        <3>5. IInv
            BY <1>1, <1>2, <2>3, <3>3, NeighbourInv
        <3> HIDE DEF handle
        <3> QED
            BY <3>3, <3>4, <3>5, Facts DEF Shown
    <2> QED
        BY <2>2, <2>3
<1>4. StreamTyped
    BY <1>1, <1>2, <1>3, Facts DEF StreamTyped, Places, Steps
<1>5. Numbered
    <2>1. Unsent = 1..Len(plan) /\ Cardinality(Unsent) = Len(plan)
        <3>1. Unsent = 1..Len(plan)
            BY <1>1, <1>2 DEF Unsent, At
        <3> QED
            BY <1>2, <3>1, FS_Interval
    <2>2. Unposted = Len(plan) + 1
        BY <1>1, <2>1 DEF Unposted
    <2>3. ASSUME NEW chat \in Chat
          PROVE  /\ IsFiniteSet(In(chat)) /\ Cardinality(In(chat)) \in 0..1
                 /\ \A k \in In(chat) : k.msg \in 1..Cardinality(In(chat))
        <3>1. CASE In(chat) = {}
            BY <3>1, FS_EmptySet
        <3>2. ASSUME NEW k \in In(chat)
              PROVE  IsFiniteSet(In(chat)) /\ Cardinality(In(chat)) = 1
            <4>1. In(chat) = {k}
                BY <1>3, <3>2 DEF In
            <4> QED
                BY <4>1, FS_Singleton
        <3> QED
            BY <1>3, <3>1, <3>2 DEF In
    <2> QED
        BY <1>1, <1>2, <1>3, <2>2, <2>3 DEF Numbered, EmptyMap
<1>6. InTurn /\ Commands
    BY <1>1, <1>2 DEF InTurn, Commands, Carries, At
<1>7. Registered /\ Bubbled /\ Marked /\ Finishing
    BY <1>1, <1>3 DEF Registered, Bubbled, Marked, Finishing, Before, PreFinal, Live
<1> QED
    BY <1>3, <1>4, <1>5, <1>6, <1>7 DEF DInv

-----------------------------------------------------------------------------
\* What the registry and the rest of the invariant say of the run's messages.
LEMMA Owned ==
    ASSUME OneAtATime, DInv, Live
    PROVE  /\ Handle \in RunHandle /\ MirrorKeys \subseteq Handle.bound
           /\ Handle.bound \subseteq DOMAIN by_message /\ Handle.bound \subseteq MessageKey
           /\ \A k \in MessageKey :
                 k \in Handle.bound <=> k \in DOMAIN by_message /\ by_message[k] = Run
           /\ DOMAIN by_message \subseteq DOMAIN text /\ Noticed \subseteq DOMAIN text
           /\ pc \notin Before => Handle.bubble \in MessageId /\ BubbleKey \in MessageKey
<1>1. Run \in DOMAIN by_run /\ Run \in RunId /\ Handle \in RunHandle
    BY Facts DEF DInv, IInv, TypeOK, Live, Handle
<1>2. MirrorKeys \subseteq Handle.bound
    BY <1>1 DEF DInv, IInv, MessageIndex, MirrorKeys, Handle
<1>3. Handle.bound \subseteq MessageKey /\ Handle.bound \subseteq DOMAIN by_message
    BY <1>1 DEF DInv, IInv, MessageIndex, Handle, RunHandle
<1>4. \A k \in MessageKey : k \in Handle.bound <=> k \in DOMAIN by_message /\ by_message[k] = Run
    BY <1>1 DEF DInv, IInv, MessageIndex, Handle
<1>5. DOMAIN by_message \subseteq DOMAIN text /\ Noticed \subseteq DOMAIN text
    BY DEF DInv, Numbered, Noticed
<1>6. pc \notin Before => Handle.bubble \in MessageId /\ BubbleKey \in MessageKey
    BY <1>1 DEF DInv, Bubbled, BubbleKey, Handle, RunHandle, MessageKey, ChatThreadKey,
       message_key, PrimarySink
<1> QED
    BY <1>1, <1>2, <1>3, <1>4, <1>5, <1>6

\* The stream reads the registry as it is.
LEMMA Read ==
    ASSUME OneAtATime, DInv
    PROVE  /\ Live => Mirrors = MirrorKeys
           /\ Live /\ pc \notin Before => Bubble = BubbleKey
           /\ ~Live => Mirrors = {}
<1>1. Live /\ pc \notin Before => Handle.bubble # None
    BY DEF DInv, Bubbled
<1> QED
    BY <1>1 DEF Mirrors, Bubble, MirrorKeys, BubbleKey, Handle

\* A step that leaves the registry and the commands alone and moves the stream on.
LEMMA StreamFrame ==
    ASSUME OneAtATime, DInv, UNCHANGED <<vars, plan, cmd>>,
           pc' = pc \/ (pc \notin Before \cup {"over"} /\ pc' \notin Before \cup {"over"}),
           pc' \in {"start", "placeholder"} => pc' = pc,
           DOMAIN text' = DOMAIN text,
           \A k \in DOMAIN text : text'[k] = "moved" => text[k] = "moved",
           audience' = audience \/ (audience' = MirrorKeys /\ Live),
           pc \in Before => card' = None /\ (pc = "bind" => target' = target /\ target \in buttons'),
           Running' /\ faults' = MaxFaults => Running /\ faults = MaxFaults /\ buttons \subseteq buttons'
    PROVE  IInv' /\ Numbered' /\ InTurn' /\ Commands' /\ Registered' /\ Bubbled' /\ Marked'
<1>0. /\ by_run' = by_run /\ by_message' = by_message /\ moved_messages' = moved_messages
      /\ plan' = plan /\ cmd' = cmd
    BY DEF vars
<1>1. IInv'
    BY NextInv DEF DInv
<1>2. /\ (Live)' = Live /\ Handle' = Handle /\ Noticed' = Noticed /\ MirrorKeys' = MirrorKeys
      /\ BubbleKey' = BubbleKey /\ Rebinding' = Rebinding /\ Unattached' = Unattached
      /\ \A c, s : At(c, s)' = At(c, s)
    BY <1>0 DEF Live, Handle, Noticed, MirrorKeys, BubbleKey, PrimarySink, Rebinding, Unattached,
       At
<1>3. Numbered'
    <2>1. \A chat : In(chat)' = In(chat)
        BY DEF In
    <2>2. Unposted' = Unposted
        BY <1>0 DEF Unposted, Unsent, At, Before
    <2> QED
        BY <1>0, <2>1, <2>2 DEF DInv, Numbered
<1>4. InTurn'
    BY <1>0, <1>2 DEF DInv, InTurn, Before
<1>5. Commands'
    <2> SUFFICES ASSUME NEW c \in DOMAIN plan PROVE Carries(c, cmd[c])'
        BY <1>0 DEF Commands
    <2>1. Carries(c, cmd[c])
        BY DEF DInv, Commands
    <2>2. CASE audience' = audience
        BY <1>0, <1>2, <2>1, <2>2 DEF Carries
    <2>3. CASE audience' = MirrorKeys /\ Live
        <3>1. MirrorKeys \subseteq DOMAIN by_message
            BY <2>3, Owned
        <3>2. MirrorKeys \cap Noticed = {} \/ cmd[c].at = "ready"
            BY <2>3 DEF DInv, Bubbled, InTurn, At
        <3> QED
            BY <1>0, <1>2, <2>1, <2>3, <3>1, <3>2 DEF Carries
    <2> QED
        BY <2>2, <2>3
<1>6. Registered'
    BY <1>0, <1>2 DEF DInv, Registered, Before, vars
<1>7. Bubbled'
    BY <1>0, <1>2 DEF DInv, Bubbled
<1>8. Marked'
    BY <1>0, <1>2 DEF DInv, Marked
<1> QED
    BY <1>1, <1>3, <1>4, <1>5, <1>6, <1>7, <1>8

-----------------------------------------------------------------------------
\* An edit writes at most the text of its message, and a failure is paid for.
LEMMA Edit ==
    ASSUME OneAtATime, StreamTyped, NEW key, NEW what \in Shown, TryEdit(key, what)
    PROVE  /\ DOMAIN text' = DOMAIN text /\ text' \in [DOMAIN text -> Shown]
           /\ \A k \in DOMAIN text : text'[k] = text[k] \/ (k = key /\ text'[k] = what)
           /\ faults' \in 0..MaxFaults /\ (faults' = MaxFaults => faults = MaxFaults)
<1>1. faults \in 0..MaxFaults /\ MaxFaults \in Nat /\ text \in [DOMAIN text -> Shown]
    BY Facts DEF StreamTyped
<1>2. CASE Edited(key, what) /\ faults' = faults
    BY <1>1, <1>2 DEF Edited
<1>3. CASE Refused(key) /\ Spent(key)
    BY <1>1, <1>3 DEF Refused, Spent
<1> QED
    BY <1>2, <1>3 DEF TryEdit

\* The answer is in the message or, as a document, in its chat, unless a failure was paid for.
LEMMA Send ==
    ASSUME OneAtATime, StreamTyped, NEW key \in MessageKey, SendFinal(key) \/ SendFinalFails(key)
    PROVE  /\ DOMAIN text' = DOMAIN text /\ text' \in [DOMAIN text -> Shown]
           /\ \A k \in DOMAIN text : text'[k] = text[k] \/ text'[k] = "final"
           /\ docs \subseteq docs' /\ docs' \subseteq Chat
           /\ faults' \in 0..MaxFaults /\ (faults' = MaxFaults => faults = MaxFaults /\ Told(key)')
<1>1. /\ faults \in 0..MaxFaults /\ MaxFaults \in Nat /\ text \in [DOMAIN text -> Shown]
      /\ docs \subseteq Chat /\ key.chat \in Chat /\ "final" \in Shown
    BY Facts DEF StreamTyped, MessageKey, Shown
<1>2. CASE Edited(key, "final") /\ docs' = docs /\ faults' = faults
    BY <1>1, <1>2 DEF Edited, Told
<1>3. CASE Refused(key) /\ Spent(key) /\ docs' = docs \cup {key.chat}
    BY <1>1, <1>3 DEF Refused, Spent, Told
<1>4. CASE SendFinalFails(key)
    BY <1>1, <1>4 DEF SendFinalFails, Refused
<1> QED
    BY <1>2, <1>3, <1>4 DEF SendFinal

LEMMA SameTold ==
    ASSUME NEW S, text' = text \/ (\A k \in S : text'[k] = text[k] \/ text'[k] = "final"),
           docs \subseteq docs'
    PROVE  \A k \in S : Told(k) => Told(k)'
BY DEF Told

\* The bubble and the mirrors are messages, and the mirrors are of Telegram.
LEMMA Addresses ==
    ASSUME OneAtATime, DInv, pc \notin Before \cup {"over"}
    PROVE  /\ Live /\ Bubble \in MessageKey /\ Bubble = BubbleKey
           /\ Mirrors = MirrorKeys /\ MirrorKeys \subseteq DOMAIN text
<1>1. Live
    BY DEF DInv, Registered, Before
<1> QED
    BY <1>1, Owned, Read

LEMMA StartFlushStep == OneAtATime /\ DInv /\ StartFlush => DInv'
<1> SUFFICES ASSUME OneAtATime, DInv, StartFlush PROVE DInv'
    OBVIOUS
<1>1. /\ pc = "loop" /\ pc' = "flush" /\ agent = "runs" /\ target' = Bubble
      /\ UNCHANGED <<vars, text, buttons, docs, faults, card, todo, audience, agent, plan, cmd>>
    BY DEF StartFlush, registry, telegram, vars
<1>2. Bubble \in MessageKey
    BY <1>1, Addresses DEF Before
<1>3. IInv' /\ Numbered' /\ InTurn' /\ Commands' /\ Registered' /\ Bubbled' /\ Marked'
    BY <1>1, StreamFrame DEF Before, Running
<1>4. StreamTyped'
    BY <1>1, <1>2 DEF DInv, StreamTyped, Places
<1>5. Finishing'
    BY <1>1 DEF DInv, Finishing, PreFinal, Before, Told
<1> QED
    BY <1>3, <1>4, <1>5 DEF DInv

LEMMA FlushBubbleStep == OneAtATime /\ DInv /\ FlushBubble => DInv'
<1> SUFFICES ASSUME OneAtATime, DInv, FlushBubble PROVE DInv'
    OBVIOUS
<1>1. /\ pc = "flush" /\ TryEdit(target, "live") /\ todo' = Mirrors
      /\ pc' \in {"loop", "flush_mirrors"}
      /\ UNCHANGED <<vars, buttons, docs, card, target, audience, agent, plan, cmd>>
    BY DEF FlushBubble, registry, vars
<1>2. Mirrors \subseteq DOMAIN text
    BY <1>1, Addresses DEF Before
<1>3. /\ DOMAIN text' = DOMAIN text /\ text' \in [DOMAIN text -> Shown]
      /\ \A k \in DOMAIN text : text'[k] = text[k] \/ text'[k] = "live"
      /\ faults' \in 0..MaxFaults /\ (faults' = MaxFaults => faults = MaxFaults)
    <2>1. StreamTyped /\ "live" \in Shown
        BY DEF DInv, Shown
    <2> QED
        BY <1>1, <2>1, Edit
<1>4. IInv' /\ Numbered' /\ InTurn' /\ Commands' /\ Registered' /\ Bubbled' /\ Marked'
    BY <1>1, <1>3, StreamFrame DEF Before, Running
<1>5. StreamTyped'
    BY <1>1, <1>2, <1>3 DEF DInv, StreamTyped, Places
<1>6. Finishing'
    BY <1>1 DEF DInv, Finishing, PreFinal, Before
<1> QED
    BY <1>4, <1>5, <1>6 DEF DInv

LEMMA FlushMirrorStep ==
    ASSUME OneAtATime, DInv, NEW key \in todo, FlushMirror(key)
    PROVE  DInv'
<1>1. /\ pc = "flush_mirrors" /\ TryEdit(key, "live") /\ todo' = todo \ {key}
      /\ pc' \in {"loop", "flush_mirrors"}
      /\ UNCHANGED <<vars, buttons, docs, card, target, audience, agent, plan, cmd>>
    BY DEF FlushMirror, registry, vars
<1>3. /\ DOMAIN text' = DOMAIN text /\ text' \in [DOMAIN text -> Shown]
      /\ \A k \in DOMAIN text : text'[k] = text[k] \/ text'[k] = "live"
      /\ faults' \in 0..MaxFaults /\ (faults' = MaxFaults => faults = MaxFaults)
    <2>1. StreamTyped /\ "live" \in Shown
        BY DEF DInv, Shown
    <2> QED
        BY <1>1, <2>1, Edit
<1>4. IInv' /\ Numbered' /\ InTurn' /\ Commands' /\ Registered' /\ Bubbled' /\ Marked'
    BY <1>1, <1>3, StreamFrame DEF Before, Running
<1>5. StreamTyped'
    BY <1>1, <1>3 DEF DInv, StreamTyped, Places
<1>6. Finishing'
    BY <1>1 DEF DInv, Finishing, PreFinal, Before
<1> QED
    BY <1>4, <1>5, <1>6 DEF DInv

LEMMA AgentEndsStep ==
    ASSUME OneAtATime, DInv, NEW how \in {"idle", "died"}, AgentEnds(how)
    PROVE  DInv'
<1>1. /\ pc \in {"loop", "flush", "flush_mirrors"} /\ agent' = how
      /\ UNCHANGED <<vars, text, buttons, docs, faults, card, pc, target, todo, audience, plan, cmd>>
    BY DEF AgentEnds, registry, telegram, stream, vars
<1>2. IInv' /\ Numbered' /\ InTurn' /\ Commands' /\ Registered' /\ Bubbled' /\ Marked'
    BY <1>1, StreamFrame DEF Before, Running
<1>3. StreamTyped'
    BY <1>1 DEF DInv, StreamTyped
<1>4. Finishing'
    BY <1>1 DEF DInv, Finishing, PreFinal, Before
<1> QED
    BY <1>2, <1>3, <1>4 DEF DInv

LEMMA StartFinalStep == OneAtATime /\ DInv /\ StartFinal => DInv'
<1> SUFFICES ASSUME OneAtATime, DInv, StartFinal PROVE DInv'
    OBVIOUS
<1>1. /\ pc = "loop" /\ pc' = "final" /\ target' = Bubble /\ audience' = Mirrors
      /\ UNCHANGED <<vars, text, buttons, docs, faults, card, todo, agent, plan, cmd>>
    BY DEF StartFinal, registry, telegram, vars
<1>2. Live /\ Bubble \in MessageKey /\ Mirrors = MirrorKeys /\ MirrorKeys \subseteq DOMAIN text
    BY <1>1, Addresses DEF Before
<1>3. IInv' /\ Numbered' /\ InTurn' /\ Commands' /\ Registered' /\ Bubbled' /\ Marked'
    BY <1>1, <1>2, StreamFrame DEF Before, Running
<1>4. StreamTyped'
    BY <1>1, <1>2 DEF DInv, StreamTyped, Places
<1>5. MirrorKeys' = MirrorKeys
    BY <1>1 DEF MirrorKeys, Handle, vars
<1>6. Finishing'
    BY <1>1, <1>2, <1>5 DEF Finishing, PreFinal, Before
<1> QED
    BY <1>3, <1>4, <1>6 DEF DInv

LEMMA FinalToBubbleStep == OneAtATime /\ DInv /\ FinalToBubble => DInv'
<1> SUFFICES ASSUME OneAtATime, DInv, FinalToBubble PROVE DInv'
    OBVIOUS
<1>1. /\ pc = "final" /\ (SendFinal(target) \/ SendFinalFails(target)) /\ todo' = Mirrors
      /\ pc' = IF Mirrors = {} THEN "cleanup" ELSE "final_mirrors"
      /\ UNCHANGED <<vars, buttons, card, target, audience, agent, plan, cmd>>
    BY DEF FinalToBubble, FinalMirrors, registry, vars
<1>2. Live /\ Mirrors = MirrorKeys /\ MirrorKeys \subseteq DOMAIN text
    BY <1>1, Addresses DEF Before
<1>3. /\ DOMAIN text' = DOMAIN text /\ text' \in [DOMAIN text -> Shown]
      /\ \A k \in DOMAIN text : text'[k] = text[k] \/ text'[k] = "final"
      /\ docs \subseteq docs' /\ docs' \subseteq Chat
      /\ faults' \in 0..MaxFaults /\ (faults' = MaxFaults => faults = MaxFaults)
    <2>1. StreamTyped /\ target \in MessageKey
        BY <1>1 DEF DInv, StreamTyped
    <2> QED
        BY <1>1, <2>1, Send
<1>4. IInv' /\ Numbered' /\ InTurn' /\ Commands' /\ Registered' /\ Bubbled' /\ Marked'
    BY <1>1, <1>3, StreamFrame DEF Before, Running
<1>5. StreamTyped'
    BY <1>1, <1>2, <1>3 DEF DInv, StreamTyped, Places
<1>6. MirrorKeys' = MirrorKeys
    BY <1>1 DEF MirrorKeys, Handle, vars
<1>7. Finishing'
    <2>1. audience \subseteq MirrorKeys
        BY <1>2 DEF DInv, Finishing
    <2> QED
        BY <1>1, <1>2, <1>6, <2>1 DEF Finishing, PreFinal, Before
<1> QED
    BY <1>4, <1>5, <1>7 DEF DInv

LEMMA FinalToMirrorStep ==
    ASSUME OneAtATime, DInv, NEW key \in todo, FinalToMirror(key)
    PROVE  DInv'
<1>1. /\ pc = "final_mirrors" /\ (SendFinal(key) \/ SendFinalFails(key)) /\ todo' = todo \ {key}
      /\ pc' = IF todo = {key} THEN "cleanup" ELSE pc
      /\ UNCHANGED <<vars, buttons, card, target, audience, agent, plan, cmd>>
    BY DEF FinalToMirror, registry, vars
<1>2. StreamTyped /\ key \in MessageKey /\ audience \subseteq DOMAIN text
    BY DEF DInv, StreamTyped
<1>3. /\ DOMAIN text' = DOMAIN text /\ text' \in [DOMAIN text -> Shown]
      /\ \A k \in DOMAIN text : text'[k] = text[k] \/ text'[k] = "final"
      /\ docs \subseteq docs' /\ docs' \subseteq Chat
      /\ faults' \in 0..MaxFaults /\ (faults' = MaxFaults => faults = MaxFaults /\ Told(key)')
    BY <1>1, <1>2, Send
<1>4. IInv' /\ Numbered' /\ InTurn' /\ Commands' /\ Registered' /\ Bubbled' /\ Marked'
    BY <1>1, <1>3, StreamFrame DEF Before, Running
<1>5. StreamTyped'
    BY <1>1, <1>3 DEF DInv, StreamTyped, Places
<1>6. MirrorKeys' = MirrorKeys /\ (Live)' = Live
    BY <1>1 DEF MirrorKeys, Handle, Live, vars
<1>7. Finishing'
    <2>1. faults' = MaxFaults => \A k \in audience \ todo' : Told(k)'
        <3>1. faults' = MaxFaults => \A k \in audience \ todo : Told(k)
            BY <1>1, <1>3 DEF DInv, Finishing
        <3>2. \A k \in audience : Told(k) => Told(k)'
            BY <1>2, <1>3, SameTold
        <3> QED
            BY <1>1, <1>3, <3>1, <3>2
    <2>2. Live => audience \subseteq MirrorKeys
        BY DEF DInv, Finishing
    <2> QED
        BY <1>1, <1>6, <2>1, <2>2 DEF Finishing, PreFinal, Before
<1> QED
    BY <1>4, <1>5, <1>7 DEF DInv

\* The last steps write nothing any more.
LEMMA ToldStays ==
    ASSUME OneAtATime, DInv, UNCHANGED <<text, docs, vars, audience>>
    PROVE  /\ \A k \in audience : Told(k) => Told(k)'
           /\ (Live => audience \subseteq MirrorKeys)'
<1>1. MirrorKeys' = MirrorKeys /\ (Live)' = Live
    BY DEF MirrorKeys, Handle, Live, vars
<1> QED
    BY <1>1 DEF DInv, Finishing, Told

LEMMA StartCleanupStep == OneAtATime /\ DInv /\ StartCleanup => DInv'
<1> SUFFICES ASSUME OneAtATime, DInv, StartCleanup PROVE DInv'
    OBVIOUS
<1>1. /\ pc = "cleanup" /\ card' = None /\ pc' \in {"remove", "clear"}
      /\ todo' = (IF Live THEN Handle.bound ELSE {}) \cup ({card} \ {None})
      /\ UNCHANGED <<vars, text, buttons, docs, faults, target, audience, agent, plan, cmd>>
    BY DEF StartCleanup, CardKey, registry, telegram, vars, Handle
<1>2. Live => Handle.bound \subseteq DOMAIN text
    BY Owned
<1>3. IInv' /\ Numbered' /\ InTurn' /\ Commands' /\ Registered' /\ Bubbled' /\ Marked'
    BY <1>1, StreamFrame DEF Before, Running
<1>4. StreamTyped'
    BY <1>1, <1>2 DEF DInv, StreamTyped, Places
<1>5. Finishing'
    BY <1>1, ToldStays DEF DInv, Finishing, PreFinal, Before
<1> QED
    BY <1>3, <1>4, <1>5 DEF DInv

LEMMA ClearButtonsStep ==
    ASSUME OneAtATime, DInv, NEW key \in todo, ClearButtons(key)
    PROVE  DInv'
<1>1. /\ pc = "clear" /\ pc' \in {"remove", "clear"} /\ todo' = todo \ {key}
      /\ buttons' \subseteq buttons
      /\ faults' = faults \/ (faults > 0 /\ faults' = faults - 1)
      /\ UNCHANGED <<vars, text, docs, card, target, audience, agent, plan, cmd>>
    BY DEF ClearButtons, registry, vars
<1>2. faults' \in 0..MaxFaults /\ (faults' = MaxFaults => faults = MaxFaults)
    BY <1>1, Facts DEF DInv, StreamTyped
<1>3. IInv' /\ Numbered' /\ InTurn' /\ Commands' /\ Registered' /\ Bubbled' /\ Marked'
    BY <1>1, StreamFrame DEF Before, Running
<1>4. StreamTyped'
    BY <1>1, <1>2 DEF DInv, StreamTyped, Places
<1>5. Finishing'
    BY <1>1, <1>2, ToldStays DEF DInv, Finishing, PreFinal, Before
<1> QED
    BY <1>3, <1>4, <1>5 DEF DInv

LEMMA TapStopStep ==
    ASSUME OneAtATime, DInv, NEW key \in DOMAIN text, TapStop(key)
    PROVE  DInv'
<1>1. /\ agent = "runs" /\ agent' = "idle" /\ buttons' = buttons \ {card} /\ card' = None
      /\ UNCHANGED <<vars, text, docs, faults, pc, target, todo, audience, plan, cmd>>
    BY DEF TapStop, registry, stream, vars
<1>2. pc \in Before => card' = None /\ (pc = "bind" => target' = target /\ target \in buttons')
    <2>1. pc = "bind" => target \in buttons /\ target \in MessageKey /\ card = None
        BY DEF DInv, Registered, StreamTyped, Before
    <2> QED
        BY <1>1, <2>1, Facts
<1>3. IInv' /\ Numbered' /\ InTurn' /\ Commands' /\ Registered' /\ Bubbled' /\ Marked'
    BY <1>1, <1>2, StreamFrame DEF Running
<1>4. StreamTyped'
    BY <1>1 DEF DInv, StreamTyped
<1>5. Finishing'
    BY <1>1, ToldStays DEF DInv, Finishing
<1> QED
    BY <1>3, <1>4, <1>5 DEF DInv

-----------------------------------------------------------------------------
\* Before the binding no command is under way, so none has anything in its hands.
LEMMA Waiting ==
    ASSUME OneAtATime, DInv, pc \in Before, UNCHANGED <<plan, cmd>>
    PROVE  InTurn' /\ Commands'
<1>1. \A c \in DOMAIN plan : cmd[c].at = "ready"
    BY DEF DInv, InTurn, At
<1> QED
    BY <1>1 DEF InTurn, Commands, Carries, At

LEMMA CountsUnsent ==
    ASSUME OneAtATime, DInv
    PROVE  /\ IsFiniteSet(Unsent) /\ Cardinality(Unsent) \in Nat /\ Unposted \in Nat
           /\ plan \in Seq(Command) /\ DOMAIN plan = 1..Len(plan) /\ Len(plan) \in Nat
<1>1. plan \in Seq(Command) /\ DOMAIN plan = 1..Len(plan) /\ Len(plan) \in Nat
    BY Facts DEF DInv, StreamTyped
<1>2. Unsent \subseteq 1..Len(plan)
    BY <1>1 DEF Unsent
<1>3. IsFiniteSet(1..Len(plan))
    BY <1>1, FS_Interval
<1>4. IsFiniteSet(Unsent) /\ Cardinality(Unsent) \in Nat
    BY <1>2, <1>3, FS_Subset, FS_CardinalityType
<1> QED
    BY <1>1, <1>4 DEF Unposted

\* A message that is posted is new to its chat, and there is an id for it.
LEMMA Posted ==
    ASSUME OneAtATime, DInv, NEW place \in ChatThreadKey, NEW what \in Shown, Post(place, what),
           Unposted >= 1,
           NEW key, key = Key(place, NextId(place.chat))
    PROVE  /\ key \in MessageKey /\ key \notin DOMAIN text /\ key.chat = place.chat
           /\ DOMAIN text' = DOMAIN text \cup {key} /\ text' \in [DOMAIN text' -> Shown]
           /\ text'[key] = what /\ \A k \in DOMAIN text : text'[k] = text[k]
<1> DEFINE n == Cardinality(In(place.chat))
<1>1. place.chat \in Chat
    BY DEF ChatThreadKey
<1>2. /\ IsFiniteSet(In(place.chat)) /\ n \in Nat /\ n + Unposted <= Len(plan) + 2
      /\ \A k \in In(place.chat) : k.msg \in 1..n
    BY <1>1, FS_CardinalityType DEF DInv, Numbered
<1>3. key = [chat |-> place.chat, msg |-> n + 1]
    BY <1>2 DEF Key, NextId, In
<1>4. key \in MessageKey
    <2>1. plan \in Plans
        BY DEF DInv, StreamTyped
    <2>2. n + 1 \in 1..(Len(plan) + 2)
        BY <1>2, CountsUnsent
    <2> QED
        BY <1>1, <1>3, <2>1, <2>2, Facts DEF MessageKey
<1>5. key \notin DOMAIN text
    BY <1>2, <1>3 DEF In
<1>6. text' = [k \in DOMAIN text \cup {key} |-> IF k = key THEN what ELSE text[k]]
    BY DEF Post, Put
<1>7. text \in [DOMAIN text -> Shown]
    BY DEF DInv, StreamTyped
<1> HIDE DEF n
<1> QED
    BY <1>3, <1>4, <1>5, <1>6, <1>7

\* Only the chat it is posted in has one message more.
LEMMA PostedIn ==
    ASSUME OneAtATime, DInv, NEW place \in ChatThreadKey, NEW what \in Shown, Post(place, what),
           Unposted >= 1,
           NEW key, key = Key(place, NextId(place.chat))
    PROVE  \A chat \in Chat :
              /\ IsFiniteSet(In(chat)')
              /\ Cardinality(In(chat)') =
                    IF chat = place.chat THEN Cardinality(In(chat)) + 1 ELSE Cardinality(In(chat))
              /\ \A k \in In(chat)' : k.msg \in 1..Cardinality(In(chat)')
<1> DEFINE n == Cardinality(In(place.chat))
<1>1. place.chat \in Chat
    BY DEF ChatThreadKey
<1>2. /\ IsFiniteSet(In(place.chat)) /\ n \in Nat /\ n + Unposted <= Len(plan) + 2
      /\ \A k \in In(place.chat) : k.msg \in 1..n
    BY <1>1, FS_CardinalityType DEF DInv, Numbered
<1>3. key = [chat |-> place.chat, msg |-> n + 1]
    BY <1>2 DEF Key, NextId, In
<1>4. key \notin DOMAIN text
    BY Posted
<1>5. DOMAIN text' = DOMAIN text \cup {key}
    BY DEF Post, Put
<1>6. ASSUME NEW chat \in Chat
      PROVE  /\ IsFiniteSet(In(chat)')
             /\ Cardinality(In(chat)') =
                   IF chat = place.chat THEN Cardinality(In(chat)) + 1 ELSE Cardinality(In(chat))
             /\ \A k \in In(chat)' : k.msg \in 1..Cardinality(In(chat)')
    <2>1. CASE chat = place.chat
        <3>1. In(chat) = In(place.chat)
            BY <2>1
        <3>2. In(chat)' = In(place.chat) \cup {key} /\ key \notin In(place.chat)
            BY <1>3, <1>4, <1>5, <2>1 DEF In
        <3>3. /\ IsFiniteSet(In(place.chat) \cup {key})
              /\ Cardinality(In(place.chat) \cup {key}) = n + 1
            BY <1>2, <3>2, FS_AddElement
        <3>4. IsFiniteSet(In(chat)') /\ Cardinality(In(chat)') = n + 1 /\ Cardinality(In(chat)) = n
            BY <3>1, <3>2, <3>3
        <3>5. \A k \in In(chat)' : k.msg \in 1..(n + 1)
            BY <1>2, <1>3, <3>2
        <3> HIDE DEF n
        <3> QED
            BY <2>1, <3>4, <3>5
    <2>2. CASE chat # place.chat
        <3>1. In(chat)' = In(chat)
            BY <1>3, <1>5, <2>2 DEF In
        <3> QED
            BY <2>2, <3>1 DEF DInv, Numbered
    <2> QED
        BY <2>1, <2>2
<1> QED
    BY <1>6

LEMMA NumberedAfterPost ==
    ASSUME OneAtATime, DInv, NEW place \in ChatThreadKey, NEW what \in Shown, Post(place, what),
           Unposted >= 1, Unposted' = Unposted - 1, plan' = plan,
           UNCHANGED <<by_message, moved_messages>>
    PROVE  Numbered'
<1> DEFINE key == Key(place, NextId(place.chat))
<1>1. /\ DOMAIN text' = DOMAIN text \cup {key}
      /\ \A chat \in Chat :
            /\ IsFiniteSet(In(chat)')
            /\ Cardinality(In(chat)') =
                  IF chat = place.chat THEN Cardinality(In(chat)) + 1 ELSE Cardinality(In(chat))
            /\ \A k \in In(chat)' : k.msg \in 1..Cardinality(In(chat)')
    BY Posted, PostedIn
<1>2. \A chat \in Chat : Cardinality(In(chat)) \in Nat /\ Cardinality(In(chat)) + Unposted <= Len(plan) + 2
    BY FS_CardinalityType DEF DInv, Numbered
<1> HIDE DEF key
<1>3. DOMAIN by_message' \subseteq DOMAIN text' /\ DOMAIN moved_messages' \subseteq DOMAIN text'
    BY <1>1 DEF DInv, Numbered
<1>4. \A chat \in Chat : Cardinality(In(chat)') + Unposted' <= Len(plan) + 2
    BY <1>1, <1>2, CountsUnsent
<1> QED
    BY <1>1, <1>3, <1>4 DEF Numbered

LEMMA RegisterStreamStep == OneAtATime /\ DInv /\ Register => DInv'
<1> SUFFICES ASSUME OneAtATime, DInv, Register PROVE DInv'
    OBVIOUS
<1>1. /\ pc = "start"
      /\ \/ RegisterRun(Run, Run, Home, None) /\ pc' = "placeholder"
         \/ RejectRun(Run, Home, None) /\ pc' = "over"
      /\ UNCHANGED <<text, buttons, docs, faults, card, target, todo, audience, agent, plan, cmd>>
    BY DEF Register, telegram
<1>2. next_generated = 0 /\ ~Live /\ moved_messages = EmptyMap /\ card = None
    BY <1>1 DEF DInv, Registered, Before
<1>3. /\ IInv' /\ by_message' = by_message /\ moved_messages' = moved_messages
      /\ pc' = "over" => by_run' = by_run
      /\ pc' = "placeholder" =>
            /\ Run \in DOMAIN by_run'
            /\ by_run'[Run] = [session |-> Run, origin |-> Home, source |-> None,
                                 bubble |-> None, mirrors |-> {}, bound |-> {}]
    <2>1. CASE RegisterRun(Run, Run, Home, None) /\ pc' = "placeholder"
        <3>1. CountedId(Run) <= MaxGenerated /\ ChosenId(Run) = Run
            BY <1>2, Facts DEF CountedId, ChosenId
        <3>2. IInv'
            BY <2>1, <3>1, Facts, RegisterStep DEF DInv
        <3> QED
            BY <2>1, <3>1, <3>2 DEF RegisterRun, Put
    <2>2. CASE RejectRun(Run, Home, None) /\ pc' = "over"
        <3>1. CountedId(None) <= MaxGenerated
            BY <1>2, Facts DEF CountedId
        <3>2. IInv'
            BY <2>2, <3>1, Facts, RejectStep DEF DInv
        <3> QED
            BY <2>2, <3>2 DEF RejectRun
    <2> QED
        BY <1>1, <2>1, <2>2
<1>4. StreamTyped'
    BY <1>1 DEF DInv, StreamTyped, Places
<1>5. Numbered'
    <2>1. /\ \A chat : In(chat)' = In(chat)
          /\ Unposted' <= Unposted /\ Unposted' \in Nat
        BY <1>1, CountsUnsent DEF In, Unposted, Unsent, At
    <2>2. \A chat \in Chat : Cardinality(In(chat)) \in Nat /\ Cardinality(In(chat)) + Unposted <= Len(plan) + 2
        BY FS_CardinalityType DEF DInv, Numbered
    <2>3. \A chat \in Chat : Cardinality(In(chat)) + Unposted' <= Len(plan) + 2
        BY <2>1, <2>2, CountsUnsent
    <2> QED
        BY <1>1, <1>3, <2>1, <2>3 DEF DInv, Numbered
<1>6. InTurn' /\ Commands'
    BY <1>1, Waiting DEF Before
<1>7. Registered'
    BY <1>1, <1>2, <1>3 DEF Registered, Live, Handle, Before
<1>8. Bubbled' /\ Marked'
    <2>1. pc' \in Before \cup {"over"}
        BY <1>1 DEF Before
    <2>2. Noticed' = Noticed
        BY <1>3 DEF Noticed
    <2> QED
        BY <1>1, <1>2, <1>3, <2>1, <2>2 DEF DInv, Bubbled, Marked, Live
<1>9. Finishing'
    BY <1>1 DEF DInv, Finishing, PreFinal, Before
<1> QED
    BY <1>3, <1>4, <1>5, <1>6, <1>7, <1>8, <1>9 DEF DInv

LEMMA PlaceholderSentStep == OneAtATime /\ DInv /\ PlaceholderSent => DInv'
<1> SUFFICES ASSUME OneAtATime, DInv, PlaceholderSent PROVE DInv'
    OBVIOUS
<1> DEFINE key == Key(Home, NextId(Home.chat))
<1>0. key = Key(Home, NextId(Home.chat))
    OBVIOUS
<1>1. /\ pc = "placeholder" /\ pc' = "bind" /\ Post(Home, "live")
      /\ buttons' = buttons \cup {key} /\ target' = key
      /\ UNCHANGED <<vars, docs, faults, card, todo, audience, agent, plan, cmd>>
    BY DEF PlaceholderSent, registry, vars
<1> HIDE DEF key
<1>2. Unposted >= 1 /\ Unposted' = Unposted - 1
    BY <1>1, CountsUnsent DEF Unposted, Unsent, At
<1>3. "live" \in Shown /\ Home \in ChatThreadKey
    BY Facts DEF Shown
<1>4. /\ key \in MessageKey /\ key \notin DOMAIN text /\ key.chat = Home.chat
      /\ DOMAIN text' = DOMAIN text \cup {key} /\ text' \in [DOMAIN text' -> Shown]
      /\ text'[key] = "live" /\ \A k \in DOMAIN text : text'[k] = text[k]
    BY <1>0, <1>1, <1>2, <1>3, Posted
<1>5. Numbered'
    BY <1>1, <1>2, <1>3, NumberedAfterPost DEF vars
<1>6. /\ by_run' = by_run /\ by_message' = by_message /\ moved_messages' = moved_messages
    BY <1>1 DEF vars
<1>7. IInv'
    BY <1>1, NextInv DEF DInv
<1>8. StreamTyped'
    BY <1>1, <1>4 DEF DInv, StreamTyped, Places
<1>9. InTurn' /\ Commands'
    BY <1>1, Waiting DEF Before
<1>10. key \notin DOMAIN by_message
    BY <1>4 DEF DInv, Numbered
<1>11. Registered'
    BY <1>1, <1>4, <1>6, <1>10 DEF DInv, Registered, Live, Handle, Before
<1>12. Bubbled'
    BY <1>1 DEF Bubbled, Before
<1>13. Marked'
    <2>1. Noticed' = Noticed
        BY <1>6 DEF Noticed
    <2> QED
        BY <1>1, <1>4, <2>1 DEF DInv, Marked
<1>14. Finishing'
    BY <1>1 DEF DInv, Finishing, PreFinal, Before
<1> QED
    BY <1>5, <1>7, <1>8, <1>9, <1>11, <1>12, <1>13, <1>14 DEF DInv

\* The run is taken out of the registry, and its messages with it.
LEMMA Forget ==
    ASSUME OneAtATime, DInv, Live, RemoveRun(Run)
    PROVE  /\ IInv' /\ (~Live)'
           /\ DOMAIN by_message' \subseteq DOMAIN by_message
           /\ DOMAIN moved_messages' \subseteq DOMAIN moved_messages
<1>1. IInv'
    BY RemoveStep DEF DInv, Live
<1> QED
    BY <1>1 DEF RemoveRun, Drop, Restrict, Live

\* A stream that ends without a message, or has shown all it had to show.
LEMMA OverStep ==
    ASSUME OneAtATime, DInv, Live, RemoveRun(Run), pc' = "over",
           pc = "placeholder" \/ pc = "remove",
           UNCHANGED <<text, buttons, docs, card, target, todo, audience, agent, plan, cmd>>,
           faults' = faults \/ (faults > 0 /\ faults' = faults - 1)
    PROVE  DInv'
<1>1. /\ IInv' /\ (~Live)' /\ DOMAIN by_message' \subseteq DOMAIN by_message
      /\ DOMAIN moved_messages' \subseteq DOMAIN moved_messages
    BY Forget
<1>2. faults' \in 0..MaxFaults /\ (faults' = MaxFaults => faults = MaxFaults)
    BY Facts DEF DInv, StreamTyped
<1>3. StreamTyped'
    BY <1>2 DEF DInv, StreamTyped, Places
<1>4. Numbered'
    <2>1. /\ \A chat : In(chat)' = In(chat)
          /\ Unposted' <= Unposted /\ Unposted' \in Nat
        BY CountsUnsent DEF In, Unposted, Unsent, At
    <2>2. \A chat \in Chat : Cardinality(In(chat)) \in Nat /\ Cardinality(In(chat)) + Unposted <= Len(plan) + 2
        BY FS_CardinalityType DEF DInv, Numbered
    <2>3. \A chat \in Chat : Cardinality(In(chat)) + Unposted' <= Len(plan) + 2
        BY <2>1, <2>2, CountsUnsent
    <2> QED
        BY <1>1, <2>1, <2>3 DEF DInv, Numbered
<1>5. InTurn'
    BY DEF DInv, InTurn, At, Before
<1>6. Commands'
    <2> SUFFICES ASSUME NEW c \in DOMAIN plan PROVE Carries(c, cmd[c])'
        BY DEF Commands
    <2>1. Carries(c, cmd[c])
        BY DEF DInv, Commands
    <2> QED
        BY <1>1, <2>1 DEF Carries
<1>7. Registered' /\ Bubbled' /\ Marked'
    BY <1>1 DEF Registered, Bubbled, Marked, Before
<1>8. Finishing'
    <2>1. \A k \in audience : Told(k) => Told(k)'
        BY DEF Told
    <2> QED
        BY <1>1, <1>2, <2>1 DEF DInv, Finishing, PreFinal, Before
<1> QED
    BY <1>1, <1>3, <1>4, <1>5, <1>6, <1>7, <1>8 DEF DInv

LEMMA PlaceholderFailedStep == OneAtATime /\ DInv /\ PlaceholderFailed => DInv'
<1> SUFFICES ASSUME OneAtATime, DInv, PlaceholderFailed PROVE DInv'
    OBVIOUS
<1>1. Live
    BY DEF PlaceholderFailed, DInv, Registered
<1> QED
    BY <1>1, OverStep DEF PlaceholderFailed, ForgetRun

LEMMA RemoveStreamStep == OneAtATime /\ DInv /\ Unregister => DInv'
<1> SUFFICES ASSUME OneAtATime, DInv, Unregister PROVE DInv'
    OBVIOUS
<1>1. Live /\ pc = "remove"
    BY DEF Unregister, DInv, Registered
<1> QED
    BY <1>1, OverStep DEF Unregister, ForgetRun, telegram

LEMMA BindStreamStep == OneAtATime /\ DInv /\ Bind => DInv'
<1> SUFFICES ASSUME OneAtATime, DInv, Bind PROVE DInv'
    OBVIOUS
<1>1. /\ pc = "bind" /\ Live /\ moved_messages = EmptyMap
      /\ Handle.origin = Home /\ Handle.mirrors = {} /\ Handle.bound = {}
      /\ target \in buttons /\ target \notin DOMAIN by_message /\ target.chat = Home.chat
      /\ target \in MessageKey /\ target \in DOMAIN text /\ Handle \in RunHandle
    BY Owned DEF Bind, DInv, Registered, Before, StreamTyped
<1>2. /\ BindMessage(Run, target) /\ card' = target /\ pc' = "loop"
      /\ UNCHANGED <<text, buttons, docs, faults, target, todo, audience, agent, plan, cmd>>
    BY <1>1 DEF Bind, Bindable, Live, telegram
<1>3. IInv'
    BY <1>1, <1>2, BindStep DEF DInv, Live
<1>4. /\ by_run' = [by_run EXCEPT ![Run].bubble = target.msg, ![Run].bound = @ \cup {target}]
      /\ by_message' = Put(by_message, target, Run) /\ moved_messages' = moved_messages
    BY <1>2 DEF BindMessage
<1>5. /\ (Live)' /\ Handle'.bubble = target.msg /\ target \in Handle'.bound
      /\ Handle'.mirrors = {} /\ Handle'.origin = Home
    BY <1>1, <1>4 DEF Live, Handle, RunHandle
<1>6. BubbleKey' = target /\ MirrorKeys' = {} /\ Noticed' = {}
    <2>1. BubbleKey' = [chat |-> Home.chat, msg |-> target.msg]
        BY <1>5 DEF BubbleKey, message_key, PrimarySink, Handle
    <2>2. target = [chat |-> target.chat, msg |-> target.msg]
        BY <1>1 DEF MessageKey
    <2>3. Noticed' = {}
        BY <1>1, <1>4 DEF Noticed, EmptyMap
    <2> QED
        BY <1>1, <1>5, <2>1, <2>2, <2>3 DEF MirrorKeys
<1>7. StreamTyped'
    BY <1>1, <1>2 DEF DInv, StreamTyped, Places
<1>8. Numbered'
    <2>1. Unposted' = Unposted /\ \A chat : In(chat)' = In(chat)
        BY <1>1, <1>2 DEF Unposted, Unsent, At, In
    <2>2. DOMAIN by_message' = DOMAIN by_message \cup {target}
        BY <1>4 DEF Put
    <2> QED
        BY <1>1, <1>2, <1>4, <2>1, <2>2 DEF DInv, Numbered
<1>9. InTurn' /\ Commands'
    BY <1>1, <1>2, Waiting DEF Before
<1>10. Registered'
    BY <1>2, <1>5 DEF Registered, Before
<1>11. Bubbled'
    BY <1>1, <1>2, <1>5, <1>6, RegistryAssumption DEF Bubbled, MessageKey
<1>12. Marked'
    <2>1. Noticed = {}
        BY <1>1 DEF Noticed, EmptyMap
    <2> QED
        BY <1>1, <1>2, <2>1 DEF DInv, Marked
<1>13. Finishing'
    BY <1>1, <1>2 DEF DInv, Finishing, PreFinal, Before
<1> QED
    BY <1>3, <1>7, <1>8, <1>9, <1>10, <1>11, <1>12, <1>13 DEF DInv

-----------------------------------------------------------------------------
\* The one command that may move: the earlier ones are done, no other is under way.
Turn(c) ==
    /\ c \in DOMAIN plan /\ pc \notin Before /\ ~At(c, {"done"})
    /\ \A d \in 1..(c - 1) : At(d, {"done"})
    /\ \A d \in DOMAIN plan \ {c} : At(d, {"ready", "done"})

LEMMA BusyHasTurn ==
    ASSUME OneAtATime, DInv, NEW c \in DOMAIN plan, ~At(c, {"ready", "done"})
    PROVE  Turn(c)
<1>1. DOMAIN plan = 1..Len(plan) /\ Len(plan) \in Nat
    BY CountsUnsent
<1>2. pc \notin Before /\ \A d \in 1..(c - 1) : At(d, {"done"})
    BY DEF DInv, InTurn, At
<1>3. ASSUME NEW d \in DOMAIN plan, d # c PROVE At(d, {"ready", "done"})
    <2>1. CASE d < c
        BY <1>1, <1>2, <2>1 DEF At
    <2>2. CASE d > c
        <3>1. c \in 1..(d - 1)
            BY <1>1, <2>2
        <3> QED
            BY <1>3, <3>1 DEF DInv, InTurn, At
    <2> QED
        BY <1>1, <1>3, <2>1, <2>2
<1> QED
    BY <1>2, <1>3 DEF Turn, At

LEMMA MayHasTurn ==
    ASSUME OneAtATime, DInv, NEW c \in DOMAIN plan, NEW op, May(c, op)
    PROVE  Turn(c) /\ At(c, {"ready"}) /\ plan[c].op = op
<1>1. DOMAIN plan = 1..Len(plan) /\ Len(plan) \in Nat
    BY CountsUnsent
<1>2. /\ cmd[c].at = "ready" /\ plan[c].op = op /\ pc \notin Before
      /\ \A d \in 1..(c - 1) : At(d, {"done"})
    BY Facts DEF May, Ended, At, Before
<1>3. ASSUME NEW d \in DOMAIN plan, d # c PROVE At(d, {"ready", "done"})
    <2>1. CASE d < c
        BY <1>1, <1>2, <2>1 DEF At
    <2>2. CASE d > c
        <3>1. c \in 1..(d - 1)
            BY <1>1, <2>2
        <3> QED
            BY <1>2, <1>3, <3>1 DEF DInv, InTurn, At
    <2> QED
        BY <1>1, <1>3, <2>1, <2>2
<1> QED
    BY <1>2, <1>3 DEF Turn, At

CommandRecord == [at : Steps, msg : MessageKey \cup {None}, old : SUBSET MessageKey]

\* A step of a command moves that command on and no other.
LEMMA CommandFrame ==
    ASSUME OneAtATime, DInv, NEW c, Turn(c), NEW r \in CommandRecord, r.at # "ready",
           cmd' = [cmd EXCEPT ![c] = r], plan' = plan, pc' = pc,
           Carries(c, r)'
    PROVE  /\ cmd' \in [DOMAIN plan -> CommandRecord] /\ InTurn' /\ Commands'
           /\ (Rebinding' <=> r.at = "moved") /\ (Unattached' <=> r.at \in {"moved", "bound"})
           /\ (Rebinding <=> cmd[c].at = "moved")
           /\ (Unattached <=> cmd[c].at \in {"moved", "bound"})
           /\ Unposted' \in Nat /\ Unposted' <= Unposted
           /\ (cmd[c].at = "ready" => Unposted >= 1 /\ Unposted' = Unposted - 1)
<1>1. c \in DOMAIN plan /\ cmd \in [DOMAIN plan -> CommandRecord]
    BY DEF Turn, DInv, StreamTyped, CommandRecord
<1>2. cmd'[c] = r /\ \A d \in DOMAIN plan \ {c} : cmd'[d] = cmd[d]
    BY <1>1
<1>3. cmd' \in [DOMAIN plan -> CommandRecord]
    BY <1>1
<1>0. DOMAIN plan = 1..Len(plan) /\ Len(plan) \in Nat
    BY CountsUnsent
<1>4. InTurn'
    <2>1. pc \notin Before
        BY DEF Turn
    <2> SUFFICES ASSUME NEW e \in DOMAIN plan, ~At(e, {"ready"})', NEW d \in 1..(e - 1)
                 PROVE  At(d, {"done"})'
        BY <2>1 DEF InTurn
    <2>2. d \in DOMAIN plan
        BY <1>0
    <2>3. CASE e = c
        BY <1>0, <1>2, <2>2, <2>3 DEF Turn, At
    <2>4. CASE e # c
        <3>1. \A f \in 1..(e - 1) : At(f, {"done"})
            BY <1>2, <2>4 DEF At, DInv, InTurn
        <3> QED
            BY <1>2, <2>2, <3>1 DEF Turn, At
    <2> QED
        BY <2>3, <2>4
<1>5. Commands'
    <2> SUFFICES ASSUME NEW d \in DOMAIN plan PROVE Carries(d, cmd[d])'
        BY DEF Commands
    <2>1. CASE d = c
        BY <1>2, <2>1
    <2>2. CASE d # c
        <3>1. cmd'[d] = cmd[d] /\ cmd[d].at \in {"ready", "done"}
            BY <1>2, <2>2 DEF Turn, At
        <3> QED
            BY <3>1 DEF Carries
    <2> QED
        BY <2>1, <2>2
<1>6. /\ (Rebinding' <=> r.at = "moved") /\ (Unattached' <=> r.at \in {"moved", "bound"})
      /\ (Rebinding <=> cmd[c].at = "moved") /\ (Unattached <=> cmd[c].at \in {"moved", "bound"})
    BY <1>1, <1>2 DEF Rebinding, Unattached, At, Turn
<1>7. /\ Unposted' \in Nat /\ Unposted' <= Unposted
      /\ (cmd[c].at = "ready" => Unposted >= 1 /\ Unposted' = Unposted - 1)
    <2>1. Unsent' = Unsent \ {c}
        BY <1>1, <1>2 DEF Unsent, At
    <2>2. /\ IsFiniteSet(Unsent \ {c})
          /\ Cardinality(Unsent \ {c}) = IF c \in Unsent THEN Cardinality(Unsent) - 1 ELSE Cardinality(Unsent)
        BY CountsUnsent, FS_RemoveElement
    <2>3. c \in Unsent <=> cmd[c].at = "ready"
        BY <1>1 DEF Unsent, At
    <2>4. c \in Unsent => Cardinality(Unsent) >= 1
        BY <2>2, CountsUnsent, FS_CardinalityType
    <2> QED
        BY <2>1, <2>2, <2>3, <2>4, CountsUnsent, FS_CardinalityType DEF Unposted
<1> QED
    BY <1>3, <1>4, <1>5, <1>6, <1>7

\* What a step of a command has to show for the rest of the invariant to follow.
LEMMA CommandKeeps ==
    ASSUME OneAtATime, DInv, NEW c, Turn(c), NEW r \in CommandRecord, r.at # "ready",
           cmd' = [cmd EXCEPT ![c] = r],
           UNCHANGED <<docs, pc, target, todo, audience, agent, plan>>,
           Carries(c, r)', IInv', Numbered', Bubbled', Marked', (Live)' = Live,
           Live => MirrorKeys \subseteq MirrorKeys',
           text' \in [DOMAIN text' -> Shown], DOMAIN text' \subseteq MessageKey,
           DOMAIN text \subseteq DOMAIN text', \A k \in audience : text'[k] = text[k],
           buttons' \subseteq DOMAIN text', card' \in DOMAIN text' \cup {None},
           faults' \in 0..MaxFaults, faults' = MaxFaults => faults = MaxFaults
    PROVE  DInv'
<1>1. cmd' \in [DOMAIN plan -> CommandRecord] /\ InTurn' /\ Commands'
    BY CommandFrame
<1>2. pc \notin Before
    BY DEF Turn
<1>3. StreamTyped'
    <2>1. todo' \subseteq DOMAIN text' /\ audience' \subseteq DOMAIN text'
        BY DEF DInv, StreamTyped
    <2> QED
        BY <1>1, <2>1 DEF DInv, StreamTyped, CommandRecord
<1>4. Registered'
    BY <1>2 DEF DInv, Registered, Before
<1>5. Finishing'
    <2>1. \A k \in audience : Told(k) => Told(k)'
        BY DEF Told
    <2>2. (Live)' => audience' \subseteq MirrorKeys'
        BY DEF DInv, Finishing
    <2> QED
        BY <2>1, <2>2 DEF DInv, Finishing, PreFinal, Before
<1> QED
    BY <1>1, <1>3, <1>4, <1>5 DEF DInv

LEMMA SameRegistry ==
    ASSUME vars' = vars
    PROVE  /\ by_run' = by_run /\ by_message' = by_message /\ moved_messages' = moved_messages
           /\ (Live)' = Live /\ Handle' = Handle /\ Noticed' = Noticed
           /\ MirrorKeys' = MirrorKeys /\ BubbleKey' = BubbleKey
BY DEF vars, Live, Handle, Noticed, MirrorKeys, BubbleKey, PrimarySink

\* Without a message posted the ids count as before.
LEMMA NumberedStays ==
    ASSUME OneAtATime, DInv, DOMAIN text' = DOMAIN text, plan' = plan,
           Unposted' \in Nat, Unposted' <= Unposted,
           DOMAIN by_message' \subseteq DOMAIN text, DOMAIN moved_messages' \subseteq DOMAIN text
    PROVE  Numbered'
<1>1. \A chat : In(chat)' = In(chat)
    BY DEF In
<1>2. \A chat \in Chat : Cardinality(In(chat)) \in Nat /\ Cardinality(In(chat)) + Unposted <= Len(plan) + 2
    BY FS_CardinalityType DEF DInv, Numbered
<1>3. \A chat \in Chat : Cardinality(In(chat)) + Unposted' <= Len(plan) + 2
    BY <1>2, CountsUnsent
<1> QED
    BY <1>1, <1>3 DEF DInv, Numbered

\* A step of a command that leaves the registry alone, and posts nothing.
LEMMA QuietCommand ==
    ASSUME OneAtATime, DInv, NEW c, Turn(c), NEW r \in CommandRecord,
           r.at \notin {"ready", "moved", "bound"}, cmd[c].at = "moved" => ~Live,
           cmd' = [cmd EXCEPT ![c] = r], Carries(c, r),
           UNCHANGED <<vars, docs, card, pc, target, todo, audience, agent, plan>>,
           DOMAIN text' = DOMAIN text, text' \in [DOMAIN text -> Shown],
           \A k \in audience : text'[k] = text[k],
           \A k \in DOMAIN text : text'[k] = "moved" => text[k] = "moved" \/ ~Live \/ k \in Noticed,
           buttons' \subseteq DOMAIN text,
           Live /\ Running /\ faults' = MaxFaults => BubbleKey \in buttons',
           faults' \in 0..MaxFaults, faults' = MaxFaults => faults = MaxFaults
    PROVE  DInv'
<1>1. /\ by_run' = by_run /\ by_message' = by_message /\ moved_messages' = moved_messages
      /\ (Live)' = Live /\ Handle' = Handle /\ Noticed' = Noticed
      /\ MirrorKeys' = MirrorKeys /\ BubbleKey' = BubbleKey /\ vars' = vars
    BY SameRegistry
<1>2. Carries(c, r)'
    BY <1>1 DEF Carries
<1>3. /\ Rebinding <=> cmd[c].at = "moved"
      /\ ~Rebinding' /\ Unposted' \in Nat /\ Unposted' <= Unposted
    BY <1>2, CommandFrame
<1>4. IInv'
    BY <1>1, NextInv DEF DInv
<1>5. Numbered'
    BY <1>1, <1>3, NumberedStays DEF DInv, Numbered
<1>6. Bubbled'
    <2>1. Running' <=> Running
        BY DEF Running
    <2> QED
        BY <1>1, <1>3, <2>1 DEF DInv, Bubbled
<1>7. Marked'
    BY <1>1 DEF DInv, Marked, Registered, Turn, Before
<1>8. DOMAIN text \subseteq MessageKey /\ card \in DOMAIN text \cup {None}
    BY DEF DInv, StreamTyped
<1> QED
    BY <1>1, <1>2, <1>4, <1>5, <1>6, <1>7, <1>8, CommandKeeps

\* The buttons of the bubble, while the turn runs and nothing was refused.
LEMMA HasButtons ==
    ASSUME OneAtATime, DInv, Live, Running, faults = MaxFaults, NEW c \in DOMAIN plan, Turn(c),
           cmd[c].at \notin {"moved", "bound"}
    PROVE  /\ BubbleKey \in buttons /\ BubbleKey \in DOMAIN by_message
           /\ BubbleKey \in Handle.bound /\ BubbleKey \notin Noticed
<1>1. ~Unattached /\ ~Rebinding
    BY DEF Turn, Unattached, Rebinding, At
<1>2. pc \notin Before
    BY DEF Turn
<1>3. BubbleKey \in buttons /\ BubbleKey \in Handle.bound /\ BubbleKey \notin Noticed
    BY <1>1, <1>2 DEF DInv, Bubbled
<1> QED
    BY <1>3, Owned

DoneCommand == [at |-> "done", msg |-> None, old |-> {}]

LEMMA Closing ==
    ASSUME OneAtATime, DInv, NEW c, Close(c), c \in DOMAIN plan
    PROVE  /\ DoneCommand \in CommandRecord /\ cmd' = [cmd EXCEPT ![c] = DoneCommand]
           /\ Carries(c, DoneCommand) /\ DoneCommand.at = "done"
<1>1. [NoCommand EXCEPT !.at = "done"] = DoneCommand
    BY DEF NoCommand, DoneCommand
<1>2. DoneCommand \in CommandRecord /\ Carries(c, DoneCommand) /\ DoneCommand.at = "done"
    BY DEF DoneCommand, CommandRecord, Carries, Steps
<1> QED
    BY <1>1, <1>2 DEF Close

LEMMA MovingOn ==
    ASSUME OneAtATime, DInv, NEW c \in DOMAIN plan, NEW at \in Steps, To(c, at)
    PROVE  /\ [cmd[c] EXCEPT !.at = at] \in CommandRecord
           /\ cmd' = [cmd EXCEPT ![c] = [cmd[c] EXCEPT !.at = at]]
           /\ [cmd[c] EXCEPT !.at = at].at = at
           /\ [cmd[c] EXCEPT !.at = at].msg = cmd[c].msg
           /\ [cmd[c] EXCEPT !.at = at].old = cmd[c].old
<1>1. cmd[c] \in CommandRecord
    BY DEF DInv, StreamTyped, CommandRecord
<1> QED
    BY <1>1 DEF To, CommandRecord

LEMMA MoveRefusedStep ==
    ASSUME OneAtATime, DInv, NEW c \in DOMAIN plan, MoveRefused(c)
    PROVE  DInv'
<1>1. /\ cmd[c].at = "refused" /\ TryEdit(cmd[c].msg, "refused")
      /\ buttons' = buttons \ {cmd[c].msg} /\ Close(c)
      /\ UNCHANGED <<vars, docs, card, pc, target, todo, audience, agent, plan>>
    BY DEF MoveRefused, registry, stream, vars
<1>2. Turn(c)
    BY <1>1, BusyHasTurn DEF At
<1>3. cmd[c].msg \notin DOMAIN by_message \cup DOMAIN moved_messages \cup audience
    BY <1>1 DEF DInv, Commands, Carries
<1>4. /\ DOMAIN text' = DOMAIN text /\ text' \in [DOMAIN text -> Shown]
      /\ \A k \in DOMAIN text : text'[k] = text[k] \/ (k = cmd[c].msg /\ text'[k] = "refused")
      /\ faults' \in 0..MaxFaults /\ (faults' = MaxFaults => faults = MaxFaults)
    <2>1. StreamTyped /\ "refused" \in Shown
        BY DEF DInv, Shown
    <2> QED
        BY <1>1, <2>1, Edit
<1>5. audience \subseteq DOMAIN text /\ buttons \subseteq DOMAIN text
    BY DEF DInv, StreamTyped
<1>6. Live /\ Running /\ faults' = MaxFaults => BubbleKey \in buttons'
    BY <1>1, <1>2, <1>3, <1>4, HasButtons
<1>7. /\ DoneCommand \in CommandRecord /\ cmd' = [cmd EXCEPT ![c] = DoneCommand]
      /\ Carries(c, DoneCommand) /\ DoneCommand.at = "done"
    BY <1>1, Closing
<1> HIDE DEF DoneCommand
<1> QED
    BY <1>1, <1>2, <1>3, <1>4, <1>5, <1>6, <1>7, QuietCommand

LEMMA MoveAttachesStep ==
    ASSUME OneAtATime, DInv, NEW c \in DOMAIN plan, MoveAttaches(c)
    PROVE  DInv'
<1> DEFINE r == [cmd[c] EXCEPT !.at = "rehomed"]
<1>1. /\ cmd[c].at = "bound" /\ To(c, "rehomed")
      /\ \/ buttons' = buttons \cup {cmd[c].msg} /\ faults' = faults
         \/ faults > 0 /\ faults' = faults - 1 /\ buttons' = buttons
      /\ UNCHANGED <<vars, text, docs, card, pc, target, todo, audience, agent, plan>>
    BY DEF MoveAttaches, registry, stream, vars
<1>2. Turn(c)
    BY <1>1, BusyHasTurn DEF At
<1>3. Carries(c, cmd[c])
    BY DEF DInv, Commands
<1>4. /\ r \in CommandRecord /\ cmd' = [cmd EXCEPT ![c] = r]
      /\ r.at = "rehomed" /\ r.msg = cmd[c].msg /\ r.old = cmd[c].old
    BY <1>1, MovingOn DEF Steps
<1> HIDE DEF r
<1>5. Carries(c, r)
    BY <1>1, <1>3, <1>4 DEF Carries
<1>6. faults' \in 0..MaxFaults /\ (faults' = MaxFaults => faults = MaxFaults)
      /\ (faults' = MaxFaults => buttons' = buttons \cup {cmd[c].msg})
    BY <1>1, Facts DEF DInv, StreamTyped
<1>7. cmd[c].msg \in DOMAIN text /\ (Live => cmd[c].msg = BubbleKey)
    BY <1>1, <1>3 DEF Carries
<1>8. text \in [DOMAIN text -> Shown] /\ buttons \subseteq DOMAIN text
    BY DEF DInv, StreamTyped
<1>9. buttons' \subseteq DOMAIN text
    BY <1>1, <1>7, <1>8
<1>10. Live /\ Running /\ faults' = MaxFaults => BubbleKey \in buttons'
    BY <1>6, <1>7
<1> QED
    BY <1>1, <1>2, <1>4, <1>5, <1>6, <1>8, <1>9, <1>10, QuietCommand

LEMMA MoveFreezesStep ==
    ASSUME OneAtATime, DInv, NEW c \in DOMAIN plan, MoveFreezes(c)
    PROVE  DInv'
<1>1. /\ cmd[c].at = "rehomed"
      /\ \/ UNCHANGED <<text, faults>> /\ Close(c)
         \/ (\E key \in cmd[c].old : TryEdit(key, "moved")) /\ To(c, "frozen")
      /\ UNCHANGED <<vars, buttons, docs, card, pc, target, todo, audience, agent, plan>>
    BY DEF MoveFreezes, registry, stream, vars
<1>2. Turn(c)
    BY <1>1, BusyHasTurn DEF At
<1>3. Carries(c, cmd[c])
    BY DEF DInv, Commands
<1>4. StreamTyped /\ text \in [DOMAIN text -> Shown] /\ buttons \subseteq DOMAIN text
      /\ faults \in 0..MaxFaults
    BY DEF DInv, StreamTyped
<1>5. Live /\ Running /\ faults = MaxFaults => BubbleKey \in buttons'
    BY <1>1, <1>2, HasButtons
<1>6. CASE UNCHANGED <<text, faults>> /\ Close(c)
    <2>1. /\ DoneCommand \in CommandRecord /\ cmd' = [cmd EXCEPT ![c] = DoneCommand]
          /\ Carries(c, DoneCommand) /\ DoneCommand.at = "done"
        BY <1>6, Closing
    <2> HIDE DEF DoneCommand
    <2> QED
        BY <1>1, <1>2, <1>4, <1>5, <1>6, <2>1, QuietCommand
<1>7. CASE (\E key \in cmd[c].old : TryEdit(key, "moved")) /\ To(c, "frozen")
    <2> DEFINE r == [cmd[c] EXCEPT !.at = "frozen"]
    <2>1. /\ r \in CommandRecord /\ cmd' = [cmd EXCEPT ![c] = r]
          /\ r.at = "frozen" /\ r.msg = cmd[c].msg /\ r.old = cmd[c].old
        BY <1>7, MovingOn DEF Steps
    <2> HIDE DEF r
    <2>2. Carries(c, r)
        BY <1>1, <1>3, <2>1 DEF Carries
    <2>3. PICK key \in cmd[c].old : TryEdit(key, "moved")
        BY <1>7
    <2>4. "moved" \in Shown
        BY DEF Shown
    <2>5. /\ DOMAIN text' = DOMAIN text /\ text' \in [DOMAIN text -> Shown]
          /\ \A k \in DOMAIN text : text'[k] = text[k] \/ (k = key /\ text'[k] = "moved")
          /\ faults' \in 0..MaxFaults /\ (faults' = MaxFaults => faults = MaxFaults)
        BY <1>4, <2>3, <2>4, Edit
    <2>6. key \notin audience /\ (Live => key \in Noticed)
        BY <1>1, <1>3, <2>3 DEF Carries
    <2>7. audience \subseteq DOMAIN text
        BY <1>4 DEF StreamTyped
    <2>8. /\ \A k \in audience : text'[k] = text[k]
          /\ \A k \in DOMAIN text :
                text'[k] = "moved" => text[k] = "moved" \/ ~Live \/ k \in Noticed
        BY <2>5, <2>6, <2>7
    <2>9. Live /\ Running /\ faults' = MaxFaults => BubbleKey \in buttons'
        BY <1>5, <2>5
    <2> QED
        BY <1>1, <1>2, <1>4, <2>1, <2>2, <2>5, <2>8, <2>9, QuietCommand
<1> QED
    BY <1>1, <1>6, <1>7

LEMMA MoveClearsStep ==
    ASSUME OneAtATime, DInv, NEW c \in DOMAIN plan, MoveClears(c)
    PROVE  DInv'
<1>1. /\ cmd[c].at = "frozen" /\ buttons' = buttons \ cmd[c].old /\ Close(c)
      /\ UNCHANGED <<vars, text, docs, faults, card, pc, target, todo, audience, agent, plan>>
    BY DEF MoveClears, registry, stream, vars
<1>2. Turn(c)
    BY <1>1, BusyHasTurn DEF At
<1>3. Live => cmd[c].old \subseteq Noticed
    BY <1>1 DEF DInv, Commands, Carries
<1>4. text \in [DOMAIN text -> Shown] /\ buttons \subseteq DOMAIN text /\ faults \in 0..MaxFaults
    BY DEF DInv, StreamTyped
<1>5. Live /\ Running /\ faults = MaxFaults => BubbleKey \in buttons'
    BY <1>1, <1>2, <1>3, HasButtons
<1>6. /\ DoneCommand \in CommandRecord /\ cmd' = [cmd EXCEPT ![c] = DoneCommand]
      /\ Carries(c, DoneCommand) /\ DoneCommand.at = "done"
    BY <1>1, Closing
<1> HIDE DEF DoneCommand
<1> QED
    BY <1>1, <1>2, <1>4, <1>5, <1>6, QuietCommand

-----------------------------------------------------------------------------
\* A step of a command that posts a message and keeps it in its hands.
LEMMA PostCommand ==
    ASSUME OneAtATime, DInv, NEW c \in DOMAIN plan, Turn(c), At(c, {"ready"}),
           NEW what \in {"here", "live"}, Post(plan[c].from, what),
           NEW at \in {"posted", "shown"}, at = "posted" => plan[c].op = "move",
           NEW key, key = Key(plan[c].from, NextId(plan[c].from.chat)),
           cmd' = [cmd EXCEPT ![c] = [at |-> at, msg |-> key, old |-> {}]],
           UNCHANGED <<vars, docs, faults, card, pc, target, todo, audience, agent, plan>>,
           buttons' = buttons \/ buttons' = buttons \cup {key}
    PROVE  DInv'
<1> DEFINE r == [at |-> at, msg |-> key, old |-> {}]
<1>1. /\ by_run' = by_run /\ by_message' = by_message /\ moved_messages' = moved_messages
      /\ (Live)' = Live /\ Handle' = Handle /\ Noticed' = Noticed
      /\ MirrorKeys' = MirrorKeys /\ BubbleKey' = BubbleKey /\ vars' = vars
    BY SameRegistry
<1>2. plan[c].from \in ChatThreadKey /\ what \in Shown
    <2>1. plan[c] \in Command
        BY CountsUnsent
    <2> QED
        BY <2>1 DEF Command, ChatThreadKey, Shown
<1>3. IsFiniteSet(Unsent) /\ Unposted \in Nat /\ Unposted >= 1
    <2>1. c \in Unsent /\ IsFiniteSet(Unsent) /\ Cardinality(Unsent) \in Nat
        BY CountsUnsent DEF Unsent
    <2>2. Cardinality(Unsent) # 0
        BY <2>1, FS_EmptySet
    <2> QED
        BY <2>1, <2>2, CountsUnsent DEF Unposted
<1>4. /\ key \in MessageKey /\ key \notin DOMAIN text /\ key.chat = plan[c].from.chat
      /\ DOMAIN text' = DOMAIN text \cup {key} /\ text' \in [DOMAIN text' -> Shown]
      /\ text'[key] = what /\ \A k \in DOMAIN text : text'[k] = text[k]
    <2>1. PICK place \in ChatThreadKey : place = plan[c].from
        BY <1>2
    <2>2. Post(place, what) /\ key = Key(place, NextId(place.chat))
        BY <2>1
    <2>3. /\ key \in MessageKey /\ key \notin DOMAIN text /\ key.chat = place.chat
          /\ DOMAIN text' = DOMAIN text \cup {key} /\ text' \in [DOMAIN text' -> Shown]
          /\ text'[key] = what /\ \A k \in DOMAIN text : text'[k] = text[k]
        BY <1>2, <1>3, <2>2, Posted
    <2> QED
        BY <2>1, <2>3
<1>5. /\ key \notin DOMAIN by_message \cup DOMAIN moved_messages \cup audience
      /\ audience \subseteq DOMAIN text /\ DOMAIN text \subseteq MessageKey
      /\ buttons \subseteq DOMAIN text /\ card \in DOMAIN text \cup {None}
      /\ faults \in 0..MaxFaults
    BY <1>4 DEF DInv, Numbered, StreamTyped
<1>6. r \in CommandRecord /\ r.at = at /\ r.msg = key /\ r.old = {}
    BY <1>4 DEF CommandRecord, Steps
<1> HIDE DEF r
<1>7. Carries(c, r)'
    BY <1>1, <1>4, <1>5, <1>6 DEF Carries
<1>8. /\ ~Rebinding' /\ ~Rebinding /\ ~Unattached /\ Unposted' \in Nat /\ Unposted' = Unposted - 1
    <2>1. cmd' = [cmd EXCEPT ![c] = r] /\ r.at # "ready" /\ cmd[c].at = "ready"
        BY <1>6 DEF r, At
    <2> QED
        BY <1>6, <1>7, <2>1, CommandFrame
<1>9. IInv'
    BY <1>1, NextInv DEF DInv
<1>10. Numbered'
    BY <1>1, <1>2, <1>3, <1>8, NumberedAfterPost
<1>11. Bubbled'
    <2>1. Running' <=> Running
        BY DEF Running
    <2> QED
        BY <1>1, <1>8, <2>1 DEF DInv, Bubbled
<1>12. Marked'
    BY <1>1, <1>4 DEF DInv, Marked
<1>13. cmd' = [cmd EXCEPT ![c] = r] /\ r.at # "ready"
    BY <1>6 DEF r
<1>14. /\ buttons' \subseteq DOMAIN text' /\ card' \in DOMAIN text' \cup {None}
       /\ DOMAIN text' \subseteq MessageKey /\ DOMAIN text \subseteq DOMAIN text'
       /\ \A k \in audience : text'[k] = text[k]
    BY <1>4, <1>5
<1> QED
    BY <1>1, <1>4, <1>5, <1>6, <1>7, <1>9, <1>10, <1>11, <1>12, <1>13, <1>14, CommandKeeps

LEMMA MovePostsStep ==
    ASSUME OneAtATime, DInv, NEW c \in DOMAIN plan, MovePosts(c)
    PROVE  DInv'
<1> DEFINE key == Key(plan[c].from, NextId(plan[c].from.chat))
<1>1. /\ May(c, "move") /\ Post(plan[c].from, "here")
      /\ cmd' = [cmd EXCEPT ![c] = [at |-> "posted", msg |-> key, old |-> {}]]
      /\ UNCHANGED <<vars, buttons, docs, faults, card, pc, target, todo, audience, agent, plan>>
    BY DEF MovePosts, From, registry, stream, vars
<1>2. Turn(c) /\ At(c, {"ready"}) /\ plan[c].op = "move"
    BY <1>1, MayHasTurn
<1>3. key = Key(plan[c].from, NextId(plan[c].from.chat))
    OBVIOUS
<1> HIDE DEF key
<1> QED
    BY <1>1, <1>2, <1>3, PostCommand

LEMMA ShowPostsStep ==
    ASSUME OneAtATime, DInv, NEW c \in DOMAIN plan, ShowPosts(c)
    PROVE  DInv'
<1> DEFINE key == Key(plan[c].from, NextId(plan[c].from.chat))
<1>1. /\ May(c, "show")
      /\ \/ /\ Post(plan[c].from, "live") /\ buttons' = buttons \cup {key}
            /\ cmd' = [cmd EXCEPT ![c] = [at |-> "shown", msg |-> key, old |-> {}]]
         \/ Close(c) /\ UNCHANGED <<text, buttons>>
      /\ UNCHANGED <<vars, docs, faults, card, pc, target, todo, audience, agent, plan>>
    BY DEF ShowPosts, From, registry, stream, vars
<1>2. Turn(c) /\ At(c, {"ready"})
    BY <1>1, MayHasTurn
<1>3. key = Key(plan[c].from, NextId(plan[c].from.chat))
    OBVIOUS
<1> HIDE DEF key
<1>4. CASE /\ Post(plan[c].from, "live") /\ buttons' = buttons \cup {key}
           /\ cmd' = [cmd EXCEPT ![c] = [at |-> "shown", msg |-> key, old |-> {}]]
    BY <1>1, <1>2, <1>3, <1>4, PostCommand
<1>5. CASE Close(c) /\ UNCHANGED <<text, buttons>>
    <2>1. /\ DoneCommand \in CommandRecord /\ cmd' = [cmd EXCEPT ![c] = DoneCommand]
          /\ Carries(c, DoneCommand) /\ DoneCommand.at = "done"
        BY <1>5, Closing
    <2> HIDE DEF DoneCommand
    <2>2. text \in [DOMAIN text -> Shown] /\ buttons \subseteq DOMAIN text /\ faults \in 0..MaxFaults
        BY DEF DInv, StreamTyped
    <2>3. cmd[c].at = "ready"
        BY <1>2 DEF At
    <2>4. Live /\ Running /\ faults = MaxFaults => BubbleKey \in buttons
        BY <1>2, <2>3, HasButtons
    <2> QED
        BY <1>1, <1>2, <1>5, <2>1, <2>2, <2>3, <2>4, QuietCommand
<1> QED
    BY <1>1, <1>4, <1>5

-----------------------------------------------------------------------------
\* A refusal changes the text of the command's message later on, and now nothing.
LEMMA RefusedCommand ==
    ASSUME OneAtATime, DInv, NEW c \in DOMAIN plan, cmd[c].at \in {"posted", "shown"},
           To(c, "refused"),
           UNCHANGED <<vars, text, buttons, docs, faults, card, pc, target, todo, audience, agent,
                       plan>>
    PROVE  DInv'
<1> DEFINE r == [cmd[c] EXCEPT !.at = "refused"]
<1>1. Turn(c)
    BY BusyHasTurn DEF At
<1>2. /\ r \in CommandRecord /\ cmd' = [cmd EXCEPT ![c] = r]
      /\ r.at = "refused" /\ r.msg = cmd[c].msg /\ r.old = cmd[c].old
    BY MovingOn DEF Steps
<1> HIDE DEF r
<1>3. Carries(c, r)
    BY <1>2 DEF DInv, Commands, Carries
<1>4. text \in [DOMAIN text -> Shown] /\ buttons \subseteq DOMAIN text /\ faults \in 0..MaxFaults
    BY DEF DInv, StreamTyped
<1>5. Live /\ Running /\ faults = MaxFaults => BubbleKey \in buttons
    BY <1>1, HasButtons
<1> QED
    BY <1>1, <1>2, <1>3, <1>4, <1>5, QuietCommand

\* The run leaves its bubble: that one becomes a notice, and the command has it to freeze.
LEMMA MoveMovesStep ==
    ASSUME OneAtATime, DInv, NEW c \in DOMAIN plan, MoveMoves(c)
    PROVE  DInv'
<1> DEFINE place == plan[c].from
<1>0. cmd[c] \in CommandRecord
    BY DEF DInv, StreamTyped, CommandRecord
<1> PICK r : r = [cmd[c] EXCEPT !.at = "moved", !.old = OldBubble(Run)]
    OBVIOUS
<1>1. /\ cmd[c].at = "posted"
      /\ \/ /\ MoveRun(Run, place)
            /\ cmd' = [cmd EXCEPT ![c] = r]
         \/ To(c, "refused") /\ vars' = vars
      /\ UNCHANGED <<text, buttons, docs, faults, card, pc, target, todo, audience, agent, plan>>
    <2>1. \/ /\ MoveRun(Run, place)
             /\ cmd' = [cmd EXCEPT ![c] = [cmd[c] EXCEPT !.at = "moved", !.old = OldBubble(Run)]]
          \/ To(c, "refused") /\ vars' = vars
        BY DEF MoveMoves, From, registry, vars
    <2>2. /\ cmd[c].at = "posted"
          /\ UNCHANGED <<text, buttons, docs, faults, card, pc, target, todo, audience, agent, plan>>
        BY DEF MoveMoves, telegram, stream
    <2> QED
        BY <2>1, <2>2
<1>2. CASE To(c, "refused") /\ vars' = vars
    BY <1>1, <1>2, RefusedCommand
<1>3. ASSUME MoveRun(Run, place), cmd' = [cmd EXCEPT ![c] = r]
      PROVE  DInv'
    <2>1. Turn(c) /\ pc \notin Before /\ ~Rebinding
        <3>1. Turn(c)
            BY <1>1, BusyHasTurn DEF At
        <3> QED
            BY <1>1, <3>1 DEF Turn, Rebinding, At
    <2>2. Live /\ Handle \in RunHandle /\ place \in ChatThreadKey
        <3>1. plan[c] \in Command
            BY CountsUnsent
        <3>2. Live
            BY <1>3 DEF MoveRun, Live
        <3> QED
            BY <3>1, <3>2, Owned DEF Command, ChatThreadKey
    <2>3. /\ Handle.bubble # None /\ BubbleKey \in Handle.bound /\ BubbleKey \notin MirrorKeys
          /\ MirrorKeys \cap Noticed = {} /\ BubbleKey \in DOMAIN by_message
          /\ BubbleKey \in DOMAIN text
        BY <2>1, <2>2, Owned DEF DInv, Bubbled
    <2>4. OldBubble(Run) = {BubbleKey}
        BY <2>3 DEF OldBubble, BubbleKey, Handle
    <2>5. /\ by_run' = [by_run EXCEPT ![Run].origin = place] /\ by_message' = by_message
          /\ moved_messages' = [k \in DOMAIN moved_messages \cup {BubbleKey} |->
                IF k \in {BubbleKey} THEN [run |-> Run, new_origin |-> place]
                ELSE moved_messages[k]]
        BY <1>3, <2>4 DEF MoveRun
    <2>6. IInv'
        BY <1>3, <2>2, MoveStep DEF DInv, Live
    <2>7. (Live)' /\ Handle' = [Handle EXCEPT !.origin = place]
        BY <2>2, <2>5 DEF Live, Handle
    <2>8. /\ Handle'.bubble = Handle.bubble /\ Handle'.mirrors = Handle.mirrors
          /\ Handle'.origin = place
        BY <2>2, <2>7 DEF RunHandle
    <2>9. MirrorKeys' = MirrorKeys /\ Noticed' = Noticed \cup {BubbleKey}
        <3>1. MirrorKeys' = MirrorKeys
            BY <2>8 DEF MirrorKeys
        <3>2. ASSUME NEW k
              PROVE  k \in Noticed' <=> k \in Noticed \/ k = BubbleKey
            <4> HIDE DEF place
            <4> QED
                BY <2>5 DEF Noticed
        <3> QED
            BY <3>1, <3>2
    <2>10. Carries(c, cmd[c])
        BY DEF DInv, Commands
    <2>11. r \in CommandRecord /\ r.at = "moved" /\ r.msg = cmd[c].msg /\ r.old = {BubbleKey}
        <3>1. BubbleKey \in MessageKey
            BY <2>1, <2>2, Owned
        <3> QED
            BY <1>0, <2>4, <3>1 DEF CommandRecord, Steps
    <2>12. Live => audience \subseteq MirrorKeys
        BY DEF DInv, Finishing
    <2>13. Carries(c, r)'
        <3>1. r.msg \notin DOMAIN by_message' \cup DOMAIN moved_messages' \cup audience'
            BY <1>1, <2>3, <2>5, <2>10, <2>11 DEF Carries
        <3>2. r.msg \in DOMAIN text' /\ r.msg.chat = place.chat /\ plan'[c].op = "move"
            BY <1>1, <2>10, <2>11 DEF Carries
        <3>3. r.old \subseteq DOMAIN text' /\ r.old \cap audience' = {} /\ r.old \subseteq Noticed'
            BY <1>1, <2>2, <2>3, <2>9, <2>11, <2>12
        <3> QED
            BY <2>8, <2>11, <3>1, <3>2, <3>3 DEF Carries
    <2>14. Rebinding' /\ Unattached' /\ Unposted' \in Nat /\ Unposted' <= Unposted
        BY <1>1, <1>3, <2>1, <2>11, <2>13, CommandFrame
    <2>15. Numbered'
        BY <1>1, <2>3, <2>5, <2>14, NumberedStays DEF DInv, Numbered
    <2>16. Bubbled'
        BY <2>3, <2>8, <2>9, <2>14 DEF Bubbled
    <2>17. Marked'
        BY <1>1, <2>9 DEF DInv, Marked
    <2>18. /\ text \in [DOMAIN text -> Shown] /\ buttons \subseteq DOMAIN text
           /\ DOMAIN text \subseteq MessageKey /\ card \in DOMAIN text \cup {None}
           /\ faults \in 0..MaxFaults
        BY DEF DInv, StreamTyped
    <2> QED
        BY <1>1, <1>3, <2>1, <2>2, <2>6, <2>7, <2>9, <2>11, <2>13, <2>15, <2>16, <2>17, <2>18,
           CommandKeeps
<1> QED
    BY <1>1, <1>2, <1>3

\* The posted message becomes the bubble.
LEMMA MoveBindsStep ==
    ASSUME OneAtATime, DInv, NEW c \in DOMAIN plan, MoveBinds(c)
    PROVE  DInv'
<1> PICK key : key = cmd[c].msg
    OBVIOUS
<1>1. /\ cmd[c].at = "moved"
      /\ IF Bindable(Run, key)
         THEN BindMessage(Run, key) /\ card' = key /\ To(c, "bound")
         ELSE UNCHANGED <<vars, card>> /\ To(c, "rehomed")
      /\ UNCHANGED <<text, buttons, docs, faults, pc, target, todo, audience, agent, plan>>
    BY DEF MoveBinds, registry, telegram, stream, vars
<1>2. Turn(c) /\ pc \notin Before
    <2>1. Turn(c)
        BY <1>1, BusyHasTurn DEF At
    <2> QED
        BY <2>1 DEF Turn
<1>3. Carries(c, cmd[c]) /\ cmd[c] \in CommandRecord
    BY DEF DInv, Commands, StreamTyped, CommandRecord
<1>4. /\ text \in [DOMAIN text -> Shown] /\ buttons \subseteq DOMAIN text
      /\ DOMAIN text \subseteq MessageKey /\ card \in DOMAIN text \cup {None}
      /\ faults \in 0..MaxFaults
    BY DEF DInv, StreamTyped
<1>5. /\ key \notin DOMAIN by_message \cup DOMAIN moved_messages
      /\ key \in DOMAIN text /\ key \in MessageKey
      /\ Live => key.chat = Handle.origin.chat
    BY <1>1, <1>3, <1>4 DEF Carries
<1>6. Live <=> Bindable(Run, key)
    BY <1>5 DEF Bindable, Live
<1>7. CASE ~Live
    <2> PICK r : r = [cmd[c] EXCEPT !.at = "rehomed"]
        OBVIOUS
    <2>1. vars' = vars /\ card' = card /\ To(c, "rehomed")
        BY <1>1, <1>6, <1>7
    <2>2. /\ r \in CommandRecord /\ cmd' = [cmd EXCEPT ![c] = r]
          /\ r.at = "rehomed" /\ r.msg = cmd[c].msg /\ r.old = cmd[c].old
        BY <2>1, MovingOn DEF Steps
    <2>3. Carries(c, r)
        BY <1>1, <1>3, <2>2 DEF Carries
    <2> QED
        BY <1>1, <1>2, <1>4, <1>7, <2>1, <2>2, <2>3, QuietCommand
<1>8. CASE Live
    <2> PICK r : r = [cmd[c] EXCEPT !.at = "bound"]
        OBVIOUS
    <2>1. BindMessage(Run, key) /\ card' = key /\ To(c, "bound")
        BY <1>1, <1>6, <1>8
    <2>2. /\ r \in CommandRecord /\ cmd' = [cmd EXCEPT ![c] = r]
          /\ r.at = "bound" /\ r.msg = key /\ r.old = cmd[c].old
        BY <2>1, MovingOn DEF Steps
    <2>3. IInv'
        BY <1>5, <1>8, <2>1, BindStep DEF DInv, Live
    <2>4. /\ by_run' = [by_run EXCEPT ![Run].bubble = key.msg, ![Run].bound = @ \cup {key}]
          /\ by_message' = Put(by_message, key, Run) /\ moved_messages' = moved_messages
        BY <2>1 DEF BindMessage
    <2>5. Handle \in RunHandle /\ MirrorKeys \subseteq DOMAIN by_message
        BY <1>8, Owned
    <2>6. /\ (Live)' /\ Handle'.bubble = key.msg /\ key \in Handle'.bound
          /\ Handle'.mirrors = Handle.mirrors /\ Handle'.origin = Handle.origin
        BY <1>8, <2>4, <2>5 DEF Live, Handle, RunHandle
    <2>7. BubbleKey' = key /\ MirrorKeys' = MirrorKeys /\ Noticed' = Noticed
        <3>1. BubbleKey' = [chat |-> Handle.origin.chat, msg |-> key.msg]
            BY <2>6 DEF BubbleKey, message_key, PrimarySink, Handle
        <3>2. key = [chat |-> key.chat, msg |-> key.msg]
            BY <1>5 DEF MessageKey
        <3>3. Noticed' = Noticed
            BY <2>4 DEF Noticed
        <3> QED
            BY <1>5, <1>8, <2>6, <3>1, <3>2, <3>3 DEF MirrorKeys
    <2>8. key \notin Noticed \cup MirrorKeys
        BY <1>5, <2>5 DEF Noticed
    <2>9. Carries(c, r)'
        BY <1>1, <1>3, <1>8, <2>2, <2>7 DEF Carries
    <2>10. ~Rebinding' /\ Unattached' /\ Unposted' \in Nat /\ Unposted' <= Unposted
        BY <1>1, <1>2, <2>2, <2>9, CommandFrame
    <2>11. DOMAIN by_message' = DOMAIN by_message \cup {key}
        BY <2>4 DEF Put
    <2>12. Numbered'
        BY <1>1, <1>5, <2>4, <2>10, <2>11, NumberedStays DEF DInv, Numbered
    <2>13. Bubbled'
        <3>1. key.msg # None
            BY <1>5, RegistryAssumption DEF MessageKey
        <3>2. MirrorKeys \cap Noticed = {}
            BY <1>2, <1>8 DEF DInv, Bubbled
        <3> QED
            BY <2>6, <2>7, <2>8, <2>10, <3>1, <3>2 DEF Bubbled
    <2>14. Marked'
        BY <1>1, <2>7 DEF DInv, Marked
    <2> QED
        BY <1>1, <1>2, <1>4, <1>5, <1>8, <2>1, <2>2, <2>3, <2>6, <2>7, <2>9, <2>12, <2>13, <2>14,
           CommandKeeps
<1> QED
    BY <1>7, <1>8

\* The message becomes a mirror; it is not the bubble, and no notice is on it.
LEMMA ShowMirrorsStep ==
    ASSUME OneAtATime, DInv, NEW c \in DOMAIN plan, ShowMirrors(c)
    PROVE  DInv'
<1> PICK key : key = cmd[c].msg
    OBVIOUS
<1> PICK sink : sink = [chat |-> plan[c].from.chat, thread |-> plan[c].from.thread, msg |-> key.msg]
    OBVIOUS
<1>1. /\ cmd[c].at = "shown"
      /\ IF Bindable(Run, key) /\ MirrorRoom(Run, sink)
         THEN AddMirrorSink(Run, sink) /\ Close(c)
         ELSE vars' = vars /\ To(c, "refused")
      /\ UNCHANGED <<text, buttons, docs, faults, card, pc, target, todo, audience, agent, plan>>
    BY DEF ShowMirrors, From, registry, telegram, stream, vars
<1>2. Turn(c) /\ pc \notin Before /\ ~Rebinding
    <2>1. Turn(c)
        BY <1>1, BusyHasTurn DEF At
    <2> QED
        BY <1>1, <2>1 DEF Turn, Rebinding, At
<1>3. CASE vars' = vars /\ To(c, "refused")
    BY <1>1, <1>3, RefusedCommand
<1>4. CASE Bindable(Run, key) /\ AddMirrorSink(Run, sink) /\ Close(c)
    <2>1. /\ text \in [DOMAIN text -> Shown] /\ buttons \subseteq DOMAIN text
          /\ DOMAIN text \subseteq MessageKey /\ card \in DOMAIN text \cup {None}
          /\ faults \in 0..MaxFaults
        BY DEF DInv, StreamTyped
    <2>2. /\ key \notin DOMAIN by_message \cup DOMAIN moved_messages
          /\ key \in DOMAIN text /\ key \in MessageKey /\ key.chat = plan[c].from.chat
        BY <1>1, <2>1 DEF DInv, Commands, Carries
    <2>3. plan[c].from \in ChatThreadKey
        <3>1. plan[c] \in Command
            BY CountsUnsent
        <3> QED
            BY <3>1 DEF Command, ChatThreadKey
    <2>4. sink \in RunSink /\ message_key(sink) = key
        BY <2>2, <2>3 DEF RunSink, ChatThreadKey, MessageKey, message_key
    <2>5. Live /\ IInv'
        BY <1>4, <2>4, MirrorStep DEF Bindable, Live, DInv
    <2>6. /\ by_run' = [by_run EXCEPT ![Run] = Mirrored(@, sink)]
          /\ by_message' = Put(by_message, key, Run) /\ moved_messages' = moved_messages
        BY <1>4, <2>4 DEF AddMirrorSink
    <2>7. /\ Handle \in RunHandle /\ MirrorKeys \subseteq DOMAIN by_message
          /\ Handle.bubble # None /\ MirrorKeys \cap Noticed = {}
          /\ BubbleKey \in Handle.bound /\ BubbleKey \notin Noticed \cup MirrorKeys
          /\ BubbleKey \in DOMAIN by_message
        BY <1>2, <2>5, Owned DEF DInv, Bubbled
    <2>8. /\ (Live)' /\ Handle'.bubble = Handle.bubble /\ Handle'.bound = Handle.bound \cup {key}
          /\ Handle'.mirrors = Handle.mirrors \cup {sink} /\ Handle'.origin = Handle.origin
        BY <2>4, <2>5, <2>6, <2>7 DEF Live, Handle, RunHandle, Mirrored
    <2>9. /\ BubbleKey' = BubbleKey /\ Noticed' = Noticed
          /\ MirrorKeys' = MirrorKeys \cup {key}
        <3>1. BubbleKey' = BubbleKey
            BY <2>8 DEF BubbleKey, message_key, PrimarySink, Handle
        <3>2. Noticed' = Noticed
            BY <2>6 DEF Noticed
        <3> QED
            BY <2>4, <2>8, <3>1, <3>2 DEF MirrorKeys
    <2>10. key \notin Noticed /\ key # BubbleKey
        BY <2>2, <2>7 DEF Noticed
    <2>11. /\ DoneCommand \in CommandRecord /\ cmd' = [cmd EXCEPT ![c] = DoneCommand]
           /\ DoneCommand.at = "done"
        BY <1>4, Closing
    <2>12. Carries(c, DoneCommand)'
        BY DEF Carries, DoneCommand
    <2> HIDE DEF DoneCommand
    <2>13. ~Rebinding' /\ ~Unattached /\ Unposted' \in Nat /\ Unposted' <= Unposted
        BY <1>1, <1>2, <2>11, <2>12, CommandFrame
    <2>14. DOMAIN by_message' = DOMAIN by_message \cup {key}
        BY <2>6 DEF Put
    <2>15. Numbered'
        BY <1>1, <2>2, <2>6, <2>13, <2>14, NumberedStays DEF DInv, Numbered
    <2>16. Bubbled'
        <3>1. Running /\ faults = MaxFaults => BubbleKey \in buttons
            BY <1>1, <1>2, <2>5, HasButtons
        <3>2. Running' <=> Running
            BY <1>1 DEF Running
        <3> QED
            BY <1>1, <2>7, <2>8, <2>9, <2>10, <2>13, <3>1, <3>2 DEF Bubbled
    <2>17. Marked'
        BY <1>1, <2>9 DEF DInv, Marked
    <2> QED
        BY <1>1, <1>2, <2>1, <2>5, <2>8, <2>9, <2>11, <2>12, <2>15, <2>16, <2>17, CommandKeeps
<1> QED
    BY <1>1, <1>3, <1>4

-----------------------------------------------------------------------------
LEMMA CommandsStep ==
    ASSUME OneAtATime, DInv, NEW c \in DOMAIN plan,
           MovePosts(c) \/ ShowPosts(c) \/ CommandStep(c)
    PROVE  DInv'
BY MovePostsStep, ShowPostsStep, MoveMovesStep, MoveRefusedStep, MoveBindsStep, MoveAttachesStep,
   MoveFreezesStep, MoveClearsStep, ShowMirrorsStep DEF CommandStep

\* The invariant reads everything but whether the stream was dropped.
LEMMA UnchangedStream ==
    ASSUME OneAtATime, DInv,
           UNCHANGED <<vars, text, buttons, docs, faults, card, pc, target, todo, audience, agent,
                       plan, cmd>>
    PROVE  DInv'
<1>1. IInv' /\ Numbered' /\ InTurn' /\ Commands' /\ Registered' /\ Bubbled' /\ Marked'
    BY StreamFrame DEF Running, DInv, Registered
<1>2. StreamTyped'
    BY DEF DInv, StreamTyped
<1>3. Finishing'
    BY ToldStays DEF DInv, Finishing
<1> QED
    BY <1>1, <1>2, <1>3 DEF DInv

LEMMA DropStreamStep == OneAtATime /\ DInv /\ DropStream => DInv'
<1> SUFFICES ASSUME OneAtATime, DInv, DropStream PROVE DInv'
    OBVIOUS
<1>1. UNCHANGED <<vars, text, buttons, docs, faults, card, pc, target, todo, audience, agent,
                  plan, cmd>>
    BY DEF DropStream, registry, telegram, vars
<1> QED
    BY <1>1, UnchangedStream

LEMMA LoopStep ==
    ASSUME OneAtATime, DInv, StreamStep \/ StartFlush \/ DropStream
    PROVE  DInv'
BY RegisterStreamStep, PlaceholderSentStep, PlaceholderFailedStep, BindStreamStep, StartFlushStep,
   FlushBubbleStep, FlushMirrorStep, StartFinalStep, FinalToBubbleStep, FinalToMirrorStep,
   StartCleanupStep, ClearButtonsStep, RemoveStreamStep, DropStreamStep DEF StreamStep

LEMMA DNextInv == OneAtATime /\ DInv /\ [StreamNext]_everything => DInv'
<1> SUFFICES ASSUME OneAtATime, DInv, [StreamNext]_everything PROVE DInv'
    OBVIOUS
<1>1. CASE StreamNext
    BY <1>1, LoopStep, CommandsStep, AgentEndsStep, TapStopStep DEF StreamNext
<1>2. CASE UNCHANGED everything
    <2>1. UNCHANGED <<vars, text, buttons, docs, faults, card, pc, target, todo, audience, agent,
                      plan, cmd>>
        BY <1>2 DEF everything, registry, telegram, stream, vars
    <2> QED
        BY <2>1, UnchangedStream
<1> QED
    BY <1>1, <1>2

LEMMA DTypes == OneAtATime /\ DInv => StreamTypeOK
<1> SUFFICES ASSUME OneAtATime, DInv PROVE StreamTypeOK
    OBVIOUS
<1> QED
    BY DEF StreamTypeOK, DInv, IInv, StreamTyped

\* While a turn runs no move is under way, so the run has a bubble with its buttons; it is bound
\* to the run and no notice is on it.
LEMMA StopReached == OneAtATime /\ DInv => ReachableStop
<1> SUFFICES ASSUME OneAtATime, DInv, pc \in {"loop", "flush", "flush_mirrors"}, agent = "runs",
                    ~Moving, faults = MaxFaults
             PROVE  Bubble \in buttons /\ by_message[Bubble] = Run /\ Aborts(Bubble)
    BY DEF ReachableStop
<1>1. Live /\ Bubble = BubbleKey /\ BubbleKey \in MessageKey
    BY Addresses DEF Before
<1>2. ~Rebinding /\ ~Unattached
    <2>1. \A c \in DOMAIN plan : cmd[c].at \in {"moved", "bound"} => plan[c].op = "move"
        BY DEF DInv, Commands, Carries
    <2> QED
        BY <2>1 DEF Moving, Busy, Rebinding, Unattached, At
<1>3. BubbleKey \in buttons /\ BubbleKey \in Handle.bound /\ BubbleKey \notin Noticed
    BY <1>1, <1>2 DEF DInv, Bubbled, Running, Before
<1>4. by_message[BubbleKey] = Run
    BY <1>1, <1>3, Owned
<1> QED
    BY <1>1, <1>3, <1>4 DEF Aborts, Noticed

LEMMA FrozenStops == OneAtATime /\ DInv => FrozenIsInert
<1> SUFFICES ASSUME OneAtATime, DInv, NEW key \in buttons, text[key] = "moved", Aborts(key)
             PROVE  FALSE
    BY DEF FrozenIsInert
<1>1. key \in DOMAIN text /\ pc # "over"
    BY DEF DInv, StreamTyped, Registered, Aborts
<1>2. key \in Noticed
    BY <1>1 DEF DInv, Marked
<1> QED
    BY <1>2 DEF Noticed, Aborts

LEMMA AudienceIsTold == OneAtATime /\ DInv => MirrorsGetFinal
BY DEF DInv, Finishing, Told, MirrorsGetFinal

\* However often a run is moved and mirrored, in whatever chats, with whatever neighbour and
\* whatever requests Telegram refuses: a tap on the bubble of the registry stops the run while
\* no move is under way, and a tap on a frozen one does not.  The commands come one at a time.
THEOREM StopsWhereShown ==
    ASSUME Overlap = FALSE
    PROVE  StreamSpec => []StopIsRight
<1>0. OneAtATime
    BY DEF OneAtATime
<1>1. StreamInit => DInv
    BY <1>0, DInitInv
<1>2. DInv /\ [StreamNext]_everything => DInv'
    BY <1>0, DNextInv
<1>3. DInv => StopIsRight
    BY <1>0, DTypes, StopReached, FrozenStops DEF StopIsRight
<1> QED
    BY <1>1, <1>2, <1>3, PTL DEF StreamSpec

\* Every mirror there was when the loop ended shows the answer, or its chat has the document,
\* once the stream is over and no request was refused.
THEOREM MirrorsAreTold ==
    ASSUME Overlap = FALSE
    PROVE  StreamSpec => []MirrorsGetFinal
<1>0. OneAtATime
    BY DEF OneAtATime
<1>1. StreamInit => DInv
    BY <1>0, DInitInv
<1>2. DInv /\ [StreamNext]_everything => DInv'
    BY <1>0, DNextInv
<1>3. DInv => MirrorsGetFinal
    BY <1>0, AudienceIsTold
<1> QED
    BY <1>1, <1>2, <1>3, PTL DEF StreamSpec
=============================================================================
