------------------------------ MODULE LiveRuns ------------------------------
(***************************************************************************)
(* What the run registry promises: one set of live runs and nothing else.  *)
(* Who owns a session, a source, a thread slot or a message is computed    *)
(* from that set; there is no index that could disagree with it.           *)
(***************************************************************************)
EXTENDS Naturals, FiniteSets, Maps

CONSTANTS RunId, Session, Source, NoSource, Thread, Key, Cap

VARIABLE live    \* RunId -> [session, source, origin, keys]

ByThread(thread) == {run \in DOMAIN live : live[run].origin = thread}
OwnersOf(key) == {run \in DOMAIN live : key \in live[run].keys}

Init == live = EmptyMap

Start(run, session, source, thread) ==
    /\ run \notin DOMAIN live
    /\ \A r \in DOMAIN live : live[r].session # session
    /\ source # NoSource => \A r \in DOMAIN live : live[r].source # source
    /\ Cardinality(ByThread(thread)) < Cap
    /\ live' = Put(live, run, [session |-> session, source |-> source,
                               origin |-> thread, keys |-> {}])

\* A message belongs to one run at a time.
Own(run, key) ==
    /\ run \in DOMAIN live /\ OwnersOf(key) \subseteq {run}
    /\ live' = [live EXCEPT ![run].keys = @ \cup {key}]

Disown(run, key) ==
    /\ run \in DOMAIN live
    /\ live' = [live EXCEPT ![run].keys = @ \ {key}]

\* The run keeps its session, its source and its messages.
Move(run, thread) ==
    /\ run \in DOMAIN live
    /\ live[run].origin # thread => Cardinality(ByThread(thread)) < Cap
    /\ live' = [live EXCEPT ![run].origin = thread]

Stop(run) ==
    /\ run \in DOMAIN live
    /\ live' = Drop(live, {run})

Next ==
    \E run \in RunId :
        \/ \E session \in Session, source \in Source \cup {NoSource}, thread \in Thread :
              Start(run, session, source, thread)
        \/ \E key \in Key : Own(run, key) \/ Disown(run, key)
        \/ \E thread \in Thread : Move(run, thread)
        \/ Stop(run)

Spec == Init /\ [][Next]_live
=============================================================================
