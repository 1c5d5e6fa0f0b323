----------------------------- MODULE MCScheduler -----------------------------
(* Instances of Scheduler for TLC: two specs, one of them a one-shot.       *)
EXTENDS Scheduler

CONSTANTS daily, once, w1, w2, w3

MCJob         == {daily, once}
MCOneShot     == {once}
MCTwoWorkers  == {w1, w2}
MCWorkers     == {w1, w2, w3}
NoEvents       == {}
ProcessEvents  == {"crash", "shutdown"}
OperatorEvents == {"runnow", "bgabort", "resume"}
=============================================================================
