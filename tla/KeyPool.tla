------------------------------ MODULE KeyPool ------------------------------
(***************************************************************************)
(* The pool of keys an engine draws from (naked-core/src/keys/pool.rs):    *)
(* a list, a dead set and a cursor, refreshed from the providers outside   *)
(* of the lock; and the engines that draw (scrape/firecrawl.rs,            *)
(* scrape/scrapingbee.rs, search/tavily.rs), on several threads.  A step   *)
(* is one critical section, or one answer from outside.                    *)
(***************************************************************************)
EXTENDS Lists

CONSTANTS
    ApiKey,       \* a set of naturals: the list is sorted
    None,
    Cycle,        \* a multiple of every possible length of the list
    Tries,        \* caller -> attempts of a request: 1 for a search, 2 for a scrape
    Requests,     \* requests of a caller
    MaxChanges,   \* bound on changes of what the providers offer
    MaxAged       \* bound on times the list gets older than the ttl

VARIABLES
    offered,      \* the keys of the providers
    failing,      \* whether fetch answers an error
    keys, dead, cursor, stale,    \* PoolInner
    draw,         \* caller -> [at, got, key, tries]
    used,         \* history: times each key was handed out since the list changed, above the least
    requests, changes, aged

pool == <<keys, dead, cursor, stale>>
outside == <<offered, failing, changes, aged>>
vars == <<pool, outside, draw, used, requests>>

Caller == DOMAIN Tries
Steps == {"idle", "next", "fetch", "install", "pick", "uses"}
Idle == [at |-> "idle", got |-> {}, key |-> None, tries |-> 0]
Unused == [k \in ApiKey |-> 0]

Init ==
    /\ offered \in SUBSET ApiKey /\ failing = FALSE
    /\ keys = <<>> /\ dead = {} /\ cursor = 0 /\ stale = TRUE
    /\ draw = [c \in Caller |-> Idle]
    /\ used = Unused
    /\ requests = [c \in Caller |-> Requests] /\ changes = MaxChanges /\ aged = MaxAged

-----------------------------------------------------------------------------

To(c, step) == draw' = [draw EXCEPT ![c].at = step]

Request(c) ==
    /\ draw[c].at = "idle" /\ requests[c] > 0
    /\ requests' = [requests EXCEPT ![c] = @ - 1]
    /\ draw' = [draw EXCEPT ![c] = [Idle EXCEPT !.at = "next", !.tries = Tries[c]]]
    /\ UNCHANGED <<pool, outside, used>>

\* refresh_if_stale, under the read lock
Check(c) ==
    /\ draw[c].at = "next"
    /\ To(c, IF stale \/ keys = <<>> THEN "fetch" ELSE "pick")
    /\ UNCHANGED <<pool, outside, used, requests>>

\* An error of the providers counts as no keys.
Fetch(c) ==
    /\ draw[c].at = "fetch"
    /\ draw' = [draw EXCEPT ![c].at = "install", ![c].got = IF failing THEN {} ELSE offered]
    /\ UNCHANGED <<pool, outside, used, requests>>

\* What died since the fetch is left out, under the write lock.
FetchedAll(c) == draw[c].got
Fetched(c) == draw[c].got \ dead


Listed(new) ==
    /\ keys' = new
    /\ used' = IF new = keys THEN used ELSE Unused

FromTheFront == 0
KeepCursor == cursor

Install(c) ==
    /\ draw[c].at = "install"
    /\ Listed(Sorted(Fetched(c))) /\ stale' = FALSE
    /\ cursor' = KeepCursor
    /\ draw' = [draw EXCEPT ![c].at = "pick", ![c].got = {}]
    /\ UNCHANGED <<dead, outside, requests>>

\* Only the differences of the counts matter.
Rebased(u) ==
    LET least == CHOOSE n \in {u[k] : k \in Range(keys)} : \A k \in Range(keys) : n <= u[k] IN
    [k \in ApiKey |-> IF k \in Range(keys) THEN u[k] - least ELSE 0]

\* The cursor goes round the list as it is now.
Pick(c) ==
    /\ draw[c].at = "pick"
    /\ IF keys = <<>> THEN draw' = [draw EXCEPT ![c] = Idle] /\ UNCHANGED <<cursor, used>>
       ELSE LET k == keys[(cursor % Len(keys)) + 1] IN
            /\ draw' = [draw EXCEPT ![c].at = "uses", ![c].key = k]
            /\ cursor' = (cursor + 1) % Cycle
            /\ used' = Rebased([used EXCEPT ![k] = @ + 1])
    /\ UNCHANGED <<keys, dead, stale, outside, requests>>

Retry(c) == draw' = [draw EXCEPT ![c] = [@ EXCEPT !.at = "next", !.key = None]]
NextTry(c) ==
    draw' = [draw EXCEPT ![c] =
        IF @.tries > 1 THEN [@ EXCEPT !.at = "next", !.key = None, !.tries = draw[c].tries - 1] ELSE Idle]

\* The engine says whether the request went through, failed, or the key was
\* refused.  mark_dead takes the key out of the list at once.
Succeeds(c) ==
    /\ draw[c].at = "uses"
    /\ draw' = [draw EXCEPT ![c] = Idle]
    /\ UNCHANGED <<pool, outside, used, requests>>

Fails(c) ==
    /\ draw[c].at = "uses"
    /\ NextTry(c)
    /\ UNCHANGED <<pool, outside, used, requests>>

MarkDead(c) ==
    /\ draw[c].at = "uses"
    /\ dead' = dead \cup {draw[c].key}
    /\ Listed(Kept(keys, {i \in DOMAIN keys : keys[i] # draw[c].key}))
    /\ NextTry(c)
    /\ UNCHANGED <<cursor, stale, outside, requests>>

-----------------------------------------------------------------------------

Age ==
    /\ aged > 0 /\ ~ stale
    /\ stale' = TRUE /\ aged' = aged - 1
    /\ UNCHANGED <<keys, dead, cursor, offered, failing, changes, draw, used, requests>>

Change ==
    /\ changes > 0 /\ changes' = changes - 1
    /\ offered' \in SUBSET ApiKey /\ failing' \in BOOLEAN
    /\ UNCHANGED <<pool, aged, draw, used, requests>>

Proceed(c) ==
    Check(c) \/ Fetch(c) \/ Install(c) \/ Pick(c) \/ Succeeds(c) \/ Fails(c) \/ MarkDead(c)

Next == (\E c \in Caller : Request(c) \/ Proceed(c)) \/ Age \/ Change

\* Threads run on, and every request gets an answer or times out.
Progress == \E c \in Caller : Proceed(c)
Spec == Init /\ [][Next]_vars /\ WF_vars(Progress)

-----------------------------------------------------------------------------
(***************************************************************************)
(* Properties                                                              *)
(***************************************************************************)

\* The types.
TypeOK ==
    /\ Range(keys) \subseteq ApiKey /\ IsInjective(keys)
    /\ dead \subseteq ApiKey /\ stale \in BOOLEAN /\ cursor \in Nat
    /\ \A c \in Caller : draw[c].at \in Steps /\ draw[c].key \in ApiKey \cup {None}

\* A key that was refused is not in the list again, though a refresh on another
\* thread may have fetched it before it died and install it after.
DeadStaysOut == Range(keys) \cap dead = {}

\* While the list stays as it is the keys take turns: over any number of
\* requests, on any number of threads and through refreshes that find nothing
\* new, no key is used twice more often than another.
EvenUse ==
    \A i, j \in DOMAIN keys : used[keys[i]] <= used[keys[j]] + 1

\* Every request of an engine ends, though each of its keys may be refused.
Quiet == \A c \in Caller : draw[c].at = "idle"
RequestsEnd == []<>Quiet

\* A key leaves the list when it was refused or is no longer offered.  It does
\* not hold: a fetch that fails empties the list.
KeysSurviveErrors ==
    [][Range(keys) \ Range(keys') \subseteq dead' \cup (ApiKey \ offered)]_vars
=============================================================================
