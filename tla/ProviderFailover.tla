-------------------------- MODULE ProviderFailover --------------------------
(***************************************************************************)
(* naked-core/src/provider/resilient.rs: one ResilientProvider shared by   *)
(* concurrent calls of stream_chat, with the boot audit, the stream        *)
(* wrapper's failure tally and the dead-key file of dead_key_persist.rs.   *)
(* Every lock() of the source is a step of its own.                        *)
(***************************************************************************)
EXTENDS Naturals, Sequences, FiniteSets, Functions

CONSTANTS
    N,               \* number of keys: providers are 1..N, 1 is the primary api_key
    Call,            \* concurrent callers of stream_chat
    BlacklistAfter,  \* mid-stream failures that blacklist a key (2 in the code)
    CountMask,       \* STREAM_FAILURE_COUNT_MASK
    MaxErrors,       \* bound on the mid-stream errors of a process
    MaxRestarts,     \* bound on process restarts
    NoProvider

ASSUME FailoverAssumption ==
    /\ N \in Nat \ {0} /\ BlacklistAfter \in Nat \ {0}
    /\ CountMask \in Nat \ {0} /\ MaxErrors \in Nat /\ MaxRestarts \in Nat
    /\ IsFiniteSet(Call) /\ NoProvider \notin Nat

Provider == 1..N

VARIABLES
    order,          \* preferred first
    blacklist,      \* Provider -> "no", "hour", "over" (an hour that has passed), "forever"
    tally,          \* stream_failures: Provider -> [pending, count]
    last_fallback,  \* NoProvider or [requested, served_by]
    call,           \* Call -> the locals of its stream_chat and of its stream
    auditing,       \* the boot audit has its probes in flight
    rotation,       \* naked.json: the keys of api_key and api_keys
    restarts,
    refused,        \* history: the keys that answered auth or payment failed to this process
    errors,         \* history: mid-stream errors of each key, in this process
    settled         \* history: those of them that a blacklisting, a clean stream or the end of
                    \* the call that held them settled

locks == <<order, blacklist, tally, last_fallback>>
accounts == <<refused, errors, settled>>
provider_vars ==
    <<order, blacklist, tally, last_fallback, call, auditing, rotation, restarts, accounts>>

Zero == [i \in Provider |-> 0]
NoFailure == [pending |-> FALSE, count |-> 0]
Capped(count) == IF count < CountMask THEN count ELSE CountMask

\* How many: as many as the pairs <<x, n>> with n up to the number of x.
Total(number) == Cardinality(UNION {{x} \X (1..number[x]) : x \in DOMAIN number})

ToBackAgain(ord, i) == Append(ord, i)

\* A provider that is in the order is taken out and pushed back at one end.
Without(ord, i) ==
    LET p == CHOOSE p \in DOMAIN ord : ord[p] = i
    IN  SubSeq(ord, 1, p - 1) \o SubSeq(ord, p + 1, Len(ord))
ToBack(ord, i) == IF i \in Range(ord) THEN Append(Without(ord, i), i) ELSE ord
ToFront(ord, i) == IF i \in Range(ord) THEN <<i>> \o Without(ord, i) ELSE ord
Demoted(ord, failed) ==
    LET after[n \in 0..Len(failed)] == IF n = 0 THEN ord ELSE ToBack(after[n - 1], failed[n])
    IN  after[Len(failed)]

Idle == [pc |-> "idle", drained |-> Zero, snapshot |-> <<>>, pos |-> 1,
         failed |-> <<>>, saw_content |-> FALSE]

KeyOf(c) == call[c].snapshot[call[c].pos]
Goto(c, pc) == call' = [call EXCEPT ![c].pc = pc]

Ascending(keys) ==
    CHOOSE s \in [1..Cardinality(keys) -> keys] : \A j, k \in DOMAIN s : j < k => s[j] < s[k]
ConfiguredAll(keys) == Ascending(Provider)

\* main.rs: the primary api_key first, then api_keys in the order of the file.
Configured(keys) == Ascending(keys)

Boot(keys) ==
    /\ order = Configured(keys)
    /\ blacklist = [i \in Provider |-> "no"]
    /\ tally = [i \in Provider |-> NoFailure]
    /\ last_fallback = NoProvider
    /\ call = [c \in Call |-> Idle]
    /\ auditing = TRUE
    /\ refused = {} /\ errors = Zero /\ settled = Zero

ProviderInit == Boot(Provider) /\ rotation = Provider /\ restarts = 0

-----------------------------------------------------------------------------
(***************************************************************************)
(* fold_stream_failures                                                    *)
(***************************************************************************)

PendingCounts == [i \in Provider |-> IF tally[i].pending THEN tally[i].count ELSE 0]

\* The pending entries leave the tally; without one there is nothing to fold.
Drain(c) ==
    /\ call[c].pc = "idle"
    /\ tally' = [i \in Provider |-> IF tally[i].pending THEN NoFailure ELSE tally[i]]
    /\ call' = [call EXCEPT ![c].drained = PendingCounts,
                            ![c].pc = IF PendingCounts = Zero THEN "snapshot" ELSE "fold"]
    /\ UNCHANGED <<order, blacklist, last_fallback, auditing, rotation, restarts, accounts>>

DrainedKeys(c) == {i \in Provider : call[c].drained[i] > 0}
Struck(c) == {i \in DrainedKeys(c) : call[c].drained[i] >= BlacklistAfter}

\* A key with enough failures is blacklisted for the TTL, any other is demoted
\* (in the order the HashMap gave them) and its count carried.
Fold(c) ==
    /\ call[c].pc = "fold"
    /\ blacklist' = [i \in Provider |-> IF i \in Struck(c) THEN "hour" ELSE blacklist[i]]
    /\ LET rest == DrainedKeys(c) \ Struck(c)
       IN  \E demoted \in Injection(1..Cardinality(rest), rest) : order' = Demoted(order, demoted)
    /\ settled' = [i \in Provider |->
                      settled[i] + IF i \in Struck(c) THEN call[c].drained[i] ELSE 0]
    /\ call' = [call EXCEPT
                   ![c].drained = [i \in Provider |-> IF i \in Struck(c) THEN 0 ELSE @[i]],
                   ![c].pc = IF DrainedKeys(c) = Struck(c) THEN "snapshot" ELSE "carry"]
    /\ UNCHANGED <<tally, last_fallback, auditing, rotation, restarts, refused, errors>>

CarriedOver(entry, count) == [pending |-> FALSE, count |-> count]

\* A carried count adds to what streams tallied meanwhile and keeps their pending bit.
CountsCarried(entry, count) == [entry EXCEPT !.count = Capped(@ + count)]

Carry(c) ==
    /\ call[c].pc = "carry"
    /\ tally' = [i \in Provider |->
                    IF i \in DrainedKeys(c) THEN CountsCarried(tally[i], call[c].drained[i])
                    ELSE tally[i]]
    /\ call' = [call EXCEPT ![c].drained = Zero, ![c].pc = "snapshot"]
    /\ UNCHANGED <<order, blacklist, last_fallback, auditing, rotation, restarts, accounts>>

-----------------------------------------------------------------------------
(***************************************************************************)
(* stream_chat                                                             *)
(***************************************************************************)

Snapshot(c) ==
    /\ call[c].pc = "snapshot"
    /\ call' = [call EXCEPT ![c].snapshot = order, ![c].pc = "expire"]
    /\ UNCHANGED <<locks, auditing, rotation, restarts, accounts>>

Expire(c) ==
    /\ call[c].pc = "expire"
    /\ blacklist' = [i \in Provider |-> IF blacklist[i] = "over" THEN "no" ELSE blacklist[i]]
    /\ Goto(c, "try")
    /\ UNCHANGED <<order, tally, last_fallback, auditing, rotation, restarts, accounts>>

\* contains_key: an entry whose hour is over still counts until the next Expire.
Try(c) ==
    /\ call[c].pc = "try" /\ call[c].pos <= Len(call[c].snapshot)
    /\ IF blacklist[KeyOf(c)] # "no"
       THEN call' = [call EXCEPT ![c].pos = @ + 1]
       ELSE Goto(c, "request")
    /\ UNCHANGED <<locks, auditing, rotation, restarts, accounts>>

\* note_fallback; "clean" means that no key failed in this call.
NotedLabel(c) ==
    IF call[c].failed = <<>> THEN NoProvider
    ELSE [requested |-> call[c].snapshot[1], served_by |-> KeyOf(c)]

Accepted(c) ==
    /\ call[c].pc = "request"
    /\ last_fallback' = NotedLabel(c)
    /\ Goto(c, IF call[c].failed = <<>> THEN "stream" ELSE "promote")
    /\ UNCHANGED <<order, blacklist, tally, auditing, rotation, restarts, accounts>>

Reordered(ord, pos, i, failed) ==
    Demoted(IF pos > 1 THEN ToFront(ord, i) ELSE ord, failed)

Promote(c) ==
    /\ call[c].pc = "promote"
    /\ order' = Reordered(order, call[c].pos, KeyOf(c), call[c].failed)
    /\ Goto(c, "stream")
    /\ UNCHANGED <<blacklist, tally, last_fallback, auditing, rotation, restarts, accounts>>

PushFailed(c) ==
    call' = [call EXCEPT ![c].failed = Append(@, KeyOf(c)), ![c].pos = @ + 1, ![c].pc = "try"]

PersistedPrimary(i) == {rotation \ {i}, rotation}

\* persist_inner leaves the primary to the operator; a failed write is logged only.
Persisted(i) == IF i = 1 THEN {rotation} ELSE {rotation \ {i}, rotation}

\* 401, 402 and 403, typed or not: the key is dead, which is the same as permanently dead.
Refused(c) ==
    /\ call[c].pc = "request"
    /\ blacklist' = [blacklist EXCEPT ![KeyOf(c)] = "forever"]
    /\ rotation' \in Persisted(KeyOf(c))
    /\ refused' = refused \cup {KeyOf(c)}
    /\ PushFailed(c)
    /\ UNCHANGED <<order, tally, last_fallback, auditing, restarts, errors, settled>>

\* Invalid requests, rate limits, server errors and connect timeouts only demote.
Failed(c) ==
    /\ call[c].pc = "request"
    /\ PushFailed(c)
    /\ UNCHANGED <<locks, auditing, rotation, restarts, accounts>>

\* A missing model ends the rotation, without demoting what failed before it.
ModelDead(c) ==
    /\ call[c].pc = "request"
    /\ call' = [call EXCEPT ![c] = Idle]
    /\ UNCHANGED <<locks, auditing, rotation, restarts, accounts>>

Exhausted(c) ==
    /\ call[c].pc = "try" /\ call[c].pos > Len(call[c].snapshot)
    /\ order' = Demoted(order, call[c].failed)
    /\ call' = [call EXCEPT ![c] = Idle]
    /\ UNCHANGED <<blacklist, tally, last_fallback, auditing, rotation, restarts, accounts>>

-----------------------------------------------------------------------------
(***************************************************************************)
(* The wrapped stream; every consumer drops it at its first Error or Done, *)
(* so saw_error is never read as true; an abort drops it anywhere.         *)
(***************************************************************************)

Content(c) ==
    /\ call[c].pc = "stream"
    /\ call' = [call EXCEPT ![c].saw_content = TRUE]
    /\ UNCHANGED <<locks, auditing, rotation, restarts, accounts>>

BumpedUnmarked(entry) == [entry EXCEPT !.count = Capped(@ + 1)]

Bumped(entry) == [pending |-> TRUE, count |-> Capped(entry.count + 1)]

\* An Error chunk, the inter-chunk timeout's included.
StreamError(c) ==
    /\ call[c].pc = "stream" /\ Total(errors) < MaxErrors
    /\ tally' = [tally EXCEPT ![KeyOf(c)] = Bumped(@)]
    /\ errors' = [errors EXCEPT ![KeyOf(c)] = @ + 1]
    /\ call' = [call EXCEPT ![c] = Idle]
    /\ UNCHANGED <<order, blacklist, last_fallback, auditing, rotation, restarts, refused, settled>>

ClearsAnything(c) == call[c].saw_content

\* A clean end with content forgives the failures that were folded already.
Clears(c) == call[c].saw_content /\ ~tally[KeyOf(c)].pending

StreamDone(c) ==
    /\ call[c].pc = "stream"
    /\ IF Clears(c)
       THEN /\ tally' = [tally EXCEPT ![KeyOf(c)] = NoFailure]
            /\ settled' = [settled EXCEPT ![KeyOf(c)] = @ + tally[KeyOf(c)].count]
       ELSE UNCHANGED <<tally, settled>>
    /\ call' = [call EXCEPT ![c] = Idle]
    /\ UNCHANGED <<order, blacklist, last_fallback, auditing, rotation, restarts, refused, errors>>

\* An abort of the turn (or the connect timeout of an outer chain) drops the
\* future of stream_chat at any await, or the stream; what a fold had drained
\* goes with it.  Between Fold and Carry there is no await.
Dropped(c) ==
    /\ call[c].pc \notin {"idle", "carry"}
    /\ settled' = [i \in Provider |-> settled[i] + call[c].drained[i]]
    /\ call' = [call EXCEPT ![c] = Idle]
    /\ UNCHANGED <<locks, auditing, rotation, restarts, refused, errors>>

-----------------------------------------------------------------------------
(***************************************************************************)
(* audit_keys_on_boot_with_model, time, and the process                    *)
(***************************************************************************)

\* join_all over the probes, then one pass over the outcomes under the blacklist
\* lock.  A probe that times out or fails for any other reason counts as alive.
Audited ==
    /\ auditing
    /\ auditing' = FALSE
    /\ \E dead \in SUBSET Range(order) :
          /\ blacklist' = [i \in Provider |-> IF i \in dead THEN "forever" ELSE blacklist[i]]
          /\ refused' = refused \cup dead
          /\ \E lost \in SUBSET dead : rotation' = rotation \ (dead \ (lost \cup {1}))
    /\ UNCHANGED <<order, tally, last_fallback, call, restarts, errors, settled>>

HourPasses(i) ==
    /\ blacklist[i] = "hour"
    /\ blacklist' = [blacklist EXCEPT ![i] = "over"]
    /\ UNCHANGED <<order, tally, last_fallback, call, auditing, rotation, restarts, accounts>>

\* A restart forgets everything but naked.json, whose keys it configures.
NewProcess ==
    /\ restarts < MaxRestarts
    /\ restarts' = restarts + 1
    /\ order' = Configured(rotation)
    /\ blacklist' = [i \in Provider |-> "no"]
    /\ tally' = [i \in Provider |-> NoFailure]
    /\ last_fallback' = NoProvider
    /\ call' = [c \in Call |-> Idle]
    /\ auditing' = TRUE
    /\ refused' = {} /\ errors' = Zero /\ settled' = Zero
    /\ UNCHANGED rotation

Fixed(c) == Drain(c) \/ Fold(c) \/ Carry(c) \/ Snapshot(c) \/ Expire(c) \/ Try(c) \/ Promote(c)
               \/ Exhausted(c)
Answered(c) == Accepted(c) \/ Refused(c) \/ Failed(c) \/ ModelDead(c)
Streamed(c) == Content(c) \/ StreamError(c) \/ StreamDone(c) \/ Dropped(c)

ProviderNext ==
    \/ \E c \in Call : Fixed(c) \/ Answered(c) \/ Streamed(c)
    \/ \E i \in Provider : HourPasses(i)
    \/ Audited
    \/ NewProcess
ProviderSpec == ProviderInit /\ [][ProviderNext]_provider_vars

-----------------------------------------------------------------------------
(***************************************************************************)
(* Properties                                                              *)
(***************************************************************************)

CallState == {"idle", "fold", "carry", "snapshot", "expire", "try", "request", "promote",
              "stream"}

\* Types; the order always holds every key once that was configured at boot.
ProviderTypeOK ==
    /\ IsInjective(order) /\ rotation \subseteq Range(order) /\ Range(order) \subseteq Provider
    /\ blacklist \in [Provider -> {"no", "hour", "over", "forever"}]
    /\ tally \in [Provider -> [pending : BOOLEAN, count : 0..CountMask]]
    /\ last_fallback \in {NoProvider} \cup [requested : Provider, served_by : Provider]
    /\ DOMAIN call = Call
    /\ \A c \in Call :
          /\ call[c].pc \in CallState /\ call[c].drained \in [Provider -> 0..CountMask]
          /\ IsInjective(call[c].snapshot) /\ IsInjective(call[c].failed)
          /\ Range(call[c].failed) \subseteq Range(call[c].snapshot)
          /\ call[c].pos \in 1..(Len(call[c].snapshot) + 1) /\ call[c].saw_content \in BOOLEAN
    /\ auditing \in BOOLEAN /\ restarts \in 0..MaxRestarts

StrikesInHand(i) == Total([c \in Call |-> call[c].drained[i]])

\* No mid-stream failure is lost or counted twice while several calls drain,
\* fold and carry the tally that streams keep bumping: each one is in the
\* tally, in the hands of one fold, or settled.
StrikesConserved ==
    \A i \in Provider : errors[i] = settled[i] + tally[i].count + StrikesInHand(i)

\* The same with the types: the order keeps every key once, and no count runs
\* out of its bits into the mark beside it.
StrikesAccounted == ProviderTypeOK /\ StrikesConserved

\* A failure that was not folded yet is forgiven by no later success: its mark
\* goes only into the hands of a fold.
PendingIsFolded ==
    [][restarts' = restarts =>
          \A i \in Provider : tally[i].pending /\ ~tally'[i].pending =>
              \E c \in Call : call'[c].drained[i] = tally[i].count]_provider_vars

\* A key that is filed as dead is not asked by any later process.
FiledIsNotAsked ==
    \A c \in Call : call[c].pc = "request" => KeyOf(c) \in rotation \cup refused

\* naked.json loses a key only after that key was refused, and never its primary;
\* and what it lost is not asked again.
OnlyRefusedAreFiled ==
    [][/\ rotation \ rotation' \subseteq refused'
       /\ 1 \in rotation'
       /\ FiledIsNotAsked']_provider_vars

\* What the comment on stream_failures says: a mid-stream failure is folded at
\* the top of the next call, so a drained tally reaches the blacklist or the order.
DrainedIsFolded ==
    [][restarts' = restarts =>
          \A c \in Call : call[c].pc = "fold" => call'[c].pc # "idle"]_provider_vars

\* What the comment on BLACKLIST_TTL says of a permanent failure: the key is
\* out of the rotation for the lifetime of the process.
PermanentIsPermanent ==
    [][restarts' = restarts =>
          \A i \in Provider : blacklist[i] = "forever" => blacklist'[i] = "forever"]_provider_vars

\* What the comment on last_fallback says: None when the requested provider
\* served the call, so a call served by another one leaves a label.
FallbackIsTold ==
    [][\A c \in Call :
          /\ call[c].pc = "request" /\ call'[c].pc \in {"stream", "promote"}
          /\ KeyOf(c) # call[c].snapshot[1]
          => last_fallback' # NoProvider]_provider_vars

\* The label is read after the stream for the turn that was served.
LabelIsOwn ==
    \A c \in Call : call[c].pc = "stream" => last_fallback = NotedLabel(c)
=============================================================================
