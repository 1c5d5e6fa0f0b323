----------------------------- MODULE FileTools -----------------------------
(***************************************************************************)
(* The file tools of several agents on one file (naked-core/src/tool):     *)
(* file_snapshot and read_file through the cache of fs_cache.rs;           *)
(* edit_file, apply_patch and write_file (file_ops.rs, apply_patch.rs)     *)
(* under the lock of file_lock.rs, which replace the file by a rename      *)
(* (atomic_write.rs); and programs of the shell, which take no lock.       *)
(*                                                                         *)
(* A text is the number of the write that made it; two texts are equal     *)
(* when their numbers are, and all are as long as each other.  A step is   *)
(* what happens between two awaits.                                        *)
(***************************************************************************)
EXTENDS Lists, Maps

CONSTANTS
    Agent,
    None,
    Spelled,     \* agent -> the path as it writes it
    Inode,
    Grain,       \* writes that get the same mtime; 1 is a clock that is fine enough
    MaxEntries,  \* max_bytes, in texts
    Plans,       \* what the agents may do: agent -> sequence of calls
    MaxOutside,  \* bound on writes of programs
    Droppable    \* steps at which the turn of an agent may be cancelled

VARIABLES
    disk,        \* None, or the inode, mtime and text of the file
    texts,       \* history: what was put on disk, [by, from, sha], in order
    entries, lru, in_flight,     \* CacheState; total_bytes is the size of entries
    call,        \* agent -> its call in progress
    seen,        \* agent -> the text whose hash it was last told
    answer,      \* history: agent -> the last text it read and the span it was asked in
    abandoned,   \* history: keys in in_flight whose load was dropped with its turn
    pool,        \* renames whose caller is gone: the texts they were made from
    plan, outside    \* calls each agent has yet to make, writes of programs left

cache == <<entries, lru, in_flight>>
file == <<disk, texts>>
bounds == <<plan, outside>>
vars == <<file, cache, call, seen, answer, abandoned, pool, bounds>>

Ops == {"snapshot", "edit", "guarded", "write"}
Steps == {"idle", "stat", "look", "wait", "load", "check", "store",
          "lock", "text", "rename", "forget"}
Now == Len(texts)

NoCall == [at |-> "idle", op |-> None, key |-> None, text |-> None, lock |-> None, since |-> 0]

Init ==
    /\ \/ /\ texts = <<[by |-> "outside", from |-> None, sha |-> None]>>
          /\ disk = [ino |-> CHOOSE i \in Inode : TRUE, mtime |-> 1 \div Grain, text |-> 1]
       \/ texts = <<>> /\ disk = None
    /\ entries = EmptyMap /\ lru = <<>> /\ in_flight = {}
    /\ call = [a \in Agent |-> NoCall]
    /\ seen = [a \in Agent |-> None]
    /\ answer = [a \in Agent |-> None]
    /\ abandoned = {} /\ pool = {}
    /\ plan \in Plans /\ outside = MaxOutside

-----------------------------------------------------------------------------
(***************************************************************************)
(* The file                                                                *)
(***************************************************************************)

KeyWithoutTime == [ino |-> disk.ino, mtime |-> 0]
Key == [ino |-> disk.ino, mtime |-> disk.mtime]

\* A rename brings another inode, a program writes into the one there is.
Placed(how, inodes) ==
    /\ texts' = Append(texts, how)
    /\ \E i \in inodes : disk' = [ino |-> i, mtime |-> (Now + 1) \div Grain, text |-> Now + 1]

OtherInodes == IF disk = None THEN Inode ELSE Inode \ {disk.ino}

ProgramWrites ==
    /\ outside > 0 /\ outside' = outside - 1
    /\ Placed([by |-> "outside", from |-> None, sha |-> None],
            IF disk = None THEN Inode ELSE {disk.ino})
    /\ UNCHANGED <<cache, call, seen, answer, abandoned, pool, plan>>

ProgramRemoves ==
    /\ outside > 0 /\ disk # None /\ outside' = outside - 1
    /\ disk' = None
    /\ UNCHANGED <<texts, cache, call, seen, answer, abandoned, pool, plan>>

-----------------------------------------------------------------------------
(***************************************************************************)
(* Calls                                                                   *)
(***************************************************************************)

To(a, step) == call' = [call EXCEPT ![a].at = step]
End(a) == call' = [call EXCEPT ![a] = NoCall]

\* The key of the lock is the canonical path, or the path as it was written
\* when there is nothing to canonicalize.
LockKey(a) == IF disk = None THEN Spelled[a] ELSE "file"

Call(a) ==
    /\ call[a] = NoCall /\ plan[a] # <<>>
    /\ plan' = [plan EXCEPT ![a] = Tail(@)]
    /\ call' = [call EXCEPT ![a] =
            LET op == Head(plan[a]) IN
            IF op = "snapshot" THEN [NoCall EXCEPT !.op = op, !.at = "stat", !.since = Now]
            ELSE [NoCall EXCEPT !.op = op, !.at = "lock", !.lock = LockKey(a)]]
    /\ answer' = [answer EXCEPT ![a] = None]
    /\ UNCHANGED <<file, cache, seen, abandoned, pool, outside>>

\* The turn is cancelled: its futures are dropped where they are.  A rename
\* that was handed to the pool of blocking threads is carried out all the same;
\* a load leaves its key in in_flight, and nobody is woken.
Cancelled(a) ==
    /\ call[a].at \in Droppable
    /\ End(a)
    /\ pool' = IF call[a].at = "rename" THEN pool \cup {call[a].text} ELSE pool
    /\ abandoned' = abandoned \cup
            (IF call[a].at \in {"load", "check"} THEN in_flight \cap {call[a].key} ELSE {})
    /\ plan' = [plan EXCEPT ![a] = <<>>]
    /\ UNCHANGED <<file, cache, seen, answer, outside>>

PoolRenames(r) ==
    /\ pool' = pool \ {r}
    /\ Placed([by |-> "late", from |-> r, sha |-> None], OtherInodes)
    /\ UNCHANGED <<cache, call, seen, answer, abandoned, bounds>>

-----------------------------------------------------------------------------
(***************************************************************************)
(* get_or_load                                                             *)
(***************************************************************************)

Returns(a, text) ==
    /\ seen' = [seen EXCEPT ![a] = text]
    /\ answer' = [answer EXCEPT ![a] = [text |-> text, since |-> call[a].since, till |-> Now]]

\* A queue without some keys.
Others(queue, gone) == Kept(queue, {i \in DOMAIN queue : queue[i] \notin gone})

Stat(a) ==
    /\ call[a].at = "stat"
    /\ call' = [call EXCEPT ![a] = IF disk = None THEN NoCall
                                   ELSE [@ EXCEPT !.at = "look", !.key = Key]]
    /\ UNCHANGED <<file, cache, seen, answer, abandoned, pool, bounds>>

\* hit_locked moves the key to the end of lru; a key that is being loaded is
\* waited for; else this call loads it.
Look(a) ==
    LET k == call[a].key IN
    /\ call[a].at = "look"
    /\ IF MaxEntries = 0 THEN To(a, "load") /\ UNCHANGED <<cache, seen, answer>>
       ELSE IF k \in DOMAIN entries
       THEN /\ lru' = Append(Others(lru, {k}), k)
            /\ Returns(a, entries[k]) /\ End(a)
            /\ UNCHANGED <<entries, in_flight>>
       ELSE IF k \in in_flight
       THEN To(a, "wait") /\ UNCHANGED <<cache, seen, answer>>
       ELSE /\ To(a, "load") /\ in_flight' = in_flight \cup {k}
            /\ UNCHANGED <<entries, lru, seen, answer>>
    /\ UNCHANGED <<file, abandoned, pool, bounds>>

\* Everyone who waits for the key of a is woken and starts over.
WakeNobody(a) == [call EXCEPT ![a] = NoCall]
Wake(a) ==
    [b \in Agent |-> IF b = a THEN NoCall
                     ELSE IF call[b].at = "wait" /\ call[b].key = call[a].key
                     THEN [call[b] EXCEPT !.at = "stat", !.key = None] ELSE call[b]]


FinishForgotten(a) == in_flight' = in_flight /\ End(a)
FinishInFlight(a) == in_flight' = in_flight \ {call[a].key} /\ call' = Wake(a)

Load(a) ==
    /\ call[a].at = "load"
    /\ IF disk = None
       THEN FinishInFlight(a)
       ELSE call' = [call EXCEPT ![a].at = "check", ![a].text = disk.text] /\ UNCHANGED in_flight
    /\ UNCHANGED <<file, entries, lru, seen, answer, abandoned, pool, bounds>>

\* A file that is another by now, or gone, is answered but not kept.
Check(a) ==
    /\ call[a].at = "check"
    /\ IF MaxEntries > 0 /\ disk # None /\ Key = call[a].key
       THEN To(a, "store") /\ UNCHANGED <<in_flight, seen, answer>>
       ELSE FinishInFlight(a) /\ Returns(a, call[a].text)
    /\ UNCHANGED <<file, entries, lru, abandoned, pool, bounds>>

\* The oldest keys go until the cap holds.
EvictedLoosely(k, queue) ==
    /\ entries' = k /\ lru' = IF Len(queue) > MaxEntries THEN Tail(queue) ELSE queue
Evicted(k, queue) ==
    LET drop == IF Len(queue) > MaxEntries THEN {Head(queue)} ELSE {} IN
    /\ entries' = Drop(k, drop)
    /\ lru' = Others(queue, drop)

Store(a) ==
    LET k == call[a].key IN
    /\ call[a].at = "store"
    /\ Evicted(Put(entries, k, call[a].text), Append(Others(lru, {k}), k))
    /\ FinishInFlight(a) /\ Returns(a, call[a].text)
    /\ UNCHANGED <<file, abandoned, pool, bounds>>

-----------------------------------------------------------------------------
(***************************************************************************)
(* edit_file, apply_patch, write_file                                      *)
(***************************************************************************)

Holds(a) == call[a].at \in {"text", "rename", "forget"}

LockUnheld(a) ==
    /\ call[a].at = "lock" /\ To(a, "text")
    /\ UNCHANGED <<file, cache, seen, answer, abandoned, pool, bounds>>

Lock(a) ==
    /\ call[a].at = "lock"
    /\ ~ \E b \in Agent : Holds(b) /\ call[b].lock = call[a].lock
    /\ To(a, "text")
    /\ UNCHANGED <<file, cache, seen, answer, abandoned, pool, bounds>>

\* An edit needs a file; a guarded one is refused when that is not the text its
\* caller was told of.
MayReplaceUnguarded(a) == call[a].op = "write" \/ disk # None
MayReplace(a) ==
    \/ call[a].op = "write"
    \/ disk # None /\ (call[a].op = "guarded" => seen[a] \in {None, disk.text})

Text(a) ==
    /\ call[a].at = "text"
    /\ call' = [call EXCEPT ![a] =
            IF MayReplace(a)
            THEN [@ EXCEPT !.at = "rename", !.text = IF call[a].op = "write" THEN None ELSE disk.text]
            ELSE NoCall]
    /\ UNCHANGED <<file, cache, seen, answer, abandoned, pool, bounds>>

\* A failed write leaves the file as it is and forgets nothing.
Rename(a) ==
    /\ call[a].at = "rename"
    /\ Placed([by |-> call[a].op, from |-> call[a].text,
             sha |-> IF call[a].op = "guarded" THEN seen[a] ELSE None], OtherInodes)
    /\ To(a, "forget")
    /\ UNCHANGED <<cache, seen, answer, abandoned, pool, bounds>>

RenameFails(a) ==
    /\ call[a].at = "rename" /\ End(a)
    /\ UNCHANGED <<file, cache, seen, answer, abandoned, pool, bounds>>

\* invalidate: all that is kept of the path goes.
Forget(a) ==
    /\ call[a].at = "forget" /\ End(a)
    /\ entries' = EmptyMap /\ lru' = <<>>
    /\ UNCHANGED <<file, in_flight, seen, answer, abandoned, pool, bounds>>

-----------------------------------------------------------------------------

Proceed(a) ==
    Stat(a) \/ Look(a) \/ Load(a) \/ Check(a) \/ Store(a)
        \/ Lock(a) \/ Text(a) \/ Rename(a) \/ Forget(a)

Next ==
    \/ \E a \in Agent :
        \/ Call(a)
        \/ Proceed(a)
        \/ RenameFails(a)
        \/ Cancelled(a)
    \/ \E r \in pool : PoolRenames(r)
    \/ ProgramWrites
    \/ ProgramRemoves

\* The runtime goes on with whatever can go on; there are finitely many calls.
Progress == (\E a \in Agent : Proceed(a)) \/ \E r \in pool : PoolRenames(r)
Spec == Init /\ [][Next]_vars /\ WF_vars(Progress)

-----------------------------------------------------------------------------
(***************************************************************************)
(* Properties                                                              *)
(***************************************************************************)

TextId == 1..Now
CacheKey == [ino : Inode, mtime : Nat]

\* The types; lru lists every key of the cache once, oldest first, and the cap
\* holds (fs_cache.rs keeps the two and total_bytes by hand in five places).
TypeOK ==
    /\ disk = None \/ (disk \in [ino : Inode, mtime : Nat, text : TextId])
    /\ DOMAIN entries \subseteq CacheKey /\ IsInjective(lru) /\ Range(lru) = DOMAIN entries
    /\ Cardinality(DOMAIN entries) <= MaxEntries
    /\ in_flight \subseteq CacheKey
    /\ \A a \in Agent :
        /\ call[a].at \in Steps /\ call[a].op \in Ops \cup {None}
        /\ call[a].text \in TextId \cup {None} /\ seen[a] \in TextId \cup {None}

\* What was written without the lock, or after it was given back.
Unlocked == {"outside", "late"}
Between(n, from) == {texts[m].by : m \in (from + 1)..(n - 1)}

\* No update is lost between tools: what an edit replaces is what it was made
\* from, or something written without the lock; never the work of another
\* agent whose call was still attended (the guard that file_lock.rs wants "held
\* for the duration of the read-modify-write cycle").
NoLostUpdate ==
    \A n \in TextId :
        texts[n].from # None /\ texts[n].by # "late" => Between(n, texts[n].from) \subseteq Unlocked

\* The same of an edit whose caller was cancelled during the rename.  It does
\* not hold: the lock is free before the rename is done.
NoLateLoss ==
    \A n \in TextId :
        texts[n].from # None /\ texts[n].by = "late" => Between(n, texts[n].from) \subseteq Unlocked

\* A guarded edit replaces the very text whose hash its caller was told, though
\* that text may have come from the cache, long ago.
GuardedReplacesWhatWasRead ==
    \A n \in TextId :
        texts[n].sha # None => Between(n, texts[n].sha) \subseteq Unlocked

\* A read answers a text the file had at some time during the read, however
\* old the entry it was answered from.
FreshRead ==
    \A a \in Agent : answer[a] # None =>
        answer[a].since <= answer[a].text /\ answer[a].text <= answer[a].till

\* Every key in in_flight has an agent that loads it, but for those whose load was
\* dropped: a load that fails, or is overtaken by a write, leaves none behind.
LoadsGoOn ==
    \A k \in in_flight \ abandoned : \E a \in Agent :
        call[a].at \in {"load", "check", "store"} /\ call[a].key = k

\* Every call ends: whoever waits for a lock or for a load of another agent is
\* woken, also when that load fails or its file was replaced meanwhile.  Only who
\* waits for a load that was dropped waits on.
Stranded(a) == call[a].at = "wait" /\ call[a].key \in abandoned
Quiet == \A a \in Agent : call[a].at = "idle" \/ Stranded(a)
CallsEnd == []<>Quiet

\* Nobody waits for a load that is not going on.  It does not hold: nothing takes
\* the key of a dropped load out of in_flight, and nobody can load that text again.
NobodyIsStranded == []<>(\A a \in Agent : call[a].at = "idle")
=============================================================================
