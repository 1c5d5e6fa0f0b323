--------------------------- MODULE ChannelMapProofs ---------------------------
(***************************************************************************)
(* ChannelMap for any topics, cards, handlers, sessions, times and bounds. *)
(***************************************************************************)
EXTENDS ChannelMap, SequenceTheorems, FiniteSetTheorems, WellFoundedInduction, TLAPS

-----------------------------------------------------------------------------
(* Lists of sessions *)

LEMMA Least == ASSUME NEW T, T \subseteq Nat, T # {} PROVE \E n \in T : \A m \in T : n <= m
<1>1. PICK n \in T : \A m \in T : <<m, n>> \notin OpToRel(<, Nat)
    BY WFMin, NatLessThanWellFounded
<1>2. \A m \in T : ~(m < n)
    BY <1>1 DEF OpToRel
<1> QED
    BY <1>2

LEMMA MaxExists ==
    ASSUME NEW n \in Nat, NEW T \in SUBSET (1..n), T # {}
    PROVE  Max(T) \in T
<1> DEFINE D == {n - i : i \in T}
<1>1. D \subseteq Nat /\ D # {}
    OBVIOUS
<1>2. PICK d \in D : \A e \in D : d <= e
    BY <1>1, Least
<1>3. PICK x \in T : d = n - x
    BY <1>2
<1>4. ASSUME NEW y \in T PROVE x >= y
    <2>1. n - x <= n - y
        BY <1>2, <1>3
    <2>2. x \in 1..n /\ y \in 1..n
        OBVIOUS
    <2> QED
        BY <2>1, <2>2
<1>5. \E z \in T : \A y \in T : z >= y
    BY <1>4
<1> QED
    BY <1>5 DEF Max

\* Renewing a session moves it to the end of the list and keeps all of them, each once.
LEMMA RenewedKeeps ==
    ASSUME NEW r \in Seq(Session), IsInjective(r), NEW s \in Range(r)
    PROVE  /\ Renewed(r, s) \in Seq(Session) /\ IsInjective(Renewed(r, s))
           /\ Len(Renewed(r, s)) = Len(r) /\ Range(Renewed(r, s)) = Range(r)
<1> DEFINE p == CHOOSE p \in DOMAIN r : r[p] = s
           n == Len(r)
           w == Renewed(r, s)
<1>1. n \in Nat /\ DOMAIN r = 1..n /\ \A i \in 1..n : r[i] \in Session
    BY LenProperties
<1>2. p \in 1..n /\ r[p] = s
    BY <1>1 DEF Range
<1>3. w = [i \in DOMAIN r |-> IF i < p THEN r[i] ELSE IF i = n THEN s ELSE r[i + 1]]
    BY DEF Renewed
<1> HIDE DEF p, n, w
<1>4. \A i \in 1..n : w[i] = IF i < p THEN r[i] ELSE IF i = n THEN r[p] ELSE r[i + 1]
    BY <1>1, <1>2, <1>3
<1>5. ASSUME NEW i \in 1..n PROVE w[i] \in Session
    <2>1. CASE i < p \/ i = n
        BY <1>1, <1>2, <1>4, <2>1
    <2>2. CASE ~(i < p) /\ i # n
        <3>1. i + 1 \in 1..n
            BY <1>1, <2>2
        <3> QED
            BY <1>1, <1>4, <2>2, <3>1
    <2> QED
        BY <2>1, <2>2
<1>6. w \in [1..n -> Session]
    BY <1>1, <1>3, <1>5
<1>7. w \in Seq(Session) /\ Len(w) = n /\ DOMAIN w = 1..n
    BY <1>1, <1>6
<1>8. \A i, j \in 1..n : r[i] = r[j] => i = j
    BY <1>1 DEF IsInjective
\* Where each place of the new list came from.
<1> DEFINE q(i) == IF i < p THEN i ELSE IF i = n THEN p ELSE i + 1
<1>9. \A i \in 1..n : q(i) \in 1..n /\ w[i] = r[q(i)]
    BY <1>1, <1>2, <1>4
<1>10. \A i, j \in 1..n : q(i) = q(j) => i = j
    BY <1>1, <1>2
<1>11. \A k \in 1..n : \E i \in 1..n : q(i) = k
    <2> SUFFICES ASSUME NEW k \in 1..n PROVE \E i \in 1..n : q(i) = k
        OBVIOUS
    <2>1. CASE k < p
        BY <1>1, <2>1
    <2>2. CASE k = p
        BY <1>1, <1>2, <2>2
    <2>3. CASE k > p
        <3>1. k - 1 \in 1..n /\ q(k - 1) = k
            BY <1>1, <1>2, <2>3
        <3> QED
            BY <3>1
    <2> QED
        BY <1>1, <1>2, <2>1, <2>2, <2>3
<1> HIDE DEF q
<1>12. IsInjective(w)
    <2>1. ASSUME NEW i \in 1..n, NEW j \in 1..n, w[i] = w[j] PROVE i = j
        <3>1. q(i) \in 1..n /\ q(j) \in 1..n /\ r[q(i)] = r[q(j)]
            BY <1>9, <2>1
        <3>2. q(i) = q(j)
            BY <1>8, <3>1
        <3> QED
            BY <1>10, <3>2
    <2> QED
        BY <1>7, <2>1 DEF IsInjective
<1>13. Range(w) \subseteq Range(r)
    BY <1>1, <1>7, <1>9 DEF Range
<1>14. Range(r) \subseteq Range(w)
    <2> SUFFICES ASSUME NEW k \in 1..n PROVE r[k] \in Range(w)
        BY <1>1 DEF Range
    <2>1. PICK i \in 1..n : q(i) = k
        BY <1>11
    <2>2. w[i] = r[k]
        BY <1>9, <2>1
    <2> QED
        BY <1>7, <2>2 DEF Range
<1> QED
    BY <1>7, <1>12, <1>13, <1>14 DEF w, n

\* A new session is added at the end.
LEMMA AppendedKeeps ==
    ASSUME NEW r \in Seq(Session), IsInjective(r), Range(r) = 1..Len(r), Len(r) < MaxSessions
    PROVE  LET w == Append(r, Len(r) + 1)
           IN  /\ w \in Seq(Session) /\ IsInjective(w) /\ Len(w) = Len(r) + 1
               /\ Range(w) = 1..(Len(r) + 1)
<1> DEFINE n == Len(r)
           w == Append(r, n + 1)
<1>1. n \in Nat /\ DOMAIN r = 1..n
    BY LenProperties
<1>2. n + 1 \in Session
    BY <1>1, ChannelAssumption DEF Session
<1>3. /\ w \in Seq(Session) /\ Len(w) = n + 1 /\ DOMAIN w = 1..(n + 1)
      /\ \A i \in 1..(n + 1) : w[i] = IF i = n + 1 THEN n + 1 ELSE r[i]
    BY <1>1, <1>2
<1>4. \A i \in 1..n : r[i] \in 1..n
    BY <1>1 DEF Range
<1>5. \A k \in 1..n : \E i \in 1..n : r[i] = k
    BY <1>1 DEF Range
<1>6. \A i, j \in 1..n : r[i] = r[j] => i = j
    BY <1>1 DEF IsInjective
<1> HIDE DEF n, w
<1>7. IsInjective(w)
    BY <1>1, <1>3, <1>4, <1>6 DEF IsInjective
<1>8. \A i \in 1..(n + 1) : w[i] \in 1..(n + 1)
    BY <1>1, <1>3, <1>4
<1>9. ASSUME NEW k \in 1..(n + 1) PROVE \E i \in 1..(n + 1) : w[i] = k
    <2>1. CASE k = n + 1
        <3>1. n + 1 \in 1..(n + 1) /\ w[n + 1] = n + 1
            BY <1>1, <1>3
        <3> QED
            BY <2>1, <3>1
    <2>2. CASE k # n + 1
        <3>1. k \in 1..n
            BY <1>1, <2>2
        <3>2. PICK i \in 1..n : r[i] = k
            BY <1>5, <3>1
        <3>3. i \in 1..(n + 1) /\ w[i] = k
            BY <1>1, <1>3, <3>2
        <3> QED
            BY <3>3
    <2> QED
        BY <2>1, <2>2
<1>10. Range(w) = 1..(n + 1)
    BY <1>3, <1>8, <1>9 DEF Range
<1> QED
    BY <1>3, <1>7, <1>10 DEF n, w
-----------------------------------------------------------------------------
(***************************************************************************)
(* The invariant, part by part                                             *)
(***************************************************************************)

PlainRow == [count : Nat, permanent : BOOLEAN, last_call : {None} \cup Card]
Allowing == [Topic -> BOOLEAN]
Cut == [yolo : Grants, chat : PlainRow, allow : Allowing]
Config == [yolo : {None} \cup Time, allow : BOOLEAN]
Pair == Topic \X Session

TaskRecord ==
    [pc : {"idle", "grant", "count", "load", "store", "approve", "clear_topics", "deny", "set", "disable",
           "link", "flush"},
     command : {None, "yolo", "off", "add", "remove", "new"}, topic : Topic \cup {None},
     call : Card \cup {None}, permanent : BOOLEAN, session : {None} \cup Pair,
     edited : {None} \cup Config, left : SUBSET Pair]

CardRecord ==
    [state : {"new", "purge", "asking", "pending", "allowed", "denied", "lost"},
     topic : Topic \cup {None}, tapped : BOOLEAN]

Stored ==
    /\ snapshot \in Cut /\ config \in [Topic -> [Session -> Config]]
    /\ saved \in [Topic -> [recent : Seq(Session), linked : SUBSET Session]]

Typed ==
    /\ now \in Time /\ map \in [Topic -> Session] /\ yolo \in Grants /\ chat \in PlainRow
    /\ allow \in Allowing
    /\ flush \in [by : Handler \cup {"timer", None}, stage : {"none", "begun", "cut"}, cut : Cut]
    /\ task \in [Handler -> TaskRecord] /\ cards \in [Card -> CardRecord]
    /\ running \in [Topic -> SUBSET Session] /\ Stored
    /\ enables \in Nat /\ granted \subseteq Topic

\* The sessions of a topic that are on disk; the map and the turns name no other.
Kept(t) ==
    /\ IsInjective(saved[t].recent) /\ Range(saved[t].recent) = 1..Len(saved[t].recent)
    /\ Len(saved[t].recent) <= MaxSessions
    /\ saved[t].linked \subseteq 1..Len(saved[t].recent) /\ 1 \in saved[t].linked
    /\ map[t] \in 1..Len(saved[t].recent) /\ running[t] \subseteq 1..Len(saved[t].recent)

CardTopics == \A c \in Card : cards[c].state # "new" => cards[c].topic \in Topic

Sessions == \A t \in Topic : Kept(t)

\* What a task has in its hands at which step.
Formed(r) ==
    /\ r.pc = "idle" => r = Idle
    /\ r.pc # "idle" => r.topic \in Topic
    /\ r.pc \in {"grant", "count", "approve"} => r.command = "yolo"
    /\ r.pc = "store" => r.session \in Pair /\ r.edited \in Config
    /\ r.permanent => r.command = "yolo" /\ r.pc \in {"load", "store", "approve", "flush"}

Renews(r) ==
    r.pc \in {"set", "disable", "link"} =>
        r.session \in Pair /\ r.session[2] \in 1..Len(saved[r.topic].recent)

Tasks == \A p \in Handler : Formed(task[p]) /\ Renews(task[p])

Flushing ==
    /\ flush.stage = "none" <=> flush.by = None
    /\ flush.by \in Handler => task[flush.by].pc = "flush"
    /\ Partial => flush.cut.yolo = yolo

\* Every approval, wherever it is kept, is of a topic that was given one, and an explicit
\* one is of an enable.
GivenIn(grants, list) ==
    \A t \in Topic :
       /\ grants[t] # None \/ list[t] => t \in granted
       /\ Seeds(grants[t]) => enables > 0
GivenConfig(t, own) ==
    /\ own.yolo # None \/ own.allow => t \in granted
    /\ own.yolo # None => enables > 0
GivenTask(r) ==
    /\ r.pc = "store" => GivenConfig(r.session[1], r.edited)
    /\ r.command = "yolo" /\ r.pc \notin {"idle", "grant"} => r.topic \in granted /\ enables > 0

Given ==
    /\ GivenIn(yolo, allow) /\ GivenIn(snapshot.yolo, snapshot.allow)
    /\ GivenIn(flush.cut.yolo, flush.cut.allow)
    /\ \A t \in Topic, s \in Session : GivenConfig(t, config[t][s])
    /\ \A p \in Handler : GivenTask(task[p])

Earned(row) == row.count <= enables /\ (row.permanent <=> row.count >= PermanentAfter)

\* Enables that are made and not counted yet.
Uncounted == {p \in Handler : task[p].pc = "count"}

Counted ==
    /\ Earned(chat) /\ Earned(snapshot.chat) /\ Earned(flush.cut.chat)
    /\ IsFiniteSet(Uncounted) /\ chat.count + Cardinality(Uncounted) <= enables
    /\ \A p \in Handler : task[p].permanent => enables >= PermanentAfter

\* A permanent tier is on disk, or in the cut that is being written, or a task is still to flush it.
Durable ==
    /\ PermanentIsDurable
    /\ chat.permanent /\ flush.stage = "cut" =>
          flush.cut.chat.permanent \/ \E p \in Handler : task[p].permanent /\ p # flush.by

Base == Typed /\ CardTopics /\ Sessions /\ Tasks

\* Where an approval was taken back none is in force, and no enable is on its way.
Enables(r, t) == r.command = "yolo" /\ r.pc \notin {"idle", "grant"} /\ (r.permanent \/ r.topic = t)
Barred(t) == ~chat.permanent /\ yolo[t] = None /\ ~allow[t]

Withdrawn ==
    /\ revoked \subseteq Topic
    /\ \A t \in revoked : Barred(t) /\ \A p \in Handler : ~Enables(task[p], t)

IInv ==
    /\ Base /\ Flushing
    /\ Given /\ Counted /\ ApprovalHasConsent /\ Durable /\ Withdrawn

\* A restart finds a linked session of each topic.
LEMMA BestIsLinked ==
    ASSUME Stored, Sessions, NEW t \in Topic
    PROVE  /\ Best(t) \in saved[t].linked /\ Best(t) \in 1..Len(saved[t].recent)
           /\ Best(t) \in Session
<1> DEFINE r == saved[t].recent
           T == {i \in DOMAIN r : r[i] \in saved[t].linked}
<1>1. r \in Seq(Session) /\ Len(r) \in Nat /\ DOMAIN r = 1..Len(r)
    BY LenProperties DEF Stored
<1>2. 1 \in saved[t].linked /\ saved[t].linked \subseteq Range(r) /\ Range(r) = 1..Len(r)
    BY DEF Sessions, Kept
<1>3. T # {} /\ T \in SUBSET (1..Len(r))
    BY <1>1, <1>2 DEF Range
<1>4. Max(T) \in T
    BY <1>1, <1>3, MaxExists
<1>5. Best(t) = r[Max(T)]
    BY DEF Best
<1> HIDE DEF T
<1>6. Best(t) \in saved[t].linked
    BY <1>4, <1>5 DEF T
<1>7. Best(t) \in 1..Len(r)
    BY <1>2, <1>6
<1>8. saved[t].linked \subseteq Session
    BY DEF Stored
<1> QED
    BY <1>6, <1>7, <1>8

-----------------------------------------------------------------------------
(* The first state *)

LEMMA BlankTyped ==
    /\ Idle \in TaskRecord /\ NoConfig \in Config /\ NoRow \in PlainRow /\ NoCut \in Cut
    /\ NoFlush \in [by : Handler \cup {"timer", None}, stage : {"none", "begun", "cut"}, cut : Cut]
<1>1. Idle \in TaskRecord
    BY DEF Idle, TaskRecord
<1>2. NoConfig \in Config
    BY DEF NoConfig, Config
<1>3. NoRow \in PlainRow
    BY DEF NoRow, PlainRow
<1>4. [t \in Topic |-> None] \in Grants /\ [t \in Topic |-> FALSE] \in Allowing
    BY DEF Grants, Allowing
<1>5. NoCut \in Cut
    BY <1>3, <1>4 DEF NoCut, Cut
<1> QED
    BY <1>1, <1>2, <1>3, <1>5 DEF NoFlush

LEMMA FirstSession ==
    /\ 1 \in Session /\ <<1>> \in Seq(Session) /\ Len(<<1>>) = 1
    /\ IsInjective(<<1>>) /\ Range(<<1>>) = 1..1
<1>1. 1 \in Session
    BY ChannelAssumption DEF Session
<1>2. IsInjective(<<1>>) /\ Range(<<1>>) = 1..1
    BY DEF IsInjective, Range
<1> QED
    BY <1>1, <1>2

LEMMA InitTyped == Init => Typed /\ Sessions
<1> SUFFICES ASSUME Init PROVE Typed /\ Sessions
    OBVIOUS
<1> USE DEF Init
<1>1. now \in Time /\ map \in [Topic -> Session]
    BY FirstSession, ChannelAssumption DEF Time
<1>2. yolo \in Grants /\ chat \in PlainRow /\ allow \in Allowing /\ snapshot \in Cut
    BY BlankTyped DEF Grants, Allowing
<1>3. task \in [Handler -> TaskRecord]
    BY BlankTyped
<1>4. cards \in [Card -> CardRecord]
    BY DEF CardRecord
<1>5. config \in [Topic -> [Session -> Config]]
    BY BlankTyped
<1>6. saved \in [Topic -> [recent : Seq(Session), linked : SUBSET Session]]
    BY FirstSession
<1>7. running \in [Topic -> SUBSET Session]
    BY FirstSession
<1>8. Sessions
    <2> SUFFICES ASSUME NEW t \in Topic PROVE Kept(t)
        BY DEF Sessions
    <2>1. saved[t].recent = <<1>> /\ saved[t].linked = {1} /\ map[t] = 1 /\ running[t] \subseteq {1}
        OBVIOUS
    <2> DEFINE r == <<1>>
    <2>2. IsInjective(r) /\ Range(r) = 1..1 /\ Len(r) = 1 /\ saved[t].recent = r
        BY <2>1, FirstSession
    <2> HIDE DEF r, Init
    <2> QED
        BY <2>1, <2>2, ChannelAssumption DEF Kept
<1> QED
    BY <1>1, <1>2, <1>3, <1>4, <1>5, <1>6, <1>7, <1>8, BlankTyped DEF Typed, Stored

LEMMA InitIInv == Init => IInv
<1> SUFFICES ASSUME Init PROVE IInv
    OBVIOUS
<1>0. Typed /\ Sessions
    BY InitTyped
<1> USE DEF Init
<1>1. CardTopics /\ ApprovalHasConsent
    BY DEF CardTopics, ApprovalHasConsent
<1>2. \A p \in Handler : task[p] = Idle
    OBVIOUS
<1>3. Tasks
    BY <1>2 DEF Tasks, Formed, Renews, Idle
<1>4. Flushing
    BY ChannelAssumption DEF Flushing, NoFlush, Partial
<1>5. GivenIn(yolo, allow)
    BY DEF GivenIn, Seeds
<1>6. NoCut.yolo = [t \in Topic |-> None] /\ NoCut.allow = [t \in Topic |-> FALSE]
      /\ NoCut.chat = NoRow /\ NoFlush.cut = NoCut /\ NoFlush.stage = "none"
    BY DEF NoCut, NoFlush
<1>7. \A t \in Topic, s \in Session : config[t][s] = NoConfig
    OBVIOUS
<1>8. Given
    <2>1. yolo = NoCut.yolo /\ allow = NoCut.allow /\ snapshot = NoCut /\ flush.cut = NoCut
        BY <1>6
    <2>2. \A t \in Topic, s \in Session : config[t][s].yolo = None /\ config[t][s].allow = FALSE
        BY <1>7 DEF NoConfig
    <2>3. \A p \in Handler : task[p].pc = "idle"
        BY <1>2 DEF Idle
    <2> HIDE DEF Init
    <2> QED
        BY <1>5, <2>1, <2>2, <2>3 DEF Given, GivenConfig, GivenTask
<1>9. Uncounted = {}
    BY <1>2 DEF Uncounted, Idle
<1>10. Earned(NoRow)
    BY DEF Earned, NoRow, PermanentAfter
<1>11. Counted
    BY <1>2, <1>6, <1>9, <1>10, FS_EmptySet DEF Counted, Idle, NoRow
<1>12. Durable
    BY DEF Durable, PermanentIsDurable, NoRow
<1>13. Withdrawn
    BY DEF Withdrawn
<1> QED
    BY <1>0, <1>1, <1>3, <1>4, <1>8, <1>11, <1>12, <1>13 DEF IInv, Base

-----------------------------------------------------------------------------
(* What each action does to its task *)

TaskState == {"idle", "grant", "count", "load", "store", "approve", "clear_topics", "deny", "set", "disable",
              "link", "flush"}

Alters(g, h, p, pc, permanent, session, edited, left) ==
    /\ h \in [Handler -> TaskRecord] /\ \A q \in Handler \ {p} : h[q] = g[q]
    /\ h[p].command = g[p].command /\ h[p].topic = g[p].topic /\ h[p].call = g[p].call
    /\ h[p].pc = pc /\ h[p].permanent = permanent /\ h[p].session = session
    /\ h[p].edited = edited /\ h[p].left = left
Altered(p, pc, permanent, session, edited, left) ==
    Alters(task, task', p, pc, permanent, session, edited, left)
Moved(p, pc) ==
    Altered(p, pc, task[p].permanent, task[p].session, task[p].edited, task[p].left)

Opens(g, h, p, name, t, pc, session, c) ==
    /\ h \in [Handler -> TaskRecord] /\ \A q \in Handler \ {p} : h[q] = g[q]
    /\ h[p].command = name /\ h[p].topic = t /\ h[p].call = c
    /\ h[p].pc = pc /\ h[p].permanent = FALSE /\ h[p].session = session
    /\ h[p].edited = None /\ h[p].left = {}
Opened(p, name, t, pc, session, c) == Opens(task, task', p, name, t, pc, session, c)

Ends(g, h, p) ==
    h \in [Handler -> TaskRecord] /\ h[p] = Idle /\ \A q \in Handler \ {p} : h[q] = g[q]
Ended(p) == Ends(task, task', p)

LEMMA AltersAsWritten ==
    ASSUME NEW g \in [Handler -> TaskRecord], NEW p \in Handler, NEW pc \in TaskState,
           NEW permanent \in BOOLEAN, NEW session \in {None} \cup Pair,
           NEW edited \in {None} \cup Config, NEW left \in SUBSET Pair
    PROVE
      /\ Alters(g, [g EXCEPT ![p].pc = pc],
                p, pc, g[p].permanent, g[p].session, g[p].edited, g[p].left)
      /\ Alters(g, [g EXCEPT ![p] = [@ EXCEPT !.permanent = permanent, !.pc = pc]],
                p, pc, permanent, g[p].session, g[p].edited, g[p].left)
      /\ Alters(g, [g EXCEPT ![p] = [@ EXCEPT !.left = left, !.pc = pc]],
                p, pc, g[p].permanent, g[p].session, g[p].edited, left)
      /\ Alters(g, [g EXCEPT ![p] = [@ EXCEPT !.session = session, !.edited = edited, !.pc = pc]],
                p, pc, g[p].permanent, session, edited, g[p].left)
      /\ Alters(g, [g EXCEPT ![p] = [@ EXCEPT !.session = session, !.left = left, !.edited = edited,
                                              !.pc = pc]],
                p, pc, g[p].permanent, session, edited, left)
\* What a record has, once it is what the task becomes.
<1> DEFINE Has(r, permanent1, session1, edited1, left1) ==
               /\ r.command = g[p].command /\ r.topic = g[p].topic /\ r.call = g[p].call
               /\ r.pc = pc /\ r.permanent = permanent1 /\ r.session = session1
               /\ r.edited = edited1 /\ r.left = left1
<1>1. ASSUME NEW r \in TaskRecord, NEW permanent1, NEW session1, NEW edited1, NEW left1,
             Has(r, permanent1, session1, edited1, left1)
      PROVE  Alters(g, [g EXCEPT ![p] = r], p, pc, permanent1, session1, edited1, left1)
    BY <1>1 DEF Alters
<1>2. g[p] \in TaskRecord
    OBVIOUS
<1>3. Alters(g, [g EXCEPT ![p].pc = pc],
            p, pc, g[p].permanent, g[p].session, g[p].edited, g[p].left)
    <2> DEFINE r == [g[p] EXCEPT !.pc = pc]
    <2>1. r \in TaskRecord
        BY <1>2 DEF TaskRecord, TaskState
    <2>2. Has(r, g[p].permanent, g[p].session, g[p].edited, g[p].left)
        BY <1>2 DEF TaskRecord
    <2>3. Alters(g, [g EXCEPT ![p] = r], p, pc, g[p].permanent, g[p].session, g[p].edited, g[p].left)
        <3> HIDE DEF r, Has
        <3> QED
            BY <1>1, <2>1, <2>2
    <2> QED
        BY <2>3
<1>4. Alters(g, [g EXCEPT ![p] = [@ EXCEPT !.permanent = permanent, !.pc = pc]],
            p, pc, permanent, g[p].session, g[p].edited, g[p].left)
    <2> DEFINE r == [g[p] EXCEPT !.permanent = permanent, !.pc = pc]
    <2>1. r \in TaskRecord
        BY <1>2 DEF TaskRecord, TaskState
    <2>2. Has(r, permanent, g[p].session, g[p].edited, g[p].left)
        BY <1>2 DEF TaskRecord
    <2>3. Alters(g, [g EXCEPT ![p] = r], p, pc, permanent, g[p].session, g[p].edited, g[p].left)
        <3> HIDE DEF r, Has
        <3> QED
            BY <1>1, <2>1, <2>2
    <2> QED
        BY <2>3
<1>5. Alters(g, [g EXCEPT ![p] = [@ EXCEPT !.left = left, !.pc = pc]],
            p, pc, g[p].permanent, g[p].session, g[p].edited, left)
    <2> DEFINE r == [g[p] EXCEPT !.left = left, !.pc = pc]
    <2>1. r \in TaskRecord
        BY <1>2 DEF TaskRecord, TaskState
    <2>2. Has(r, g[p].permanent, g[p].session, g[p].edited, left)
        BY <1>2 DEF TaskRecord
    <2>3. Alters(g, [g EXCEPT ![p] = r], p, pc, g[p].permanent, g[p].session, g[p].edited, left)
        <3> HIDE DEF r, Has
        <3> QED
            BY <1>1, <2>1, <2>2
    <2> QED
        BY <2>3
<1>6. Alters(g, [g EXCEPT ![p] = [@ EXCEPT !.session = session, !.edited = edited, !.pc = pc]],
            p, pc, g[p].permanent, session, edited, g[p].left)
    <2> DEFINE r == [g[p] EXCEPT !.session = session, !.edited = edited, !.pc = pc]
    <2>1. r \in TaskRecord
        BY <1>2 DEF TaskRecord, TaskState
    <2>2. Has(r, g[p].permanent, session, edited, g[p].left)
        BY <1>2 DEF TaskRecord
    <2>3. Alters(g, [g EXCEPT ![p] = r], p, pc, g[p].permanent, session, edited, g[p].left)
        <3> HIDE DEF r, Has
        <3> QED
            BY <1>1, <2>1, <2>2
    <2> QED
        BY <2>3
<1>7. Alters(g, [g EXCEPT ![p] = [@ EXCEPT !.session = session, !.left = left, !.edited = edited,
                                              !.pc = pc]],
            p, pc, g[p].permanent, session, edited, left)
    <2> DEFINE r == [g[p] EXCEPT !.session = session, !.left = left, !.edited = edited,
                                !.pc = pc]
    <2>1. r \in TaskRecord
        BY <1>2 DEF TaskRecord, TaskState
    <2>2. Has(r, g[p].permanent, session, edited, left)
        BY <1>2 DEF TaskRecord
    <2>3. Alters(g, [g EXCEPT ![p] = r], p, pc, g[p].permanent, session, edited, left)
        <3> HIDE DEF r, Has
        <3> QED
            BY <1>1, <2>1, <2>2
    <2> QED
        BY <2>3
<1> HIDE DEF Has
<1> QED
    BY <1>3, <1>4, <1>5, <1>6, <1>7

LEMMA OpensAsWritten ==
    ASSUME NEW g \in [Handler -> TaskRecord], NEW p \in Handler, NEW pc \in TaskState,
           NEW session \in {None} \cup Pair, NEW t \in Topic,
           NEW name \in {"yolo", "off", "add", "remove", "new"}
    PROVE  Opens(g, [g EXCEPT ![p] = [Idle EXCEPT !.pc = pc, !.command = name, !.topic = t,
                                                  !.session = session]],
                 p, name, t, pc, session, None)
BY DEF TaskState, TaskRecord, Opens, Idle

LEMMA TapsAsWritten ==
    ASSUME NEW g \in [Handler -> TaskRecord], NEW p \in Handler, NEW t \in Topic, NEW c \in Card
    PROVE  Opens(g, [g EXCEPT ![p] = [Idle EXCEPT !.pc = "grant", !.command = "yolo", !.topic = t,
                                                  !.call = c]],
                 p, "yolo", t, "grant", None, c)
BY DEF TaskRecord, Opens, Idle

LEMMA EndsAsWritten ==
    ASSUME NEW g \in [Handler -> TaskRecord], NEW p \in Handler
    PROVE  Ends(g, [g EXCEPT ![p] = Idle], p)
BY BlankTyped DEF Ends

LEMMA EditedTyped ==
    ASSUME Typed, NEW p \in Handler, NEW old \in Config, task[p].topic \in Topic
    PROVE  Edited(p, old) \in Config
BY DEF Typed, Allowing, Edited, Config

LEMMA Opening ==
    ASSUME Base, NEW p \in Handler, NEW t \in Topic
    PROVE  /\ Yolo(p, t) => Opened(p, "yolo", t, "count", None, None)
           /\ Off(p, t) => Opened(p, "off", t, "clear_topics", None, None)
           /\ New(p, t) => Opened(p, "new", t, "set", <<t, Len(saved[t].recent) + 1>>, None)
           /\ \A name \in {"add", "remove"} :
                 Allow(p, t, name) => Opened(p, name, t, "load", None, None)
           /\ \A c \in Card : TapYolo(p, c) => Opened(p, "yolo", cards[c].topic, "grant", None, c)
<1> USE DEF Opened, Command, TaskState
<1>0. task \in [Handler -> TaskRecord]
    BY DEF Base, Typed
<1>1. ASSUME Yolo(p, t) PROVE Opened(p, "yolo", t, "count", None, None)
    BY <1>0, <1>1, OpensAsWritten DEF Yolo
<1>2. ASSUME Off(p, t) PROVE Opened(p, "off", t, "clear_topics", None, None)
    BY <1>0, <1>2, OpensAsWritten DEF Off
<1>3. ASSUME New(p, t) PROVE Opened(p, "new", t, "set", <<t, Len(saved[t].recent) + 1>>, None)
    <2>1. Len(saved[t].recent) \in Nat
        BY LenProperties DEF Base, Typed, Stored
    <2>2. <<t, Len(saved[t].recent) + 1>> \in Pair
        BY <1>3, <2>1, ChannelAssumption DEF New, Pair, Session
    <2> DEFINE session == <<t, Len(saved[t].recent) + 1>>
    <2>3. session \in {None} \cup Pair
        BY <2>2
    <2>4. Command(p, "new", t, "set", session)
        BY <1>3 DEF New
    <2> HIDE DEF session
    <2>5. Opened(p, "new", t, "set", session, None)
        BY <1>0, <2>3, <2>4, OpensAsWritten
    <2> QED
        BY <2>5 DEF session
<1>4. ASSUME NEW name \in {"add", "remove"}, Allow(p, t, name)
      PROVE  Opened(p, name, t, "load", None, None)
    <2>1. Command(p, name, t, "load", None)
        BY <1>4 DEF Allow
    <2>2. CASE name = "add"
        BY <1>0, <2>1, <2>2, OpensAsWritten
    <2>3. CASE name = "remove"
        BY <1>0, <2>1, <2>3, OpensAsWritten
    <2> QED
        BY <2>2, <2>3
<1>5. ASSUME NEW c \in Card, TapYolo(p, c)
      PROVE  Opened(p, "yolo", cards[c].topic, "grant", None, c)
    <2>1. cards[c].topic \in Topic
        BY <1>5 DEF Base, CardTopics, TapYolo
    <2> QED
        BY <1>0, <1>5, <2>1, TapsAsWritten DEF TapYolo
<1> QED
    BY <1>1, <1>2, <1>3, <1>4, <1>5

LEMMA TaskFields ==
    ASSUME Base, NEW p \in Handler
    PROVE  /\ task \in [Handler -> TaskRecord] /\ task[p] \in TaskRecord
           /\ task[p].permanent \in BOOLEAN /\ task[p].left \in SUBSET Pair
           /\ task[p].session \in {None} \cup Pair /\ task[p].edited \in {None} \cup Config
           /\ task[p].pc # "idle" => task[p].topic \in Topic
           /\ Formed(task[p]) /\ Renews(task[p])
BY DEF Base, Typed, TaskRecord, Tasks, Formed

LEMMA Moving ==
    ASSUME Base, NEW p \in Handler
    PROVE  /\ GrantTap(p) => Moved(p, "count")
           /\ Approve(p) => IF task[p].permanent THEN Moved(p, "flush") ELSE Ended(p)
           /\ Store(p) => \/ task[p].command = "yolo" /\ Moved(p, "approve")
                          \/ /\ task[p].command = "off"
                             /\ Moved(p, "flush") \/ Moved(p, "load")
                          \/ Ended(p)
           /\ ClearTopics(p) => Moved(p, "deny")
           /\ Set(p) => Moved(p, "disable")
           /\ Disable(p) => Moved(p, "link")
           /\ Link(p) => Ended(p)
<1> USE TaskFields DEF Moved, Altered, Ended, TaskState, Goto, Finish
<1>1. ASSUME GrantTap(p) PROVE Moved(p, "count")
    BY <1>1, AltersAsWritten DEF GrantTap
<1>2. ASSUME Approve(p) PROVE IF task[p].permanent THEN Moved(p, "flush") ELSE Ended(p)
    BY <1>2, AltersAsWritten, EndsAsWritten DEF Approve, AfterApproval
<1>3. ASSUME Store(p)
      PROVE  \/ task[p].command = "yolo" /\ Moved(p, "approve")
             \/ task[p].command = "off" /\ (Moved(p, "flush") \/ Moved(p, "load"))
             \/ Ended(p)
    <2>1. CASE task[p].command = "yolo"
        BY <1>3, <2>1, AltersAsWritten DEF Store, AfterStore
    <2>2. CASE task[p].command = "off"
        <3>1. task' = Goto(p, "flush") \/ task' = Goto(p, "load")
            BY <1>3, <2>2 DEF Store, AfterStore
        <3>2. ASSUME task' = Goto(p, "flush") PROVE Moved(p, "flush")
            BY <3>2, AltersAsWritten
        <3>3. ASSUME task' = Goto(p, "load") PROVE Moved(p, "load")
            BY <3>3, AltersAsWritten
        <3> QED
            BY <2>2, <3>1, <3>2, <3>3
    <2>3. CASE task[p].command \notin {"yolo", "off"}
        BY <1>3, <2>3, EndsAsWritten DEF Store, AfterStore
    <2> QED
        BY <2>1, <2>2, <2>3
<1>4. ASSUME ClearTopics(p) PROVE Moved(p, "deny")
    BY <1>4, AltersAsWritten DEF ClearTopics
<1>5. ASSUME Set(p) PROVE Moved(p, "disable")
    BY <1>5, AltersAsWritten DEF Set
<1>6. ASSUME Disable(p) PROVE Moved(p, "link")
    BY <1>6, AltersAsWritten DEF Disable
<1>7. ASSUME Link(p) PROVE Ended(p)
    BY <1>7, EndsAsWritten DEF Link
<1> QED
    BY <1>1, <1>2, <1>3, <1>4, <1>5, <1>6, <1>7

\* What a load takes from a config, for the session it names.
Loads(p, s, left) ==
    Altered(p, "store", task[p].permanent, s, Edited(p, config[s[1]][s[2]]), left)

LEMMA Loading ==
    ASSUME Base, NEW p \in Handler
    PROVE  /\ Count(p) => /\ chat'.permanent \in BOOLEAN
                          /\ Altered(p, "load", chat'.permanent, task[p].session, task[p].edited,
                                     task[p].left)
           /\ Load(p) => \E s \in Pair : s[1] = task[p].topic /\ Loads(p, s, task[p].left)
           /\ LoadNext(p) => \E s \in Pair : Loads(p, s, task[p].left \ {s})
           /\ Deny(p) => \E left \in SUBSET Pair :
                            Altered(p, "load", task[p].permanent, task[p].session,
                                    task[p].edited, left)
<1> USE TaskFields DEF Altered, TaskState
<1>1. ASSUME Count(p)
      PROVE  /\ chat'.permanent \in BOOLEAN
             /\ Altered(p, "load", chat'.permanent, task[p].session, task[p].edited, task[p].left)
    <2>1. chat'.permanent \in BOOLEAN
        BY <1>1 DEF Count, Escalated, Base, Typed, PlainRow
    <2> DEFINE permanent == chat'.permanent
    <2>2. permanent \in BOOLEAN /\ task' = [task EXCEPT ![p] = [@ EXCEPT !.permanent = permanent,
                                                                        !.pc = "load"]]
        BY <1>1, <2>1 DEF Count
    <2> HIDE DEF permanent
    <2>3. Alters(task, task', p, "load", permanent, task[p].session, task[p].edited, task[p].left)
        BY <2>2, AltersAsWritten
    <2> QED
        BY <2>1, <2>3 DEF permanent
<1>2. ASSUME NEW s \in Pair, task[p].topic \in Topic
      PROVE  Edited(p, config[s[1]][s[2]]) \in {None} \cup Config
    <2>1. s[1] \in Topic /\ s[2] \in Session
        BY DEF Pair
    <2>2. config[s[1]][s[2]] \in Config
        BY <2>1 DEF Base, Typed, Stored
    <2> QED
        BY <1>2, <2>2, EditedTyped DEF Base
<1>3. ASSUME Load(p) PROVE \E s \in Pair : s[1] = task[p].topic /\ Loads(p, s, task[p].left)
    <2> DEFINE s == <<task[p].topic, map[task[p].topic]>>
               e == Edited(p, config[s[1]][s[2]])
    <2>1. task[p].topic \in Topic
        BY <1>3 DEF Load
    <2>2. s \in Pair
        BY <2>1 DEF Base, Typed, Pair
    <2>3. e \in {None} \cup Config
        BY <1>2, <2>1, <2>2
    <2>4. task' = [task EXCEPT ![p] = [@ EXCEPT !.session = s, !.edited = e, !.pc = "store"]]
        BY <1>3 DEF Load
    <2>5. s[1] = task[p].topic
        OBVIOUS
    <2> HIDE DEF s, e
    <2>6. Altered(p, "store", task[p].permanent, s, e, task[p].left)
        BY <2>2, <2>3, <2>4, AltersAsWritten
    <2> QED
        BY <2>2, <2>5, <2>6 DEF e, Loads
<1>4. ASSUME LoadNext(p) PROVE \E s \in Pair : Loads(p, s, task[p].left \ {s})
    <2>1. PICK s \in task[p].left :
             task' = [task EXCEPT ![p] = [@ EXCEPT !.session = s, !.left = task[p].left \ {s},
                                                !.edited = Edited(p, config[s[1]][s[2]]),
                                                !.pc = "store"]]
        BY <1>4 DEF LoadNext
    <2> DEFINE e == Edited(p, config[s[1]][s[2]])
               l == task[p].left \ {s}
    <2>2. s \in Pair /\ task[p].topic \in Topic /\ l \in SUBSET Pair
        BY <1>4 DEF LoadNext
    <2>3. e \in {None} \cup Config
        BY <1>2, <2>2
    <2>4. task' = [task EXCEPT ![p] = [@ EXCEPT !.session = s, !.left = l, !.edited = e,
                                                !.pc = "store"]]
        BY <2>1
    <2> HIDE DEF e, l
    <2>5. Altered(p, "store", task[p].permanent, s, e, l)
        BY <2>2, <2>3, <2>4, AltersAsWritten
    <2> QED
        BY <2>2, <2>5 DEF e, l, Loads
<1>5. ASSUME Deny(p)
      PROVE  \E left \in SUBSET Pair :
                Altered(p, "load", task[p].permanent, task[p].session, task[p].edited, left)
    <2> DEFINE left == {<<t, map[t]>> : t \in Topic}
    <2>1. left \in SUBSET Pair
        BY DEF Base, Typed, Pair
    <2>2. task' = [task EXCEPT ![p] = [@ EXCEPT !.left = left, !.pc = "load"]]
        BY <1>5 DEF Deny
    <2> HIDE DEF left
    <2> QED
        BY <2>1, <2>2, AltersAsWritten
<1> QED
    BY <1>1, <1>3, <1>4, <1>5

-----------------------------------------------------------------------------
(* Types, the sessions of a topic, and what a task has in its hands *)

\* One task moves and no session file goes: the others have what they had.
LEMMA TasksKeep ==
    ASSUME Base, NEW p \in Handler, \A q \in Handler \ {p} : task'[q] = task[q],
           \A t \in Topic : Len(saved[t].recent) <= Len(saved'[t].recent),
           \A t \in Topic : Len(saved'[t].recent) \in Nat,
           Formed(task'[p]),
           task'[p].pc \in {"set", "disable", "link"} =>
               task'[p].session \in Pair /\ task'[p].session[2] \in 1..Len(saved'[task'[p].topic].recent)
    PROVE  Tasks'
<1>1. ASSUME NEW q \in Handler PROVE (Formed(task[q]) /\ Renews(task[q]))'
    <2>1. CASE q = p
        BY <2>1 DEF Renews, Formed
    <2>2. CASE q # p
        <3>1. task'[q] = task[q] /\ Formed(task[q]) /\ Renews(task[q])
            BY <2>2, TaskFields
        <3>2. ASSUME task[q].pc \in {"set", "disable", "link"}
              PROVE  task[q].session[2] \in 1..Len(saved'[task[q].topic].recent)
            <4>1. task[q].topic \in Topic
                BY <3>2, TaskFields
            <4>2. task[q].session \in Pair /\ task[q].session[2] \in 1..Len(saved[task[q].topic].recent)
                BY <3>1, <3>2 DEF Renews
            <4>3. Len(saved[task[q].topic].recent) \in Nat
                BY <4>1, LenProperties DEF Base, Typed, Stored
            <4> QED
                BY <4>1, <4>2, <4>3
        <3> QED
            BY <3>1, <3>2 DEF Formed, Renews
    <2> QED
        BY <2>1, <2>2
<1> QED
    BY <1>1 DEF Tasks

LEMMA SavedLens ==
    ASSUME Base
    PROVE  \A t \in Topic : Len(saved[t].recent) \in Nat
BY LenProperties DEF Base, Typed, Stored

\* The same with the session files as they were.
LEMMA TaskMovesOn ==
    ASSUME Base, NEW p \in Handler, \A q \in Handler \ {p} : task'[q] = task[q], saved' = saved,
           Formed(task'[p]),
           task'[p].pc \in {"set", "disable", "link"} =>
               /\ task[p].pc \in {"set", "disable", "link"}
               /\ task'[p].session = task[p].session /\ task'[p].topic = task[p].topic
    PROVE  Tasks'
<1>1. \A t \in Topic : Len(saved[t].recent) <= Len(saved'[t].recent) /\ Len(saved'[t].recent) \in Nat
    BY SavedLens
<1>2. ASSUME task'[p].pc \in {"set", "disable", "link"}
      PROVE  task'[p].session \in Pair /\ task'[p].session[2] \in 1..Len(saved'[task'[p].topic].recent)
    BY <1>2, TaskFields DEF Renews
<1> QED
    BY <1>1, <1>2, TasksKeep

LEMMA EndedKeeps ==
    ASSUME Base, NEW p \in Handler, Ended(p), \A t \in Topic : Len(saved[t].recent) <= Len(saved'[t].recent),
           \A t \in Topic : Len(saved'[t].recent) \in Nat
    PROVE  Tasks'
<1>1. Idle.pc = "idle" /\ Idle.permanent = FALSE
    BY DEF Idle
<1>2. Formed(Idle)
    BY <1>1 DEF Formed
<1>3. task'[p] = Idle /\ \A q \in Handler \ {p} : task'[q] = task[q]
    BY DEF Ended, Ends
<1> QED
    BY <1>1, <1>2, <1>3, TasksKeep

LEMMA TasksStay ==
    ASSUME Base, task' = task, \A t \in Topic : Len(saved[t].recent) <= Len(saved'[t].recent),
           \A t \in Topic : Len(saved'[t].recent) \in Nat
    PROVE  Tasks'
<1>1. ASSUME NEW q \in Handler PROVE (Formed(task[q]) /\ Renews(task[q]))'
    <2>1. Formed(task[q]) /\ Renews(task[q])
        BY TaskFields
    <2>2. ASSUME task[q].pc \in {"set", "disable", "link"}
          PROVE  task[q].session[2] \in 1..Len(saved'[task[q].topic].recent)
        <3>1. task[q].topic \in Topic
            BY <2>2, TaskFields
        <3>2. task[q].session \in Pair /\ task[q].session[2] \in 1..Len(saved[task[q].topic].recent)
            BY <2>1, <2>2 DEF Renews
        <3>3. Len(saved[task[q].topic].recent) \in Nat
            BY <3>1, SavedLens
        <3> QED
            BY <3>1, <3>2, <3>3
    <2> QED
        BY <2>1, <2>2 DEF Formed, Renews
<1> QED
    BY <1>1 DEF Tasks

LEMMA CardsStay == ASSUME Base, cards' = cards PROVE CardTopics'
BY DEF Base, CardTopics

LEMMA SessionsStay == ASSUME Base, UNCHANGED <<saved, map, running>> PROVE Sessions'
BY DEF Base, Sessions, Kept

\* The steps that move one task and neither a card nor a session.
LEMMA QuietBase ==
    ASSUME Base, NEW p \in Handler, UNCHANGED <<saved, map, running, cards>>, Typed',
           \A q \in Handler \ {p} : task'[q] = task[q], Formed(task'[p]),
           task'[p].pc \in {"set", "disable", "link"} =>
               /\ task[p].pc \in {"set", "disable", "link"}
               /\ task'[p].session = task[p].session /\ task'[p].topic = task[p].topic
    PROVE  Base'
BY TaskMovesOn, CardsStay, SessionsStay DEF Base

LEMMA GrantTyped ==
    ASSUME Typed, NEW t \in Topic, NEW e \in BOOLEAN
    PROVE  /\ [yolo EXCEPT ![t] = [at |-> now, explicit |-> e]] \in Grants
           /\ [yolo EXCEPT ![t] = None] \in Grants
BY DEF Typed, Grants

LEMMA OpenedTypes ==
    ASSUME NEW p, NEW name, NEW t \in Topic, NEW pc \in {"grant", "count", "load", "clear_topics", "set"},
           NEW session, NEW c, Opened(p, name, t, pc, session, c)
    PROVE  /\ task' \in [Handler -> TaskRecord] /\ \A q \in Handler \ {p} : task'[q] = task[q]
           /\ (pc \in {"grant", "count"} => name = "yolo") => Formed(task'[p])
BY DEF Opened, Opens, Formed

LEMMA OpenBase ==
    ASSUME Base, NEW p \in Handler, NEW t \in Topic,
           Yolo(p, t) \/ Off(p, t) \/ \E name \in {"add", "remove"} : Allow(p, t, name)
    PROVE  Base'
<1> USE DEF memory, disk, history
<1>1. CASE Yolo(p, t)
    <2>1. Opened(p, "yolo", t, "count", None, None)
        BY <1>1, Opening
    <2>2. /\ task' \in [Handler -> TaskRecord] /\ \A q \in Handler \ {p} : task'[q] = task[q]
          /\ Formed(task'[p])
        BY <2>1, OpenedTypes
    <2>3. yolo' \in Grants
        BY <1>1, GrantTyped DEF Yolo, Enable, Base
    <2>4. Typed'
        BY <1>1, <2>2, <2>3 DEF Yolo, Enable, Base, Typed, Stored
    <2>5. UNCHANGED <<saved, map, running, cards>>
        BY <1>1 DEF Yolo, Enable
    <2>6. task'[p].pc = "count"
        BY <2>1 DEF Opened, Opens
    <2> QED
        BY <2>2, <2>4, <2>5, <2>6, QuietBase
<1>2. CASE Off(p, t)
    <2>1. Opened(p, "off", t, "clear_topics", None, None)
        BY <1>2, Opening
    <2>2. /\ task' \in [Handler -> TaskRecord] /\ \A q \in Handler \ {p} : task'[q] = task[q]
          /\ Formed(task'[p])
        BY <2>1, OpenedTypes
    <2>3. Typed'
        BY <1>2, <2>2, BlankTyped DEF Off, Base, Typed, Stored
    <2>4. UNCHANGED <<saved, map, running, cards>>
        BY <1>2 DEF Off
    <2>5. task'[p].pc = "clear_topics"
        BY <2>1 DEF Opened, Opens
    <2> QED
        BY <2>2, <2>3, <2>4, <2>5, QuietBase
<1>3. ASSUME NEW name \in {"add", "remove"}, Allow(p, t, name) PROVE Base'
    <2>1. Opened(p, name, t, "load", None, None)
        BY <1>3, Opening
    <2>2. /\ task' \in [Handler -> TaskRecord] /\ \A q \in Handler \ {p} : task'[q] = task[q]
          /\ Formed(task'[p])
        BY <2>1, OpenedTypes
    <2>3. allow' \in Allowing /\ granted' \subseteq Topic
        BY <1>3 DEF Allow, Base, Typed, Allowing
    <2>4. Typed'
        BY <1>3, <2>2, <2>3 DEF Allow, Base, Typed, Stored
    <2>5. UNCHANGED <<saved, map, running, cards>>
        BY <1>3 DEF Allow
    <2>6. task'[p].pc = "load"
        BY <2>1 DEF Opened, Opens
    <2> QED
        BY <2>2, <2>4, <2>5, <2>6, QuietBase
<1> QED
    BY <1>1, <1>2, <1>3

LEMMA NewBase == ASSUME Base, NEW p \in Handler, NEW t \in Topic, New(p, t) PROVE Base'
<1> USE DEF memory, disk, history
<1> DEFINE r == saved[t].recent
           s == Len(r) + 1
           w == Append(r, s)
<1>1. /\ saved[t] \in [recent : Seq(Session), linked : SUBSET Session] /\ r \in Seq(Session)
      /\ Len(r) \in Nat /\ Kept(t)
    BY LenProperties DEF Base, Typed, Stored, Sessions
<1>2. w \in Seq(Session) /\ IsInjective(w) /\ Len(w) = s /\ Range(w) = 1..s
    BY <1>1, AppendedKeeps DEF New, Kept
<1>3. saved' = [saved EXCEPT ![t].recent = w]
    BY DEF New
<1> HIDE DEF w
<1>4. /\ saved' \in [Topic -> [recent : Seq(Session), linked : SUBSET Session]]
      /\ saved'[t].recent = w /\ saved'[t].linked = saved[t].linked
      /\ \A u \in Topic \ {t} : saved'[u] = saved[u]
    BY <1>1, <1>2, <1>3 DEF Base, Typed, Stored
<1>5. Opened(p, "new", t, "set", <<t, s>>, None)
    BY Opening
<1>6. /\ task' \in [Handler -> TaskRecord] /\ \A q \in Handler \ {p} : task'[q] = task[q]
      /\ Formed(task'[p])
    BY <1>5, OpenedTypes
<1>7. Typed'
    BY <1>4, <1>6 DEF New, Command, Base, Typed, Stored
<1>8. map' = map /\ running' = running /\ s \in Nat /\ s <= MaxSessions
    BY <1>1, ChannelAssumption DEF New
<1>9. Sessions'
    <2>1. ASSUME NEW u \in Topic PROVE Kept(u)'
        <3>1. CASE u = t
            BY <1>1, <1>2, <1>4, <1>8, <3>1 DEF Kept
        <3>2. CASE u # t
            <4>1. Kept(u) /\ saved'[u] = saved[u] /\ map'[u] = map[u] /\ running'[u] = running[u]
                BY <1>4, <1>8, <3>2 DEF Base, Sessions
            <4> QED
                BY <4>1 DEF Kept
        <3> QED
            BY <3>1, <3>2
    <2> QED
        BY <2>1 DEF Sessions
<1>10. Tasks'
    <2>1. \A u \in Topic : Len(saved[u].recent) <= Len(saved'[u].recent) /\ Len(saved'[u].recent) \in Nat
        BY <1>1, <1>2, <1>4, <1>8, SavedLens
    <2>2. task'[p].session = <<t, s>> /\ task'[p].topic = t
        BY <1>5 DEF Opened, Opens
    <2>3. <<t, s>> \in Pair /\ s \in 1..Len(saved'[t].recent)
        BY <1>1, <1>2, <1>4, <1>8 DEF Pair, Session
    <2> HIDE DEF s, r
    <2> QED
        BY <1>6, <2>1, <2>2, <2>3, TasksKeep
<1>11. CardTopics'
    BY CardsStay DEF New
<1> QED
    BY <1>7, <1>9, <1>10, <1>11 DEF Base

LEMMA AlteredTypes ==
    ASSUME Base, NEW p \in Handler, NEW pc \in TaskState, NEW permanent, NEW session, NEW edited, NEW left,
           Altered(p, pc, permanent, session, edited, left),
           pc # "idle" /\ task[p].pc # "idle",
           pc \in {"grant", "count", "approve"} => task[p].command = "yolo",
           pc = "store" => session \in Pair /\ edited \in Config,
           permanent => task[p].command = "yolo" /\ pc \in {"load", "store", "approve", "flush"}
    PROVE  /\ task' \in [Handler -> TaskRecord] /\ \A q \in Handler \ {p} : task'[q] = task[q]
           /\ Formed(task'[p]) /\ task'[p].pc = pc /\ task'[p].session = session
           /\ task'[p].topic = task[p].topic
BY TaskFields DEF Altered, Alters, Formed

LEMMA EndedTypes ==
    ASSUME NEW p, Ended(p)
    PROVE  /\ task' \in [Handler -> TaskRecord] /\ \A q \in Handler \ {p} : task'[q] = task[q]
           /\ Formed(task'[p]) /\ task'[p].pc = "idle"
BY DEF Ended, Ends, Formed, Idle

\* A card changes what became of it, and is of a topic.
LEMMA CardTyped ==
    ASSUME Base, NEW c \in Card, NEW r \in CardRecord, r.topic \in Topic, cards' = [cards EXCEPT ![c] = r]
    PROVE  cards' \in [Card -> CardRecord] /\ CardTopics'
BY DEF Base, Typed, CardTopics

LEMMA CardsTyped ==
    ASSUME Base, NEW S, NEW state \in {"denied", "lost", "allowed"},
           \A c \in S : cards[c].state \in {"purge", "asking", "pending"},
           cards' = [c \in Card |-> IF c \in S THEN [cards[c] EXCEPT !.state = state] ELSE cards[c]]
    PROVE  cards' \in [Card -> CardRecord] /\ CardTopics'
<1>1. ASSUME NEW c \in Card
      PROVE  cards'[c] \in CardRecord /\ (cards'[c].state # "new" => cards'[c].topic \in Topic)
    <2>1. cards[c] \in CardRecord /\ (cards[c].state # "new" => cards[c].topic \in Topic)
        BY DEF Base, Typed, CardTopics
    <2>2. CASE c \in S
        <3>1. cards'[c] = [cards[c] EXCEPT !.state = state] /\ cards[c].state # "new"
            BY <2>2
        <3> QED
            BY <2>1, <3>1 DEF CardRecord
    <2>3. CASE c \notin S
        BY <2>1, <2>3
    <2> QED
        BY <2>2, <2>3
<1> QED
    BY <1>1 DEF CardTopics

LEMMA TapBase == ASSUME Base, NEW p \in Handler, NEW c \in Card, TapYolo(p, c) PROVE Base'
<1> USE DEF memory, disk, history
<1> DEFINE t == cards[c].topic
           r == [cards[c] EXCEPT !.state = "allowed", !.tapped = TRUE]
<1>1. t \in Topic /\ cards[c] \in CardRecord
    BY DEF Base, Typed, CardTopics, TapYolo
<1>2. r \in CardRecord /\ r.topic \in Topic
    BY <1>1 DEF CardRecord
<1>3. cards' \in [Card -> CardRecord] /\ CardTopics'
    <2>1. cards' = [cards EXCEPT ![c] = r]
        BY DEF TapYolo
    <2> HIDE DEF r
    <2> QED
        BY <1>2, <2>1, CardTyped
<1>4. Opened(p, "yolo", t, "grant", None, c)
    BY <1>1, Opening
<1> HIDE DEF t, r
<1>5. /\ task' \in [Handler -> TaskRecord] /\ \A q \in Handler \ {p} : task'[q] = task[q]
      /\ Formed(task'[p]) /\ task'[p].pc = "grant"
    <2>1. task'[p].pc = "grant"
        BY <1>4 DEF Opened, Opens
    <2> QED
        BY <1>1, <1>4, <2>1, OpenedTypes
<1>6. Typed'
    BY <1>3, <1>5 DEF TapYolo, Base, Typed, Stored
<1>7. UNCHANGED <<saved, map, running>>
    BY DEF TapYolo
<1>8. Tasks'
    BY <1>5, <1>7, TaskMovesOn
<1> QED
    BY <1>3, <1>6, <1>7, <1>8, SessionsStay DEF Base

LEMMA GrantBase == ASSUME Base, NEW p \in Handler, GrantTap(p) PROVE Base'
<1> USE DEF memory, disk, history
<1>1. Moved(p, "count")
    BY Moving
<1>2. task[p].pc = "grant" /\ task[p].command = "yolo" /\ task[p].permanent = FALSE /\ task[p].topic \in Topic
    BY TaskFields DEF GrantTap, Formed
<1>3. /\ task' \in [Handler -> TaskRecord] /\ \A q \in Handler \ {p} : task'[q] = task[q]
      /\ Formed(task'[p]) /\ task'[p].pc = "count"
    BY <1>1, <1>2, AlteredTypes DEF Moved, TaskState
<1>4. yolo' \in Grants
    BY <1>2, GrantTyped DEF GrantTap, Enable, Base
<1>5. Typed'
    BY <1>2, <1>3, <1>4 DEF GrantTap, Enable, Base, Typed, Stored
<1>6. UNCHANGED <<saved, map, running, cards>>
    BY DEF GrantTap, Enable
<1> QED
    BY <1>3, <1>5, <1>6, QuietBase

LEMMA CountBase == ASSUME Base, NEW p \in Handler, Count(p) PROVE Base'
<1> USE DEF memory, disk, history
<1>1. /\ chat'.permanent \in BOOLEAN
      /\ Altered(p, "load", chat'.permanent, task[p].session, task[p].edited, task[p].left)
    BY Loading
<1>2. task[p].pc = "count" /\ task[p].command = "yolo"
    BY TaskFields DEF Count, Formed
<1>3. /\ task' \in [Handler -> TaskRecord] /\ \A q \in Handler \ {p} : task'[q] = task[q]
      /\ Formed(task'[p]) /\ task'[p].pc = "load"
    BY <1>1, <1>2, AlteredTypes DEF TaskState
<1>4. chat' \in PlainRow
    <2>1. task[p].call \in Card \cup {None} /\ chat \in PlainRow
        BY TaskFields DEF TaskRecord, Base, Typed
    <2> QED
        BY <2>1 DEF Count, Escalated, PlainRow
<1>5. Typed'
    BY <1>3, <1>4 DEF Count, Base, Typed, Stored
<1>6. UNCHANGED <<saved, map, running, cards>>
    BY DEF Count
<1> QED
    BY <1>3, <1>5, <1>6, QuietBase

LEMMA ApproveBase == ASSUME Base, NEW p \in Handler, Approve(p) PROVE Base'
<1> USE DEF memory, disk, history
<1>1. task[p].pc = "approve" /\ task[p].command = "yolo"
    BY TaskFields DEF Approve, Formed
<1>2. /\ task' \in [Handler -> TaskRecord] /\ \A q \in Handler \ {p} : task'[q] = task[q]
      /\ Formed(task'[p]) /\ task'[p].pc \in {"flush", "idle"}
    <2>1. CASE task[p].permanent
        <3>1. Moved(p, "flush")
            BY <2>1, Moving
        <3>2. Altered(p, "flush", task[p].permanent, task[p].session, task[p].edited, task[p].left)
              /\ "flush" \in TaskState
            BY <3>1 DEF Moved, TaskState
        <3> HIDE DEF memory, disk, history
        <3>3. /\ task' \in [Handler -> TaskRecord] /\ \A q \in Handler \ {p} : task'[q] = task[q]
              /\ Formed(task'[p]) /\ task'[p].pc = "flush"
            BY <1>1, <3>2, AlteredTypes
        <3> QED
            BY <3>3
    <2>2. CASE ~task[p].permanent
        <3>1. Ended(p)
            BY <2>2, Moving
        <3> QED
            BY <3>1, EndedTypes
    <2> QED
        BY <2>1, <2>2
<1>3. cards' \in [Card -> CardRecord] /\ CardTopics'
    <2>1. \A c \in Drained(p) : cards[c].state \in {"purge", "asking", "pending"}
        BY DEF Drained, DrainedChatWide
    <2>2. cards' = [c \in Card |-> IF c \in Drained(p) THEN [cards[c] EXCEPT !.state = "allowed"]
                                   ELSE cards[c]]
        BY DEF Approve
    <2> QED
        BY <2>1, <2>2, CardsTyped
<1>4. Typed'
    BY <1>2, <1>3 DEF Approve, Base, Typed, Stored
<1>5. UNCHANGED <<saved, map, running>>
    BY DEF Approve
<1>6. Tasks'
    BY <1>2, <1>5, TaskMovesOn
<1> QED
    BY <1>3, <1>4, <1>5, <1>6, SessionsStay DEF Base

LEMMA LoadBase == ASSUME Base, NEW p \in Handler, Load(p) \/ LoadNext(p) PROVE Base'
<1> USE DEF memory, disk, history
<1>1. PICK s \in Pair : \E left \in {task[p].left, task[p].left \ {s}} : Loads(p, s, left)
    BY Loading
<1>2. task[p].pc = "load" /\ (task[p].permanent => task[p].command = "yolo")
    BY TaskFields DEF Load, LoadNext, Formed
<1>3. Edited(p, config[s[1]][s[2]]) \in Config
    <2>1. s[1] \in Topic /\ s[2] \in Session
        BY DEF Pair
    <2>2. config[s[1]][s[2]] \in Config /\ task[p].topic \in Topic
        BY <1>2, <2>1, TaskFields DEF Base, Typed, Stored
    <2> QED
        BY <2>2, EditedTyped DEF Base
<1>4. /\ task' \in [Handler -> TaskRecord] /\ \A q \in Handler \ {p} : task'[q] = task[q]
      /\ Formed(task'[p]) /\ task'[p].pc = "store"
    BY <1>1, <1>2, <1>3, AlteredTypes DEF Loads, TaskState
<1>5. Typed'
    BY <1>4 DEF Load, LoadNext, Base, Typed, Stored
<1>6. UNCHANGED <<saved, map, running, cards>>
    BY DEF Load, LoadNext
<1> QED
    BY <1>4, <1>5, <1>6, QuietBase

LEMMA StoreBase == ASSUME Base, NEW p \in Handler, Store(p) PROVE Base'
<1> USE DEF memory, disk, history
<1>1. /\ task[p].pc = "store" /\ task[p].session \in Pair /\ task[p].edited \in Config
      /\ task[p].permanent => task[p].command = "yolo"
    BY TaskFields DEF Store, Formed
<1>2. /\ task' \in [Handler -> TaskRecord] /\ \A q \in Handler \ {p} : task'[q] = task[q]
      /\ Formed(task'[p]) /\ task'[p].pc \in {"approve", "flush", "load", "idle"}
    <2>1. CASE task[p].command = "yolo" /\ Moved(p, "approve")
        BY <1>1, <2>1, AlteredTypes DEF Moved, TaskState
    <2>2. CASE task[p].command = "off" /\ Moved(p, "flush")
        BY <1>1, <2>2, AlteredTypes DEF Moved, TaskState
    <2>3. CASE task[p].command = "off" /\ Moved(p, "load")
        BY <1>1, <2>3, AlteredTypes DEF Moved, TaskState
    <2>4. CASE Ended(p)
        BY <2>4, EndedTypes
    <2> QED
        BY <2>1, <2>2, <2>3, <2>4, Moving
<1>3. config' \in [Topic -> [Session -> Config]]
    <2> DEFINE a == task[p].session[1]
               b == task[p].session[2]
               e == task[p].edited
    <2>1. a \in Topic /\ b \in Session /\ e \in Config /\ config \in [Topic -> [Session -> Config]]
        BY <1>1 DEF Pair, Base, Typed, Stored
    <2>2. config' = [config EXCEPT ![a][b] = e] \/ config' = config
        BY DEF Store
    <2> HIDE DEF a, b, e
    <2> QED
        BY <2>1, <2>2
<1>4. Typed'
    BY <1>2, <1>3 DEF Store, Event, Base, Typed, Stored
<1>5. UNCHANGED <<saved, map, running, cards>>
    BY DEF Store
<1> QED
    BY <1>2, <1>4, <1>5, QuietBase

LEMMA ClearBase == ASSUME Base, NEW p \in Handler, ClearTopics(p) \/ Deny(p) PROVE Base'
<1> USE DEF memory, disk, history
<1>1. CASE ClearTopics(p)
    <2>1. Moved(p, "deny") /\ task[p].pc = "clear_topics" /\ task[p].permanent = FALSE
        BY <1>1, Moving, TaskFields DEF ClearTopics, Formed
    <2>2. /\ task' \in [Handler -> TaskRecord] /\ \A q \in Handler \ {p} : task'[q] = task[q]
          /\ Formed(task'[p]) /\ task'[p].pc = "deny"
        BY <2>1, AlteredTypes DEF Moved, TaskState
    <2>3. Typed'
        BY <1>1, <2>2 DEF ClearTopics, Cleared, Base, Typed, Stored, Grants
    <2>4. UNCHANGED <<saved, map, running, cards>>
        BY <1>1 DEF ClearTopics
    <2> QED
        BY <2>2, <2>3, <2>4, QuietBase
<1>2. CASE Deny(p)
    <2>1. PICK left \in SUBSET Pair :
             Altered(p, "load", task[p].permanent, task[p].session, task[p].edited, left)
        BY <1>2, Loading
    <2>2. task[p].pc = "deny" /\ task[p].permanent = FALSE
        BY <1>2, TaskFields DEF Deny, Formed
    <2>3. /\ task' \in [Handler -> TaskRecord] /\ \A q \in Handler \ {p} : task'[q] = task[q]
          /\ Formed(task'[p]) /\ task'[p].pc = "load"
        BY <2>1, <2>2, AlteredTypes DEF TaskState
    <2>4. cards' \in [Card -> CardRecord] /\ CardTopics'
        <3> DEFINE S == {c \in Card : cards[c].state = "pending"}
        <3>1. \A c \in S : cards[c].state \in {"purge", "asking", "pending"}
            OBVIOUS
        <3>2. cards' = [c \in Card |-> IF c \in S THEN [cards[c] EXCEPT !.state = "denied"] ELSE cards[c]]
            BY <1>2 DEF Deny
        <3> HIDE DEF S
        <3> QED
            BY <3>1, <3>2, CardsTyped
    <2>5. Typed'
        BY <1>2, <2>3, <2>4 DEF Deny, Base, Typed, Stored
    <2>6. UNCHANGED <<saved, map, running>>
        BY <1>2 DEF Deny
    <2>7. Tasks'
        BY <2>3, <2>6, TaskMovesOn
    <2> QED
        BY <2>4, <2>5, <2>6, <2>7, SessionsStay DEF Base
<1> QED
    BY <1>1, <1>2

\* A session in hand is one of the topic's.
LEMMA InHand ==
    ASSUME Base, NEW p \in Handler, task[p].pc \in {"set", "disable", "link"}
    PROVE  /\ task[p].topic \in Topic /\ task[p].permanent = FALSE
           /\ task[p].session[2] \in 1..Len(saved[task[p].topic].recent)
           /\ task[p].session[2] \in Session
<1>1. task[p].session \in Pair /\ task[p].session[2] \in 1..Len(saved[task[p].topic].recent)
    BY TaskFields DEF Renews
<1> QED
    BY <1>1, TaskFields DEF Formed, Pair

LEMMA SetBase == ASSUME Base, NEW p \in Handler, Set(p) \/ Disable(p) PROVE Base'
<1> USE DEF memory, disk, history
<1>1. CASE Set(p)
    <2>1. Moved(p, "disable") /\ task[p].pc = "set"
        BY <1>1, Moving DEF Set
    <2>2. /\ task' \in [Handler -> TaskRecord] /\ \A q \in Handler \ {p} : task'[q] = task[q]
          /\ Formed(task'[p]) /\ task'[p].pc = "disable" /\ task'[p].session = task[p].session
          /\ task'[p].topic = task[p].topic
        BY <2>1, InHand, AlteredTypes DEF Moved, TaskState
    <2>3. map' \in [Topic -> Session] /\ \A t \in Topic : map'[t] \in {map[t], task[p].session[2]}
        BY <1>1, <2>1, InHand DEF Set, Base, Typed
    <2>4. Typed'
        BY <1>1, <2>2, <2>3 DEF Set, Base, Typed, Stored
    <2>5. UNCHANGED <<saved, running, cards>>
        BY <1>1 DEF Set
    <2>6. Sessions'
        <3>1. ASSUME NEW t \in Topic PROVE Kept(t)'
            <4>1. map'[t] \in 1..Len(saved[t].recent)
                <5>1. CASE t = task[p].topic
                    BY <1>1, <2>1, <5>1, InHand DEF Set, Base, Typed
                <5>2. CASE t # task[p].topic
                    BY <1>1, <5>2 DEF Set, Base, Typed, Sessions, Kept
                <5> QED
                    BY <5>1, <5>2
            <4> QED
                BY <2>5, <4>1 DEF Base, Sessions, Kept
        <3> QED
            BY <3>1 DEF Sessions
    <2>7. Tasks'
        BY <2>1, <2>2, <2>5, TaskMovesOn
    <2> QED
        BY <2>4, <2>5, <2>6, <2>7, CardsStay DEF Base
<1>2. CASE Disable(p)
    <2>1. Moved(p, "link") /\ task[p].pc = "disable"
        BY <1>2, Moving DEF Disable
    <2>2. /\ task' \in [Handler -> TaskRecord] /\ \A q \in Handler \ {p} : task'[q] = task[q]
          /\ Formed(task'[p]) /\ task'[p].pc = "link" /\ task'[p].session = task[p].session
          /\ task'[p].topic = task[p].topic
        BY <2>1, InHand, AlteredTypes DEF Moved, TaskState
    <2>3. yolo' \in Grants
        BY <1>2, <2>1, InHand, GrantTyped DEF Disable, Base
    <2>4. Typed'
        BY <1>2, <2>2, <2>3 DEF Disable, Base, Typed, Stored
    <2>5. UNCHANGED <<saved, map, running, cards>>
        BY <1>2 DEF Disable
    <2> QED
        BY <2>1, <2>2, <2>4, <2>5, QuietBase
<1> QED
    BY <1>1, <1>2

LEMMA LinkBase == ASSUME Base, NEW p \in Handler, Link(p) PROVE Base'
<1> USE DEF memory, disk, history
<1> DEFINE t == task[p].topic
           s == task[p].session[2]
           l == saved[t].linked \cup {s}
<1>1. t \in Topic /\ s \in 1..Len(saved[t].recent) /\ s \in Session
    BY InHand DEF Link
<1>2. saved[t] \in [recent : Seq(Session), linked : SUBSET Session]
    BY <1>1 DEF Base, Typed, Stored
<1>3. saved' = [saved EXCEPT ![t].linked = l] /\ l \in SUBSET Session
    BY <1>1, <1>2 DEF Link
<1> HIDE DEF t, s
<1>4. /\ saved' \in [Topic -> [recent : Seq(Session), linked : SUBSET Session]]
      /\ saved'[t].recent = saved[t].recent /\ saved'[t].linked = saved[t].linked \cup {s}
      /\ \A u \in Topic \ {t} : saved'[u] = saved[u]
    <2> HIDE DEF l
    <2>1. /\ saved' \in [Topic -> [recent : Seq(Session), linked : SUBSET Session]]
          /\ saved'[t].recent = saved[t].recent /\ saved'[t].linked = l
          /\ \A u \in Topic \ {t} : saved'[u] = saved[u]
        BY <1>1, <1>2, <1>3 DEF Base, Typed, Stored
    <2> QED
        BY <2>1 DEF l
<1> HIDE DEF l
<1>5. Ended(p)
    BY Moving
<1>6. task' \in [Handler -> TaskRecord]
    BY <1>5, EndedTypes
<1>7. Typed'
    BY <1>4, <1>6 DEF Link, Base, Typed, Stored
<1>8. map' = map /\ running' = running /\ cards' = cards
    BY DEF Link
<1>9. Sessions'
    <2>1. ASSUME NEW u \in Topic PROVE Kept(u)'
        <3>1. CASE u = t
            BY <1>1, <1>4, <1>8, <3>1 DEF Kept, Base, Sessions
        <3>2. CASE u # t
            <4>1. Kept(u) /\ saved'[u] = saved[u] /\ map'[u] = map[u] /\ running'[u] = running[u]
                BY <1>4, <1>8, <3>2 DEF Base, Sessions
            <4> QED
                BY <4>1 DEF Kept
        <3> QED
            BY <3>1, <3>2
    <2> QED
        BY <2>1 DEF Sessions
<1>10. \A u \in Topic : Len(saved[u].recent) <= Len(saved'[u].recent) /\ Len(saved'[u].recent) \in Nat
    <2>1. \A u \in Topic : saved'[u].recent = saved[u].recent
        BY <1>4
    <2> QED
        BY <2>1, SavedLens
<1>11. Tasks'
    BY <1>5, <1>10, EndedKeeps
<1> QED
    BY <1>7, <1>8, <1>9, <1>11, CardsStay DEF Base

\* The steps that no task takes.
LEMMA TasklessBase ==
    ASSUME Base, Typed', UNCHANGED <<saved, map, running, task>>, CardTopics'
    PROVE  Base'
<1>1. \A t \in Topic : Len(saved[t].recent) <= Len(saved'[t].recent) /\ Len(saved'[t].recent) \in Nat
    BY SavedLens
<1> QED
    BY <1>1, TasksStay, SessionsStay DEF Base

FlushRecord == [by : Handler \cup {"timer", None}, stage : {"none", "begun", "cut"}, cut : Cut]

LEMMA FlushBase ==
    ASSUME Base, FlushCut \/ \E by \in Handler \cup {"timer"} : FlushBegin(by)
    PROVE  Base'
<1> USE DEF memory, disk, history
<1>1. flush' \in FlushRecord
    <2>1. CASE FlushCut
        <3>1. flush \in FlushRecord /\ flush.cut \in Cut
            BY DEF Base, Typed, FlushRecord
        <3>2. [chat EXCEPT !.last_call = None] \in PlainRow
            BY DEF Base, Typed, PlainRow
        <3> DEFINE row == [chat EXCEPT !.last_call = None]
                   cut == [yolo |-> flush.cut.yolo, chat |-> row, allow |-> allow]
        <3>3. cut \in Cut
            <4> HIDE DEF row
            <4> QED
                BY <3>1, <3>2 DEF Cut, Base, Typed, row
        <3>4. flush' = [flush EXCEPT !.stage = "cut", !.cut = cut]
            BY <2>1 DEF FlushCut
        <3> HIDE DEF cut
        <3> QED
            BY <3>1, <3>3, <3>4 DEF FlushRecord
    <2>2. ASSUME NEW by \in Handler \cup {"timer"}, FlushBegin(by) PROVE flush' \in FlushRecord
        <3> DEFINE cut == [NoCut EXCEPT !.yolo = yolo]
        <3>1. cut \in Cut
            BY BlankTyped DEF Base, Typed, Cut
        <3>2. flush' = [by |-> by, stage |-> "begun", cut |-> cut]
            BY <2>2 DEF FlushBegin
        <3> HIDE DEF cut
        <3> QED
            BY <3>1, <3>2 DEF FlushRecord
    <2> QED
        BY <2>1, <2>2
<1>2. UNCHANGED <<now, map, yolo, chat, allow, task, cards, running, snapshot, config, saved, enables, granted>>
    BY DEF FlushCut, FlushBegin, Event, quiet
<1>3. Typed'
    BY <1>1, <1>2 DEF Base, Typed, Stored, FlushRecord
<1> QED
    BY <1>2, <1>3, TasklessBase, CardsStay

LEMMA WriteMoves ==
    ASSUME Base, FlushWrite
    PROVE  /\ flush.by \in Handler => Ended(flush.by)
           /\ flush.by \notin Handler => task' = task
           /\ snapshot' \in {snapshot, flush.cut} /\ flush' = NoFlush
           /\ UNCHANGED <<now, map, yolo, chat, allow, cards, running, config, saved, enables, granted>>
BY TaskFields, EndsAsWritten DEF FlushWrite, Event, Ended, Finish, Base, Typed, memory, disk, history

LEMMA WriteBase == ASSUME Base, FlushWrite PROVE Base'
<1>1. UNCHANGED <<now, map, yolo, chat, allow, cards, running, config, saved, enables, granted>>
    BY WriteMoves
<1>2. \A t \in Topic : Len(saved[t].recent) <= Len(saved'[t].recent) /\ Len(saved'[t].recent) \in Nat
    BY <1>1, SavedLens
<1>3. task' \in [Handler -> TaskRecord] /\ Tasks'
    <2>1. CASE flush.by \in Handler
        BY <1>2, <2>1, WriteMoves, EndedKeeps, EndedTypes
    <2>2. CASE flush.by \notin Handler
        BY <1>2, <2>2, WriteMoves, TasksStay DEF Base, Typed
    <2> QED
        BY <2>1, <2>2
<1>4. snapshot' \in Cut /\ flush' = NoFlush
    BY WriteMoves DEF Base, Typed, Stored
<1>5. Typed'
    BY <1>1, <1>3, <1>4, BlankTyped DEF Base, Typed, Stored
<1> QED
    BY <1>1, <1>3, <1>5, CardsStay, SessionsStay DEF Base

LEMMA ResearchBase == ASSUME Base, NEW t \in Topic, Research(t) PROVE Base'
<1> USE DEF memory, disk, history
<1>1. yolo' \in Grants
    BY GrantTyped DEF Research, Base
<1>2. Typed'
    BY <1>1 DEF Research, Base, Typed, Stored
<1> QED
    BY <1>2, TasklessBase, CardsStay DEF Research

LEMMA StartBase == ASSUME Base, NEW t \in Topic, StartTurn(t) PROVE Base'
<1>1. UNCHANGED <<now, map, yolo, chat, allow, flush, task, cards, snapshot, config, saved, enables, granted>>
    BY DEF StartTurn, quiet, Event, memory, disk
<1>2. running' \in [Topic -> SUBSET Session] /\ running'[t] = running[t] \cup {map[t]}
      /\ \A u \in Topic \ {t} : running'[u] = running[u]
    BY DEF StartTurn, Base, Typed
<1>3. Typed'
    BY <1>1, <1>2 DEF Base, Typed, Stored
<1>4. Sessions'
    <2>1. ASSUME NEW u \in Topic PROVE Kept(u)'
        <3>1. CASE u = t
            BY <1>1, <1>2, <3>1 DEF Kept, Base, Sessions
        <3>2. CASE u # t
            <4>1. Kept(u) /\ saved'[u] = saved[u] /\ map'[u] = map[u] /\ running'[u] = running[u]
                BY <1>1, <1>2, <3>2 DEF Base, Sessions
            <4> QED
                BY <4>1 DEF Kept
        <3> QED
            BY <3>1, <3>2
    <2> QED
        BY <2>1 DEF Sessions
<1>5. \A u \in Topic : Len(saved[u].recent) <= Len(saved'[u].recent) /\ Len(saved'[u].recent) \in Nat
    BY <1>1, SavedLens
<1> QED
    BY <1>1, <1>3, <1>4, <1>5, TasksStay, CardsStay DEF Base

LEMMA EndBase == ASSUME Base, NEW t \in Topic, NEW s \in Session, EndTurn(t, s) PROVE Base'
<1> USE DEF memory, disk, history
<1> DEFINE r == saved[t].recent
           w == Renewed(r, s)
<1>1. /\ saved[t] \in [recent : Seq(Session), linked : SUBSET Session] /\ r \in Seq(Session)
      /\ Len(r) \in Nat /\ Kept(t)
    BY LenProperties DEF Base, Typed, Stored, Sessions
<1>2. s \in Range(r) /\ IsInjective(r)
    BY <1>1 DEF EndTurn, Kept
<1>3. w \in Seq(Session) /\ IsInjective(w) /\ Len(w) = Len(r) /\ Range(w) = Range(r)
    BY <1>1, <1>2, RenewedKeeps
<1>4. saved' = [saved EXCEPT ![t].recent = w]
    BY DEF EndTurn
<1> HIDE DEF w
<1>5. /\ saved' \in [Topic -> [recent : Seq(Session), linked : SUBSET Session]]
      /\ saved'[t].recent = w /\ saved'[t].linked = saved[t].linked
      /\ \A u \in Topic \ {t} : saved'[u] = saved[u]
    BY <1>1, <1>3, <1>4 DEF Base, Typed, Stored
<1>6. running' \in [Topic -> SUBSET Session] /\ \A u \in Topic : running'[u] \subseteq running[u]
    BY DEF EndTurn, Base, Typed
<1>7. UNCHANGED <<now, map, yolo, chat, allow, flush, task, cards, snapshot, config, enables, granted>>
    BY DEF EndTurn
<1>8. Typed'
    BY <1>5, <1>6, <1>7 DEF Base, Typed, Stored
<1>9. Sessions'
    <2>1. ASSUME NEW u \in Topic PROVE Kept(u)'
        <3>1. CASE u = t
            BY <1>1, <1>3, <1>5, <1>6, <1>7, <3>1 DEF Kept
        <3>2. CASE u # t
            BY <1>5, <1>6, <1>7, <3>2 DEF Kept, Base, Sessions
        <3> QED
            BY <3>1, <3>2
    <2> QED
        BY <2>1 DEF Sessions
<1>10. \A u \in Topic : Len(saved[u].recent) <= Len(saved'[u].recent) /\ Len(saved'[u].recent) \in Nat
    BY <1>1, <1>3, <1>5, SavedLens
<1> QED
    BY <1>7, <1>8, <1>9, <1>10, TasksStay, CardsStay DEF Base

LEMMA CardBase ==
    ASSUME Base, NEW c \in Card, Carding(c) \/ \E t \in Topic : Request(c, t)
    PROVE  Base'
<1> USE DEF memory, disk, history
<1>0. cards[c] \in CardRecord
    BY DEF Base, Typed
<1>1. cards' \in [Card -> CardRecord] /\ CardTopics'
    <2>1. ASSUME NEW state \in {"allowed", "asking", "pending", "denied"}, SetCard(c, state),
                 cards[c].state # "new"
          PROVE  cards' \in [Card -> CardRecord] /\ CardTopics'
        <3> DEFINE r == [cards[c] EXCEPT !.state = state]
        <3>1. r \in CardRecord /\ r.topic \in Topic
            BY <1>0, <2>1 DEF CardRecord, Base, CardTopics
        <3>2. cards' = [cards EXCEPT ![c] = r]
            BY <2>1 DEF SetCard, Base, Typed
        <3> HIDE DEF r
        <3> QED
            BY <3>1, <3>2, CardTyped
    <2>2. CASE Purge(c) \/ Ask(c)
        BY <2>1, <2>2 DEF Purge, Ask
    <2>3. ASSUME NEW state \in {"allowed", "denied"}, Answer(c, state)
          PROVE  cards' \in [Card -> CardRecord] /\ CardTopics'
        <3> DEFINE r == [cards[c] EXCEPT !.state = state, !.tapped = (state = "allowed")]
        <3>1. r \in CardRecord /\ r.topic \in Topic
            BY <1>0, <2>3 DEF CardRecord, Base, CardTopics, Answer
        <3>2. cards' = [cards EXCEPT ![c] = r]
            BY <2>3 DEF Answer
        <3> HIDE DEF r
        <3> QED
            BY <3>1, <3>2, CardTyped
    <2>4. ASSUME NEW t \in Topic, Request(c, t)
          PROVE  cards' \in [Card -> CardRecord] /\ CardTopics'
        <3>1. PICK state \in {"allowed", "purge", "asking"} :
                 cards' = [cards EXCEPT ![c] = [cards[c] EXCEPT !.state = state, !.topic = t]]
            BY <2>4 DEF Request
        <3> DEFINE r == [cards[c] EXCEPT !.state = state, !.topic = t]
        <3>2. r \in CardRecord /\ r.topic \in Topic
            BY <1>0 DEF CardRecord
        <3>3. cards' = [cards EXCEPT ![c] = r]
            BY <3>1
        <3> HIDE DEF r
        <3> QED
            BY <3>2, <3>3, CardTyped
    <2> QED
        BY <2>2, <2>3, <2>4 DEF Carding
<1>2. yolo' \in Grants
    <2>1. CASE Purge(c)
        <3>1. cards[c].topic \in Topic
            BY <2>1 DEF Purge, Base, CardTopics
        <3> QED
            BY <2>1, <3>1, GrantTyped DEF Purge, Base
    <2>2. CASE yolo' = yolo
        BY <2>2 DEF Base, Typed
    <2> QED
        BY <2>1, <2>2 DEF Carding, Ask, Answer, Request
<1>3. UNCHANGED <<now, map, chat, allow, flush, task, running, snapshot, config, saved, enables, granted>>
    BY DEF Carding, Purge, Ask, Answer, Request
<1>4. Typed'
    BY <1>1, <1>2, <1>3 DEF Base, Typed, Stored
<1> QED
    BY <1>1, <1>3, <1>4, TasklessBase

LEMMA TickBase == ASSUME Base, Tick PROVE Base'
<1>1. now' \in Time
    BY ChannelAssumption DEF Tick, Base, Typed, Time
<1>2. UNCHANGED <<map, yolo, chat, allow, flush, task, cards, running, snapshot, config, saved, enables, granted>>
    BY DEF Tick, quiet, memory, disk, history
<1>3. Typed'
    BY <1>1, <1>2 DEF Base, Typed, Stored
<1> QED
    BY <1>2, <1>3, TasklessBase, CardsStay

LEMMA SurvivingTyped ==
    ASSUME Base, NEW torn
    PROVE  Surviving(torn) \in [Topic -> [Session -> Config]]
BY BlankTyped DEF Surviving, Base, Typed, Stored

LEMMA RestoredTyped ==
    ASSUME Base, NEW files \in [Topic -> [Session -> Config]], NEW at \in Time
    PROVE  Restored(files, at) \in Cut
<1> DEFINE grants == [t \in Topic |-> RestoredYolo(t, files[t][Best(t)].yolo, at)]
<1>1. ASSUME NEW t \in Topic
      PROVE  /\ RestoredYolo(t, files[t][Best(t)].yolo, at) \in {None} \cup [at : Time, explicit : BOOLEAN]
             /\ snapshot.allow[t] \/ files[t][Best(t)].allow \in BOOLEAN
    <2>1. files[t][Best(t)] \in Config
        BY BestIsLinked DEF Base, Typed
    <2>2. files[t][Best(t)].yolo \in {None} \cup Time
        BY <2>1 DEF Config
    <2>3. snapshot.yolo[t] \in {None} \cup [at : Time, explicit : BOOLEAN]
        BY DEF Base, Typed, Stored, Cut, Grants
    <2> QED
        BY <2>1, <2>2, <2>3 DEF RestoredYolo, Config
<1>2. grants \in Grants
    BY <1>1 DEF Grants
<1>3. Seeded(snapshot.chat, grants) \in PlainRow
    BY BlankTyped DEF Seeded, Base, Typed, Stored, Cut, PlainRow, NoRow
<1>4. [t \in Topic |-> snapshot.allow[t] \/ files[t][Best(t)].allow] \in Allowing
    BY DEF Allowing
<1> HIDE DEF grants
<1> QED
    BY <1>2, <1>3, <1>4 DEF Restored, Cut, grants

LEMMA RestartMoves ==
    ASSUME Base, Restart
    PROVE  \E torn \in SUBSET Torn :
              /\ now' \in now..MaxNow /\ now' \in Time
              /\ config' = Surviving(torn)
              /\ config' \in [Topic -> [Session -> Config]]
              /\ Restored(config', now') \in Cut
              /\ yolo' = Restored(config', now').yolo /\ chat' = Restored(config', now').chat
              /\ allow' = Restored(config', now').allow
              /\ \/ snapshot' = Restored(config', now')
                 \/ snapshot' = snapshot /\ unsaved' = unsaved \cup {"snapshot"}
              /\ map' = [t \in Topic |-> Best(t)] /\ flush' = NoFlush
              /\ task' = [p \in Handler |-> Idle] /\ running' = [t \in Topic |-> {}]
              /\ cards' = [c \in Card |-> IF cards[c].state \in {"purge", "asking", "pending"}
                                          THEN [cards[c] EXCEPT !.state = "lost"] ELSE cards[c]]
              /\ UNCHANGED <<saved, enables, granted>>
<1>1. PICK torn \in SUBSET Torn : config' = Surviving(torn)
    BY DEF Restart
<1>2. now' \in now..MaxNow /\ now' \in Time
    BY ChannelAssumption DEF Restart, Base, Typed, Time
<1>3. config' \in [Topic -> [Session -> Config]]
    BY <1>1, SurvivingTyped
<1> DEFINE files == config'
           at == now'
<1>4. Restored(files, at) \in Cut
    <2>1. files \in [Topic -> [Session -> Config]] /\ at \in Time
        BY <1>2, <1>3
    <2> HIDE DEF files, at
    <2> QED
        BY <2>1, RestoredTyped
<1> QED
    BY <1>1, <1>2, <1>3, <1>4 DEF Restart

LEMMA RestartBase == ASSUME Base, Restart PROVE Base'
<1> DEFINE state == Restored(config', now')
<1>1. /\ now' \in Time /\ config' \in [Topic -> [Session -> Config]] /\ state \in Cut
      /\ yolo' = state.yolo /\ chat' = state.chat /\ allow' = state.allow
      /\ snapshot' \in {state, snapshot}
      /\ map' = [t \in Topic |-> Best(t)] /\ flush' = NoFlush
      /\ task' = [p \in Handler |-> Idle] /\ running' = [t \in Topic |-> {}]
      /\ cards' = [c \in Card |-> IF cards[c].state \in {"purge", "asking", "pending"}
                                  THEN [cards[c] EXCEPT !.state = "lost"] ELSE cards[c]]
      /\ UNCHANGED <<saved, enables, granted>>
    BY RestartMoves
<1> HIDE DEF state
<1>2. yolo' \in Grants /\ chat' \in PlainRow /\ allow' \in Allowing /\ snapshot' \in Cut
    BY <1>1 DEF Cut, Base, Typed, Stored
<1>3. \A t \in Topic : map'[t] \in 1..Len(saved[t].recent) /\ map'[t] \in Session
    BY <1>1, BestIsLinked DEF Base, Typed
<1>4. map' \in [Topic -> Session] /\ running' \in [Topic -> SUBSET Session]
    BY <1>1, <1>3
<1>5. cards' \in [Card -> CardRecord] /\ CardTopics'
    <2> DEFINE S == {c \in Card : cards[c].state \in {"purge", "asking", "pending"}}
    <2>1. cards' = [c \in Card |-> IF c \in S THEN [cards[c] EXCEPT !.state = "lost"] ELSE cards[c]]
        BY <1>1
    <2>2. \A c \in S : cards[c].state \in {"purge", "asking", "pending"}
        OBVIOUS
    <2> HIDE DEF S
    <2> QED
        BY <2>1, <2>2, CardsTyped
<1>6. task' \in [Handler -> TaskRecord] /\ Tasks'
    <2>1. \A p \in Handler : task'[p] = Idle /\ task'[p].pc = "idle" /\ task'[p].permanent = FALSE
        BY <1>1 DEF Idle
    <2> QED
        BY <1>1, <2>1, BlankTyped DEF Tasks, Formed, Renews
<1>7. Typed'
    BY <1>1, <1>2, <1>4, <1>5, <1>6, BlankTyped DEF Base, Typed, Stored
<1>8. Sessions'
    <2>1. ASSUME NEW t \in Topic PROVE Kept(t)'
        <3>1. running'[t] = {}
            BY <1>1
        <3> QED
            BY <1>1, <1>3, <3>1 DEF Kept, Base, Sessions
    <2> QED
        BY <2>1 DEF Sessions
<1> QED
    BY <1>5, <1>6, <1>7, <1>8 DEF Base

LEMMA StutterBase == ASSUME Base, UNCHANGED vars PROVE Base'
<1>1. UNCHANGED <<now, map, yolo, chat, allow, flush, task, cards, running, snapshot, config, saved, enables, granted>>
    BY DEF vars, memory, disk, history
<1>2. Typed'
    BY <1>1 DEF Base, Typed, Stored
<1> QED
    BY <1>1, <1>2, TasklessBase, CardsStay

LEMMA NextBase == Base /\ [Next]_vars => Base'
<1> SUFFICES ASSUME Base, [Next]_vars PROVE Base'
    OBVIOUS
<1>1. ASSUME NEW p \in Handler, \E t \in Topic : Started(p, t) PROVE Base'
    BY <1>1, OpenBase, NewBase DEF Started
<1>2. ASSUME NEW p \in Handler, \E c \in Card : TapYolo(p, c) PROVE Base'
    BY <1>2, TapBase
<1>3. ASSUME NEW p \in Handler, Enabling(p) PROVE Base'
    BY <1>3, GrantBase, CountBase, ApproveBase DEF Enabling
<1>4. ASSUME NEW p \in Handler, Clearing(p) PROVE Base'
    BY <1>4, ClearBase, LoadBase DEF Clearing
<1>5. ASSUME NEW p \in Handler, Renewing(p) PROVE Base'
    BY <1>5, SetBase, LinkBase DEF Renewing
<1>6. ASSUME NEW p \in Handler, Load(p) \/ Store(p) PROVE Base'
    BY <1>6, LoadBase, StoreBase
<1>7. ASSUME NEW by \in Handler \cup {"timer"}, FlushBegin(by) PROVE Base'
    BY <1>7, FlushBase
<1>8. ASSUME NEW t \in Topic, Research(t) \/ StartTurn(t) \/ \E s \in Session : EndTurn(t, s) PROVE Base'
    BY <1>8, ResearchBase, StartBase, EndBase
<1>9. ASSUME NEW c \in Card, Carding(c) \/ \E t \in Topic : Request(c, t) PROVE Base'
    BY <1>9, CardBase
<1> QED
    BY <1>1, <1>2, <1>3, <1>4, <1>5, <1>6, <1>7, <1>8, <1>9, FlushBase, WriteBase, TickBase, RestartBase,
       StutterBase DEF Next

-----------------------------------------------------------------------------
(* What the steps leave alone *)

StepOf(p) ==
    \/ \E t \in Topic : Started(p, t)
    \/ \E c \in Card : TapYolo(p, c)
    \/ Enabling(p) \/ Clearing(p) \/ Renewing(p) \/ Load(p) \/ Store(p)

Outside ==
    \/ \E t \in Topic : Research(t) \/ StartTurn(t) \/ \E s \in Session : EndTurn(t, s)
    \/ \E c \in Card : Carding(c) \/ \E t \in Topic : Request(c, t)
    \/ Tick \/ UNCHANGED vars

LEMMA OutsideFrame ==
    ASSUME Outside
    PROVE  /\ UNCHANGED <<chat, allow, flush, task, snapshot, config, enables, unsaved>>
           /\ granted \subseteq granted' /\ (Partial => yolo' = yolo)
<1> USE DEF memory, disk, history, quiet, Held
<1>1. ASSUME NEW t \in Topic, Research(t) \/ StartTurn(t) \/ \E s \in Session : EndTurn(t, s)
      PROVE  /\ UNCHANGED <<chat, allow, flush, task, snapshot, config, enables, unsaved>>
             /\ granted \subseteq granted' /\ (Partial => yolo' = yolo)
    BY <1>1 DEF Research, StartTurn, EndTurn
<1>2. ASSUME NEW c \in Card, Carding(c) \/ \E t \in Topic : Request(c, t)
      PROVE  /\ UNCHANGED <<chat, allow, flush, task, snapshot, config, enables, unsaved>>
             /\ granted \subseteq granted' /\ (Partial => yolo' = yolo)
    BY <1>2 DEF Carding, Purge, Ask, Answer, Request
<1> QED
    BY <1>1, <1>2 DEF Outside, Tick, vars

LEMMA TaskFrame ==
    ASSUME Base, NEW p \in Handler, StepOf(p)
    PROVE  /\ \A q \in Handler \ {p} : task'[q] = task[q]
           /\ task[p].pc # "flush" /\ UNCHANGED <<flush, snapshot>>
           /\ granted \subseteq granted' /\ enables \in Nat /\ enables' \in {enables, enables + 1}
           /\ (Partial => yolo' = yolo) /\ ("snapshot" \in unsaved' => "snapshot" \in unsaved)
           /\ ("snapshot" \in unsaved => "snapshot" \in unsaved')
<1> USE DEF memory, disk, history, Held
<1>1. task \in [Handler -> TaskRecord] /\ enables \in Nat
    BY DEF Base, Typed
<1>2. ASSUME NEW t \in Topic, Started(p, t) PROVE
           /\ \A q \in Handler \ {p} : task'[q] = task[q]
           /\ task[p].pc # "flush" /\ UNCHANGED <<flush, snapshot>>
           /\ granted \subseteq granted' /\ enables' \in {enables, enables + 1}
           /\ (Partial => yolo' = yolo) /\ unsaved' = unsaved
    BY <1>1, <1>2 DEF Started, Yolo, Enable, Off, New, Allow, Command
<1>3. ASSUME NEW c \in Card, TapYolo(p, c) PROVE
           /\ \A q \in Handler \ {p} : task'[q] = task[q]
           /\ task[p].pc # "flush" /\ UNCHANGED <<flush, snapshot, granted, enables, yolo, unsaved>>
    BY <1>1, <1>3 DEF TapYolo
<1>4. ASSUME Enabling(p) PROVE
           /\ \A q \in Handler \ {p} : task'[q] = task[q]
           /\ task[p].pc # "flush" /\ UNCHANGED <<flush, snapshot>>
           /\ granted \subseteq granted' /\ enables' \in {enables, enables + 1}
           /\ (Partial => yolo' = yolo) /\ unsaved' = unsaved
    BY <1>1, <1>4 DEF Enabling, GrantTap, Enable, Count, Approve, AfterApproval, Goto, Finish
<1>5. ASSUME Clearing(p) \/ Renewing(p) \/ Load(p) PROVE
           /\ \A q \in Handler \ {p} : task'[q] = task[q]
           /\ task[p].pc # "flush" /\ UNCHANGED <<flush, snapshot, granted, enables, unsaved>>
           /\ (Partial => yolo' = yolo)
    BY <1>1, <1>5 DEF Clearing, ClearTopics, Deny, LoadNext, Renewing, Set, Disable, Link, Load, Goto, Finish
<1>6. ASSUME Store(p) PROVE
           /\ \A q \in Handler \ {p} : task'[q] = task[q]
           /\ task[p].pc # "flush" /\ UNCHANGED <<flush, snapshot, granted, enables, yolo>>
           /\ ("snapshot" \in unsaved' => "snapshot" \in unsaved)
           /\ ("snapshot" \in unsaved => "snapshot" \in unsaved')
    BY <1>1, <1>6 DEF Store, AfterStore, Goto, Finish
<1> QED
    BY <1>1, <1>2, <1>3, <1>4, <1>5, <1>6 DEF StepOf

LEMMA NextIsOneOf ==
    ASSUME [Next]_vars
    PROVE  \/ \E p \in Handler : StepOf(p)
           \/ \E by \in Handler \cup {"timer"} : FlushBegin(by)
           \/ FlushCut \/ FlushWrite \/ Outside \/ Restart
BY DEF Next, StepOf, Outside

-----------------------------------------------------------------------------
(* The flush in progress *)

LEMMA FlushingNext == Base /\ Flushing /\ [Next]_vars => Flushing'
<1> SUFFICES ASSUME Base, Flushing, [Next]_vars PROVE Flushing'
    OBVIOUS
<1> USE DEF Flushing, Partial
<1>1. ASSUME NEW p \in Handler, StepOf(p) PROVE Flushing'
    BY <1>1, TaskFrame
<1>2. ASSUME NEW by \in Handler \cup {"timer"}, FlushBegin(by) PROVE Flushing'
    BY <1>2, ChannelAssumption DEF FlushBegin, memory, NoCut
<1>3. CASE FlushCut
    BY <1>3, ChannelAssumption DEF FlushCut, memory, Base, Typed
<1>4. CASE FlushWrite
    BY <1>4, WriteMoves, ChannelAssumption DEF NoFlush
<1>5. CASE Outside
    BY <1>5, OutsideFrame
<1>6. CASE Restart
    BY <1>6, ChannelAssumption DEF Restart, NoFlush
<1> QED
    BY <1>1, <1>2, <1>3, <1>4, <1>5, <1>6, NextIsOneOf

-----------------------------------------------------------------------------
(* Every approval was given *)

\* The stores and the tasks that a step leaves as they are.
LEMMA GivenStays ==
    ASSUME Base, Given, granted \subseteq granted', enables' \in {enables, enables + 1},
           UNCHANGED <<flush, snapshot, config>>
    PROVE  /\ GivenIn(snapshot.yolo, snapshot.allow)' /\ GivenIn(flush.cut.yolo, flush.cut.allow)'
           /\ \A t \in Topic, s \in Session : GivenConfig(t, config[t][s])'
           /\ \A p \in Handler : task'[p] = task[p] => GivenTask(task[p])'
<1>1. enables \in Nat /\ (enables > 0 => enables' > 0)
    BY DEF Base, Typed
<1>2. GivenIn(snapshot.yolo, snapshot.allow)' /\ GivenIn(flush.cut.yolo, flush.cut.allow)'
    BY <1>1 DEF Given, GivenIn
<1>3. ASSUME NEW t \in Topic, NEW s \in Session PROVE GivenConfig(t, config[t][s])'
    BY <1>1 DEF Given, GivenConfig
<1>4. ASSUME NEW p \in Handler, task'[p] = task[p] PROVE GivenTask(task[p])'
    <2>1. GivenTask(task[p])
        BY DEF Given
    <2> QED
        BY <1>1, <1>4, <2>1 DEF GivenTask, GivenConfig
<1> QED
    BY <1>2, <1>3, <1>4

\* A step of one task that writes neither a store nor, but for one topic, an approval.
LEMMA GivenByTask ==
    ASSUME Base, Given, NEW p \in Handler, StepOf(p), config' = config,
           \A t \in Topic : yolo'[t] # None \/ allow'[t] =>
               \/ yolo'[t] \in {yolo[t], None} /\ (allow'[t] => allow[t])
               \/ t \in granted' /\ (yolo'[t] = yolo[t] \/ enables' > 0),
           GivenTask(task[p])'
    PROVE  Given'
<1>1. /\ \A q \in Handler \ {p} : task'[q] = task[q]
      /\ UNCHANGED <<flush, snapshot>> /\ granted \subseteq granted' /\ enables \in Nat
      /\ enables' \in {enables, enables + 1}
    BY TaskFrame
<1>2. GivenIn(yolo, allow)'
    <2>1. ASSUME NEW t \in Topic
          PROVE  (yolo'[t] # None \/ allow'[t] => t \in granted') /\ (Seeds(yolo'[t]) => enables' > 0)
        BY <1>1 DEF Given, GivenIn, Seeds
    <2> QED
        BY <2>1 DEF GivenIn
<1>3. ASSUME NEW q \in Handler PROVE GivenTask(task[q])'
    BY <1>1, GivenStays
<1> QED
    BY <1>1, <1>2, <1>3, GivenStays DEF Given

LEMMA StartedGiven == ASSUME Base, Given, NEW p \in Handler, NEW t \in Topic, Started(p, t) PROVE Given'
<1> USE DEF memory, disk, history
<1>0. StepOf(p) /\ yolo \in Grants /\ allow \in Allowing /\ enables \in Nat
    BY DEF StepOf, Base, Typed
<1>1. CASE Yolo(p, t)
    <2>1. Opened(p, "yolo", t, "count", None, None)
        BY <1>1, Opening
    <2>2. /\ yolo'[t].explicit = TRUE /\ \A u \in Topic \ {t} : yolo'[u] = yolo[u]
          /\ allow' = allow /\ config' = config /\ t \in granted' /\ enables' > 0
        BY <1>0, <1>1 DEF Yolo, Enable, Grants
    <2>3. GivenTask(task[p])'
        BY <2>1, <2>2 DEF GivenTask, Opened, Opens
    <2> QED
        BY <1>0, <2>2, <2>3, GivenByTask
<1>2. CASE Off(p, t) \/ New(p, t)
    <2>1. UNCHANGED <<yolo, allow, config>>
        BY <1>2 DEF Off, New
    <2>2. task'[p].command \in {"off", "new"} /\ task'[p].pc \in {"clear_topics", "set"}
        BY <1>2, Opening DEF Opened, Opens
    <2>3. GivenTask(task[p])'
        BY <2>2 DEF GivenTask
    <2> QED
        BY <1>0, <2>1, <2>3, GivenByTask
<1>3. ASSUME NEW name \in {"add", "remove"}, Allow(p, t, name) PROVE Given'
    <2>1. yolo' = yolo /\ config' = config /\ allow' = [allow EXCEPT ![t] = (name = "add")]
          /\ (name = "add" => t \in granted')
        BY <1>3 DEF Allow
    <2>2. Opened(p, name, t, "load", None, None)
        BY <1>3, Opening
    <2>3. task'[p].command \in {"add", "remove"} /\ task'[p].pc = "load"
        BY <2>2 DEF Opened, Opens
    <2>4. GivenTask(task[p])'
        BY <2>3 DEF GivenTask
    <2>5. ASSUME NEW u \in Topic
          PROVE  (allow'[u] => allow[u]) \/ u \in granted'
        BY <1>0, <2>1 DEF Allowing
    <2> QED
        BY <1>0, <2>1, <2>4, <2>5, GivenByTask
<1> QED
    BY <1>1, <1>2, <1>3 DEF Started

LEMMA EnablingGiven ==
    ASSUME Base, Given, NEW p \in Handler, Enabling(p) \/ \E c \in Card : TapYolo(p, c)
    PROVE  Given'
<1> USE DEF memory, disk, history
<1>0. StepOf(p) /\ yolo \in Grants /\ enables \in Nat /\ GivenTask(task[p])
    BY DEF StepOf, Base, Typed, Given
<1>1. ASSUME NEW c \in Card, TapYolo(p, c) PROVE Given'
    <2>1. UNCHANGED <<yolo, allow, config>>
        BY <1>1 DEF TapYolo
    <2>2. task'[p].pc = "grant"
        <3>1. cards[c].topic \in Topic
            BY <1>1 DEF TapYolo, Base, CardTopics
        <3>2. Opened(p, "yolo", cards[c].topic, "grant", None, c)
            BY <1>1, <3>1, Opening
        <3> QED
            BY <3>2 DEF Opened, Opens
    <2>3. GivenTask(task[p])'
        BY <2>2 DEF GivenTask
    <2> QED
        BY <1>0, <2>1, <2>3, GivenByTask
<1>2. CASE GrantTap(p)
    <2> DEFINE t == task[p].topic
    <2>1. Moved(p, "count") /\ t \in Topic
        BY <1>2, Moving, TaskFields DEF GrantTap
    <2>2. /\ yolo' = [yolo EXCEPT ![t] = [at |-> now, explicit |-> TRUE]]
          /\ allow' = allow /\ config' = config /\ t \in granted' /\ enables' > 0
        BY <1>0, <1>2 DEF GrantTap, Enable
    <2>3. task'[p].topic = t /\ task'[p].pc = "count"
        BY <2>1 DEF Moved, Altered, Alters
    <2> HIDE DEF t
    <2>4. GivenTask(task[p])'
        BY <2>2, <2>3 DEF GivenTask
    <2>5. \A u \in Topic \ {t} : yolo'[u] = yolo[u]
        BY <1>0, <2>1, <2>2 DEF Grants
    <2> QED
        BY <1>0, <2>2, <2>4, <2>5, GivenByTask
<1>3. CASE Count(p)
    <2>1. UNCHANGED <<yolo, allow, config, granted, enables>>
        BY <1>3 DEF Count
    <2>2. /\ task[p].pc = "count" /\ task[p].command = "yolo"
          /\ task'[p].pc = "load" /\ task'[p].topic = task[p].topic
        BY <1>3, Loading, TaskFields DEF Count, Altered, Alters, Formed
    <2>3. GivenTask(task[p])'
        BY <1>0, <2>1, <2>2 DEF GivenTask
    <2> QED
        BY <1>0, <2>1, <2>3, GivenByTask
<1>4. CASE Approve(p)
    <2>1. UNCHANGED <<yolo, allow, config, granted, enables>>
        BY <1>4 DEF Approve
    <2>2. /\ task[p].pc = "approve" /\ task[p].command = "yolo"
        BY <1>4, TaskFields DEF Approve, Formed
    <2>3. \/ task'[p].pc = "flush" /\ task'[p].topic = task[p].topic
          \/ task'[p].pc = "idle"
        <3>1. Moved(p, "flush") \/ Ended(p)
            BY <1>4, Moving
        <3> QED
            BY <3>1 DEF Moved, Altered, Alters, Ended, Ends, Idle
    <2>4. GivenTask(task[p])'
        BY <1>0, <2>1, <2>2, <2>3 DEF GivenTask
    <2> QED
        BY <1>0, <2>1, <2>4, GivenByTask
<1> QED
    BY <1>1, <1>2, <1>3, <1>4 DEF Enabling

LEMMA ClearingGiven ==
    ASSUME Base, Given, NEW p \in Handler, ClearTopics(p) \/ Deny(p) \/ Renewing(p) PROVE Given'
<1> USE DEF memory, disk, history
<1>0. StepOf(p) /\ yolo \in Grants /\ GivenTask(task[p])
    BY DEF StepOf, Clearing, Base, Typed, Given
<1>1. UNCHANGED <<allow, config, granted, enables>>
    BY DEF Renewing, ClearTopics, Deny, Set, Disable, Link
<1>2. \A t \in Topic : yolo'[t] \in {yolo[t], None}
    BY <1>0 DEF Grants, Renewing, ClearTopics, Cleared, Deny, Set, Disable, Link
<1>3. task[p].pc \in {"clear_topics", "deny", "set", "disable", "link"}
    BY DEF Renewing, ClearTopics, Deny, Set, Disable, Link
<1>4. /\ task'[p].pc \in {"deny", "load", "disable", "link", "idle"}
      /\ task'[p].pc # "idle" => task'[p].command = task[p].command /\ task'[p].topic = task[p].topic
    <2>1. \/ \E pc \in {"deny", "disable", "link"} : Moved(p, pc)
          \/ Ended(p)
          \/ \E left \in SUBSET Pair :
                Altered(p, "load", task[p].permanent, task[p].session, task[p].edited, left)
        BY Moving, Loading DEF Renewing
    <2> QED
        BY <2>1 DEF Moved, Altered, Alters, Ended, Ends, Idle
<1>5. GivenTask(task[p])'
    BY <1>0, <1>1, <1>3, <1>4 DEF GivenTask
<1> QED
    BY <1>0, <1>1, <1>2, <1>5, GivenByTask

LEMMA LoadGiven == ASSUME Base, Given, NEW p \in Handler, Load(p) \/ LoadNext(p) PROVE Given'
<1> USE DEF memory, disk, history
<1>0. StepOf(p) /\ GivenTask(task[p])
    BY DEF StepOf, Clearing, Given
<1>1. UNCHANGED <<yolo, allow, config, granted, enables>>
    BY DEF Load, LoadNext
<1>2. task[p].pc = "load" /\ task[p].topic \in Topic
    BY TaskFields DEF Load, LoadNext
<1>3. PICK s \in Pair : /\ \E left \in {task[p].left, task[p].left \ {s}} : Loads(p, s, left)
                        /\ s[1] = task[p].topic \/ task[p].command = "off"
    BY Loading DEF LoadNext
<1> DEFINE old == config[s[1]][s[2]]
           new == Edited(p, old)
<1>4. old \in Config /\ GivenConfig(s[1], old)
    BY DEF Pair, Given, Base, Typed, Stored
<1>5. now \in Nat /\ None \notin Nat /\ None # now
    BY ChannelAssumption DEF Base, Typed, Time
<1>6. allow[task[p].topic] => task[p].topic \in granted
    BY <1>2 DEF Given, GivenIn
<1>7. GivenConfig(s[1], new)
    <2>1. CASE task[p].command = "yolo"
        <3>1. new.yolo = now /\ new.allow = old.allow
            BY <1>4, <2>1 DEF Edited, Config
        <3>2. s[1] \in granted /\ enables > 0
            BY <1>0, <1>2, <1>3, <2>1 DEF GivenTask
        <3> QED
            BY <3>2 DEF GivenConfig
    <2>2. CASE task[p].command = "off"
        <3>1. new.yolo = None /\ new.allow = old.allow
            BY <1>4, <2>2 DEF Edited, Config
        <3> QED
            BY <1>4, <3>1 DEF GivenConfig
    <2>3. CASE task[p].command \notin {"yolo", "off"}
        <3>1. new.yolo = old.yolo /\ new.allow = allow[task[p].topic]
            BY <1>4, <2>3 DEF Edited, Config
        <3> QED
            BY <1>3, <1>4, <1>6, <2>3, <3>1 DEF GivenConfig
    <2> QED
        BY <2>1, <2>2, <2>3
<1>8. /\ task'[p].pc = "store" /\ task'[p].session = s /\ task'[p].edited = new
      /\ task'[p].command = task[p].command /\ task'[p].topic = task[p].topic
    BY <1>3 DEF Loads, Altered, Alters
<1> HIDE DEF old, new
<1>9. GivenTask(task[p])'
    BY <1>0, <1>1, <1>2, <1>7, <1>8 DEF GivenTask, GivenConfig
<1> QED
    BY <1>0, <1>1, <1>9, GivenByTask

LEMMA StoreGiven == ASSUME Base, Given, NEW p \in Handler, Store(p) PROVE Given'
<1> USE DEF memory, disk, history
<1> DEFINE a == task[p].session[1]
           b == task[p].session[2]
           e == task[p].edited
<1>1. UNCHANGED <<yolo, allow, granted, enables, snapshot, flush>>
    BY DEF Store
<1>2. task[p].pc = "store" /\ GivenTask(task[p]) /\ a \in Topic /\ b \in Session
    BY TaskFields DEF Store, Formed, Given, Pair
<1>3. config \in [Topic -> [Session -> Config]]
    BY DEF Base, Typed, Stored
<1>4. config' = [config EXCEPT ![a][b] = e] \/ config' = config
    BY DEF Store
<1>5. GivenConfig(a, e)
    BY <1>2 DEF GivenTask
<1> HIDE DEF a, b, e
<1>6. ASSUME NEW t \in Topic, NEW s \in Session PROVE GivenConfig(t, config[t][s])'
    <2>1. GivenConfig(t, config[t][s])
        BY DEF Given
    <2>2. config'[t][s] = config[t][s] \/ (t = a /\ config'[t][s] = e)
        BY <1>2, <1>3, <1>4
    <2> QED
        BY <1>1, <1>5, <2>1, <2>2 DEF GivenConfig
<1>7. \/ task'[p].pc = "idle"
      \/ /\ task'[p].pc \in {"approve", "flush", "load"} /\ task'[p].command = task[p].command
         /\ task'[p].topic = task[p].topic
    <2>1. (\E pc \in {"approve", "flush", "load"} : Moved(p, pc)) \/ Ended(p)
        BY Moving
    <2> QED
        BY <2>1 DEF Moved, Altered, Alters, Ended, Ends, Idle
<1>8. ASSUME NEW q \in Handler PROVE GivenTask(task[q])'
    <2>1. CASE q = p
        BY <1>1, <1>2, <1>7, <2>1 DEF GivenTask
    <2>2. CASE q # p
        <3>1. task'[q] = task[q] /\ GivenTask(task[q])
            BY <2>2, TaskFrame DEF StepOf, Given
        <3> QED
            BY <1>1, <3>1 DEF GivenTask, GivenConfig
    <2> QED
        BY <2>1, <2>2
<1>9. GivenIn(yolo, allow)' /\ GivenIn(snapshot.yolo, snapshot.allow)' /\ GivenIn(flush.cut.yolo, flush.cut.allow)'
    BY <1>1 DEF Given, GivenIn
<1> QED
    BY <1>6, <1>8, <1>9 DEF Given

LEMMA OutsideGiven == ASSUME Base, Given, Outside PROVE Given'
<1> USE DEF memory, disk, history
<1>1. UNCHANGED <<chat, allow, flush, task, snapshot, config, enables>> /\ granted \subseteq granted'
    BY OutsideFrame
<1>2. yolo \in Grants
    BY DEF Base, Typed
<1>3. ASSUME NEW t \in Topic
      PROVE  yolo'[t] \in {yolo[t], None} \/ (t \in granted' /\ yolo'[t].explicit = FALSE)
    <2>1. ASSUME NEW u \in Topic, Research(u)
          PROVE  yolo'[t] \in {yolo[t], None} \/ (t \in granted' /\ yolo'[t].explicit = FALSE)
        BY <1>2, <2>1 DEF Research, Grants
    <2>2. ASSUME NEW c \in Card, Purge(c) PROVE yolo'[t] \in {yolo[t], None}
        BY <1>2, <2>2 DEF Purge, Grants
    <2>3. \/ \E u \in Topic : Research(u)
          \/ \E c \in Card : Purge(c)
          \/ yolo' = yolo
        BY DEF Outside, StartTurn, EndTurn, Carding, Ask, Answer, Request, Tick, vars, quiet
    <2> QED
        BY <2>1, <2>2, <2>3
<1>4. GivenIn(yolo, allow)'
    <2>1. ASSUME NEW t \in Topic
          PROVE  (yolo'[t] # None \/ allow'[t] => t \in granted') /\ (Seeds(yolo'[t]) => enables' > 0)
        BY <1>1, <1>3 DEF Given, GivenIn, Seeds
    <2> QED
        BY <2>1 DEF GivenIn
<1>5. enables' \in {enables, enables + 1} /\ \A p \in Handler : task'[p] = task[p]
    BY <1>1
<1>6. /\ GivenIn(snapshot.yolo, snapshot.allow)' /\ GivenIn(flush.cut.yolo, flush.cut.allow)'
      /\ \A t \in Topic, s \in Session : GivenConfig(t, config[t][s])'
      /\ \A p \in Handler : GivenTask(task[p])'
    BY <1>1, <1>5, GivenStays
<1> QED
    BY <1>4, <1>6 DEF Given

LEMMA FlushGiven ==
    ASSUME Base, Given, FlushCut \/ FlushWrite \/ \E by \in Handler \cup {"timer"} : FlushBegin(by)
    PROVE  Given'
<1> USE DEF memory, disk, history
<1>1. UNCHANGED <<yolo, allow, config, granted, enables>>
    BY WriteMoves DEF FlushCut, FlushBegin, quiet
<1>2. GivenIn(snapshot.yolo, snapshot.allow)' /\ GivenIn(flush.cut.yolo, flush.cut.allow)'
    <2>1. CASE FlushCut
        <3>1. snapshot' = snapshot /\ flush'.cut.yolo = flush.cut.yolo /\ flush'.cut.allow = allow
            BY <2>1 DEF FlushCut, Base, Typed
        <3> QED
            BY <1>1, <3>1 DEF Given, GivenIn
    <2>2. CASE FlushWrite
        <3>1. snapshot' \in {snapshot, flush.cut} /\ flush' = NoFlush
            BY <2>2, WriteMoves
        <3>2. \A t \in Topic : NoFlush.cut.yolo[t] = None /\ NoFlush.cut.allow[t] = FALSE
            BY DEF NoFlush, NoCut
        <3> QED
            BY <1>1, <3>1, <3>2 DEF Given, GivenIn, Seeds
    <2>3. ASSUME NEW by \in Handler \cup {"timer"}, FlushBegin(by)
          PROVE  GivenIn(snapshot.yolo, snapshot.allow)' /\ GivenIn(flush.cut.yolo, flush.cut.allow)'
        <3>1. /\ snapshot' = snapshot /\ flush'.cut.yolo = yolo
              /\ \A t \in Topic : flush'.cut.allow[t] = FALSE
            BY <2>3 DEF FlushBegin, NoCut
        <3> QED
            BY <1>1, <3>1 DEF Given, GivenIn
    <2> QED
        BY <2>1, <2>2, <2>3
<1>3. \A p \in Handler : task'[p] \in {task[p], Idle}
    BY WriteMoves DEF Ended, Ends, FlushCut, FlushBegin
<1>4. ASSUME NEW p \in Handler PROVE GivenTask(task[p])'
    <2>1. GivenTask(task[p]) /\ Idle.pc = "idle"
        BY DEF Given, Idle
    <2> QED
        BY <1>1, <1>3, <2>1 DEF GivenTask, GivenConfig
<1> QED
    BY <1>1, <1>2, <1>4 DEF Given, GivenIn, GivenConfig

LEMMA RestartGiven == ASSUME Base, Given, Restart PROVE Given'
<1> DEFINE state == Restored(config', now')
<1>1. PICK torn \in SUBSET Torn :
         /\ now' \in Time /\ config' = Surviving(torn) /\ config' \in [Topic -> [Session -> Config]]
         /\ state \in Cut /\ yolo' = state.yolo /\ allow' = state.allow
         /\ snapshot' \in {state, snapshot} /\ flush' = NoFlush
         /\ task' = [p \in Handler |-> Idle] /\ UNCHANGED <<saved, enables, granted>>
    BY RestartMoves
<1>2. ASSUME NEW t \in Topic, NEW s \in Session PROVE GivenConfig(t, config'[t][s])
    <2>1. config'[t][s] \in {config[t][s], NoConfig}
        BY <1>1 DEF Surviving
    <2>2. GivenConfig(t, config[t][s]) /\ GivenConfig(t, NoConfig)
        BY DEF Given, GivenConfig, NoConfig
    <2> QED
        BY <2>1, <2>2
<1>3. ASSUME NEW t \in Topic
      PROVE  (state.yolo[t] # None \/ state.allow[t] => t \in granted) /\ (Seeds(state.yolo[t]) => enables > 0)
    <2> DEFINE own == config'[t][Best(t)]
    <2>1. GivenConfig(t, own)
        BY <1>2, BestIsLinked DEF Base, Typed
    <2>2. (snapshot.yolo[t] # None \/ snapshot.allow[t] => t \in granted)
          /\ (Seeds(snapshot.yolo[t]) => enables > 0)
        BY DEF Given, GivenIn
    <2>3. state.yolo[t] = RestoredYolo(t, own.yolo, now') /\ state.allow[t] = (snapshot.allow[t] \/ own.allow)
        BY DEF Restored
    <2> HIDE DEF own, state
    <2>4. state.yolo[t] \in {snapshot.yolo[t], None} \/ own.yolo # None
        BY <2>3 DEF RestoredYolo
    <2> QED
        BY <2>1, <2>2, <2>3, <2>4 DEF GivenConfig, Seeds
<1> HIDE DEF state
<1>4. GivenIn(yolo, allow)' /\ GivenIn(snapshot.yolo, snapshot.allow)'
    BY <1>1, <1>3 DEF Given, GivenIn
<1>5. GivenIn(flush.cut.yolo, flush.cut.allow)'
    <2>1. \A t \in Topic : NoFlush.cut.yolo[t] = None /\ NoFlush.cut.allow[t] = FALSE
        BY DEF NoFlush, NoCut
    <2> QED
        BY <1>1, <2>1 DEF GivenIn, Seeds
<1>6. \A p \in Handler : GivenTask(task[p])'
    <2>1. \A p \in Handler : task'[p].pc = "idle"
        BY <1>1 DEF Idle
    <2> QED
        BY <2>1 DEF GivenTask
<1>7. \A t \in Topic, s \in Session : GivenConfig(t, config[t][s])'
    BY <1>1, <1>2 DEF GivenConfig
<1> QED
    BY <1>4, <1>5, <1>6, <1>7 DEF Given

LEMMA GivenNext == Base /\ Given /\ [Next]_vars => Given'
<1> SUFFICES ASSUME Base, Given, [Next]_vars PROVE Given'
    OBVIOUS
<1>1. ASSUME NEW p \in Handler, StepOf(p) PROVE Given'
    BY <1>1, StartedGiven, EnablingGiven, ClearingGiven, LoadGiven, StoreGiven DEF StepOf, Clearing
<1> QED
    BY <1>1, FlushGiven, OutsideGiven, RestartGiven, NextIsOneOf

-----------------------------------------------------------------------------
(* The count of enables *)

LEMMA BlankEarned == ASSUME Base PROVE Earned(NoRow)
BY DEF Earned, NoRow, PermanentAfter, Base, Typed

LEMMA RowsTyped ==
    ASSUME Base
    PROVE  /\ chat \in PlainRow /\ snapshot.chat \in PlainRow /\ flush.cut.chat \in PlainRow
           /\ enables \in Nat
BY DEF Base, Typed, Stored, Cut

\* No step but one that makes an enable adds to those that are not counted yet.
LEMMA UncountedShrinks ==
    ASSUME Counted, \A p \in Handler : task'[p].pc = "count" => task[p].pc = "count"
    PROVE  /\ IsFiniteSet(Uncounted') /\ Cardinality(Uncounted') \in Nat
           /\ Cardinality(Uncounted) \in Nat /\ Cardinality(Uncounted') <= Cardinality(Uncounted)
<1>1. Uncounted' \subseteq Uncounted /\ IsFiniteSet(Uncounted)
    BY DEF Uncounted, Counted
<1> HIDE DEF Uncounted
<1> QED
    BY <1>1, FS_Subset, FS_CardinalityType

\* A step of a task that is neither an enable nor its count.
LEMMA CountedByTask ==
    ASSUME Base, Counted, NEW p \in Handler, StepOf(p), chat' \in {chat, NoRow}, enables' = enables,
           task'[p].pc # "count", task'[p].permanent => task[p].permanent
    PROVE  Counted'
<1>1. /\ \A q \in Handler \ {p} : task'[q] = task[q]
      /\ UNCHANGED <<flush, snapshot>>
    BY TaskFrame
<1>2. \A q \in Handler : task'[q].pc = "count" => task[q].pc = "count"
    BY <1>1
<1>3. /\ IsFiniteSet(Uncounted') /\ Cardinality(Uncounted') \in Nat
      /\ Cardinality(Uncounted) \in Nat /\ Cardinality(Uncounted') <= Cardinality(Uncounted)
    BY <1>2, UncountedShrinks
<1>4. chat'.count <= chat.count /\ chat'.count \in Nat /\ chat.count \in Nat /\ Earned(chat)'
    BY BlankEarned, RowsTyped DEF Counted, Earned, NoRow, PlainRow
<1>5. chat.count + Cardinality(Uncounted) <= enables
    BY DEF Counted
<1>6. chat'.count + Cardinality(Uncounted') <= enables'
    <2> DEFINE m == Cardinality(Uncounted)
               n == Cardinality(Uncounted')
    <2>1. m \in Nat /\ n \in Nat /\ n <= m /\ chat.count + m <= enables
        BY <1>3, <1>5
    <2> HIDE DEF m, n
    <2>2. chat'.count + n <= enables'
        BY <1>4, <2>1, RowsTyped
    <2> QED
        BY <2>2 DEF n
<1>7. Earned(snapshot.chat)' /\ Earned(flush.cut.chat)'
    BY <1>1 DEF Counted, Earned
<1>8. \A q \in Handler : task'[q].permanent => enables' >= PermanentAfter
    BY <1>1 DEF Counted
<1> QED
    BY <1>3, <1>4, <1>6, <1>7, <1>8 DEF Counted

\* Yolo and GrantTap: one enable more, and one more to be counted.
LEMMA CountedByEnable ==
    ASSUME Base, Counted, NEW p \in Handler, StepOf(p), chat' = chat, enables' = enables + 1,
           task[p].pc # "count", task'[p].pc = "count", task'[p].permanent = FALSE
    PROVE  Counted'
<1>1. /\ \A q \in Handler \ {p} : task'[q] = task[q]
      /\ UNCHANGED <<flush, snapshot>>
    BY TaskFrame
<1>2. Uncounted' = Uncounted \cup {p} /\ p \notin Uncounted /\ IsFiniteSet(Uncounted)
    BY <1>1 DEF Uncounted, Counted
<1> DEFINE n == Cardinality(Uncounted)
<1>3. /\ IsFiniteSet(Uncounted') /\ Cardinality(Uncounted') = n + 1 /\ n \in Nat
      /\ chat.count + n <= enables
    <2> DEFINE U == Uncounted
               V == Uncounted'
    <2>1. V = U \cup {p} /\ p \notin U /\ IsFiniteSet(U)
        BY <1>2
    <2> HIDE DEF U, V
    <2>2. IsFiniteSet(V) /\ Cardinality(V) = Cardinality(U) + 1 /\ Cardinality(U) \in Nat
        BY <2>1, FS_AddElement, FS_CardinalityType
    <2> QED
        BY <2>2 DEF U, V, Counted
<1> HIDE DEF n
<1>4. chat'.count + Cardinality(Uncounted') <= enables'
    <2> DEFINE m == Cardinality(Uncounted')
    <2>1. m = n + 1
        BY <1>3
    <2> HIDE DEF m
    <2>2. chat'.count + m <= enables'
        BY <1>3, <2>1, RowsTyped DEF PlainRow
    <2> QED
        BY <2>2 DEF m
<1>5. Earned(chat)' /\ Earned(snapshot.chat)' /\ Earned(flush.cut.chat)'
    BY <1>1, RowsTyped DEF Counted, Earned, PlainRow
<1>6. \A q \in Handler : task'[q].permanent => enables' >= PermanentAfter
    BY <1>1, RowsTyped DEF Counted, PermanentAfter
<1> QED
    BY <1>3, <1>4, <1>5, <1>6 DEF Counted

LEMMA CountCounted == ASSUME Base, Counted, NEW p \in Handler, Count(p) PROVE Counted'
<1> USE DEF memory, disk, history
<1>1. /\ \A q \in Handler \ {p} : task'[q] = task[q]
      /\ UNCHANGED <<flush, snapshot, enables>> /\ task[p].pc = "count"
    BY TaskFrame DEF StepOf, Enabling, Count
<1>2. task'[p].pc = "load" /\ task'[p].permanent = chat'.permanent
    BY Loading DEF Altered, Alters
<1>3. Uncounted' = Uncounted \ {p} /\ p \in Uncounted /\ IsFiniteSet(Uncounted)
    BY <1>1, <1>2 DEF Uncounted, Counted
<1> DEFINE n == Cardinality(Uncounted')
<1>4. /\ IsFiniteSet(Uncounted') /\ Cardinality(Uncounted) = n + 1 /\ n \in Nat
      /\ chat.count + (n + 1) <= enables
    <2> DEFINE U == Uncounted
               V == Uncounted'
    <2>1. V = U \ {p} /\ p \in U /\ IsFiniteSet(U) /\ chat.count + Cardinality(U) <= enables
        BY <1>3 DEF Counted
    <2> HIDE DEF U, V
    <2>2. IsFiniteSet(V) /\ Cardinality(V) = Cardinality(U) - 1 /\ Cardinality(U) \in Nat /\ Cardinality(V) \in Nat
        BY <2>1, FS_RemoveElement, FS_CardinalityType
    <2>3. Cardinality(U) = Cardinality(V) + 1
        BY <2>2
    <2> QED
        BY <2>1, <2>2, <2>3 DEF U, V
<1>5. n = Cardinality(Uncounted')
    OBVIOUS
<1> HIDE DEF n
<1>6. /\ chat'.count \in {chat.count, chat.count + 1} /\ chat.count \in Nat
      /\ chat'.permanent <=> chat'.count >= PermanentAfter
    <2> DEFINE k == chat.count
               old == chat.permanent
    <2>1. k \in Nat /\ old \in BOOLEAN /\ (old <=> k >= PermanentAfter)
        BY RowsTyped DEF Counted, Earned, PlainRow
    <2>2. \/ chat' = chat
          \/ /\ chat'.count = k + 1
             /\ chat'.permanent <=> (old \/ k + 1 >= PermanentAfter)
        BY DEF Count, Escalated
    <2> HIDE DEF Counted
    <2>3. CASE chat' = chat
        BY <2>1, <2>3
    <2>4. CASE /\ chat'.count = k + 1
               /\ chat'.permanent <=> (old \/ k + 1 >= PermanentAfter)
        <3> DEFINE c == chat'.count
                   new == chat'.permanent
        <3>1. c = k + 1 /\ (new <=> (old \/ k + 1 >= PermanentAfter))
            BY <2>4
        <3> HIDE DEF c, new, k, old
        <3>2. new <=> c >= PermanentAfter
            BY <2>1, <3>1 DEF PermanentAfter
        <3> QED
            BY <2>1, <3>1, <3>2 DEF c, new, k, old
    <2> QED
        BY <2>2, <2>3, <2>4
<1>7. chat'.count + n <= enables /\ chat'.count <= enables
    BY <1>4, <1>6, RowsTyped
<1>8. Earned(chat)' /\ Earned(snapshot.chat)' /\ Earned(flush.cut.chat)'
    BY <1>1, <1>6, <1>7 DEF Counted, Earned
<1>9. \A q \in Handler : task'[q].permanent => enables' >= PermanentAfter
    <2>1. chat'.permanent => enables >= PermanentAfter
        BY <1>6, <1>7, RowsTyped DEF PermanentAfter
    <2> QED
        BY <1>1, <1>2, <2>1 DEF Counted
<1>10. chat'.count + Cardinality(Uncounted') <= enables'
    BY <1>1, <1>5, <1>7
<1> QED
    BY <1>4, <1>8, <1>9, <1>10 DEF Counted

LEMMA TaskCounted == ASSUME Base, Counted, NEW p \in Handler, StepOf(p) PROVE Counted'
<1> USE DEF memory, disk, history
<1>0. task[p].permanent \in BOOLEAN
    BY TaskFields
<1>1. ASSUME NEW t \in Topic, Started(p, t) PROVE Counted'
    <2>1. CASE Yolo(p, t)
        <3>1. Opened(p, "yolo", t, "count", None, None)
            BY <2>1, Opening
        <3>2. chat' = chat /\ enables' = enables + 1 /\ task[p].pc # "count"
            BY <2>1 DEF Yolo, Enable, Command
        <3>3. task'[p].pc = "count" /\ task'[p].permanent = FALSE
            BY <3>1 DEF Opened, Opens
        <3> QED
            BY <3>2, <3>3, CountedByEnable
    <2>2. CASE Off(p, t) \/ New(p, t) \/ \E name \in {"add", "remove"} : Allow(p, t, name)
        <3>1. chat' \in {chat, NoRow} /\ enables' = enables
            BY <2>2 DEF Off, New, Allow
        <3>2. task'[p].pc # "count" /\ task'[p].permanent = FALSE
            <4>1. ASSUME Off(p, t) PROVE Opened(p, "off", t, "clear_topics", None, None)
                BY <4>1, Opening
            <4>2. ASSUME New(p, t)
                  PROVE  Opened(p, "new", t, "set", <<t, Len(saved[t].recent) + 1>>, None)
                BY <4>2, Opening
            <4>3. ASSUME NEW name \in {"add", "remove"}, Allow(p, t, name)
                  PROVE  Opened(p, name, t, "load", None, None)
                BY <4>3, Opening
            <4> QED
                BY <2>2, <4>1, <4>2, <4>3 DEF Opened, Opens
        <3> QED
            BY <3>1, <3>2, CountedByTask
    <2> QED
        BY <1>1, <2>1, <2>2 DEF Started
<1>2. ASSUME NEW c \in Card, TapYolo(p, c) PROVE Counted'
    <2>1. cards[c].topic \in Topic
        BY <1>2 DEF TapYolo, Base, CardTopics
    <2>2. Opened(p, "yolo", cards[c].topic, "grant", None, c)
        BY <1>2, <2>1, Opening
    <2>3. task'[p].pc # "count" /\ task'[p].permanent = FALSE
        BY <2>2 DEF Opened, Opens
    <2>4. UNCHANGED <<chat, enables>>
        BY <1>2 DEF TapYolo
    <2> QED
        BY <2>3, <2>4, CountedByTask
<1>3. CASE GrantTap(p)
    <2>1. task[p].pc = "grant" /\ task[p].permanent = FALSE
        BY <1>0, <1>3, TaskFields DEF GrantTap, Formed
    <2>2. Moved(p, "count")
        BY <1>3, Moving
    <2>3. task'[p].pc = "count" /\ task'[p].permanent = FALSE
        BY <2>1, <2>2 DEF Moved, Altered, Alters
    <2>4. chat' = chat /\ enables' = enables + 1
        BY <1>3 DEF GrantTap, Enable
    <2> QED
        BY <2>1, <2>3, <2>4, CountedByEnable
<1>4. CASE Count(p)
    BY <1>4, CountCounted
<1>5. CASE Approve(p) \/ Clearing(p) \/ Renewing(p) \/ Load(p) \/ Store(p)
    <2>1. UNCHANGED <<chat, enables>>
        BY <1>5 DEF Approve, Clearing, ClearTopics, Deny, LoadNext, Renewing, Set, Disable, Link, Load, Store
    <2>2. \/ \E pc \in TaskState \ {"count"} : \E session, edited, left :
                Altered(p, pc, task[p].permanent, session, edited, left)
          \/ Ended(p)
        <3>1. CASE Load(p) \/ LoadNext(p)
            BY <3>1, Loading DEF Loads, TaskState
        <3>2. CASE Deny(p)
            BY <3>2, Loading DEF TaskState
        <3>3. CASE Approve(p)
            BY <3>3, Moving DEF Moved, TaskState
        <3>4. CASE Store(p)
            BY <3>4, Moving DEF Moved, TaskState
        <3>5. CASE ClearTopics(p) \/ Renewing(p)
            BY <3>5, Moving DEF Moved, TaskState, Renewing
        <3> QED
            BY <1>5, <3>1, <3>2, <3>3, <3>4, <3>5 DEF Clearing
    <2>3. task'[p].pc # "count" /\ (task'[p].permanent => task[p].permanent)
        BY <2>2 DEF Altered, Alters, Ended, Ends, Idle
    <2> QED
        BY <2>1, <2>3, CountedByTask
<1> QED
    BY <1>1, <1>2, <1>3, <1>4, <1>5 DEF StepOf, Enabling

LEMMA RestartCounted == ASSUME Base, Given, Counted, Restart PROVE Counted'
<1> DEFINE state == Restored(config', now')
<1>1. PICK torn \in SUBSET Torn :
         /\ now' \in Time /\ config' = Surviving(torn) /\ config' \in [Topic -> [Session -> Config]]
         /\ state \in Cut /\ yolo' = state.yolo /\ chat' = state.chat
         /\ snapshot' \in {state, snapshot} /\ flush' = NoFlush
         /\ task' = [p \in Handler |-> Idle] /\ UNCHANGED <<saved, enables, granted>>
    BY RestartMoves
<1>2. GivenIn(yolo, allow)'
    BY RestartGiven DEF Given
<1>3. state.chat = Seeded(snapshot.chat, state.yolo)
    BY DEF Restored
<1> HIDE DEF state
<1>4. (\E t \in Topic : Seeds(state.yolo[t])) => enables > 0
    BY <1>1, <1>2 DEF GivenIn, Seeds
<1>5. Earned(state.chat)
    <2>1. CASE state.chat = snapshot.chat
        BY <2>1 DEF Counted
    <2>2. CASE state.chat # snapshot.chat
        <3>1. state.chat = [NoRow EXCEPT !.count = 1] /\ enables > 0
            BY <1>3, <1>4, <2>2 DEF Seeded
        <3> QED
            BY <3>1, RowsTyped DEF Earned, NoRow, PermanentAfter
    <2> QED
        BY <2>1, <2>2
<1>6. Earned(chat)' /\ Earned(snapshot.chat)'
    BY <1>1, <1>5 DEF Counted, Earned
<1>7. Earned(flush.cut.chat)'
    BY <1>1, BlankEarned DEF NoFlush, NoCut, Earned
<1>8. Uncounted' = {}
    BY <1>1 DEF Uncounted, Idle
<1>9. IsFiniteSet(Uncounted') /\ Cardinality(Uncounted') = 0
    BY <1>8, FS_EmptySet
<1>10. chat'.count \in Nat
    BY <1>1, RestartBase, RowsTyped DEF Cut, PlainRow
<1>11. chat'.count + Cardinality(Uncounted') <= enables'
    BY <1>6, <1>9, <1>10 DEF Earned
<1>12. \A p \in Handler : ~task'[p].permanent
    BY <1>1 DEF Idle
<1> QED
    BY <1>6, <1>7, <1>9, <1>11, <1>12 DEF Counted

LEMMA OtherCounted ==
    ASSUME Base, Counted,
           Outside \/ FlushCut \/ FlushWrite \/ \E by \in Handler \cup {"timer"} : FlushBegin(by)
    PROVE  Counted'
<1> USE DEF memory, disk, history
<1>1. UNCHANGED <<chat, enables>> /\ \A p \in Handler : task'[p] \in {task[p], Idle}
    BY OutsideFrame, WriteMoves DEF Ended, Ends, FlushCut, FlushBegin, quiet
<1>2. Idle.pc = "idle" /\ Idle.permanent = FALSE
    BY DEF Idle
<1>3. \A p \in Handler : task'[p].pc = "count" => task[p].pc = "count"
    BY <1>1, <1>2
<1>4. /\ IsFiniteSet(Uncounted') /\ Cardinality(Uncounted') \in Nat
      /\ Cardinality(Uncounted) \in Nat /\ Cardinality(Uncounted') <= Cardinality(Uncounted)
    BY <1>3, UncountedShrinks
<1>5. chat.count + Cardinality(Uncounted) <= enables
    BY DEF Counted
<1>6. chat'.count + Cardinality(Uncounted') <= enables'
    <2> DEFINE m == Cardinality(Uncounted)
               n == Cardinality(Uncounted')
    <2>1. m \in Nat /\ n \in Nat /\ n <= m /\ chat.count + m <= enables
        BY <1>4, <1>5
    <2> HIDE DEF m, n
    <2>2. chat'.count + n <= enables'
        BY <1>1, <2>1, RowsTyped DEF PlainRow
    <2> QED
        BY <2>2 DEF n
<1>7. Earned(chat)' /\ \A p \in Handler : task'[p].permanent => enables' >= PermanentAfter
    BY <1>1, <1>2 DEF Counted, Earned
<1>8. Earned(snapshot.chat)' /\ Earned(flush.cut.chat)'
    <2>1. CASE Outside
        BY <1>1, <2>1, OutsideFrame DEF Counted, Earned
    <2>2. CASE FlushCut
        <3>1. /\ snapshot' = snapshot /\ flush'.cut.chat.count = chat.count
              /\ flush'.cut.chat.permanent = chat.permanent
            BY <2>2, RowsTyped DEF FlushCut, Base, Typed, PlainRow
        <3> QED
            BY <1>1, <3>1 DEF Counted, Earned
    <2>3. CASE FlushWrite
        <3>1. snapshot' \in {snapshot, flush.cut} /\ flush' = NoFlush
            BY <2>3, WriteMoves
        <3> QED
            BY <1>1, <3>1, BlankEarned DEF Counted, Earned, NoFlush, NoCut
    <2>4. ASSUME NEW by \in Handler \cup {"timer"}, FlushBegin(by)
          PROVE  Earned(snapshot.chat)' /\ Earned(flush.cut.chat)'
        <3>1. snapshot' = snapshot /\ flush'.cut.chat = NoRow
            BY <2>4 DEF FlushBegin, NoCut
        <3> QED
            BY <1>1, <3>1, BlankEarned DEF Counted, Earned
    <2> QED
        BY <2>1, <2>2, <2>3, <2>4
<1> QED
    BY <1>4, <1>6, <1>7, <1>8 DEF Counted

LEMMA CountedNext == Base /\ Given /\ Counted /\ [Next]_vars => Counted'
BY TaskCounted, OtherCounted, RestartCounted, NextIsOneOf

-----------------------------------------------------------------------------
(* Cards *)

Consented(r) ==
    r.state = "allowed" /\ ~r.tapped => r.topic \in granted \/ enables >= PermanentAfter

\* Consent that was there is there for good.
LEMMA ConsentStays ==
    ASSUME Base, ApprovalHasConsent, granted \subseteq granted', enables' \in {enables, enables + 1},
           NEW c \in Card, cards'[c] = cards[c]
    PROVE  Consented(cards[c])'
BY RowsTyped DEF ApprovalHasConsent, Consented, PermanentAfter

LEMMA ConsentByCard ==
    ASSUME Base, ApprovalHasConsent, granted \subseteq granted', enables' \in {enables, enables + 1},
           \A c \in Card : cards'[c] = cards[c] \/ Consented(cards[c])'
    PROVE  ApprovalHasConsent'
<1>1. ASSUME NEW c \in Card PROVE Consented(cards[c])'
    BY ConsentStays
<1> QED
    BY <1>1 DEF ApprovalHasConsent, Consented

LEMMA ApproveConsent ==
    ASSUME Base, Given, Counted, ApprovalHasConsent, NEW p \in Handler, Approve(p)
    PROVE  ApprovalHasConsent'
<1> USE DEF memory, disk, history
<1>1. UNCHANGED <<granted, enables>> /\ task[p].pc = "approve" /\ task[p].command = "yolo"
    BY TaskFields DEF Approve, Formed
<1>2. task[p].topic \in granted /\ (task[p].permanent => enables >= PermanentAfter)
    BY <1>1 DEF Given, GivenTask, Counted
<1>3. ASSUME NEW c \in Card, c \in Drained(p) PROVE Consented(cards[c])'
    <2>1. cards'[c].topic = cards[c].topic
        BY <1>3 DEF Approve, Base, Typed, CardRecord
    <2>2. task[p].permanent \/ task[p].topic = cards[c].topic
        BY <1>3 DEF Drained, Covers
    <2> QED
        BY <1>1, <1>2, <2>1, <2>2 DEF Consented
<1>4. \A c \in Card : cards'[c] = cards[c] \/ Consented(cards[c])'
    BY <1>3 DEF Approve
<1> QED
    BY <1>1, <1>4, ConsentByCard

LEMMA CardConsent ==
    ASSUME Base, Given, Counted, ApprovalHasConsent, NEW c \in Card,
           Carding(c) \/ \E t \in Topic : Request(c, t)
    PROVE  ApprovalHasConsent'
<1> USE DEF memory, disk, history
<1>0. UNCHANGED <<granted, enables>> /\ cards \in [Card -> CardRecord] /\ cards[c] \in CardRecord
    BY DEF Carding, Purge, Ask, Answer, Request, Base, Typed
<1>1. \A d \in Card \ {c} : cards'[d] = cards[d]
    BY <1>0 DEF Carding, Purge, Ask, Answer, Request, SetCard
<1>2. chat.permanent => enables >= PermanentAfter
    BY RowsTyped DEF Counted, Earned, PlainRow, PermanentAfter
<1>3. Consented(cards[c])'
    <2>1. CASE Purge(c)
        <3>1. cards[c].topic \in Topic
            BY <2>1 DEF Purge, Base, CardTopics
        <3>2. cards'[c].topic = cards[c].topic /\ (cards'[c].state = "allowed" => allow[cards[c].topic])
            BY <1>0, <2>1 DEF Purge, SetCard, CardRecord
        <3> QED
            BY <1>0, <3>1, <3>2 DEF Consented, Given, GivenIn
    <2>2. CASE Ask(c)
        <3>1. cards'[c].state = "pending"
            BY <1>0, <2>2 DEF Ask, SetCard, CardRecord
        <3> QED
            BY <3>1 DEF Consented
    <2>3. ASSUME NEW state \in {"allowed", "denied"}, Answer(c, state) PROVE Consented(cards[c])'
        <3>1. cards'[c].state = state /\ cards'[c].tapped = (state = "allowed")
            BY <1>0, <2>3 DEF Answer, CardRecord
        <3> QED
            BY <3>1 DEF Consented
    <2>4. ASSUME NEW t \in Topic, Request(c, t) PROVE Consented(cards[c])'
        <3>1. /\ cards'[c].topic = t
              /\ cards'[c].state = "allowed" => chat.permanent \/ yolo[t] # None \/ allow[t]
            BY <1>0, <2>4 DEF Request, CardRecord, Active
        <3> QED
            BY <1>0, <1>2, <3>1 DEF Consented, Given, GivenIn
    <2> QED
        BY <2>1, <2>2, <2>3, <2>4 DEF Carding
<1> QED
    BY <1>0, <1>1, <1>3, ConsentByCard

LEMMA ConsentNext ==
    Base /\ Given /\ Counted /\ ApprovalHasConsent /\ [Next]_vars => ApprovalHasConsent'
<1> SUFFICES ASSUME Base, Given, Counted, ApprovalHasConsent, [Next]_vars PROVE ApprovalHasConsent'
    OBVIOUS
<1> USE DEF memory, disk, history
<1>0. cards \in [Card -> CardRecord]
    BY DEF Base, Typed
<1>1. ASSUME NEW p \in Handler, StepOf(p) PROVE ApprovalHasConsent'
    <2>1. granted \subseteq granted' /\ enables' \in {enables, enables + 1}
        BY <1>1, TaskFrame
    <2>2. CASE Approve(p)
        BY <2>2, ApproveConsent
    <2>3. ASSUME NEW d \in Card, TapYolo(p, d) PROVE ApprovalHasConsent'
        <3>1. cards'[d].tapped = TRUE /\ \A c \in Card \ {d} : cards'[c] = cards[c]
            BY <1>0, <2>3 DEF TapYolo, CardRecord
        <3>2. Consented(cards[d])'
            BY <3>1 DEF Consented
        <3> QED
            BY <2>1, <3>1, <3>2, ConsentByCard
    <2>4. CASE Deny(p)
        <3>1. \A c \in Card : cards'[c] = cards[c] \/ cards'[c].state = "denied"
            BY <1>0, <2>4 DEF Deny, CardRecord
        <3>2. \A c \in Card : cards'[c] = cards[c] \/ Consented(cards[c])'
            BY <3>1 DEF Consented
        <3> QED
            BY <2>1, <3>2, ConsentByCard
    <2>5. CASE cards' = cards
        BY <2>1, <2>5, ConsentByCard
    <2>6. Approve(p) \/ (\E d \in Card : TapYolo(p, d)) \/ Deny(p) \/ cards' = cards
        BY <1>1 DEF StepOf, Started, Yolo, Enable, Off, New, Allow, Enabling, GrantTap, Count, Clearing,
           ClearTopics, LoadNext, Renewing, Set, Disable, Link, Load, Store
    <2> QED
        BY <2>2, <2>3, <2>4, <2>5, <2>6
<1>2. ASSUME NEW c \in Card, Carding(c) \/ \E t \in Topic : Request(c, t) PROVE ApprovalHasConsent'
    BY <1>2, CardConsent
<1>3. CASE cards' = cards /\ granted \subseteq granted' /\ enables' = enables
    BY <1>3, ConsentByCard
<1>4. CASE Outside
    <2>1. \/ \E c \in Card : Carding(c) \/ \E t \in Topic : Request(c, t)
          \/ cards' = cards
        BY <1>4 DEF Outside, Research, StartTurn, EndTurn, Tick, vars
    <2> QED
        BY <1>2, <1>3, <1>4, <2>1, OutsideFrame
<1>5. CASE FlushCut \/ FlushWrite \/ \E by \in Handler \cup {"timer"} : FlushBegin(by)
    BY <1>3, <1>5, WriteMoves DEF FlushCut, FlushBegin, quiet
<1>6. CASE Restart
    <2>1. \A c \in Card : cards'[c] = cards[c] \/ cards'[c].state = "lost"
        BY <1>0, <1>6 DEF Restart, CardRecord
    <2>2. \A c \in Card : cards'[c] = cards[c] \/ Consented(cards[c])'
        BY <2>1 DEF Consented
    <2>3. UNCHANGED <<granted, enables>>
        BY <1>6 DEF Restart
    <2> QED
        BY <2>2, <2>3, ConsentByCard
<1> QED
    BY <1>1, <1>4, <1>5, <1>6, NextIsOneOf

-----------------------------------------------------------------------------
(* What was taken back *)

LEMMA WithdrawnByTask ==
    ASSUME Base, Withdrawn, NEW p \in Handler, StepOf(p), revoked' \subseteq revoked,
           \A t \in revoked' : Barred(t)' /\ ~Enables(task'[p], t)
    PROVE  Withdrawn'
<1>1. \A q \in Handler \ {p} : task'[q] = task[q]
    BY TaskFrame
<1>2. ASSUME NEW t \in revoked', NEW q \in Handler PROVE ~Enables(task'[q], t)
    BY <1>1 DEF Withdrawn
<1> QED
    BY <1>2 DEF Withdrawn

LEMMA WithdrawnStarted ==
    ASSUME Base, Withdrawn, NEW p \in Handler, NEW t \in Topic, Started(p, t) PROVE Withdrawn'
<1> USE DEF memory, disk, history
<1>0. StepOf(p) /\ yolo \in Grants /\ allow \in Allowing
    BY DEF StepOf, Base, Typed
<1>1. CASE Yolo(p, t)
    <2>1. Opened(p, "yolo", t, "count", None, None)
        BY <1>1, Opening
    <2>2. revoked' = revoked \ {t} /\ UNCHANGED <<chat, allow>> /\ yolo' = [yolo EXCEPT ![t] = [at |-> now, explicit |-> TRUE]]
        BY <1>1 DEF Yolo, Enable
    <2>3. ASSUME NEW u \in revoked' PROVE Barred(u)' /\ ~Enables(task'[p], u)
        BY <1>0, <2>1, <2>2 DEF Withdrawn, Barred, Enables, Opened, Opens, Grants
    <2> QED
        BY <1>0, <2>2, <2>3, WithdrawnByTask
<1>2. CASE Off(p, t)
    <2>1. Opened(p, "off", t, "clear_topics", None, None)
        BY <1>2, Opening
    <2>2. UNCHANGED <<revoked, yolo, allow>> /\ chat' = NoRow
        BY <1>2 DEF Off
    <2>3. ASSUME NEW u \in revoked' PROVE Barred(u)' /\ ~Enables(task'[p], u)
        BY <2>1, <2>2 DEF Withdrawn, Barred, Enables, Opened, Opens, NoRow
    <2> QED
        BY <1>0, <2>2, <2>3, WithdrawnByTask
<1>3. CASE New(p, t)
    <2>1. Opened(p, "new", t, "set", <<t, Len(saved[t].recent) + 1>>, None)
        BY <1>3, Opening
    <2>2. UNCHANGED <<revoked, yolo, allow, chat>>
        BY <1>3 DEF New
    <2>3. ASSUME NEW u \in revoked' PROVE Barred(u)' /\ ~Enables(task'[p], u)
        BY <2>1, <2>2 DEF Withdrawn, Barred, Enables, Opened, Opens
    <2> QED
        BY <1>0, <2>2, <2>3, WithdrawnByTask
<1>4. ASSUME NEW name \in {"add", "remove"}, Allow(p, t, name) PROVE Withdrawn'
    <2>1. Opened(p, name, t, "load", None, None)
        BY <1>4, Opening
    <2>2. /\ UNCHANGED <<yolo, chat>> /\ allow' = [allow EXCEPT ![t] = (name = "add")]
          /\ revoked' = IF name = "add" THEN revoked \ {t} ELSE revoked
        BY <1>4 DEF Allow
    <2>3. ASSUME NEW u \in revoked' PROVE Barred(u)' /\ ~Enables(task'[p], u)
        <3>1. u \in revoked /\ u \in Topic /\ ~allow[u]
            BY <2>2 DEF Withdrawn, Barred
        <3>2. ~allow'[u]
            BY <1>0, <2>2, <3>1 DEF Allowing
        <3>3. ~Enables(task'[p], u)
            BY <2>1 DEF Enables, Opened, Opens
        <3> QED
            BY <2>2, <3>1, <3>2, <3>3 DEF Withdrawn, Barred
    <2>4. revoked' \subseteq revoked
        BY <2>2
    <2> QED
        BY <1>0, <2>3, <2>4, WithdrawnByTask
<1> QED
    BY <1>1, <1>2, <1>3, <1>4 DEF Started

\* A task that goes on, or ends, enables nothing that it did not enable before.
LEMMA GoesOn ==
    ASSUME Base, NEW p \in Handler, NEW t,
           \/ task'[p] = Idle
           \/ /\ task'[p].command = task[p].command /\ task'[p].topic = task[p].topic
              /\ task'[p].permanent = task[p].permanent /\ task[p].pc \notin {"idle", "grant"},
           ~Enables(task[p], t)
    PROVE  ~Enables(task'[p], t)
BY DEF Enables, Idle

LEMMA WithdrawnEnabling ==
    ASSUME Base, Withdrawn, NEW p \in Handler, Enabling(p) PROVE Withdrawn'
<1> USE DEF memory, disk, history
<1>0. StepOf(p) /\ yolo \in Grants /\ Formed(task[p])
    BY TaskFields DEF StepOf, Base, Typed
<1>1. CASE GrantTap(p)
    <2>1. Moved(p, "count") /\ task[p].pc = "grant"
        BY <1>1, Moving DEF GrantTap
    <2>2. /\ revoked' = revoked \ {task[p].topic} /\ UNCHANGED <<chat, allow>>
          /\ yolo' = [yolo EXCEPT ![task[p].topic] = [at |-> now, explicit |-> TRUE]]
        BY <1>1 DEF GrantTap, Enable
    <2>3. ~task[p].permanent
        BY <1>0, <2>1 DEF Formed
    <2>4. ASSUME NEW u \in revoked' PROVE Barred(u)' /\ ~Enables(task'[p], u)
        BY <1>0, <2>1, <2>2, <2>3 DEF Withdrawn, Barred, Enables, Moved, Altered, Alters, Grants
    <2> QED
        BY <1>0, <2>2, <2>4, WithdrawnByTask
<1>2. CASE Count(p)
    <2>1. /\ Altered(p, "load", chat'.permanent, task[p].session, task[p].edited, task[p].left)
          /\ task[p].pc = "count" /\ task[p].command = "yolo"
        BY <1>0, <1>2, Loading DEF Count, Formed
    <2>2. UNCHANGED <<yolo, allow>> /\ revoked' = IF chat'.permanent THEN {} ELSE revoked
        BY <1>2 DEF Count
    <2>3. ASSUME NEW u \in revoked' PROVE Barred(u)' /\ ~Enables(task'[p], u)
        <3>1. u \in revoked /\ ~chat'.permanent
            BY <2>2
        <3>2. task[p].topic # u
            BY <2>1, <3>1 DEF Withdrawn, Enables
        <3>3. task'[p].topic = task[p].topic /\ task'[p].permanent = chat'.permanent
            BY <2>1 DEF Altered, Alters
        <3> QED
            BY <2>2, <3>1, <3>2, <3>3 DEF Withdrawn, Barred, Enables
    <2>4. revoked' \subseteq revoked
        BY <2>2
    <2> QED
        BY <1>0, <2>3, <2>4, WithdrawnByTask
<1>3. CASE Approve(p)
    <2>1. UNCHANGED <<yolo, allow, chat, revoked>> /\ task[p].pc = "approve"
        BY <1>3 DEF Approve
    <2>2. Moved(p, "flush") \/ Ended(p)
        BY <1>3, Moving
    <2>3. ASSUME NEW u \in revoked' PROVE Barred(u)' /\ ~Enables(task'[p], u)
        BY <2>1, <2>2, GoesOn DEF Withdrawn, Barred, Moved, Altered, Alters, Ended, Ends
    <2> QED
        BY <1>0, <2>1, <2>3, WithdrawnByTask
<1> QED
    BY <1>1, <1>2, <1>3 DEF Enabling

LEMMA WithdrawnClearing ==
    ASSUME Base, Withdrawn, NEW p \in Handler, ClearTopics(p) PROVE Withdrawn'
<1> USE DEF memory, disk, history
<1>1. StepOf(p) /\ Moved(p, "deny") /\ task[p].pc = "clear_topics"
    BY Moving DEF StepOf, Clearing, ClearTopics
<1>2. /\ UNCHANGED <<chat, allow>> /\ revoked' = TakenBack
      /\ \A t \in Topic : yolo'[t] = None
    BY DEF ClearTopics, Cleared
<1>3. CASE revoked' = revoked
    <2>1. ASSUME NEW u \in revoked' PROVE Barred(u)' /\ ~Enables(task'[p], u)
        BY <1>1, <1>2, <1>3, GoesOn DEF Withdrawn, Barred, Moved, Altered, Alters
    <2> QED
        BY <1>1, <1>3, <2>1, WithdrawnByTask
<1>4. CASE /\ chat = NoRow /\ \A q \in Handler : task[q].command # "yolo"
           /\ revoked' = {t \in Topic : ~allow[t]}
    <2>1. \A q \in Handler : task'[q].command = task[q].command
        BY <1>1 DEF Moved, Altered, Alters
    <2>2. ASSUME NEW u \in revoked' PROVE Barred(u)' /\ \A q \in Handler : ~Enables(task'[q], u)
        BY <1>2, <1>4, <2>1 DEF Barred, Enables, NoRow
    <2> QED
        BY <1>4, <2>2 DEF Withdrawn
<1> QED
    BY <1>2, <1>3, <1>4 DEF TakenBack

LEMMA WithdrawnOn ==
    ASSUME Base, Withdrawn, NEW p \in Handler,
           Deny(p) \/ LoadNext(p) \/ Load(p) \/ Store(p) \/ Renewing(p)
    PROVE  Withdrawn'
<1> USE DEF memory, disk, history
<1>1. StepOf(p) /\ yolo \in Grants
    BY DEF StepOf, Clearing, Base, Typed
<1>2. UNCHANGED <<chat, allow, revoked>> /\ \A t \in Topic : yolo'[t] \in {yolo[t], None}
    <2>1. CASE Disable(p)
        BY <1>1, <2>1 DEF Disable, Grants
    <2>2. CASE ~Disable(p)
        BY <2>2 DEF Deny, LoadNext, Load, Store, Renewing, Set, Link
    <2> QED
        BY <2>1, <2>2 DEF Disable
<1>3. task[p].pc \notin {"idle", "grant"}
    BY DEF Deny, LoadNext, Load, Store, Renewing, Set, Disable, Link
<1>4. \/ task'[p] = Idle
      \/ /\ task'[p].command = task[p].command /\ task'[p].topic = task[p].topic
         /\ task'[p].permanent = task[p].permanent
    <2>1. CASE Deny(p) \/ LoadNext(p) \/ Load(p)
        BY <2>1, Loading DEF Loads, Altered, Alters
    <2>2. CASE Store(p) \/ Renewing(p)
        BY <2>2, Moving DEF Renewing, Moved, Altered, Alters, Ended, Ends
    <2> QED
        BY <2>1, <2>2
<1>5. ASSUME NEW u \in revoked' PROVE Barred(u)' /\ ~Enables(task'[p], u)
    BY <1>2, <1>3, <1>4, <1>5, GoesOn DEF Withdrawn, Barred
<1> QED
    BY <1>1, <1>2, <1>5, WithdrawnByTask

LEMMA WithdrawnOutside == ASSUME Base, Withdrawn, Outside PROVE Withdrawn'
<1> USE DEF memory, disk, history, quiet
<1>1. UNCHANGED <<chat, allow, task>> /\ yolo \in Grants
    BY OutsideFrame DEF Base, Typed
<1>2. revoked' \subseteq revoked /\ \A t \in revoked' : t \in Topic => yolo'[t] \in {yolo[t], None}
    <2>1. ASSUME NEW t \in Topic, Research(t)
          PROVE  revoked' \subseteq revoked /\ \A u \in revoked' : u \in Topic => yolo'[u] \in {yolo[u], None}
        BY <1>1, <2>1 DEF Research, Grants
    <2>2. ASSUME NEW c \in Card, Purge(c)
          PROVE  revoked' \subseteq revoked /\ \A u \in revoked' : u \in Topic => yolo'[u] \in {yolo[u], None}
        BY <1>1, <2>2 DEF Purge, Grants
    <2>3. \/ \E t \in Topic : Research(t)
          \/ \E c \in Card : Purge(c)
          \/ UNCHANGED <<revoked, yolo>>
        BY DEF Outside, StartTurn, EndTurn, Carding, Ask, Answer, Request, Tick, vars
    <2> QED
        BY <2>1, <2>2, <2>3
<1> QED
    BY <1>1, <1>2 DEF Withdrawn, Barred

LEMMA WithdrawnNext == Base /\ Withdrawn /\ [Next]_vars => Withdrawn'
<1> SUFFICES ASSUME Base, Withdrawn, [Next]_vars PROVE Withdrawn'
    OBVIOUS
<1> USE DEF memory, disk, history
<1>1. ASSUME NEW p \in Handler, StepOf(p) PROVE Withdrawn'
    <2>1. ASSUME NEW c \in Card, TapYolo(p, c) PROVE Withdrawn'
        <3>1. Opened(p, "yolo", cards[c].topic, "grant", None, c) /\ cards[c].topic \in Topic
            BY <2>1, Opening DEF Base, CardTopics, TapYolo
        <3>2. UNCHANGED <<yolo, chat, allow, revoked>>
            BY <2>1 DEF TapYolo
        <3>3. ASSUME NEW u \in revoked' PROVE Barred(u)' /\ ~Enables(task'[p], u)
            BY <3>1, <3>2 DEF Withdrawn, Barred, Enables, Opened, Opens
        <3> QED
            BY <1>1, <3>2, <3>3, WithdrawnByTask
    <2> QED
        BY <1>1, <2>1, WithdrawnStarted, WithdrawnEnabling, WithdrawnClearing, WithdrawnOn
        DEF StepOf, Clearing
<1>2. CASE FlushCut \/ FlushWrite \/ \E by \in Handler \cup {"timer"} : FlushBegin(by)
    <2>1. UNCHANGED <<yolo, chat, allow, revoked>>
        BY <1>2 DEF FlushCut, FlushWrite, FlushBegin, quiet
    <2>2. \A p \in Handler : task'[p] \in {task[p], Idle}
        BY <1>2, WriteMoves DEF FlushCut, FlushBegin, Ended, Ends
    <2>3. \A t \in revoked, p \in Handler : ~Enables(task'[p], t)
        BY <2>2 DEF Withdrawn, Enables, Idle
    <2> QED
        BY <2>1, <2>3 DEF Withdrawn, Barred
<1>3. CASE Restart
    BY <1>3 DEF Restart, Withdrawn
<1> QED
    BY <1>1, <1>2, <1>3, WithdrawnOutside, NextIsOneOf

-----------------------------------------------------------------------------
(* A permanent approval reaches the disk *)

LEMMA DurableByTask ==
    ASSUME Base, Flushing, Durable, NEW p \in Handler, StepOf(p), chat' \in {chat, NoRow},
           task[p].permanent => task'[p].permanent
    PROVE  Durable'
<1>1. /\ \A q \in Handler \ {p} : task'[q] = task[q]
      /\ UNCHANGED <<flush, snapshot>> /\ ("snapshot" \in unsaved => "snapshot" \in unsaved')
    BY TaskFrame
<1>2. \A q \in Handler : task[q].permanent => task'[q].permanent
    BY <1>1
<1>3. chat'.permanent => chat.permanent
    BY DEF NoRow
<1> QED
    BY <1>1, <1>2, <1>3 DEF Durable, PermanentIsDurable

LEMMA DurableNext == Base /\ Flushing /\ Durable /\ [Next]_vars => Durable'
<1> SUFFICES ASSUME Base, Flushing, Durable, [Next]_vars PROVE Durable'
    OBVIOUS
<1> USE DEF memory, disk, history
<1>1. ASSUME NEW p \in Handler, StepOf(p) PROVE Durable'
    <2>1. CASE Count(p)
        <3>1. /\ \A q \in Handler \ {p} : task'[q] = task[q]
              /\ UNCHANGED <<flush, snapshot>> /\ task[p].pc = "count"
            BY <1>1, <2>1, TaskFrame DEF Count
        <3>2. task'[p].permanent = chat'.permanent /\ p # flush.by
            BY <2>1, <3>1, Loading DEF Altered, Alters, Flushing
        <3> QED
            BY <3>1, <3>2 DEF Durable, PermanentIsDurable
    <2>2. CASE ~Count(p)
        <3>1. chat' \in {chat, NoRow}
            BY <1>1, <2>2 DEF StepOf, Started, Yolo, Enable, Off, New, Allow, TapYolo, Enabling, GrantTap,
               Approve, Clearing, ClearTopics, Deny, LoadNext, Renewing, Set, Disable, Link, Load, Store
        <3>2. task[p].permanent => task'[p].permanent
            <4> SUFFICES ASSUME task[p].permanent PROVE task'[p].permanent
                OBVIOUS
            <4>1. task[p].command = "yolo" /\ task[p].pc \in {"load", "store", "approve", "flush"}
                BY TaskFields DEF Formed
            <4>2. Load(p) \/ LoadNext(p) \/ Store(p) \/ Approve(p)
                BY <1>1, <2>2, <4>1 DEF StepOf, Started, Yolo, Off, New, Allow, Command, TapYolo, Enabling,
                   GrantTap, Clearing, ClearTopics, Deny, Renewing, Set, Disable, Link
            <4>3. CASE Load(p) \/ LoadNext(p)
                BY <4>3, Loading DEF Loads, Altered, Alters
            <4>4. CASE Store(p)
                <5>1. task' = Goto(p, "approve")
                    BY <4>1, <4>4 DEF Store, AfterStore
                <5>2. Moved(p, "approve")
                    BY <5>1, AltersAsWritten, TaskFields DEF Moved, Altered, Goto, TaskState
                <5> QED
                    BY <5>2 DEF Moved, Altered, Alters
            <4>5. CASE Approve(p)
                BY <4>5, Moving DEF Moved, Altered, Alters
            <4> QED
                BY <4>2, <4>3, <4>4, <4>5
        <3> QED
            BY <1>1, <3>1, <3>2, DurableByTask
    <2> QED
        BY <2>1, <2>2
<1>2. CASE Outside
    BY <1>2, OutsideFrame DEF Durable, PermanentIsDurable
<1>3. ASSUME NEW by \in Handler \cup {"timer"}, FlushBegin(by) PROVE Durable'
    <2>1. UNCHANGED <<chat, snapshot, task, unsaved>> /\ flush'.stage = "begun"
        BY <1>3 DEF FlushBegin, quiet
    <2> QED
        BY <2>1 DEF Durable, PermanentIsDurable
<1>4. CASE FlushCut
    <2>1. UNCHANGED <<chat, snapshot, task, unsaved>> /\ flush'.cut.chat.permanent = chat.permanent
        BY <1>4, RowsTyped DEF FlushCut, Base, Typed, PlainRow
    <2> QED
        BY <2>1 DEF Durable, PermanentIsDurable
<1>5. CASE FlushWrite
    <2>1. /\ chat' = chat /\ flush' = NoFlush /\ flush.stage = "cut"
          /\ "snapshot" \in unsaved' \/ snapshot' = flush.cut
          /\ \A p \in Handler : p # flush.by => task'[p] = task[p]
        <3>1. "snapshot" \in unsaved' \/ snapshot' = flush.cut
            BY <1>5 DEF FlushWrite
        <3> QED
            BY <1>5, <3>1, WriteMoves DEF Ended, Ends, FlushWrite
    <2> QED
        BY <2>1 DEF Durable, PermanentIsDurable, NoFlush
<1>6. CASE Restart
    <2>1. /\ flush' = NoFlush
          /\ "snapshot" \in unsaved' \/ snapshot'.chat = chat'
        BY <1>6, RestartMoves
    <2> QED
        BY <2>1 DEF Durable, PermanentIsDurable, NoFlush
<1> QED
    BY <1>1, <1>2, <1>3, <1>4, <1>5, <1>6, NextIsOneOf

-----------------------------------------------------------------------------
(***************************************************************************)
(* The theorems                                                            *)
(***************************************************************************)

LEMMA IInvAlways == Spec => []IInv
<1>1. IInv /\ [Next]_vars => IInv'
    BY NextBase, FlushingNext, GivenNext, CountedNext, ConsentNext, DurableNext, WithdrawnNext DEF IInv
<1> QED
    BY <1>1, InitIInv, PTL DEF Spec

\* Nothing is approved that was never given (should_auto_approve, approve_pending_perms,
\* enable_yolo, grant_temporary_yolo, restore_channel_state): for any topics, cards and handlers a
\* card that nobody tapped is allowed only where its topic was given an approval at some time or
\* the chat had two enables; the count that makes an approval permanent never passes the enables,
\* restarts or not; and what a /yolo off took back with no enable beside it (clear_yolo_chat) is
\* in force nowhere until it is given again or the process restarts.
THEOREM ApprovalsAreEarned == Spec => []ApprovalIsEarned
<1>1. IInv => ApprovalIsEarned
    <2> SUFFICES ASSUME IInv PROVE ApprovalIsEarned
        OBVIOUS
    <2>0. Base /\ Flushing /\ Counted /\ ApprovalHasConsent
        BY DEF IInv
    <2>1. chat \in Row /\ snapshot.chat \in Row
        <3>1. \A row \in PlainRow : Earned(row) => row \in Row
            BY <2>0, RowsTyped DEF Earned, PlainRow, Row
        <3> QED
            BY <2>0, <3>1, RowsTyped DEF Counted
    <2>2. snapshot \in [yolo : Grants, chat : Row, allow : [Topic -> BOOLEAN]]
        BY <2>0, <2>1 DEF Base, Typed, Stored, Cut, Allowing
    <2>3. \A t \in Topic :
             /\ IsInjective(saved[t].recent) /\ Range(saved[t].recent) = 1..Len(saved[t].recent)
             /\ saved[t].linked \subseteq Range(saved[t].recent) /\ 1 \in saved[t].linked
        BY <2>0 DEF Base, Sessions, Kept
    <2>4. flush.by \in Handler \cup {"timer", None} /\ (flush.stage = "none") = (flush.by = None)
        BY <2>0 DEF Base, Typed, Flushing
    <2>5. \A p \in Handler : task[p] = Idle \/ task[p].topic \in Topic
        BY <2>0, TaskFields DEF Formed
    <2>6. \A c \in Card : cards[c].state \in {"new", "purge", "asking", "pending", "allowed", "denied", "lost"}
        BY <2>0 DEF Base, Typed, CardRecord
    <2>7. config \in [Topic -> [Session -> [yolo : {None} \cup Time, allow : BOOLEAN]]]
        BY <2>0 DEF Base, Typed, Stored, Config
    <2>8. TypeOK
        BY <2>0, <2>1, <2>2, <2>3, <2>4, <2>5, <2>6, <2>7 DEF TypeOK, Base, Typed, Allowing
    <2>9. PermanentIsEarned
        BY <2>0 DEF PermanentIsEarned, Counted, Earned
    <2>10. OffHolds
        BY DEF IInv, Withdrawn, Barred, Enables, OffHolds, Active, Covers
    <2> QED
        BY <2>0, <2>8, <2>9, <2>10 DEF ApprovalIsEarned
<1> QED
    BY <1>1, IInvAlways, PTL

\* persist_permanent and flush_lock: a permanent approval is on disk before the command that
\* reached it is done, unless the last flush failed, however many flushes and commands overlap.
THEOREM PermanentStays == Spec => []PermanentIsDurable
<1>1. IInv => PermanentIsDurable
    BY DEF IInv, Durable
<1> QED
    BY <1>1, IInvAlways, PTL

\* The point-in-time cut of flush: what it writes of the four maps was true at one moment.
THEOREM CutsAreReal == Spec => CutIsReal
<1>1. IInv /\ [Next]_vars =>
         (Partial /\ flush'.stage = "cut" =>
             /\ flush'.cut.yolo = yolo' /\ flush'.cut.allow = allow'
             /\ flush'.cut.chat = [chat' EXCEPT !.last_call = None])
    <2> SUFFICES ASSUME IInv, [Next]_vars, Partial, flush'.stage = "cut"
                 PROVE  /\ flush'.cut.yolo = yolo' /\ flush'.cut.allow = allow'
                        /\ flush'.cut.chat = [chat' EXCEPT !.last_call = None]
        OBVIOUS
    <2>1. Base /\ Flushing /\ flush.stage = "begun"
        BY DEF IInv, Partial
    <2>2. FlushCut
        <3>1. ASSUME NEW p \in Handler, StepOf(p) PROVE FALSE
            BY <2>1, <3>1, TaskFrame
        <3>2. ASSUME NEW by \in Handler \cup {"timer"}, FlushBegin(by) PROVE FALSE
            BY <2>1, <3>2 DEF FlushBegin
        <3>3. ~FlushWrite
            BY <2>1 DEF FlushWrite
        <3>4. ~Outside
            BY <2>1, OutsideFrame
        <3>5. ~Restart
            BY DEF Restart, NoFlush
        <3> QED
            BY <3>1, <3>2, <3>3, <3>4, <3>5, NextIsOneOf
    <2>3. /\ flush'.cut.yolo = flush.cut.yolo /\ flush'.cut.allow = allow
          /\ flush'.cut.chat = [chat EXCEPT !.last_call = None] /\ UNCHANGED <<yolo, chat, allow>>
        BY <2>1, <2>2 DEF FlushCut, memory, Base, Typed
    <2> QED
        BY <2>1, <2>3 DEF Flushing
<1> QED
    BY <1>1, IInvAlways, PTL DEF Spec, CutIsReal
=============================================================================
