--------------------------- MODULE AgentLoopProofs ---------------------------
(***************************************************************************)
(* AgentLoop for any steers, tools, arguments, limits and hazards.         *)
(***************************************************************************)
EXTENDS AgentLoop, SequenceTheorems, FunctionTheorems, FiniteSetTheorems, WellFoundedInduction, TLAPS

(* What the invariants are made of. *)

Standing == pc \notin {"closing", "returned"}

\* Which calls can be open where.
Shape ==
  /\ pc \in {"top", "stream", "interrupted", "gate", "ask", "exec"} => batch = <<>>
  /\ pc \in {"top", "stream", "interrupted"} => gated = <<>>
  /\ pc \in {"ask", "exec"} => gated # <<>>

\* The calls that were let through and not started: the one being run is counted.
ToStart == IF pc = "exec" THEN Tail(gated) ELSE gated

Within ==
  \A s \in Signature :
    /\ ran[s] < BlockAt
    /\ Standing => ran[s] + Times(ToStart, s) <= Lesser(BlockAt - 1, attempts[s])

Distinct(s) == \A i, j \in DOMAIN s : s[i].id = s[j].id => i = j

\* The history, the last number given, and the calls that wait for their answer.
Lists(h, n, b, g) ==
  /\ h \in Seq(Message) /\ n \in Nat /\ b \in Seq(Call) /\ g \in Seq(Call)
  /\ Distinct(b) /\ Distinct(g) /\ Ids(b) \cap Ids(g) = {} /\ Ids(b) \cup Ids(g) \subseteq 1..n
  /\ Open \subseteq 1..n /\ Open \cap (Ids(b) \cup Ids(g)) = {}
  /\ Numbered(h, n)

Answering ==
  /\ Lists(history, nextId, batch, gated)
  /\ Paired(history, Ids(batch) \cup Ids(gated) \cup Open)

GuardTypes ==
  /\ attempts \in [Signature -> 0..BlockAt] /\ ran \in [Signature -> 0..BlockAt]
  /\ failures \in [Tool -> 0..HaltAt] /\ approved \subseteq Signature
-----------------------------------------------------------------------------
(* Induction and recursion over the natural numbers, stated with sets. *)

LEMMA Least == ASSUME NEW T, T \subseteq Nat, T # {} PROVE \E n \in T : \A m \in T : n <= m
<1>1. PICK n \in T : \A m \in T : <<m, n>> \notin OpToRel(<, Nat)
    BY WFMin, NatLessThanWellFounded
<1>2. \A m \in T : ~(m < n)
    BY <1>1 DEF OpToRel
<1> QED
    BY <1>2

LEMMA Induction ==
    ASSUME NEW P, 0 \in P, \A n \in Nat : n \in P => n + 1 \in P
    PROVE  Nat \subseteq P
<1> SUFFICES ASSUME Nat \ P # {} PROVE FALSE
    OBVIOUS
<1>1. PICK n \in Nat \ P : \A m \in Nat \ P : n <= m
    BY Least
<1>2. n # 0 /\ n - 1 \in Nat /\ n - 1 \in P
    BY <1>1
<1> QED
    BY <1>1, <1>2

\* A list of steps, one after the other, from a base.
Scan(f, n, S, base, step) ==
    f \in [0..n -> S] /\ f[0] = base /\ \A i \in 1..n : f[i] = step[i][f[i - 1]]

LEMMA Recursion ==
    ASSUME NEW N \in Nat, NEW S, NEW base \in S, NEW step \in [1..N -> [S -> S]]
    PROVE  \E f : Scan(f, N, S, base, step)
<1> USE DEF Scan
<1> DEFINE Upto(k) == \E f : Scan(f, k, S, base, step)
           P == {k \in Nat : k <= N => Upto(k)}
<1>1. 0 \in P
    <2> DEFINE f == [i \in 0..0 |-> base]
    <2>1. f \in [0..0 -> S] /\ f[0] = base /\ \A n \in 1..0 : f[n] = step[n][f[n - 1]]
        OBVIOUS
    <2> HIDE DEF f
    <2> QED
        BY <2>1
<1>2. ASSUME NEW k \in Nat, k \in P PROVE k + 1 \in P
    <2> SUFFICES ASSUME k + 1 <= N PROVE Upto(k + 1)
        OBVIOUS
    <2>1. PICK f \in [0..k -> S] : f[0] = base /\ \A n \in 1..k : f[n] = step[n][f[n - 1]]
        BY <1>2
    <2> DEFINE g == [i \in 0..(k + 1) |-> IF i <= k THEN f[i] ELSE step[k + 1][f[k]]]
    <2>2. f[k] \in S /\ k + 1 \in 1..N /\ step[k + 1] \in [S -> S]
        OBVIOUS
    <2>3. g \in [0..(k + 1) -> S]
        BY <2>2
    <2>4. g[0] = base /\ \A n \in 1..(k + 1) : g[n] = step[n][g[n - 1]]
        <3>1. g[0] = base
            BY <2>1
        <3>2. ASSUME NEW n \in 1..(k + 1) PROVE g[n] = step[n][g[n - 1]]
            <4>1. CASE n <= k
                BY <2>1, <4>1
            <4>2. CASE n = k + 1
                BY <4>2
            <4> QED
                BY <4>1, <4>2
        <3> QED
            BY <3>1, <3>2
    <2> QED
        BY <2>3, <2>4
<1>3. N \in P
    BY <1>1, <1>2, Induction
<1> QED
    BY <1>3

-----------------------------------------------------------------------------
(* Lists *)

LEMMA Joined ==
    ASSUME NEW S, NEW p \in Seq(S), NEW q \in Seq(S)
    PROVE  /\ p \o q \in Seq(S) /\ Len(p \o q) = Len(p) + Len(q)
           /\ DOMAIN p = 1..Len(p) /\ DOMAIN q = 1..Len(q) /\ DOMAIN (p \o q) = 1..(Len(p) + Len(q))
           /\ Len(p) \in Nat /\ Len(q) \in Nat
           /\ \A i \in 1..Len(p) : (p \o q)[i] = p[i]
           /\ \A i \in 1..Len(q) : (p \o q)[Len(p) + i] = q[i]
<1>1. /\ Len(p) \in Nat /\ Len(q) \in Nat /\ p \o q \in Seq(S) /\ Len(p \o q) = Len(p) + Len(q)
      /\ DOMAIN p = 1..Len(p) /\ DOMAIN q = 1..Len(q)
      /\ \A i \in 1..Len(p) + Len(q) : (p \o q)[i] = IF i <= Len(p) THEN p[i] ELSE q[i - Len(p)]
    BY ConcatProperties, LenProperties
<1>2. DOMAIN (p \o q) = 1..(Len(p) + Len(q))
    BY <1>1, LenProperties
<1>3. ASSUME NEW i \in 1..Len(q) PROVE (p \o q)[Len(p) + i] = q[i]
    <2>1. Len(p) + i \in 1..Len(p) + Len(q) /\ ~(Len(p) + i <= Len(p)) /\ Len(p) + i - Len(p) = i
        BY <1>1
    <2> QED
        BY <1>1, <2>1
<1> QED
    BY <1>1, <1>2, <1>3

LEMMA Appended ==
    ASSUME NEW S, NEW p \in Seq(S), NEW e \in S
    PROVE  /\ Append(p, e) \in Seq(S) /\ Len(Append(p, e)) = Len(p) + 1
           /\ Len(p) \in Nat /\ DOMAIN p = 1..Len(p) /\ DOMAIN Append(p, e) = 1..(Len(p) + 1)
           /\ \A i \in 1..Len(p) : Append(p, e)[i] = p[i]
           /\ Append(p, e)[Len(p) + 1] = e
    BY AppendProperties, LenProperties

LEMMA Tailed ==
    ASSUME NEW S, NEW p \in Seq(S), p # <<>>
    PROVE  /\ Tail(p) \in Seq(S) /\ Len(Tail(p)) = Len(p) - 1 /\ Len(p) \in Nat \ {0}
           /\ DOMAIN p = 1..Len(p) /\ DOMAIN Tail(p) = 1..(Len(p) - 1) /\ p[1] \in S
           /\ \A i \in 1..(Len(p) - 1) : Tail(p)[i] = p[i + 1]
<1>1. Len(p) \in Nat /\ DOMAIN p = 1..Len(p)
    BY LenProperties
<1>2. Len(p) # 0
    BY <1>1, EmptySeq, SeqEqual
<1>3. Tail(p) \in Seq(S) /\ Len(Tail(p)) = Len(p) - 1 /\ \A i \in 1..(Len(p) - 1) : Tail(p)[i] = p[i + 1]
    BY <1>1, HeadTailProperties
<1>4. DOMAIN Tail(p) = 1..(Len(p) - 1)
    BY <1>3, LenProperties
<1>5. p[1] \in S
    BY <1>1, <1>2, ElementOfSeq
<1> QED
    BY <1>1, <1>2, <1>3, <1>4, <1>5

LEMMA ElementsJoined ==
    ASSUME NEW S, NEW p \in Seq(S), NEW q \in Seq(S)
    PROVE  Elements(p \o q) = Elements(p) \cup Elements(q)
<1>1. ASSUME NEW i \in DOMAIN (p \o q) PROVE (p \o q)[i] \in Elements(p) \cup Elements(q)
    <2>1. CASE i <= Len(p)
        BY <2>1, Joined DEF Elements
    <2>2. CASE ~(i <= Len(p))
        <3>1. i - Len(p) \in DOMAIN q /\ (p \o q)[i] = q[i - Len(p)]
            BY <2>2, Joined, ConcatProperties
        <3> QED
            BY <3>1 DEF Elements
    <2> QED
        BY <2>1, <2>2
<1>2. ASSUME NEW i \in DOMAIN p PROVE p[i] \in Elements(p \o q)
    <2>1. i \in DOMAIN (p \o q) /\ (p \o q)[i] = p[i]
        BY Joined
    <2> QED
        BY <2>1 DEF Elements
<1>3. ASSUME NEW i \in DOMAIN q PROVE q[i] \in Elements(p \o q)
    <2>1. Len(p) + i \in DOMAIN (p \o q) /\ (p \o q)[Len(p) + i] = q[i]
        BY Joined
    <2> QED
        BY <2>1 DEF Elements
<1>4. Elements(p \o q) \subseteq Elements(p) \cup Elements(q)
    BY <1>1 DEF Elements
<1>5. Elements(p) \subseteq Elements(p \o q) /\ Elements(q) \subseteq Elements(p \o q)
    BY <1>2, <1>3 DEF Elements
<1> QED
    BY <1>4, <1>5

LEMMA ElementsAppended ==
    ASSUME NEW S, NEW p \in Seq(S), NEW e \in S
    PROVE  Elements(Append(p, e)) = Elements(p) \cup {e}
<1>1. \A i \in DOMAIN Append(p, e) : Append(p, e)[i] \in Elements(p) \cup {e}
    BY Appended DEF Elements
<1>2. \A i \in DOMAIN p : i \in DOMAIN Append(p, e) /\ p[i] = Append(p, e)[i]
    BY Appended
<1>3. Len(p) + 1 \in DOMAIN Append(p, e) /\ e = Append(p, e)[Len(p) + 1]
    BY Appended
<1> QED
    BY <1>1, <1>2, <1>3 DEF Elements

LEMMA ElementsType == ASSUME NEW S, NEW p \in Seq(S) PROVE Elements(p) \subseteq S
    BY ElementOfSeq, LenProperties DEF Elements

LEMMA ElementsOfNone == Elements(<<>>) = {}
    BY EmptySeq, LenProperties DEF Elements
-----------------------------------------------------------------------------
(* The steer pipeline *)

InOrder(q) == \A i, j \in DOMAIN q : i < j => q[i].at < q[j].at
Before(p, q) == \A e \in Elements(p), f \in Elements(q) : e.at < f.at
Covered(f, q) == \E e \in Elements(q) : e.at = f.at \/ (e.id = f.id /\ e.text >= f.text)

LEMMA OrderJoined ==
    ASSUME NEW p \in Seq(SteerMessage), NEW q \in Seq(SteerMessage)
    PROVE  InOrder(p \o q) <=> InOrder(p) /\ InOrder(q) /\ Before(p, q)
<1>0. /\ p \o q \in Seq(SteerMessage)
      /\ DOMAIN p = 1..Len(p) /\ DOMAIN q = 1..Len(q) /\ DOMAIN (p \o q) = 1..(Len(p) + Len(q))
      /\ Len(p) \in Nat /\ Len(q) \in Nat
      /\ \A i \in 1..Len(p) : (p \o q)[i] = p[i]
      /\ \A i \in 1..Len(q) : (p \o q)[Len(p) + i] = q[i]
    BY Joined
<1> USE <1>0
<1>1. ASSUME InOrder(p \o q) PROVE InOrder(p) /\ InOrder(q) /\ Before(p, q)
    <2>1. InOrder(p)
        BY <1>1 DEF InOrder
    <2>2. ASSUME NEW i \in DOMAIN q, NEW j \in DOMAIN q, i < j PROVE q[i].at < q[j].at
        <3>1. /\ Len(p) + i \in DOMAIN (p \o q) /\ Len(p) + j \in DOMAIN (p \o q)
              /\ Len(p) + i < Len(p) + j
            BY <2>2
        <3> QED
            BY <1>1, <2>2, <3>1 DEF InOrder
    <2>3. ASSUME NEW i \in DOMAIN p, NEW j \in DOMAIN q PROVE p[i].at < q[j].at
        <3>1. i \in DOMAIN (p \o q) /\ Len(p) + j \in DOMAIN (p \o q) /\ i < Len(p) + j
            BY <2>3
        <3> QED
            BY <1>1, <2>3, <3>1 DEF InOrder
    <2> QED
        BY <2>1, <2>2, <2>3 DEF InOrder, Before, Elements
<1>2. ASSUME InOrder(p), InOrder(q), Before(p, q),
             NEW i \in DOMAIN (p \o q), NEW j \in DOMAIN (p \o q), i < j
      PROVE  (p \o q)[i].at < (p \o q)[j].at
    <2>1. CASE j <= Len(p)
        BY <1>2, <2>1 DEF InOrder
    <2>2. CASE ~(j <= Len(p)) /\ i <= Len(p)
        <3>1. /\ (p \o q)[i] = p[i] /\ p[i] \in Elements(p)
              /\ (p \o q)[j] = q[j - Len(p)] /\ q[j - Len(p)] \in Elements(q)
            BY <1>2, <2>2, ConcatProperties DEF Elements
        <3> QED
            BY <1>2, <3>1 DEF Before
    <2>3. CASE ~(i <= Len(p))
        <3>1. /\ (p \o q)[i] = q[i - Len(p)] /\ i - Len(p) \in DOMAIN q
              /\ (p \o q)[j] = q[j - Len(p)] /\ j - Len(p) \in DOMAIN q
              /\ i - Len(p) < j - Len(p)
            BY <1>2, <2>3, ConcatProperties
        <3> QED
            BY <1>2, <3>1 DEF InOrder
    <2> QED
        BY <2>1, <2>2, <2>3
<1> QED
    BY <1>1, <1>2 DEF InOrder

LEMMA OrderAppended ==
    ASSUME NEW p \in Seq(SteerMessage), NEW m \in SteerMessage, InOrder(p),
           \A e \in Elements(p) : e.at < m.at
    PROVE  InOrder(Append(p, m))
    BY Appended DEF InOrder, Elements

\* What one message of the channel does to a pending list that is older than it.
LEMMA AbsorbKeeps ==
    ASSUME NEW q \in Seq(SteerMessage), NEW m \in SteerMessage, m.text = m.at,
           InOrder(q), \A e \in Elements(q) : e.at < m.at /\ e.text < m.at
    PROVE  /\ Absorb(q, m) \in Seq(SteerMessage) /\ InOrder(Absorb(q, m))
           /\ \A e \in Elements(Absorb(q, m)) : \E f \in Elements(q) \cup {m} :
                  e.at = f.at /\ e.id = f.id /\ e.text \in {f.text, m.text}
           /\ \A f : Covered(f, q) /\ f.text \in Nat => Covered(f, Absorb(q, m))
           /\ Covered(m, Absorb(q, m))
<1> DEFINE same == {i \in DOMAIN q : q[i].id = m.id}
           first == CHOOSE i \in same : \A j \in same : i <= j
<1>0. m.at \in Nat /\ m.text \in Nat /\ Elements(q) \subseteq SteerMessage
    BY ElementsType DEF SteerMessage
<1>1. CASE m.edit /\ same # {}
    <2> DEFINE r == [q EXCEPT ![first].text = m.text]
    <2>1. Absorb(q, m) = r
        BY <1>1 DEF Absorb
    <2>2. same \subseteq Nat
        BY LenProperties
    <2>3. first \in same
        BY <1>1, <2>2, Least
    <2>4. first \in DOMAIN q /\ q[first].id = m.id /\ q[first] \in SteerMessage
        BY <2>3, ElementOfSeq, LenProperties
    <2> HIDE DEF first, same
    <2>5. /\ DOMAIN r = DOMAIN q
          /\ \A i \in DOMAIN q : i # first => r[i] = q[i]
          /\ r[first] = [q[first] EXCEPT !.text = m.text]
        BY <2>4
    <2>6. /\ r[first] \in SteerMessage /\ r[first].at = q[first].at /\ r[first].id = q[first].id
          /\ r[first].text = m.text
        BY <1>0, <2>4, <2>5 DEF SteerMessage
    <2>7. r \in Seq(SteerMessage)
        BY <1>0, <2>4, <2>6
    <2> HIDE DEF r
    <2>8. \A i \in DOMAIN q : r[i].at = q[i].at /\ r[i].id = q[i].id /\ r[i].text \in {q[i].text, m.text}
        BY <2>5, <2>6
    <2>9. InOrder(r)
        BY <2>5, <2>8 DEF InOrder
    <2>10. \A e \in Elements(r) : \E f \in Elements(q) \cup {m} :
               e.at = f.at /\ e.id = f.id /\ e.text \in {f.text, m.text}
        BY <2>5, <2>8 DEF Elements
    <2>11. ASSUME NEW f, Covered(f, q), f.text \in Nat PROVE Covered(f, r)
        <3>1. PICK i \in DOMAIN q : q[i].at = f.at \/ (q[i].id = f.id /\ q[i].text >= f.text)
            BY <2>11 DEF Covered, Elements
        <3>2. r[i] \in Elements(r) /\ q[i] \in Elements(q)
            BY <2>5 DEF Elements
        <3>3. q[i].text < m.text /\ q[i].text \in Nat
            BY <1>0, <3>2 DEF SteerMessage
        <3>4. r[i].at = q[i].at /\ r[i].id = q[i].id /\ (r[i].text = q[i].text \/ r[i].text = m.text)
            BY <2>8
        <3>5. r[i].at = f.at \/ (r[i].id = f.id /\ r[i].text >= f.text)
            BY <1>0, <2>11, <3>1, <3>3, <3>4
        <3> QED
            BY <3>2, <3>5 DEF Covered
    <2>12. Covered(m, r)
        <3>1. r[first] \in Elements(r)
            BY <2>4, <2>5 DEF Elements
        <3> QED
            BY <1>0, <2>4, <2>6, <3>1 DEF Covered
    <2> QED
        BY <2>1, <2>7, <2>9, <2>10, <2>11, <2>12
<1>2. ASSUME NEW n \in SteerMessage, n.at = m.at, n.id = m.id, n.text = m.text,
             Absorb(q, m) = Append(q, n)
      PROVE  /\ Absorb(q, m) \in Seq(SteerMessage) /\ InOrder(Absorb(q, m))
             /\ \A e \in Elements(Absorb(q, m)) : \E f \in Elements(q) \cup {m} :
                    e.at = f.at /\ e.id = f.id /\ e.text \in {f.text, m.text}
             /\ \A f : Covered(f, q) /\ f.text \in Nat => Covered(f, Absorb(q, m))
             /\ Covered(m, Absorb(q, m))
    <2>1. Elements(Append(q, n)) = Elements(q) \cup {n} /\ Append(q, n) \in Seq(SteerMessage)
        BY ElementsAppended, Appended
    <2>2. InOrder(Append(q, n))
        BY <1>2, OrderAppended
    <2> QED
        BY <1>2, <2>1, <2>2 DEF Covered
<1>3. CASE ~(m.edit /\ same # {})
    <2>1. CASE m.edit /\ same = {} /\ m.id \in {e.id : e \in Elements(merged)}
        <3> DEFINE n == [m EXCEPT !.edit = FALSE, !.correction = TRUE]
        <3>1. n \in SteerMessage /\ n.at = m.at /\ n.id = m.id /\ n.text = m.text
            BY DEF SteerMessage
        <3>2. Absorb(q, m) = Append(q, n)
            BY <2>1 DEF Absorb
        <3> QED
            BY <1>2, <3>1, <3>2
    <2>2. CASE ~(m.edit /\ same = {} /\ m.id \in {e.id : e \in Elements(merged)})
        <3>1. Absorb(q, m) = Append(q, m)
            BY <1>3, <2>2 DEF Absorb
        <3> QED
            BY <1>2, <3>1
    <2> QED
        BY <2>1, <2>2
<1> QED
    BY <1>1, <1>3

\* The pending list after the n first messages of the channel.
Gathering(q, n) ==
  /\ q \in Seq(SteerMessage) /\ InOrder(q)
  /\ \A e \in Elements(q) : /\ \E f \in Elements(pending) \cup Elements(chan) :
                                   e.at = f.at /\ e.id = f.id
                            /\ e.text \in {f.text : f \in Elements(pending) \cup Elements(chan)}
                            /\ e.at <= e.text
                            /\ \A k \in (n + 1)..Len(chan) : e.at < chan[k].at /\ e.text < chan[k].at
  /\ \A f \in Elements(pending) : Covered(f, q)
  /\ \A k \in 1..n : Covered(chan[k], q)

LEMMA GatheringStarts ==
    ASSUME pending \in Seq(SteerMessage), chan \in Seq(SteerMessage),
           \A e \in Elements(pending) \cup Elements(chan) : e.text = e.at,
           InOrder(pending), InOrder(chan), Before(pending, chan)
    PROVE  Gathering(pending, 0)
<1>1. /\ Elements(pending) \subseteq SteerMessage /\ Len(chan) \in Nat /\ DOMAIN chan = 1..Len(chan)
      /\ \A k \in 1..Len(chan) : chan[k] \in Elements(chan)
    BY ElementsType, LenProperties DEF Elements
<1>2. \A e \in Elements(pending) : e.at \in Nat /\ e.text = e.at
    BY <1>1 DEF SteerMessage
<1>3. \A e \in Elements(pending) : \A k \in 1..Len(chan) : e.at < chan[k].at /\ e.text < chan[k].at
    BY <1>1, <1>2 DEF Before
<1>4. \A e \in Elements(pending) : Covered(e, pending)
    BY DEF Covered
<1>5. ASSUME NEW e \in Elements(pending)
      PROVE  /\ \E f \in Elements(pending) \cup Elements(chan) : e.at = f.at /\ e.id = f.id
             /\ e.text \in {f.text : f \in Elements(pending) \cup Elements(chan)}
             /\ e.at <= e.text
    BY <1>2
<1> QED
    BY <1>3, <1>4, <1>5 DEF Gathering

LEMMA GatheringGoesOn ==
    ASSUME pending \in Seq(SteerMessage), chan \in Seq(SteerMessage),
           \A e \in Elements(pending) \cup Elements(chan) : e.text = e.at,
           InOrder(chan),
           NEW n \in Nat, n + 1 <= Len(chan), NEW q, Gathering(q, n)
    PROVE  Gathering(Absorb(q, chan[n + 1]), n + 1)
<1> DEFINE m == chan[n + 1]
           r == Absorb(q, m)
<1>1. /\ DOMAIN chan = 1..Len(chan) /\ Len(chan) \in Nat /\ m \in Elements(chan)
      /\ m \in SteerMessage /\ m.text = m.at /\ m.at \in Nat
    <2>1. DOMAIN chan = 1..Len(chan) /\ Len(chan) \in Nat
        BY LenProperties
    <2>2. m \in Elements(chan)
        BY <2>1 DEF Elements
    <2> QED
        BY <2>1, <2>2, ElementsType DEF SteerMessage
<1>2. \A k \in (n + 2)..Len(chan) : m.at < chan[k].at
    BY <1>1 DEF InOrder
<1>3. q \in Seq(SteerMessage) /\ InOrder(q) /\ \A e \in Elements(q) : e.at < m.at /\ e.text < m.at
    BY <1>1 DEF Gathering
<1>4. /\ r \in Seq(SteerMessage) /\ InOrder(r)
      /\ \A e \in Elements(r) : \E f \in Elements(q) \cup {m} :
             e.at = f.at /\ e.id = f.id /\ e.text \in {f.text, m.text}
      /\ \A f : Covered(f, q) /\ f.text \in Nat => Covered(f, r)
      /\ Covered(m, r)
    BY <1>1, <1>3, AbsorbKeeps
<1>5. \A f \in Elements(pending) \cup Elements(chan) : f.text \in Nat
    BY ElementsType DEF SteerMessage
<1>6. \A f \in Elements(pending) : Covered(f, r)
    BY <1>4, <1>5 DEF Gathering
<1>7. ASSUME NEW k \in 1..(n + 1) PROVE Covered(chan[k], r)
    <2>1. CASE k = n + 1
        BY <1>4, <2>1
    <2>2. CASE k # n + 1
        <3>1. k \in 1..n /\ chan[k] \in Elements(chan)
            BY <1>1, <2>2 DEF Elements
        <3> QED
            BY <1>4, <1>5, <3>1 DEF Gathering
    <2> QED
        BY <2>1, <2>2
<1>8. ASSUME NEW e \in Elements(r)
      PROVE  /\ \E f \in Elements(pending) \cup Elements(chan) : e.at = f.at /\ e.id = f.id
             /\ e.text \in {f.text : f \in Elements(pending) \cup Elements(chan)}
             /\ e.at <= e.text
             /\ \A k \in (n + 2)..Len(chan) : e.at < chan[k].at /\ e.text < chan[k].at
    <2>1. PICK f \in Elements(q) \cup {m} : e.at = f.at /\ e.id = f.id /\ e.text \in {f.text, m.text}
        BY <1>4
    <2>2. /\ \E g \in Elements(pending) \cup Elements(chan) : f.at = g.at /\ f.id = g.id
          /\ f.text \in {g.text : g \in Elements(pending) \cup Elements(chan)}
          /\ m.text \in {g.text : g \in Elements(pending) \cup Elements(chan)}
        BY <1>1, <2>1 DEF Gathering
    <2>3. f \in SteerMessage /\ f.at \in Nat /\ f.text \in Nat
        BY <1>1, <1>3, <2>1, ElementsType DEF SteerMessage
    <2>4. f.at <= f.text /\ f.at <= m.at /\ f.at <= m.text
        BY <1>1, <1>3, <2>1, <2>3 DEF Gathering
    <2>5. ASSUME NEW k \in (n + 2)..Len(chan) PROVE e.at < chan[k].at /\ e.text < chan[k].at
        <3>1. m.at < chan[k].at /\ m.text < chan[k].at
            BY <1>1, <1>2
        <3>2. f.at < chan[k].at /\ f.text < chan[k].at
            BY <2>1, <3>1 DEF Gathering
        <3> QED
            BY <2>1, <3>1, <3>2
    <2> QED
        BY <2>1, <2>2, <2>4, <2>5
<1> QED
    BY <1>4, <1>6, <1>7, <1>8 DEF Gathering

\* What a drain merges: in order, each an entry of the two lists with a text of
\* theirs, and no entry of theirs is lost.
LEMMA GatheredKeeps ==
    ASSUME pending \in Seq(SteerMessage), chan \in Seq(SteerMessage),
           \A e \in Elements(pending) \cup Elements(chan) : e.text = e.at,
           InOrder(pending), InOrder(chan), Before(pending, chan)
    PROVE  Gathering(Gathered, Len(chan))
<1> DEFINE N == Len(chan)
           Equation(h) == h = [n \in 0..N |-> IF n = 0 THEN pending ELSE Absorb(h[n - 1], chan[n])]
<1>1. N \in Nat
    BY LenProperties
<1>2. \E h : Equation(h)
    <2> DEFINE S == Seq(SteerMessage)
               Any(q, n) == IF Absorb(q, chan[n]) \in S THEN Absorb(q, chan[n]) ELSE q
               step == [n \in 1..N |-> [q \in S |-> Any(q, n)]]
    <2>1. step \in [1..N -> [S -> S]] /\ pending \in S
        OBVIOUS
    <2> HIDE DEF step
    <2>2. PICK f : Scan(f, N, S, pending, step)
        BY <1>1, <2>1, Recursion
    <2>3. ASSUME NEW n \in 1..N PROVE f[n] = Any(f[n - 1], n)
        <3>1. n - 1 \in 0..N
            BY <1>1
        <3>2. f[n - 1] \in S
            BY <2>2, <3>1 DEF Scan
        <3> QED
            BY <2>2, <3>2 DEF step, Scan
    <2> DEFINE P == {n \in Nat : n <= N => Gathering(f[n], n) /\ (n # 0 => f[n] = Absorb(f[n - 1], chan[n]))}
    <2>4. 0 \in P
        BY <2>2, GatheringStarts DEF Scan
    <2>5. ASSUME NEW n \in Nat, n \in P PROVE n + 1 \in P
        <3> SUFFICES ASSUME n + 1 <= N
                     PROVE  Gathering(f[n + 1], n + 1) /\ f[n + 1] = Absorb(f[n], chan[n + 1])
            OBVIOUS
        <3>1. Gathering(f[n], n)
            BY <1>1, <2>5
        <3>2. Gathering(Absorb(f[n], chan[n + 1]), n + 1)
            BY <3>1, GatheringGoesOn
        <3>3. Absorb(f[n], chan[n + 1]) \in S
            BY <3>2 DEF Gathering
        <3>4. f[n + 1] = Any(f[n], n + 1)
            BY <1>1, <2>3
        <3> QED
            BY <3>2, <3>3, <3>4
    <2>6. Nat \subseteq P
        BY <2>4, <2>5, Induction
    <2>7. \A n \in 0..N : f[n] = IF n = 0 THEN pending ELSE Absorb(f[n - 1], chan[n])
        BY <1>1, <2>2, <2>6 DEF Scan
    <2>8. Equation(f)
        BY <2>2, <2>7 DEF Scan
    <2> QED
        BY <2>8
<1>3. PICK h : Equation(h) /\ Gathered = h[N]
    BY <1>2 DEF Gathered
<1> DEFINE Q == {n \in Nat : n <= N => Gathering(h[n], n)}
<1>4. h[0] = pending /\ \A n \in Nat : n + 1 <= N => h[n + 1] = Absorb(h[n], chan[n + 1])
    BY <1>1, <1>3
<1> HIDE DEF Equation
<1>5. 0 \in Q
    BY <1>4, GatheringStarts
<1>6. ASSUME NEW n \in Nat, n \in Q PROVE n + 1 \in Q
    BY <1>1, <1>4, <1>6, GatheringGoesOn
<1>7. Nat \subseteq Q
    BY <1>5, <1>6, Induction
<1> QED
    BY <1>1, <1>3, <1>7

\* What is not merged yet is as it was sent.
Fresh == \A e \in Elements(pending) \cup Elements(chan) : e.text = e.at

\* A steer knows which accepted message it was, and has its text or a later one.
Known ==
  \A e \in Elements(Journey) : /\ e.at \in 1..Len(accepted) /\ e.id = accepted[e.at]
                               /\ e.text \in e.at..Len(accepted)

Steered == Fresh /\ Known /\ SteersInOrder /\ SteersAccounted

SteerLists ==
  /\ pending \in Seq(SteerMessage) /\ chan \in Seq(SteerMessage) /\ merged \in Seq(SteerMessage)
  /\ accepted \in Seq(Steer)

Ordered(p, q, r) ==
  /\ InOrder(p) /\ InOrder(q) /\ InOrder(r)
  /\ Before(p, q) /\ Before(p, r) /\ Before(q, r)

LEMMA ThreeJoined ==
    ASSUME NEW p \in Seq(SteerMessage), NEW q \in Seq(SteerMessage), NEW r \in Seq(SteerMessage)
    PROVE  /\ p \o q \o r \in Seq(SteerMessage)
           /\ Elements(p \o q \o r) = Elements(p) \cup Elements(q) \cup Elements(r)
           /\ InOrder(p \o q \o r) <=> Ordered(p, q, r)
<1> DEFINE pq == p \o q
<1>1. pq \in Seq(SteerMessage)
    BY Joined
<1>2. Elements(pq) = Elements(p) \cup Elements(q)
    BY ElementsJoined
<1>3. InOrder(pq) <=> InOrder(p) /\ InOrder(q) /\ Before(p, q)
    BY OrderJoined
<1> HIDE DEF pq
<1>4. /\ pq \o r \in Seq(SteerMessage)
      /\ Elements(pq \o r) = Elements(pq) \cup Elements(r)
      /\ InOrder(pq \o r) <=> InOrder(pq) /\ InOrder(r) /\ Before(pq, r)
    BY <1>1, Joined, ElementsJoined, OrderJoined
<1>5. Before(pq, r) <=> Before(p, r) /\ Before(q, r)
    BY <1>2 DEF Before
<1>6. pq \o r = p \o q \o r
    BY DEF pq
<1> QED
    BY <1>2, <1>3, <1>4, <1>5, <1>6 DEF Ordered

LEMMA JourneyParts ==
    ASSUME SteerLists
    PROVE  /\ Elements(Journey) = Elements(merged) \cup Elements(pending) \cup Elements(chan)
           /\ Elements(Journey) \subseteq SteerMessage
           /\ SteersInOrder <=> Ordered(merged, pending, chan)
<1>1. /\ Elements(Journey) = Elements(merged) \cup Elements(pending) \cup Elements(chan)
      /\ InOrder(Journey) <=> Ordered(merged, pending, chan)
      /\ Journey \in Seq(SteerMessage)
    BY ThreeJoined DEF SteerLists, Journey
<1>2. SteersInOrder <=> InOrder(Journey)
    BY DEF SteersInOrder, InOrder
<1> QED
    BY <1>1, <1>2, ElementsType

LEMMA JourneyPartsNext ==
    ASSUME SteerLists'
    PROVE  /\ Elements(Journey)' = Elements(merged') \cup Elements(pending') \cup Elements(chan')
           /\ SteersInOrder' <=> Ordered(merged', pending', chan')
<1>1. Journey' = merged' \o pending' \o chan' /\ Elements(Journey)' = Elements(Journey')
    BY DEF Journey, Elements
<1>2. SteersInOrder' <=> InOrder(merged' \o pending' \o chan')
    BY <1>1 DEF SteersInOrder, InOrder
<1> QED
    BY <1>1, <1>2, ThreeJoined DEF SteerLists

LEMMA NoneFollows ==
    /\ Elements(<<>>) = {} /\ <<>> \in Seq(SteerMessage) /\ InOrder(<<>>)
    /\ \A p : Before(p, <<>>) /\ Before(<<>>, p)
<1>1. Elements(<<>>) = {}
    BY ElementsOfNone
<1>2. <<>> \in Seq(SteerMessage)
    BY EmptySeq
<1>3. InOrder(<<>>)
    BY EmptySeq, LenProperties DEF InOrder
<1> QED
    BY <1>1, <1>2, <1>3 DEF Before

LEMMA SteeredFrame ==
    ASSUME Steered, UNCHANGED <<pending, chan, merged, accepted>> PROVE Steered'
    BY DEF Steered, Fresh, Known, SteersInOrder, SteersAccounted, Journey

LEMMA DrainSteered ==
    ASSUME SteerLists, Steered, Drain, accepted' = accepted
    PROVE  SteerLists' /\ Steered'
<1>1. CASE ~SteersWait
    <2>1. UNCHANGED <<pending, chan, merged, accepted>>
        BY <1>1 DEF Drain
    <2> QED
        BY <2>1, SteeredFrame DEF SteerLists
<1>2. CASE SteersWait
    <2>1. merged' = merged \o Gathered /\ pending' = <<>> /\ chan' = <<>>
        BY <1>2 DEF Drain
    <2>2. Ordered(merged, pending, chan) /\ Elements(Journey) = Elements(merged) \cup Elements(pending) \cup Elements(chan)
        BY JourneyParts DEF Steered
    <2>3. Gathering(Gathered, Len(chan))
        BY <2>2, GatheredKeeps DEF Steered, Fresh, SteerLists, Ordered
    <2> DEFINE G == Gathered
    <2>4. /\ G \in Seq(SteerMessage) /\ InOrder(G)
          /\ \A e \in Elements(G) :
                 /\ \E f \in Elements(pending) \cup Elements(chan) : e.at = f.at /\ e.id = f.id
                 /\ e.text \in {f.text : f \in Elements(pending) \cup Elements(chan)}
                 /\ e.at <= e.text
          /\ \A f \in Elements(pending) : Covered(f, G)
        BY <2>3 DEF Gathering
    <2>5. \A f \in Elements(chan) : Covered(f, G)
        BY <2>3, LenProperties DEF Gathering, Elements, SteerLists
    <2> HIDE DEF G
    <2>6. SteerLists'
        BY <2>1, <2>4, Joined, NoneFollows DEF SteerLists, G
    <2>7. Elements(merged') = Elements(merged) \cup Elements(G)
        BY <2>1, <2>4, ElementsJoined DEF SteerLists, G
    <2>8. /\ Elements(Journey)' = Elements(merged) \cup Elements(G)
          /\ SteersInOrder' <=> Ordered(merged', pending', chan')
        BY <2>1, <2>6, <2>7, JourneyPartsNext, NoneFollows
    <2>9. Fresh'
        BY <2>1, NoneFollows DEF Fresh
    <2>10. Before(merged, G)
        BY <2>2, <2>4 DEF Ordered, Before
    <2>11. Ordered(merged', pending', chan')
        <3>1. InOrder(merged')
            BY <2>1, <2>2, <2>4, <2>10, OrderJoined DEF Ordered, SteerLists, G
        <3> QED
            BY <2>1, <3>1, NoneFollows DEF Ordered
    <2>12. \A e \in Elements(pending) \cup Elements(chan) :
              /\ e.at \in 1..Len(accepted) /\ e.id = accepted[e.at] /\ e.text = e.at
              /\ e.text \in e.at..Len(accepted)
        BY <2>2 DEF Steered, Known, Fresh
    <2>13. Known'
        <3>1. ASSUME NEW e \in Elements(G)
              PROVE  /\ e.at \in 1..Len(accepted) /\ e.id = accepted[e.at]
                     /\ e.text \in e.at..Len(accepted)
            BY <2>4, <2>12
        <3>2. \A e \in Elements(merged) : /\ e.at \in 1..Len(accepted) /\ e.id = accepted[e.at]
                                          /\ e.text \in e.at..Len(accepted)
            BY <2>2 DEF Steered, Known
        <3> QED
            BY <2>8, <3>1, <3>2 DEF Known
    <2>14. SteersAccounted'
        <3> SUFFICES ASSUME NEW k \in DOMAIN accepted
                     PROVE  \E e \in Elements(Journey)' : e.at = k \/ (e.id = accepted[k] /\ e.text >= k)
            BY DEF SteersAccounted
        <3>1. PICK e \in Elements(Journey) : e.at = k \/ (e.id = accepted[k] /\ e.text >= k)
            BY DEF Steered, SteersAccounted
        <3>2. CASE e \in Elements(merged)
            BY <2>8, <3>1, <3>2
        <3>3. CASE e \in Elements(pending) \cup Elements(chan)
            <4>1. PICK f \in Elements(G) : f.at = e.at \/ (f.id = e.id /\ f.text >= e.text)
                BY <2>4, <2>5, <3>3 DEF Covered
            <4>2. f.at \in 1..Len(accepted) /\ f.id = accepted[f.at] /\ f.text \in Nat /\ f.at <= f.text
                BY <2>4, <2>12
            <4>3. e.at \in 1..Len(accepted) /\ e.id = accepted[e.at] /\ e.text = e.at
                BY <2>12, <3>3
            <4>4. k \in Nat
                BY LenProperties DEF SteerLists
            <4>5. CASE f.at = e.at
                <5>1. f.at = k \/ (f.id = accepted[k] /\ f.text >= k)
                    BY <3>1, <4>2, <4>3, <4>4, <4>5
                <5> QED
                    BY <2>8, <5>1
            <4>6. CASE f.id = e.id /\ f.text >= e.text
                <5>1. f.id = accepted[k] /\ f.text >= k
                    BY <3>1, <4>2, <4>3, <4>4, <4>6
                <5> QED
                    BY <2>8, <5>1
            <4> QED
                BY <4>1, <4>5, <4>6
        <3> QED
            BY <2>2, <3>1, <3>2, <3>3
    <2> QED
        BY <2>6, <2>8, <2>9, <2>11, <2>13, <2>14 DEF Steered
<1> QED
    BY <1>1, <1>2

LEMMA RecordSteered ==
    ASSUME SteerLists, Steered, Record, accepted' = accepted
    PROVE  SteerLists' /\ Steered'
<1>1. pending' = pending \o chan /\ chan' = <<>> /\ merged' = merged
    BY DEF Record
<1>2. SteerLists'
    BY <1>1, Joined, NoneFollows DEF SteerLists
<1>3. Elements(pending') = Elements(pending) \cup Elements(chan)
    BY <1>1, ElementsJoined DEF SteerLists
<1>4. Elements(Journey)' = Elements(Journey)
    <2>1. Elements(Journey)' = Elements(merged') \cup Elements(pending') \cup Elements(chan')
        BY <1>2, JourneyPartsNext
    <2>2. Elements(Journey) = Elements(merged) \cup Elements(pending) \cup Elements(chan)
        BY JourneyParts
    <2> QED
        BY <1>1, <1>3, <2>1, <2>2, NoneFollows
<1>5. SteersInOrder'
    <2>1. Ordered(merged, pending, chan)
        BY JourneyParts DEF Steered
    <2>2. InOrder(pending') /\ Before(merged, pending')
        BY <1>1, <1>3, <2>1, OrderJoined DEF Ordered, Before, SteerLists
    <2>3. Ordered(merged', pending', chan')
        BY <1>1, <2>1, <2>2, NoneFollows DEF Ordered
    <2> QED
        BY <1>2, <2>3, JourneyPartsNext
<1>6. Fresh'
    BY <1>1, <1>3, NoneFollows DEF Steered, Fresh
<1>7. Known' /\ SteersAccounted'
    BY <1>4 DEF Steered, Known, SteersAccounted
<1> QED
    BY <1>2, <1>5, <1>6, <1>7 DEF Steered

LEMMA SendSteered ==
    ASSUME SteerLists, Steered, NEW id \in Steer, NEW edit \in BOOLEAN, SendSteer(id, edit)
    PROVE  SteerLists' /\ Steered'
<1> DEFINE n == Len(accepted) + 1
           m == [id |-> id, edit |-> edit, correction |-> FALSE, at |-> n, text |-> n]
<1>1. /\ Len(accepted) \in Nat /\ accepted' = Append(accepted, id)
      /\ Len(accepted') = n /\ DOMAIN accepted = 1..Len(accepted) /\ DOMAIN accepted' = 1..n
      /\ \A k \in 1..Len(accepted) : accepted'[k] = accepted[k]
      /\ accepted'[n] = id /\ accepted' \in Seq(Steer)
    BY Appended, LenProperties DEF SendSteer, SteerLists
<1>2. chan' = Append(chan, m) /\ pending' = pending /\ merged' = merged
    BY <1>1 DEF SendSteer
<1>3. m \in SteerMessage /\ m.at = n /\ m.text = n /\ m.id = id /\ n \in Nat \ {0}
    BY <1>1 DEF SteerMessage
<1> HIDE DEF m
<1>4. Elements(chan') = Elements(chan) \cup {m} /\ chan' \in Seq(SteerMessage)
    BY <1>2, <1>3, ElementsAppended, Appended DEF SteerLists
<1>5. SteerLists'
    BY <1>1, <1>2, <1>4 DEF SteerLists
<1>6. Elements(Journey)' = Elements(Journey) \cup {m}
    <2>1. Elements(Journey)' = Elements(merged') \cup Elements(pending') \cup Elements(chan')
        BY <1>5, JourneyPartsNext
    <2>2. Elements(Journey) = Elements(merged) \cup Elements(pending) \cup Elements(chan)
        BY JourneyParts
    <2> QED
        BY <1>2, <1>4, <2>1, <2>2
<1>7. \A e \in Elements(Journey) : /\ e.at \in 1..Len(accepted) /\ e.id = accepted[e.at]
                                   /\ e.text \in e.at..Len(accepted)
    BY DEF Steered, Known
<1>8. \A e \in Elements(Journey) : e.at < m.at
    BY <1>1, <1>3, <1>7
<1>9. SteersInOrder'
    <2>1. Ordered(merged, pending, chan) /\ Elements(Journey) = Elements(merged) \cup Elements(pending) \cup Elements(chan)
        BY JourneyParts DEF Steered
    <2>2. InOrder(chan')
        BY <1>2, <1>3, <1>8, <2>1, OrderAppended DEF Ordered, SteerLists
    <2>3. Before(merged, chan') /\ Before(pending, chan')
        BY <1>4, <1>8, <2>1 DEF Ordered, Before
    <2>4. Ordered(merged', pending', chan')
        BY <1>2, <2>1, <2>2, <2>3 DEF Ordered
    <2> QED
        BY <1>5, <2>4, JourneyPartsNext
<1>10. Fresh'
    BY <1>2, <1>3, <1>4 DEF Steered, Fresh
<1>11. Known'
    <2>1. \A e \in Elements(Journey) : /\ e.at \in 1..n /\ e.id = accepted'[e.at]
                                       /\ e.text \in e.at..n
        BY <1>1, <1>7
    <2>2. m.at \in 1..n /\ m.id = accepted'[m.at] /\ m.text \in m.at..n
        BY <1>1, <1>3
    <2> QED
        BY <1>1, <1>6, <2>1, <2>2 DEF Known
<1>12. SteersAccounted'
    <2> SUFFICES ASSUME NEW k \in DOMAIN accepted'
                 PROVE  \E e \in Elements(Journey)' : e.at = k \/ (e.id = accepted'[k] /\ e.text >= k)
        BY DEF SteersAccounted
    <2>1. CASE k = n
        BY <1>3, <1>6, <2>1
    <2>2. CASE k # n
        <3>1. k \in DOMAIN accepted /\ accepted'[k] = accepted[k]
            BY <1>1, <2>2
        <3>2. PICK e \in Elements(Journey) : e.at = k \/ (e.id = accepted[k] /\ e.text >= k)
            BY <3>1 DEF Steered, SteersAccounted
        <3> QED
            BY <1>6, <3>1, <3>2
    <2> QED
        BY <2>1, <2>2
<1> QED
    BY <1>5, <1>9, <1>10, <1>11, <1>12 DEF Steered

\* How one step of the system treats the steers.
LEMMA SteerMoves ==
    ASSUME [Next]_vars
    PROVE  \/ Drain /\ accepted' = accepted
           \/ Record /\ accepted' = accepted
           \/ UNCHANGED <<pending, chan, merged, accepted>>
           \/ \E id \in Steer, edit \in BOOLEAN : SendSteer(id, edit)
<1> USE DEF turn, tokens, guard, calls, sender, receiver
<1>1. ASSUME Progress PROVE (Drain \/ UNCHANGED <<pending, chan, merged>>) /\ accepted' = accepted
    BY <1>1 DEF Progress, StartIteration, StopAtTop, IterationsExhausted, StreamCancelled, Reissue,
       BatchCancelled, BatchOver, Refuse, Gate, NotAllowed, ExecCancelled, Return, CloseWithDrain
<1>2. ASSUME Provider PROVE (Drain \/ UNCHANGED <<pending, chan, merged>>) /\ accepted' = accepted
    <2>1. CASE \E n \in 1..MaxCalls : \E sigs \in [1..n -> Signature], decisions \in [1..n -> Decision] :
                   ToolReply(sigs, decisions)
        BY <2>1 DEF ToolReply
    <2>2. CASE StreamError \/ ContextTooLong \/ FinalReply \/ \E sawDone \in BOOLEAN : EmptyReply(sawDone)
        BY <2>2 DEF StreamError, ContextTooLong, FinalReply, EmptyReply, CloseWithDrain
    <2> QED
        BY <1>2, <2>1, <2>2 DEF Provider
<1>3. ASSUME Tools PROVE UNCHANGED <<pending, chan, merged, accepted>>
    BY <1>3 DEF Tools, BatchDone, ExecDone
<1>4. ASSUME World PROVE \/ UNCHANGED <<pending, chan, merged, accepted>>
                         \/ \E id \in Steer, edit \in BOOLEAN : SendSteer(id, edit)
    BY <1>4 DEF World, Allowed, SenderDrops, Abort, DeadlineFires, WallElapses
<1>5. ASSUME StreamSteered \/ ToolSteered PROVE Record /\ accepted' = accepted
    BY <1>5 DEF StreamSteered, ToolSteered
<1>6. ASSUME NoticeClosed \/ Idle \/ UNCHANGED vars PROVE UNCHANGED <<pending, chan, merged, accepted>>
    BY <1>6 DEF NoticeClosed, CloseReceiver, Idle, vars
<1> QED
    BY <1>1, <1>2, <1>3, <1>4, <1>5, <1>6 DEF Next

LEMMA SteeredStep == ASSUME SteerLists, Steered, [Next]_vars PROVE SteerLists' /\ Steered'
    BY SteerMoves, DrainSteered, RecordSteered, SendSteered, SteeredFrame DEF SteerLists

LEMMA SteeredInit == Init => SteerLists /\ Steered
<1> SUFFICES ASSUME Init PROVE SteerLists /\ Steered
    OBVIOUS
<1>1. SteerLists /\ accepted = <<>> /\ DOMAIN accepted = {}
    BY EmptySeq, LenProperties DEF Init, SteerLists
<1>2. Elements(Journey) = {} /\ Elements(pending) = {} /\ Elements(chan) = {}
    BY <1>1, JourneyParts, NoneFollows DEF Init
<1>3. SteersInOrder
    BY <1>1, JourneyParts, NoneFollows DEF Ordered, Init
<1> QED
    BY <1>1, <1>2, <1>3 DEF Steered, Fresh, Known, SteersAccounted

-----------------------------------------------------------------------------
(* Where the loop is *)

Pc == {"top", "stream", "interrupted", "batch", "gate", "ask", "exec", "closing", "returned"}
Values == {"none", "Ok", "Cancelled", "WallTimeout", "Failed", "MaxIterations"}

Control ==
  /\ pc \in Pc /\ result \in Values
  /\ iteration \in 0..MaxIterations /\ empties \in 0..MaxEmpty
  /\ pc \in {"stream", "interrupted", "batch", "gate", "ask", "exec"} => iteration < MaxIterations

Flags ==
  /\ cancelled \in BOOLEAN /\ fired \in BOOLEAN /\ late \in BOOLEAN
  /\ rxOpen \in BOOLEAN /\ senderUp \in BOOLEAN

LEMMA ControlInit == Init => Control /\ Flags /\ Shape
<1>1. MaxIterations \in Nat /\ MaxEmpty \in Nat
    BY BoundsAssumption
<1> SUFFICES ASSUME Init PROVE Control /\ Flags /\ Shape
    OBVIOUS
<1>2. /\ pc = "top" /\ result = "none" /\ iteration = 0 /\ empties = 0
      /\ batch = <<>> /\ gated = <<>>
      /\ cancelled = FALSE /\ fired = FALSE /\ late = FALSE /\ rxOpen = TRUE /\ senderUp = TRUE
    BY DEF Init
<1>3. Control
    BY <1>1, <1>2 DEF Control, Pc, Values
<1>4. Flags
    BY <1>2 DEF Flags
<1>5. Shape
    BY <1>2 DEF Shape
<1> QED
    BY <1>3, <1>4, <1>5

LEMMA FlagsStep == ASSUME Flags, [Next]_vars PROVE Flags'
<1> USE DEF turn, tokens, guard, calls, sender, receiver, Flags
<1>1. ASSUME Progress PROVE Flags'
    <2>1. CASE Gate
        BY <2>1 DEF Gate, Drain
    <2>2. CASE ExecCancelled
        BY <2>2 DEF ExecCancelled, CloseWithDrain, Drain
    <2> QED
        BY <1>1, <2>1, <2>2 DEF Progress, StartIteration, StopAtTop, IterationsExhausted,
           StreamCancelled, Reissue, BatchCancelled, BatchOver, Refuse, NotAllowed, Return,
           CloseWithDrain, Drain
<1>2. ASSUME Provider PROVE Flags'
    <2>1. CASE \E n \in 1..MaxCalls : \E sigs \in [1..n -> Signature], decisions \in [1..n -> Decision] :
                   ToolReply(sigs, decisions)
        BY <2>1 DEF ToolReply
    <2>2. CASE StreamError \/ ContextTooLong \/ FinalReply \/ \E sawDone \in BOOLEAN : EmptyReply(sawDone)
        BY <2>2 DEF StreamError, ContextTooLong, FinalReply, EmptyReply, CloseWithDrain, Drain
    <2> QED
        BY <1>2, <2>1, <2>2 DEF Provider
<1>3. ASSUME Tools PROVE Flags'
    BY <1>3 DEF Tools, BatchDone, ExecDone
<1>4. ASSUME World PROVE Flags'
    BY <1>4 DEF World, Allowed, SendSteer, SenderDrops, Abort, DeadlineFires, WallElapses
<1>5. ASSUME StreamSteered \/ ToolSteered PROVE Flags'
    BY <1>5 DEF StreamSteered, ToolSteered, Record
<1>6. ASSUME NoticeClosed \/ Idle \/ UNCHANGED vars PROVE Flags'
    BY <1>6 DEF NoticeClosed, CloseReceiver, Idle, vars
<1> QED
    BY <1>1, <1>2, <1>3, <1>4, <1>5, <1>6 DEF Next

LEMMA ControlStep == ASSUME Control, Shape, [Next]_vars PROVE Control' /\ Shape'
<1> USE BoundsAssumption DEF turn, tokens, guard, calls, sender, receiver, Control, Shape, Pc, Values
<1>1. ASSUME Progress PROVE Control' /\ Shape'
    <2>1. CASE Gate
        BY <2>1 DEF Gate
    <2>2. CASE ExecCancelled
        BY <2>2 DEF ExecCancelled, CloseWithDrain, Close
    <2>3. CASE StartIteration \/ StopAtTop \/ IterationsExhausted \/ StreamCancelled \/ BatchCancelled
        BY <2>3 DEF StartIteration, StopAtTop, IterationsExhausted, StreamCancelled, BatchCancelled,
           CloseWithDrain, Close
    <2>4. CASE Reissue \/ BatchOver
        BY <2>4 DEF Reissue, BatchOver, Continue
    <2>5. CASE Refuse \/ NotAllowed \/ Return
        BY <2>5 DEF Refuse, NotAllowed, Return
    <2> QED
        BY <1>1, <2>1, <2>2, <2>3, <2>4, <2>5 DEF Progress
<1>2. ASSUME Provider PROVE Control' /\ Shape'
    <2>1. ASSUME NEW sigs, NEW decisions, ToolReply(sigs, decisions) PROVE Control' /\ Shape'
        <3>1. /\ pc = "stream" /\ UNCHANGED <<result, iteration>> /\ empties' = 0
              /\ pc' = IF batch' # <<>> THEN "batch" ELSE "gate"
            BY <2>1 DEF ToolReply
        <3> QED
            BY <3>1
    <2>2. CASE FinalReply
        BY <2>2 DEF FinalReply, Continue
    <2>3. ASSUME NEW sawDone \in BOOLEAN, EmptyReply(sawDone) PROVE Control' /\ Shape'
        BY <2>3 DEF EmptyReply, Continue, CloseWithDrain, Close
    <2>4. CASE StreamError \/ ContextTooLong
        BY <2>4 DEF StreamError, ContextTooLong, CloseWithDrain, Close, Continue
    <2> QED
        BY <1>2, <2>1, <2>2, <2>3, <2>4 DEF Provider
<1>3. ASSUME Tools PROVE Control' /\ Shape'
    <2>1. ASSUME NEW ok, BatchDone(ok) PROVE Control' /\ Shape'
        BY <2>1 DEF BatchDone
    <2>2. ASSUME NEW ok, NEW diagnosed, ExecDone(ok, diagnosed) PROVE Control' /\ Shape'
        BY <2>2 DEF ExecDone
    <2> QED
        BY <1>3, <2>1, <2>2 DEF Tools
<1>4. ASSUME World PROVE Control' /\ Shape'
    BY <1>4 DEF World, Allowed, SendSteer, SenderDrops, Abort, DeadlineFires, WallElapses
<1>5. ASSUME StreamSteered \/ ToolSteered PROVE Control' /\ Shape'
    BY <1>5 DEF StreamSteered, ToolSteered
<1>6. ASSUME NoticeClosed \/ Idle \/ UNCHANGED vars PROVE Control' /\ Shape'
    BY <1>6 DEF NoticeClosed, Idle, vars
<1> QED
    BY <1>1, <1>2, <1>3, <1>4, <1>5, <1>6 DEF Next

\* A turn that fails puts what waits into the history first.
LEMMA FailingDrains ==
    ASSUME SteerLists, [Next]_vars, Fails, rxOpen PROVE pending' \o chan' = <<>>
<1> USE DEF turn, tokens, guard, calls, sender, receiver
<1>1. ASSUME Drain PROVE pending' \o chan' = <<>>
    <2>1. CASE SteersWait
        <3>1. pending' = <<>> /\ chan' = <<>>
            BY <1>1, <2>1 DEF Drain
        <3>2. <<>> \o <<>> = <<>>
            BY EmptySeq, ConcatEmptySeq
        <3> QED
            BY <3>1, <3>2
    <2>2. CASE ~SteersWait
        BY <1>1, <2>2 DEF Drain, SteersWait
    <2> QED
        BY <2>1, <2>2
<1>2. ASSUME Progress PROVE Drain
    <2>1. CASE ExecCancelled
        BY <2>1 DEF ExecCancelled, CloseWithDrain, Close, Fails
    <2> QED
        BY <1>2, <2>1 DEF Progress, StartIteration, StopAtTop, IterationsExhausted, StreamCancelled,
           Reissue, BatchCancelled, BatchOver, Refuse, Gate, NotAllowed, Return, CloseWithDrain,
           Close, Continue, Fails
<1>3. ASSUME Provider PROVE Drain
    <2>1. ASSUME NEW sigs, NEW decisions, ToolReply(sigs, decisions) PROVE FALSE
        <3>1. pc' = IF batch' # <<>> THEN "batch" ELSE "gate"
            BY <2>1 DEF ToolReply
        <3> QED
            BY <3>1 DEF Fails
    <2>2. ASSUME NEW sawDone \in BOOLEAN, EmptyReply(sawDone) PROVE Drain
        BY <2>2 DEF EmptyReply, Continue, CloseWithDrain, Fails
    <2>3. CASE StreamError \/ ContextTooLong \/ FinalReply
        BY <2>3 DEF StreamError, ContextTooLong, FinalReply, CloseWithDrain, Continue, Fails
    <2> QED
        BY <1>3, <2>1, <2>2, <2>3 DEF Provider
<1>4. ~Tools /\ ~World /\ ~StreamSteered /\ ~ToolSteered /\ ~NoticeClosed /\ ~Idle /\ ~UNCHANGED vars
    BY DEF Tools, BatchDone, ExecDone, World, Allowed, SendSteer, SenderDrops, Abort, DeadlineFires,
       WallElapses, StreamSteered, ToolSteered, NoticeClosed, Idle, vars, Fails
<1> QED
    BY <1>1, <1>2, <1>3, <1>4 DEF Next

-----------------------------------------------------------------------------
(* Calls and their answers in the history *)

LEMMA MessageTypes ==
    /\ User \in Message /\ Summary \in Message /\ Assistant({}) \in Message
    /\ \A c \in Call : Answer(c) \in Message /\ GuardNote(c) \in Message
    /\ \A cs : cs \subseteq Call => Assistant(cs) \in Message
<1>1. {} \subseteq Int /\ \A c \in Call : c.id \in Nat /\ {c.id} \subseteq Int /\ {-c.id} \subseteq Int
    BY DEF Call
<1>2. User \in Message /\ Summary \in Message /\ Assistant({}) \in Message
    BY <1>1 DEF User, Summary, Assistant, Message
<1>3. ASSUME NEW c \in Call PROVE Answer(c) \in Message /\ GuardNote(c) \in Message
    <2>1. {c.id} \in SUBSET Int /\ {-c.id} \in SUBSET Int
        BY <1>1
    <2> QED
        BY <2>1 DEF Answer, GuardNote, Message
<1>4. ASSUME NEW cs, cs \subseteq Call PROVE Assistant(cs) \in Message
    <2>1. {c.id : c \in cs} \in SUBSET Int
        BY <1>1, <1>4
    <2> QED
        BY <2>1 DEF Assistant, Message
<1> QED
    BY <1>2, <1>3, <1>4

LEMMA CallsAreInts ==
    ASSUME NEW h \in Seq(Message), NEW i \in DOMAIN h
    PROVE  /\ h[i].calls \subseteq Int /\ h[i] \in Message
           /\ i \in Nat \ {0} /\ h[i].role \in {"user", "assistant", "tool", "system"}
<1>1. h[i] \in Message /\ i \in Nat \ {0}
    BY ElementOfSeq, LenProperties
<1> QED
    BY <1>1 DEF Message

LEMMA NumberedAppend ==
    ASSUME NEW h \in Seq(Message), NEW m \in Message, NEW n, Numbered(h, n),
           m.role = "assistant" => m.calls \subseteq 1..n,
           m.role = "tool" => \A c \in m.calls : c <= n
    PROVE  Numbered(Append(h, m), n)
    BY Appended DEF Numbered

LEMMA NumberedMore ==
    ASSUME NEW h \in Seq(Message), NEW n \in Nat, NEW k \in Nat, n <= k, Numbered(h, n)
    PROVE  Numbered(h, k)
    BY CallsAreInts DEF Numbered

LEMMA AnswersMore ==
    ASSUME NEW h \in Seq(Message), NEW m \in Message, NEW c, m.role = "tool", c \in m.calls
    PROVE  AnswersOf(Append(h, m), c) = AnswersOf(h, c) \cup {Len(h) + 1}
    BY Appended DEF AnswersOf

LEMMA AnswersSame ==
    ASSUME NEW h \in Seq(Message), NEW m \in Message, NEW c, ~(m.role = "tool" /\ c \in m.calls)
    PROVE  AnswersOf(Append(h, m), c) = AnswersOf(h, c)
    BY Appended DEF AnswersOf

\* One message more: it answers open calls, or none.
LEMMA PairedAppend ==
    ASSUME NEW h \in Seq(Message), NEW m \in Message, NEW n, NEW open, NEW left,
           Numbered(h, n), Paired(h, open), m.role = "assistant" => m.calls = {},
           IF m.role = "tool" THEN m.calls \cap 1..n \subseteq open /\ left = open \ m.calls
                              ELSE left = open
    PROVE  Paired(Append(h, m), left)
<1>0. /\ DOMAIN h = 1..Len(h) /\ Len(h) \in Nat /\ DOMAIN Append(h, m) = 1..(Len(h) + 1)
      /\ \A i \in 1..Len(h) : Append(h, m)[i] = h[i]
      /\ Append(h, m)[Len(h) + 1] = m
    BY Appended
<1> SUFFICES ASSUME NEW i \in DOMAIN Append(h, m), NEW c \in Append(h, m)[i].calls,
                    Append(h, m)[i].role = "assistant"
             PROVE  IF c \in left THEN AnswersOf(Append(h, m), c) = {}
                    ELSE \E j \in DOMAIN Append(h, m) : j > i /\ AnswersOf(Append(h, m), c) = {j}
    BY DEF Paired
<1>1. i \in DOMAIN h /\ c \in h[i].calls /\ h[i].role = "assistant" /\ c \in 1..n
    BY <1>0 DEF Numbered
<1>2. IF c \in open THEN AnswersOf(h, c) = {} ELSE \E j \in DOMAIN h : j > i /\ AnswersOf(h, c) = {j}
    BY <1>1 DEF Paired
<1>3. CASE m.role = "tool" /\ c \in m.calls
    <2>1. c \in open /\ c \notin left
        BY <1>1, <1>3
    <2>2. AnswersOf(Append(h, m), c) = {Len(h) + 1}
        BY <1>2, <1>3, <2>1, AnswersMore
    <2>3. Len(h) + 1 \in DOMAIN Append(h, m) /\ Len(h) + 1 > i
        BY <1>0, <1>1
    <2> QED
        BY <2>1, <2>2, <2>3
<1>4. CASE ~(m.role = "tool" /\ c \in m.calls)
    <2>1. AnswersOf(Append(h, m), c) = AnswersOf(h, c)
        BY <1>4, AnswersSame
    <2>2. c \in left <=> c \in open
        BY <1>4
    <2>3. DOMAIN h \subseteq DOMAIN Append(h, m)
        BY <1>0
    <2> QED
        BY <1>2, <2>1, <2>2, <2>3
<1> QED
    BY <1>3, <1>4

\* A reply with new calls, none of which is answered yet.
LEMMA PairedReply ==
    ASSUME NEW h \in Seq(Message), NEW m \in Message, NEW n \in Nat,
           NEW open, Numbered(h, n), Paired(h, open), m.role = "assistant",
           \A c \in m.calls : c > n
    PROVE  Paired(Append(h, m), m.calls \cup open)
<1>0. /\ DOMAIN h = 1..Len(h) /\ Len(h) \in Nat /\ DOMAIN Append(h, m) = 1..(Len(h) + 1)
      /\ \A i \in 1..Len(h) : Append(h, m)[i] = h[i]
      /\ Append(h, m)[Len(h) + 1] = m
    BY Appended
<1> SUFFICES ASSUME NEW i \in DOMAIN Append(h, m), NEW c \in Append(h, m)[i].calls,
                    Append(h, m)[i].role = "assistant"
             PROVE  IF c \in m.calls \cup open THEN AnswersOf(Append(h, m), c) = {}
                    ELSE \E j \in DOMAIN Append(h, m) : j > i /\ AnswersOf(Append(h, m), c) = {j}
    BY DEF Paired
<1>1. AnswersOf(Append(h, m), c) = AnswersOf(h, c)
    BY AnswersSame
<1>2. CASE i = Len(h) + 1
    <2>1. c \in m.calls /\ c > n /\ c \in Int
        BY <1>0, <1>2 DEF Message
    <2>2. \A j \in DOMAIN h : ~(h[j].role = "tool" /\ c \in h[j].calls)
        BY <2>1 DEF Numbered
    <2> QED
        BY <1>1, <2>1, <2>2 DEF AnswersOf
<1>3. CASE i # Len(h) + 1
    <2>1. i \in DOMAIN h /\ c \in h[i].calls /\ h[i].role = "assistant" /\ c \in 1..n
        BY <1>0, <1>3 DEF Numbered
    <2>2. c \notin m.calls
        BY <2>1
    <2>3. IF c \in open THEN AnswersOf(h, c) = {} ELSE \E j \in DOMAIN h : j > i /\ AnswersOf(h, c) = {j}
        BY <2>1 DEF Paired
    <2> QED
        BY <1>0, <1>1, <2>2, <2>3
<1> QED
    BY <1>2, <1>3

\* What compaction leaves: a later part of the history behind a summary.
LEMMA SuffixPaired ==
    ASSUME NEW h \in Seq(Message), NEW n, NEW open, NEW from \in 1..(Len(h) + 1),
           Numbered(h, n), Paired(h, open)
    PROVE  LET g == <<Summary>> \o SubSeq(h, from, Len(h))
           IN  g \in Seq(Message) /\ Numbered(g, n) /\ Paired(g, open)
<1> DEFINE tail == SubSeq(h, from, Len(h))
           g == <<Summary>> \o tail
           d == from - 2
<1>1. Len(h) \in Nat /\ DOMAIN h = 1..Len(h) /\ from \in Nat \ {0}
    BY LenProperties
<1>2. /\ tail \in Seq(Message) /\ Len(tail) = Len(h) - from + 1
      /\ \A i \in 1..Len(tail) : tail[i] = h[from + i - 1]
    <2>1. \A i \in from..Len(h) : h[i] \in Message
        BY <1>1, ElementOfSeq
    <2> QED
        BY <1>1, <2>1, SubSeqProperties
<1>3. <<Summary>> \in Seq(Message) /\ Len(<<Summary>>) = 1 /\ <<Summary>>[1] = Summary
    BY MessageTypes
<1> HIDE DEF tail
<1>4. /\ g \in Seq(Message) /\ Len(g) = 1 + Len(tail) /\ DOMAIN g = 1..(1 + Len(tail))
      /\ \A i \in 1..(1 + Len(tail)) : g[i] = IF i <= 1 THEN <<Summary>>[i] ELSE tail[i - 1]
    <2>1. DOMAIN g = 1..(1 + Len(tail)) /\ g \in Seq(Message) /\ Len(g) = 1 + Len(tail)
        <3>1. <<Summary>> \in Seq(Message) /\ tail \in Seq(Message) /\ Len(<<Summary>>) = 1
            BY <1>2, <1>3
        <3>2. /\ <<Summary>> \o tail \in Seq(Message) /\ Len(<<Summary>> \o tail) = Len(<<Summary>>) + Len(tail)
              /\ DOMAIN (<<Summary>> \o tail) = 1..(Len(<<Summary>>) + Len(tail))
            BY <3>1, Joined
        <3> QED
            BY <3>1, <3>2
    <2>2. \A i \in 1..(1 + Len(tail)) : g[i] = IF i <= 1 THEN <<Summary>>[i] ELSE tail[i - 1]
        BY <1>2, <1>3, ConcatProperties
    <2> HIDE DEF g
    <2> QED
        BY <2>1, <2>2
<1> HIDE DEF g
<1>5. g[1] = Summary /\ \A i \in 2..Len(g) : i + d \in from..Len(h) /\ g[i] = h[i + d]
    <2>1. g[1] = Summary
        BY <1>1, <1>2, <1>3, <1>4
    <2>2. ASSUME NEW i \in 2..Len(g) PROVE i + d \in from..Len(h) /\ g[i] = h[i + d]
        <3>1. i - 1 \in 1..Len(tail) /\ g[i] = tail[i - 1]
            BY <1>1, <1>2, <1>4
        <3>2. from + (i - 1) - 1 = i + d
            BY <1>1
        <3> QED
            BY <1>1, <1>2, <1>4, <3>1, <3>2
    <2> QED
        BY <2>1, <2>2
<1>6. DOMAIN g = 1..Len(g) /\ Len(g) = Len(h) - d /\ d \in Int
    BY <1>1, <1>2, <1>4
<1>7. Summary.role = "system" /\ Summary.calls = {}
    BY DEF Summary
<1> DEFINE src(i) == i + d
<1>8. \A i \in DOMAIN g :
          \/ g[i] = Summary
          \/ /\ i \in 2..Len(g) /\ g[i] = h[src(i)] /\ src(i) \in DOMAIN h
             /\ src(i) = i + d /\ src(i) \in from..Len(h)
    <2> TAKE i \in DOMAIN g
    <2>1. i = 1 \/ i \in 2..Len(g)
        BY <1>6
    <2>2. CASE i = 1
        BY <1>5, <2>2
    <2>3. CASE i \in 2..Len(g)
        <3>1. i + d \in from..Len(h) /\ g[i] = h[i + d]
            BY <1>5, <2>3
        <3>2. i + d \in DOMAIN h
            BY <1>1, <3>1
        <3> QED
            BY <2>3, <3>1, <3>2
    <2> QED
        BY <2>1, <2>2, <2>3
<1> HIDE DEF src, d
<1>12. Numbered(g, n)
    <2> SUFFICES ASSUME NEW i \in DOMAIN g, NEW c \in g[i].calls
                 PROVE  /\ g[i].role = "assistant" => c \in 1..n
                        /\ g[i].role = "tool" => c <= n
        BY DEF Numbered
    <2>1. g[i] = h[src(i)] /\ src(i) \in DOMAIN h
        BY <1>7, <1>8
    <2> QED
        BY <2>1 DEF Numbered
<1>9. ASSUME NEW i \in DOMAIN g, NEW c \in g[i].calls, g[i].role = "assistant"
      PROVE  IF c \in open THEN AnswersOf(g, c) = {} ELSE \E j \in DOMAIN g : j > i /\ AnswersOf(g, c) = {j}
    <2>1. /\ i \in 2..Len(g) /\ g[i] = h[src(i)] /\ src(i) \in DOMAIN h /\ src(i) = i + d
          /\ src(i) \in from..Len(h)
        BY <1>7, <1>8, <1>9
    <2>7. CASE c \in open
        <3>1. AnswersOf(h, c) = {}
            BY <1>9, <2>1, <2>7 DEF Paired
        <3>2. ASSUME NEW j \in DOMAIN g, g[j].role = "tool", c \in g[j].calls PROVE FALSE
            <4>1. g[j] = h[src(j)] /\ src(j) \in DOMAIN h
                BY <1>7, <1>8, <3>2
            <4> QED
                BY <3>1, <3>2, <4>1 DEF AnswersOf
        <3> QED
            BY <2>7, <3>2 DEF AnswersOf
    <2> SUFFICES ASSUME c \notin open PROVE \E j \in DOMAIN g : j > i /\ AnswersOf(g, c) = {j}
        BY <2>7
    <2>2. PICK k \in DOMAIN h : k > src(i) /\ AnswersOf(h, c) = {k}
        BY <1>9, <2>1 DEF Paired
    <2>3. k - d \in 2..Len(g) /\ k - d > i /\ g[k - d] = h[k]
        <3>1. k - d \in 2..Len(g) /\ k - d > i /\ (k - d) + d = k
            BY <1>1, <1>6, <2>1, <2>2
        <3> QED
            BY <1>5, <3>1
    <2>4. h[k].role = "tool" /\ c \in h[k].calls
        BY <2>2 DEF AnswersOf
    <2>5. ASSUME NEW j \in DOMAIN g, g[j].role = "tool", c \in g[j].calls PROVE j = k - d
        <3>1. j \in 2..Len(g) /\ g[j] = h[src(j)] /\ src(j) \in DOMAIN h /\ src(j) = j + d
            BY <1>7, <1>8, <2>5
        <3>2. src(j) \in AnswersOf(h, c)
            BY <2>5, <3>1 DEF AnswersOf
        <3>3. j + d = k
            BY <2>2, <3>1, <3>2
        <3> QED
            BY <1>6, <3>1, <3>3
    <2>6. AnswersOf(g, c) = {k - d}
        BY <1>6, <2>3, <2>4, <2>5 DEF AnswersOf
    <2> QED
        BY <1>6, <2>3, <2>6
<1>10. Paired(g, open)
    BY <1>9 DEF Paired
<1>11. g = <<Summary>> \o SubSeq(h, from, Len(h))
    BY DEF g, tail
<1> QED
    BY <1>4, <1>10, <1>11, <1>12

LEMMA CompactPaired ==
    ASSUME NEW h \in Seq(Message), NEW n, NEW open, Numbered(h, n), Paired(h, open)
    PROVE  Compact(h) \in Seq(Message) /\ Numbered(Compact(h), n) /\ Paired(Compact(h), open)
<1> DEFINE prefix == IF h # <<>> /\ h[1] = Summary THEN 1 ELSE 0
           raw    == Len(h) - KeepRecent(Len(h)) + 1
           cuts   == {i \in raw..Len(h) : Boundary(h[i])} \cup {Len(h) + 1}
           from   == CHOOSE i \in cuts : \A j \in cuts : i <= j
<1>1. CASE Len(h) <= KeepRecent(Len(h)) \/ from <= prefix + 1
    <2>1. Compact(h) = h
        BY <1>1 DEF Compact
    <2> QED
        BY <2>1
<1>2. CASE ~(Len(h) <= KeepRecent(Len(h)) \/ from <= prefix + 1)
    <2>1. Compact(h) = <<Summary>> \o SubSeq(h, from, Len(h))
        BY <1>2 DEF Compact
    <2>2. Len(h) \in Nat
        BY LenProperties
    <2>3. KeepRecent(Len(h)) \in Nat
        BY <2>2 DEF KeepRecent, Greater, Lesser
    <2>4. cuts \subseteq 1..(Len(h) + 1) /\ cuts # {} /\ cuts \subseteq Nat
        BY <1>2, <2>2, <2>3
    <2>5. from \in cuts
        <3> HIDE DEF cuts
        <3>1. \E i \in cuts : \A j \in cuts : i <= j
            BY <2>4, Least
        <3> QED
            BY <3>1
    <2> HIDE DEF from, cuts
    <2>6. from \in 1..(Len(h) + 1)
        BY <2>4, <2>5
    <2> QED
        BY <2>1, <2>6, SuffixPaired
<1> QED
    BY <1>1, <1>2

LEMMA CompactionsPaired ==
    ASSUME NEW h \in Seq(Message), NEW n, NEW open, Numbered(h, n), Paired(h, open), NEW g \in Compactions(h)
    PROVE  g \in Seq(Message) /\ Numbered(g, n) /\ Paired(g, open)
<1> DEFINE Good(x) == x \in Seq(Message) /\ Numbered(x, n) /\ Paired(x, open)
           Equation(r) == r = [k \in 1..5 |-> Compact(IF k = 1 THEN h ELSE r[k - 1])]
<1>1. CASE Len(h) <= 3
    BY <1>1 DEF Compactions
<1>2. CASE ~(Len(h) <= 3)
    <2>1. \E r : Equation(r)
        <3> DEFINE c1 == Compact(h)
                   c2 == Compact(c1)
                   c3 == Compact(c2)
                   c4 == Compact(c3)
                   r  == [k \in 1..5 |-> IF k = 1 THEN c1 ELSE IF k = 2 THEN c2 ELSE IF k = 3 THEN c3
                                         ELSE IF k = 4 THEN c4 ELSE Compact(c4)]
        <3>1. \A k \in 1..5 : r[k] = Compact(IF k = 1 THEN h ELSE r[k - 1])
            <4>1. r[1] = c1 /\ r[2] = c2 /\ r[3] = c3 /\ r[4] = c4 /\ r[5] = Compact(c4)
                OBVIOUS
            <4> HIDE DEF r
            <4>2. ASSUME NEW k \in 1..5 PROVE k = 1 \/ k = 2 \/ k = 3 \/ k = 4 \/ k = 5
                OBVIOUS
            <4>3. /\ r[1] = Compact(h) /\ r[2] = Compact(r[1]) /\ r[3] = Compact(r[2])
                  /\ r[4] = Compact(r[3]) /\ r[5] = Compact(r[4])
                BY <4>1
            <4> QED
                BY <4>2, <4>3
        <3>2. r = [k \in 1..5 |-> r[k]]
            OBVIOUS
        <3> HIDE DEF r
        <3> QED
            BY <3>1, <3>2
    <2>2. PICK r : Equation(r) /\ Compactions(h) = {r[k] : k \in 1..5}
        BY <1>2, <2>1 DEF Compactions
    <2>3. /\ r[1] = Compact(h) /\ r[2] = Compact(r[1]) /\ r[3] = Compact(r[2])
          /\ r[4] = Compact(r[3]) /\ r[5] = Compact(r[4])
        BY <2>2
    <2> HIDE DEF Equation
    <2>4. \A x : Good(x) => Good(Compact(x))
        BY CompactPaired
    <2> HIDE DEF Good
    <2>5. Good(h)
        BY DEF Good
    <2>6. Good(r[1]) /\ Good(r[2]) /\ Good(r[3]) /\ Good(r[4]) /\ Good(r[5])
        BY <2>3, <2>4, <2>5
    <2>7. \A k \in 1..5 : k = 1 \/ k = 2 \/ k = 3 \/ k = 4 \/ k = 5
        OBVIOUS
    <2> QED
        BY <2>2, <2>6, <2>7 DEF Good
<1> QED
    BY <1>1, <1>2

-----------------------------------------------------------------------------
(* The calls of a reply *)

LEMMA AppendJoins == ASSUME NEW S, NEW p \in Seq(S), NEW e \in S PROVE p \o <<e>> = Append(p, e)
<1>1. <<e>> \in Seq(S) /\ Len(<<e>>) = 1 /\ <<e>>[1] = e
    OBVIOUS
<1>2. /\ p \o <<e>> \in Seq(S) /\ Len(p \o <<e>>) = Len(p) + 1 /\ Len(p) \in Nat
      /\ \A i \in 1..Len(p) : (p \o <<e>>)[i] = p[i]
      /\ (p \o <<e>>)[Len(p) + 1] = e
    BY <1>1, Joined
<1>3. /\ Append(p, e) \in Seq(S) /\ Len(Append(p, e)) = Len(p) + 1
      /\ \A i \in 1..Len(p) : Append(p, e)[i] = p[i]
      /\ Append(p, e)[Len(p) + 1] = e
    BY Appended
<1>4. \A i \in 1..(Len(p) + 1) : (p \o <<e>>)[i] = Append(p, e)[i]
    BY <1>2, <1>3
<1> QED
    BY <1>2, <1>3, <1>4, SeqEqual

Picked(s, d, n) == {i \in 1..n : s[i].decision = d}
Counting(s, d, sig, n) == {i \in 1..n : s[i].decision = d /\ s[i].sig = sig}

LEMMA CountingFinite ==
    ASSUME NEW s, NEW d, NEW sig, NEW n \in Nat
    PROVE  IsFiniteSet(Counting(s, d, sig, n)) /\ Cardinality(Counting(s, d, sig, n)) \in Nat
<1>1. IsFiniteSet(1..n)
    BY FS_Interval
<1> QED
    BY <1>1, FS_Subset, FS_CardinalityType DEF Counting

LEMMA CountingMore ==
    ASSUME NEW s, NEW d, NEW sig, NEW n \in Nat
    PROVE  Cardinality(Counting(s, d, sig, n + 1)) = Cardinality(Counting(s, d, sig, n)) +
               (IF s[n + 1].decision = d /\ s[n + 1].sig = sig THEN 1 ELSE 0)
<1>0. IsFiniteSet(Counting(s, d, sig, n)) /\ Cardinality(Counting(s, d, sig, n)) \in Nat
    BY CountingFinite
<1>1. n + 1 \notin Counting(s, d, sig, n)
    BY DEF Counting
<1>2. CASE s[n + 1].decision = d /\ s[n + 1].sig = sig
    <2>1. Counting(s, d, sig, n + 1) = Counting(s, d, sig, n) \cup {n + 1}
        BY <1>2 DEF Counting
    <2> QED
        BY <1>0, <1>1, <1>2, <2>1, FS_AddElement
<1>3. CASE ~(s[n + 1].decision = d /\ s[n + 1].sig = sig)
    <2>1. Counting(s, d, sig, n + 1) = Counting(s, d, sig, n)
        BY <1>3 DEF Counting
    <2> QED
        BY <1>0, <1>3, <2>1
<1> QED
    BY <1>2, <1>3

LEMMA TimesType ==
    ASSUME NEW s \in Seq(Call), NEW sig
    PROVE  IsFiniteSet({i \in DOMAIN s : s[i].sig = sig}) /\ Times(s, sig) \in Nat
<1>1. IsFiniteSet(DOMAIN s)
    BY FS_Interval, LenProperties
<1> QED
    BY <1>1, FS_Subset, FS_CardinalityType DEF Times

LEMMA TimesNone == ASSUME NEW sig PROVE Times(<<>>, sig) = 0
<1>1. {i \in DOMAIN <<>> : <<>>[i].sig = sig} = {}
    BY EmptySeq, LenProperties
<1> QED
    BY <1>1, FS_EmptySet DEF Times

LEMMA TimesAppend ==
    ASSUME NEW s \in Seq(Call), NEW c \in Call, NEW sig
    PROVE  Times(Append(s, c), sig) = Times(s, sig) + (IF c.sig = sig THEN 1 ELSE 0)
<1> DEFINE old == {i \in DOMAIN s : s[i].sig = sig}
           all == {i \in DOMAIN Append(s, c) : Append(s, c)[i].sig = sig}
<1>0. Times(Append(s, c), sig) = Cardinality(all) /\ Times(s, sig) = Cardinality(old)
    BY DEF Times
<1>1. IsFiniteSet(old) /\ Cardinality(old) \in Nat
    BY <1>0, TimesType
<1>2. Len(s) + 1 \notin old
    BY LenProperties
<1>3. all = IF c.sig = sig THEN old \cup {Len(s) + 1} ELSE old
    BY Appended
<1> HIDE DEF old, all
<1>4. Cardinality(old \cup {Len(s) + 1}) = Cardinality(old) + 1
    BY <1>1, <1>2, FS_AddElement
<1>5. CASE c.sig = sig
    BY <1>0, <1>3, <1>4, <1>5
<1>6. CASE c.sig # sig
    BY <1>0, <1>1, <1>3, <1>6
<1> QED
    BY <1>5, <1>6

LEMMA TimesTail ==
    ASSUME NEW s \in Seq(Call), s # <<>>, NEW sig
    PROVE  Times(s, sig) = Times(Tail(s), sig) + (IF s[1].sig = sig THEN 1 ELSE 0)
<1> DEFINE rest == {i \in DOMAIN Tail(s) : Tail(s)[i].sig = sig}
           moved == {i + 1 : i \in rest}
           all == {i \in DOMAIN s : s[i].sig = sig}
<1>0. Times(s, sig) = Cardinality(all) /\ Times(Tail(s), sig) = Cardinality(rest)
    BY DEF Times
<1>1. /\ Tail(s) \in Seq(Call) /\ Len(s) \in Nat \ {0} /\ DOMAIN s = 1..Len(s)
      /\ DOMAIN Tail(s) = 1..(Len(s) - 1)
      /\ \A i \in 1..(Len(s) - 1) : Tail(s)[i] = s[i + 1]
    BY Tailed
<1>2. IsFiniteSet(rest) /\ Cardinality(rest) \in Nat
    BY <1>1, TimesType DEF Times
<1>3. moved = {i \in DOMAIN s : s[i].sig = sig /\ i # 1}
    <2>1. ASSUME NEW i \in rest PROVE i + 1 \in DOMAIN s /\ s[i + 1].sig = sig /\ i + 1 # 1
        BY <1>1
    <2>2. ASSUME NEW j \in DOMAIN s, s[j].sig = sig, j # 1 PROVE j - 1 \in rest /\ j = (j - 1) + 1
        BY <1>1, <2>2
    <2>3. moved \subseteq {i \in DOMAIN s : s[i].sig = sig /\ i # 1}
        BY <2>1
    <2>4. {i \in DOMAIN s : s[i].sig = sig /\ i # 1} \subseteq moved
        BY <2>2
    <2> QED
        BY <2>3, <2>4
<1>4. IsFiniteSet(moved) /\ Cardinality(moved) = Cardinality(rest)
    <2> DEFINE f == [i \in rest |-> i + 1]
    <2>1. f \in Bijection(rest, moved)
        <3>1. rest \subseteq Nat
            BY <1>1
        <3>2. f \in [rest -> moved]
            OBVIOUS
        <3>3. \A a, b \in rest : f[a] = f[b] => a = b
            BY <3>1
        <3>4. \A y \in moved : \E x \in rest : f[x] = y
            OBVIOUS
        <3> QED
            BY <3>2, <3>3, <3>4, Fun_IsBij
    <2> QED
        BY <1>2, <2>1, Fun_ExistsBij, FS_Bijection
<1>5. all = IF s[1].sig = sig THEN moved \cup {1} ELSE moved
    BY <1>1, <1>3
<1>6. 1 \notin moved
    BY <1>3
<1> HIDE DEF all, moved, rest
<1>7. Cardinality(moved \cup {1}) = Cardinality(moved) + 1
    BY <1>4, <1>6, FS_AddElement
<1>8. CASE s[1].sig = sig
    BY <1>0, <1>4, <1>5, <1>7, <1>8
<1>9. CASE s[1].sig # sig
    BY <1>0, <1>2, <1>4, <1>5, <1>9
<1> QED
    BY <1>8, <1>9

\* The calls among the first n that were decided d.
Choosing(q, s, d, n) ==
  /\ q \in Seq(Call) /\ Elements(q) = {s[i] : i \in Picked(s, d, n)} /\ Distinct(q)
  /\ \A sig : Times(q, sig) = Cardinality(Counting(s, d, sig, n))

LEMMA ChoosingStarts == ASSUME NEW s, NEW d PROVE Choosing(<<>>, s, d, 0)
<1>1. Picked(s, d, 0) = {} /\ \A sig : Counting(s, d, sig, 0) = {}
    BY DEF Picked, Counting
<1>2. <<>> \in Seq(Call) /\ Distinct(<<>>)
    BY EmptySeq, LenProperties DEF Distinct
<1> QED
    BY <1>1, <1>2, ElementsOfNone, TimesNone, FS_EmptySet DEF Choosing

LEMMA ChoosingGoesOn ==
    ASSUME NEW s \in Seq(Call), Distinct(s), NEW d, NEW n \in Nat, n + 1 <= Len(s),
           NEW q, Choosing(q, s, d, n)
    PROVE  Choosing(IF s[n + 1].decision = d THEN Append(q, s[n + 1]) ELSE q, s, d, n + 1)
<1> DEFINE c == s[n + 1]
<1>1. DOMAIN s = 1..Len(s) /\ Len(s) \in Nat /\ n + 1 \in DOMAIN s /\ c \in Call
    BY ElementOfSeq, LenProperties
<1>2. q \in Seq(Call) /\ Elements(q) = {s[i] : i \in Picked(s, d, n)} /\ Distinct(q)
    BY DEF Choosing
<1>3. CASE c.decision = d
    <2>1. Append(q, c) \in Seq(Call) /\ Elements(Append(q, c)) = Elements(q) \cup {c}
        BY <1>1, <1>2, Appended, ElementsAppended
    <2>2. Picked(s, d, n + 1) = Picked(s, d, n) \cup {n + 1}
        BY <1>3 DEF Picked
    <2>3. Elements(Append(q, c)) = {s[i] : i \in Picked(s, d, n + 1)}
        BY <1>2, <2>1, <2>2
    <2>4. \A i \in DOMAIN q : q[i].id # c.id
        <3> TAKE i \in DOMAIN q
        <3>1. q[i] \in Elements(q)
            BY DEF Elements
        <3>2. PICK k \in Picked(s, d, n) : q[i] = s[k]
            BY <1>2, <3>1
        <3>3. k \in DOMAIN s /\ k # n + 1
            BY <1>1 DEF Picked
        <3> QED
            BY <1>1, <3>2, <3>3 DEF Distinct
    <2>5. Distinct(Append(q, c))
        BY <1>1, <1>2, <2>4, Appended DEF Distinct
    <2>6. \A sig : Times(Append(q, c), sig) = Cardinality(Counting(s, d, sig, n + 1))
        <3> TAKE sig
        <3>1. Times(q, sig) = Cardinality(Counting(s, d, sig, n))
            BY DEF Choosing
        <3>2. Times(Append(q, c), sig) = Times(q, sig) + (IF c.sig = sig THEN 1 ELSE 0)
            BY <1>1, <1>2, TimesAppend
        <3>3. Cardinality(Counting(s, d, sig, n + 1)) =
                  Cardinality(Counting(s, d, sig, n)) + (IF c.decision = d /\ c.sig = sig THEN 1 ELSE 0)
            BY CountingMore
        <3> QED
            BY <1>3, <3>1, <3>2, <3>3
    <2> QED
        BY <1>3, <2>1, <2>3, <2>5, <2>6 DEF Choosing
<1>4. CASE c.decision # d
    <2>1. Picked(s, d, n + 1) = Picked(s, d, n)
        BY <1>4 DEF Picked
    <2>2. \A sig : Counting(s, d, sig, n + 1) = Counting(s, d, sig, n)
        BY <1>4 DEF Counting
    <2> QED
        BY <1>4, <2>1, <2>2 DEF Choosing
<1> QED
    BY <1>3, <1>4

LEMMA DecidedKeeps ==
    ASSUME NEW s \in Seq(Call), Distinct(s), NEW d
    PROVE  Choosing(Decided(s, d), s, d, Len(s))
<1> DEFINE N == Len(s)
           Next1(q, n) == IF s[n].decision = d THEN Append(q, s[n]) ELSE q
           Equation(h) == h = [n \in 0..N |-> IF n = 0 THEN <<>>
                                              ELSE IF s[n].decision = d THEN Append(h[n - 1], s[n])
                                              ELSE h[n - 1]]
<1>1. N \in Nat /\ \A n \in 1..N : s[n] \in Call
    BY ElementOfSeq, LenProperties
<1>2. \E h : Equation(h)
    <2> DEFINE S == Seq(Call)
               step == [n \in 1..N |-> [q \in S |-> Next1(q, n)]]
    <2>1. step \in [1..N -> [S -> S]] /\ <<>> \in S
        <3>1. \A n \in 1..N, q \in S : Next1(q, n) \in S
            BY <1>1, Appended
        <3>2. <<>> \in S
            BY EmptySeq
        <3> QED
            BY <3>1, <3>2
    <2> HIDE DEF step, S, N
    <2>2. PICK f : Scan(f, N, S, <<>>, step)
        BY <1>1, <2>1, Recursion
    <2>3. ASSUME NEW n \in 1..N PROVE f[n] = Next1(f[n - 1], n)
        <3>1. n - 1 \in 0..N
            BY <1>1
        <3>2. f[n - 1] \in S
            BY <2>2, <3>1 DEF Scan
        <3> QED
            BY <2>2, <3>2 DEF step, Scan
    <2>4. \A n \in 0..N : f[n] = IF n = 0 THEN <<>>
                                 ELSE IF s[n].decision = d THEN Append(f[n - 1], s[n])
                                 ELSE f[n - 1]
        <3> TAKE n \in 0..N
        <3>1. CASE n = 0
            BY <2>2, <3>1 DEF Scan
        <3>2. CASE n # 0
            <4>1. n \in 1..N
                BY <1>1, <3>2
            <4> QED
                BY <2>3, <3>2, <4>1
        <3> QED
            BY <3>1, <3>2
    <2>5. Equation(f)
        BY <2>2, <2>4 DEF Scan
    <2> QED
        BY <2>5
<1>3. PICK h : Equation(h) /\ Decided(s, d) = h[N]
    <2>1. Decided(s, d) = (CHOOSE h : Equation(h))[N]
        BY DEF Decided
    <2> HIDE DEF Equation
    <2> QED
        BY <1>2, <2>1
<1>4. h[0] = <<>> /\ \A n \in Nat : n + 1 <= N => h[n + 1] = Next1(h[n], n + 1)
    <2>1. \A n \in 0..N : h[n] = IF n = 0 THEN <<>>
                                 ELSE IF s[n].decision = d THEN Append(h[n - 1], s[n])
                                 ELSE h[n - 1]
        BY <1>3
    <2> HIDE DEF Equation
    <2>2. h[0] = <<>>
        BY <1>1, <2>1
    <2>3. ASSUME NEW n \in Nat, n + 1 <= N PROVE h[n + 1] = Next1(h[n], n + 1)
        <3>1. n + 1 \in 0..N /\ n + 1 # 0 /\ (n + 1) - 1 = n
            BY <1>1, <2>3
        <3> QED
            BY <2>1, <3>1
    <2> QED
        BY <2>2, <2>3
<1> HIDE DEF Equation
<1> DEFINE Q == {n \in Nat : n <= N => Choosing(h[n], s, d, n)}
<1>5. 0 \in Q
    BY <1>4, ChoosingStarts
<1>6. ASSUME NEW n \in Nat, n \in Q PROVE n + 1 \in Q
    BY <1>1, <1>4, <1>6, ChoosingGoesOn
<1>7. Nat \subseteq Q
    BY <1>5, <1>6, Induction
<1> QED
    BY <1>1, <1>3, <1>7

-----------------------------------------------------------------------------
(* Which calls are open *)

LEMMA IdsType == ASSUME NEW s \in Seq(Call) PROVE Ids(s) \subseteq Nat /\ Ids(s) = {c.id : c \in Elements(s)}
<1>1. \A i \in DOMAIN s : s[i] \in Call
    BY ElementOfSeq, LenProperties
<1>2. \A i \in DOMAIN s : s[i].id \in Nat
    BY <1>1 DEF Call
<1>3. Ids(s) \subseteq Nat
    BY <1>2 DEF Ids
<1>4. Ids(s) = {c.id : c \in Elements(s)}
    BY DEF Ids, Elements
<1> QED
    BY <1>3, <1>4

LEMMA IdsOfNone == Ids(<<>>) = {} /\ Distinct(<<>>) /\ <<>> \in Seq(Call)
<1>1. DOMAIN <<>> = {} /\ <<>> \in Seq(Call)
    BY EmptySeq, LenProperties
<1> QED
    BY <1>1 DEF Ids, Distinct

LEMMA IdsOfTail ==
    ASSUME NEW s \in Seq(Call), s # <<>>, Distinct(s)
    PROVE  /\ Tail(s) \in Seq(Call) /\ Distinct(Tail(s)) /\ Ids(Tail(s)) = Ids(s) \ {s[1].id}
           /\ s[1] \in Call /\ s[1].id \in Ids(s)
<1>1. /\ Tail(s) \in Seq(Call) /\ Len(s) \in Nat \ {0} /\ s[1] \in Call
      /\ DOMAIN s = 1..Len(s) /\ DOMAIN Tail(s) = 1..(Len(s) - 1)
      /\ \A i \in 1..(Len(s) - 1) : Tail(s)[i] = s[i + 1]
    BY Tailed
<1>2. s[1].id \in Ids(s)
    BY <1>1 DEF Ids
<1>3. ASSUME NEW i \in DOMAIN Tail(s), NEW j \in DOMAIN Tail(s), Tail(s)[i].id = Tail(s)[j].id PROVE i = j
    <2>1. i + 1 \in DOMAIN s /\ j + 1 \in DOMAIN s /\ s[i + 1].id = s[j + 1].id /\ i \in Nat /\ j \in Nat
        BY <1>1, <1>3
    <2>2. i + 1 = j + 1
        BY <2>1 DEF Distinct
    <2> QED
        BY <2>1, <2>2
<1>4. ASSUME NEW i \in DOMAIN Tail(s) PROVE Tail(s)[i].id \in Ids(s) \ {s[1].id}
    <2>1. i + 1 \in DOMAIN s /\ 1 \in DOMAIN s /\ i + 1 # 1 /\ Tail(s)[i] = s[i + 1]
        BY <1>1
    <2> QED
        BY <2>1 DEF Ids, Distinct
<1>5. ASSUME NEW k \in DOMAIN s, s[k].id # s[1].id PROVE s[k].id \in Ids(Tail(s))
    <2>1. k - 1 \in DOMAIN Tail(s) /\ Tail(s)[k - 1] = s[k]
        <3>1. k # 1 /\ k \in 1..Len(s)
            BY <1>1, <1>5
        <3>2. k - 1 \in 1..(Len(s) - 1) /\ (k - 1) + 1 = k
            BY <1>1, <3>1
        <3> QED
            BY <1>1, <3>2
    <2> QED
        BY <2>1 DEF Ids
<1>6. Ids(Tail(s)) \subseteq Ids(s) \ {s[1].id}
    BY <1>4 DEF Ids
<1>7. Ids(s) \ {s[1].id} \subseteq Ids(Tail(s))
    BY <1>5 DEF Ids
<1> QED
    BY <1>1, <1>2, <1>3, <1>6, <1>7 DEF Distinct

LEMMA AppendUser ==
    ASSUME NEW h \in Seq(Message), NEW n, Numbered(h, n)
    PROVE  /\ Append(h, User) \in Seq(Message) /\ Numbered(Append(h, User), n)
           /\ \A open : Paired(h, open) => Paired(Append(h, User), open)
<1>1. User \in Message /\ User.role = "user"
    BY MessageTypes DEF User
<1>2. Append(h, User) \in Seq(Message)
    BY <1>1, Appended
<1>3. Numbered(Append(h, User), n)
    BY <1>1, NumberedAppend
<1>4. ASSUME NEW open, Paired(h, open) PROVE Paired(Append(h, User), open)
    BY <1>1, <1>4, PairedAppend
<1> QED
    BY <1>2, <1>3, <1>4

LEMMA AppendFinal ==
    ASSUME NEW h \in Seq(Message), NEW n, Numbered(h, n)
    PROVE  /\ Append(h, Assistant({})) \in Seq(Message) /\ Numbered(Append(h, Assistant({})), n)
           /\ \A open : Paired(h, open) => Paired(Append(h, Assistant({})), open)
<1>1. Assistant({}) \in Message /\ Assistant({}).role = "assistant" /\ Assistant({}).calls = {}
    BY MessageTypes DEF Assistant
<1>2. Append(h, Assistant({})) \in Seq(Message)
    BY <1>1, Appended
<1>3. Numbered(Append(h, Assistant({})), n)
    BY <1>1, NumberedAppend
<1>4. ASSUME NEW open, Paired(h, open) PROVE Paired(Append(h, Assistant({})), open)
    BY <1>1, <1>4, PairedAppend
<1> QED
    BY <1>2, <1>3, <1>4

LEMMA AppendAnswer ==
    ASSUME NEW h \in Seq(Message), NEW n \in Nat, Numbered(h, n), NEW c \in Call, NEW open, c.id \in open,
           c.id \in 1..n
    PROVE  /\ Append(h, Answer(c)) \in Seq(Message) /\ Numbered(Append(h, Answer(c)), n)
           /\ Paired(h, open) => Paired(Append(h, Answer(c)), open \ {c.id})
<1>1. Answer(c) \in Message /\ Answer(c).role = "tool" /\ Answer(c).calls = {c.id}
    BY MessageTypes DEF Answer
<1>2. Append(h, Answer(c)) \in Seq(Message)
    BY <1>1, Appended
<1>3. Numbered(Append(h, Answer(c)), n)
    BY <1>1, NumberedAppend
<1>4. ASSUME Paired(h, open) PROVE Paired(Append(h, Answer(c)), open \ {c.id})
    BY <1>1, <1>4, PairedAppend
<1> QED
    BY <1>2, <1>3, <1>4

LEMMA AppendNote ==
    ASSUME NEW h \in Seq(Message), NEW n \in Nat, Numbered(h, n), NEW c \in Call, c.id \in 1..n,
           NEW open, open \subseteq 1..n
    PROVE  /\ Append(h, GuardNote(c)) \in Seq(Message) /\ Numbered(Append(h, GuardNote(c)), n)
           /\ Paired(h, open) => Paired(Append(h, GuardNote(c)), open)
<1>1. GuardNote(c) \in Message /\ GuardNote(c).role = "tool" /\ GuardNote(c).calls = {-c.id}
    BY MessageTypes DEF GuardNote
<1>2. Append(h, GuardNote(c)) \in Seq(Message)
    BY <1>1, Appended
<1>3. -c.id \notin 1..n /\ -c.id <= n
    OBVIOUS
<1>4. Numbered(Append(h, GuardNote(c)), n)
    BY <1>1, <1>3, NumberedAppend
<1>5. ASSUME Paired(h, open) PROVE Paired(Append(h, GuardNote(c)), open)
    <2>1. GuardNote(c).calls \cap 1..n \subseteq open /\ open = open \ GuardNote(c).calls
        BY <1>1, <1>3
    <2> QED
        BY <1>1, <1>5, <2>1, PairedAppend
<1> QED
    BY <1>2, <1>4, <1>5

Outcoming == [history: Seq(Message), failures: [Tool -> 0..HaltAt]]

\* A result with its guard note answers the call and no other.
LEMMA OutcomeKeeps ==
    ASSUME NEW acc \in Outcoming, NEW c \in Call, NEW ok
    PROVE  LET o == Outcome(acc, c, ok)
           IN  /\ o \in Outcoming
               /\ \A n \in Nat : \A open \in SUBSET (1..n) :
                    Numbered(acc.history, n) /\ c.id \in open =>
                      /\ Numbered(o.history, n)
                      /\ Paired(acc.history, open) => Paired(o.history, open \ {c.id})
<1> DEFINE tool  == c.sig[1]
           fails == IF ok THEN 0 ELSE Lesser(HaltAt, acc.failures[tool] + 1)
           note  == IF fails >= HaltAt THEN <<GuardNote(c)>> ELSE <<>>
           h     == acc.history
           h1    == Append(h, Answer(c))
           o     == Outcome(acc, c, ok)
<1>1. h \in Seq(Message) /\ acc.failures \in [Tool -> 0..HaltAt]
    BY DEF Outcoming
<1>2. tool \in Tool /\ HaltAt \in Nat
    BY BoundsAssumption DEF Call, Signature
<1>3. fails \in 0..HaltAt
    BY <1>1, <1>2 DEF Lesser
<1>4. Answer(c) \in Message /\ GuardNote(c) \in Message
    BY MessageTypes
<1>5. h \o <<Answer(c)>> = h1 /\ h1 \in Seq(Message)
    BY <1>1, <1>4, AppendJoins, Appended
<1>6. o.history = h1 \o note /\ o.failures = [acc.failures EXCEPT ![tool] = fails]
      /\ o = [history |-> o.history, failures |-> o.failures]
    BY <1>5 DEF Outcome
<1>7. o.failures \in [Tool -> 0..HaltAt]
    BY <1>1, <1>2, <1>3, <1>6
<1>8. o.history = IF fails >= HaltAt THEN Append(h1, GuardNote(c)) ELSE h1
    <2>1. h1 \o <<>> = h1
        BY <1>5, ConcatEmptySeq
    <2>2. h1 \o <<GuardNote(c)>> = Append(h1, GuardNote(c))
        BY <1>4, <1>5, AppendJoins
    <2> QED
        BY <1>6, <2>1, <2>2
<1>9. o.history \in Seq(Message)
    BY <1>4, <1>5, <1>8, Appended
<1> HIDE DEF o, fails, note, tool
<1>10. o \in Outcoming
    BY <1>6, <1>7, <1>9 DEF Outcoming
<1>11. ASSUME NEW n \in Nat, NEW open \in SUBSET (1..n), Numbered(h, n), c.id \in open
       PROVE  Numbered(o.history, n) /\ (Paired(h, open) => Paired(o.history, open \ {c.id}))
    <2>1. Numbered(h1, n) /\ (Paired(h, open) => Paired(h1, open \ {c.id}))
        BY <1>1, <1>11, AppendAnswer
    <2> HIDE DEF h1
    <2>2. /\ Numbered(Append(h1, GuardNote(c)), n)
          /\ Paired(h1, open \ {c.id}) => Paired(Append(h1, GuardNote(c)), open \ {c.id})
        BY <1>5, <1>11, <2>1, AppendNote
    <2> QED
        BY <1>8, <2>1, <2>2
<1> QED
    BY <1>10, <1>11 DEF o

\* A batch answers its calls one after the other.
LEMMA OutcomesKeep ==
    ASSUME Lists(history, nextId, batch, gated), failures \in [Tool -> 0..HaltAt], NEW ok
    PROVE  LET o == Outcomes(batch, ok)
           IN  /\ o \in Outcoming /\ Numbered(o.history, nextId)
               /\ Paired(history, Ids(batch) \cup Ids(gated) \cup Open) => Paired(o.history, Ids(gated) \cup Open)
<1> DEFINE N == Len(batch)
           base == [history |-> history, failures |-> failures]
           Equation(f) == f = [n \in 0..N |-> IF n = 0 THEN [history |-> history, failures |-> failures]
                                              ELSE Outcome(f[n - 1], batch[n], ok[n])]
           all == Ids(batch) \cup Ids(gated) \cup Open
           open(n) == all \ {batch[i].id : i \in 1..n}
<1>1. N \in Nat /\ DOMAIN batch = 1..N /\ batch \in Seq(Call) /\ \A n \in 1..N : batch[n] \in Call
    BY ElementOfSeq, LenProperties DEF Lists
<1>2. base \in Outcoming /\ base.history = history
    BY DEF Lists, Outcoming
<1>3. \E f : Equation(f)
    <2> DEFINE step == [n \in 1..N |-> [a \in Outcoming |-> Outcome(a, batch[n], ok[n])]]
    <2>1. step \in [1..N -> [Outcoming -> Outcoming]]
        <3>1. \A n \in 1..N, a \in Outcoming : Outcome(a, batch[n], ok[n]) \in Outcoming
            BY <1>1, OutcomeKeeps
        <3> QED
            BY <3>1
    <2> HIDE DEF step, N, base
    <2>2. PICK f : Scan(f, N, Outcoming, base, step)
        BY <1>1, <1>2, <2>1, Recursion
    <2>3. ASSUME NEW n \in 1..N PROVE f[n] = Outcome(f[n - 1], batch[n], ok[n])
        <3>1. n - 1 \in 0..N
            BY <1>1
        <3>2. f[n - 1] \in Outcoming
            BY <2>2, <3>1 DEF Scan
        <3> QED
            BY <2>2, <3>2 DEF step, Scan
    <2>4. \A n \in 0..N : f[n] = IF n = 0 THEN [history |-> history, failures |-> failures]
                                 ELSE Outcome(f[n - 1], batch[n], ok[n])
        <3> TAKE n \in 0..N
        <3>1. CASE n = 0
            BY <2>2, <3>1 DEF Scan, base
        <3>2. CASE n # 0
            <4>1. n \in 1..N
                BY <1>1, <3>2
            <4> QED
                BY <2>3, <3>2, <4>1
        <3> QED
            BY <3>1, <3>2
    <2>5. Equation(f)
        BY <2>2, <2>4 DEF Scan
    <2> QED
        BY <2>5
<1>4. PICK f : Equation(f) /\ Outcomes(batch, ok) = f[N]
    <2>1. Outcomes(batch, ok) = (CHOOSE f : Equation(f))[N]
        BY DEF Outcomes
    <2> HIDE DEF Equation
    <2> QED
        BY <1>3, <2>1
<1>5. f[0] = base /\ \A n \in Nat : n + 1 <= N => f[n + 1] = Outcome(f[n], batch[n + 1], ok[n + 1])
    <2>1. \A n \in 0..N : f[n] = IF n = 0 THEN [history |-> history, failures |-> failures]
                                 ELSE Outcome(f[n - 1], batch[n], ok[n])
        BY <1>4
    <2> HIDE DEF Equation
    <2>2. f[0] = base
        BY <1>1, <2>1
    <2>3. ASSUME NEW n \in Nat, n + 1 <= N PROVE f[n + 1] = Outcome(f[n], batch[n + 1], ok[n + 1])
        <3>1. n + 1 \in 0..N /\ n + 1 # 0 /\ (n + 1) - 1 = n
            BY <1>1, <2>3
        <3> QED
            BY <2>1, <3>1
    <2> QED
        BY <2>2, <2>3
<1> HIDE DEF Equation, base
<1> DEFINE Good(n) == /\ f[n] \in Outcoming /\ Numbered(f[n].history, nextId)
                      /\ Paired(history, all) => Paired(f[n].history, open(n))
           Q == {n \in Nat : n <= N => Good(n)}
<1>6. all \subseteq 1..nextId /\ nextId \in Nat /\ Numbered(history, nextId)
    BY DEF Lists
<1>7. 0 \in Q
    <2>1. open(0) = all
        OBVIOUS
    <2> QED
        BY <1>2, <1>5, <1>6, <2>1
<1>8. ASSUME NEW n \in Nat, n \in Q PROVE n + 1 \in Q
    <2> SUFFICES ASSUME n + 1 <= N PROVE Good(n + 1)
        OBVIOUS
    <2>1. Good(n) /\ n + 1 \in DOMAIN batch /\ batch[n + 1] \in Call
        BY <1>1, <1>8
    <2>2. batch[n + 1].id \in open(n)
        <3>1. batch[n + 1].id \in all
            BY <2>1 DEF Ids
        <3>2. ASSUME NEW i \in 1..n PROVE batch[i].id # batch[n + 1].id
            <4>1. i \in DOMAIN batch /\ i # n + 1
                BY <1>1
            <4> QED
                BY <2>1, <4>1 DEF Lists, Distinct
        <3> QED
            BY <3>1, <3>2
    <2>3. open(n + 1) = open(n) \ {batch[n + 1].id}
        <3>1. 1..(n + 1) = 1..n \cup {n + 1}
            OBVIOUS
        <3> QED
            BY <3>1
    <2>4. open(n) \in SUBSET (1..nextId)
        BY <1>6
    <2> HIDE DEF open, all
    <2>5. f[n + 1] = Outcome(f[n], batch[n + 1], ok[n + 1])
        BY <1>5
    <2>6. /\ f[n + 1] \in Outcoming
          /\ \A m \in Nat : \A p \in SUBSET (1..m) :
               Numbered(f[n].history, m) /\ batch[n + 1].id \in p =>
                 /\ Numbered(f[n + 1].history, m)
                 /\ Paired(f[n].history, p) => Paired(f[n + 1].history, p \ {batch[n + 1].id})
        BY <2>1, <2>5, OutcomeKeeps
    <2> QED
        BY <1>6, <2>1, <2>2, <2>3, <2>4, <2>6
<1>9. N \in Q
    <2> HIDE DEF Q
    <2> QED
        BY <1>1, <1>7, <1>8, Induction
<1>10. Good(N)
    BY <1>1, <1>9
<1>11. open(N) = Ids(gated) \cup Open
    BY <1>1 DEF Ids, Lists
<1> HIDE DEF open, all
<1> QED
    BY <1>4, <1>10, <1>11 DEF all

\* The denied calls of a reply are answered at once.
LEMMA DeniedPaired ==
    ASSUME NEW h \in Seq(Message), NEW n \in Nat, Numbered(h, n), NEW open, Paired(h, open),
           NEW d \in Seq(Call), Distinct(d), Ids(d) \subseteq open, open \subseteq 1..n
    PROVE  LET g == h \o [i \in DOMAIN d |-> Answer(d[i])]
           IN  g \in Seq(Message) /\ Numbered(g, n) /\ Paired(g, open \ Ids(d))
<1> DEFINE a == [i \in DOMAIN d |-> Answer(d[i])]
           g == h \o a
<1>1. Len(d) \in Nat /\ DOMAIN d = 1..Len(d) /\ \A i \in DOMAIN d : d[i] \in Call /\ d[i].id \in open
    BY ElementOfSeq, LenProperties DEF Ids
<1>2. a \in Seq(Message) /\ DOMAIN a = 1..Len(d) /\ Len(a) = Len(d)
    <2>1. \A i \in 1..Len(d) : Answer(d[i]) \in Message
        BY <1>1, MessageTypes
    <2>2. a \in [1..Len(d) -> Message]
        BY <1>1, <2>1
    <2>3. a \in Seq(Message)
        BY <1>1, <2>2, SeqDef
    <2> QED
        BY <1>1, <2>3, LenProperties
<1>3. \A i \in DOMAIN d : a[i].role = "tool" /\ a[i].calls = {d[i].id}
    BY DEF Answer
<1> HIDE DEF a
<1>4. /\ g \in Seq(Message) /\ Len(g) = Len(h) + Len(d) /\ DOMAIN g = 1..(Len(h) + Len(d))
      /\ Len(h) \in Nat /\ DOMAIN h = 1..Len(h)
      /\ \A i \in 1..Len(h) : g[i] = h[i]
      /\ \A i \in 1..Len(d) : g[Len(h) + i] = a[i]
    <2>1. /\ g \in Seq(Message) /\ Len(g) = Len(h) + Len(a) /\ DOMAIN g = 1..(Len(h) + Len(a))
          /\ Len(h) \in Nat /\ DOMAIN h = 1..Len(h)
          /\ \A i \in 1..Len(h) : g[i] = h[i]
          /\ \A i \in 1..Len(a) : g[Len(h) + i] = a[i]
        <3>1. a \in Seq(Message)
            BY <1>2
        <3> QED
            BY <3>1, Joined
    <2> HIDE DEF g
    <2> QED
        BY <1>2, <2>1
<1> HIDE DEF g
<1>5. ASSUME NEW j \in DOMAIN g
      PROVE  \/ j \in DOMAIN h /\ g[j] = h[j]
             \/ /\ j - Len(h) \in DOMAIN d /\ g[j] = a[j - Len(h)] /\ ~(j <= Len(h))
                /\ j = Len(h) + (j - Len(h))
    <2>1. CASE j <= Len(h)
        BY <1>4, <2>1
    <2>2. CASE ~(j <= Len(h))
        <3>1. j - Len(h) \in 1..Len(d) /\ j = Len(h) + (j - Len(h))
            BY <1>1, <1>4, <2>2
        <3> QED
            BY <1>1, <1>4, <2>2, <3>1
    <2> QED
        BY <2>1, <2>2
<1>6. Numbered(g, n)
    <2> SUFFICES ASSUME NEW j \in DOMAIN g, NEW c \in g[j].calls
                 PROVE  /\ g[j].role = "assistant" => c \in 1..n
                        /\ g[j].role = "tool" => c <= n
        BY DEF Numbered
    <2>1. CASE j \in DOMAIN h /\ g[j] = h[j]
        BY <2>1 DEF Numbered
    <2>2. CASE j - Len(h) \in DOMAIN d /\ g[j] = a[j - Len(h)]
        <3>1. g[j].role = "tool" /\ c = d[j - Len(h)].id
            BY <1>3, <2>2
        <3>2. c \in 1..n
            BY <1>1, <2>2, <3>1
        <3> QED
            BY <3>1, <3>2
    <2> QED
        BY <1>5, <2>1, <2>2
<1>7. Paired(g, open \ Ids(d))
    <2> SUFFICES ASSUME NEW i \in DOMAIN g, NEW c \in g[i].calls, g[i].role = "assistant"
                 PROVE  IF c \in open \ Ids(d) THEN AnswersOf(g, c) = {}
                        ELSE \E j \in DOMAIN g : j > i /\ AnswersOf(g, c) = {j}
        BY DEF Paired
    <2>1. i \in DOMAIN h /\ g[i] = h[i]
        BY <1>3, <1>5
    <2>2. IF c \in open THEN AnswersOf(h, c) = {} ELSE \E j \in DOMAIN h : j > i /\ AnswersOf(h, c) = {j}
        BY <2>1 DEF Paired
    <2>3. ASSUME NEW j \in AnswersOf(g, c)
          PROVE  \/ j \in AnswersOf(h, c)
                 \/ j - Len(h) \in DOMAIN d /\ d[j - Len(h)].id = c /\ j = Len(h) + (j - Len(h))
        <3>1. j \in DOMAIN g /\ g[j].role = "tool" /\ c \in g[j].calls
            BY DEF AnswersOf
        <3>2. CASE j \in DOMAIN h /\ g[j] = h[j]
            BY <3>1, <3>2 DEF AnswersOf
        <3>3. CASE j - Len(h) \in DOMAIN d /\ g[j] = a[j - Len(h)] /\ j = Len(h) + (j - Len(h))
            BY <1>3, <3>1, <3>3
        <3> QED
            BY <1>5, <3>1, <3>2, <3>3
    <2>4. ASSUME NEW j \in AnswersOf(h, c) PROVE j \in AnswersOf(g, c)
        <3>1. j \in DOMAIN h /\ h[j].role = "tool" /\ c \in h[j].calls
            BY DEF AnswersOf
        <3>2. j \in DOMAIN g /\ g[j] = h[j]
            BY <1>1, <1>4, <3>1
        <3> QED
            BY <3>1, <3>2 DEF AnswersOf
    <2>5. CASE c \in Ids(d)
        <3>1. PICK k \in DOMAIN d : d[k].id = c
            BY <2>5 DEF Ids
        <3>2. AnswersOf(h, c) = {} /\ c \notin open \ Ids(d)
            BY <2>2, <2>5
        <3>3. Len(h) + k \in DOMAIN g /\ g[Len(h) + k] = a[k] /\ Len(h) + k > i
            BY <1>1, <1>4, <2>1
        <3>4. Len(h) + k \in AnswersOf(g, c)
            BY <1>3, <3>1, <3>3 DEF AnswersOf
        <3>5. ASSUME NEW j \in AnswersOf(g, c) PROVE j = Len(h) + k
            <4>1. j - Len(h) \in DOMAIN d /\ d[j - Len(h)].id = c /\ j = Len(h) + (j - Len(h))
                BY <2>3, <3>2
            <4>2. j - Len(h) = k
                BY <3>1, <4>1 DEF Distinct
            <4> QED
                BY <4>1, <4>2
        <3> QED
            BY <3>2, <3>3, <3>4, <3>5
    <2>6. CASE c \notin Ids(d)
        <3>1. \A k \in DOMAIN d : d[k].id # c
            BY <2>6 DEF Ids
        <3>2. AnswersOf(g, c) = AnswersOf(h, c)
            BY <2>3, <2>4, <3>1
        <3>3. DOMAIN h \subseteq DOMAIN g
            BY <1>1, <1>4
        <3> QED
            BY <2>2, <2>6, <3>2, <3>3
    <2> QED
        BY <2>5, <2>6
<1> QED
    BY <1>4, <1>6, <1>7 DEF g, a

\* The calls of a reply are numbered from nextId on; Blocked may turn a decision into "deny".
Reply(s, n) ==
  /\ s \in Seq(Call) /\ Distinct(s)
  /\ \A i \in DOMAIN s : s[i].id = n + i

\* The three parts a reply is divided into.
LEMMA ReplyDivided ==
    ASSUME NEW s \in Seq(Call), Distinct(s)
    PROVE  LET d == Decided(s, "deny")
               b == Decided(s, "execute")
               g == Decided(s, "ask")
           IN  /\ d \in Seq(Call) /\ b \in Seq(Call) /\ g \in Seq(Call)
               /\ Distinct(d) /\ Distinct(b) /\ Distinct(g)
               /\ Ids(b) \cap Ids(g) = {} /\ Ids(d) \subseteq Ids(s)
               /\ Ids(s) \ Ids(d) = Ids(b) \cup Ids(g)
<1> DEFINE d == Decided(s, "deny")
           b == Decided(s, "execute")
           g == Decided(s, "ask")
           Part(q, w) == Choosing(q, s, w, Len(s))
<1>1. Len(s) \in Nat /\ DOMAIN s = 1..Len(s) /\ \A i \in DOMAIN s : s[i] \in Call
    BY ElementOfSeq, LenProperties
<1>2. Part(d, "deny") /\ Part(b, "execute") /\ Part(g, "ask")
    BY DecidedKeeps
<1> HIDE DEF d, b, g
<1>3. ASSUME NEW q, NEW w, Part(q, w)
      PROVE  q \in Seq(Call) /\ Distinct(q) /\ Ids(q) = {s[i].id : i \in {k \in DOMAIN s : s[k].decision = w}}
    <2>1. q \in Seq(Call) /\ Distinct(q) /\ Elements(q) = {s[i] : i \in Picked(s, w, Len(s))}
        BY <1>3 DEF Choosing
    <2>2. Ids(q) = {c.id : c \in Elements(q)}
        BY <2>1, IdsType
    <2>3. Picked(s, w, Len(s)) = {k \in DOMAIN s : s[k].decision = w}
        BY <1>1 DEF Picked
    <2>4. Ids(q) \subseteq {s[i].id : i \in {k \in DOMAIN s : s[k].decision = w}}
        BY <2>1, <2>2, <2>3
    <2>5. {s[i].id : i \in {k \in DOMAIN s : s[k].decision = w}} \subseteq Ids(q)
        BY <2>1, <2>2, <2>3
    <2> QED
        BY <2>1, <2>4, <2>5
<1>4. \A i \in DOMAIN s : s[i].decision \in {"execute", "ask", "deny"}
    BY <1>1 DEF Call, Decision
<1>5. /\ d \in Seq(Call) /\ b \in Seq(Call) /\ g \in Seq(Call) /\ Distinct(d) /\ Distinct(b) /\ Distinct(g)
      /\ Ids(d) = {s[i].id : i \in {k \in DOMAIN s : s[k].decision = "deny"}}
      /\ Ids(b) = {s[i].id : i \in {k \in DOMAIN s : s[k].decision = "execute"}}
      /\ Ids(g) = {s[i].id : i \in {k \in DOMAIN s : s[k].decision = "ask"}}
    BY <1>2, <1>3
<1>6. \A i, j \in DOMAIN s : s[i].id = s[j].id => i = j
    BY DEF Distinct
<1>7. Ids(s) = {s[i].id : i \in DOMAIN s}
    BY DEF Ids
<1>8. Ids(b) \cap Ids(g) = {}
    BY <1>5, <1>6
<1>9. Ids(d) \subseteq Ids(s)
    BY <1>5, <1>7
<1>10. Ids(s) \ Ids(d) \subseteq Ids(b) \cup Ids(g)
    BY <1>4, <1>5, <1>7
<1>11. Ids(b) \cup Ids(g) \subseteq Ids(s) \ Ids(d)
    BY <1>5, <1>6, <1>7
<1> QED
    BY <1>5, <1>8, <1>9, <1>10, <1>11 DEF d, b, g

\* A reply to a history whose calls are answered but for the old open ones: what its denied calls leave open.
LEMMA ReplyPaired ==
    ASSUME NEW h \in Seq(Message), NEW n \in Nat, Numbered(h, n), Paired(h, Open), Open \subseteq 1..n,
           NEW s, Reply(s, n)
    PROVE  LET d == Decided(s, "deny")
               g == Append(h, Assistant(Elements(s))) \o [i \in DOMAIN d |-> Answer(d[i])]
           IN  /\ Lists(g, n + Len(s), Decided(s, "execute"), Decided(s, "ask"))
               /\ Paired(g, Ids(Decided(s, "execute")) \cup Ids(Decided(s, "ask")) \cup Open)
<1> DEFINE d  == Decided(s, "deny")
           m  == Assistant(Elements(s))
           h1 == Append(h, m)
           k  == n + Len(s)
           g  == h1 \o [i \in DOMAIN d |-> Answer(d[i])]
<1>1. s \in Seq(Call) /\ Distinct(s) /\ \A i \in DOMAIN s : s[i].id = n + i
    BY DEF Reply
<1>2. Len(s) \in Nat /\ DOMAIN s = 1..Len(s) /\ k \in Nat /\ n <= k
    BY <1>1, LenProperties
<1>3. Ids(s) = {c.id : c \in Elements(s)} /\ Elements(s) \subseteq Call
    BY <1>1, IdsType, ElementsType
<1>4. m \in Message /\ m.role = "assistant" /\ m.calls = Ids(s)
    BY <1>3, MessageTypes DEF Assistant
<1> HIDE DEF m
<1>5. \A c \in Ids(s) : c > n /\ c \in 1..k
    BY <1>1, <1>2 DEF Ids
<1>6. /\ Ids(s) \subseteq 1..k /\ Open \subseteq 1..k /\ Ids(s) \cup Open \subseteq 1..k
      /\ Ids(s) \cap Open = {}
    <2>1. \A c \in Open : c \in 1..n /\ c \in 1..k /\ ~(c > n)
        BY <1>2
    <2> QED
        BY <1>5, <2>1
<1>7. h1 \in Seq(Message)
    BY <1>4, Appended
<1>8. Paired(h1, Ids(s) \cup Open)
    <2>1. \A c \in m.calls : c > n
        BY <1>4, <1>5
    <2>2. Paired(Append(h, m), m.calls \cup Open)
        BY <1>4, <2>1, PairedReply
    <2> QED
        BY <1>4, <2>2
<1>9. Numbered(h1, k)
    <2>1. Numbered(h, k)
        BY <1>2, NumberedMore
    <2> QED
        BY <1>4, <1>6, <2>1, NumberedAppend
<1> HIDE DEF h1, k
<1>10. /\ d \in Seq(Call) /\ Distinct(d) /\ Ids(d) \subseteq Ids(s)
       /\ Decided(s, "execute") \in Seq(Call) /\ Decided(s, "ask") \in Seq(Call)
       /\ Distinct(Decided(s, "execute")) /\ Distinct(Decided(s, "ask"))
       /\ Ids(Decided(s, "execute")) \cap Ids(Decided(s, "ask")) = {}
       /\ Ids(s) \ Ids(d) = Ids(Decided(s, "execute")) \cup Ids(Decided(s, "ask"))
    BY <1>1, ReplyDivided
<1> HIDE DEF d
<1>11. g \in Seq(Message) /\ Numbered(g, k) /\ Paired(g, (Ids(s) \cup Open) \ Ids(d))
    <2>1. Ids(d) \subseteq Ids(s) \cup Open
        BY <1>10
    <2> QED
        BY <1>2, <1>6, <1>7, <1>8, <1>9, <1>10, <2>1, DeniedPaired
<1>13. (Ids(s) \cup Open) \ Ids(d) = Ids(Decided(s, "execute")) \cup Ids(Decided(s, "ask")) \cup Open
    BY <1>6, <1>10
<1> HIDE DEF g
<1>12. Lists(g, k, Decided(s, "execute"), Decided(s, "ask"))
    <2>1. /\ Ids(Decided(s, "execute")) \cup Ids(Decided(s, "ask")) \subseteq 1..k
          /\ Open \cap (Ids(Decided(s, "execute")) \cup Ids(Decided(s, "ask"))) = {}
        BY <1>6, <1>10
    <2> QED
        BY <1>2, <1>6, <1>10, <1>11, <2>1 DEF Lists
<1> QED
    BY <1>10, <1>11, <1>12, <1>13 DEF g, d, h1, k, m

\* The first gated call gets an answer, by itself or as the result of a run.
LEMMA AnswerFirst ==
    ASSUME NEW h, NEW n, NEW b, NEW g, Lists(h, n, b, g), g # <<>>
    PROVE  /\ Lists(Append(h, Answer(g[1])), n, b, Tail(g))
           /\ Paired(h, Ids(b) \cup Ids(g) \cup Open) => Paired(Append(h, Answer(g[1])), Ids(b) \cup Ids(Tail(g)) \cup Open)
<1> DEFINE open == Ids(b) \cup Ids(g) \cup Open
           id == g[1].id
<1>1. /\ h \in Seq(Message) /\ n \in Nat /\ b \in Seq(Call) /\ g \in Seq(Call) /\ Distinct(b) /\ Distinct(g)
      /\ Ids(b) \cap Ids(g) = {} /\ open \subseteq 1..n /\ Numbered(h, n)
      /\ Open \subseteq 1..n /\ Open \cap (Ids(b) \cup Ids(g)) = {}
    BY DEF Lists
<1>2. /\ Tail(g) \in Seq(Call) /\ Distinct(Tail(g)) /\ Ids(Tail(g)) = Ids(g) \ {id}
      /\ g[1] \in Call /\ id \in Ids(g)
    BY <1>1, IdsOfTail
<1>3. id \in open /\ id \in 1..n /\ open \ {id} = Ids(b) \cup Ids(Tail(g)) \cup Open
    BY <1>1, <1>2
<1>4. /\ Append(h, Answer(g[1])) \in Seq(Message) /\ Numbered(Append(h, Answer(g[1])), n)
      /\ Paired(h, open) => Paired(Append(h, Answer(g[1])), open \ {id})
    BY <1>1, <1>2, <1>3, AppendAnswer
<1>5. Lists(Append(h, Answer(g[1])), n, b, Tail(g))
    BY <1>1, <1>2, <1>4 DEF Lists
<1> QED
    BY <1>3, <1>4, <1>5

LEMMA OutcomeFirst ==
    ASSUME NEW h, NEW n, NEW b, NEW g, Lists(h, n, b, g), g # <<>>,
           NEW f \in [Tool -> 0..HaltAt], NEW ok
    PROVE  LET o == Outcome([history |-> h, failures |-> f], g[1], ok)
           IN  /\ Lists(o.history, n, b, Tail(g)) /\ o \in Outcoming
               /\ Paired(h, Ids(b) \cup Ids(g) \cup Open) => Paired(o.history, Ids(b) \cup Ids(Tail(g)) \cup Open)
<1> DEFINE open == Ids(b) \cup Ids(g) \cup Open
           id == g[1].id
           acc == [history |-> h, failures |-> f]
           o == Outcome(acc, g[1], ok)
<1>1. /\ h \in Seq(Message) /\ n \in Nat /\ b \in Seq(Call) /\ g \in Seq(Call) /\ Distinct(b) /\ Distinct(g)
      /\ Ids(b) \cap Ids(g) = {} /\ open \subseteq 1..n /\ Numbered(h, n)
      /\ Open \subseteq 1..n /\ Open \cap (Ids(b) \cup Ids(g)) = {}
    BY DEF Lists
<1>2. /\ Tail(g) \in Seq(Call) /\ Distinct(Tail(g)) /\ Ids(Tail(g)) = Ids(g) \ {id}
      /\ g[1] \in Call /\ id \in Ids(g)
    BY <1>1, IdsOfTail
<1>3. id \in open /\ id \in 1..n /\ open \ {id} = Ids(b) \cup Ids(Tail(g)) \cup Open /\ open \in SUBSET (1..n)
    BY <1>1, <1>2
<1>4. acc \in Outcoming /\ acc.history = h
    BY <1>1 DEF Outcoming
<1> HIDE DEF acc, open, id
<1>5. /\ o \in Outcoming
      /\ \A m \in Nat : \A p \in SUBSET (1..m) :
           Numbered(acc.history, m) /\ g[1].id \in p =>
             /\ Numbered(o.history, m)
             /\ Paired(acc.history, p) => Paired(o.history, p \ {g[1].id})
    BY <1>2, <1>4, OutcomeKeeps
<1> HIDE DEF o
<1>6. Numbered(o.history, n) /\ (Paired(h, open) => Paired(o.history, open \ {id}))
    BY <1>1, <1>3, <1>4, <1>5 DEF id
<1>7. o.history \in Seq(Message)
    BY <1>5 DEF Outcoming
<1>8. Lists(o.history, n, b, Tail(g))
    BY <1>1, <1>2, <1>6, <1>7 DEF Lists, open
<1> QED
    BY <1>3, <1>5, <1>6, <1>8 DEF o, acc, open

\* Steers merged into the history open and answer nothing.
LEMMA ListsWithUser ==
    ASSUME NEW h, NEW n, NEW b, NEW g, Lists(h, n, b, g)
    PROVE  /\ Lists(Append(h, User), n, b, g)
           /\ Paired(h, Ids(b) \cup Ids(g) \cup Open) => Paired(Append(h, User), Ids(b) \cup Ids(g) \cup Open)
    BY AppendUser DEF Lists

LEMMA ListsWithSteers ==
    ASSUME NEW h, NEW n, NEW b, NEW g, Lists(h, n, b, g)
    PROVE  /\ Lists(WithSteers(h), n, b, g)
           /\ Paired(h, Ids(b) \cup Ids(g) \cup Open) => Paired(WithSteers(h), Ids(b) \cup Ids(g) \cup Open)
    BY ListsWithUser DEF WithSteers

LEMMA AnsweringSame ==
    ASSUME Answering, UNCHANGED <<history, calls>>, Standing' => Standing PROVE Answering'
    BY DEF Answering, calls

LEMMA AnsweringDrained ==
    ASSUME Answering, history' = WithSteers(history), UNCHANGED calls, Standing' => Standing PROVE Answering'
    BY ListsWithSteers DEF Answering, calls

LEMMA AnsweringReply ==
    ASSUME Answering, Shape, NEW n \in 1..MaxCalls, NEW sigs \in [1..n -> Signature],
           NEW decisions \in [1..n -> Decision], ToolReply(sigs, decisions)
    PROVE  Answering'
<1> DEFINE plain == [i \in DOMAIN sigs |-> [id |-> nextId + i, sig |-> sigs[i], decision |-> decisions[i]]]
           reply == [i \in DOMAIN sigs |->
                       IF Blocked(plain, i) THEN [plain[i] EXCEPT !.decision = "deny"] ELSE plain[i]]
           d == Decided(reply, "deny")
<1>1. /\ pc = "stream" /\ nextId' = nextId + Len(sigs)
      /\ history' = Append(history, Assistant(Elements(reply))) \o [i \in DOMAIN d |-> Answer(d[i])]
      /\ batch' = Decided(reply, "execute") /\ gated' = Decided(reply, "ask")
    BY DEF ToolReply
<1>2. n \in Nat /\ DOMAIN sigs = 1..n /\ Len(sigs) = n
    <2>1. n \in Nat
        BY BoundsAssumption
    <2>2. sigs \in Seq(Signature)
        BY <2>1, SeqDef
    <2> QED
        BY <2>1, <2>2, LenProperties
<1>3. /\ Lists(history, nextId, <<>>, <<>>) /\ Paired(history, Open) /\ history \in Seq(Message) /\ nextId \in Nat
      /\ Numbered(history, nextId) /\ Open \subseteq 1..nextId
    <2>1. batch = <<>> /\ gated = <<>> /\ Standing
        BY <1>1 DEF Shape, Standing
    <2>2. Lists(history, nextId, <<>>, <<>>) /\ Paired(history, Ids(<<>>) \cup Ids(<<>>) \cup Open)
        BY <2>1 DEF Answering
    <2>3. Ids(<<>>) \cup Ids(<<>>) \cup Open = Open
        BY IdsOfNone
    <2> QED
        BY <2>2, <2>3 DEF Lists
<1>4. \A i \in 1..n : plain[i] \in Call /\ plain[i].id = nextId + i /\ plain[i].sig = sigs[i]
    BY <1>2, <1>3 DEF Call
<1> HIDE DEF plain
<1>5. \A i \in 1..n : reply[i] \in Call /\ reply[i].id = nextId + i
    <2> TAKE i \in 1..n
    <2>1. [plain[i] EXCEPT !.decision = "deny"] \in Call /\ [plain[i] EXCEPT !.decision = "deny"].id = plain[i].id
        BY <1>4 DEF Call, Decision
    <2> QED
        BY <1>2, <1>4, <2>1
<1>6. DOMAIN reply = 1..n /\ reply \in [1..n -> Call]
    BY <1>2, <1>5
<1> HIDE DEF reply
<1>7. reply \in Seq(Call) /\ Len(reply) = n
    <2>1. reply \in Seq(Call)
        BY <1>2, <1>6, SeqDef
    <2> QED
        BY <1>2, <1>6, <2>1, LenProperties
<1>8. Distinct(reply)
    BY <1>2, <1>3, <1>5, <1>6 DEF Distinct
<1>9. Reply(reply, nextId)
    BY <1>5, <1>6, <1>7, <1>8 DEF Reply
<1>10. Lists(history', nextId', batch', gated') /\ Paired(history', Ids(batch') \cup Ids(gated') \cup Open)
    <2>1. LET e == Decided(reply, "deny")
              g == Append(history, Assistant(Elements(reply))) \o [i \in DOMAIN e |-> Answer(e[i])]
          IN  /\ Lists(g, nextId + Len(reply), Decided(reply, "execute"), Decided(reply, "ask"))
              /\ Paired(g, Ids(Decided(reply, "execute")) \cup Ids(Decided(reply, "ask")) \cup Open)
        BY <1>3, <1>9, ReplyPaired
    <2> QED
        BY <1>1, <1>2, <1>7, <2>1
<1> QED
    BY <1>10 DEF Answering, Ids

LEMMA AnsweringStep ==
    ASSUME Answering, Shape, GuardTypes, [Next]_vars PROVE Answering'
<1> USE DEF turn, tokens, guard, calls, sender, receiver
<1>0. failures \in [Tool -> 0..HaltAt]
    BY DEF GuardTypes
<1>1. ASSUME Progress PROVE Answering'
    <2>1. CASE StartIteration \/ Reissue
        <3>1. history' = WithSteers(history) /\ UNCHANGED calls /\ Standing
            BY <2>1 DEF StartIteration, Reissue, Standing
        <3> QED
            BY <3>1, AnsweringDrained
    <2>2. CASE StopAtTop \/ StreamCancelled
        <3>1. history' = WithSteers(history) /\ UNCHANGED calls /\ Standing
            BY <2>2 DEF StopAtTop, StreamCancelled, CloseWithDrain, Standing
        <3> QED
            BY <3>1, AnsweringDrained
    <2>3. CASE IterationsExhausted \/ BatchCancelled \/ BatchOver \/ Return
        <3>1. UNCHANGED <<history, calls>> /\ (Standing' => Standing)
            BY <2>3 DEF IterationsExhausted, BatchCancelled, BatchOver, Return, Close, Standing
        <3> QED
            BY <3>1, AnsweringSame
    <2>4. CASE Gate
        <3>1. history' = WithSteers(history) /\ UNCHANGED calls /\ Standing
            BY <2>4 DEF Gate, Standing
        <3> QED
            BY <3>1, AnsweringDrained
    <2>5. CASE ExecCancelled
        <3>1. CASE fired
            <4>1. history' = WithSteers(history) /\ UNCHANGED calls /\ Standing
                BY <2>5, <3>1 DEF ExecCancelled, CloseWithDrain, Standing
            <4> QED
                BY <4>1, AnsweringDrained
        <3>2. CASE ~fired
            <4>1. UNCHANGED <<history, calls>> /\ Standing
                BY <2>5, <3>2 DEF ExecCancelled, Standing
            <4> QED
                BY <4>1, AnsweringSame
        <3> QED
            BY <3>1, <3>2
    <2>6. CASE Refuse
        <3>1. /\ gated # <<>> /\ history' = Append(WithSteers(history), Answer(gated[1]))
              /\ gated' = Tail(gated) /\ UNCHANGED <<batch, nextId>> /\ Standing
            BY <2>6 DEF Refuse, Standing
        <3>2. /\ Lists(WithSteers(history), nextId, batch, gated)
              /\ Paired(WithSteers(history), Ids(batch) \cup Ids(gated) \cup Open)
            BY <3>1, ListsWithSteers DEF Answering
        <3>3. Lists(history', nextId', batch', gated') /\ Paired(history', Ids(batch') \cup Ids(gated') \cup Open)
            BY <3>1, <3>2, AnswerFirst
        <3> QED
            BY <3>3 DEF Answering, Ids
    <2>7. CASE NotAllowed
        <3>1. /\ gated # <<>> /\ history' = Append(history, Answer(gated[1]))
              /\ gated' = Tail(gated) /\ UNCHANGED <<batch, nextId>> /\ Standing
            BY <2>7 DEF NotAllowed, Standing, Shape
        <3>2. Lists(history', nextId', batch', gated') /\ Paired(history', Ids(batch') \cup Ids(gated') \cup Open)
            BY <3>1, AnswerFirst DEF Answering
        <3> QED
            BY <3>2 DEF Answering, Ids
    <2> QED
        BY <1>1, <2>1, <2>2, <2>3, <2>4, <2>5, <2>6, <2>7 DEF Progress
<1>2. ASSUME Provider PROVE Answering'
    <2>1. ASSUME NEW n \in 1..MaxCalls, NEW sigs \in [1..n -> Signature], NEW decisions \in [1..n -> Decision],
                 ToolReply(sigs, decisions)
          PROVE  Answering'
        BY <2>1, AnsweringReply
    <2>2. CASE FinalReply
        <3>1. /\ history' = WithSteers(Append(history, Assistant({}))) /\ UNCHANGED calls /\ Standing
            BY <2>2 DEF FinalReply, Standing
        <3>2. /\ Lists(Append(history, Assistant({})), nextId, batch, gated)
              /\ Paired(Append(history, Assistant({})), Ids(batch) \cup Ids(gated) \cup Open)
            BY <3>1, AppendFinal DEF Answering, Lists
        <3>3. Lists(history', nextId', batch', gated') /\ Paired(history', Ids(batch') \cup Ids(gated') \cup Open)
            BY <3>1, <3>2, ListsWithSteers
        <3> QED
            BY <3>3 DEF Answering, Ids
    <2>3. ASSUME NEW sawDone \in BOOLEAN, EmptyReply(sawDone) PROVE Answering'
        <3>1. /\ history' = history \/ history' = WithSteers(history)
              /\ UNCHANGED calls /\ Standing
            BY <2>3 DEF EmptyReply, CloseWithDrain, Standing
        <3> QED
            BY <3>1, AnsweringDrained, AnsweringSame
    <2>4. CASE StreamError
        <3>1. history' = WithSteers(history) /\ UNCHANGED calls /\ Standing
            BY <2>4 DEF StreamError, CloseWithDrain, Standing
        <3> QED
            BY <3>1, AnsweringDrained
    <2>5. CASE ContextTooLong
        <3>1. /\ history' \in Compactions(history) /\ UNCHANGED calls /\ Standing
              /\ batch = <<>> /\ gated = <<>>
            BY <2>5 DEF ContextTooLong, Standing, Shape
        <3>2. Ids(batch) \cup Ids(gated) \cup Open = Open
            BY <3>1, IdsOfNone
        <3>3. history \in Seq(Message) /\ Numbered(history, nextId) /\ Paired(history, Open)
            BY <3>1, <3>2 DEF Answering, Lists
        <3>4. history' \in Seq(Message) /\ Numbered(history', nextId) /\ Paired(history', Open)
            BY <3>1, <3>3, CompactionsPaired
        <3>5. Lists(history', nextId', batch', gated') /\ Paired(history', Ids(batch) \cup Ids(gated) \cup Open)
            BY <3>1, <3>2, <3>4 DEF Answering, Lists
        <3> QED
            BY <3>1, <3>5 DEF Answering, Ids
    <2> QED
        BY <1>2, <2>1, <2>2, <2>3, <2>4, <2>5 DEF Provider
<1>3. ASSUME Tools PROVE Answering'
    <2>1. ASSUME NEW ok, BatchDone(ok) PROVE Answering'
        <3>1. /\ history' = Outcomes(batch, ok).history /\ batch' = <<>> /\ UNCHANGED <<gated, nextId>> /\ Standing
            BY <2>1 DEF BatchDone, Standing
        <3>2. /\ Outcomes(batch, ok) \in Outcoming /\ Numbered(Outcomes(batch, ok).history, nextId)
              /\ Paired(Outcomes(batch, ok).history, Ids(gated) \cup Open)
            BY <1>0, <3>1, OutcomesKeep DEF Answering
        <3>3. /\ history' \in Seq(Message) /\ Numbered(history', nextId) /\ Paired(history', Ids(gated) \cup Open)
            BY <3>1, <3>2 DEF Outcoming
        <3>4. Ids(<<>>) \cup Ids(gated) \cup Open = Ids(gated) \cup Open
            BY IdsOfNone
        <3>5. Lists(history', nextId', batch', gated')
            BY <3>1, <3>3, IdsOfNone DEF Answering, Lists
        <3>6. Paired(history', Ids(batch') \cup Ids(gated') \cup Open)
            BY <3>1, <3>3, <3>4
        <3> QED
            BY <3>5, <3>6 DEF Answering, Ids
    <2>2. ASSUME NEW ok, NEW diagnosed, ExecDone(ok, diagnosed) PROVE Answering'
        <3> DEFINE before == IF diagnosed THEN Append(history, User) ELSE history
                   done == Outcome([history |-> before, failures |-> failures], gated[1], ok)
        <3>1. /\ gated # <<>> /\ history' = done.history /\ gated' = Tail(gated)
              /\ UNCHANGED <<batch, nextId>> /\ Standing
            BY <2>2 DEF ExecDone, Standing, Shape
        <3>2. /\ Lists(before, nextId, batch, gated) /\ Paired(before, Ids(batch) \cup Ids(gated) \cup Open)
            BY <3>1, ListsWithUser DEF Answering
        <3> HIDE DEF before
        <3>3. Lists(done.history, nextId, batch, Tail(gated)) /\ Paired(done.history, Ids(batch) \cup Ids(Tail(gated)) \cup Open)
            BY <1>0, <3>1, <3>2, OutcomeFirst
        <3> HIDE DEF done
        <3>4. Lists(history', nextId', batch', gated') /\ Paired(history', Ids(batch') \cup Ids(gated') \cup Open)
            BY <3>1, <3>3
        <3> QED
            BY <3>4 DEF Answering, Ids
    <2> QED
        BY <1>3, <2>1, <2>2 DEF Tools
<1>4. ASSUME World PROVE Answering'
    <2>1. UNCHANGED <<history, calls>> /\ (Standing' => Standing)
        BY <1>4 DEF World, Allowed, SendSteer, SenderDrops, Abort, DeadlineFires, WallElapses, Standing
    <2> QED
        BY <2>1, AnsweringSame
<1>5. ASSUME StreamSteered \/ ToolSteered \/ NoticeClosed \/ Idle \/ UNCHANGED vars PROVE Answering'
    <2>1. UNCHANGED <<history, calls>> /\ (Standing' => Standing)
        BY <1>5 DEF StreamSteered, ToolSteered, NoticeClosed, Idle, vars, Standing
    <2> QED
        BY <2>1, AnsweringSame
<1> QED
    BY <1>1, <1>2, <1>3, <1>4, <1>5 DEF Next

-----------------------------------------------------------------------------
(* The counters of the loop guard *)

LEMMA CountedType ==
    ASSUME NEW count \in [Signature -> 0..BlockAt], NEW s \in Seq(Call)
    PROVE  /\ Counted(count, s) \in [Signature -> 0..BlockAt]
           /\ \A sig \in Signature : Counted(count, s)[sig] = Lesser(BlockAt, count[sig] + Times(s, sig))
<1>1. BlockAt \in Nat
    BY BoundsAssumption
<1>2. \A sig \in Signature : Lesser(BlockAt, count[sig] + Times(s, sig)) \in 0..BlockAt
    <2> TAKE sig \in Signature
    <2>1. Times(s, sig) \in Nat /\ count[sig] \in 0..BlockAt
        BY TimesType
    <2> HIDE DEF Times
    <2> QED
        BY <1>1, <2>1 DEF Lesser
<1> QED
    BY <1>2 DEF Counted

LEMMA OneCall == ASSUME NEW c \in Call PROVE <<c>> \in Seq(Call)
    OBVIOUS

\* What record_attempt makes of the calls of a reply.
Judged(plain, reply, n) ==
  /\ plain \in Seq(Call) /\ reply \in Seq(Call) /\ Distinct(reply)
  /\ DOMAIN plain = 1..n /\ DOMAIN reply = 1..n /\ Len(plain) = n /\ Len(reply) = n /\ n \in Nat
  /\ \A i \in 1..n : reply[i].sig = plain[i].sig /\ (reply[i].decision # "deny" => ~Blocked(plain, i))

Taken(reply) ==
  /\ attempts' = Counted(attempts, reply) /\ UNCHANGED <<failures, approved>>
  /\ batch' = Decided(reply, "execute") /\ gated' = Decided(reply, "ask")
  /\ ran' = Counted(ran, batch')

LEMMA ReplyJudged ==
    ASSUME Answering, NEW n \in 1..MaxCalls, NEW sigs \in [1..n -> Signature],
           NEW decisions \in [1..n -> Decision], ToolReply(sigs, decisions)
    PROVE  \E plain, reply : Judged(plain, reply, n) /\ Taken(reply)
<1> DEFINE plain == [i \in DOMAIN sigs |-> [id |-> nextId + i, sig |-> sigs[i], decision |-> decisions[i]]]
           reply == [i \in DOMAIN sigs |->
                       IF Blocked(plain, i) THEN [plain[i] EXCEPT !.decision = "deny"] ELSE plain[i]]
<1>1. Taken(reply)
    BY DEF ToolReply, Taken, guard
<1>2. n \in Nat /\ DOMAIN sigs = 1..n
    BY BoundsAssumption
<1>3. nextId \in Nat
    BY DEF Answering, Lists
<1>4. \A i \in 1..n : plain[i] \in Call /\ plain[i].id = nextId + i
    BY <1>2, <1>3 DEF Call
<1>5. DOMAIN plain = 1..n
    BY <1>2
<1> HIDE DEF plain
<1>6. \A i \in 1..n : /\ reply[i] \in Call /\ reply[i].id = nextId + i /\ reply[i].sig = plain[i].sig
                      /\ reply[i].decision # "deny" => ~Blocked(plain, i)
    <2> TAKE i \in 1..n
    <2>1. /\ [plain[i] EXCEPT !.decision = "deny"] \in Call
          /\ [plain[i] EXCEPT !.decision = "deny"].id = plain[i].id
          /\ [plain[i] EXCEPT !.decision = "deny"].sig = plain[i].sig
          /\ [plain[i] EXCEPT !.decision = "deny"].decision = "deny"
        BY <1>4 DEF Call, Decision
    <2>2. CASE Blocked(plain, i)
        <3>1. reply[i] = [plain[i] EXCEPT !.decision = "deny"]
            BY <1>2, <2>2
        <3> QED
            BY <1>4, <2>1, <3>1
    <2>3. CASE ~Blocked(plain, i)
        <3>1. reply[i] = plain[i]
            BY <1>2, <2>3
        <3> QED
            BY <1>4, <2>3, <3>1
    <2> QED
        BY <2>2, <2>3
<1>7. DOMAIN reply = 1..n
    BY <1>2
<1> HIDE DEF reply
<1>8. plain \in Seq(Call) /\ reply \in Seq(Call)
    <2>1. plain \in [1..n -> Call]
        BY <1>4, <1>5 DEF plain
    <2>2. reply \in [1..n -> Call]
        BY <1>2, <1>6, <1>7 DEF reply
    <2> QED
        BY <1>2, <2>1, <2>2, SeqDef
<1>9. Len(plain) = n /\ Len(reply) = n
    BY <1>2, <1>5, <1>7, <1>8, LenProperties
<1>10. Distinct(reply)
    BY <1>2, <1>3, <1>6, <1>7 DEF Distinct
<1>11. Judged(plain, reply, n)
    BY <1>2, <1>5, <1>6, <1>7, <1>8, <1>9, <1>10 DEF Judged
<1> QED
    BY <1>1, <1>11

LEMMA GuardStep == ASSUME GuardTypes, Answering, Shape, [Next]_vars PROVE GuardTypes'
<1> USE DEF turn, tokens, guard, calls, sender, receiver, GuardTypes
<1>0. batch \in Seq(Call) /\ gated \in Seq(Call) /\ Lists(history, nextId, batch, gated)
    BY DEF Answering, Lists
<1>1. ASSUME gated # <<>> PROVE gated[1] \in Call /\ gated[1].sig \in Signature /\ <<gated[1]>> \in Seq(Call)
    <2>1. gated[1] \in Call
        BY <1>0, <1>1, Tailed
    <2> QED
        BY <2>1, OneCall DEF Call
<1>2. ASSUME Progress PROVE GuardTypes'
    <2>1. CASE Gate
        <3>1. UNCHANGED <<attempts, failures, approved>> /\ gated # <<>> /\ (ran' = ran \/ ran' = Counted(ran, <<gated[1]>>))
            BY <2>1 DEF Gate
        <3>2. ran' \in [Signature -> 0..BlockAt]
            BY <1>1, <3>1, CountedType
        <3> QED
            BY <3>1, <3>2
    <2>2. CASE ~Gate
        <3>1. UNCHANGED guard
            BY <1>2, <2>2 DEF Progress, StartIteration, StopAtTop, IterationsExhausted, StreamCancelled,
               Reissue, BatchCancelled, BatchOver, Refuse, NotAllowed, ExecCancelled, Return
        <3> QED
            BY <3>1
    <2> QED
        BY <2>1, <2>2
<1>3. ASSUME Provider PROVE GuardTypes'
    <2>1. ASSUME NEW n \in 1..MaxCalls, NEW sigs \in [1..n -> Signature], NEW decisions \in [1..n -> Decision],
                 ToolReply(sigs, decisions)
          PROVE  GuardTypes'
        <3>1. PICK plain, reply : Judged(plain, reply, n) /\ Taken(reply)
            BY <2>1, ReplyJudged
        <3>2. reply \in Seq(Call) /\ Distinct(reply)
            BY <3>1 DEF Judged
        <3>3. batch' \in Seq(Call)
            BY <3>1, <3>2, DecidedKeeps DEF Choosing, Taken
        <3> QED
            BY <3>1, <3>2, <3>3, CountedType DEF Taken
    <2>2. CASE StreamError \/ ContextTooLong \/ FinalReply \/ \E sawDone \in BOOLEAN : EmptyReply(sawDone)
        <3>1. UNCHANGED guard
            BY <2>2 DEF StreamError, ContextTooLong, FinalReply, EmptyReply
        <3> QED
            BY <3>1
    <2> QED
        BY <1>3, <2>1, <2>2 DEF Provider
<1>4. ASSUME Tools PROVE GuardTypes'
    <2>1. ASSUME NEW ok, BatchDone(ok) PROVE GuardTypes'
        <3>1. failures' = Outcomes(batch, ok).failures /\ UNCHANGED <<attempts, ran, approved>>
            BY <2>1 DEF BatchDone
        <3>2. Outcomes(batch, ok) \in Outcoming
            BY <1>0, OutcomesKeep
        <3> QED
            BY <3>1, <3>2 DEF Outcoming
    <2>2. ASSUME NEW ok, NEW diagnosed, ExecDone(ok, diagnosed) PROVE GuardTypes'
        <3> DEFINE before == IF diagnosed THEN Append(history, User) ELSE history
                   done == Outcome([history |-> before, failures |-> failures], gated[1], ok)
        <3>1. failures' = done.failures /\ UNCHANGED <<attempts, ran, approved>> /\ gated # <<>>
            BY <2>2 DEF ExecDone, Shape
        <3>2. Lists(before, nextId, batch, gated)
            BY <1>0, ListsWithUser
        <3> HIDE DEF before
        <3>3. done \in Outcoming
            BY <3>1, <3>2, OutcomeFirst
        <3> QED
            BY <3>1, <3>3 DEF Outcoming
    <2> QED
        BY <1>4, <2>1, <2>2 DEF Tools
<1>5. ASSUME World PROVE GuardTypes'
    <2>1. CASE Allowed
        <3>1. gated # <<>> /\ approved' = approved \cup {gated[1].sig} /\ ran' = Counted(ran, <<gated[1]>>)
              /\ UNCHANGED <<attempts, failures>>
            BY <2>1 DEF Allowed, Shape
        <3> QED
            BY <1>1, <3>1, CountedType
    <2>2. CASE ~Allowed
        <3>1. UNCHANGED guard
            BY <1>5, <2>2 DEF World, SendSteer, SenderDrops, Abort, DeadlineFires, WallElapses
        <3> QED
            BY <3>1
    <2> QED
        BY <2>1, <2>2
<1>6. ASSUME StreamSteered \/ ToolSteered \/ NoticeClosed \/ Idle \/ UNCHANGED vars PROVE GuardTypes'
    <2>1. UNCHANGED guard
        BY <1>6 DEF StreamSteered, ToolSteered, NoticeClosed, Idle, vars
    <2> QED
        BY <2>1
<1> QED
    BY <1>2, <1>3, <1>4, <1>5, <1>6 DEF Next

-----------------------------------------------------------------------------
(* No call runs for the BlockAt-th time *)

LEMMA Greatest ==
    ASSUME NEW n \in Nat, NEW T, T \subseteq 1..n, T # {}
    PROVE  \E i \in T : \A j \in T : j <= i
<1> DEFINE R == {m \in Nat : n - m \in T}
<1>1. R # {}
    <2>1. PICK i \in T : TRUE
        OBVIOUS
    <2>2. n - i \in Nat /\ n - (n - i) = i
        BY <2>1
    <2> QED
        BY <2>1, <2>2
<1>2. PICK m \in R : \A k \in R : m <= k
    <2>1. R \subseteq Nat
        OBVIOUS
    <2> HIDE DEF R
    <2> QED
        BY <1>1, <2>1, Least
<1>3. n - m \in T /\ m \in Nat
    BY <1>2
<1>4. ASSUME NEW j \in T PROVE j <= n - m
    <2>1. j \in 1..n /\ n - j \in Nat /\ n - (n - j) = j
        OBVIOUS
    <2>2. n - j \in R
        BY <2>1
    <2>3. m <= n - j
        BY <1>2, <2>2
    <2> QED
        BY <1>3, <2>1, <2>3
<1> QED
    BY <1>3, <1>4

\* Of the calls of a reply that are let through, the last was counted with all of them.
LEMMA LetThrough ==
    ASSUME NEW plain, NEW reply, NEW n, Judged(plain, reply, n), GuardTypes, NEW sig \in Signature
    PROVE  LET b == Times(Decided(reply, "execute"), sig)
               g == Times(Decided(reply, "ask"), sig)
           IN  /\ b \in Nat /\ g \in Nat /\ b + g <= Times(reply, sig) /\ Times(reply, sig) \in Nat
               /\ b + g = 0 \/ attempts[sig] + b + g < BlockAt
<1> DEFINE B == Counting(reply, "execute", sig, n)
           G == Counting(reply, "ask", sig, n)
           U == B \cup G
           b == Times(Decided(reply, "execute"), sig)
           g == Times(Decided(reply, "ask"), sig)
           R == {i \in DOMAIN reply : reply[i].sig = sig}
<1>1. /\ plain \in Seq(Call) /\ reply \in Seq(Call) /\ Distinct(reply)
      /\ DOMAIN plain = 1..n /\ DOMAIN reply = 1..n /\ Len(plain) = n /\ Len(reply) = n /\ n \in Nat
      /\ \A i \in 1..n : reply[i].sig = plain[i].sig /\ (reply[i].decision # "deny" => ~Blocked(plain, i))
    BY DEF Judged
<1>2. b = Cardinality(B) /\ g = Cardinality(G)
    <2>1. Choosing(Decided(reply, "execute"), reply, "execute", n) /\ Choosing(Decided(reply, "ask"), reply, "ask", n)
        BY <1>1, DecidedKeeps
    <2> QED
        BY <2>1 DEF Choosing
<1>3. IsFiniteSet(B) /\ IsFiniteSet(G) /\ Cardinality(B) \in Nat /\ Cardinality(G) \in Nat
    BY <1>1, CountingFinite
<1>4. B \cap G = {}
    BY DEF Counting
<1>5. U \subseteq R /\ U \subseteq 1..n
    BY <1>1 DEF Counting
<1>6. \A i \in U : reply[i].sig = sig /\ reply[i].decision # "deny"
    BY DEF Counting
<1> HIDE DEF B, G, b, g
<1>7. Cardinality(U) = b + g /\ IsFiniteSet(U)
    <2>1. Cardinality(B \cup G) = Cardinality(B) + Cardinality(G) - Cardinality(B \cap G) /\ IsFiniteSet(B \cup G)
        BY <1>3, FS_Union
    <2>2. Cardinality(B \cap G) = 0
        BY <1>4, FS_EmptySet
    <2> QED
        BY <1>2, <1>3, <2>1, <2>2
<1>8. b \in Nat /\ g \in Nat
    BY <1>2, <1>3
<1> HIDE DEF U
<1>9. b + g <= Times(reply, sig) /\ Times(reply, sig) \in Nat
    <2>1. IsFiniteSet(R) /\ Times(reply, sig) \in Nat /\ Times(reply, sig) = Cardinality(R)
        BY <1>1, TimesType DEF Times
    <2> HIDE DEF R
    <2>2. Cardinality(U) <= Cardinality(R)
        BY <1>5, <2>1, FS_Subset
    <2> QED
        BY <1>7, <2>1, <2>2
<1>10. CASE U = {}
    BY <1>7, <1>9, <1>10, <1>8, FS_EmptySet DEF b, g
<1>11. CASE U # {}
    <2>1. PICK i \in U : \A j \in U : j <= i
        BY <1>1, <1>5, <1>11, Greatest
    <2> DEFINE p == SubSeq(plain, 1, i)
               C == {k \in DOMAIN p : p[k].sig = sig}
    <2>2. i \in 1..n /\ i \in Nat
        BY <1>1, <1>5
    <2>3. p \in Seq(Call) /\ Len(p) = i /\ DOMAIN p = 1..i /\ \A k \in 1..i : p[k] = plain[k]
        <3>1. \A k \in 1..i : plain[k] \in Call
            BY <1>1, <2>2, ElementOfSeq
        <3>2. p \in Seq(Call) /\ Len(p) = i - 1 + 1 /\ \A k \in 1..(i - 1 + 1) : p[k] = plain[1 + k - 1]
            BY <1>1, <2>2, <3>1, SubSeqProperties
        <3> HIDE DEF p
        <3>3. Len(p) = i /\ \A k \in 1..i : p[k] = plain[k]
            BY <2>2, <3>2
        <3> QED
            BY <3>2, <3>3, LenProperties
    <2>4. ~(attempts[sig] + Times(p, sig) >= BlockAt)
        <3>1. ~Blocked(plain, i) /\ plain[i].sig = sig
            BY <1>1, <1>6, <2>1, <2>2
        <3> QED
            BY <3>1 DEF Blocked
    <2> HIDE DEF p
    <2>5. U \subseteq C
        <3> SUFFICES ASSUME NEW k \in U PROVE k \in C
            OBVIOUS
        <3>1. k \in 1..i /\ k \in 1..n
            BY <1>1, <1>5, <2>1, <2>2
        <3>2. plain[k].sig = sig
            BY <1>1, <1>6, <3>1
        <3> QED
            BY <2>3, <3>1, <3>2
    <2>6. IsFiniteSet(C) /\ Times(p, sig) \in Nat /\ Times(p, sig) = Cardinality(C)
        BY <2>3, TimesType DEF Times
    <2> HIDE DEF C
    <2>7. Cardinality(U) <= Cardinality(C)
        BY <2>5, <2>6, FS_Subset
    <2>8. attempts[sig] \in Nat /\ BlockAt \in Nat
        BY BoundsAssumption DEF GuardTypes
    <2> QED
        BY <1>7, <1>8, <1>9, <2>4, <2>6, <2>7, <2>8 DEF b, g
<1> QED
    BY <1>10, <1>11

LEMMA OneMore ==
    ASSUME NEW k \in Nat, NEW r \in Nat, NEW a \in Nat, NEW x \in Nat, NEW one \in {0, 1},
           r < k, r + (x + one) <= Lesser(k - 1, a), NEW s, s = r \/ s = Lesser(k, r + one)
    PROVE  s < k /\ s + x <= Lesser(k - 1, a)
    BY DEF Lesser

LEMMA ManyMore ==
    ASSUME NEW k \in Nat, NEW r \in Nat, NEW a \in Nat, NEW b \in Nat, NEW g \in Nat, NEW t \in Nat,
           r < k, r <= Lesser(k - 1, a), b + g <= t, b + g = 0 \/ a + b + g < k
    PROVE  Lesser(k, r + b) < k /\ Lesser(k, r + b) + g <= Lesser(k - 1, Lesser(k, a + t))
    BY DEF Lesser

LEMMA WithinSame ==
    ASSUME Within, UNCHANGED <<ran, attempts, gated>>, Standing' => Standing /\ (pc' = "exec" <=> pc = "exec")
    PROVE  Within'
    BY DEF Within, ToStart, Times

\* A call of the gate is started, or answered without being run.
LEMMA WithinOne ==
    ASSUME Within, GuardTypes, gated \in Seq(Call), gated # <<>>, pc # "exec", Standing,
           UNCHANGED attempts,
           \/ pc' = "exec" /\ gated' = gated /\ ran' = Counted(ran, <<gated[1]>>)
           \/ pc' # "exec" /\ gated' = Tail(gated) /\ ran' = ran
    PROVE  Within'
<1> SUFFICES ASSUME NEW s \in Signature
             PROVE  ran'[s] < BlockAt /\ ran'[s] + Times(ToStart', s) <= Lesser(BlockAt - 1, attempts[s])
    BY DEF Within, Times
<1>1. BlockAt \in Nat /\ ran[s] \in Nat /\ attempts[s] \in Nat
    BY BoundsAssumption DEF GuardTypes
<1>2. ToStart = gated /\ ToStart' = Tail(gated)
    BY DEF ToStart
<1>3. ran[s] < BlockAt /\ ran[s] + Times(gated, s) <= Lesser(BlockAt - 1, attempts[s])
    BY <1>2 DEF Within
<1>4. gated[1] \in Call /\ Tail(gated) \in Seq(Call)
    BY Tailed
<1>5. Times(gated, s) = Times(Tail(gated), s) + (IF gated[1].sig = s THEN 1 ELSE 0)
    BY TimesTail
<1>6. Times(<<gated[1]>>, s) = (IF gated[1].sig = s THEN 1 ELSE 0)
    <2>1. <<gated[1]>> = Append(<<>>, gated[1])
        OBVIOUS
    <2>2. Times(Append(<<>>, gated[1]), s) = Times(<<>>, s) + (IF gated[1].sig = s THEN 1 ELSE 0)
        BY <1>4, IdsOfNone, TimesAppend
    <2> HIDE DEF Times
    <2> QED
        BY <2>1, <2>2, TimesNone
<1>7. Times(Tail(gated), s) \in Nat
    BY <1>4, TimesType
<1>8. ran'[s] = ran[s] \/ ran'[s] = Lesser(BlockAt, ran[s] + Times(<<gated[1]>>, s))
    <2>1. <<gated[1]>> \in Seq(Call)
        BY <1>4, OneCall
    <2>2. ran \in [Signature -> 0..BlockAt]
        BY DEF GuardTypes
    <2> QED
        BY <2>1, <2>2, CountedType
<1> QED
    <2> DEFINE one == IF gated[1].sig = s THEN 1 ELSE 0
    <2>1. one \in {0, 1}
        OBVIOUS
    <2>2. ran[s] + (Times(Tail(gated), s) + one) <= Lesser(BlockAt - 1, attempts[s])
        BY <1>3, <1>5
    <2>3. ran'[s] = ran[s] \/ ran'[s] = Lesser(BlockAt, ran[s] + one)
        BY <1>6, <1>8
    <2> HIDE DEF one
    <2>4. ran'[s] < BlockAt /\ ran'[s] + Times(Tail(gated), s) <= Lesser(BlockAt - 1, attempts[s])
        BY <1>1, <1>3, <1>7, <2>1, <2>2, <2>3, OneMore
    <2> QED
        BY <1>2, <2>4

LEMMA WithinReply ==
    ASSUME Within, GuardTypes, Answering, Shape, NEW n \in 1..MaxCalls, NEW sigs \in [1..n -> Signature],
           NEW decisions \in [1..n -> Decision], ToolReply(sigs, decisions)
    PROVE  Within'
<1>1. PICK plain, reply : Judged(plain, reply, n) /\ Taken(reply)
    BY ReplyJudged
<1>2. pc = "stream" /\ pc' # "exec"
    <2>1. pc' = (IF batch' # <<>> THEN "batch" ELSE "gate") /\ pc = "stream"
        BY DEF ToolReply
    <2> QED
        BY <2>1
<1> SUFFICES ASSUME NEW s \in Signature
             PROVE  ran'[s] < BlockAt /\ ran'[s] + Times(gated', s) <= Lesser(BlockAt - 1, attempts'[s])
    BY <1>2 DEF Within, Times, ToStart
<1> DEFINE b == Times(batch', s)
           g == Times(gated', s)
           t == Times(reply, s)
<1>3. BlockAt \in Nat /\ ran[s] \in Nat /\ attempts[s] \in Nat
    BY BoundsAssumption DEF GuardTypes
<1>4. ran[s] < BlockAt /\ ran[s] <= Lesser(BlockAt - 1, attempts[s])
    <2>1. ToStart = <<>> /\ Standing
        BY <1>2 DEF ToStart, Shape, Standing
    <2>2. ran[s] + Times(<<>>, s) <= Lesser(BlockAt - 1, attempts[s]) /\ ran[s] < BlockAt
        BY <2>1 DEF Within
    <2> QED
        BY <1>3, <2>2, TimesNone
<1>5. /\ b \in Nat /\ g \in Nat /\ b + g <= t /\ t \in Nat
      /\ b + g = 0 \/ attempts[s] + b + g < BlockAt
    BY <1>1, LetThrough DEF Taken
<1>6. ran'[s] = Lesser(BlockAt, ran[s] + b) /\ attempts'[s] = Lesser(BlockAt, attempts[s] + t)
    <2>1. reply \in Seq(Call) /\ Distinct(reply)
        BY <1>1 DEF Judged
    <2>2. batch' \in Seq(Call)
        BY <1>1, <2>1, DecidedKeeps DEF Choosing, Taken
    <2>3. ran \in [Signature -> 0..BlockAt] /\ attempts \in [Signature -> 0..BlockAt]
        BY DEF GuardTypes
    <2> QED
        BY <1>1, <2>1, <2>2, <2>3, CountedType DEF Taken
<1> HIDE DEF b, g, t
<1>7. ran'[s] < BlockAt /\ ran'[s] + g <= Lesser(BlockAt - 1, attempts'[s])
    <2>1. /\ Lesser(BlockAt, ran[s] + b) < BlockAt
          /\ Lesser(BlockAt, ran[s] + b) + g <= Lesser(BlockAt - 1, Lesser(BlockAt, attempts[s] + t))
        BY <1>3, <1>4, <1>5, ManyMore
    <2> QED
        BY <1>6, <2>1
<1> QED
    BY <1>7 DEF g

LEMMA WithinStep ==
    ASSUME Within, GuardTypes, Answering, Shape, [Next]_vars PROVE Within'
<1> USE DEF turn, tokens, guard, calls, sender, receiver
<1>0. gated \in Seq(Call)
    BY DEF Answering, Lists
<1>1. ASSUME Progress PROVE Within'
    <2>1. CASE StartIteration \/ Reissue \/ StopAtTop \/ StreamCancelled \/ IterationsExhausted
               \/ BatchCancelled \/ BatchOver \/ Return
        <3>1. UNCHANGED <<ran, attempts, gated>> /\ (Standing' => Standing) /\ pc' # "exec"
              /\ pc # "exec"
            BY <2>1 DEF StartIteration, Reissue, StopAtTop, StreamCancelled, IterationsExhausted,
               BatchCancelled, BatchOver, Return, CloseWithDrain, Close, Continue, Standing
        <3> QED
            BY <3>1, WithinSame
    <2>2. CASE Gate
        <3>1. /\ pc = "gate" /\ gated # <<>> /\ gated' = gated /\ attempts' = attempts
              /\ \/ pc' = "exec" /\ ran' = Counted(ran, <<gated[1]>>)
                 \/ pc' = "ask" /\ ran' = ran
            BY <2>2 DEF Gate
        <3>2. CASE pc' = "exec" /\ ran' = Counted(ran, <<gated[1]>>)
            BY <1>0, <3>1, <3>2, WithinOne DEF Standing
        <3>3. CASE pc' = "ask" /\ ran' = ran
            BY <3>1, <3>3, WithinSame DEF Standing
        <3> QED
            BY <3>1, <3>2, <3>3
    <2>3. CASE ExecCancelled
        <3>1. UNCHANGED <<ran, attempts, gated>> /\ pc' = "closing"
            BY <2>3 DEF ExecCancelled, CloseWithDrain, Close
        <3> QED
            BY <3>1, WithinSame DEF Standing
    <2>4. CASE Refuse
        <3>1. /\ pc = "gate" /\ gated # <<>> /\ gated' = Tail(gated) /\ UNCHANGED <<attempts, ran, pc>>
            BY <2>4 DEF Refuse
        <3> QED
            BY <1>0, <3>1, WithinOne DEF Standing
    <2>5. CASE NotAllowed
        <3>1. /\ pc = "ask" /\ pc' = "gate" /\ gated # <<>> /\ gated' = Tail(gated) /\ UNCHANGED <<attempts, ran>>
            BY <2>5 DEF NotAllowed, Shape
        <3> QED
            BY <1>0, <3>1, WithinOne DEF Standing
    <2> QED
        BY <1>1, <2>1, <2>2, <2>3, <2>4, <2>5 DEF Progress
<1>2. ASSUME Provider PROVE Within'
    <2>1. CASE \E n \in 1..MaxCalls : \E sigs \in [1..n -> Signature], decisions \in [1..n -> Decision] :
                   ToolReply(sigs, decisions)
        BY <2>1, WithinReply
    <2>2. CASE StreamError \/ ContextTooLong \/ FinalReply \/ \E sawDone \in BOOLEAN : EmptyReply(sawDone)
        <3>1. UNCHANGED <<ran, attempts, gated>> /\ Standing /\ pc' # "exec" /\ pc # "exec"
            BY <2>2 DEF StreamError, ContextTooLong, FinalReply, EmptyReply, CloseWithDrain, Close, Continue, Standing
        <3> QED
            BY <3>1, WithinSame
    <2> QED
        BY <1>2, <2>1, <2>2 DEF Provider
<1>3. ASSUME Tools PROVE Within'
    <2>1. ASSUME NEW ok, BatchDone(ok) PROVE Within'
        <3>1. UNCHANGED <<ran, attempts, gated>> /\ pc = "batch" /\ pc' = "gate"
            BY <2>1 DEF BatchDone
        <3> QED
            BY <3>1, WithinSame DEF Standing
    <2>2. ASSUME NEW ok, NEW diagnosed, ExecDone(ok, diagnosed) PROVE Within'
        <3>1. UNCHANGED <<ran, attempts>> /\ gated' = Tail(gated) /\ pc = "exec" /\ pc' = "gate"
            BY <2>2 DEF ExecDone
        <3> QED
            BY <3>1 DEF Within, ToStart, Standing, Times
    <2> QED
        BY <1>3, <2>1, <2>2 DEF Tools
<1>4. ASSUME World PROVE Within'
    <2>1. CASE Allowed
        <3>1. /\ pc = "ask" /\ pc' = "exec" /\ gated # <<>> /\ UNCHANGED <<gated, attempts>>
              /\ ran' = Counted(ran, <<gated[1]>>)
            BY <2>1 DEF Allowed, Shape
        <3> QED
            BY <1>0, <3>1, WithinOne DEF Standing
    <2>2. CASE ~Allowed
        <3>1. UNCHANGED <<ran, attempts, gated, pc>>
            BY <1>4, <2>2 DEF World, SendSteer, SenderDrops, Abort, DeadlineFires, WallElapses
        <3> QED
            BY <3>1, WithinSame DEF Standing
    <2> QED
        BY <2>1, <2>2
<1>5. ASSUME StreamSteered PROVE Within'
    <2>1. UNCHANGED <<ran, attempts, gated>> /\ pc = "stream" /\ pc' = "interrupted"
        BY <1>5 DEF StreamSteered
    <2> QED
        BY <2>1, WithinSame DEF Standing
<1>6. ASSUME ToolSteered \/ NoticeClosed \/ Idle \/ UNCHANGED vars PROVE Within'
    <2>1. UNCHANGED <<ran, attempts, gated, pc>>
        BY <1>6 DEF ToolSteered, NoticeClosed, Idle, vars
    <2> QED
        BY <2>1, WithinSame DEF Standing
<1> QED
    BY <1>1, <1>2, <1>3, <1>4, <1>5, <1>6 DEF Next

-----------------------------------------------------------------------------
(* The theorems *)

\* A turn that returns for another reason than its token leaves no call open.
Unfinished ==
  pc \in {"closing", "returned"} /\ result \notin {"Cancelled", "WallTimeout"} => batch = <<>> /\ gated = <<>>

LEMMA UnfinishedInit == Init => Unfinished
    BY DEF Init, Unfinished

LEMMA UnfinishedStep == ASSUME Unfinished, Shape, [Next]_vars PROVE Unfinished'
<1> USE DEF turn, tokens, guard, calls, sender, receiver, Unfinished, Shape
<1>1. ASSUME Progress PROVE Unfinished'
    BY <1>1 DEF Progress, StartIteration, StopAtTop, IterationsExhausted, StreamCancelled, Reissue, BatchCancelled,
                BatchOver, Refuse, Gate, NotAllowed, ExecCancelled, Return, Close, CloseWithDrain, Continue
<1>2. ASSUME Provider PROVE Unfinished'
    <2>1. ASSUME NEW n \in 1..MaxCalls, NEW sigs \in [1..n -> Signature], NEW decisions \in [1..n -> Decision],
                 ToolReply(sigs, decisions)
          PROVE  Unfinished'
        BY <2>1 DEF ToolReply
    <2>2. CASE FinalReply \/ StreamError \/ ContextTooLong
        BY <2>2 DEF FinalReply, StreamError, ContextTooLong, Close, CloseWithDrain, Continue
    <2>3. ASSUME NEW sawDone \in BOOLEAN, EmptyReply(sawDone) PROVE Unfinished'
        BY <2>3 DEF EmptyReply, Close, CloseWithDrain, Continue
    <2> QED
        BY <1>2, <2>1, <2>2, <2>3 DEF Provider
<1>3. ASSUME Tools PROVE Unfinished'
    BY <1>3 DEF Tools, BatchDone, ExecDone
<1>4. ASSUME World PROVE Unfinished'
    BY <1>4 DEF World, Allowed, SendSteer, SenderDrops, Abort, DeadlineFires, WallElapses
<1>5. ASSUME StreamSteered \/ ToolSteered \/ NoticeClosed \/ Idle \/ UNCHANGED vars PROVE Unfinished'
    BY <1>5 DEF StreamSteered, ToolSteered, NoticeClosed, Idle, vars
<1> QED
    BY <1>1, <1>2, <1>3, <1>4, <1>5 DEF Next

Room == Len(chan) <= ChannelCap

IInv ==
  /\ Control /\ Flags /\ Shape /\ SteerLists /\ Room /\ Steered
  /\ Answering /\ Unfinished /\ GuardTypes /\ Within

LEMMA RoomStep == ASSUME Room, SteerLists, [Next]_vars PROVE Room'
<1>0. ChannelCap \in Nat
    BY BoundsAssumption
<1>1. ASSUME chan' = <<>> PROVE Room'
    BY <1>0, <1>1 DEF Room
<1>2. ASSUME chan' = chan PROVE Room'
    BY <1>2 DEF Room
<1>3. ASSUME NEW id \in Steer, NEW edit \in BOOLEAN, SendSteer(id, edit) PROVE Room'
    <2> DEFINE m == [id |-> id, edit |-> edit, correction |-> FALSE, at |-> Len(accepted'), text |-> Len(accepted')]
    <2>1. chan' = Append(chan, m) /\ Len(chan) < ChannelCap /\ chan \in Seq(SteerMessage)
          /\ accepted' = Append(accepted, id) /\ accepted \in Seq(Steer)
        BY <1>3 DEF SendSteer, SteerLists
    <2>2. Len(accepted') \in Nat
        BY <2>1, Appended
    <2>3. m \in SteerMessage
        BY <2>2 DEF SteerMessage
    <2> HIDE DEF m
    <2>4. Len(chan') = Len(chan) + 1 /\ Len(chan) \in Nat
        BY <2>1, <2>3, Appended
    <2> QED
        BY <1>0, <2>1, <2>4 DEF Room
<1>4. Drain \/ Record \/ UNCHANGED chan \/ \E id \in Steer, edit \in BOOLEAN : SendSteer(id, edit)
    BY SteerMoves
<1>5. Drain \/ Record => chan' = <<>> \/ chan' = chan
    BY DEF Drain, Record
<1> QED
    BY <1>1, <1>2, <1>3, <1>4, <1>5

LEMMA AnsweringInit == Init => Answering
<1> SUFFICES ASSUME Init PROVE Answering
    OBVIOUS
<1>1. PICK h \in Sessions : history = Append(h, User)
    BY DEF Init
<1>2. nextId = Given /\ batch = <<>> /\ gated = <<>>
    BY DEF Init
<1>3. Given \in Nat /\ Open \subseteq 1..Given /\ h \in Seq(Message) /\ Numbered(h, Given) /\ Paired(h, Open)
    BY <1>1, SessionsAssumption
<1>4. history \in Seq(Message) /\ Numbered(history, Given) /\ Paired(history, Open)
    BY <1>1, <1>3, AppendUser
<1>5. Ids(batch) = {} /\ Ids(gated) = {} /\ Distinct(batch) /\ Distinct(gated) /\ batch \in Seq(Call) /\ gated \in Seq(Call)
    BY <1>2, IdsOfNone
<1>6. Ids(batch) \cup Ids(gated) \cup Open = Open
    BY <1>5
<1>7. Lists(history, nextId, batch, gated)
    BY <1>2, <1>3, <1>4, <1>5 DEF Lists
<1> QED
    BY <1>4, <1>6, <1>7 DEF Answering

LEMMA GuardInit == Init => GuardTypes /\ Within /\ Room
<1> SUFFICES ASSUME Init PROVE GuardTypes /\ Within /\ Room
    OBVIOUS
<1>1. BlockAt \in Nat \ {0} /\ HaltAt \in Nat /\ ChannelCap \in Nat
    BY BoundsAssumption
<1>2. /\ attempts = [s \in Signature |-> 0] /\ failures = [t \in Tool |-> 0]
      /\ ran = [s \in Signature |-> 0] /\ approved = {} /\ pc = "top" /\ gated = <<>> /\ chan = <<>>
    BY DEF Init
<1>3. GuardTypes
    BY <1>1, <1>2 DEF GuardTypes
<1>4. ASSUME NEW s \in Signature PROVE ran[s] < BlockAt /\ ran[s] + Times(ToStart, s) <= Lesser(BlockAt - 1, attempts[s])
    <2>1. ToStart = <<>>
        BY <1>2 DEF ToStart
    <2>2. Times(ToStart, s) = 0
        BY <2>1, TimesNone
    <2> QED
        BY <1>1, <1>2, <2>2 DEF Lesser
<1>5. Room
    BY <1>1, <1>2 DEF Room
<1> QED
    BY <1>3, <1>4, <1>5 DEF Within

LEMMA IInvHolds == Spec => []IInv
<1>1. Init => IInv
    BY ControlInit, SteeredInit, AnsweringInit, GuardInit, UnfinishedInit DEF IInv
<1>2. IInv /\ [Next]_vars => IInv'
    <2> SUFFICES ASSUME IInv, [Next]_vars PROVE IInv'
        OBVIOUS
    <2>1. /\ Control /\ Flags /\ Shape /\ SteerLists /\ Room /\ Steered
          /\ Answering /\ Unfinished /\ GuardTypes /\ Within
        BY DEF IInv
    <2>2. Control' /\ Shape'
        BY <2>1, ControlStep
    <2>3. Flags'
        BY <2>1, FlagsStep
    <2>4. SteerLists' /\ Steered'
        BY <2>1, SteeredStep
    <2>5. Room'
        BY <2>1, RoomStep
    <2>6. Answering'
        BY <2>1, AnsweringStep
    <2>7. GuardTypes'
        BY <2>1, GuardStep
    <2>8. Within'
        BY <2>1, WithinStep
    <2>9. Unfinished'
        BY <2>1, UnfinishedStep
    <2> QED
        BY <2>9, <2>2, <2>3, <2>4, <2>5, <2>6, <2>7, <2>8 DEF IInv
<1> QED
    BY <1>1, <1>2, PTL DEF Spec

LEMMA TypesFollow == IInv => TypeOK
    BY DEF IInv, Control, Flags, SteerLists, Room, Answering, Lists, GuardTypes, Pc, Values, TypeOK

\* Every variable of the loop keeps its type and every counter its limit: the
\* channel its capacity, the guard its thresholds, the turn its iterations.
THEOREM TypeCorrect == Spec => []TypeOK
    BY IInvHolds, TypesFollow, PTL

\* Steers are neither lost, doubled nor reordered between the channel and the
\* history, whatever bursts, edits, drains and returns meet.
THEOREM SteersAreKept == Spec => []SteersKept
<1>1. IInv => SteersKept
    BY TypesFollow DEF IInv, Steered, SteersKept
<1> QED
    BY <1>1, IInvHolds, PTL

\* A turn that fails on its provider or on a deadline has put the steers it was
\* sent into the history: each of those returns drains.
THEOREM FailuresKeepSteers == Spec => FailureKeepsSteers
<1>1. IInv /\ [Next]_vars => [Fails /\ rxOpen => pending' \o chan' = <<>>]_vars
    BY FailingDrains DEF IInv
<1> QED
    BY <1>1, IInvHolds, PTL DEF Spec, FailureKeepsSteers

\* Every request to the provider answers every tool call of its turn exactly once,
\* also behind a compaction, a refusal, a steer or a guard note, whatever calls
\* earlier turns of the session left open; and what the turn leaves is again a
\* history with every call answered once but for those a cancelled turn left open.
THEOREM RequestsPaired == Spec => []RequestsArePaired
<1>1. IInv => RequestsArePaired
    <2> SUFFICES ASSUME IInv PROVE RequestsArePaired
        OBVIOUS
    <2>1. Shape /\ Unfinished /\ Numbered(history, nextId) /\ Paired(history, Ids(batch) \cup Ids(gated) \cup Open)
        BY DEF IInv, Answering, Lists
    <2>2. ASSUME batch = <<>>, gated = <<>> PROVE Ids(batch) \cup Ids(gated) = {}
        BY <2>2, IdsOfNone
    <2>3. ASSUME pc = "stream" PROVE Paired(history, Open)
        <3>1. Ids(batch) \cup Ids(gated) \cup Open = Open
            BY <2>1, <2>2, <2>3 DEF Shape
        <3> QED
            BY <2>1, <3>1
    <2>4. Open \cup Ids(batch) \cup Ids(gated) = Ids(batch) \cup Ids(gated) \cup Open
        OBVIOUS
    <2>5. ASSUME pc = "returned", result \notin {"Cancelled", "WallTimeout"} PROVE Ids(batch) \cup Ids(gated) = {}
        BY <2>1, <2>2, <2>5 DEF Unfinished
    <2> QED
        BY <2>1, <2>3, <2>4, <2>5 DEF RequestsArePaired
<1> QED
    BY <1>1, IInvHolds, PTL

\* The call that would be the BlockAt-th with the same arguments never runs in a
\* turn, however its attempts are spread over replies, batches and the gate.
THEOREM RepeatsBlocked == Spec => []RepeatsAreBlocked
<1>1. IInv => RepeatsAreBlocked
    BY DEF IInv, Within, RepeatsAreBlocked
<1> QED
    BY <1>1, IInvHolds, PTL
=============================================================================
