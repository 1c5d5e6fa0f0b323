---------------------------- MODULE StoresProofs ----------------------------
(***************************************************************************)
(* What the research runs, the memory and the markers of Stores keep in    *)
(* their files, for every value of the constants: for each part the        *)
(* invariant it begins with and every one of its steps keeps.              *)
(***************************************************************************)
EXTENDS Stores, Lists, Integers, FiniteSetTheorems, WellFoundedInduction, TLAPS

-----------------------------------------------------------------------------
(***************************************************************************)
(* Lists.                                                                  *)
(***************************************************************************)

\* A set of numbers that is not empty has a least one.
LEMMA Least ==
    ASSUME NEW T \in SUBSET Nat, T # {}
    PROVE  \E n \in T : \A m \in T : n <= m
<1>1. PICK n \in T : \A m \in T : <<m, n>> \notin OpToRel(<, Nat)
    BY WFMin, NatLessThanWellFounded
<1>2. \A m \in T : ~ (m < n)
    BY <1>1 DEF OpToRel
<1> QED
    BY <1>2

\* Sorted lists every number of the set, the least first.
LEMMA SortedLists ==
    ASSUME NEW S \in SUBSET Nat, IsFiniteSet(S)
    PROVE  /\ Cardinality(S) \in Nat
           /\ Sorted(S) \in [1..Cardinality(S) -> S]
           /\ \A n \in S : \E k \in 1..Cardinality(S) : Sorted(S)[k] = n
           /\ \A j, k \in 1..Cardinality(S) : j < k => Sorted(S)[j] < Sorted(S)[k]
<1> DEFINE Below(n) == {m \in S : m <= n}
           rank == [n \in S |-> Cardinality(Below(n))]
           C == Cardinality(S)
<1>1. C \in Nat
    BY FS_CardinalityType
<1>2. \A n \in S : IsFiniteSet(Below(n)) /\ Cardinality(Below(n)) \in 1..C
    <2> TAKE n \in S
    <2>1. IsFiniteSet(Below(n)) /\ Cardinality(Below(n)) <= C /\ Cardinality(Below(n)) \in Nat
        <3>1. Below(n) \in SUBSET S
            OBVIOUS
        <3> HIDE DEF Below
        <3> QED
            BY <3>1, FS_Subset, FS_CardinalityType
    <2>2. Below(n) # {}
        OBVIOUS
    <2>3. Cardinality(Below(n)) # 0
        <3> HIDE DEF Below
        <3> QED
            BY <2>1, <2>2, FS_EmptySet
    <2> QED
        BY <1>1, <2>1, <2>3
<1>3. \A m, n \in S : m < n => rank[m] < rank[n]
    <2> SUFFICES ASSUME NEW m \in S, NEW n \in S, m < n
                 PROVE  Cardinality(Below(m)) < Cardinality(Below(n))
        OBVIOUS
    <2>1. Below(m) \in SUBSET Below(n) /\ Below(m) # Below(n)
        <3>1. m \in Nat /\ n \in Nat /\ \A x \in S : x \in Nat
            OBVIOUS
        <3>2. \A x \in S : x <= m => x <= n
            BY <3>1
        <3>3. n <= n /\ ~ (n <= m)
            BY <3>1
        <3> QED
            BY <3>2, <3>3
    <2> HIDE DEF Below
    <2>2. Cardinality(Below(m)) <= Cardinality(Below(n)) /\ Cardinality(Below(m)) # Cardinality(Below(n))
        BY <1>2, <2>1, FS_Subset
    <2>3. Cardinality(Below(m)) \in Nat /\ Cardinality(Below(n)) \in Nat
        BY <1>1, <1>2
    <2> QED
        BY <2>2, <2>3
<1>4. rank \in [S -> 1..C]
    <2> HIDE DEF Below, C
    <2> QED
        BY <1>2
<1>5. rank \in Injection(S, 1..C)
    <2>1. \A m, n \in S : rank[m] = rank[n] => m = n
        <3> SUFFICES ASSUME NEW m \in S, NEW n \in S, rank[m] = rank[n] PROVE m = n
            OBVIOUS
        <3>1. rank[m] \in Nat /\ rank[n] \in Nat
            <4> HIDE DEF rank, C
            <4> QED
                BY <1>1, <1>4
        <3>2. ~ (m < n) /\ ~ (n < m)
            <4> HIDE DEF rank
            <4> QED
                BY <1>3, <3>1
        <3> QED
            BY <3>2
    <2> HIDE DEF rank, C
    <2> QED
        BY <1>4, <2>1 DEF Injection, IsInjective
<1>6. \A k \in 1..C : \E n \in S : rank[n] = k
    <2>1. IsFiniteSet(1..C) /\ Cardinality(1..C) = C
        BY <1>1, FS_Interval
    <2> HIDE DEF rank
    <2>2. rank \in Surjection(S, 1..C)
        BY <1>5, <2>1, FS_Injection
    <2> QED
        BY <2>2 DEF Surjection
<1>7. \A k \in 1..C : Sorted(S)[k] \in S /\ rank[Sorted(S)[k]] = k
    <2> TAKE k \in 1..C
    <2>1. Sorted(S)[k] = CHOOSE n \in S : rank[n] = k
        BY DEF Sorted
    <2> HIDE DEF rank, C
    <2> QED
        BY <1>6, <2>1
<1>8. Sorted(S) \in [1..C -> S]
    <2>1. Sorted(S) = [k \in 1..C |-> Sorted(S)[k]]
        BY DEF Sorted
    <2> HIDE DEF C
    <2> QED
        BY <1>7, <2>1
<1> HIDE DEF rank, C
<1>9. \A n \in S : \E k \in 1..C : Sorted(S)[k] = n
    <2> TAKE n \in S
    <2>1. rank[n] \in 1..C /\ rank[Sorted(S)[rank[n]]] = rank[n] /\ Sorted(S)[rank[n]] \in S
        BY <1>4, <1>7
    <2>2. Sorted(S)[rank[n]] = n
        BY <1>5, <2>1 DEF Injection, IsInjective
    <2> QED
        BY <2>1, <2>2
<1>10. \A j, k \in 1..C : j < k => Sorted(S)[j] < Sorted(S)[k]
    <2> SUFFICES ASSUME NEW j \in 1..C, NEW k \in 1..C, j < k PROVE Sorted(S)[j] < Sorted(S)[k]
        OBVIOUS
    <2>1. /\ Sorted(S)[j] \in S /\ rank[Sorted(S)[j]] = j
          /\ Sorted(S)[k] \in S /\ rank[Sorted(S)[k]] = k
        BY <1>7
    <2>2. j \in Nat /\ k \in Nat /\ Sorted(S)[j] \in Nat /\ Sorted(S)[k] \in Nat
        <3>1. j \in Nat /\ k \in Nat
            BY <1>1
        <3>2. \A x \in S : x \in Nat
            OBVIOUS
        <3> QED
            BY <2>1, <3>1, <3>2, Zenon
    <2>3. Sorted(S)[j] # Sorted(S)[k]
        BY <2>1, <2>2
    <2>4. ~ (Sorted(S)[k] < Sorted(S)[j])
        <3>1. Sorted(S)[k] < Sorted(S)[j] => k < j
            BY <1>3, <2>1
        <3> QED
            BY <2>2, <3>1
    <2> QED
        BY <2>2, <2>3, <2>4
<1> QED
    BY <1>1, <1>8, <1>9, <1>10 DEF C

\* What is left of a list: the entries of the places that are kept, each once, in order.
LEMMA KeptEntries ==
    ASSUME NEW T, NEW list \in Seq(T), NEW places \in SUBSET DOMAIN list
    PROVE  /\ IsFiniteSet(places) /\ Cardinality(places) \in Nat /\ Cardinality(places) <= Len(list)
           /\ Kept(list, places) \in Seq(T)
           /\ Len(Kept(list, places)) = Cardinality(places)
           /\ \A k \in DOMAIN Kept(list, places) :
                Sorted(places)[k] \in places /\ Kept(list, places)[k] = list[Sorted(places)[k]]
           /\ \A n \in places : \E k \in DOMAIN Kept(list, places) : Sorted(places)[k] = n
           /\ \A j, k \in DOMAIN Kept(list, places) : j < k => Sorted(places)[j] < Sorted(places)[k]
<1> DEFINE place == Sorted(places)
           n == Cardinality(places)
<1>1. DOMAIN list = 1..Len(list) /\ Len(list) \in Nat
    OBVIOUS
<1>2. IsFiniteSet(1..Len(list)) /\ Cardinality(1..Len(list)) = Len(list)
    <2>1. Len(list) \in Int /\ (1 > Len(list) => Len(list) = 0) /\ Len(list) - 1 + 1 = Len(list)
        BY <1>1
    <2> QED
        BY <2>1, FS_Interval
<1>3. places \in SUBSET Nat /\ IsFiniteSet(places) /\ n <= Len(list)
    BY <1>1, <1>2, FS_Subset
<1>4. /\ n \in Nat /\ place \in [1..n -> places]
      /\ \A m \in places : \E k \in 1..n : place[k] = m
      /\ \A j, k \in 1..n : j < k => place[j] < place[k]
    BY <1>3, SortedLists
<1>5. Kept(list, places) = [k \in 1..n |-> list[place[k]]]
    <2>1. Kept(list, places) = [k \in DOMAIN place |-> list[place[k]]]
        BY DEF Kept
    <2>2. DOMAIN place = 1..n
        <3> HIDE DEF place, n
        <3> QED
            BY <1>4
    <2> QED
        BY <2>1, <2>2
<1> HIDE DEF place, n
<1>6. \A k \in 1..n : place[k] \in places /\ list[place[k]] \in T
    BY <1>4
<1>7. [k \in 1..n |-> list[place[k]]] \in Seq(T) /\ Len([k \in 1..n |-> list[place[k]]]) = n
    BY <1>4, <1>6
<1> QED
    BY <1>3, <1>4, <1>5, <1>6, <1>7 DEF place, n

\* One entry less.
LEMMA WithoutOne ==
    ASSUME NEW T, NEW list \in Seq(T), NEW i \in DOMAIN list
    PROVE  /\ Without(list, i) \in Seq(T)
           /\ Len(Without(list, i)) = Len(list) - 1
           /\ \A j \in DOMAIN Without(list, i) : \E k \in DOMAIN list \ {i} : Without(list, i)[j] = list[k]
<1> DEFINE places == DOMAIN list \ {i}
<1>1. IsFiniteSet(DOMAIN list) /\ Cardinality(DOMAIN list) = Len(list)
    BY FS_Interval
<1>2. Cardinality(places) = Len(list) - 1
    BY <1>1, FS_RemoveElement
<1>3. Without(list, i) = Kept(list, places) /\ places \in SUBSET DOMAIN list
    BY DEF Without
<1> HIDE DEF places
<1>4. /\ Kept(list, places) \in Seq(T) /\ Len(Kept(list, places)) = Len(list) - 1
      /\ \A k \in DOMAIN Kept(list, places) : \E n \in places : Kept(list, places)[k] = list[n]
    BY <1>2, <1>3, KeptEntries
<1> QED
    BY <1>3, <1>4 DEF places

-----------------------------------------------------------------------------
(***************************************************************************)
(* The research runs.                                                      *)
(***************************************************************************)

\* The agent of a run is on only while its coordinator waits for it, or has yet to clean
\* up after it; a run that is paused or refused goes past the cleanup, and has no agent on.
CleansUp(C) ==
    \/ C.pc \in {"drain", "cleanup", "dropped"}
    \/ C.pc = "record" /\ C.reason \notin {"paused", "error"}
RunsShape ==
    /\ DOMAIN coordinator = Coordinator /\ DOMAIN finder = Coordinator
    /\ \A c \in Coordinator : {"pc", "reason"} \subseteq DOMAIN coordinator[c]
RunsInv ==
    /\ RunsShape
    /\ \A c \in Coordinator : finder[c] = "on" => CleansUp(coordinator[c])

LEMMA RunsBegin == Runs!Init => RunsInv
<1> SUFFICES ASSUME Runs!Init PROVE RunsInv
    OBVIOUS
<1>1. {"pc", "reason"} \subseteq DOMAIN Runs!Queued
    BY DEF Runs!Queued
<1>2. RunsShape
    BY <1>1 DEF Runs!Init, RunsShape
<1>3. \A c \in Coordinator : finder[c] # "on"
    BY DEF Runs!Init
<1> QED
    BY <1>2, <1>3, Zenon DEF RunsInv

LEMMA RunsStay == RunsInv /\ UNCHANGED research => RunsInv'
BY DEF RunsInv, RunsShape, CleansUp, research

LEMMA RunsQuiet == RunsInv => Runs!OverMeansStopped
BY DEF RunsInv, CleansUp, Runs!OverMeansStopped, Runs!At

\* A step of one run that leaves its agent as it was, or stops it.
LEMMA RunsOne ==
    ASSUME RunsInv, NEW c \in Coordinator,
           DOMAIN coordinator' = Coordinator, DOMAIN finder' = Coordinator,
           \A d \in Coordinator \ {c} : coordinator'[d] = coordinator[d],
           \A d \in Coordinator \ {c} : finder'[d] = finder[d],
           {"pc", "reason"} \subseteq DOMAIN coordinator'[c],
           finder'[c] = "on" => CleansUp(coordinator'[c])
    PROVE  RunsInv'
BY DEF RunsInv, RunsShape, CleansUp

LEMMA RunsSame ==
    ASSUME RunsInv, coordinator' = coordinator, finder' = finder
    PROVE  RunsInv'
BY DEF RunsInv, RunsShape, CleansUp

\* The saves leave coordinators and agents alone, but for the agent that stops or ends.
LEMMA RunsSave ==
    ASSUME RunsInv, NEW c \in Coordinator,
           \/ Runs!Take(c) \/ Runs!Land(c) \/ Runs!Tell(c) \/ Runs!StopAgent(c)
           \/ Runs!BeginSave(c) \/ Runs!AgentEnds(c) \/ Runs!FailSave(c)
    PROVE  RunsInv'
<1>1. CASE Runs!Take(c) \/ Runs!Land(c) \/ Runs!Tell(c) \/ Runs!BeginSave(c) \/ Runs!FailSave(c)
    <2>1. coordinator' = coordinator /\ finder' = finder
        BY <1>1, Zenon DEF Runs!Take, Runs!Land, Runs!Tell, Runs!BeginSave, Runs!FailSave
    <2> QED
        BY <2>1, RunsSame, Zenon
<1>2. CASE Runs!StopAgent(c) \/ Runs!AgentEnds(c)
    <2>1. coordinator' = coordinator /\ finder' = [finder EXCEPT ![c] = "off"]
        BY <1>2, Zenon DEF Runs!StopAgent, Runs!AgentEnds
    <2> QED
        BY <2>1 DEF RunsInv, RunsShape
<1> QED
    BY <1>1, <1>2, Zenon

\* A step of a coordinator that leaves the agent alone.
LEMMA RunsMoves ==
    ASSUME RunsInv, NEW c \in Coordinator,
           \/ Runs!Acquire(c) \/ Runs!Paused(c) \/ Runs!Open(c) \/ Runs!Refused(c)
           \/ Runs!Drained(c) \/ Runs!Wall(c)
    PROVE  RunsInv'
<1> USE DEF RunsInv, RunsShape, CleansUp, Runs!At, Runs!Goes, Runs!Returns
<1>1. CASE Runs!Acquire(c)
    BY <1>1 DEF Runs!Acquire
<1>2. CASE Runs!Paused(c)
    BY <1>2 DEF Runs!Paused
<1>3. CASE Runs!Open(c)
    BY <1>3 DEF Runs!Open
<1>4. CASE Runs!Refused(c)
    BY <1>4 DEF Runs!Refused
<1>5. CASE Runs!Drained(c)
    BY <1>5 DEF Runs!Drained
<1>6. CASE Runs!Wall(c)
    BY <1>6 DEF Runs!Wall
<1> QED
    BY <1>1, <1>2, <1>3, <1>4, <1>5, <1>6

LEMMA RunsJudge ==
    ASSUME RunsInv, NEW c \in Coordinator,
           \/ Runs!Judge(c) \/ Runs!RemoveDead(c) \/ Runs!Rename(c) \/ Runs!RenameFails(c)
           \/ Runs!Final(c)
    PROVE  RunsInv'
<1> USE DEF RunsInv, RunsShape, CleansUp, Runs!At, Runs!Removes, Runs!Decided
<1>1. CASE Runs!Judge(c)
    <2>1. PICK gone \in SUBSET Runs!Urls(findings[Runs!Study(c)]), again \in BOOLEAN :
               coordinator' = [coordinator EXCEPT
                   ![c].pc = IF gone # {} THEN "remove" ELSE Runs!Decided(again),
                   ![c].round = @ + 1, ![c].dead = gone, ![c].again = again /\ gone # {}]
        <3> HIDE DEF Runs!Decided, Runs!At
        <3> QED
            BY <1>1, Zenon DEF Runs!Judge
    <2>2. coordinator[c].pc = "judge" /\ finder' = finder
        BY <1>1 DEF Runs!Judge
    <2>3. DOMAIN coordinator' = Coordinator /\ DOMAIN coordinator'[c] = DOMAIN coordinator[c]
        BY <2>1
    <2>4. \A d \in Coordinator \ {c} : coordinator'[d] = coordinator[d]
        BY <2>1
    <2>5. finder[c] # "on"
        BY <2>2
    <2> QED
        BY <2>2, <2>3, <2>4, <2>5, RunsOne
<1>2. CASE Runs!RemoveDead(c)
    BY <1>2 DEF Runs!RemoveDead
<1>3. CASE Runs!Rename(c)
    BY <1>3 DEF Runs!Rename
<1>4. CASE Runs!RenameFails(c)
    BY <1>4 DEF Runs!RenameFails
<1>5. CASE Runs!Final(c)
    BY <1>5 DEF Runs!Final
<1> QED
    BY <1>1, <1>2, <1>3, <1>4, <1>5

\* A step that starts the agent, records the run, or stops the agent.
LEMMA RunsTurn ==
    ASSUME RunsInv, NEW c \in Coordinator,
           \/ Runs!Launch(c) \/ Runs!Record(c) \/ Runs!Cleanup(c)
           \/ Runs!Cancel(c) \/ Runs!HardAbort(c)
    PROVE  RunsInv'
<1> USE DEF RunsInv, RunsShape, CleansUp, Runs!At, Runs!Goes
<1>1. CASE Runs!Launch(c)
    BY <1>1 DEF Runs!Launch
<1>2. CASE Runs!Record(c)
    BY <1>2 DEF Runs!Record
<1>3. CASE Runs!Cleanup(c)
    BY <1>3 DEF Runs!Cleanup, Runs!Stopped
<1>4. CASE Runs!Cancel(c)
    BY <1>4 DEF Runs!Cancel
<1>5. CASE Runs!HardAbort(c)
    BY <1>5 DEF Runs!HardAbort, Runs!Queued
<1> QED
    BY <1>1, <1>2, <1>3, <1>4, <1>5

LEMMA RunsCrash == RunsInv /\ Runs!Crash => RunsInv'
BY DEF Runs!Crash, Runs!Queued, RunsInv, RunsShape, CleansUp

LEMMA RunsStep == RunsInv /\ Runs!Next => RunsInv'
<1> SUFFICES ASSUME RunsInv, Runs!Next PROVE RunsInv'
    OBVIOUS
<1>1. CASE Runs!Crash
    BY <1>1, RunsCrash
<1>2. ASSUME NEW c \in Coordinator,
             \/ Runs!Take(c) \/ Runs!Land(c) \/ Runs!Tell(c) \/ Runs!StopAgent(c)
             \/ Runs!BeginSave(c) \/ Runs!AgentEnds(c) \/ Runs!FailSave(c)
      PROVE  RunsInv'
    BY <1>2, RunsSave
<1>3. ASSUME NEW c \in Coordinator,
             \/ Runs!Acquire(c) \/ Runs!Paused(c) \/ Runs!Open(c) \/ Runs!Refused(c)
             \/ Runs!Drained(c) \/ Runs!Wall(c)
      PROVE  RunsInv'
    BY <1>3, RunsMoves
<1>4. ASSUME NEW c \in Coordinator,
             \/ Runs!Judge(c) \/ Runs!RemoveDead(c) \/ Runs!Rename(c)
             \/ Runs!RenameFails(c) \/ Runs!Final(c)
      PROVE  RunsInv'
    BY <1>4, RunsJudge
<1>5. ASSUME NEW c \in Coordinator,
             \/ Runs!Launch(c) \/ Runs!Record(c) \/ Runs!Cleanup(c)
             \/ Runs!Cancel(c) \/ Runs!HardAbort(c)
      PROVE  RunsInv'
    BY <1>5, RunsTurn
<1> QED
    BY <1>1, <1>2, <1>3, <1>4, <1>5, Zenon DEF Runs!Next, Runs!Progress

-----------------------------------------------------------------------------
(***************************************************************************)
(* The rows of the findings.                                               *)
(***************************************************************************)

Row == [url : Url \cup {None}, by : Coordinator \cup {None, "torn", "bad"}]
Parses(f) == {i \in DOMAIN f : f[i].url # None}
AllParsed(f) == \A i \in DOMAIN f : f[i].url # None
OneRow(f) == \A i, j \in DOMAIN f : f[i].url = f[j].url /\ f[i].url \in Url => i = j
Number(f) == Cardinality(Parses(f))

LEMMA RunsNumbers ==
    /\ IsFiniteSet(Coordinator) /\ None \notin Url
    /\ None \notin Coordinator /\ "torn" \notin Coordinator /\ "bad" \notin Coordinator
BY ScenesAssumption

LEMMA RunsLists ==
    /\ \A list, places : Runs!Kept(list, places) = Kept(list, places)
    /\ \A list, i : Runs!Without(list, i) = Without(list, i)
    /\ \A S : Runs!Cardinality(S) = Cardinality(S)
BY DEF Runs!Kept, Kept, Runs!Sorted, Sorted, Runs!Without, Without, Runs!Cardinality, Cardinality

LEMMA LinesAreRows ==
    /\ Runs!Torn \in Row /\ Runs!Bad \in Row
    /\ Runs!Torn.url = None /\ Runs!Bad.url = None
    /\ Runs!Torn.by \notin Coordinator /\ Runs!Bad.by \notin Coordinator
BY RunsNumbers DEF Runs!Torn, Runs!Bad, Row

\* The URLs of a file are those of the rows that parse.
LEMMA UrlsOfRows ==
    ASSUME NEW f \in Seq(Row)
    PROVE  /\ Runs!Urls(f) = {f[i].url : i \in Parses(f)} /\ Runs!Urls(f) \subseteq Url
           /\ Runs!Parsed(f) = Kept(f, Parses(f))
           /\ IsFiniteSet(Parses(f)) /\ Number(f) \in Nat /\ Number(f) <= Len(f)
<1> DEFINE g == Kept(f, Parses(f))
<1>1. Parses(f) \subseteq DOMAIN f /\ Runs!Parsed(f) = g
    BY RunsLists DEF Parses, Runs!Parsed
<1> HIDE DEF Parses
<1>2. /\ IsFiniteSet(Parses(f)) /\ Number(f) \in Nat /\ Number(f) <= Len(f)
      /\ \A k \in DOMAIN g : Sorted(Parses(f))[k] \in Parses(f) /\ g[k] = f[Sorted(Parses(f))[k]]
      /\ \A i \in Parses(f) : \E k \in DOMAIN g : Sorted(Parses(f))[k] = i
    BY <1>1, KeptEntries DEF Number
<1>3. Runs!Urls(f) = {g[k].url : k \in DOMAIN g}
    BY <1>1 DEF Runs!Urls, Runs!Range
<1> HIDE DEF g
<1>4. \A i \in Parses(f) : f[i].url \in Runs!Urls(f)
    BY <1>2, <1>3
<1>5. \A u \in Runs!Urls(f) : \E i \in Parses(f) : u = f[i].url
    BY <1>2, <1>3
<1>6. \A i \in Parses(f) : f[i].url \in Url
    <2>1. \A i \in DOMAIN f : f[i] \in Row
        OBVIOUS
    <2>2. \A i \in DOMAIN f : f[i].url \in Url \cup {None}
        BY <2>1 DEF Row
    <2> QED
        BY <1>1, <2>2 DEF Parses
<1> QED
    BY <1>1, <1>2, <1>4, <1>5, <1>6 DEF g

\* Some of the rows, in their order.
LEMMA KeptRows ==
    ASSUME NEW f \in Seq(Row), NEW places \in SUBSET DOMAIN f
    PROVE  LET g == Kept(f, places) IN
           /\ g \in Seq(Row) /\ Len(g) = Cardinality(places)
           /\ \A k \in DOMAIN g : \E i \in places : g[k] = f[i]
           /\ \A i \in places : \E k \in DOMAIN g : g[k] = f[i]
           /\ OneRow(f) => OneRow(g)
           /\ Number(g) = Cardinality(Parses(f) \cap places)
<1> DEFINE g == Kept(f, places)
           place == Sorted(places)
<1>1. /\ g \in Seq(Row) /\ Len(g) = Cardinality(places)
      /\ \A k \in DOMAIN g : place[k] \in places /\ g[k] = f[place[k]]
      /\ \A i \in places : \E k \in DOMAIN g : place[k] = i
      /\ \A j, k \in DOMAIN g : j < k => place[j] < place[k]
    BY KeptEntries
<1> HIDE DEF g, place
<1>2. \A j, k \in DOMAIN g : place[j] = place[k] => j = k
    <2> SUFFICES ASSUME NEW j \in DOMAIN g, NEW k \in DOMAIN g, j # k PROVE place[j] # place[k]
        OBVIOUS
    <2>1. (j < k \/ k < j) /\ place[j] \in Nat /\ place[k] \in Nat
        BY <1>1
    <2> QED
        BY <1>1, <2>1
<1>3. OneRow(f) => OneRow(g)
    <2> SUFFICES ASSUME OneRow(f), NEW j \in DOMAIN g, NEW k \in DOMAIN g, g[j].url = g[k].url, g[j].url \in Url
                 PROVE  j = k
        BY DEF OneRow
    <2>1. place[j] \in DOMAIN f /\ place[k] \in DOMAIN f /\ g[j] = f[place[j]] /\ g[k] = f[place[k]]
        BY <1>1
    <2>2. place[j] = place[k]
        BY <2>1 DEF OneRow
    <2> QED
        BY <1>2, <2>2
<1>4. Number(g) = Cardinality(Parses(f) \cap places)
    <2> DEFINE P == Parses(f) \cap places
               B == [k \in Parses(g) |-> place[k]]
    <2>1. \A k \in Parses(g) : k \in DOMAIN g /\ place[k] \in P
        BY <1>1 DEF Parses
    <2>2. B \in Injection(Parses(g), P)
        <3>1. B \in [Parses(g) -> P]
            BY <2>1
        <3>2. \A j, k \in Parses(g) : B[j] = B[k] => j = k
            BY <1>2, <2>1
        <3> QED
            BY <3>1, <3>2 DEF Injection, IsInjective
    <2>3. B \in Surjection(Parses(g), P)
        <3>1. \A i \in P : \E k \in Parses(g) : B[k] = i
            BY <1>1 DEF Parses
        <3>2. B \in [Parses(g) -> P]
            BY <2>1
        <3> QED
            BY <3>1, <3>2 DEF Surjection
    <2>4. IsFiniteSet(P)
        BY UrlsOfRows, FS_Intersection
    <2> HIDE DEF P, B
    <2> QED
        BY <2>2, <2>3, <2>4, FS_Injection DEF Number, P
<1> QED
    BY <1>1, <1>3, <1>4 DEF g

\* Those that parse.
LEMMA ParsedRows ==
    ASSUME NEW f \in Seq(Row)
    PROVE  LET g == Runs!Parsed(f) IN
           /\ g \in Seq(Row) /\ AllParsed(g) /\ Runs!Urls(g) = Runs!Urls(f)
           /\ Len(g) = Number(f) /\ Number(g) = Number(f) /\ (OneRow(f) => OneRow(g))
           /\ \A k \in DOMAIN g : \E i \in DOMAIN f : g[k] = f[i]
<1> DEFINE g == Kept(f, Parses(f))
<1>1. Runs!Parsed(f) = g /\ Parses(f) \in SUBSET DOMAIN f
    BY UrlsOfRows DEF Parses
<1>2. /\ g \in Seq(Row) /\ Len(g) = Number(f) /\ (OneRow(f) => OneRow(g))
      /\ \A k \in DOMAIN g : \E i \in Parses(f) : g[k] = f[i]
      /\ \A i \in Parses(f) : \E k \in DOMAIN g : g[k] = f[i]
      /\ Number(g) = Cardinality(Parses(f) \cap Parses(f))
    BY <1>1, KeptRows DEF Number
<1> HIDE DEF g
<1>3. AllParsed(g) /\ Parses(g) = DOMAIN g
    BY <1>2 DEF AllParsed, Parses
<1>4. Number(g) = Number(f)
    <2>1. Parses(f) \cap Parses(f) = Parses(f)
        OBVIOUS
    <2> QED
        BY <1>2, <2>1 DEF Number
<1>5. Runs!Urls(g) = Runs!Urls(f)
    <2>1. Runs!Urls(g) = {g[k].url : k \in DOMAIN g} /\ Runs!Urls(f) = {f[i].url : i \in Parses(f)}
        BY <1>2, <1>3, UrlsOfRows
    <2> QED
        BY <1>2, <2>1
<1> QED
    BY <1>1, <1>2, <1>3, <1>4, <1>5 DEF Parses

\* One row more, at the end.
LEMMA OneMoreRow ==
    ASSUME NEW f \in Seq(Row), NEW row \in Row
    PROVE  LET g == Append(f, row) IN
           /\ g \in Seq(Row) /\ Len(g) = Len(f) + 1
           /\ \A k \in DOMAIN g : g[k] = row \/ \E i \in DOMAIN f : g[k] = f[i]
           /\ Number(g) <= Number(f) + 1 /\ (row.url = None => Number(g) = Number(f))
           /\ Runs!Urls(g) = Runs!Urls(f) \cup (IF row.url = None THEN {} ELSE {row.url})
           /\ (row.url # None /\ AllParsed(f) => AllParsed(g))
           /\ (row.url \notin Runs!Urls(f) /\ OneRow(f) => OneRow(g))
<1> DEFINE g == Append(f, row)
           n == Len(f) + 1
<1>1. /\ g \in Seq(Row) /\ Len(g) = n /\ g[n] = row /\ \A i \in DOMAIN f : g[i] = f[i]
      /\ DOMAIN g = DOMAIN f \cup {n} /\ n \notin DOMAIN f /\ DOMAIN f = 1..Len(f)
    OBVIOUS
<1> HIDE DEF g, n
<1>2. Parses(g) = IF row.url = None THEN Parses(f) ELSE Parses(f) \cup {n}
    BY <1>1 DEF Parses
<1>3. IsFiniteSet(Parses(f)) /\ Number(f) \in Nat /\ n \notin Parses(f)
    BY <1>1, UrlsOfRows DEF Parses
<1>4. Number(g) <= Number(f) + 1 /\ (row.url = None => Number(g) = Number(f))
    <2>1. Cardinality(Parses(f) \cup {n}) = Cardinality(Parses(f)) + 1
        BY <1>3, FS_AddElement
    <2>2. CASE row.url = None
        BY <1>2, <1>3, <2>2 DEF Number
    <2>3. CASE row.url # None
        BY <1>2, <1>3, <2>1, <2>3 DEF Number
    <2> QED
        BY <2>2, <2>3
<1>5. Runs!Urls(g) = Runs!Urls(f) \cup (IF row.url = None THEN {} ELSE {row.url})
    <2>1. Runs!Urls(g) = {g[k].url : k \in Parses(g)} /\ Runs!Urls(f) = {f[i].url : i \in Parses(f)}
        BY <1>1, UrlsOfRows
    <2>2. \A i \in Parses(f) : g[i] = f[i]
        BY <1>1 DEF Parses
    <2> QED
        BY <1>1, <1>2, <2>1, <2>2
<1>6. row.url # None /\ AllParsed(f) => AllParsed(g)
    BY <1>1 DEF AllParsed
<1>7. row.url \notin Runs!Urls(f) /\ OneRow(f) => OneRow(g)
    <2> SUFFICES ASSUME row.url \notin Runs!Urls(f), OneRow(f), NEW i \in DOMAIN g, NEW j \in DOMAIN g,
                        g[i].url = g[j].url, g[i].url \in Url
                 PROVE  i = j
        BY DEF OneRow
    <2>1. \A k \in DOMAIN f : f[k].url \in Url => f[k].url \in Runs!Urls(f)
        BY UrlsOfRows, RunsNumbers DEF Parses
    <2> QED
        BY <1>1, <2>1 DEF OneRow
<1> QED
    BY <1>1, <1>4, <1>5, <1>6, <1>7 DEF g, n

\* A row that is appended, be it to a line without an end.
LEMMA AppendedRows ==
    ASSUME NEW f \in Seq(Row), NEW row \in Row
    PROVE  LET g == Runs!Appended(f, row) IN
           /\ g \in Seq(Row)
           /\ \A k \in DOMAIN g : g[k] \in {row, Runs!Torn, Runs!Bad} \/ \E i \in DOMAIN f : g[k] = f[i]
           /\ Number(g) <= Number(f) + 1 /\ (row.url = None => Number(g) <= Number(f))
           /\ Runs!Urls(f) \subseteq Runs!Urls(g)
           /\ (OneRow(f) /\ row.url \notin Runs!Urls(f) => OneRow(g))
           /\ (AllParsed(f) => g = Append(f, row))
<1> DEFINE g == Runs!Appended(f, row)
           n == Len(f)
<1>1. CASE f # <<>> /\ f[Len(f)] = Runs!Torn
    <2> DEFINE places == DOMAIN f \ {n}
               some_rows == Kept(f, places)
               line == IF row = Runs!Torn THEN Runs!Torn ELSE Runs!Bad
    <2>1. g = Append(some_rows, line)
        <3>1. g = Append(Runs!Without(f, Len(f)), line)
            BY <1>1 DEF Runs!Appended
        <3> QED
            BY <3>1, RunsLists DEF Without
    <2>2. n \in DOMAIN f /\ f[n].url = None
        BY <1>1, LinesAreRows
    <2>0. places \in SUBSET DOMAIN f /\ \A i \in DOMAIN f : i \in places <=> i # n
        OBVIOUS
    <2> HIDE DEF places
    <2>3. /\ some_rows \in Seq(Row) /\ (OneRow(f) => OneRow(some_rows))
          /\ \A k \in DOMAIN some_rows : \E i \in places : some_rows[k] = f[i]
          /\ \A i \in places : \E k \in DOMAIN some_rows : some_rows[k] = f[i]
          /\ Number(some_rows) = Cardinality(Parses(f) \cap places)
        BY <2>0, KeptRows
    <2> HIDE DEF some_rows
    <2>4. Number(some_rows) = Number(f) /\ Number(f) \in Nat
        <3>1. Parses(f) \cap places = Parses(f)
            BY <2>0, <2>2 DEF Parses
        <3> QED
            BY <2>3, <3>1, UrlsOfRows DEF Number
    <2>5. Runs!Urls(some_rows) = Runs!Urls(f)
        <3>1. Runs!Urls(some_rows) = {some_rows[k].url : k \in Parses(some_rows)} /\ Runs!Urls(f) = {f[i].url : i \in Parses(f)}
            BY <2>3, UrlsOfRows
        <3>2. \A k \in Parses(some_rows) : \E i \in Parses(f) : some_rows[k] = f[i]
            BY <2>0, <2>3 DEF Parses
        <3>3. \A i \in Parses(f) : \E k \in Parses(some_rows) : some_rows[k] = f[i]
            BY <2>0, <2>2, <2>3 DEF Parses
        <3> QED
            BY <3>1, <3>2, <3>3
    <2>6. line \in Row /\ line.url = None /\ line \in {Runs!Torn, Runs!Bad}
        BY LinesAreRows
    <2> HIDE DEF line
    <2>7. line.url \notin Runs!Urls(some_rows)
        BY <2>3, <2>6, UrlsOfRows, RunsNumbers
    <2> DEFINE h == Append(some_rows, line)
    <2>13. /\ h \in Seq(Row) /\ (line.url = None => Number(h) = Number(some_rows))
           /\ Runs!Urls(h) = Runs!Urls(some_rows) \cup (IF line.url = None THEN {} ELSE {line.url})
           /\ \A k \in DOMAIN h : h[k] = line \/ \E i \in DOMAIN some_rows : h[k] = some_rows[i]
           /\ (line.url \notin Runs!Urls(some_rows) /\ OneRow(some_rows) => OneRow(h))
        BY <2>3, <2>6, OneMoreRow
    <2> HIDE DEF h
    <2>8. /\ h \in Seq(Row) /\ Number(h) = Number(some_rows) /\ Runs!Urls(h) = Runs!Urls(some_rows)
          /\ \A k \in DOMAIN h : h[k] = line \/ \E i \in DOMAIN some_rows : h[k] = some_rows[i]
          /\ (OneRow(some_rows) => OneRow(h))
        BY <2>6, <2>7, <2>13
    <2>9. ~ AllParsed(f)
        BY <2>2 DEF AllParsed
    <2>10. \A k \in DOMAIN h : h[k] \in {row, Runs!Torn, Runs!Bad} \/ \E i \in DOMAIN f : h[k] = f[i]
        BY <2>0, <2>3, <2>6, <2>8
    <2>11. g = h
        BY <2>1 DEF h
    <2> HIDE DEF g
    <2>12. Number(g) <= Number(f) + 1 /\ Number(g) <= Number(f) /\ Runs!Urls(f) \subseteq Runs!Urls(g)
        BY <2>4, <2>5, <2>8, <2>11
    <2> QED
        BY <2>3, <2>8, <2>9, <2>10, <2>11, <2>12 DEF g
<1>2. CASE ~ (f # <<>> /\ f[Len(f)] = Runs!Torn)
    <2>1. g = Append(f, row)
        BY <1>2 DEF Runs!Appended
    <2>2. /\ g \in Seq(Row)
          /\ \A k \in DOMAIN g : g[k] = row \/ \E i \in DOMAIN f : g[k] = f[i]
          /\ Number(g) <= Number(f) + 1 /\ (row.url = None => Number(g) = Number(f))
          /\ Runs!Urls(g) = Runs!Urls(f) \cup (IF row.url = None THEN {} ELSE {row.url})
          /\ (row.url \notin Runs!Urls(f) /\ OneRow(f) => OneRow(g))
        BY <2>1, OneMoreRow
    <2>3. Number(f) \in Nat
        BY UrlsOfRows
    <2> HIDE DEF g
    <2> QED
        BY <2>1, <2>2, <2>3 DEF g
<1> QED
    BY <1>1, <1>2

\* A row that takes the place of the one with its URL.
LEMMA ReplacedRows ==
    ASSUME NEW f \in Seq(Row), NEW row \in Row, row.url \in Url
    PROVE  LET g == Runs!Replaced(f, row) IN
           /\ g \in Seq(Row)
           /\ \A k \in DOMAIN g : g[k] = row \/ \E i \in DOMAIN f : g[k] = f[i]
           /\ Number(g) <= Number(f) + 1
           /\ Runs!Urls(g) = Runs!Urls(f) \cup {row.url}
           /\ (AllParsed(f) => AllParsed(g)) /\ (OneRow(f) => OneRow(g))
<1> DEFINE g == Runs!Replaced(f, row)
<1>0. Number(f) \in Nat
    BY UrlsOfRows
<1>1. CASE row.url \in Runs!Urls(f)
    <2>1. g = [i \in DOMAIN f |-> IF f[i].url = row.url THEN row ELSE f[i]]
        BY <1>1 DEF Runs!Replaced
    <2>2. /\ g \in Seq(Row) /\ DOMAIN g = DOMAIN f
          /\ \A i \in DOMAIN f : g[i] = IF f[i].url = row.url THEN row ELSE f[i]
        BY <2>1
    <2> HIDE DEF g
    <2>3. \A i \in DOMAIN f : g[i].url = f[i].url
        BY <2>2
    <2>4. Parses(g) = Parses(f)
        BY <2>2, <2>3 DEF Parses
    <2>5. Runs!Urls(g) = Runs!Urls(f)
        <3>1. Runs!Urls(g) = {g[k].url : k \in Parses(g)} /\ Runs!Urls(f) = {f[i].url : i \in Parses(f)}
            BY <2>2, UrlsOfRows
        <3>2. \A i \in Parses(f) : g[i].url = f[i].url
            BY <2>3 DEF Parses
        <3> QED
            BY <2>4, <3>1, <3>2
    <2>6. (AllParsed(f) => AllParsed(g)) /\ (OneRow(f) => OneRow(g))
        BY <2>2, <2>3 DEF AllParsed, OneRow
    <2>7. Number(g) = Number(f)
        BY <2>4 DEF Number
    <2>8. \A k \in DOMAIN g : g[k] = row \/ \E i \in DOMAIN f : g[k] = f[i]
        BY <2>2
    <2> QED
        BY <1>0, <1>1, <2>2, <2>5, <2>6, <2>7, <2>8 DEF g
<1>2. CASE row.url \notin Runs!Urls(f)
    <2>1. g = Append(f, row)
        BY <1>2 DEF Runs!Replaced
    <2>2. /\ g \in Seq(Row)
          /\ \A k \in DOMAIN g : g[k] = row \/ \E i \in DOMAIN f : g[k] = f[i]
          /\ Number(g) <= Number(f) + 1
          /\ Runs!Urls(g) = Runs!Urls(f) \cup (IF row.url = None THEN {} ELSE {row.url})
          /\ (row.url # None /\ AllParsed(f) => AllParsed(g))
          /\ (row.url \notin Runs!Urls(f) /\ OneRow(f) => OneRow(g))
        BY <2>1, OneMoreRow
    <2>3. row.url # None
        BY RunsNumbers
    <2> HIDE DEF g
    <2> QED
        BY <1>2, <2>2, <2>3 DEF g
<1> QED
    BY <1>1, <1>2

\* The rewrite without the rows that are to go.
LEMMA ClearedRows ==
    ASSUME NEW f \in Seq(Row), NEW gone \in SUBSET Url
    PROVE  LET g == Runs!Cleared(f, gone) IN
           /\ g \in Seq(Row)
           /\ \A k \in DOMAIN g : g[k] = Runs!Bad \/ \E i \in DOMAIN f : g[k] = f[i]
           /\ Runs!Urls(g) = Runs!Urls(f) \ gone
           /\ (AllParsed(f) => AllParsed(g)) /\ (OneRow(f) => OneRow(g))
           /\ Len(f) - Len(g) \in Nat /\ Number(g) + (Len(f) - Len(g)) = Number(f)
<1> DEFINE places == {i \in DOMAIN f : f[i].url \notin gone}
           some_rows == Kept(f, places)
           g == [k \in DOMAIN some_rows |-> IF some_rows[k] = Runs!Torn THEN Runs!Bad ELSE some_rows[k]]
<1>1. Runs!Cleared(f, gone) = g
    BY RunsLists DEF Runs!Cleared
<1>3. places \in SUBSET DOMAIN f /\ \A i \in DOMAIN f : i \in places <=> f[i].url \notin gone
    OBVIOUS
<1> HIDE DEF places
<1>2. /\ some_rows \in Seq(Row) /\ Len(some_rows) = Cardinality(places) /\ (OneRow(f) => OneRow(some_rows))
      /\ \A k \in DOMAIN some_rows : \E i \in places : some_rows[k] = f[i]
      /\ \A i \in places : \E k \in DOMAIN some_rows : some_rows[k] = f[i]
      /\ Number(some_rows) = Cardinality(Parses(f) \cap places)
    BY <1>3, KeptRows
<1> HIDE DEF some_rows
<1>4. /\ g \in Seq(Row) /\ DOMAIN g = DOMAIN some_rows /\ Len(g) = Len(some_rows)
      /\ \A k \in DOMAIN some_rows : g[k] = IF some_rows[k] = Runs!Torn THEN Runs!Bad ELSE some_rows[k]
    BY <1>2, LinesAreRows
<1> HIDE DEF g
<1>5. \A k \in DOMAIN some_rows : g[k].url = some_rows[k].url
    BY <1>4, LinesAreRows
<1>6. Parses(g) = Parses(some_rows) /\ (AllParsed(some_rows) => AllParsed(g)) /\ (OneRow(some_rows) => OneRow(g))
    BY <1>4, <1>5 DEF Parses, AllParsed, OneRow
<1>7. AllParsed(f) => AllParsed(some_rows)
    BY <1>2, <1>3 DEF AllParsed
<1>8. Runs!Urls(g) = Runs!Urls(f) \ gone
    <2>1. Runs!Urls(g) = {g[k].url : k \in Parses(g)} /\ Runs!Urls(f) = {f[i].url : i \in Parses(f)}
        BY <1>4, UrlsOfRows
    <2>2. \A k \in Parses(g) : \E i \in Parses(f) : g[k].url = f[i].url /\ f[i].url \notin gone
        BY <1>2, <1>3, <1>4, <1>5 DEF Parses
    <2>3. \A i \in Parses(f) : f[i].url \notin gone => \E k \in Parses(g) : g[k].url = f[i].url
        BY <1>2, <1>3, <1>4, <1>5 DEF Parses
    <2> QED
        BY <2>1, <2>2, <2>3
<1>9. Number(g) = Cardinality(Parses(f) \cap places)
    BY <1>2, <1>6 DEF Number
<1>10. IsFiniteSet(DOMAIN f) /\ Cardinality(DOMAIN f) = Len(f) /\ Len(f) \in Nat
    <2>1. DOMAIN f = 1..Len(f) /\ Len(f) \in Nat /\ 1 \in Int /\ Len(f) \in Int
        OBVIOUS
    <2>2. IsFiniteSet(1..Len(f)) /\ Cardinality(1..Len(f)) = IF 1 > Len(f) THEN 0 ELSE Len(f) - 1 + 1
        BY <2>1, FS_Interval
    <2> QED
        BY <2>1, <2>2
<1>11. \A i \in DOMAIN f : f[i].url \in gone => i \in Parses(f)
    BY RunsNumbers DEF Parses
<1> DEFINE D == DOMAIN f \ places
<1>12. D \subseteq Parses(f) /\ places = DOMAIN f \ D /\ Parses(f) \cap places = Parses(f) \ D /\ D \subseteq DOMAIN f
    BY <1>3, <1>11 DEF Parses
<1> HIDE DEF D
<1>13. /\ IsFiniteSet(D) /\ Cardinality(D) \in Nat /\ Cardinality(places) = Len(f) - Cardinality(D)
       /\ Cardinality(Parses(f) \ D) = Number(f) - Cardinality(D)
    <2>1. IsFiniteSet(D) /\ Cardinality(D) \in Nat
        BY <1>10, <1>12, FS_Subset, FS_CardinalityType
    <2>2. DOMAIN f \cap D = D /\ Parses(f) \cap D = D
        BY <1>12
    <2>3. Cardinality(DOMAIN f \ D) = Cardinality(DOMAIN f) - Cardinality(DOMAIN f \cap D)
        BY <1>10, FS_Difference
    <2>4. Cardinality(Parses(f) \ D) = Cardinality(Parses(f)) - Cardinality(Parses(f) \cap D)
        BY UrlsOfRows, FS_Difference
    <2> QED
        BY <1>10, <1>12, <2>1, <2>2, <2>3, <2>4 DEF Number
<1>14. Len(f) - Len(g) = Cardinality(D) /\ Number(g) = Number(f) - Cardinality(D) /\ Number(f) \in Nat
    <2>1. Len(g) = Len(f) - Cardinality(D) /\ Cardinality(D) \in Nat /\ Len(f) \in Nat
        BY <1>2, <1>4, <1>10, <1>13
    <2>2. Number(g) = Number(f) - Cardinality(D)
        BY <1>9, <1>12, <1>13
    <2>3. Number(f) \in Nat
        BY UrlsOfRows
    <2> QED
        BY <2>1, <2>2, <2>3
<1>15. Len(f) - Len(g) \in Nat /\ Number(g) + (Len(f) - Len(g)) = Number(f)
    BY <1>13, <1>14
<1>16. \A k \in DOMAIN g : g[k] = Runs!Bad \/ \E i \in DOMAIN f : g[k] = f[i]
    BY <1>2, <1>3, <1>4
<1> QED
    BY <1>1, <1>2, <1>4, <1>6, <1>7, <1>8, <1>15, <1>16 DEF g

-----------------------------------------------------------------------------
(***************************************************************************)
(* The findings of the research runs.                                      *)
(***************************************************************************)

Reasons == {None, "paused", "error", "cancelled", "idle", "timeout"}
Places == {"queued", "open", "launch", "drain", "record", "cleanup", "judge", "remove", "rename",
           "final", "over", "dropped"}
Locals == [pc : Places, round : Nat, reason : Reasons, cancel : BOOLEAN, base : Nat,
           dead : SUBSET Url, again : BOOLEAN, rest : Seq(Row), removed : Nat, replaced : Nat]
SavePlaces == {"idle", "wait", "append", "rewrite", "tell"}

\* A save knows its spec and its row; only runs that study something have an agent.
SaveShape(c) ==
    /\ {"pc", "spec", "row", "rest"} \subseteq DOMAIN saving[c] /\ saving[c].pc \in SavePlaces
    /\ saving[c].pc # "idle" =>
        /\ c \in DOMAIN scene.study /\ saving[c].spec \in Research
        /\ saving[c].row \in Row /\ saving[c].row.url \in Url /\ saving[c].row.by = c
FindShape ==
    /\ scene \in Scenes
    /\ findings \in [Research -> Seq(Row)] /\ guarded \in [Research -> BOOLEAN]
    /\ known \in [Research -> SUBSET Url] /\ kept \in [Research -> SUBSET Url]
    /\ context \in DOMAIN scene.study \cup {None}
    /\ coordinator \in [Coordinator -> Locals]
    /\ DOMAIN saving = Coordinator /\ DOMAIN finder = Coordinator
    /\ finds \in Nat /\ finds <= scene.finds
    /\ \A c \in Coordinator :
        /\ SaveShape(c)
        /\ coordinator[c].pc # "over" \/ finder[c] # "none" => c \in DOMAIN scene.study

\* The mutex of a file is held by one save or one removal.
SaveHolds(c, s) == saving[c].pc \in {"append", "rewrite"} /\ saving[c].spec = s
RunHolds(c, s) == coordinator[c].pc = "rename" /\ Runs!Study(c) = s
Hands == {"save", "removal"}
Holds(c, h, s) == IF h = "save" THEN SaveHolds(c, s) ELSE RunHolds(c, s)
FileMutex ==
    \A s \in Research :
        /\ guarded[s] <=> \E c \in Coordinator, h \in Hands : Holds(c, h, s)
        /\ \A c, d \in Coordinator, h, k \in Hands : Holds(c, h, s) /\ Holds(d, k, s) => c = d /\ h = k

\* What is about to be written was made of the file as it is.
SaveFits(c) ==
    LET s == saving[c].spec
        r == saving[c].row IN
    /\ saving[c].pc = "rewrite" => saving[c].rest = Runs!Replaced(findings[s], r)
    /\ saving[c].pc = "append" => r.url \notin known[s]
RunFits(c) ==
    coordinator[c].pc = "rename" =>
        coordinator[c].rest = Runs!Cleared(findings[Runs!Study(c)], coordinator[c].dead)
FileFits(s) ==
    s \notin spoiled =>
        /\ guarded[s] \/ known[s] # {} => AllParsed(findings[s]) /\ known[s] = Runs!Urls(findings[s])
        /\ OneRow(findings[s])
        /\ kept[s] \subseteq Runs!Urls(findings[s])
FilesFit ==
    /\ \A c \in Coordinator : SaveFits(c) /\ RunFits(c)
    /\ \A s \in Research : FileFits(s)

\* With one run at a time, none of which is aborted hard, the context is that of the run
\* whose agent is on.
OneByOne == scene.permits = 1 /\ ~ scene.hard
OneRunAtATime == scene.permits = 1 => \A c, d \in Runs!Holding : c = d
ContextFits ==
    OneByOne => \A c \in Coordinator : finder[c] = "on" => context = c /\ c \in Runs!Holding
RowsOwn(f, s) == \A i \in DOMAIN f : f[i].by \in Coordinator => Runs!Study(f[i].by) = s
RowsFit ==
    scene.explicit \/ OneByOne =>
        /\ \A s \in Research : RowsOwn(findings[s], s)
        /\ \A c \in Coordinator : saving[c].pc # "idle" => saving[c].spec = Runs!Study(c)
OwnInv == OneRunAtATime /\ ContextFits /\ RowsFit

\* Between two counts of a run: what is there now, what it removed and what is about to be
\* saved is no more than what was there and what was saved since the beginning.
Used == scene.finds - finds
Unsaved == {c \in Coordinator : saving[c].pc \in {"wait", "append", "rewrite"}}
BetweenCounts(C) ==
    \/ C.round = 0 /\ C.pc \in {"cleanup", "judge"}
    \/ C.round = 1 /\ C.pc \in {"remove", "rename", "launch", "drain", "record"}
CountFits(C, n, p, u) ==
    /\ C.replaced <= u
    /\ C.pc \in {"queued", "open"} => C.round = 0
    /\ C.pc \in {"remove", "rename"} => C.round # 0 /\ (C.again => C.round < 2)
    /\ C.pc \in {"launch", "drain", "record"} => C.round < 2
    /\ C.round = 0 => C.removed = 0
    /\ BetweenCounts(C) => C.replaced = 0 /\ n + C.removed + p <= C.base + u
CountsFit ==
    /\ Cardinality(Unsaved) <= Used
    /\ \A c \in Coordinator : scene.rounds[c] <= 2 =>
        CountFits(coordinator[c], Number(findings[Runs!Study(c)]), Cardinality(Unsaved), Used)

ResearchInv == RunsInv /\ FindShape /\ FileMutex /\ FilesFit /\ OwnInv /\ CountsFit

-----------------------------------------------------------------------------

LEMMA TheScene ==
    ASSUME FindShape
    PROVE  /\ DOMAIN scene.study \subseteq Coordinator
           /\ \A c \in DOMAIN scene.study : Runs!Study(c) \in Research
           /\ scene.rounds \in [Coordinator -> Nat] /\ scene.permits \in Nat /\ scene.finds \in Nat
           /\ scene.explicit \in BOOLEAN /\ scene.hard \in BOOLEAN
           /\ \A c \in DOMAIN scene.study : findings[Runs!Study(c)] \in Seq(Row)
BY ScenesAssumption DEF FindShape, Runs!Study

LEMMA FindShapeBegins == Runs!Init => FindShape
<1> SUFFICES ASSUME Runs!Init PROVE FindShape
    OBVIOUS
<1>1. scene \in Scenes /\ scene.earlier \in Url /\ scene.finds \in Nat /\ DOMAIN scene.study \subseteq Coordinator
    BY ScenesAssumption DEF Runs!Init
<1>2. Runs!Earlier(scene.earlier) \in Row
    BY <1>1 DEF Runs!Earlier, Row
<1>3. findings \in [Research -> Seq(Row)]
    BY <1>2 DEF Runs!Init
<1>4. Runs!Queued \in Locals /\ [Runs!Queued EXCEPT !.pc = "over"] \in Locals /\ Runs!Queued.pc # "over"
    <2>1. <<>> \in Seq(Row) /\ {} \in SUBSET Url
        OBVIOUS
    <2> QED
        BY <2>1 DEF Runs!Queued, Locals, Places, Reasons
<1>5. coordinator \in [Coordinator -> Locals] /\ \A c \in Coordinator : coordinator[c].pc # "over" => c \in DOMAIN scene.study
    BY <1>4 DEF Runs!Init, Runs!Queued
<1>6. \A c \in Coordinator : SaveShape(c) /\ finder[c] = "none"
    BY DEF Runs!Init, Runs!NoSave, SaveShape, SavePlaces
<1>7. known \in [Research -> SUBSET Url] /\ kept \in [Research -> SUBSET Url] /\ guarded \in [Research -> BOOLEAN]
    BY <1>1 DEF Runs!Init
<1>8. context \in DOMAIN scene.study \cup {None} /\ DOMAIN saving = Coordinator /\ DOMAIN finder = Coordinator
      /\ finds = scene.finds
    BY DEF Runs!Init
<1> QED
    BY <1>1, <1>3, <1>5, <1>6, <1>7, <1>8 DEF FindShape

\* A step of the coordinator of a run that writes no file, unless it heals it.
MovesOn(c) ==
    /\ c \in DOMAIN scene.study
    /\ UNCHANGED <<scene, known, guarded, kept, spoiled, saving, finds>>
    /\ \/ findings' = findings
       \/ /\ ~ guarded[Runs!Study(c)]
          /\ findings' = [findings EXCEPT ![Runs!Study(c)] = Runs!Parsed(findings[Runs!Study(c)])]
    /\ coordinator' = [coordinator EXCEPT ![c] = coordinator'[c]] /\ coordinator'[c] \in Locals
    /\ coordinator[c].pc = "rename" \/ coordinator'[c].pc = "rename" =>
        /\ coordinator'[c].pc = coordinator[c].pc
        /\ coordinator'[c].rest = coordinator[c].rest /\ coordinator'[c].dead = coordinator[c].dead
    /\ DOMAIN finder' = Coordinator /\ \A d \in Coordinator \ {c} : finder'[d] = finder[d]
    /\ context' \in {context, c, None}

LEMMA HealedFile ==
    ASSUME NEW s, Runs!Heal(s)
    PROVE  /\ UNCHANGED <<known, guarded, kept, spoiled>> /\ ~ guarded[s]
           /\ findings' = [findings EXCEPT ![s] = Runs!Parsed(findings[s])]
BY DEF Runs!Heal

LEMMA JudgeChooses ==
    ASSUME NEW c \in Coordinator, Runs!Judge(c)
    PROVE  \E gone \in SUBSET Runs!Urls(findings[Runs!Study(c)]), again \in BOOLEAN :
               /\ again => coordinator[c].round + 1 < scene.rounds[c]
               /\ coordinator' = [coordinator EXCEPT
                   ![c].pc = IF gone # {} THEN "remove" ELSE Runs!Decided(again),
                   ![c].round = @ + 1, ![c].dead = gone, ![c].again = again /\ gone # {}]
BY Zenon DEF Runs!Judge

LEMMA CoordinatorMoves ==
    ASSUME FindShape, NEW c \in Coordinator,
           \/ Runs!Acquire(c) \/ Runs!Paused(c) \/ Runs!Open(c) \/ Runs!Launch(c) \/ Runs!Refused(c)
           \/ Runs!Drained(c) \/ Runs!Wall(c) \/ Runs!Record(c) \/ Runs!Cleanup(c)
           \/ Runs!Judge(c) \/ Runs!Final(c) \/ Runs!Cancel(c)
    PROVE  MovesOn(c)
<1>0. /\ coordinator \in [Coordinator -> Locals] /\ coordinator[c] \in Locals
      /\ DOMAIN finder = Coordinator /\ (coordinator[c].pc # "over" => c \in DOMAIN scene.study)
    BY DEF FindShape
<1> USE <1>0 DEF MovesOn, Locals, Places, Reasons, Runs!At, Runs!Goes, Runs!Returns, Runs!rows
<1>1. CASE Runs!Acquire(c)
    BY <1>1 DEF Runs!Acquire
<1>2. CASE Runs!Paused(c)
    BY <1>2 DEF Runs!Paused
<1>3. CASE Runs!Open(c)
    BY <1>3, HealedFile DEF Runs!Open
<1>4. CASE Runs!Launch(c)
    BY <1>4 DEF Runs!Launch
<1>5. CASE Runs!Refused(c)
    <2>1. /\ coordinator[c].pc = "launch" /\ context' = c /\ UNCHANGED <<scene, Runs!rows, finder, saving, finds>>
          /\ \/ coordinator' = [coordinator EXCEPT ![c].pc = "record", ![c].reason = "error"]
             \/ coordinator' = [coordinator EXCEPT ![c].pc = "final"]
        BY <1>5, Zenon DEF Runs!Refused, Runs!Returns, Runs!Goes, Runs!At
    <2>2. CASE coordinator' = [coordinator EXCEPT ![c].pc = "record", ![c].reason = "error"]
        BY <2>1, <2>2
    <2>3. CASE coordinator' = [coordinator EXCEPT ![c].pc = "final"]
        BY <2>1, <2>3
    <2> QED
        BY <2>1, <2>2, <2>3
<1>6. CASE Runs!Drained(c)
    BY <1>6 DEF Runs!Drained
<1>7. CASE Runs!Wall(c)
    BY <1>7 DEF Runs!Wall
<1>8. CASE Runs!Record(c)
    <2> DEFINE s == Runs!Study(c)
               C == coordinator[c]
               count == Len(Runs!Parsed(findings[s]))
               place == IF C.reason \in {"paused", "error"} THEN Runs!Verified(c) ELSE "cleanup"
               total == IF C.round = 0 THEN 0 ELSE C.replaced + Runs!NewInRerun(c, count)
    <2>1. /\ C.pc = "record" /\ Runs!Heal(s) /\ UNCHANGED <<scene, context, finder, saving, finds>>
          /\ coordinator' = [coordinator EXCEPT ![c].pc = place, ![c].base = count, ![c].replaced = total]
        BY <1>8, Zenon DEF Runs!Record, Runs!At
    <2>2. c \in DOMAIN scene.study /\ findings[s] \in Seq(Row)
        BY <2>1, TheScene
    <2>3. count \in Nat
        <3>1. Len(Runs!Parsed(findings[s])) = Number(findings[s]) /\ Number(findings[s]) \in Nat
            BY <2>2, ParsedRows, UrlsOfRows
        <3> QED
            BY <3>1
    <2> HIDE DEF count
    <2>4. total \in Nat
        BY <2>3 DEF Runs!NewInRerun, Runs!Minus
    <2>5. place \in {"over", "judge", "cleanup"}
        BY DEF Runs!Verified
    <2> HIDE DEF total, place
    <2>6. /\ coordinator' = [coordinator EXCEPT ![c] = coordinator'[c]] /\ coordinator'[c] \in Locals
          /\ coordinator'[c].pc = place
        BY <2>1, <2>3, <2>4, <2>5
    <2> QED
        BY <2>1, <2>2, <2>5, <2>6, HealedFile
<1>9. CASE Runs!Cleanup(c)
    BY <1>9 DEF Runs!Cleanup, Runs!Verified
<1>10. CASE Runs!Judge(c)
    <2> DEFINE s == Runs!Study(c)
               C == coordinator[c]
    <2>1. C.pc = "judge" /\ Runs!Heal(s) /\ UNCHANGED <<scene, context, finder, saving, finds>>
        BY <1>10, Zenon DEF Runs!Judge, Runs!At
    <2>2. c \in DOMAIN scene.study /\ Runs!Urls(findings[s]) \subseteq Url
        <3>1. c \in DOMAIN scene.study /\ findings[s] \in Seq(Row)
            BY <2>1, TheScene
        <3> QED
            BY <3>1, UrlsOfRows
    <2>3. PICK gone \in SUBSET Runs!Urls(findings[Runs!Study(c)]), again \in BOOLEAN :
               /\ again => coordinator[c].round + 1 < scene.rounds[c]
               /\ coordinator' = [coordinator EXCEPT
                   ![c].pc = IF gone # {} THEN "remove" ELSE Runs!Decided(again),
                   ![c].round = @ + 1, ![c].dead = gone, ![c].again = again /\ gone # {}]
        BY <1>10, JudgeChooses, Zenon
    <2> DEFINE place == IF gone # {} THEN "remove" ELSE Runs!Decided(again)
               more == again /\ gone # {}
    <2>4. place \in {"remove", "launch", "final"} /\ more \in BOOLEAN /\ gone \in SUBSET Url
        BY <2>2 DEF Runs!Decided
    <2>5. coordinator' = [coordinator EXCEPT ![c].pc = place, ![c].round = @ + 1, ![c].dead = gone, ![c].again = more]
        BY <2>3
    <2> HIDE DEF place, more
    <2>6. /\ coordinator' = [coordinator EXCEPT ![c] = coordinator'[c]] /\ coordinator'[c] \in Locals
          /\ coordinator'[c].pc = place
        <3> DEFINE n == C.round + 1
                   D == [C EXCEPT !.pc = place, !.round = n, !.dead = gone, !.again = more]
        <3>1. n \in Nat
            OBVIOUS
        <3>2. coordinator' = [coordinator EXCEPT ![c] = D]
            BY <2>5
        <3> HIDE DEF n
        <3>3. D \in Locals /\ D.pc = place
            BY <2>4, <3>1
        <3> HIDE DEF D
        <3> QED
            BY <3>2, <3>3
    <2> QED
        BY <2>1, <2>2, <2>4, <2>6, HealedFile
<1>11. CASE Runs!Final(c)
    BY <1>11, HealedFile DEF Runs!Final
<1>12. CASE Runs!Cancel(c)
    BY <1>12 DEF Runs!Cancel, Runs!Holding
<1> QED
    BY <1>1, <1>2, <1>3, <1>4, <1>5, <1>6, <1>7, <1>8, <1>9, <1>10, <1>11, <1>12

\* The shape of the state, when one run or one save of it changes.
LEMMA MovesKeepShape ==
    ASSUME FindShape, NEW c \in Coordinator, MovesOn(c), finds' \in Nat
    PROVE  FindShape'
<1> DEFINE s == Runs!Study(c)
<1>1. s \in Research /\ findings[s] \in Seq(Row)
    BY TheScene DEF MovesOn
<1>2. Runs!Parsed(findings[s]) \in Seq(Row)
    BY <1>1, ParsedRows
<1>3. findings' \in [Research -> Seq(Row)]
    BY <1>1, <1>2 DEF FindShape, MovesOn
<1>4. coordinator' \in [Coordinator -> Locals] /\ \A d \in Coordinator \ {c} : coordinator'[d] = coordinator[d]
    <2>1. coordinator \in [Coordinator -> Locals] /\ coordinator'[c] \in Locals
        BY DEF FindShape, MovesOn
    <2>2. coordinator' = [coordinator EXCEPT ![c] = coordinator'[c]]
        BY DEF MovesOn
    <2> QED
        BY <2>1, <2>2
<1>5. \A d \in Coordinator :
        SaveShape(d)' /\ (coordinator'[d].pc # "over" \/ finder'[d] # "none" => d \in DOMAIN scene'.study)
    BY <1>4 DEF FindShape, MovesOn, SaveShape
<1>6. context' \in DOMAIN scene'.study \cup {None}
    BY DEF FindShape, MovesOn
<1> QED
    BY <1>3, <1>4, <1>5, <1>6 DEF FindShape, MovesOn

\* A step of the save of one run.
LEMMA SavesKeepShape ==
    ASSUME FindShape, NEW c \in Coordinator,
           UNCHANGED <<scene, context, coordinator>>,
           findings' \in [Research -> Seq(Row)], guarded' \in [Research -> BOOLEAN],
           known' \in [Research -> SUBSET Url], kept' \in [Research -> SUBSET Url],
           DOMAIN saving' = Coordinator, \A d \in Coordinator \ {c} : saving'[d] = saving[d],
           DOMAIN finder' = Coordinator, \A d \in Coordinator : finder'[d] # "none" => finder[d] # "none",
           finds' \in Nat, finds' <= finds, SaveShape(c)'
    PROVE  FindShape'
<1>1. \A d \in Coordinator : SaveShape(d)'
    BY DEF FindShape, SaveShape
<1>2. finds' <= scene'.finds
    BY TheScene DEF FindShape
<1> QED
    BY <1>1, <1>2 DEF FindShape

LEMMA IdleSave == \A c : saving'[c] = Runs!NoSave => SaveShape(c)' /\ ~ saving'[c].pc \in {"wait", "append", "rewrite", "tell"}
BY DEF Runs!NoSave, SaveShape, SavePlaces

LEMMA SavedSpec ==
    ASSUME FindShape, NEW c \in Coordinator, saving[c].pc # "idle"
    PROVE  /\ c \in DOMAIN scene.study /\ saving[c].spec \in Research /\ findings[saving[c].spec] \in Seq(Row)
           /\ saving[c].row \in Row /\ saving[c].row.url \in Url /\ saving[c].row.by = c
           /\ known[saving[c].spec] \subseteq Url
BY DEF FindShape, SaveShape

\* The file as the first look at it leaves it, and the set.
LEMMA LoadedFile ==
    ASSUME FindShape, NEW s \in Research
    PROVE  /\ Runs!Loaded(s) \in Seq(Row) /\ Runs!KnownOf(s) \subseteq Url
           /\ Runs!Loaded(s) \in {findings[s], Runs!Parsed(findings[s])}
           /\ s \notin spoiled /\ FileFits(s) =>
               /\ AllParsed(Runs!Loaded(s)) /\ AllParsed(Runs!Parsed(findings[s]))
               /\ Runs!KnownOf(s) = Runs!Urls(findings[s])
<1>1. findings[s] \in Seq(Row) /\ known[s] \subseteq Url
    BY DEF FindShape
<1>2. /\ Runs!Parsed(findings[s]) \in Seq(Row) /\ AllParsed(Runs!Parsed(findings[s]))
      /\ Runs!Urls(findings[s]) \subseteq Url
    BY <1>1, ParsedRows, UrlsOfRows
<1> QED
    BY <1>1, <1>2 DEF Runs!Loaded, Runs!KnownOf, FileFits

\* The healed file has the rows of the file.
LEMMA HealedRows ==
    ASSUME NEW f \in Seq(Row), NEW g \in {f, Runs!Parsed(f)}
    PROVE  /\ g \in Seq(Row) /\ Runs!Urls(g) = Runs!Urls(f) /\ Number(g) = Number(f) /\ Number(f) \in Nat
           /\ (OneRow(f) => OneRow(g)) /\ (AllParsed(f) => AllParsed(g))
           /\ \A k \in DOMAIN g : \E i \in DOMAIN f : g[k] = f[i]
BY ParsedRows, UrlsOfRows

LEMMA BeginSaveShape ==
    ASSUME FindShape, RunsInv, NEW c \in Coordinator, Runs!BeginSave(c)
    PROVE  /\ FindShape'
           /\ UNCHANGED <<scene, findings, known, guarded, kept, spoiled, context, coordinator, finder>>
           /\ saving[c].pc = "idle" /\ finder[c] = "on" /\ finds' = finds - 1 /\ finds > 0
           /\ \A d \in Coordinator \ {c} : saving'[d] = saving[d]
           /\ saving'[c].pc = "wait"
           /\ saving'[c].spec = IF scene.explicit THEN Runs!Study(c) ELSE Runs!Study(context)
<1>1. /\ finder[c] = "on" /\ saving[c].pc = "idle" /\ finds > 0 /\ finds' = finds - 1
      /\ scene.explicit \/ context # None
      /\ UNCHANGED <<scene, findings, known, guarded, kept, spoiled, context, coordinator, finder>>
    BY Zenon DEF Runs!BeginSave, Runs!rows
<1>2. PICK u \in Url : saving' = [saving EXCEPT ![c] =
            [pc |-> "wait", spec |-> IF scene.explicit THEN Runs!Study(c) ELSE Runs!Study(context),
             row |-> [url |-> u, by |-> c], rest |-> <<>>]]
    BY Zenon DEF Runs!BeginSave
<1> DEFINE spec == IF scene.explicit THEN Runs!Study(c) ELSE Runs!Study(context)
           row == [url |-> u, by |-> c]
           S == [pc |-> "wait", spec |-> spec, row |-> row, rest |-> <<>>]
<1>3. c \in DOMAIN scene.study /\ (~ scene.explicit => context \in DOMAIN scene.study)
    BY <1>1 DEF FindShape
<1>4. spec \in Research
    BY <1>3, TheScene
<1>5. row \in Row /\ row.url \in Url /\ row.by = c
    BY RunsNumbers DEF Row
<1> HIDE DEF spec, row
<1>6. /\ {"pc", "spec", "row", "rest"} \subseteq DOMAIN S
      /\ S.pc = "wait" /\ S.spec = spec /\ S.row = row
    OBVIOUS
<1>7. saving' = [saving EXCEPT ![c] = S]
    BY <1>2 DEF spec, row
<1> HIDE DEF S
<1>8. saving'[c] = S /\ DOMAIN saving' = Coordinator /\ \A d \in Coordinator \ {c} : saving'[d] = saving[d]
    BY <1>7 DEF FindShape
<1>9. SaveShape(c)'
    BY <1>1, <1>3, <1>4, <1>5, <1>6, <1>8 DEF SaveShape, SavePlaces
<1>10. finds \in Nat
    BY DEF FindShape
<1>11. FindShape'
    <2>1. finds' \in Nat /\ finds' <= finds
        BY <1>1, <1>10
    <2>2. /\ findings' \in [Research -> Seq(Row)] /\ guarded' \in [Research -> BOOLEAN]
          /\ known' \in [Research -> SUBSET Url] /\ kept' \in [Research -> SUBSET Url] /\ DOMAIN finder' = Coordinator
        BY <1>1 DEF FindShape
    <2> QED
        BY <1>1, <1>8, <1>9, <2>1, <2>2, SavesKeepShape
<1> QED
    BY <1>1, <1>6, <1>8, <1>11 DEF spec

LEMMA TakeShape ==
    ASSUME FindShape, NEW c \in Coordinator, Runs!Take(c)
    PROVE  LET s == saving[c].spec
               r == saving[c].row IN
           /\ FindShape'
           /\ UNCHANGED <<scene, kept, spoiled, context, coordinator, finder, finds>>
           /\ saving[c].pc = "wait" /\ ~ guarded[s]
           /\ \A d \in Coordinator \ {c} : saving'[d] = saving[d]
           /\ saving'[c].spec = s /\ saving'[c].row = r
           /\ guarded' = [guarded EXCEPT ![s] = TRUE]
           /\ known' = [known EXCEPT ![s] = Runs!KnownOf(s)]
           /\ findings' = [findings EXCEPT ![s] = findings'[s]]
           /\ findings'[s] \in {Runs!Loaded(s), Runs!Parsed(findings[s])}
           /\ \/ saving'[c].pc = "rewrite" /\ saving'[c].rest = Runs!Replaced(findings'[s], r)
              \/ saving'[c].pc = "append" /\ r.url \notin Runs!KnownOf(s)
<1> DEFINE s == saving[c].spec
           r == saving[c].row
<1>1. /\ saving[c].pc = "wait" /\ ~ guarded[s]
      /\ guarded' = [guarded EXCEPT ![s] = TRUE] /\ known' = [known EXCEPT ![s] = Runs!KnownOf(s)]
      /\ UNCHANGED <<scene, kept, spoiled, context, coordinator, finder, finds>>
      /\ IF r.url \in Runs!KnownOf(s)
         THEN /\ findings' = [findings EXCEPT ![s] = Runs!Parsed(findings[s])]
              /\ saving' = [saving EXCEPT ![c].pc = "rewrite", ![c].rest = Runs!Replaced(Runs!Parsed(findings[s]), r)]
         ELSE /\ findings' = [findings EXCEPT ![s] = Runs!Loaded(s)]
              /\ saving' = [saving EXCEPT ![c].pc = "append"]
    BY DEF Runs!Take, Runs!Free
<1>2. /\ c \in DOMAIN scene.study /\ s \in Research /\ findings[s] \in Seq(Row)
      /\ r \in Row /\ r.url \in Url /\ r.by = c
    BY <1>1, SavedSpec
<1>3. /\ Runs!Loaded(s) \in Seq(Row) /\ Runs!Parsed(findings[s]) \in Seq(Row) /\ Runs!KnownOf(s) \subseteq Url
    BY <1>2, LoadedFile, ParsedRows
<1>4. DOMAIN saving = Coordinator /\ {"pc", "spec", "row", "rest"} \subseteq DOMAIN saving[c]
      /\ DOMAIN finder = Coordinator /\ DOMAIN findings = Research
    BY DEF FindShape, SaveShape
<1>5. /\ DOMAIN saving' = Coordinator /\ \A d \in Coordinator \ {c} : saving'[d] = saving[d]
      /\ {"pc", "spec", "row", "rest"} \subseteq DOMAIN saving'[c]
      /\ saving'[c].spec = s /\ saving'[c].row = r
      /\ findings' = [findings EXCEPT ![s] = findings'[s]]
      /\ findings'[s] \in {Runs!Loaded(s), Runs!Parsed(findings[s])}
      /\ \/ saving'[c].pc = "rewrite" /\ saving'[c].rest = Runs!Replaced(findings'[s], r)
         \/ saving'[c].pc = "append" /\ r.url \notin Runs!KnownOf(s)
    <2>1. CASE r.url \in Runs!KnownOf(s)
        BY <1>1, <1>2, <1>4, <2>1
    <2>2. CASE r.url \notin Runs!KnownOf(s)
        BY <1>1, <1>2, <1>4, <2>2
    <2> QED
        BY <2>1, <2>2
<1> HIDE DEF s, r
<1>6. SaveShape(c)'
    BY <1>1, <1>2, <1>5 DEF SaveShape, SavePlaces
<1>7. /\ findings' \in [Research -> Seq(Row)] /\ guarded' \in [Research -> BOOLEAN]
      /\ known' \in [Research -> SUBSET Url] /\ kept' \in [Research -> SUBSET Url]
      /\ finds' \in Nat /\ finds' <= finds /\ DOMAIN finder' = Coordinator
    <2>1. findings \in [Research -> Seq(Row)] /\ findings'[s] \in Seq(Row)
        BY <1>3, <1>5 DEF FindShape
    <2>2. findings' \in [Research -> Seq(Row)]
        BY <1>2, <1>5, <2>1
    <2> QED
        BY <1>1, <1>2, <1>3, <2>2 DEF FindShape
<1>8. FindShape'
    BY <1>1, <1>5, <1>6, <1>7, SavesKeepShape
<1> QED
    BY <1>1, <1>5, <1>8 DEF s, r

\* What a save writes.
LEMMA WrittenFile ==
    ASSUME FindShape, NEW c \in Coordinator, SaveFits(c), saving[c].pc \in {"append", "rewrite"}
    PROVE  LET f == findings[saving[c].spec]
               r == saving[c].row
               g == Runs!Written(c) IN
           /\ g \in Seq(Row) /\ Number(g) <= Number(f) + 1 /\ Runs!Urls(f) \subseteq Runs!Urls(g)
           /\ \A k \in DOMAIN g : g[k] \in {r, Runs!Torn, Runs!Bad} \/ \E i \in DOMAIN f : g[k] = f[i]
           /\ OneRow(f) /\ (saving[c].pc = "append" => r.url \notin Runs!Urls(f)) => OneRow(g)
           /\ AllParsed(f) => AllParsed(g) /\ Runs!Urls(g) = Runs!Urls(f) \cup {r.url}
<1> DEFINE f == findings[saving[c].spec]
           r == saving[c].row
           g == Runs!Written(c)
<1>1. f \in Seq(Row) /\ r \in Row /\ r.url \in Url /\ r.url # None
    BY SavedSpec, RunsNumbers
<1>2. CASE saving[c].pc = "append"
    <2>1. g = Runs!Appended(f, r)
        BY <1>2 DEF Runs!Written
    <2> HIDE DEF f, r, g
    <2>2. /\ g \in Seq(Row)
          /\ \A k \in DOMAIN g : g[k] \in {r, Runs!Torn, Runs!Bad} \/ \E i \in DOMAIN f : g[k] = f[i]
          /\ Number(g) <= Number(f) + 1 /\ Runs!Urls(f) \subseteq Runs!Urls(g)
          /\ (OneRow(f) /\ r.url \notin Runs!Urls(f) => OneRow(g))
          /\ (AllParsed(f) => g = Append(f, r))
        BY <1>1, <2>1, AppendedRows
    <2>3. AllParsed(f) => AllParsed(g) /\ Runs!Urls(g) = Runs!Urls(f) \cup {r.url}
        BY <1>1, <2>2, OneMoreRow
    <2> QED
        BY <1>2, <2>2, <2>3 DEF f, r, g
<1>3. CASE saving[c].pc = "rewrite"
    <2>1. g = Runs!Replaced(f, r)
        BY <1>3 DEF Runs!Written, SaveFits
    <2>2. /\ g \in Seq(Row)
          /\ \A k \in DOMAIN g : g[k] = r \/ \E i \in DOMAIN f : g[k] = f[i]
          /\ Number(g) <= Number(f) + 1
          /\ Runs!Urls(g) = Runs!Urls(f) \cup {r.url}
          /\ (AllParsed(f) => AllParsed(g)) /\ (OneRow(f) => OneRow(g))
        BY <1>1, <2>1, ReplacedRows
    <2> HIDE DEF f, r, g
    <2> QED
        BY <1>3, <2>2 DEF f, r, g
<1> QED
    BY <1>2, <1>3

\* The steps that end a save.
EndsSave(c) ==
    /\ UNCHANGED <<scene, context, coordinator, finds>>
    /\ DOMAIN saving' = Coordinator /\ \A d \in Coordinator \ {c} : saving'[d] = saving[d]
    /\ saving'[c].pc \in {"idle", "tell"} /\ SaveShape(c)'
    /\ DOMAIN finder' = Coordinator
    /\ \A d \in Coordinator : finder'[d] = finder[d] \/ (finder[d] # "none" /\ finder'[d] = "off")

LEMMA EndKeepsShape ==
    ASSUME FindShape, NEW c \in Coordinator, EndsSave(c),
           findings' \in [Research -> Seq(Row)], guarded' \in [Research -> BOOLEAN],
           known' \in [Research -> SUBSET Url], kept' \in [Research -> SUBSET Url]
    PROVE  FindShape'
<1>1. finds' \in Nat /\ finds' <= finds
    BY DEF FindShape, EndsSave
<1>2. \A d \in Coordinator : finder'[d] # "none" => finder[d] # "none"
    BY DEF EndsSave
<1> QED
    BY <1>1, <1>2, SavesKeepShape DEF EndsSave

LEMMA LandShape ==
    ASSUME FindShape, NEW c \in Coordinator, SaveFits(c), Runs!Land(c)
    PROVE  LET s == saving[c].spec IN
           /\ FindShape' /\ EndsSave(c) /\ UNCHANGED spoiled /\ finder' = finder
           /\ saving[c].pc \in {"append", "rewrite"}
           /\ findings' = [findings EXCEPT ![s] = Runs!Written(c)]
           /\ known' = [known EXCEPT ![s] = known[s] \cup {saving[c].row.url}]
           /\ guarded' = [guarded EXCEPT ![s] = FALSE]
           /\ kept' = [kept EXCEPT ![s] = kept[s] \cup {saving[c].row.url}]
           /\ saving'[c].spec = s
<1> DEFINE s == saving[c].spec
<1>1. /\ saving[c].pc \in {"append", "rewrite"} /\ findings' = [findings EXCEPT ![s] = Runs!Written(c)]
      /\ known' = [known EXCEPT ![s] = known[s] \cup {saving[c].row.url}]
      /\ guarded' = [guarded EXCEPT ![s] = FALSE]
      /\ kept' = [kept EXCEPT ![s] = kept[s] \cup {saving[c].row.url}]
      /\ saving' = [saving EXCEPT ![c].pc = "tell", ![c].rest = <<>>]
      /\ UNCHANGED <<scene, spoiled, context, coordinator, finder, finds>>
    BY DEF Runs!Land, Runs!Noted
<1>2. /\ c \in DOMAIN scene.study /\ s \in Research /\ Runs!Written(c) \in Seq(Row)
      /\ saving[c].row \in Row /\ saving[c].row.url \in Url /\ saving[c].row.by = c
    BY <1>1, SavedSpec, WrittenFile
<1>3. DOMAIN saving = Coordinator /\ {"pc", "spec", "row", "rest"} \subseteq DOMAIN saving[c] /\ DOMAIN finder = Coordinator
    BY DEF FindShape, SaveShape
<1>4. /\ DOMAIN saving' = Coordinator /\ \A d \in Coordinator \ {c} : saving'[d] = saving[d]
      /\ {"pc", "spec", "row", "rest"} \subseteq DOMAIN saving'[c] /\ saving'[c].pc = "tell"
      /\ saving'[c].spec = s /\ saving'[c].row = saving[c].row
    BY <1>1, <1>3
<1>5. SaveShape(c)'
    BY <1>1, <1>2, <1>4 DEF SaveShape, SavePlaces
<1>6. EndsSave(c)
    BY <1>1, <1>3, <1>4, <1>5 DEF EndsSave
<1>7. /\ findings' \in [Research -> Seq(Row)] /\ guarded' \in [Research -> BOOLEAN]
      /\ known' \in [Research -> SUBSET Url] /\ kept' \in [Research -> SUBSET Url]
    BY <1>1, <1>2 DEF FindShape
<1> QED
    BY <1>1, <1>4, <1>6, <1>7, EndKeepsShape

LEMMA FailSaveShape ==
    ASSUME FindShape, NEW c \in Coordinator, Runs!FailSave(c)
    PROVE  LET s == saving[c].spec IN
           /\ FindShape' /\ EndsSave(c) /\ UNCHANGED <<known, kept>> /\ finder' = finder
           /\ saving[c].pc \in {"append", "rewrite"} /\ saving'[c].pc = "idle"
           /\ guarded' = [guarded EXCEPT ![s] = FALSE]
           /\ \/ findings' = [findings EXCEPT ![s] = Runs!Appended(findings[s], Runs!Torn)] /\ spoiled' = spoiled \cup {s}
              \/ UNCHANGED <<findings, spoiled>>
<1> DEFINE s == saving[c].spec
<1>1. /\ saving[c].pc \in {"append", "rewrite"}
      /\ guarded' = [guarded EXCEPT ![s] = FALSE]
      /\ saving' = [saving EXCEPT ![c] = Runs!NoSave]
      /\ UNCHANGED <<scene, known, kept, context, coordinator, finder, finds>>
      /\ \/ findings' = [findings EXCEPT ![s] = Runs!Appended(findings[s], Runs!Torn)] /\ spoiled' = spoiled \cup {s}
         \/ UNCHANGED <<findings, spoiled>>
    BY DEF Runs!FailSave
<1>2. s \in Research /\ findings[s] \in Seq(Row)
    BY <1>1, SavedSpec
<1>3. Runs!Appended(findings[s], Runs!Torn) \in Seq(Row)
    BY <1>2, LinesAreRows, AppendedRows
<1>4. DOMAIN saving = Coordinator /\ DOMAIN finder = Coordinator
    BY DEF FindShape
<1>5. /\ DOMAIN saving' = Coordinator /\ \A d \in Coordinator \ {c} : saving'[d] = saving[d]
      /\ saving'[c] = Runs!NoSave /\ saving'[c].pc = "idle"
    BY <1>1, <1>4 DEF Runs!NoSave
<1>6. EndsSave(c)
    BY <1>1, <1>4, <1>5, IdleSave DEF EndsSave
<1>7. /\ findings' \in [Research -> Seq(Row)] /\ guarded' \in [Research -> BOOLEAN]
      /\ known' \in [Research -> SUBSET Url] /\ kept' \in [Research -> SUBSET Url]
    BY <1>1, <1>2, <1>3 DEF FindShape
<1> QED
    BY <1>1, <1>5, <1>6, <1>7, EndKeepsShape

LEMMA TellShape ==
    ASSUME FindShape, NEW c \in Coordinator, Runs!Tell(c)
    PROVE  LET s == saving[c].spec IN
           /\ FindShape' /\ EndsSave(c) /\ UNCHANGED <<known, guarded, kept, spoiled>> /\ finder' = finder
           /\ saving[c].pc = "tell" /\ saving'[c].pc = "idle" /\ ~ guarded[s]
           /\ findings' = [findings EXCEPT ![s] = Runs!Parsed(findings[s])]
<1> DEFINE s == saving[c].spec
<1>1. /\ saving[c].pc = "tell"
      /\ saving' = [saving EXCEPT ![c] = Runs!NoSave]
      /\ UNCHANGED <<scene, context, coordinator, finder, finds>>
      /\ UNCHANGED <<known, guarded, kept, spoiled>> /\ ~ guarded[s]
      /\ findings' = [findings EXCEPT ![s] = Runs!Parsed(findings[s])]
    BY HealedFile DEF Runs!Tell
<1>2. s \in Research /\ findings[s] \in Seq(Row)
    BY <1>1, SavedSpec
<1>3. Runs!Parsed(findings[s]) \in Seq(Row)
    BY <1>2, ParsedRows
<1>4. DOMAIN saving = Coordinator /\ DOMAIN finder = Coordinator
    BY DEF FindShape
<1>5. /\ DOMAIN saving' = Coordinator /\ \A d \in Coordinator \ {c} : saving'[d] = saving[d]
      /\ saving'[c] = Runs!NoSave /\ saving'[c].pc = "idle"
    BY <1>1, <1>4 DEF Runs!NoSave
<1>6. EndsSave(c)
    BY <1>1, <1>4, <1>5, IdleSave DEF EndsSave
<1>7. /\ findings' \in [Research -> Seq(Row)] /\ guarded' \in [Research -> BOOLEAN]
      /\ known' \in [Research -> SUBSET Url] /\ kept' \in [Research -> SUBSET Url]
    BY <1>1, <1>2, <1>3 DEF FindShape
<1> QED
    BY <1>1, <1>5, <1>6, <1>7, EndKeepsShape

LEMMA StopAgentShape ==
    ASSUME FindShape, NEW c \in Coordinator, SaveFits(c), Runs!StopAgent(c)
    PROVE  LET s == saving[c].spec
               handed == saving[c].pc \in {"append", "rewrite"} IN
           /\ FindShape' /\ EndsSave(c) /\ UNCHANGED <<known, kept>>
           /\ finder[c] = "stopping" /\ finder' = [finder EXCEPT ![c] = "off"] /\ saving'[c].pc = "idle"
           /\ \A x \in Research : guarded'[x] <=> guarded[x] /\ ~ (handed /\ x = s)
           /\ findings' = findings \/ (handed /\ findings' = [findings EXCEPT ![s] = Runs!Written(c)])
           /\ spoiled' = IF handed THEN spoiled \cup {s} ELSE spoiled
<1> DEFINE s == saving[c].spec
           handed == saving[c].pc \in {"append", "rewrite"}
<1>1. /\ finder[c] = "stopping" /\ finder' = [finder EXCEPT ![c] = "off"]
      /\ findings' \in {findings} \cup (IF handed THEN {[findings EXCEPT ![s] = Runs!Written(c)]} ELSE {})
      /\ guarded' = [x \in Research |-> guarded[x] /\ ~ (handed /\ x = s)]
      /\ spoiled' = IF handed THEN spoiled \cup {s} ELSE spoiled
      /\ saving' = [saving EXCEPT ![c] = Runs!NoSave]
      /\ UNCHANGED <<scene, known, kept, context, coordinator, finds>>
    BY Zenon DEF Runs!StopAgent
<1>2. findings' = findings \/ (handed /\ findings' = [findings EXCEPT ![s] = Runs!Written(c)])
    BY <1>1, Zenon
<1>3. handed => s \in Research /\ Runs!Written(c) \in Seq(Row)
    BY SavedSpec, WrittenFile
<1>4. DOMAIN saving = Coordinator /\ DOMAIN finder = Coordinator
    BY DEF FindShape
<1>5. /\ DOMAIN saving' = Coordinator /\ \A d \in Coordinator \ {c} : saving'[d] = saving[d]
      /\ saving'[c] = Runs!NoSave /\ saving'[c].pc = "idle"
    BY <1>1, <1>4 DEF Runs!NoSave
<1>6. EndsSave(c)
    BY <1>1, <1>4, <1>5, IdleSave DEF EndsSave
<1> HIDE DEF handed, s
<1>7. guarded' \in [Research -> BOOLEAN] /\ \A x \in Research : guarded'[x] <=> guarded[x] /\ ~ (handed /\ x = s)
    BY <1>1, Zenon
<1>8. findings' \in [Research -> Seq(Row)]
    BY <1>2, <1>3 DEF FindShape
<1>9. known' \in [Research -> SUBSET Url] /\ kept' \in [Research -> SUBSET Url]
    BY <1>1 DEF FindShape
<1>10. FindShape'
    BY <1>6, <1>7, <1>8, <1>9, EndKeepsShape
<1> QED
    BY <1>1, <1>2, <1>5, <1>6, <1>7, <1>10, Zenon DEF handed, s

LEMMA AgentEndsShape ==
    ASSUME FindShape, NEW c \in Coordinator, Runs!AgentEnds(c)
    PROVE  /\ FindShape' /\ EndsSave(c) /\ UNCHANGED <<findings, known, guarded, kept, spoiled, saving>>
           /\ finder[c] = "on" /\ finder' = [finder EXCEPT ![c] = "off"]
<1>1. /\ finder[c] = "on" /\ saving[c].pc = "idle" /\ finder' = [finder EXCEPT ![c] = "off"]
      /\ UNCHANGED <<scene, findings, known, guarded, kept, spoiled, context, coordinator, saving, finds>>
    BY Zenon DEF Runs!AgentEnds, Runs!rows
<1>2. EndsSave(c)
    BY <1>1 DEF EndsSave, FindShape, SaveShape
<1>3. /\ findings' \in [Research -> Seq(Row)] /\ guarded' \in [Research -> BOOLEAN]
      /\ known' \in [Research -> SUBSET Url] /\ kept' \in [Research -> SUBSET Url]
    BY <1>1 DEF FindShape
<1> QED
    BY <1>1, <1>2, <1>3, EndKeepsShape

\* A step of a coordinator that writes the file, or is dropped on the way.
WritesOn(c) ==
    /\ c \in DOMAIN scene.study
    /\ UNCHANGED <<scene, saving, finds, finder, context>>
    /\ coordinator' = [coordinator EXCEPT ![c] = coordinator'[c]] /\ coordinator'[c] \in Locals

LEMMA WritesKeepShape ==
    ASSUME FindShape, NEW c \in Coordinator, WritesOn(c),
           findings' \in [Research -> Seq(Row)], guarded' \in [Research -> BOOLEAN],
           known' \in [Research -> SUBSET Url], kept' \in [Research -> SUBSET Url]
    PROVE  FindShape'
<1>1. coordinator' \in [Coordinator -> Locals] /\ \A d \in Coordinator \ {c} : coordinator'[d] = coordinator[d]
    <2>1. coordinator \in [Coordinator -> Locals] /\ coordinator'[c] \in Locals
        BY DEF FindShape, WritesOn
    <2>2. coordinator' = [coordinator EXCEPT ![c] = coordinator'[c]]
        BY DEF WritesOn
    <2> QED
        BY <2>1, <2>2
<1>2. \A d \in Coordinator :
        SaveShape(d)' /\ (coordinator'[d].pc # "over" \/ finder'[d] # "none" => d \in DOMAIN scene'.study)
    BY <1>1 DEF FindShape, WritesOn, SaveShape
<1> QED
    BY <1>1, <1>2 DEF FindShape, WritesOn

\* What is left of the dead, once they are removed or not.
LEMMA RemovesOn ==
    ASSUME FindShape, NEW c \in Coordinator, NEW n \in Nat, Runs!Removes(c, n),
           UNCHANGED <<scene, saving, finds, finder, context>>, coordinator[c].pc # "over"
    PROVE  /\ WritesOn(c)
           /\ coordinator'[c].pc = Runs!Decided(coordinator[c].again)
           /\ coordinator'[c].pc \in {"launch", "final"}
           /\ coordinator'[c].round = coordinator[c].round /\ coordinator'[c].base = coordinator[c].base
           /\ coordinator'[c].removed = coordinator[c].removed + n
           /\ coordinator'[c].replaced = coordinator[c].replaced
<1>1. coordinator' = [coordinator EXCEPT ![c].pc = Runs!Decided(coordinator[c].again), ![c].rest = <<>>,
                        ![c].dead = {}, ![c].again = FALSE, ![c].removed = @ + n]
    BY Zenon DEF Runs!Removes
<1>2. coordinator \in [Coordinator -> Locals] /\ coordinator[c] \in Locals /\ c \in DOMAIN scene.study
    BY DEF FindShape
<1> DEFINE place == Runs!Decided(coordinator[c].again)
           m == coordinator[c].removed + n
           D == [coordinator[c] EXCEPT !.pc = place, !.rest = <<>>, !.dead = {}, !.again = FALSE, !.removed = m]
<1>3. place \in {"launch", "final"} /\ m \in Nat
    BY <1>2 DEF Runs!Decided, Locals
<1>4. coordinator' = [coordinator EXCEPT ![c] = D]
    BY <1>1, <1>2
<1> HIDE DEF place, m
<1>5. D \in Locals /\ D.pc = place /\ D.round = coordinator[c].round /\ D.base = coordinator[c].base
      /\ D.removed = m /\ D.replaced = coordinator[c].replaced
    <2>1. <<>> \in Seq(Row) /\ {} \in SUBSET Url
        OBVIOUS
    <2> QED
        BY <1>2, <1>3, <2>1 DEF Locals, Places
<1> HIDE DEF D
<1>6. coordinator'[c] = D /\ coordinator' = [coordinator EXCEPT ![c] = coordinator'[c]]
    BY <1>2, <1>4
<1> QED
    BY <1>2, <1>3, <1>5, <1>6 DEF WritesOn, place, m

LEMMA RemoveDeadShape ==
    ASSUME FindShape, NEW c \in Coordinator, Runs!RemoveDead(c)
    PROVE  LET s == Runs!Study(c)
               C == coordinator[c] IN
           /\ FindShape' /\ WritesOn(c) /\ UNCHANGED <<kept, spoiled>>
           /\ s \in Research /\ C.pc = "remove" /\ ~ guarded[s]
           /\ known' = [known EXCEPT ![s] = Runs!KnownOf(s)]
           /\ findings' = [findings EXCEPT ![s] = Runs!Loaded(s)]
           /\ coordinator'[c].round = C.round /\ coordinator'[c].base = C.base
           /\ coordinator'[c].removed = C.removed /\ coordinator'[c].replaced = C.replaced
           /\ \/ guarded' = guarded /\ coordinator'[c].pc = Runs!Decided(C.again)
              \/ /\ guarded' = [guarded EXCEPT ![s] = TRUE] /\ coordinator'[c].pc = "rename"
                 /\ coordinator'[c].rest = Runs!Cleared(Runs!Loaded(s), C.dead)
                 /\ coordinator'[c].dead = C.dead /\ coordinator'[c].again = C.again
<1> DEFINE s == Runs!Study(c)
           C == coordinator[c]
<1>1. /\ C.pc = "remove" /\ ~ guarded[s]
      /\ known' = [known EXCEPT ![s] = Runs!KnownOf(s)]
      /\ findings' = [findings EXCEPT ![s] = Runs!Loaded(s)]
      /\ UNCHANGED <<scene, kept, spoiled, context, finder, saving, finds>>
      /\ \/ Runs!Removes(c, 0) /\ guarded' = guarded
         \/ /\ coordinator' = [coordinator EXCEPT ![c].pc = "rename", ![c].rest = Runs!Cleared(Runs!Loaded(s), C.dead)]
            /\ guarded' = [guarded EXCEPT ![s] = TRUE]
    BY Zenon DEF Runs!RemoveDead, Runs!Free, Runs!At
<1>2. /\ coordinator \in [Coordinator -> Locals] /\ C \in Locals /\ s \in Research /\ c \in DOMAIN scene.study
      /\ findings[s] \in Seq(Row)
    BY <1>1, TheScene DEF FindShape
<1>3. Runs!Loaded(s) \in Seq(Row) /\ Runs!KnownOf(s) \subseteq Url
    BY <1>2, LoadedFile
<1>4. /\ findings' \in [Research -> Seq(Row)] /\ guarded' \in [Research -> BOOLEAN]
      /\ known' \in [Research -> SUBSET Url] /\ kept' \in [Research -> SUBSET Url]
    BY <1>1, <1>2, <1>3 DEF FindShape
<1>5. CASE Runs!Removes(c, 0) /\ guarded' = guarded
    <2>1. /\ WritesOn(c) /\ coordinator'[c].pc = Runs!Decided(C.again)
          /\ coordinator'[c].round = C.round /\ coordinator'[c].base = C.base
          /\ coordinator'[c].removed = C.removed + 0 /\ coordinator'[c].replaced = C.replaced
        BY <1>1, <1>5, RemovesOn
    <2>2. C.removed + 0 = C.removed
        BY <1>2 DEF Locals
    <2> HIDE DEF C, s
    <2> QED
        BY <1>1, <1>2, <1>4, <1>5, <2>1, <2>2, WritesKeepShape DEF C, s
<1>6. CASE /\ coordinator' = [coordinator EXCEPT ![c].pc = "rename", ![c].rest = Runs!Cleared(Runs!Loaded(s), C.dead)]
           /\ guarded' = [guarded EXCEPT ![s] = TRUE]
    <2> DEFINE left_over == Runs!Cleared(Runs!Loaded(s), C.dead)
    <2>1. left_over \in Seq(Row)
        <3>1. C.dead \in SUBSET Url
            BY <1>2 DEF Locals
        <3> QED
            BY <1>3, <3>1, ClearedRows
    <2> HIDE DEF left_over
    <2>2. coordinator' = [coordinator EXCEPT ![c].pc = "rename", ![c].rest = left_over]
        BY <1>6 DEF left_over
    <2>3. /\ coordinator' = [coordinator EXCEPT ![c] = coordinator'[c]] /\ coordinator'[c] \in Locals
          /\ coordinator'[c].pc = "rename" /\ coordinator'[c].rest = left_over
          /\ coordinator'[c].dead = C.dead /\ coordinator'[c].again = C.again
          /\ coordinator'[c].round = C.round /\ coordinator'[c].base = C.base
          /\ coordinator'[c].removed = C.removed /\ coordinator'[c].replaced = C.replaced
        BY <1>2, <2>1, <2>2 DEF Locals, Places
    <2>4. WritesOn(c)
        BY <1>1, <1>2, <2>3 DEF WritesOn
    <2> QED
        BY <1>1, <1>2, <1>4, <1>6, <2>3, <2>4, WritesKeepShape DEF left_over
<1> QED
    BY <1>1, <1>5, <1>6

\* What a removal writes.
LEMMA ClearedFile ==
    ASSUME FindShape, NEW c \in Coordinator, RunFits(c), coordinator[c].pc = "rename"
    PROVE  LET f == findings[Runs!Study(c)]
               g == coordinator[c].rest IN
           /\ c \in DOMAIN scene.study /\ Runs!Study(c) \in Research
           /\ f \in Seq(Row) /\ g \in Seq(Row) /\ coordinator[c].dead \subseteq Url
           /\ \A k \in DOMAIN g : g[k] = Runs!Bad \/ \E i \in DOMAIN f : g[k] = f[i]
           /\ Runs!Urls(g) = Runs!Urls(f) \ coordinator[c].dead
           /\ (AllParsed(f) => AllParsed(g)) /\ (OneRow(f) => OneRow(g))
           /\ Len(f) - Len(g) \in Nat /\ Number(g) + (Len(f) - Len(g)) = Number(f)
<1> DEFINE f == findings[Runs!Study(c)]
           g == coordinator[c].rest
           gone == coordinator[c].dead
<1>1. c \in DOMAIN scene.study /\ gone \in SUBSET Url /\ g = Runs!Cleared(f, gone)
    BY DEF FindShape, Locals, RunFits
<1>2. Runs!Study(c) \in Research /\ f \in Seq(Row)
    BY <1>1, TheScene
<1> HIDE DEF f, g, gone
<1> DEFINE h == Runs!Cleared(f, gone)
<1>4. /\ h \in Seq(Row)
      /\ \A k \in DOMAIN h : h[k] = Runs!Bad \/ \E i \in DOMAIN f : h[k] = f[i]
      /\ Runs!Urls(h) = Runs!Urls(f) \ gone
      /\ (AllParsed(f) => AllParsed(h)) /\ (OneRow(f) => OneRow(h))
      /\ Len(f) - Len(h) \in Nat /\ Number(h) + (Len(f) - Len(h)) = Number(f)
    BY <1>1, <1>2, ClearedRows, Zenon
<1> HIDE DEF h
<1>5. g = h
    BY <1>1 DEF h
<1>3. /\ g \in Seq(Row)
      /\ \A k \in DOMAIN g : g[k] = Runs!Bad \/ \E i \in DOMAIN f : g[k] = f[i]
      /\ Runs!Urls(g) = Runs!Urls(f) \ gone
      /\ (AllParsed(f) => AllParsed(g)) /\ (OneRow(f) => OneRow(g))
      /\ Len(f) - Len(g) \in Nat /\ Number(g) + (Len(f) - Len(g)) = Number(f)
    BY <1>4, <1>5
<1> QED
    BY <1>1, <1>2, <1>3 DEF f, g, gone

LEMMA RenameShape ==
    ASSUME FindShape, NEW c \in Coordinator, RunFits(c), Runs!Rename(c)
    PROVE  LET s == Runs!Study(c)
               C == coordinator[c] IN
           /\ FindShape' /\ WritesOn(c) /\ UNCHANGED spoiled
           /\ s \in Research /\ C.pc = "rename"
           /\ findings' = [findings EXCEPT ![s] = C.rest]
           /\ known' = [known EXCEPT ![s] = known[s] \ C.dead]
           /\ kept' = [kept EXCEPT ![s] = kept[s] \ C.dead]
           /\ guarded' = [guarded EXCEPT ![s] = FALSE]
           /\ coordinator'[c].pc = Runs!Decided(C.again)
           /\ coordinator'[c].round = C.round /\ coordinator'[c].base = C.base
           /\ coordinator'[c].removed = C.removed + (Len(findings[s]) - Len(C.rest))
           /\ coordinator'[c].replaced = C.replaced
<1> DEFINE s == Runs!Study(c)
           C == coordinator[c]
           n == Len(findings[s]) - Len(C.rest)
<1>1. /\ C.pc = "rename" /\ findings' = [findings EXCEPT ![s] = C.rest]
      /\ known' = [known EXCEPT ![s] = known[s] \ C.dead] /\ kept' = [kept EXCEPT ![s] = kept[s] \ C.dead]
      /\ guarded' = [guarded EXCEPT ![s] = FALSE] /\ Runs!Removes(c, n)
      /\ UNCHANGED <<scene, spoiled, context, finder, saving, finds>>
    BY DEF Runs!Rename, Runs!At
<1>2. s \in Research /\ n \in Nat /\ C.rest \in Seq(Row)
    BY <1>1, ClearedFile
<1> HIDE DEF n
<1>3. /\ WritesOn(c) /\ coordinator'[c].pc = Runs!Decided(C.again)
      /\ coordinator'[c].round = C.round /\ coordinator'[c].base = C.base
      /\ coordinator'[c].removed = C.removed + n /\ coordinator'[c].replaced = C.replaced
    BY <1>1, <1>2, RemovesOn
<1>4. /\ findings' \in [Research -> Seq(Row)] /\ guarded' \in [Research -> BOOLEAN]
      /\ known' \in [Research -> SUBSET Url] /\ kept' \in [Research -> SUBSET Url]
    BY <1>1, <1>2 DEF FindShape
<1> HIDE DEF s, C
<1> QED
    BY <1>1, <1>2, <1>3, <1>4, WritesKeepShape DEF s, C, n

LEMMA RenameFailsShape ==
    ASSUME FindShape, NEW c \in Coordinator, Runs!RenameFails(c)
    PROVE  LET s == Runs!Study(c)
               C == coordinator[c] IN
           /\ FindShape' /\ WritesOn(c) /\ UNCHANGED <<findings, known, kept, spoiled>>
           /\ s \in Research /\ C.pc = "rename"
           /\ guarded' = [guarded EXCEPT ![s] = FALSE]
           /\ coordinator'[c].pc = Runs!Decided(C.again)
           /\ coordinator'[c].round = C.round /\ coordinator'[c].base = C.base
           /\ coordinator'[c].removed = C.removed /\ coordinator'[c].replaced = C.replaced
<1> DEFINE s == Runs!Study(c)
           C == coordinator[c]
<1>1. /\ C.pc = "rename" /\ guarded' = [guarded EXCEPT ![s] = FALSE] /\ Runs!Removes(c, 0)
      /\ UNCHANGED <<scene, findings, known, kept, spoiled, context, finder, saving, finds>>
    BY DEF Runs!RenameFails, Runs!At
<1>2. c \in DOMAIN scene.study /\ C.removed \in Nat
    BY <1>1 DEF FindShape, Locals
<1>3. s \in Research
    BY <1>2, TheScene
<1>4. /\ WritesOn(c) /\ coordinator'[c].pc = Runs!Decided(C.again)
      /\ coordinator'[c].round = C.round /\ coordinator'[c].base = C.base
      /\ coordinator'[c].removed = C.removed + 0 /\ coordinator'[c].replaced = C.replaced
    BY <1>1, RemovesOn
<1>5. C.removed + 0 = C.removed
    BY <1>2
<1>6. /\ findings' \in [Research -> Seq(Row)] /\ guarded' \in [Research -> BOOLEAN]
      /\ known' \in [Research -> SUBSET Url] /\ kept' \in [Research -> SUBSET Url]
    BY <1>1, <1>3 DEF FindShape
<1> HIDE DEF s, C
<1> QED
    BY <1>1, <1>3, <1>4, <1>5, <1>6, WritesKeepShape DEF s, C

LEMMA HardAbortShape ==
    ASSUME FindShape, NEW c \in Coordinator, RunFits(c), Runs!HardAbort(c)
    PROVE  LET s == Runs!Study(c)
               renames == coordinator[c].pc = "rename" IN
           /\ FindShape' /\ WritesOn(c) /\ UNCHANGED <<known, kept>>
           /\ scene.hard /\ s \in Research /\ coordinator'[c].pc = "dropped"
           /\ coordinator'[c].replaced = 0 /\ coordinator'[c].removed = 0 /\ coordinator'[c].round = 0
           /\ \A x \in Research : guarded'[x] <=> guarded[x] /\ ~ (renames /\ x = s)
           /\ findings' = findings \/ (renames /\ findings' = [findings EXCEPT ![s] = coordinator[c].rest])
           /\ spoiled' = IF renames THEN spoiled \cup {s} ELSE spoiled
<1> DEFINE s == Runs!Study(c)
           renames == coordinator[c].pc = "rename"
<1>1. /\ scene.hard /\ c \in Runs!Holding
      /\ coordinator' = [coordinator EXCEPT ![c] = [Runs!Queued EXCEPT !.pc = "dropped"]]
      /\ findings' \in {findings} \cup (IF renames THEN {[findings EXCEPT ![s] = coordinator[c].rest]} ELSE {})
      /\ guarded' = [x \in Research |-> guarded[x] /\ ~ (renames /\ x = s)]
      /\ spoiled' = IF renames THEN spoiled \cup {s} ELSE spoiled
      /\ UNCHANGED <<scene, known, kept, context, finder, saving, finds>>
    BY Zenon DEF Runs!HardAbort, Runs!At
<1>2. findings' = findings \/ (renames /\ findings' = [findings EXCEPT ![s] = coordinator[c].rest])
    BY <1>1, Zenon
<1>3. c \in DOMAIN scene.study /\ s \in Research
    <2>1. coordinator[c].pc # "over"
        BY <1>1 DEF Runs!Holding
    <2> QED
        BY <2>1, TheScene DEF FindShape
<1>4. renames => coordinator[c].rest \in Seq(Row)
    BY ClearedFile
<1> DEFINE D == [Runs!Queued EXCEPT !.pc = "dropped"]
<1>5. D \in Locals /\ D.pc = "dropped" /\ D.replaced = 0 /\ D.removed = 0 /\ D.round = 0
    <2>1. <<>> \in Seq(Row) /\ {} \in SUBSET Url
        OBVIOUS
    <2> QED
        BY <2>1 DEF Runs!Queued, Locals, Places, Reasons
<1>6. coordinator' = [coordinator EXCEPT ![c] = D]
    BY <1>1
<1> HIDE DEF D
<1>7. coordinator'[c] = D /\ coordinator' = [coordinator EXCEPT ![c] = coordinator'[c]]
    BY <1>6 DEF FindShape
<1>8. WritesOn(c)
    BY <1>1, <1>3, <1>5, <1>7 DEF WritesOn
<1> HIDE DEF renames, s
<1>9. guarded' \in [Research -> BOOLEAN] /\ \A x \in Research : guarded'[x] <=> guarded[x] /\ ~ (renames /\ x = s)
    BY <1>1, Zenon
<1>10. findings' \in [Research -> Seq(Row)]
    BY <1>2, <1>3, <1>4 DEF FindShape
<1>11. known' \in [Research -> SUBSET Url] /\ kept' \in [Research -> SUBSET Url]
    BY <1>1 DEF FindShape
<1>12. FindShape'
    BY <1>8, <1>9, <1>10, <1>11, WritesKeepShape
<1>13. /\ coordinator'[c].pc = "dropped"
       /\ coordinator'[c].replaced = 0 /\ coordinator'[c].removed = 0 /\ coordinator'[c].round = 0
    BY <1>5, <1>7
<1> QED
    BY <1>1, <1>2, <1>3, <1>8, <1>9, <1>12, <1>13, Zenon DEF renames, s

\* A file after a crash: as it was, or what one of those at it was to write.
LEMMA CrashedFile ==
    ASSUME FindShape, NEW s \in Research, NEW file \in Runs!AfterCrash(s),
           \A c \in Coordinator : SaveFits(c) /\ RunFits(c)
    PROVE  \/ file = findings[s]
           \/ \E c \in Coordinator : SaveHolds(c, s) /\ file = Runs!Written(c)
           \/ file = Runs!Appended(findings[s], Runs!Torn)
           \/ \E c \in Coordinator : RunHolds(c, s) /\ file = coordinator[c].rest
BY Zenon DEF Runs!AfterCrash, Runs!Savers, Runs!Removers, SaveHolds, RunHolds, Runs!At

LEMMA CrashShape ==
    ASSUME FindShape, Runs!Crash, \A c \in Coordinator : SaveFits(c) /\ RunFits(c)
    PROVE  /\ FindShape' /\ UNCHANGED <<scene, spoiled, finds>>
           /\ known' = [s \in Research |-> {}] /\ guarded' = [s \in Research |-> FALSE] /\ context' = None
           /\ \A c \in Coordinator :
               /\ coordinator'[c] = IF c \in Runs!Holding THEN [Runs!Queued EXCEPT !.pc = "dropped"] ELSE coordinator[c]
               /\ coordinator'[c].pc \in {"queued", "over", "dropped"}
               /\ finder'[c] # "on" /\ saving'[c].pc = "idle"
           /\ \E s \in Research : \E file \in Runs!AfterCrash(s) :
               /\ file \in Seq(Row) /\ findings' = [findings EXCEPT ![s] = file]
               /\ kept' = [kept EXCEPT ![s] =
                      @ \ UNION {coordinator[c].dead : c \in {d \in Runs!Removers(s) : coordinator[d].rest = file}}]
<1>1. /\ UNCHANGED <<scene, spoiled, finds>>
      /\ known' = [s \in Research |-> {}] /\ guarded' = [s \in Research |-> FALSE] /\ context' = None
      /\ coordinator' = [c \in Coordinator |->
             IF c \in Runs!Holding THEN [Runs!Queued EXCEPT !.pc = "dropped"] ELSE coordinator[c]]
      /\ finder' = [c \in Coordinator |-> IF finder[c] = "none" THEN "none" ELSE "off"]
      /\ saving' = [c \in Coordinator |-> Runs!NoSave]
    BY Zenon DEF Runs!Crash
<1>2. PICK s \in Research : \E file \in Runs!AfterCrash(s) :
        /\ findings' = [findings EXCEPT ![s] = file]
        /\ kept' = [kept EXCEPT ![s] =
               @ \ UNION {coordinator[c].dead : c \in {d \in Runs!Removers(s) : coordinator[d].rest = file}}]
    BY Zenon DEF Runs!Crash
<1>3. PICK file \in Runs!AfterCrash(s) :
        /\ findings' = [findings EXCEPT ![s] = file]
        /\ kept' = [kept EXCEPT ![s] =
               @ \ UNION {coordinator[c].dead : c \in {d \in Runs!Removers(s) : coordinator[d].rest = file}}]
    BY <1>2
<1>4. file \in Seq(Row)
    <2>1. CASE file = findings[s]
        BY <2>1 DEF FindShape
    <2>2. ASSUME NEW c \in Coordinator, SaveHolds(c, s), file = Runs!Written(c) PROVE file \in Seq(Row)
        BY <2>2, WrittenFile DEF SaveHolds
    <2>3. CASE file = Runs!Appended(findings[s], Runs!Torn)
        <3>1. findings[s] \in Seq(Row) /\ Runs!Torn \in Row
            BY LinesAreRows DEF FindShape
        <3> QED
            BY <2>3, <3>1, AppendedRows
    <2>4. ASSUME NEW c \in Coordinator, RunHolds(c, s), file = coordinator[c].rest PROVE file \in Seq(Row)
        BY <2>4 DEF FindShape, Locals
    <2> QED
        BY <2>1, <2>2, <2>3, <2>4, CrashedFile
<1>5. \A c \in Coordinator :
        /\ coordinator'[c] = IF c \in Runs!Holding THEN [Runs!Queued EXCEPT !.pc = "dropped"] ELSE coordinator[c]
        /\ coordinator'[c].pc \in {"queued", "over", "dropped"}
        /\ finder'[c] # "on" /\ saving'[c] = Runs!NoSave /\ saving'[c].pc = "idle"
    BY <1>1 DEF Runs!Holding, Runs!Queued, Runs!NoSave
<1>6. coordinator' \in [Coordinator -> Locals]
    <2>1. [Runs!Queued EXCEPT !.pc = "dropped"] \in Locals
        <3>1. <<>> \in Seq(Row) /\ {} \in SUBSET Url
            OBVIOUS
        <3> QED
            BY <3>1 DEF Runs!Queued, Locals, Places, Reasons
    <2>2. coordinator \in [Coordinator -> Locals]
        BY DEF FindShape
    <2> HIDE DEF Locals
    <2> QED
        BY <1>1, <2>1, <2>2
<1>7. \A c \in Coordinator :
        SaveShape(c)' /\ (coordinator'[c].pc # "over" \/ finder'[c] # "none" => c \in DOMAIN scene'.study)
    <2>1. \A c \in Coordinator : SaveShape(c)'
        BY <1>5, IdleSave
    <2>2. \A c \in Coordinator : coordinator'[c].pc # "over" => coordinator[c].pc # "over"
        BY <1>5 DEF Runs!Holding
    <2>3. \A c \in Coordinator : finder'[c] # "none" => finder[c] # "none"
        BY <1>1
    <2> QED
        BY <1>1, <2>1, <2>2, <2>3 DEF FindShape
<1>8. /\ findings' \in [Research -> Seq(Row)] /\ kept' \in [Research -> SUBSET Url]
      /\ known' \in [Research -> SUBSET Url] /\ guarded' \in [Research -> BOOLEAN]
    BY <1>1, <1>3, <1>4 DEF FindShape
<1>9. FindShape'
    BY <1>1, <1>6, <1>7, <1>8 DEF FindShape
<1> QED
    BY <1>1, <1>3, <1>4, <1>5, <1>9

-----------------------------------------------------------------------------

LEMMA FileMutexBegins == Runs!Init => FileMutex
<1> SUFFICES ASSUME Runs!Init PROVE FileMutex
    OBVIOUS
<1>1. \A c \in Coordinator : saving[c].pc = "idle" /\ coordinator[c].pc \in {"queued", "over"}
    BY DEF Runs!Init, Runs!NoSave, Runs!Queued
<1>2. \A s \in Research : ~ guarded[s]
    BY DEF Runs!Init
<1> QED
    BY <1>1, <1>2 DEF FileMutex, Holds, SaveHolds, RunHolds

LEMMA MutexKept ==
    ASSUME FileMutex, \A s \in Research : guarded'[s] <=> guarded[s],
           \A s \in Research, d \in Coordinator, k \in Hands : Holds(d, k, s)' <=> Holds(d, k, s)
    PROVE  FileMutex'
BY DEF FileMutex

LEMMA MutexTaken ==
    ASSUME FileMutex, NEW c \in Coordinator, NEW h \in Hands, NEW s \in Research, ~ guarded[s],
           \A x \in Research : guarded'[x] <=> guarded[x] \/ x = s,
           \A x \in Research, d \in Coordinator, k \in Hands :
               Holds(d, k, x)' <=> Holds(d, k, x) \/ (d = c /\ k = h /\ x = s)
    PROVE  FileMutex'
<1> SUFFICES ASSUME NEW x \in Research
             PROVE  /\ guarded'[x] <=> \E d \in Coordinator, k \in Hands : Holds(d, k, x)'
                    /\ \A d, e \in Coordinator, k, j \in Hands : Holds(d, k, x)' /\ Holds(e, j, x)' => d = e /\ k = j
    BY Zenon DEF FileMutex
<1>1. CASE x = s
    <2>1. \A d \in Coordinator, k \in Hands : ~ Holds(d, k, s)
        BY Zenon DEF FileMutex
    <2> QED
        BY <1>1, <2>1, Zenon
<1>2. CASE x # s
    <2>1. \A d \in Coordinator, k \in Hands : Holds(d, k, x)' <=> Holds(d, k, x)
        BY <1>2, Zenon
    <2>2. guarded'[x] <=> guarded[x]
        BY <1>2, Zenon
    <2> QED
        BY <2>1, <2>2 DEF FileMutex
<1> QED
    BY <1>1, <1>2

LEMMA MutexFreed ==
    ASSUME FileMutex, NEW c \in Coordinator, NEW h \in Hands, NEW s \in Research, Holds(c, h, s),
           \A x \in Research : guarded'[x] <=> guarded[x] /\ x # s,
           \A x \in Research, d \in Coordinator, k \in Hands :
               Holds(d, k, x)' <=> Holds(d, k, x) /\ ~ (d = c /\ k = h)
    PROVE  FileMutex'
<1>0. Holds(c, h, s) /\ \A x \in Research : Holds(c, h, x) => x = s
    BY DEF Holds, SaveHolds, RunHolds
<1> SUFFICES ASSUME NEW x \in Research
             PROVE  /\ guarded'[x] <=> \E d \in Coordinator, k \in Hands : Holds(d, k, x)'
                    /\ \A d, e \in Coordinator, k, j \in Hands : Holds(d, k, x)' /\ Holds(e, j, x)' => d = e /\ k = j
    BY Zenon DEF FileMutex
<1>1. CASE x = s
    <2>1. \A d \in Coordinator, k \in Hands : Holds(d, k, s) => d = c /\ k = h
        BY <1>0, Zenon DEF FileMutex
    <2>2. \A d \in Coordinator, k \in Hands : ~ Holds(d, k, s)'
        BY <2>1
    <2> QED
        BY <1>1, <2>2, Zenon
<1>2. CASE x # s
    <2>1. \A d \in Coordinator, k \in Hands : Holds(d, k, x)' <=> Holds(d, k, x)
        BY <1>0, <1>2
    <2> QED
        BY <1>2, <2>1, Zenon DEF FileMutex
<1> QED
    BY <1>1, <1>2

\* A step of a coordinator leaves the saves alone; those of a save leave the removals alone.
LEMMA MovesKeepMutex ==
    ASSUME FindShape, FileMutex, NEW c \in Coordinator, MovesOn(c)
    PROVE  FileMutex'
<1>1. \A d \in Coordinator \ {c} : coordinator'[d] = coordinator[d]
    BY DEF FindShape, MovesOn
<1>2. \A s \in Research, d \in Coordinator, k \in Hands : Holds(d, k, s)' <=> Holds(d, k, s)
    BY <1>1 DEF MovesOn, Holds, SaveHolds, RunHolds, Runs!Study
<1>3. \A s \in Research : guarded'[s] <=> guarded[s]
    BY DEF MovesOn
<1> QED
    BY <1>2, <1>3, MutexKept

LEMMA SavesKeepMutex ==
    ASSUME FindShape, FileMutex, NEW c \in Coordinator, UNCHANGED <<scene, coordinator>>,
           \A s \in Research : guarded'[s] <=> guarded[s],
           \A d \in Coordinator \ {c} : saving'[d] = saving[d],
           ~ saving[c].pc \in {"append", "rewrite"}, ~ saving'[c].pc \in {"append", "rewrite"}
    PROVE  FileMutex'
<1>1. \A s \in Research, d \in Coordinator, k \in Hands : Holds(d, k, s)' <=> Holds(d, k, s)
    BY DEF Holds, SaveHolds, RunHolds, Runs!Study
<1> QED
    BY <1>1, MutexKept

LEMMA SaveFreesMutex ==
    ASSUME FindShape, FileMutex, NEW c \in Coordinator, EndsSave(c), saving[c].pc \in {"append", "rewrite"},
           \A x \in Research : guarded'[x] <=> guarded[x] /\ x # saving[c].spec
    PROVE  FileMutex'
<1> DEFINE s == saving[c].spec
<1>1. s \in Research /\ Holds(c, "save", s) /\ "save" \in Hands
    BY SavedSpec DEF Holds, SaveHolds, Hands
<1>2. \A x \in Research, d \in Coordinator, k \in Hands :
        Holds(d, k, x)' <=> Holds(d, k, x) /\ ~ (d = c /\ k = "save")
    BY DEF EndsSave, Holds, SaveHolds, RunHolds, Runs!Study
<1> HIDE DEF s
<1>3. \A x \in Research : guarded'[x] <=> guarded[x] /\ x # s
    BY DEF s
<1> QED
    BY <1>1, <1>2, <1>3, MutexFreed

LEMMA TakeMutex ==
    ASSUME FindShape, FileMutex, NEW c \in Coordinator, Runs!Take(c)
    PROVE  FileMutex'
<1> DEFINE s == saving[c].spec
<1>1. /\ UNCHANGED <<scene, coordinator>> /\ saving[c].pc = "wait" /\ ~ guarded[s]
      /\ \A d \in Coordinator \ {c} : saving'[d] = saving[d]
      /\ saving'[c].spec = s /\ saving'[c].pc \in {"append", "rewrite"}
      /\ guarded' = [guarded EXCEPT ![s] = TRUE]
    BY TakeShape
<1>2. s \in Research /\ "save" \in Hands
    BY <1>1, SavedSpec DEF Hands
<1> HIDE DEF s
<1>3. \A x \in Research : guarded'[x] <=> guarded[x] \/ x = s
    BY <1>1, <1>2 DEF FindShape
<1>4. \A x \in Research, d \in Coordinator, k \in Hands :
        Holds(d, k, x)' <=> Holds(d, k, x) \/ (d = c /\ k = "save" /\ x = s)
    BY <1>1 DEF Holds, SaveHolds, RunHolds, Runs!Study
<1> QED
    BY <1>1, <1>2, <1>3, <1>4, MutexTaken

\* The steps of a removal.
LEMMA RemovalsKeepMutex ==
    ASSUME FindShape, FileMutex, NEW c \in Coordinator, WritesOn(c),
           \A s \in Research : guarded'[s] <=> guarded[s],
           coordinator[c].pc # "rename", coordinator'[c].pc # "rename"
    PROVE  FileMutex'
<1>1. \A d \in Coordinator \ {c} : coordinator'[d] = coordinator[d]
    BY DEF FindShape, WritesOn
<1>2. \A s \in Research, d \in Coordinator, k \in Hands : Holds(d, k, s)' <=> Holds(d, k, s)
    BY <1>1 DEF WritesOn, Holds, SaveHolds, RunHolds, Runs!Study
<1> QED
    BY <1>2, MutexKept

LEMMA RemovalTakesMutex ==
    ASSUME FindShape, FileMutex, NEW c \in Coordinator, WritesOn(c), ~ guarded[Runs!Study(c)],
           guarded' = [guarded EXCEPT ![Runs!Study(c)] = TRUE],
           coordinator[c].pc # "rename", coordinator'[c].pc = "rename"
    PROVE  FileMutex'
<1> DEFINE s == Runs!Study(c)
<1>1. s \in Research /\ "removal" \in Hands
    BY TheScene DEF WritesOn, Hands
<1>2. \A d \in Coordinator \ {c} : coordinator'[d] = coordinator[d]
    BY DEF FindShape, WritesOn
<1>3. \A x \in Research : guarded'[x] <=> guarded[x] \/ x = s
    BY <1>1 DEF FindShape
<1>4. \A x \in Research, d \in Coordinator, k \in Hands :
        Holds(d, k, x)' <=> Holds(d, k, x) \/ (d = c /\ k = "removal" /\ x = s)
    BY <1>2 DEF WritesOn, Holds, SaveHolds, RunHolds, Runs!Study, Hands
<1> HIDE DEF s
<1>5. ~ guarded[s]
    BY DEF s
<1> QED
    BY <1>1, <1>3, <1>4, <1>5, MutexTaken

LEMMA RemovalFreesMutex ==
    ASSUME FindShape, FileMutex, NEW c \in Coordinator, WritesOn(c),
           \A x \in Research : guarded'[x] <=> guarded[x] /\ x # Runs!Study(c),
           coordinator[c].pc = "rename", coordinator'[c].pc # "rename"
    PROVE  FileMutex'
<1> DEFINE s == Runs!Study(c)
<1>1. s \in Research /\ Holds(c, "removal", s) /\ "removal" \in Hands
    BY TheScene DEF WritesOn, Hands, Holds, RunHolds
<1>2. \A d \in Coordinator \ {c} : coordinator'[d] = coordinator[d]
    BY DEF FindShape, WritesOn
<1>3. \A x \in Research, d \in Coordinator, k \in Hands :
        Holds(d, k, x)' <=> Holds(d, k, x) /\ ~ (d = c /\ k = "removal")
    BY <1>2 DEF WritesOn, Holds, SaveHolds, RunHolds, Runs!Study, Hands
<1> HIDE DEF s
<1>4. \A x \in Research : guarded'[x] <=> guarded[x] /\ x # s
    BY DEF s
<1> QED
    BY <1>1, <1>3, <1>4, MutexFreed

LEMMA CrashMutex ==
    ASSUME FindShape, Runs!Crash, \A c \in Coordinator : SaveFits(c) /\ RunFits(c)
    PROVE  FileMutex'
<1>1. /\ \A c \in Coordinator : coordinator'[c].pc \in {"queued", "over", "dropped"} /\ saving'[c].pc = "idle"
      /\ guarded' = [s \in Research |-> FALSE]
    BY CrashShape
<1>2. \A s \in Research, d \in Coordinator, k \in Hands : ~ Holds(d, k, s)'
    BY <1>1 DEF Holds, SaveHolds, RunHolds
<1>3. \A s \in Research : ~ guarded'[s]
    BY <1>1
<1> QED
    BY <1>2, <1>3, Zenon DEF FileMutex

-----------------------------------------------------------------------------

LEMMA FilesFitBegin == Runs!Init => FilesFit
<1> SUFFICES ASSUME Runs!Init PROVE FilesFit
    OBVIOUS
<1>1. \A c \in Coordinator : saving[c].pc = "idle" /\ coordinator[c].pc \in {"queued", "over"}
    BY DEF Runs!Init, Runs!NoSave, Runs!Queued
<1>2. ASSUME NEW s \in Research PROVE FileFits(s)
    <2> DEFINE f == findings[s]
    <2>1. /\ ~ guarded[s] /\ known[s] = {} /\ kept[s] = {scene.earlier}
          /\ f = <<Runs!Earlier(scene.earlier)>> /\ scene.earlier \in Url
        BY ScenesAssumption DEF Runs!Init
    <2>2. f \in Seq(Row)
        BY FindShapeBegins DEF FindShape
    <2>3. DOMAIN f = {1} /\ f[1].url = scene.earlier
        BY <2>1 DEF Runs!Earlier
    <2> HIDE DEF f
    <2>4. OneRow(f)
        BY <2>3 DEF OneRow
    <2>5. Runs!Urls(f) = {scene.earlier}
        <3>1. Runs!Urls(f) = {f[i].url : i \in Parses(f)}
            BY <2>2, UrlsOfRows
        <3>2. Parses(f) = {1}
            BY <2>1, <2>3, RunsNumbers DEF Parses
        <3> QED
            BY <2>3, <3>1, <3>2
    <2> QED
        BY <2>1, <2>4, <2>5 DEF FileFits, f
<1> QED
    BY <1>1, <1>2 DEF FilesFit, SaveFits, RunFits

\* Who is to write a file has its mutex.
LEMMA Holders ==
    ASSUME FindShape, FileMutex, NEW d \in Coordinator
    PROVE  /\ saving[d].pc \in {"append", "rewrite"} => saving[d].spec \in Research /\ guarded[saving[d].spec]
           /\ coordinator[d].pc = "rename" => Runs!Study(d) \in Research /\ guarded[Runs!Study(d)]
<1>1. ASSUME saving[d].pc \in {"append", "rewrite"}
      PROVE  saving[d].spec \in Research /\ guarded[saving[d].spec]
    <2>1. saving[d].spec \in Research
        BY <1>1, SavedSpec
    <2>2. Holds(d, "save", saving[d].spec) /\ "save" \in Hands
        BY <1>1 DEF Holds, SaveHolds, Hands
    <2> QED
        BY <2>1, <2>2, Zenon DEF FileMutex
<1>2. ASSUME coordinator[d].pc = "rename"
      PROVE  Runs!Study(d) \in Research /\ guarded[Runs!Study(d)]
    <2>1. Runs!Study(d) \in Research
        BY <1>2, TheScene DEF FindShape
    <2>2. Holds(d, "removal", Runs!Study(d)) /\ "removal" \in Hands
        BY <1>2 DEF Holds, RunHolds, Hands
    <2> QED
        BY <2>1, <2>2, Zenon DEF FileMutex
<1> QED
    BY <1>1, <1>2

\* The holder of a mutex is the only one.
LEMMA OneHolder ==
    ASSUME FindShape, FileMutex, NEW c \in Coordinator
    PROVE  /\ saving[c].pc \in {"append", "rewrite"} =>
               /\ \A d \in Coordinator \ {c} : ~ SaveHolds(d, saving[c].spec)
               /\ \A d \in Coordinator : ~ RunHolds(d, saving[c].spec)
           /\ coordinator[c].pc = "rename" =>
               /\ \A d \in Coordinator \ {c} : ~ RunHolds(d, Runs!Study(c))
               /\ \A d \in Coordinator : ~ SaveHolds(d, Runs!Study(c))
<1>0. "save" \in Hands /\ "removal" \in Hands /\ "save" # "removal"
    BY DEF Hands
<1>1. ASSUME saving[c].pc \in {"append", "rewrite"}
      PROVE  /\ \A d \in Coordinator \ {c} : ~ SaveHolds(d, saving[c].spec)
             /\ \A d \in Coordinator : ~ RunHolds(d, saving[c].spec)
    <2>1. saving[c].spec \in Research /\ Holds(c, "save", saving[c].spec)
        BY <1>1, SavedSpec DEF Holds, SaveHolds
    <2>2. \A d \in Coordinator, k \in Hands : Holds(d, k, saving[c].spec) => c = d /\ "save" = k
        BY <1>0, <2>1, Zenon DEF FileMutex
    <2> QED
        BY <1>0, <2>2 DEF Holds
<1>2. ASSUME coordinator[c].pc = "rename"
      PROVE  /\ \A d \in Coordinator \ {c} : ~ RunHolds(d, Runs!Study(c))
             /\ \A d \in Coordinator : ~ SaveHolds(d, Runs!Study(c))
    <2>1. Runs!Study(c) \in Research /\ Holds(c, "removal", Runs!Study(c))
        BY <1>2, Holders DEF Holds, RunHolds
    <2>2. \A d \in Coordinator, k \in Hands : Holds(d, k, Runs!Study(c)) => c = d /\ "removal" = k
        BY <1>0, <2>1, Zenon DEF FileMutex
    <2> QED
        BY <1>0, <2>2 DEF Holds
<1> QED
    BY <1>1, <1>2

\* What is about to be written still fits when the file is as it was.
LEMMA SaveStillFits ==
    ASSUME FindShape, NEW d \in Coordinator, SaveFits(d), saving'[d] = saving[d],
           \A x \in Research : SaveHolds(d, x) => findings'[x] = findings[x] /\ known'[x] = known[x]
    PROVE  SaveFits(d)'
<1>1. CASE saving[d].pc \in {"append", "rewrite"}
    <2>1. saving[d].spec \in Research /\ SaveHolds(d, saving[d].spec)
        BY <1>1, SavedSpec DEF SaveHolds
    <2> QED
        BY <2>1 DEF SaveFits
<1>2. CASE ~ saving[d].pc \in {"append", "rewrite"}
    BY <1>2 DEF SaveFits
<1> QED
    BY <1>1, <1>2

LEMMA RunStillFits ==
    ASSUME FindShape, NEW d \in Coordinator, RunFits(d), scene' = scene,
           coordinator'[d].pc = "rename" =>
               /\ coordinator[d].pc = "rename"
               /\ coordinator'[d].rest = coordinator[d].rest /\ coordinator'[d].dead = coordinator[d].dead,
           \A x \in Research : RunHolds(d, x) => findings'[x] = findings[x]
    PROVE  RunFits(d)'
<1> SUFFICES ASSUME coordinator'[d].pc = "rename" PROVE RunFits(d)'
    BY DEF RunFits
<1>1. d \in DOMAIN scene.study /\ coordinator[d].pc = "rename"
    BY DEF FindShape
<1>2. Runs!Study(d) \in Research /\ RunHolds(d, Runs!Study(d))
    BY <1>1, TheScene DEF RunHolds
<1>3. findings'[Runs!Study(d)] = findings[Runs!Study(d)] /\ Runs!Study(d)' = Runs!Study(d)
    BY <1>2 DEF Runs!Study
<1> QED
    BY <1>3 DEF RunFits

\* One file changes; the others fit as they did.
LEMMA FilesFitAfter ==
    ASSUME FilesFit, NEW s \in Research,
           \A x \in Research \ {s} :
               /\ findings'[x] = findings[x] /\ known'[x] = known[x] /\ kept'[x] = kept[x]
               /\ (guarded'[x] => guarded[x]) /\ (x \in spoiled => x \in spoiled'),
           FileFits(s)', \A d \in Coordinator : SaveFits(d)' /\ RunFits(d)'
    PROVE  FilesFit'
BY DEF FilesFit, FileFits

LEMMA FilesFitAsTheyDid ==
    ASSUME FilesFit, UNCHANGED <<findings, known, kept, spoiled>>,
           \A x \in Research : guarded'[x] => guarded[x],
           \A d \in Coordinator : SaveFits(d)' /\ RunFits(d)'
    PROVE  FilesFit'
BY DEF FilesFit, FileFits

\* A file that is healed, or looked at for the first time.
LEMMA HealedFits ==
    ASSUME FindShape, NEW s \in Research, FileFits(s), ~ guarded'[s], UNCHANGED <<known, kept, spoiled>>,
           findings'[s] \in {findings[s], Runs!Parsed(findings[s])}
    PROVE  FileFits(s)'
<1>1. findings[s] \in Seq(Row)
    BY DEF FindShape
<1> DEFINE f == findings[s]
           g == findings'[s]
<1>2. /\ Runs!Urls(g) = Runs!Urls(f) /\ (OneRow(f) => OneRow(g)) /\ (AllParsed(f) => AllParsed(g))
    BY <1>1, HealedRows
<1> HIDE DEF f, g
<1> QED
    BY <1>2 DEF FileFits, f, g

LEMMA LoadedFits ==
    ASSUME FindShape, NEW s \in Research, FileFits(s), UNCHANGED <<kept, spoiled>>,
           known'[s] = Runs!KnownOf(s),
           findings'[s] \in {Runs!Loaded(s), Runs!Parsed(findings[s])}
    PROVE  FileFits(s)'
<1>1. findings[s] \in Seq(Row) /\ findings'[s] \in {findings[s], Runs!Parsed(findings[s])}
    BY LoadedFile DEF FindShape
<1>2. /\ Runs!Urls(findings'[s]) = Runs!Urls(findings[s]) /\ (OneRow(findings[s]) => OneRow(findings'[s]))
    BY <1>1, HealedRows
<1>3. s \notin spoiled => AllParsed(findings'[s]) /\ Runs!KnownOf(s) = Runs!Urls(findings[s])
    BY LoadedFile
<1> QED
    BY <1>2, <1>3 DEF FileFits

FilesInv == FindShape /\ FileMutex /\ FilesFit

LEMMA EachFits ==
    ASSUME FilesInv
    PROVE  /\ \A c \in Coordinator : SaveFits(c) /\ RunFits(c)
           /\ \A s \in Research : FileFits(s)
BY DEF FilesInv, FilesFit

LEMMA MovesKeepFiles ==
    ASSUME FilesInv, NEW c \in Coordinator, MovesOn(c)
    PROVE  FilesFit'
<1>0. PICK s \in Research : s = Runs!Study(c)
    BY TheScene DEF FilesInv, MovesOn
<1>1. /\ FindShape /\ FileMutex /\ FilesFit
      /\ UNCHANGED <<scene, known, guarded, kept, spoiled, saving>>
      /\ \A d \in Coordinator \ {c} : coordinator'[d] = coordinator[d]
    BY DEF FilesInv, FindShape, MovesOn
<1>2. \/ findings' = findings
      \/ ~ guarded[s] /\ findings' = [findings EXCEPT ![s] = Runs!Parsed(findings[s])]
    BY <1>0 DEF MovesOn
<1>3. \A x \in Research : guarded[x] => findings'[x] = findings[x]
    BY <1>1, <1>2 DEF FindShape
<1>4. ASSUME NEW d \in Coordinator PROVE SaveFits(d)' /\ RunFits(d)'
    <2>1. \A x \in Research : SaveHolds(d, x) \/ RunHolds(d, x) => findings'[x] = findings[x]
        BY <1>1, <1>3, Holders DEF SaveHolds, RunHolds
    <2>2. SaveFits(d)'
        BY <1>1, <2>1, EachFits, SaveStillFits
    <2>3. coordinator'[d].pc = "rename" =>
               /\ coordinator[d].pc = "rename"
               /\ coordinator'[d].rest = coordinator[d].rest /\ coordinator'[d].dead = coordinator[d].dead
        BY <1>1 DEF MovesOn
    <2>4. RunFits(d)'
        BY <1>1, <2>1, <2>3, EachFits, RunStillFits
    <2> QED
        BY <2>2, <2>4
<1>5. CASE findings' = findings
    BY <1>1, <1>4, <1>5, FilesFitAsTheyDid
<1>6. CASE ~ guarded[s] /\ findings' = [findings EXCEPT ![s] = Runs!Parsed(findings[s])]
    <2>1. findings'[s] = Runs!Parsed(findings[s]) /\ \A x \in Research \ {s} : findings'[x] = findings[x]
        BY <1>1, <1>6 DEF FindShape
    <2>2. FileFits(s) /\ ~ guarded'[s]
        BY <1>1, <1>6, EachFits
    <2>3. FileFits(s)'
        BY <1>1, <2>1, <2>2, HealedFits
    <2> QED
        BY <1>1, <1>4, <2>1, <2>3, FilesFitAfter
<1> QED
    BY <1>2, <1>5, <1>6

\* A step of a save that leaves the files as they are, but for the mutex, or heals one.
LEMMA IdleSavesKeepFiles ==
    ASSUME FilesInv, NEW c \in Coordinator, UNCHANGED <<scene, coordinator, known, kept, spoiled>>,
           \A x \in Research : guarded'[x] => guarded[x],
           \A d \in Coordinator \ {c} : saving'[d] = saving[d],
           ~ saving'[c].pc \in {"append", "rewrite"},
           \/ findings' = findings
           \/ \E s \in Research : ~ guarded[s] /\ findings' = [findings EXCEPT ![s] = Runs!Parsed(findings[s])]
    PROVE  FilesFit'
<1>1. FindShape /\ FileMutex /\ FilesFit
    BY DEF FilesInv
<1>2. \A x \in Research : guarded[x] => findings'[x] = findings[x]
    BY <1>1 DEF FindShape
<1>3. ASSUME NEW d \in Coordinator PROVE SaveFits(d)' /\ RunFits(d)'
    <2>1. \A x \in Research : SaveHolds(d, x) \/ RunHolds(d, x) => findings'[x] = findings[x]
        BY <1>1, <1>2, Holders DEF SaveHolds, RunHolds
    <2>2. CASE d # c
        <3>1. SaveFits(d)'
            BY <1>1, <2>1, <2>2, EachFits, SaveStillFits
        <3> QED
            BY <1>1, <2>1, <3>1, EachFits, RunStillFits
    <2>3. CASE d = c
        <3>1. SaveFits(d)'
            BY <2>3 DEF SaveFits
        <3> QED
            BY <1>1, <2>1, <3>1, EachFits, RunStillFits
    <2> QED
        BY <2>2, <2>3
<1>4. CASE findings' = findings
    BY <1>1, <1>3, <1>4, FilesFitAsTheyDid
<1>5. ASSUME NEW s \in Research, ~ guarded[s], findings' = [findings EXCEPT ![s] = Runs!Parsed(findings[s])]
      PROVE  FilesFit'
    <2>1. findings'[s] = Runs!Parsed(findings[s]) /\ \A x \in Research \ {s} : findings'[x] = findings[x]
        BY <1>1, <1>5 DEF FindShape
    <2>2. FileFits(s) /\ ~ guarded'[s]
        BY <1>5, EachFits
    <2>3. FileFits(s)'
        BY <1>1, <2>1, <2>2, HealedFits
    <2> QED
        BY <1>1, <1>3, <2>1, <2>3, FilesFitAfter
<1> QED
    BY <1>4, <1>5

LEMMA TakeFiles ==
    ASSUME FilesInv, NEW c \in Coordinator, Runs!Take(c)
    PROVE  FilesFit'
<1>1. FindShape /\ FileMutex /\ FilesFit
    BY DEF FilesInv
<1>0. PICK s \in Research, r \in Row : s = saving[c].spec /\ r = saving[c].row
    BY <1>1, TakeShape, SavedSpec
<1>2. /\ UNCHANGED <<scene, kept, spoiled, coordinator>>
      /\ saving[c].pc = "wait" /\ ~ guarded[s]
      /\ \A d \in Coordinator \ {c} : saving'[d] = saving[d]
      /\ saving'[c].spec = s /\ saving'[c].row = r
      /\ guarded' = [guarded EXCEPT ![s] = TRUE]
      /\ known' = [known EXCEPT ![s] = Runs!KnownOf(s)]
      /\ findings' = [findings EXCEPT ![s] = findings'[s]]
      /\ findings'[s] \in {Runs!Loaded(s), Runs!Parsed(findings[s])}
      /\ \/ saving'[c].pc = "rewrite" /\ saving'[c].rest = Runs!Replaced(findings'[s], r)
         \/ saving'[c].pc = "append" /\ r.url \notin Runs!KnownOf(s)
    BY <1>0, <1>1, TakeShape
<1>3. s \in Research
    OBVIOUS
<1>4. SaveFits(c)'
    BY <1>1, <1>2, <1>3 DEF SaveFits, FindShape
<1>5. /\ known'[s] = Runs!KnownOf(s)
      /\ \A x \in Research \ {s} : findings'[x] = findings[x] /\ known'[x] = known[x] /\ (guarded'[x] => guarded[x])
    BY <1>1, <1>2, <1>3 DEF FindShape
<1>6. ASSUME NEW d \in Coordinator PROVE SaveFits(d)' /\ RunFits(d)'
    <2>1. \A x \in Research : SaveHolds(d, x) \/ RunHolds(d, x) => findings'[x] = findings[x] /\ known'[x] = known[x]
        <3>1. \A x \in Research : SaveHolds(d, x) \/ RunHolds(d, x) => x # s
            BY <1>1, <1>2, Holders DEF SaveHolds, RunHolds
        <3> QED
            BY <1>5, <3>1
    <2>2. RunFits(d)'
        BY <1>1, <1>2, <2>1, EachFits, RunStillFits
    <2>3. CASE d # c
        BY <1>1, <1>2, <2>1, <2>2, <2>3, EachFits, SaveStillFits
    <2>4. CASE d = c
        BY <1>4, <2>2, <2>4
    <2> QED
        BY <2>3, <2>4
<1>7. FileFits(s)'
    BY <1>1, <1>2, <1>3, <1>5, EachFits, LoadedFits
<1> QED
    BY <1>1, <1>2, <1>3, <1>5, <1>6, <1>7, FilesFitAfter

LEMMA LandFiles ==
    ASSUME FilesInv, NEW c \in Coordinator, Runs!Land(c)
    PROVE  FilesFit'
<1>1. FindShape /\ FileMutex /\ FilesFit /\ SaveFits(c)
    BY EachFits DEF FilesInv
<1>0. PICK s \in Research, r \in Row, f \in Seq(Row), g \in Seq(Row) :
        s = saving[c].spec /\ r = saving[c].row /\ f = findings[s] /\ g = Runs!Written(c)
    <2>1. saving[c].pc \in {"append", "rewrite"}
        BY <1>1, LandShape
    <2> QED
        BY <1>1, <2>1, SavedSpec, WrittenFile
<1>2. /\ EndsSave(c) /\ UNCHANGED spoiled
      /\ saving[c].pc \in {"append", "rewrite"}
      /\ findings' = [findings EXCEPT ![s] = g]
      /\ known' = [known EXCEPT ![s] = known[s] \cup {r.url}]
      /\ guarded' = [guarded EXCEPT ![s] = FALSE]
      /\ kept' = [kept EXCEPT ![s] = kept[s] \cup {r.url}]
    BY <1>0, <1>1, LandShape
<1>3. guarded[s]
    BY <1>0, <1>1, <1>2, Holders
<1>4. /\ Runs!Urls(f) \subseteq Runs!Urls(g)
      /\ OneRow(f) /\ (saving[c].pc = "append" => r.url \notin Runs!Urls(f)) => OneRow(g)
      /\ AllParsed(f) => AllParsed(g) /\ Runs!Urls(g) = Runs!Urls(f) \cup {r.url}
    BY <1>0, <1>1, <1>2, WrittenFile
<1>5. FileFits(s) /\ (saving[c].pc = "append" => r.url \notin known[s])
    BY <1>0, <1>1, EachFits DEF SaveFits
<1>6. /\ findings'[s] = g /\ known'[s] = known[s] \cup {r.url} /\ kept'[s] = kept[s] \cup {r.url} /\ ~ guarded'[s]
      /\ \A x \in Research \ {s} :
            findings'[x] = findings[x] /\ known'[x] = known[x] /\ kept'[x] = kept[x] /\ (guarded'[x] => guarded[x])
    BY <1>1, <1>2, <1>3 DEF FindShape
<1>7. FileFits(s)'
    BY <1>0, <1>2, <1>3, <1>4, <1>5, <1>6 DEF FileFits
<1>8. ASSUME NEW d \in Coordinator PROVE SaveFits(d)' /\ RunFits(d)'
    <2>1. \A x \in Research : (d # c /\ SaveHolds(d, x)) \/ RunHolds(d, x) => findings'[x] = findings[x] /\ known'[x] = known[x]
        BY <1>0, <1>1, <1>2, <1>6, OneHolder
    <2>2. RunFits(d)'
        BY <1>1, <1>2, <2>1, EachFits, RunStillFits DEF EndsSave
    <2>3. CASE d # c
        BY <1>1, <1>2, <2>1, <2>2, <2>3, EachFits, SaveStillFits DEF EndsSave
    <2>4. CASE d = c
        BY <1>2, <2>2, <2>4 DEF EndsSave, SaveFits
    <2> QED
        BY <2>3, <2>4
<1> QED
    BY <1>1, <1>2, <1>3, <1>6, <1>7, <1>8, FilesFitAfter

\* A write of a save that is not noted spoils the file.
LEMMA SpoilsFile ==
    ASSUME FilesInv, NEW c \in Coordinator, EndsSave(c), saving[c].pc \in {"append", "rewrite"},
           NEW g, findings' = [findings EXCEPT ![saving[c].spec] = g], spoiled' = spoiled \cup {saving[c].spec},
           UNCHANGED <<known, kept>>, \A x \in Research : guarded'[x] => guarded[x]
    PROVE  FilesFit'
<1>1. FindShape /\ FileMutex /\ FilesFit
    BY DEF FilesInv
<1>0. PICK s \in Research : s = saving[c].spec
    BY <1>1, SavedSpec
<1>2. \A x \in Research \ {s} : findings'[x] = findings[x]
    BY <1>0
<1>3. ASSUME NEW d \in Coordinator PROVE SaveFits(d)' /\ RunFits(d)'
    <2>1. \A x \in Research : (d # c /\ SaveHolds(d, x)) \/ RunHolds(d, x) => findings'[x] = findings[x] /\ known'[x] = known[x]
        BY <1>0, <1>1, <1>2, OneHolder
    <2>2. RunFits(d)'
        BY <1>1, <2>1, EachFits, RunStillFits DEF EndsSave
    <2>3. CASE d # c
        BY <1>1, <2>1, <2>2, <2>3, EachFits, SaveStillFits DEF EndsSave
    <2>4. CASE d = c
        BY <2>2, <2>4 DEF EndsSave, SaveFits
    <2> QED
        BY <2>3, <2>4
<1>4. FileFits(s)' /\ \A x \in Research : x \in spoiled => x \in spoiled'
    BY <1>0 DEF FileFits
<1> QED
    BY <1>1, <1>2, <1>3, <1>4, FilesFitAfter

LEMMA RemoveDeadFiles ==
    ASSUME FilesInv, NEW c \in Coordinator, Runs!RemoveDead(c)
    PROVE  FilesFit'
<1>1. FindShape /\ FileMutex /\ FilesFit
    BY DEF FilesInv
<1>0. PICK s \in Research : s = Runs!Study(c)
    BY <1>1, RemoveDeadShape
<1>2. /\ WritesOn(c) /\ UNCHANGED <<kept, spoiled>>
      /\ coordinator[c].pc = "remove" /\ ~ guarded[s]
      /\ known' = [known EXCEPT ![s] = Runs!KnownOf(s)]
      /\ findings' = [findings EXCEPT ![s] = Runs!Loaded(s)]
      /\ guarded' = guarded \/ guarded' = [guarded EXCEPT ![s] = TRUE]
      /\ coordinator'[c].pc = "rename" =>
            coordinator'[c].rest = Runs!Cleared(Runs!Loaded(s), coordinator'[c].dead)
    BY <1>0, <1>1, RemoveDeadShape DEF Runs!Decided
<1>3. /\ known'[s] = Runs!KnownOf(s) /\ findings'[s] = Runs!Loaded(s)
      /\ \A x \in Research \ {s} : findings'[x] = findings[x] /\ known'[x] = known[x] /\ (guarded'[x] => guarded[x])
      /\ \A d \in Coordinator \ {c} : coordinator'[d] = coordinator[d]
    BY <1>1, <1>2 DEF FindShape, WritesOn
<1>4. ASSUME NEW d \in Coordinator PROVE SaveFits(d)' /\ RunFits(d)'
    <2>1. \A x \in Research : SaveHolds(d, x) \/ RunHolds(d, x) => findings'[x] = findings[x] /\ known'[x] = known[x]
        <3>1. \A x \in Research : SaveHolds(d, x) \/ RunHolds(d, x) => x # s
            BY <1>1, <1>2, Holders DEF SaveHolds, RunHolds
        <3> QED
            BY <1>3, <3>1
    <2>2. SaveFits(d)'
        BY <1>1, <1>2, <2>1, EachFits, SaveStillFits DEF WritesOn
    <2>3. CASE d # c
        BY <1>1, <1>2, <1>3, <2>1, <2>2, <2>3, EachFits, RunStillFits DEF WritesOn
    <2>4. CASE d = c
        BY <1>0, <1>2, <1>3, <2>2, <2>4 DEF RunFits, WritesOn, Runs!Study
    <2> QED
        BY <2>3, <2>4
<1>5. FileFits(s)'
    BY <1>1, <1>2, <1>3, EachFits, LoadedFits
<1> QED
    BY <1>1, <1>2, <1>3, <1>4, <1>5, FilesFitAfter

LEMMA RenameFiles ==
    ASSUME FilesInv, NEW c \in Coordinator, Runs!Rename(c)
    PROVE  FilesFit'
<1>1. FindShape /\ FileMutex /\ FilesFit /\ RunFits(c)
    BY EachFits DEF FilesInv
<1>0. PICK s \in Research, f \in Seq(Row), g \in Seq(Row), gone \in SUBSET Url :
        s = Runs!Study(c) /\ f = findings[s] /\ g = coordinator[c].rest /\ gone = coordinator[c].dead
    <2>1. coordinator[c].pc = "rename"
        BY <1>1, RenameShape
    <2> QED
        BY <1>1, <2>1, ClearedFile
<1>2. /\ WritesOn(c) /\ UNCHANGED spoiled /\ coordinator[c].pc = "rename"
      /\ findings' = [findings EXCEPT ![s] = g]
      /\ known' = [known EXCEPT ![s] = known[s] \ gone]
      /\ kept' = [kept EXCEPT ![s] = kept[s] \ gone]
      /\ guarded' = [guarded EXCEPT ![s] = FALSE]
      /\ coordinator'[c].pc # "rename"
    BY <1>0, <1>1, RenameShape DEF Runs!Decided
<1>3. guarded[s] /\ FileFits(s)
    BY <1>0, <1>1, <1>2, Holders, EachFits
<1>4. /\ Runs!Urls(g) = Runs!Urls(f) \ gone
      /\ (AllParsed(f) => AllParsed(g)) /\ (OneRow(f) => OneRow(g))
    BY <1>0, <1>1, <1>2, ClearedFile
<1>5. /\ findings'[s] = g /\ known'[s] = known[s] \ gone /\ kept'[s] = kept[s] \ gone /\ ~ guarded'[s]
      /\ \A x \in Research \ {s} :
            findings'[x] = findings[x] /\ known'[x] = known[x] /\ kept'[x] = kept[x] /\ (guarded'[x] => guarded[x])
      /\ \A d \in Coordinator \ {c} : coordinator'[d] = coordinator[d]
    BY <1>1, <1>2 DEF FindShape, WritesOn
<1>6. FileFits(s)'
    BY <1>0, <1>2, <1>3, <1>4, <1>5 DEF FileFits
<1>7. ASSUME NEW d \in Coordinator PROVE SaveFits(d)' /\ RunFits(d)'
    <2>1. \A x \in Research : SaveHolds(d, x) \/ (d # c /\ RunHolds(d, x)) => findings'[x] = findings[x] /\ known'[x] = known[x]
        BY <1>0, <1>1, <1>2, <1>5, OneHolder
    <2>2. SaveFits(d)'
        BY <1>1, <1>2, <2>1, EachFits, SaveStillFits DEF WritesOn
    <2>3. CASE d # c
        BY <1>1, <1>2, <1>5, <2>1, <2>2, <2>3, EachFits, RunStillFits DEF WritesOn
    <2>4. CASE d = c
        BY <1>2, <2>2, <2>4 DEF RunFits
    <2> QED
        BY <2>3, <2>4
<1> QED
    BY <1>1, <1>2, <1>5, <1>6, <1>7, FilesFitAfter

LEMMA RenameFailsFiles ==
    ASSUME FilesInv, NEW c \in Coordinator, Runs!RenameFails(c)
    PROVE  FilesFit'
<1>1. FindShape /\ FileMutex /\ FilesFit
    BY DEF FilesInv
<1>2. /\ WritesOn(c) /\ UNCHANGED <<findings, known, kept, spoiled>> /\ Runs!Study(c) \in Research
      /\ guarded' = [guarded EXCEPT ![Runs!Study(c)] = FALSE]
      /\ coordinator'[c].pc # "rename"
    BY <1>1, RenameFailsShape DEF Runs!Decided
<1>3. /\ \A x \in Research : guarded'[x] => guarded[x]
      /\ \A d \in Coordinator \ {c} : coordinator'[d] = coordinator[d]
    BY <1>1, <1>2 DEF FindShape, WritesOn
<1>4. ASSUME NEW d \in Coordinator PROVE SaveFits(d)' /\ RunFits(d)'
    <2>1. SaveFits(d)'
        BY <1>1, <1>2, EachFits, SaveStillFits DEF WritesOn
    <2>2. RunFits(d)'
        BY <1>1, <1>2, <1>3, EachFits, RunStillFits DEF WritesOn
    <2> QED
        BY <2>1, <2>2
<1> QED
    BY <1>1, <1>2, <1>3, <1>4, FilesFitAsTheyDid

LEMMA HardAbortFiles ==
    ASSUME FilesInv, NEW c \in Coordinator, Runs!HardAbort(c)
    PROVE  FilesFit'
<1>1. FindShape /\ FileMutex /\ FilesFit /\ RunFits(c)
    BY EachFits DEF FilesInv
<1>0. PICK s \in Research : s = Runs!Study(c)
    BY <1>1, HardAbortShape
<1>2. /\ WritesOn(c) /\ UNCHANGED <<known, kept>> /\ coordinator'[c].pc = "dropped"
      /\ \A x \in Research : guarded'[x] => guarded[x]
      /\ \/ UNCHANGED <<findings, spoiled>>
         \/ /\ coordinator[c].pc = "rename" /\ spoiled' = spoiled \cup {s}
            /\ findings' = findings \/ findings' = [findings EXCEPT ![s] = coordinator[c].rest]
    BY <1>0, <1>1, HardAbortShape
<1>3. /\ \A x \in Research \ {s} : findings'[x] = findings[x]
      /\ \A d \in Coordinator \ {c} : coordinator'[d] = coordinator[d]
    BY <1>1, <1>2 DEF FindShape, WritesOn
<1>4. ASSUME NEW d \in Coordinator PROVE SaveFits(d)' /\ RunFits(d)'
    <2>1. \A x \in Research : SaveHolds(d, x) \/ (d # c /\ RunHolds(d, x)) => findings'[x] = findings[x] /\ known'[x] = known[x]
        BY <1>0, <1>1, <1>2, <1>3, OneHolder
    <2>2. SaveFits(d)'
        BY <1>1, <1>2, <2>1, EachFits, SaveStillFits DEF WritesOn
    <2>3. CASE d # c
        BY <1>1, <1>2, <1>3, <2>1, <2>2, <2>3, EachFits, RunStillFits DEF WritesOn
    <2>4. CASE d = c
        BY <1>2, <2>2, <2>4 DEF RunFits
    <2> QED
        BY <2>3, <2>4
<1>5. CASE UNCHANGED <<findings, spoiled>>
    BY <1>1, <1>2, <1>4, <1>5, FilesFitAsTheyDid
<1>6. CASE spoiled' = spoiled \cup {s}
    <2>1. FileFits(s)' /\ \A x \in Research : x \in spoiled => x \in spoiled'
        BY <1>6 DEF FileFits
    <2> QED
        BY <1>1, <1>2, <1>3, <1>4, <2>1, FilesFitAfter
<1> QED
    BY <1>2, <1>5, <1>6

\* Whatever a crash leaves of a write, what was kept is there.
LEMMA CrashFiles ==
    ASSUME FilesInv, Runs!Crash
    PROVE  FilesFit'
<1>1. FindShape /\ FileMutex /\ FilesFit /\ \A c \in Coordinator : SaveFits(c) /\ RunFits(c)
    BY EachFits DEF FilesInv
<1>2. /\ UNCHANGED spoiled
      /\ \A x \in Research : known'[x] = {} /\ ~ guarded'[x]
      /\ \A d \in Coordinator : coordinator'[d].pc # "rename" /\ saving'[d].pc = "idle"
    <2>1. /\ UNCHANGED <<scene, spoiled, finds>>
          /\ known' = [s \in Research |-> {}] /\ guarded' = [s \in Research |-> FALSE]
          /\ \A c \in Coordinator :
               coordinator'[c].pc \in {"queued", "over", "dropped"} /\ finder'[c] # "on" /\ saving'[c].pc = "idle"
        BY <1>1, CrashShape
    <2> QED
        BY <2>1
<1>3. \A d \in Coordinator : SaveFits(d)' /\ RunFits(d)'
    BY <1>2 DEF SaveFits, RunFits
<1>4. PICK s \in Research : \E file \in Runs!AfterCrash(s) :
               /\ file \in Seq(Row) /\ findings' = [findings EXCEPT ![s] = file]
               /\ kept' = [kept EXCEPT ![s] =
                      @ \ UNION {coordinator[c].dead : c \in {d \in Runs!Removers(s) : coordinator[d].rest = file}}]
    BY <1>1, CrashShape
<1>5. PICK file \in Runs!AfterCrash(s) :
               /\ file \in Seq(Row) /\ findings' = [findings EXCEPT ![s] = file]
               /\ kept' = [kept EXCEPT ![s] =
                      @ \ UNION {coordinator[c].dead : c \in {d \in Runs!Removers(s) : coordinator[d].rest = file}}]
    BY <1>4
<1>6. /\ findings'[s] = file
      /\ kept'[s] = kept[s] \ UNION {coordinator[c].dead : c \in {d \in Runs!Removers(s) : coordinator[d].rest = file}}
      /\ \A x \in Research \ {s} : findings'[x] = findings[x] /\ kept'[x] = kept[x]
    BY <1>1, <1>5 DEF FindShape
<1>7. findings[s] \in Seq(Row) /\ FileFits(s)
    BY <1>1, EachFits DEF FindShape
<1>8. s \notin spoiled => OneRow(file) /\ kept'[s] \subseteq Runs!Urls(file)
    <2> SUFFICES ASSUME s \notin spoiled PROVE OneRow(file) /\ kept'[s] \subseteq Runs!Urls(file)
        OBVIOUS
    <2> DEFINE f == findings[s]
    <2>1. /\ OneRow(f) /\ kept[s] \subseteq Runs!Urls(f) /\ kept'[s] \subseteq kept[s]
          /\ guarded[s] => AllParsed(f) /\ known[s] = Runs!Urls(f)
        BY <1>6, <1>7 DEF FileFits
    <2>2. CASE file = f
        BY <2>1, <2>2
    <2>3. ASSUME NEW c \in Coordinator, SaveHolds(c, s), file = Runs!Written(c)
          PROVE  OneRow(file) /\ Runs!Urls(f) \subseteq Runs!Urls(file)
        <3>1. saving[c].pc \in {"append", "rewrite"} /\ saving[c].spec = s /\ SaveFits(c)
            BY <1>1, <2>3 DEF SaveHolds
        <3>2. guarded[s]
            BY <1>1, <3>1, Holders
        <3>3. /\ Runs!Urls(f) \subseteq Runs!Urls(file)
              /\ OneRow(f) /\ (saving[c].pc = "append" => saving[c].row.url \notin Runs!Urls(f)) => OneRow(file)
            BY <1>1, <2>3, <3>1, WrittenFile
        <3> QED
            BY <2>1, <3>1, <3>2, <3>3 DEF SaveFits
    <2>4. ASSUME file = Runs!Appended(f, Runs!Torn)
          PROVE  OneRow(file) /\ Runs!Urls(f) \subseteq Runs!Urls(file)
        <3>1. f \in Seq(Row) /\ Runs!Torn \in Row /\ Runs!Torn.url = None
            BY <1>7, LinesAreRows
        <3>2. Runs!Torn.url \notin Runs!Urls(f)
            BY <3>1, UrlsOfRows, RunsNumbers
        <3> HIDE DEF f
        <3> QED
            BY <2>1, <2>4, <3>1, <3>2, AppendedRows
    <2>5. ASSUME NEW c \in Coordinator, RunHolds(c, s), file = coordinator[c].rest
          PROVE  OneRow(file) /\ kept'[s] \subseteq Runs!Urls(file)
        <3>1. coordinator[c].pc = "rename" /\ Runs!Study(c) = s /\ RunFits(c)
            BY <1>1, <2>5 DEF RunHolds
        <3>2. Runs!Urls(file) = Runs!Urls(f) \ coordinator[c].dead /\ (OneRow(f) => OneRow(file))
            BY <1>1, <2>5, <3>1, ClearedFile
        <3>3. c \in {d \in Runs!Removers(s) : coordinator[d].rest = file}
            BY <2>5, <3>1 DEF Runs!Removers, Runs!At
        <3>4. kept'[s] \cap coordinator[c].dead = {}
            BY <1>6, <3>3
        <3> QED
            BY <2>1, <3>2, <3>4
    <2> QED
        BY <1>1, <2>1, <2>2, <2>3, <2>4, <2>5, CrashedFile
<1>9. FileFits(s)'
    BY <1>2, <1>6, <1>8 DEF FileFits
<1>10. ASSUME NEW x \in Research \ {s} PROVE FileFits(x)'
    BY <1>2, <1>6, <1>10, EachFits DEF FileFits
<1>11. \A x \in Research : FileFits(x)'
    BY <1>9, <1>10
<1> QED
    BY <1>3, <1>11 DEF FilesFit

LEMMA FilesBegin == Runs!Init => FilesInv
BY FindShapeBegins, FileMutexBegins, FilesFitBegin DEF FilesInv

LEMMA FilesSave ==
    ASSUME FilesInv, RunsInv, NEW c \in Coordinator,
           \/ Runs!Take(c) \/ Runs!Land(c) \/ Runs!Tell(c) \/ Runs!StopAgent(c)
           \/ Runs!BeginSave(c) \/ Runs!AgentEnds(c) \/ Runs!FailSave(c)
    PROVE  FilesInv'
<1>0. FindShape /\ FileMutex /\ SaveFits(c)
    BY EachFits DEF FilesInv
<1>1. CASE Runs!Take(c)
    BY <1>0, <1>1, TakeShape, TakeMutex, TakeFiles DEF FilesInv
<1>2. CASE Runs!Land(c)
    <2> DEFINE s == saving[c].spec
    <2>1. /\ FindShape' /\ EndsSave(c) /\ saving[c].pc \in {"append", "rewrite"}
          /\ guarded' = [guarded EXCEPT ![s] = FALSE]
        BY <1>0, <1>2, LandShape
    <2>2. \A x \in Research : guarded'[x] <=> guarded[x] /\ x # s
        BY <1>0, <2>1 DEF FindShape
    <2>3. FileMutex'
        BY <1>0, <2>1, <2>2, SaveFreesMutex
    <2> QED
        BY <1>2, <2>1, <2>3, LandFiles DEF FilesInv
<1>3. CASE Runs!Tell(c)
    <2>1. /\ FindShape' /\ EndsSave(c) /\ UNCHANGED <<known, guarded, kept, spoiled>>
          /\ saving[c].pc = "tell" /\ saving'[c].pc = "idle" /\ ~ guarded[saving[c].spec]
          /\ findings' = [findings EXCEPT ![saving[c].spec] = Runs!Parsed(findings[saving[c].spec])]
          /\ saving[c].spec \in Research
        BY <1>0, <1>3, TellShape, SavedSpec
    <2>2. FileMutex'
        BY <1>0, <2>1, SavesKeepMutex DEF EndsSave
    <2>3. FilesFit'
        BY <2>1, IdleSavesKeepFiles DEF EndsSave
    <2> QED
        BY <2>1, <2>2, <2>3 DEF FilesInv
<1>4. CASE Runs!StopAgent(c)
    <2> DEFINE s == saving[c].spec
               handed == saving[c].pc \in {"append", "rewrite"}
    <2>1. /\ FindShape' /\ EndsSave(c) /\ UNCHANGED <<known, kept>> /\ saving'[c].pc = "idle"
          /\ \A x \in Research : guarded'[x] <=> guarded[x] /\ ~ (handed /\ x = s)
          /\ findings' = findings \/ (handed /\ findings' = [findings EXCEPT ![s] = Runs!Written(c)])
          /\ spoiled' = IF handed THEN spoiled \cup {s} ELSE spoiled
        BY <1>0, <1>4, StopAgentShape
    <2>2. CASE handed
        <3>1. FileMutex'
            BY <1>0, <2>1, <2>2, SaveFreesMutex
        <3>2. \E g : findings' = [findings EXCEPT ![s] = g]
            <4>1. findings = [findings EXCEPT ![s] = findings[s]]
                BY <1>0 DEF FindShape
            <4> QED
                BY <2>1, <4>1
        <3>3. FilesFit'
            BY <2>1, <2>2, <3>2, SpoilsFile
        <3> QED
            BY <2>1, <3>1, <3>3 DEF FilesInv
    <2>3. CASE ~ handed
        <3>1. FileMutex'
            BY <1>0, <2>1, <2>3, SavesKeepMutex DEF EndsSave
        <3>2. FilesFit'
            BY <2>1, <2>3, IdleSavesKeepFiles DEF EndsSave
        <3> QED
            BY <2>1, <3>1, <3>2 DEF FilesInv
    <2> QED
        BY <2>2, <2>3
<1>5. CASE Runs!BeginSave(c)
    <2>1. /\ FindShape'
          /\ UNCHANGED <<scene, findings, known, guarded, kept, spoiled, context, coordinator, finder>>
          /\ saving[c].pc = "idle" /\ \A d \in Coordinator \ {c} : saving'[d] = saving[d]
          /\ saving'[c].pc = "wait"
        BY <1>0, <1>5, BeginSaveShape
    <2>2. FileMutex'
        BY <1>0, <2>1, SavesKeepMutex
    <2>3. FilesFit'
        BY <2>1, IdleSavesKeepFiles
    <2> QED
        BY <2>1, <2>2, <2>3 DEF FilesInv
<1>6. CASE Runs!AgentEnds(c)
    <2>1. FindShape' /\ EndsSave(c) /\ UNCHANGED <<findings, known, guarded, kept, spoiled, saving>>
        BY <1>0, <1>6, AgentEndsShape
    <2>2. ~ saving'[c].pc \in {"append", "rewrite"} /\ ~ saving[c].pc \in {"append", "rewrite"}
        BY <2>1 DEF EndsSave
    <2>3. FileMutex'
        BY <1>0, <2>1, <2>2, SavesKeepMutex DEF EndsSave
    <2>4. FilesFit'
        BY <2>1, <2>2, IdleSavesKeepFiles DEF EndsSave
    <2> QED
        BY <2>1, <2>3, <2>4 DEF FilesInv
<1>7. CASE Runs!FailSave(c)
    <2> DEFINE s == saving[c].spec
    <2>1. /\ FindShape' /\ EndsSave(c) /\ UNCHANGED <<known, kept>>
          /\ saving[c].pc \in {"append", "rewrite"} /\ saving'[c].pc = "idle"
          /\ guarded' = [guarded EXCEPT ![s] = FALSE]
          /\ \/ findings' = [findings EXCEPT ![s] = Runs!Appended(findings[s], Runs!Torn)] /\ spoiled' = spoiled \cup {s}
             \/ UNCHANGED <<findings, spoiled>>
        BY <1>0, <1>7, FailSaveShape
    <2>2. \A x \in Research : guarded'[x] <=> guarded[x] /\ x # s
        BY <1>0, <2>1 DEF FindShape
    <2>3. FileMutex'
        BY <1>0, <2>1, <2>2, SaveFreesMutex
    <2>4. FilesFit'
        <3>1. CASE findings' = [findings EXCEPT ![s] = Runs!Appended(findings[s], Runs!Torn)] /\ spoiled' = spoiled \cup {s}
            BY <2>1, <2>2, <3>1, SpoilsFile
        <3>2. CASE UNCHANGED <<findings, spoiled>>
            BY <2>1, <2>2, <3>2, IdleSavesKeepFiles DEF EndsSave
        <3> QED
            BY <2>1, <3>1, <3>2
    <2> QED
        BY <2>1, <2>3, <2>4 DEF FilesInv
<1> QED
    BY <1>1, <1>2, <1>3, <1>4, <1>5, <1>6, <1>7

LEMMA FilesMoves ==
    ASSUME FilesInv, NEW c \in Coordinator, MovesOn(c), finds' = finds
    PROVE  FilesInv'
<1>1. FindShape /\ FileMutex /\ finds' \in Nat
    BY DEF FilesInv, FindShape
<1> QED
    BY <1>1, MovesKeepShape, MovesKeepMutex, MovesKeepFiles DEF FilesInv

LEMMA FilesRemove ==
    ASSUME FilesInv, NEW c \in Coordinator,
           \/ Runs!RemoveDead(c) \/ Runs!Rename(c) \/ Runs!RenameFails(c) \/ Runs!HardAbort(c)
    PROVE  FilesInv'
<1>0. FindShape /\ FileMutex /\ RunFits(c)
    BY EachFits DEF FilesInv
<1> DEFINE s == Runs!Study(c)
<1>1. CASE Runs!RemoveDead(c)
    <2>1. /\ FindShape' /\ WritesOn(c) /\ coordinator[c].pc = "remove" /\ ~ guarded[s]
          /\ \/ guarded' = guarded /\ coordinator'[c].pc # "rename"
             \/ guarded' = [guarded EXCEPT ![s] = TRUE] /\ coordinator'[c].pc = "rename"
        BY <1>0, <1>1, RemoveDeadShape DEF Runs!Decided
    <2>2. FileMutex'
        <3>1. CASE guarded' = guarded /\ coordinator'[c].pc # "rename"
            BY <1>0, <2>1, <3>1, RemovalsKeepMutex
        <3>2. CASE guarded' = [guarded EXCEPT ![s] = TRUE] /\ coordinator'[c].pc = "rename"
            BY <1>0, <2>1, <3>2, RemovalTakesMutex
        <3> QED
            BY <2>1, <3>1, <3>2
    <2> QED
        BY <1>1, <2>1, <2>2, RemoveDeadFiles DEF FilesInv
<1>2. CASE Runs!Rename(c)
    <2>1. /\ FindShape' /\ WritesOn(c) /\ coordinator[c].pc = "rename" /\ coordinator'[c].pc # "rename"
          /\ guarded' = [guarded EXCEPT ![s] = FALSE]
        BY <1>0, <1>2, RenameShape DEF Runs!Decided
    <2>2. \A x \in Research : guarded'[x] <=> guarded[x] /\ x # s
        BY <1>0, <2>1 DEF FindShape
    <2>3. FileMutex'
        BY <1>0, <2>1, <2>2, RemovalFreesMutex
    <2> QED
        BY <1>2, <2>1, <2>3, RenameFiles DEF FilesInv
<1>3. CASE Runs!RenameFails(c)
    <2>1. /\ FindShape' /\ WritesOn(c) /\ coordinator[c].pc = "rename" /\ coordinator'[c].pc # "rename"
          /\ guarded' = [guarded EXCEPT ![s] = FALSE]
        BY <1>0, <1>3, RenameFailsShape DEF Runs!Decided
    <2>2. \A x \in Research : guarded'[x] <=> guarded[x] /\ x # s
        BY <1>0, <2>1 DEF FindShape
    <2>3. FileMutex'
        BY <1>0, <2>1, <2>2, RemovalFreesMutex
    <2> QED
        BY <1>3, <2>1, <2>3, RenameFailsFiles DEF FilesInv
<1>4. CASE Runs!HardAbort(c)
    <2> DEFINE renames == coordinator[c].pc = "rename"
    <2>1. /\ FindShape' /\ WritesOn(c) /\ coordinator'[c].pc = "dropped"
          /\ \A x \in Research : guarded'[x] <=> guarded[x] /\ ~ (renames /\ x = s)
        BY <1>0, <1>4, HardAbortShape
    <2>2. FileMutex'
        <3>1. CASE renames
            BY <1>0, <2>1, <3>1, RemovalFreesMutex
        <3>2. CASE ~ renames
            BY <1>0, <2>1, <3>2, RemovalsKeepMutex
        <3> QED
            BY <3>1, <3>2
    <2> QED
        BY <1>4, <2>1, <2>2, HardAbortFiles DEF FilesInv
<1> QED
    BY <1>1, <1>2, <1>3, <1>4

LEMMA FilesCrash == FilesInv /\ Runs!Crash => FilesInv'
<1> SUFFICES ASSUME FilesInv, Runs!Crash PROVE FilesInv'
    OBVIOUS
<1>1. FindShape /\ \A c \in Coordinator : SaveFits(c) /\ RunFits(c)
    BY EachFits DEF FilesInv
<1> QED
    BY <1>1, CrashShape, CrashMutex, CrashFiles DEF FilesInv

LEMMA FilesStep == FilesInv /\ RunsInv /\ Runs!Next => FilesInv'
<1> SUFFICES ASSUME FilesInv, RunsInv, Runs!Next PROVE FilesInv'
    OBVIOUS
<1>0. FindShape
    BY DEF FilesInv
<1>1. CASE Runs!Crash
    BY <1>1, FilesCrash
<1>2. ASSUME NEW c \in Coordinator,
             \/ Runs!Take(c) \/ Runs!Land(c) \/ Runs!Tell(c) \/ Runs!StopAgent(c)
             \/ Runs!BeginSave(c) \/ Runs!AgentEnds(c) \/ Runs!FailSave(c)
      PROVE  FilesInv'
    BY <1>2, FilesSave
<1>3. ASSUME NEW c \in Coordinator,
             \/ Runs!Acquire(c) \/ Runs!Paused(c) \/ Runs!Open(c) \/ Runs!Launch(c) \/ Runs!Refused(c)
             \/ Runs!Drained(c) \/ Runs!Wall(c) \/ Runs!Record(c) \/ Runs!Cleanup(c)
             \/ Runs!Judge(c) \/ Runs!Final(c) \/ Runs!Cancel(c)
      PROVE  FilesInv'
    <2>1. MovesOn(c)
        BY <1>0, <1>3, CoordinatorMoves
    <2> QED
        BY <2>1, FilesMoves DEF MovesOn
<1>4. ASSUME NEW c \in Coordinator,
             \/ Runs!RemoveDead(c) \/ Runs!Rename(c) \/ Runs!RenameFails(c) \/ Runs!HardAbort(c)
      PROVE  FilesInv'
    BY <1>4, FilesRemove
<1> QED
    BY <1>1, <1>2, <1>3, <1>4, Zenon DEF Runs!Next, Runs!Progress

LEMMA FilesHoldRows ==
    ASSUME FilesInv
    PROVE  Runs!FindingsKept /\ Runs!OneRowEach /\ Runs!TypeOK
<1>1. FindShape /\ FileMutex
    BY DEF FilesInv
<1>2. Runs!FindingsKept /\ Runs!OneRowEach
    BY EachFits DEF FileFits, OneRow, Runs!FindingsKept, Runs!OneRowEach
<1>3. \A s \in Research : guarded[s] <=> Runs!Savers(s) \cup Runs!Removers(s) # {}
    <2> SUFFICES ASSUME NEW s \in Research PROVE guarded[s] <=> Runs!Savers(s) \cup Runs!Removers(s) # {}
        OBVIOUS
    <2>1. \A c \in Coordinator : c \in Runs!Savers(s) <=> Holds(c, "save", s)
        BY DEF Runs!Savers, Holds, SaveHolds
    <2>2. \A c \in Coordinator : c \in Runs!Removers(s) <=> Holds(c, "removal", s)
        BY DEF Runs!Removers, Holds, RunHolds, Runs!At
    <2>3. guarded[s] <=> \E c \in Coordinator : Holds(c, "save", s) \/ Holds(c, "removal", s)
        BY <1>1, Zenon DEF FileMutex, Hands
    <2>4. Runs!Savers(s) \subseteq Coordinator /\ Runs!Removers(s) \subseteq Coordinator
        BY DEF Runs!Savers, Runs!Removers
    <2> QED
        BY <2>1, <2>2, <2>3, <2>4
<1>4. context \in Coordinator \cup {None} /\ \A s \in Research : known[s] \subseteq Url /\ kept[s] \subseteq Url
    BY <1>1, TheScene DEF FindShape
<1> QED
    BY <1>2, <1>3, <1>4 DEF Runs!TypeOK

-----------------------------------------------------------------------------

LEMMA OwnBegins == Runs!Init => OwnInv
<1> SUFFICES ASSUME Runs!Init PROVE OwnInv
    OBVIOUS
<1>1. \A c \in Coordinator : /\ saving[c].pc = "idle" /\ coordinator[c].pc \in {"queued", "over"}
                             /\ finder[c] = "none"
    BY DEF Runs!Init, Runs!NoSave, Runs!Queued
<1>2. Runs!Holding = {}
    BY <1>1 DEF Runs!Holding
<1>3. ASSUME NEW s \in Research PROVE RowsOwn(findings[s], s)
    <2>1. findings[s] = <<Runs!Earlier(scene.earlier)>> /\ Runs!Earlier(scene.earlier).by = None
        BY <1>3 DEF Runs!Init, Runs!Earlier
    <2> QED
        BY <2>1, RunsNumbers DEF RowsOwn
<1> QED
    BY <1>1, <1>2, <1>3 DEF OwnInv, OneRunAtATime, ContextFits, RowsFit

LEMMA OneRunStill ==
    ASSUME OneRunAtATime, scene' = scene,
           \A d \in Coordinator : d \in Runs!Holding' => d \in Runs!Holding
    PROVE  OneRunAtATime'
<1>1. Runs!Holding' \subseteq Coordinator
    BY DEF Runs!Holding
<1> HIDE DEF Runs!Holding
<1> QED
    BY <1>1 DEF OneRunAtATime

\* An agent that is on belongs to the run that the context names.
LEMMA ContextStill ==
    ASSUME ContextFits, OneRunAtATime, RunsInv', UNCHANGED <<scene, context>>,
           \A d \in Coordinator : finder'[d] = "on" => finder[d] = "on",
           \A d \in Coordinator : coordinator'[d].pc = "dropped" => coordinator[d].pc = "dropped" \/ scene.hard
    PROVE  ContextFits'
<1> SUFFICES ASSUME OneByOne', NEW d \in Coordinator, finder'[d] = "on" PROVE context' = d /\ d \in Runs!Holding'
    BY DEF ContextFits
<1>1. OneByOne /\ finder[d] = "on" /\ context = d /\ d \in Runs!Holding
    BY DEF OneByOne, ContextFits
<1>2. coordinator'[d].pc \notin {"queued", "over", "dropped"}
    BY <1>1 DEF RunsInv, CleansUp, OneByOne, Runs!Holding
<1> QED
    BY <1>1, <1>2 DEF Runs!Holding

\* A step that sets the context or clears it is one of the run whose agent may be on.
LEMMA ContextSet ==
    ASSUME ContextFits, OneRunAtATime, RunsInv', scene' = scene, NEW c \in Coordinator, c \in Runs!Holding,
           \A d \in Coordinator \ {c} : finder'[d] = finder[d],
           finder'[c] = "on" => context' = c,
           coordinator'[c].pc # "dropped"
    PROVE  ContextFits'
<1> SUFFICES ASSUME OneByOne', NEW d \in Coordinator, finder'[d] = "on" PROVE context' = d /\ d \in Runs!Holding'
    BY DEF ContextFits
<1>1. OneByOne /\ scene.permits = 1
    BY DEF OneByOne
<1>2. d = c
    <2> SUFFICES ASSUME d # c PROVE FALSE
        OBVIOUS
    <2>1. finder[d] = "on" /\ d \in Runs!Holding
        BY <1>1 DEF ContextFits
    <2> QED
        BY <1>1, <2>1 DEF OneRunAtATime
<1>3. coordinator'[d].pc \notin {"queued", "over", "dropped"}
    BY <1>2 DEF RunsInv, CleansUp
<1> QED
    BY <1>2, <1>3 DEF Runs!Holding

\* The rows of a file that is written are old ones, lines that do not parse, or the row of
\* a save that is at home there.
LEMMA RowsOwnAfter ==
    ASSUME NEW s, NEW f, RowsOwn(f, s), NEW g,
           \A k \in DOMAIN g :
               \/ g[k].by \notin Coordinator
               \/ Runs!Study(g[k].by) = s
               \/ \E i \in DOMAIN f : g[k] = f[i]
    PROVE  RowsOwn(g, s)
BY DEF RowsOwn

LEMMA RowsStill ==
    ASSUME RowsFit, scene' = scene,
           scene.explicit \/ OneByOne =>
               \A s \in Research : findings'[s] = findings[s] \/ RowsOwn(findings'[s], s),
           scene.explicit \/ OneByOne =>
               \A d \in Coordinator : saving'[d].pc # "idle" =>
                   \/ saving[d].pc # "idle" /\ saving'[d].spec = saving[d].spec
                   \/ saving'[d].spec = Runs!Study(d)
    PROVE  RowsFit'
<1> SUFFICES ASSUME scene.explicit \/ OneByOne
             PROVE  /\ \A s \in Research : RowsOwn(findings[s], s)'
                    /\ \A c \in Coordinator : saving'[c].pc # "idle" => saving'[c].spec = Runs!Study(c)'
    BY DEF RowsFit, OneByOne
<1>1. /\ \A s \in Research : RowsOwn(findings[s], s)
      /\ \A c \in Coordinator : saving[c].pc # "idle" => saving[c].spec = Runs!Study(c)
    BY DEF RowsFit
<1>2. \A c : Runs!Study(c)' = Runs!Study(c)
    BY DEF Runs!Study
<1>3. \A s \in Research : RowsOwn(findings'[s], s)
    BY <1>1
<1> QED
    BY <1>1, <1>2, <1>3 DEF RowsOwn

LEMMA JudgeShape ==
    ASSUME FindShape, NEW c \in Coordinator, Runs!Judge(c)
    PROVE  LET C == coordinator[c]
               D == coordinator'[c] IN
           /\ C.pc = "judge" /\ D.pc \in {"remove", "launch", "final"}
           /\ D.pc = "launch" \/ D.again => C.round + 1 < scene.rounds[c]
           /\ D.round = C.round + 1 /\ D.base = C.base /\ D.removed = C.removed /\ D.replaced = C.replaced
<1> DEFINE C == coordinator[c]
<1>1. coordinator[c].pc = "judge"
    BY DEF Runs!Judge, Runs!At
<1>2. PICK gone \in SUBSET Runs!Urls(findings[Runs!Study(c)]), more \in BOOLEAN :
               /\ more => coordinator[c].round + 1 < scene.rounds[c]
               /\ coordinator' = [coordinator EXCEPT
                   ![c].pc = IF gone # {} THEN "remove" ELSE Runs!Decided(more),
                   ![c].round = @ + 1, ![c].dead = gone, ![c].again = more /\ gone # {}]
    BY JudgeChooses, Zenon
<1> DEFINE place == IF gone # {} THEN "remove" ELSE Runs!Decided(more)
           n == C.round + 1
           further == more /\ gone # {}
           D == [C EXCEPT !.pc = place, !.round = n, !.dead = gone, !.again = further]
<1>3. coordinator' = [coordinator EXCEPT ![c].pc = place, ![c].round = @ + 1, ![c].dead = gone, ![c].again = further]
    BY <1>2
<1>4. /\ place \in {"remove", "launch", "final"}
      /\ (place = "launch" => more) /\ (further => more)
    BY DEF Runs!Decided
<1> HIDE DEF place, further
<1>5. coordinator' = [coordinator EXCEPT ![c] = D]
    BY <1>3 DEF FindShape
<1>6. coordinator'[c] = D /\ C \in Locals
    BY <1>5 DEF FindShape
<1> HIDE DEF n
<1>7. D.pc = place /\ D.round = n /\ D.base = C.base /\ D.removed = C.removed /\ D.replaced = C.replaced
    BY <1>6 DEF Locals
<1>8. D.again = further
    BY <1>6, Zenon DEF Locals
<1> HIDE DEF D, C
<1>9. n = C.round + 1 /\ (more => n < scene.rounds[c])
    BY <1>2 DEF n, C
<1> QED
    BY <1>1, <1>4, <1>6, <1>7, <1>8, <1>9 DEF C

LEMMA OwnMoves ==
    ASSUME FindShape, OwnInv, RunsInv', NEW c \in Coordinator,
           \/ Runs!Acquire(c) \/ Runs!Paused(c) \/ Runs!Open(c) \/ Runs!Launch(c) \/ Runs!Refused(c)
           \/ Runs!Drained(c) \/ Runs!Wall(c) \/ Runs!Record(c) \/ Runs!Cleanup(c)
           \/ Runs!Judge(c) \/ Runs!Final(c) \/ Runs!Cancel(c)
    PROVE  OwnInv'
<1>1. /\ MovesOn(c) /\ scene' = scene /\ \A d \in Coordinator \ {c} : coordinator'[d] = coordinator[d]
      /\ OneRunAtATime /\ ContextFits /\ RowsFit
    BY CoordinatorMoves DEF MovesOn, FindShape, OwnInv
<1>2. RowsFit'
    <2>1. \A s \in Research : findings'[s] \in {findings[s], Runs!Parsed(findings[s])} /\ findings[s] \in Seq(Row)
        BY <1>1 DEF MovesOn, FindShape
    <2>2. scene.explicit \/ OneByOne => \A s \in Research : RowsOwn(findings'[s], s)
        <3> SUFFICES ASSUME scene.explicit \/ OneByOne, NEW s \in Research PROVE RowsOwn(findings'[s], s)
            OBVIOUS
        <3>1. RowsOwn(findings[s], s)
            BY <1>1 DEF RowsFit
        <3>2. \A k \in DOMAIN findings'[s] : \E i \in DOMAIN findings[s] : findings'[s][k] = findings[s][i]
            BY <2>1, HealedRows
        <3> QED
            BY <3>1, <3>2, RowsOwnAfter
    <2>3. saving' = saving
        BY <1>1 DEF MovesOn
    <2> QED
        BY <1>1, <2>2, <2>3, RowsStill
<1>3. CASE Runs!Acquire(c)
    <2>1. /\ Runs!Cardinality(Runs!Holding) < scene.permits /\ finder' = finder /\ context' = context
          /\ coordinator'[c].pc = "open"
        BY <1>3 DEF Runs!Acquire, Runs!Goes, FindShape
    <2>2. OneRunAtATime'
        <3> SUFFICES ASSUME scene.permits = 1 PROVE \A d, e \in Runs!Holding' : d = e
            BY <1>1 DEF OneRunAtATime
        <3>1. Runs!Holding = {}
            <4>1. Runs!Holding \subseteq Coordinator /\ IsFiniteSet(Coordinator)
                BY RunsNumbers DEF Runs!Holding
            <4>2. IsFiniteSet(Runs!Holding) /\ Cardinality(Runs!Holding) \in Nat
                BY <4>1, FS_Subset, FS_CardinalityType
            <4>3. Cardinality(Runs!Holding) = 0
                BY <2>1, <4>2, RunsLists
            <4> QED
                BY <4>2, <4>3, FS_EmptySet
        <3>2. \A d \in Runs!Holding' : d \in Coordinator /\ coordinator'[d].pc \notin {"queued", "over", "dropped"}
            BY DEF Runs!Holding
        <3>3. \A d \in Runs!Holding' : d = c
            BY <1>1, <3>1, <3>2 DEF Runs!Holding
        <3> QED
            BY <3>3
    <2>3. ContextFits'
        BY <1>1, <2>1, ContextStill
    <2> QED
        BY <1>2, <2>2, <2>3 DEF OwnInv
<1>4. CASE ~ Runs!Acquire(c)
    <2>1. c \in Runs!Holding /\ coordinator'[c].pc # "dropped"
        <3> USE DEF Runs!Holding, Runs!At, Runs!Goes, Runs!Returns, FindShape
        <3>1. CASE Runs!Paused(c)
            BY <3>1 DEF Runs!Paused
        <3>2. CASE Runs!Open(c)
            BY <3>2 DEF Runs!Open
        <3>3. CASE Runs!Launch(c)
            BY <3>3 DEF Runs!Launch
        <3>4. CASE Runs!Refused(c)
            <4>1. /\ coordinator[c].pc = "launch"
                  /\ \/ coordinator' = [coordinator EXCEPT ![c].pc = "record", ![c].reason = "error"]
                     \/ coordinator' = [coordinator EXCEPT ![c].pc = "final"]
                BY <3>4, Zenon DEF Runs!Refused
            <4> QED
                BY <4>1 DEF Locals
        <3>5. CASE Runs!Drained(c)
            BY <3>5 DEF Runs!Drained
        <3>6. CASE Runs!Wall(c)
            BY <3>6 DEF Runs!Wall
        <3>7. CASE Runs!Record(c)
            BY <3>7 DEF Runs!Record, Runs!Verified
        <3>8. CASE Runs!Cleanup(c)
            BY <3>8 DEF Runs!Cleanup, Runs!Verified
        <3>9. CASE Runs!Judge(c)
            BY <3>9, JudgeShape
        <3>10. CASE Runs!Final(c)
            BY <3>10 DEF Runs!Final
        <3>11. CASE Runs!Cancel(c)
            BY <3>11 DEF Runs!Cancel, Locals
        <3> QED
            BY <1>4, <3>1, <3>2, <3>3, <3>4, <3>5, <3>6, <3>7, <3>8, <3>9, <3>10, <3>11
    <2>2. OneRunAtATime'
        <3>1. \A d \in Coordinator : d \in Runs!Holding' => d \in Runs!Holding
            BY <1>1, <2>1 DEF Runs!Holding
        <3> QED
            BY <1>1, <3>1, OneRunStill
    <2>3. ContextFits'
        <3>1. CASE Runs!Launch(c) \/ Runs!Refused(c) \/ Runs!Cleanup(c)
            <4>1. finder'[c] = "on" => context' = c
                <5>1. CASE Runs!Launch(c)
                    BY <5>1 DEF Runs!Launch
                <5>2. CASE Runs!Refused(c)
                    BY <5>2 DEF Runs!Refused
                <5>3. CASE Runs!Cleanup(c)
                    BY <5>3 DEF Runs!Cleanup, Runs!Stopped, FindShape
                <5> QED
                    BY <3>1, <5>1, <5>2, <5>3
            <4>2. \A d \in Coordinator \ {c} : finder'[d] = finder[d]
                BY <1>1 DEF MovesOn
            <4> QED
                BY <1>1, <2>1, <4>1, <4>2, ContextSet
        <3>2. CASE ~ (Runs!Launch(c) \/ Runs!Refused(c) \/ Runs!Cleanup(c))
            <4>1. finder' = finder /\ context' = context
                BY <1>4, <3>2, Zenon DEF Runs!Paused, Runs!Open, Runs!Drained, Runs!Wall, Runs!Record, Runs!Judge,
                                         Runs!Final, Runs!Cancel
            <4> QED
                BY <1>1, <2>1, <4>1, ContextStill
        <3> QED
            BY <3>1, <3>2
    <2> QED
        BY <1>2, <2>2, <2>3 DEF OwnInv
<1> QED
    BY <1>3, <1>4

\* A step of a save: the runs go on, agents only stop.
LEMMA SavesKeepRuns ==
    ASSUME OwnInv, RunsInv', UNCHANGED <<scene, context, coordinator>>,
           \A d \in Coordinator : finder'[d] = "on" => finder[d] = "on"
    PROVE  OneRunAtATime' /\ ContextFits'
<1>1. \A d \in Coordinator : d \in Runs!Holding' => d \in Runs!Holding
    BY DEF Runs!Holding
<1> QED
    BY <1>1, OneRunStill, ContextStill DEF OwnInv

\* The file that a save writes has its row, in the spec of its run.
LEMMA WrittenOwn ==
    ASSUME FindShape, OwnInv, scene.explicit \/ OneByOne, NEW c \in Coordinator, SaveFits(c),
           saving[c].pc \in {"append", "rewrite"}
    PROVE  RowsOwn(Runs!Written(c), saving[c].spec)
<1> DEFINE s == saving[c].spec
           f == findings[s]
           g == Runs!Written(c)
<1>1. RowsOwn(f, s) /\ s = Runs!Study(c) /\ saving[c].row.by = c
    BY SavedSpec DEF OwnInv, RowsFit
<1>2. \A k \in DOMAIN g : g[k] \in {saving[c].row, Runs!Torn, Runs!Bad} \/ \E i \in DOMAIN f : g[k] = f[i]
    BY WrittenFile
<1> HIDE DEF s, f, g
<1>3. \A k \in DOMAIN g :
        g[k].by \notin Coordinator \/ Runs!Study(g[k].by) = s \/ \E i \in DOMAIN f : g[k] = f[i]
    BY <1>1, <1>2, LinesAreRows
<1>4. RowsOwn(g, s)
    BY <1>1, <1>3, RowsOwnAfter
<1> QED
    BY <1>4 DEF g, s

LEMMA TornOwn ==
    ASSUME NEW s, NEW f \in Seq(Row), RowsOwn(f, s)
    PROVE  RowsOwn(Runs!Appended(f, Runs!Torn), s)
<1> DEFINE g == Runs!Appended(f, Runs!Torn)
<1>1. \A k \in DOMAIN g : g[k] \in {Runs!Torn, Runs!Torn, Runs!Bad} \/ \E i \in DOMAIN f : g[k] = f[i]
    BY LinesAreRows, AppendedRows
<1> HIDE DEF g
<1>2. \A k \in DOMAIN g : g[k].by \notin Coordinator \/ \E i \in DOMAIN f : g[k] = f[i]
    BY <1>1, LinesAreRows
<1>3. RowsOwn(g, s)
    BY <1>2, RowsOwnAfter
<1> QED
    BY <1>3 DEF g

LEMMA ClearedOwn ==
    ASSUME FindShape, NEW c \in Coordinator, RunFits(c), coordinator[c].pc = "rename",
           RowsOwn(findings[Runs!Study(c)], Runs!Study(c))
    PROVE  RowsOwn(coordinator[c].rest, Runs!Study(c))
<1> DEFINE f == findings[Runs!Study(c)]
           g == coordinator[c].rest
<1>1. \A k \in DOMAIN g : g[k] = Runs!Bad \/ \E i \in DOMAIN f : g[k] = f[i]
    BY ClearedFile
<1> HIDE DEF f, g
<1>2. \A k \in DOMAIN g : g[k].by \notin Coordinator \/ \E i \in DOMAIN f : g[k] = f[i]
    BY <1>1, LinesAreRows
<1>3. RowsOwn(g, Runs!Study(c))
    BY <1>2, RowsOwnAfter DEF f
<1> QED
    BY <1>3 DEF g

LEMMA HealedOwn ==
    ASSUME NEW s, NEW f \in Seq(Row), RowsOwn(f, s), NEW g \in {f, Runs!Parsed(f)}
    PROVE  RowsOwn(g, s)
<1>1. \A k \in DOMAIN g : \E i \in DOMAIN f : g[k] = f[i]
    BY HealedRows
<1> QED
    BY <1>1, RowsOwnAfter

\* A step that writes one file.
LEMMA OneFileOwn ==
    ASSUME RowsFit, FindShape, scene' = scene, NEW s \in Research, NEW g, findings' = [findings EXCEPT ![s] = g],
           (scene.explicit \/ OneByOne) /\ RowsOwn(findings[s], s) => RowsOwn(g, s),
           \A d \in Coordinator : saving'[d].pc # "idle" =>
                   \/ saving[d].pc # "idle" /\ saving'[d].spec = saving[d].spec
                   \/ scene.explicit \/ OneByOne => saving'[d].spec = Runs!Study(d)
    PROVE  RowsFit'
<1>1. \A x \in Research : findings'[x] = IF x = s THEN g ELSE findings[x]
    BY DEF FindShape
<1>2. scene.explicit \/ OneByOne => \A x \in Research : findings'[x] = findings[x] \/ RowsOwn(findings'[x], x)
    BY <1>1 DEF RowsFit
<1> QED
    BY <1>2, RowsStill

LEMMA OwnSaves ==
    ASSUME FilesInv, OwnInv, RunsInv, RunsInv', NEW c \in Coordinator,
           \/ Runs!Take(c) \/ Runs!Land(c) \/ Runs!Tell(c) \/ Runs!StopAgent(c)
           \/ Runs!BeginSave(c) \/ Runs!AgentEnds(c) \/ Runs!FailSave(c)
    PROVE  OwnInv'
<1>0. FindShape /\ SaveFits(c) /\ RowsFit
    BY EachFits DEF FilesInv, OwnInv
<1>1. CASE Runs!Take(c)
    <2> DEFINE s == saving[c].spec
    <2>1. /\ UNCHANGED <<scene, context, coordinator, finder>> /\ saving[c].pc = "wait"
          /\ \A d \in Coordinator \ {c} : saving'[d] = saving[d]
          /\ saving'[c].spec = s
          /\ findings' = [findings EXCEPT ![s] = findings'[s]]
          /\ findings'[s] \in {Runs!Loaded(s), Runs!Parsed(findings[s])}
        BY <1>0, <1>1, TakeShape
    <2>2. s \in Research /\ findings[s] \in Seq(Row) /\ findings'[s] \in {findings[s], Runs!Parsed(findings[s])}
        BY <1>0, <2>1, SavedSpec, LoadedFile
    <2>3. OneRunAtATime' /\ ContextFits'
        BY <2>1, SavesKeepRuns
    <2>4. PICK g \in {findings[s], Runs!Parsed(findings[s])} : findings' = [findings EXCEPT ![s] = g]
        BY <2>1, <2>2
    <2>5. (scene.explicit \/ OneByOne) /\ RowsOwn(findings[s], s) => RowsOwn(g, s)
        BY <2>2, HealedOwn
    <2>6. \A d \in Coordinator : saving'[d].pc # "idle" =>
             saving[d].pc # "idle" /\ saving'[d].spec = saving[d].spec
        <3>1. saving[c].pc # "idle" /\ saving'[c].spec = saving[c].spec
            BY <2>1
        <3> QED
            BY <2>1, <3>1
    <2>7. scene' = scene /\ RowsFit /\ FindShape
        BY <1>0, <2>1
    <2> HIDE DEF s
    <2>8. RowsFit'
        BY <2>2, <2>4, <2>5, <2>6, <2>7, OneFileOwn
    <2> QED
        BY <2>3, <2>8 DEF OwnInv
<1>2. CASE Runs!Land(c)
    <2> DEFINE s == saving[c].spec
    <2>1. /\ EndsSave(c) /\ finder' = finder /\ saving[c].pc \in {"append", "rewrite"}
          /\ findings' = [findings EXCEPT ![s] = Runs!Written(c)] /\ saving'[c].spec = s
        BY <1>0, <1>2, LandShape
    <2>2. s \in Research
        BY <1>0, <2>1, SavedSpec
    <2>3. OneRunAtATime' /\ ContextFits'
        BY <2>1, SavesKeepRuns DEF EndsSave
    <2>4. (scene.explicit \/ OneByOne) /\ RowsOwn(findings[s], s) => RowsOwn(Runs!Written(c), s)
        BY <1>0, <2>1, WrittenOwn
    <2>5. RowsFit'
        BY <1>0, <2>1, <2>2, <2>4, OneFileOwn DEF EndsSave
    <2> QED
        BY <2>3, <2>5 DEF OwnInv
<1>3. CASE Runs!Tell(c)
    <2> DEFINE s == saving[c].spec
    <2>1. /\ EndsSave(c) /\ finder' = finder /\ saving[c].pc = "tell" /\ saving'[c].pc = "idle"
          /\ findings' = [findings EXCEPT ![s] = Runs!Parsed(findings[s])]
        BY <1>0, <1>3, TellShape
    <2>2. s \in Research /\ findings[s] \in Seq(Row)
        BY <1>0, <2>1, SavedSpec
    <2>3. OneRunAtATime' /\ ContextFits'
        BY <2>1, SavesKeepRuns DEF EndsSave
    <2>4. (scene.explicit \/ OneByOne) /\ RowsOwn(findings[s], s) => RowsOwn(Runs!Parsed(findings[s]), s)
        BY <2>2, HealedOwn
    <2>5. RowsFit'
        BY <1>0, <2>1, <2>2, <2>4, OneFileOwn DEF EndsSave
    <2> QED
        BY <2>3, <2>5 DEF OwnInv
<1>4. CASE Runs!StopAgent(c)
    <2> DEFINE s == saving[c].spec
    <2>1. /\ EndsSave(c) /\ finder' = [finder EXCEPT ![c] = "off"] /\ saving'[c].pc = "idle"
          /\ \/ findings' = findings
             \/ saving[c].pc \in {"append", "rewrite"} /\ findings' = [findings EXCEPT ![s] = Runs!Written(c)]
        BY <1>0, <1>4, StopAgentShape
    <2>3. OneRunAtATime' /\ ContextFits'
        BY <1>0, <2>1, SavesKeepRuns DEF EndsSave, FindShape
    <2>4. CASE findings' = findings
        <3>1. RowsFit'
            BY <1>0, <2>1, <2>4, RowsStill DEF EndsSave
        <3> QED
            BY <2>3, <3>1 DEF OwnInv
    <2>5. CASE saving[c].pc \in {"append", "rewrite"} /\ findings' = [findings EXCEPT ![s] = Runs!Written(c)]
        <3>1. s \in Research
            BY <1>0, <2>5, SavedSpec
        <3>2. (scene.explicit \/ OneByOne) /\ RowsOwn(findings[s], s) => RowsOwn(Runs!Written(c), s)
            BY <1>0, <2>5, WrittenOwn
        <3>3. RowsFit'
            BY <1>0, <2>1, <2>5, <3>1, <3>2, OneFileOwn DEF EndsSave
        <3> QED
            BY <2>3, <3>3 DEF OwnInv
    <2> QED
        BY <2>1, <2>4, <2>5
<1>5. CASE Runs!BeginSave(c)
    <2>1. /\ UNCHANGED <<scene, findings, known, guarded, kept, spoiled, context, coordinator, finder>>
          /\ finder[c] = "on" /\ \A d \in Coordinator \ {c} : saving'[d] = saving[d]
          /\ saving'[c].spec = IF scene.explicit THEN Runs!Study(c) ELSE Runs!Study(context)
        BY <1>0, <1>5, BeginSaveShape
    <2>2. OneRunAtATime' /\ ContextFits'
        BY <2>1, SavesKeepRuns
    <2>3. scene.explicit \/ OneByOne => saving'[c].spec = Runs!Study(c)
        BY <2>1 DEF OwnInv, ContextFits
    <2>4. RowsFit'
        BY <1>0, <2>1, <2>3, RowsStill
    <2> QED
        BY <2>2, <2>4 DEF OwnInv
<1>6. CASE Runs!AgentEnds(c)
    <2>1. EndsSave(c) /\ UNCHANGED <<findings, saving>> /\ finder' = [finder EXCEPT ![c] = "off"]
        BY <1>0, <1>6, AgentEndsShape
    <2>2. OneRunAtATime' /\ ContextFits'
        BY <1>0, <2>1, SavesKeepRuns DEF EndsSave, FindShape
    <2>3. RowsFit'
        BY <1>0, <2>1, RowsStill DEF EndsSave
    <2> QED
        BY <2>2, <2>3 DEF OwnInv
<1>7. CASE Runs!FailSave(c)
    <2> DEFINE s == saving[c].spec
    <2>1. /\ EndsSave(c) /\ finder' = finder /\ saving[c].pc \in {"append", "rewrite"} /\ saving'[c].pc = "idle"
          /\ \/ findings' = [findings EXCEPT ![s] = Runs!Appended(findings[s], Runs!Torn)]
             \/ findings' = findings
        BY <1>0, <1>7, FailSaveShape
    <2>2. s \in Research /\ findings[s] \in Seq(Row)
        BY <1>0, <2>1, SavedSpec
    <2>3. OneRunAtATime' /\ ContextFits'
        BY <2>1, SavesKeepRuns DEF EndsSave
    <2>4. CASE findings' = findings
        <3>1. RowsFit'
            BY <1>0, <2>1, <2>4, RowsStill DEF EndsSave
        <3> QED
            BY <2>3, <3>1 DEF OwnInv
    <2>5. CASE findings' = [findings EXCEPT ![s] = Runs!Appended(findings[s], Runs!Torn)]
        <3>1. (scene.explicit \/ OneByOne) /\ RowsOwn(findings[s], s) => RowsOwn(Runs!Appended(findings[s], Runs!Torn), s)
            BY <2>2, TornOwn
        <3>2. RowsFit'
            BY <1>0, <2>1, <2>2, <2>5, <3>1, OneFileOwn DEF EndsSave
        <3> QED
            BY <2>3, <3>2 DEF OwnInv
    <2> QED
        BY <2>1, <2>4, <2>5
<1> QED
    BY <1>1, <1>2, <1>3, <1>4, <1>5, <1>6, <1>7

LEMMA OwnRemoves ==
    ASSUME FilesInv, OwnInv, RunsInv', NEW c \in Coordinator,
           \/ Runs!RemoveDead(c) \/ Runs!Rename(c) \/ Runs!RenameFails(c) \/ Runs!HardAbort(c)
    PROVE  OwnInv'
<1>0. FindShape /\ RunFits(c) /\ RowsFit /\ OneRunAtATime /\ ContextFits
    BY EachFits DEF FilesInv, OwnInv
<1> DEFINE s == Runs!Study(c)
<1>1. /\ WritesOn(c) /\ s \in Research /\ findings[s] \in Seq(Row)
      /\ c \in Runs!Holding \/ coordinator'[c].pc = "dropped"
      /\ coordinator'[c].pc = "dropped" => scene.hard
      /\ \/ findings' = findings
         \/ \E g \in {findings[s], Runs!Parsed(findings[s])} : findings' = [findings EXCEPT ![s] = g]
         \/ coordinator[c].pc = "rename" /\ findings' = [findings EXCEPT ![s] = coordinator[c].rest]
    <2>1. CASE Runs!RemoveDead(c)
        <3>1. /\ WritesOn(c) /\ s \in Research /\ coordinator[c].pc = "remove"
              /\ findings' = [findings EXCEPT ![s] = Runs!Loaded(s)] /\ coordinator'[c].pc \in {"launch", "final", "rename"}
            BY <1>0, <2>1, RemoveDeadShape DEF Runs!Decided
        <3>2. Runs!Loaded(s) \in {findings[s], Runs!Parsed(findings[s])} /\ findings[s] \in Seq(Row)
            BY <1>0, <3>1, LoadedFile DEF FindShape
        <3> QED
            BY <3>1, <3>2 DEF Runs!Holding
    <2>2. CASE Runs!Rename(c)
        <3>1. /\ WritesOn(c) /\ s \in Research /\ coordinator[c].pc = "rename"
              /\ findings' = [findings EXCEPT ![s] = coordinator[c].rest] /\ coordinator'[c].pc \in {"launch", "final"}
            BY <1>0, <2>2, RenameShape DEF Runs!Decided
        <3>2. findings[s] \in Seq(Row)
            BY <1>0, <3>1 DEF FindShape
        <3> QED
            BY <3>1, <3>2 DEF Runs!Holding
    <2>3. CASE Runs!RenameFails(c)
        <3>1. /\ WritesOn(c) /\ s \in Research /\ coordinator[c].pc = "rename"
              /\ findings' = findings /\ coordinator'[c].pc \in {"launch", "final"}
            BY <1>0, <2>3, RenameFailsShape DEF Runs!Decided
        <3>2. findings[s] \in Seq(Row)
            BY <1>0, <3>1 DEF FindShape
        <3> QED
            BY <3>1, <3>2 DEF Runs!Holding
    <2>4. CASE Runs!HardAbort(c)
        <3>1. /\ WritesOn(c) /\ s \in Research /\ scene.hard /\ coordinator'[c].pc = "dropped"
              /\ \/ findings' = findings
                 \/ coordinator[c].pc = "rename" /\ findings' = [findings EXCEPT ![s] = coordinator[c].rest]
            BY <1>0, <2>4, HardAbortShape
        <3>2. findings[s] \in Seq(Row)
            BY <1>0, <3>1 DEF FindShape
        <3> QED
            BY <3>1, <3>2
    <2> QED
        BY <2>1, <2>2, <2>3, <2>4
<1>2. \A d \in Coordinator \ {c} : coordinator'[d] = coordinator[d]
    BY <1>0, <1>1 DEF FindShape, WritesOn
<1>3. OneRunAtATime'
    <2>1. \A d \in Coordinator : d \in Runs!Holding' => d \in Runs!Holding
        BY <1>1, <1>2 DEF Runs!Holding
    <2> QED
        BY <1>0, <1>1, <2>1, OneRunStill DEF WritesOn
<1>4. ContextFits'
    BY <1>0, <1>1, <1>2, ContextStill DEF WritesOn
<1>5. RowsFit'
    <2>1. CASE findings' = findings
        BY <1>0, <1>1, <2>1, RowsStill DEF WritesOn
    <2>2. ASSUME NEW g \in {findings[s], Runs!Parsed(findings[s])}, findings' = [findings EXCEPT ![s] = g]
          PROVE  RowsFit'
        <3>1. RowsOwn(findings[s], s) => RowsOwn(g, s)
            BY <1>1, HealedOwn
        <3> QED
            BY <1>0, <1>1, <2>2, <3>1, OneFileOwn DEF WritesOn
    <2>3. CASE coordinator[c].pc = "rename" /\ findings' = [findings EXCEPT ![s] = coordinator[c].rest]
        <3>1. RowsOwn(findings[s], s) => RowsOwn(coordinator[c].rest, s)
            BY <1>0, <2>3, ClearedOwn
        <3> QED
            BY <1>0, <1>1, <2>3, <3>1, OneFileOwn DEF WritesOn
    <2> QED
        BY <1>1, <2>1, <2>2, <2>3
<1> QED
    BY <1>3, <1>4, <1>5 DEF OwnInv

LEMMA OwnCrash ==
    ASSUME FilesInv, OwnInv, Runs!Crash
    PROVE  OwnInv'
<1>0. FindShape /\ RowsFit /\ \A c \in Coordinator : SaveFits(c) /\ RunFits(c)
    BY EachFits DEF FilesInv, OwnInv
<1>1. /\ scene' = scene
      /\ \A c \in Coordinator :
           coordinator'[c].pc \in {"queued", "over", "dropped"} /\ finder'[c] # "on" /\ saving'[c].pc = "idle"
    BY <1>0, CrashShape
<1>2. PICK s \in Research : \E file \in Runs!AfterCrash(s) : findings' = [findings EXCEPT ![s] = file]
    BY <1>0, CrashShape
<1>3. PICK file \in Runs!AfterCrash(s) : findings' = [findings EXCEPT ![s] = file]
    BY <1>2
<1>4. (scene.explicit \/ OneByOne) /\ RowsOwn(findings[s], s) => RowsOwn(file, s)
    <2> SUFFICES ASSUME scene.explicit \/ OneByOne, RowsOwn(findings[s], s) PROVE RowsOwn(file, s)
        OBVIOUS
    <2>1. ASSUME NEW c \in Coordinator, SaveHolds(c, s), file = Runs!Written(c) PROVE RowsOwn(file, s)
        BY <1>0, <2>1, WrittenOwn DEF SaveHolds
    <2>2. ASSUME file = Runs!Appended(findings[s], Runs!Torn) PROVE RowsOwn(file, s)
        BY <1>0, <2>2, TornOwn DEF FindShape
    <2>3. ASSUME NEW c \in Coordinator, RunHolds(c, s), file = coordinator[c].rest PROVE RowsOwn(file, s)
        BY <1>0, <2>3, ClearedOwn DEF RunHolds
    <2> QED
        BY <1>0, <2>1, <2>2, <2>3, CrashedFile
<1>5. RowsFit'
    BY <1>0, <1>1, <1>3, <1>4, OneFileOwn
<1>6. OneRunAtATime' /\ ContextFits'
    <2>1. Runs!Holding' = {}
        BY <1>1 DEF Runs!Holding
    <2> QED
        BY <1>1, <2>1 DEF OneRunAtATime, ContextFits
<1> QED
    BY <1>5, <1>6 DEF OwnInv

LEMMA OwnRows ==
    ASSUME FindShape, OwnInv
    PROVE  Runs!SavesAreOwn
<1> SUFFICES ASSUME NEW s \in Research, NEW row \in Runs!Range(findings[s]), row.by \in Coordinator,
                    scene.explicit \/ (scene.permits = 1 /\ ~ scene.hard)
             PROVE  Runs!Study(row.by) = s
    BY DEF Runs!SavesAreOwn
<1>1. PICK i \in DOMAIN findings[s] : row = findings[s][i]
    BY DEF Runs!Range
<1> QED
    BY <1>1 DEF OwnInv, RowsFit, RowsOwn, OneByOne

\* The counts of a run, when it moves, removes rows or begins a round.
LEMMA StillFits ==
    ASSUME NEW C \in Locals, NEW n, NEW m, NEW p \in Nat, NEW q \in Nat, NEW u \in Nat, NEW v \in Nat,
           CountFits(C, n, p, u), u <= v,
           BetweenCounts(C) => n \in Nat /\ m \in Nat /\ m + q + u <= n + p + v
    PROVE  CountFits(C, m, q, v)
<1>1. C.replaced \in Nat /\ C.removed \in Nat /\ C.base \in Nat /\ C.round \in Nat
    BY DEF Locals
<1>2. ASSUME BetweenCounts(C) PROVE C.replaced = 0 /\ m + C.removed + q <= C.base + v
    <2>1. C.replaced = 0 /\ n + C.removed + p <= C.base + u
        BY <1>2 DEF CountFits
    <2> QED
        BY <1>1, <1>2, <2>1
<1>3. C.replaced <= v
    BY <1>1 DEF CountFits
<1> QED
    BY <1>2, <1>3 DEF CountFits

\* Where a run goes from here, without a new count.
GoesTo(C, D) ==
    \/ D.pc = C.pc /\ D.again = C.again
    \/ C.pc = "queued" /\ D.pc = "open"
    \/ C.pc = "open" /\ D.pc \in {"record", "launch"}
    \/ C.pc = "launch" /\ D.pc \in {"drain", "record", "final"}
    \/ C.pc = "drain" /\ D.pc = "record"
    \/ C.pc = "cleanup" /\ D.pc \in {"judge", "over"}
    \/ C.pc = "remove" /\ D.pc = "rename" /\ D.again = C.again
    \/ C.pc \in {"remove", "rename"} /\ D.pc = Runs!Decided(C.again)
    \/ D.pc = "over"

LEMMA MoveFits ==
    ASSUME NEW C \in Locals, NEW D \in Locals, GoesTo(C, D),
           NEW k \in Nat, k = 0 \/ C.pc = "rename",
           D.round = C.round, D.base = C.base, D.removed = C.removed + k, D.replaced = C.replaced,
           NEW n \in Nat, NEW m \in Nat, NEW p \in Nat, NEW u \in Nat, m + k <= n,
           CountFits(C, n, p, u)
    PROVE  CountFits(D, m, p, u)
<1>1. C.replaced \in Nat /\ C.removed \in Nat /\ C.base \in Nat /\ C.round \in Nat /\ C.again \in BOOLEAN
    BY DEF Locals
<1>2. BetweenCounts(D) => BetweenCounts(C)
    <2>1. C.pc = "open" => C.round = 0
        BY DEF CountFits
    <2> QED
        BY <2>1 DEF BetweenCounts, GoesTo, Runs!Decided
<1>3. BetweenCounts(D) => D.replaced = 0 /\ m + D.removed + p <= D.base + u
    <2>1. BetweenCounts(C) => C.replaced = 0 /\ n + C.removed + p <= C.base + u
        BY DEF CountFits
    <2> QED
        BY <1>1, <1>2, <2>1
<1>4. D.replaced <= u
    BY DEF CountFits
<1>5. D.pc \in {"queued", "open"} => D.round = 0
    BY DEF CountFits, GoesTo, Runs!Decided
<1>6. D.pc \in {"remove", "rename"} => D.round # 0 /\ (D.again => D.round < 2)
    BY DEF CountFits, GoesTo, Runs!Decided
<1>7. D.pc \in {"launch", "drain", "record"} => D.round < 2
    BY <1>1 DEF CountFits, GoesTo, Runs!Decided
<1>8. D.round = 0 => D.removed = 0
    BY <1>1 DEF CountFits
<1> QED
    BY <1>3, <1>4, <1>5, <1>6, <1>7, <1>8 DEF CountFits

LEMMA JudgeFits ==
    ASSUME NEW C \in Locals, NEW D \in Locals, C.pc = "judge", D.pc \in {"remove", "launch", "final"},
           NEW rounds \in Nat, rounds <= 2, D.pc = "launch" \/ D.again => C.round + 1 < rounds,
           D.round = C.round + 1, D.base = C.base, D.removed = C.removed, D.replaced = C.replaced,
           NEW n \in Nat, NEW p \in Nat, NEW u \in Nat, CountFits(C, n, p, u)
    PROVE  CountFits(D, n, p, u)
<1>1. C.replaced \in Nat /\ C.removed \in Nat /\ C.base \in Nat /\ C.round \in Nat
    BY DEF Locals
<1>2. BetweenCounts(D) => BetweenCounts(C)
    BY <1>1 DEF BetweenCounts
<1>3. D.pc = "launch" \/ D.again => D.round < 2
    BY <1>1
<1>4. D.round # 0
    BY <1>1
<1>5. D.pc \notin {"queued", "open", "drain", "record"}
    OBVIOUS
<1> QED
    BY <1>1, <1>2, <1>3, <1>4, <1>5 DEF CountFits

LEMMA RecordFits ==
    ASSUME NEW C \in Locals, NEW D \in Locals, C.pc = "record", D.pc \in {"over", "judge", "cleanup"},
           D.round = C.round, D.removed = C.removed,
           NEW n \in Nat, NEW p \in Nat, NEW u \in Nat, p <= u,
           D.base = n,
           D.replaced = IF C.round = 0 THEN 0 ELSE C.replaced + Runs!Minus(n, Runs!Minus(C.base, C.removed)),
           CountFits(C, n, p, u)
    PROVE  CountFits(D, n, p, u)
<1>1. C.replaced \in Nat /\ C.removed \in Nat /\ C.base \in Nat /\ C.round \in Nat
    BY DEF Locals
<1>2. CASE C.round = 0
    BY <1>1, <1>2 DEF CountFits, BetweenCounts
<1>3. CASE C.round # 0
    <2>1. C.round = 1
        BY <1>1, <1>3 DEF CountFits
    <2>2. C.replaced = 0 /\ n + C.removed + p <= C.base + u
        BY <2>1 DEF CountFits, BetweenCounts
    <2>3. Runs!Minus(n, Runs!Minus(C.base, C.removed)) <= u
        BY <1>1, <2>2 DEF Runs!Minus
    <2>4. ~ BetweenCounts(D) /\ D.replaced <= u
        BY <1>1, <1>3, <2>1, <2>2, <2>3 DEF BetweenCounts, Runs!Minus
    <2> QED
        BY <2>1, <2>4 DEF CountFits
<1> QED
    BY <1>2, <1>3

LEMMA DroppedFits ==
    ASSUME NEW D, D.pc = "dropped", D.round = 0, D.removed = 0, D.replaced = 0,
           NEW n, NEW p, NEW u \in Nat
    PROVE  CountFits(D, n, p, u)
BY DEF CountFits, BetweenCounts

\* What is about to be saved, and what was.
LEMMA CountsAreNumbers ==
    ASSUME FindShape
    PROVE  /\ IsFiniteSet(Unsaved) /\ Cardinality(Unsaved) \in Nat /\ Used \in Nat
           /\ \A s \in Research : findings[s] \in Seq(Row) /\ Number(findings[s]) \in Nat
           /\ \A c \in Coordinator : coordinator[c] \in Locals
           /\ \A c \in Coordinator : coordinator[c].pc # "over" => c \in DOMAIN scene.study /\ Runs!Study(c) \in Research
           /\ scene.rounds \in [Coordinator -> Nat]
<1>1. IsFiniteSet(Unsaved) /\ Cardinality(Unsaved) \in Nat
    BY RunsNumbers, FS_Subset, FS_CardinalityType DEF Unsaved
<1>2. Used \in Nat
    BY TheScene DEF FindShape, Used
<1>3. \A s \in Research : findings[s] \in Seq(Row)
    BY DEF FindShape
<1>4. \A s \in Research : Number(findings[s]) \in Nat
    BY <1>3, UrlsOfRows
<1>5. \A c \in Coordinator : coordinator[c] \in Locals
    BY DEF FindShape
<1>6. \A c \in Coordinator : coordinator[c].pc # "over" => c \in DOMAIN scene.study /\ Runs!Study(c) \in Research
    BY TheScene DEF FindShape
<1> QED
    BY <1>1, <1>2, <1>3, <1>4, <1>5, <1>6, TheScene

Numbers ==
    /\ Cardinality(Unsaved) \in Nat /\ Used \in Nat
    /\ \A s \in Research : Number(findings[s]) \in Nat

LEMMA NumbersAre == FindShape => Numbers
BY CountsAreNumbers DEF Numbers

LEMMA NumbersAfter == FindShape' => Numbers'
BY NumbersAre, PTL

LEMMA PendingAfter ==
    ASSUME IsFiniteSet(Unsaved), NEW c \in Coordinator, \A d \in Coordinator \ {c} : saving'[d].pc = saving[d].pc
    PROVE  /\ (c \in Unsaved <=> c \in Unsaved') => Cardinality(Unsaved') = Cardinality(Unsaved)
           /\ c \in Unsaved /\ c \notin Unsaved' => Cardinality(Unsaved') = Cardinality(Unsaved) - 1
           /\ c \notin Unsaved /\ c \in Unsaved' => Cardinality(Unsaved') = Cardinality(Unsaved) + 1
<1>1. \A d \in Coordinator \ {c} : d \in Unsaved' <=> d \in Unsaved
    BY DEF Unsaved
<1>2. Unsaved \subseteq Coordinator /\ Unsaved' \subseteq Coordinator
    BY DEF Unsaved
<1> DEFINE P == Unsaved
           Q == Unsaved'
<1> HIDE DEF P, Q
<1>3. (c \in P <=> c \in Q) => Q = P
    BY <1>1, <1>2 DEF P, Q
<1>4. c \in P /\ c \notin Q => Q = P \ {c}
    BY <1>1, <1>2 DEF P, Q
<1>5. c \notin P /\ c \in Q => Q = P \cup {c}
    BY <1>1, <1>2 DEF P, Q
<1>6. IsFiniteSet(P)
    BY DEF P
<1>7. c \in P /\ c \notin Q => Cardinality(Q) = Cardinality(P) - 1
    BY <1>4, <1>6, FS_RemoveElement
<1>8. c \notin P /\ c \in Q => Cardinality(Q) = Cardinality(P) + 1
    BY <1>5, <1>6, FS_AddElement
<1> QED
    BY <1>3, <1>7, <1>8 DEF P, Q

\* A step after which the runs that did not move still have enough.
LEMMA CountsAfter ==
    ASSUME FindShape, FindShape', CountsFit, scene' = scene, Used <= Used', Cardinality(Unsaved') <= Used',
           \A s \in Research :
               Number(findings'[s]) + Cardinality(Unsaved') + Used <= Number(findings[s]) + Cardinality(Unsaved) + Used',
           \A c \in Coordinator :
               \/ coordinator'[c] = coordinator[c]
               \/ scene.rounds[c] <= 2 =>
                    CountFits(coordinator'[c], Number(findings'[Runs!Study(c)]), Cardinality(Unsaved'), Used')
    PROVE  CountsFit'
<1>1. \A c \in Coordinator : Runs!Study(c)' = Runs!Study(c)
    BY DEF Runs!Study
<1> SUFFICES ASSUME NEW c \in Coordinator, scene.rounds[c] <= 2
             PROVE  CountFits(coordinator'[c], Number(findings'[Runs!Study(c)]), Cardinality(Unsaved'), Used')
    BY <1>1 DEF CountsFit
<1>2. CASE coordinator'[c] = coordinator[c]
    <2> DEFINE C == coordinator[c]
               n == Number(findings[Runs!Study(c)])
               m == Number(findings'[Runs!Study(c)])
    <2>1. C \in Locals /\ CountFits(C, n, Cardinality(Unsaved), Used)
        BY CountsAreNumbers DEF CountsFit
    <2>2. /\ Cardinality(Unsaved) \in Nat /\ Used \in Nat
          /\ Cardinality(Unsaved') \in Nat /\ Used' \in Nat
        BY NumbersAre, NumbersAfter DEF Numbers
    <2>3. \A s \in Research : findings[s] \in Seq(Row) /\ findings'[s] \in Seq(Row)
        BY DEF FindShape
    <2>4. ASSUME BetweenCounts(C)
          PROVE  n \in Nat /\ m \in Nat /\ m + Cardinality(Unsaved') + Used <= n + Cardinality(Unsaved) + Used'
        <3>1. C.pc # "over"
            BY <2>4 DEF BetweenCounts
        <3>2. Runs!Study(c) \in Research
            BY <3>1, CountsAreNumbers
        <3>3. findings[Runs!Study(c)] \in Seq(Row) /\ findings'[Runs!Study(c)] \in Seq(Row)
            BY <2>3, <3>2
        <3>4. n \in Nat /\ m \in Nat
            BY <3>3, UrlsOfRows
        <3> QED
            BY <3>2, <3>4
    <2> HIDE DEF C, n, m
    <2>5. CountFits(C, m, Cardinality(Unsaved'), Used')
        BY <2>1, <2>2, <2>4, StillFits
    <2> QED
        BY <1>2, <2>5 DEF C, m
<1> QED
    BY <1>2

\* A step of a save: what it adds to the file it takes off what is about to be saved.
LEMMA SavesFit ==
    ASSUME FindShape, FindShape', CountsFit, UNCHANGED <<scene, coordinator, finds>>, NEW c \in Coordinator,
           \A d \in Coordinator \ {c} : saving'[d].pc = saving[d].pc,
           c \in Unsaved' => c \in Unsaved,
           \/ \A s \in Research : Number(findings'[s]) <= Number(findings[s])
           \/ /\ c \in Unsaved /\ c \notin Unsaved'
              /\ \A s \in Research : Number(findings'[s]) <= Number(findings[s]) + 1
    PROVE  CountsFit'
<1>1. Used' = Used
    BY DEF Used
<1>2. /\ Cardinality(Unsaved) \in Nat /\ Cardinality(Unsaved') \in Nat /\ Used \in Nat
      /\ \A s \in Research : Number(findings[s]) \in Nat
      /\ \A s \in Research : Number(findings'[s]) \in Nat
    BY NumbersAre, NumbersAfter DEF Numbers
<1>3. /\ (c \in Unsaved <=> c \in Unsaved') => Cardinality(Unsaved') = Cardinality(Unsaved)
      /\ c \in Unsaved /\ c \notin Unsaved' => Cardinality(Unsaved') = Cardinality(Unsaved) - 1
    BY CountsAreNumbers, PendingAfter
<1>4. Cardinality(Unsaved) <= Used
    BY DEF CountsFit
<1> DEFINE p == Cardinality(Unsaved)
           q == Cardinality(Unsaved')
<1>5. /\ q <= p
      /\ \A s \in Research : Number(findings'[s]) + q <= Number(findings[s]) + p
    BY <1>2, <1>3
<1>6. q <= Used' /\ Used <= Used'
    BY <1>1, <1>2, <1>4, <1>5
<1>7. \A s \in Research : Number(findings'[s]) + q + Used <= Number(findings[s]) + p + Used'
    BY <1>1, <1>2, <1>5
<1> QED
    BY <1>6, <1>7, CountsAfter

LEMMA CountsBegin == Runs!Init => CountsFit
<1> SUFFICES ASSUME Runs!Init PROVE CountsFit
    OBVIOUS
<1>1. Unsaved = {}
    BY DEF Runs!Init, Runs!NoSave, Unsaved
<1>2. Cardinality(Unsaved) = 0
    BY <1>1, FS_EmptySet
<1>3. Used = 0
    BY ScenesAssumption DEF Runs!Init, Used
<1>4. \A c \in Coordinator :
        /\ coordinator[c].round = 0 /\ coordinator[c].replaced = 0 /\ coordinator[c].removed = 0
        /\ coordinator[c].pc \in {"queued", "over"}
    BY DEF Runs!Init, Runs!Queued
<1>5. ASSUME NEW c \in Coordinator, NEW n PROVE CountFits(coordinator[c], n, 0, 0)
    BY <1>4 DEF CountFits, BetweenCounts
<1> QED
    BY <1>2, <1>3, <1>5 DEF CountsFit

\* The rows of a healed file are as many as before.
LEMMA HealedNumber ==
    ASSUME FindShape, NEW s \in Research, NEW f \in {findings[s], Runs!Parsed(findings[s])},
           findings' = [findings EXCEPT ![s] = f]
    PROVE  \A x \in Research : Number(findings'[x]) = Number(findings[x])
<1>1. findings \in [Research -> Seq(Row)]
    BY DEF FindShape
<1>2. Number(f) = Number(findings[s])
    BY <1>1, HealedRows
<1> QED
    BY <1>1, <1>2

\* A step of a coordinator: its own counts fit, and no file has more rows.
LEMMA CoordinatorFits ==
    ASSUME FindShape, FindShape', CountsFit, UNCHANGED <<scene, saving, finds>>, NEW c \in Coordinator,
           \A d \in Coordinator \ {c} : coordinator'[d] = coordinator[d],
           \A s \in Research : Number(findings'[s]) <= Number(findings[s]),
           scene.rounds[c] <= 2 /\ CountFits(coordinator[c], Number(findings[Runs!Study(c)]), Cardinality(Unsaved), Used)
               => CountFits(coordinator'[c], Number(findings'[Runs!Study(c)]), Cardinality(Unsaved), Used)
    PROVE  CountsFit'
<1>1. Unsaved' = Unsaved /\ Used' = Used
    BY DEF Unsaved, Used
<1> DEFINE p == Cardinality(Unsaved)
           u == Used
<1>2. p \in Nat /\ u \in Nat /\ (\A s \in Research : Number(findings[s]) \in Nat)
      /\ (\A s \in Research : Number(findings'[s]) \in Nat)
    BY NumbersAre, NumbersAfter DEF Numbers
<1>3. Cardinality(Unsaved') = p /\ Used' = u /\ p <= u
    BY <1>1 DEF CountsFit
<1>4. \A s \in Research : Number(findings'[s]) + p + u <= Number(findings[s]) + p + u
    <2> HIDE DEF p, u
    <2> QED
        BY <1>2
<1>5. scene.rounds[c] <= 2 => CountFits(coordinator'[c], Number(findings'[Runs!Study(c)]), p, u)
    BY DEF CountsFit
<1>6. \A d \in Coordinator :
        \/ coordinator'[d] = coordinator[d]
        \/ scene.rounds[d] <= 2 => CountFits(coordinator'[d], Number(findings'[Runs!Study(d)]), p, u)
    BY <1>5
<1>7. /\ Used <= Used' /\ Cardinality(Unsaved') <= Used'
      /\ \A s \in Research :
               Number(findings'[s]) + Cardinality(Unsaved') + Used <= Number(findings[s]) + Cardinality(Unsaved) + Used'
    BY <1>2, <1>3, <1>4
<1>8. \A d \in Coordinator :
               \/ coordinator'[d] = coordinator[d]
               \/ scene.rounds[d] <= 2 =>
                    CountFits(coordinator'[d], Number(findings'[Runs!Study(d)]), Cardinality(Unsaved'), Used')
    BY <1>3, <1>6
<1> QED
    BY <1>7, <1>8, CountsAfter

\* A step of a coordinator that counts nothing.
LEMMA MovesFit ==
    ASSUME FindShape, FindShape', CountsFit, UNCHANGED <<scene, saving, finds>>, NEW c \in Coordinator,
           c \in DOMAIN scene.study,
           \A d \in Coordinator \ {c} : coordinator'[d] = coordinator[d], coordinator'[c] \in Locals,
           GoesTo(coordinator[c], coordinator'[c]),
           coordinator'[c].round = coordinator[c].round, coordinator'[c].base = coordinator[c].base,
           coordinator'[c].replaced = coordinator[c].replaced,
           NEW k \in Nat, k = 0 \/ coordinator[c].pc = "rename",
           coordinator'[c].removed = coordinator[c].removed + k,
           Number(findings'[Runs!Study(c)]) + k <= Number(findings[Runs!Study(c)]),
           \A s \in Research : Number(findings'[s]) <= Number(findings[s])
    PROVE  CountsFit'
<1> DEFINE p == Cardinality(Unsaved)
           u == Used
           n == Number(findings[Runs!Study(c)])
           m == Number(findings'[Runs!Study(c)])
<1>1. p \in Nat /\ u \in Nat /\ n \in Nat /\ m \in Nat /\ coordinator[c] \in Locals
    BY NumbersAre, NumbersAfter, CountsAreNumbers, TheScene DEF Numbers
<1>2. m + k <= n
    OBVIOUS
<1> HIDE DEF p, u, n, m
<1>3. CountFits(coordinator[c], n, p, u) => CountFits(coordinator'[c], m, p, u)
    BY <1>1, <1>2, MoveFits
<1> QED
    BY <1>3, CoordinatorFits DEF n, m, p, u

LEMMA MovesNumber ==
    ASSUME FindShape, NEW c \in Coordinator, MovesOn(c)
    PROVE  /\ FindShape' /\ UNCHANGED <<scene, saving, finds>> /\ c \in DOMAIN scene.study
           /\ \A d \in Coordinator \ {c} : coordinator'[d] = coordinator[d]
           /\ coordinator'[c] \in Locals
           /\ Runs!Study(c) \in Research
           /\ \A s \in Research : Number(findings'[s]) = Number(findings[s])
<1>1. /\ UNCHANGED <<scene, saving, finds>> /\ c \in DOMAIN scene.study /\ coordinator'[c] \in Locals
      /\ coordinator' = [coordinator EXCEPT ![c] = coordinator'[c]]
      /\ findings' = findings \/ findings' = [findings EXCEPT ![Runs!Study(c)] = Runs!Parsed(findings[Runs!Study(c)])]
    BY DEF MovesOn
<1>2. finds' \in Nat /\ coordinator \in [Coordinator -> Locals]
    BY <1>1 DEF FindShape
<1>3. FindShape'
    BY <1>2, MovesKeepShape
<1>4. Runs!Study(c) \in Research
    BY <1>1, TheScene
<1>5. \A s \in Research : Number(findings'[s]) = Number(findings[s])
    <2>1. CASE findings' = findings
        BY <2>1
    <2>2. CASE findings' = [findings EXCEPT ![Runs!Study(c)] = Runs!Parsed(findings[Runs!Study(c)])]
        BY <1>4, <2>2, HealedNumber
    <2> QED
        BY <1>1, <2>1, <2>2
<1> QED
    BY <1>1, <1>2, <1>3, <1>4, <1>5

LEMMA QuietMoves ==
    ASSUME FindShape, CountsFit, NEW c \in Coordinator, MovesOn(c),
           GoesTo(coordinator[c], coordinator'[c]),
           coordinator'[c].round = coordinator[c].round, coordinator'[c].base = coordinator[c].base,
           coordinator'[c].replaced = coordinator[c].replaced, coordinator'[c].removed = coordinator[c].removed
    PROVE  CountsFit'
<1>1. /\ FindShape' /\ UNCHANGED <<scene, saving, finds>> /\ c \in DOMAIN scene.study
      /\ \A d \in Coordinator \ {c} : coordinator'[d] = coordinator[d]
      /\ coordinator'[c] \in Locals /\ Runs!Study(c) \in Research
      /\ \A s \in Research : Number(findings'[s]) = Number(findings[s])
    BY MovesNumber
<1>2. /\ (\A s \in Research : Number(findings[s]) \in Nat)
      /\ (\A s \in Research : Number(findings'[s]) \in Nat)
    BY <1>1, NumbersAre, NumbersAfter DEF Numbers
<1>3. /\ coordinator[c].removed \in Nat /\ coordinator'[c].removed \in Nat
    BY <1>1, CountsAreNumbers DEF Locals
<1>4. /\ coordinator'[c].removed = coordinator[c].removed + 0
      /\ \A s \in Research : Number(findings'[s]) <= Number(findings[s])
      /\ Number(findings'[Runs!Study(c)]) + 0 <= Number(findings[Runs!Study(c)])
    BY <1>1, <1>2, <1>3
<1> QED
    BY <1>1, <1>4, 0 \in Nat, MovesFit

LEMMA CountsMove ==
    ASSUME FindShape, CountsFit, NEW c \in Coordinator,
           \/ Runs!Acquire(c) \/ Runs!Paused(c) \/ Runs!Open(c) \/ Runs!Launch(c) \/ Runs!Refused(c)
           \/ Runs!Drained(c) \/ Runs!Wall(c) \/ Runs!Cleanup(c) \/ Runs!Final(c) \/ Runs!Cancel(c)
    PROVE  CountsFit'
<1>0. MovesOn(c) /\ coordinator \in [Coordinator -> Locals] /\ coordinator[c] \in Locals
    BY CoordinatorMoves DEF FindShape
<1>1. /\ GoesTo(coordinator[c], coordinator'[c])
      /\ coordinator'[c].round = coordinator[c].round /\ coordinator'[c].base = coordinator[c].base
      /\ coordinator'[c].replaced = coordinator[c].replaced /\ coordinator'[c].removed = coordinator[c].removed
    <2> USE <1>0 DEF Locals, Runs!At, Runs!Goes, Runs!Returns, GoesTo
    <2>1. CASE Runs!Acquire(c)
        BY <2>1 DEF Runs!Acquire
    <2>2. CASE Runs!Paused(c)
        BY <2>2 DEF Runs!Paused
    <2>3. CASE Runs!Open(c)
        BY <2>3 DEF Runs!Open
    <2>4. CASE Runs!Launch(c)
        BY <2>4 DEF Runs!Launch
    <2>5. CASE Runs!Refused(c)
        <3>1. /\ coordinator[c].pc = "launch"
              /\ \/ coordinator' = [coordinator EXCEPT ![c].pc = "record", ![c].reason = "error"]
                 \/ coordinator' = [coordinator EXCEPT ![c].pc = "final"]
            BY <2>5, Zenon DEF Runs!Refused, Runs!Returns, Runs!Goes, Runs!At
        <3>2. CASE coordinator' = [coordinator EXCEPT ![c].pc = "record", ![c].reason = "error"]
            BY <3>1, <3>2
        <3>3. CASE coordinator' = [coordinator EXCEPT ![c].pc = "final"]
            BY <3>1, <3>3
        <3> QED
            BY <3>1, <3>2, <3>3
    <2>6. CASE Runs!Drained(c)
        BY <2>6 DEF Runs!Drained
    <2>7. CASE Runs!Wall(c)
        BY <2>7 DEF Runs!Wall
    <2>8. CASE Runs!Cleanup(c)
        BY <2>8 DEF Runs!Cleanup, Runs!Verified
    <2>9. CASE Runs!Final(c)
        BY <2>9 DEF Runs!Final
    <2>10. CASE Runs!Cancel(c)
        BY <2>10 DEF Runs!Cancel
    <2> QED
        BY <2>1, <2>2, <2>3, <2>4, <2>5, <2>6, <2>7, <2>8, <2>9, <2>10
<1> QED
    BY <1>0, <1>1, QuietMoves

LEMMA CountsJudge ==
    ASSUME FindShape, CountsFit, NEW c \in Coordinator, Runs!Judge(c)
    PROVE  CountsFit'
<1> DEFINE C == coordinator[c]
           D == coordinator'[c]
           n == Number(findings[Runs!Study(c)])
           p == Cardinality(Unsaved)
           u == Used
<1>1. MovesOn(c)
    BY CoordinatorMoves
<1>2. /\ FindShape' /\ UNCHANGED <<scene, saving, finds>>
      /\ \A d \in Coordinator \ {c} : coordinator'[d] = coordinator[d]
      /\ D \in Locals /\ Runs!Study(c) \in Research
      /\ \A s \in Research : Number(findings'[s]) = Number(findings[s])
    BY <1>1, MovesNumber
<1>3. /\ C.pc = "judge" /\ D.pc \in {"remove", "launch", "final"}
      /\ D.pc = "launch" \/ D.again => C.round + 1 < scene.rounds[c]
      /\ D.round = C.round + 1 /\ D.base = C.base /\ D.removed = C.removed /\ D.replaced = C.replaced
    BY JudgeShape
<1>4. p \in Nat /\ u \in Nat /\ n \in Nat /\ C \in Locals /\ scene.rounds[c] \in Nat
      /\ \A s \in Research : Number(findings[s]) \in Nat
    BY <1>2, NumbersAre, CountsAreNumbers DEF Numbers
<1>5. Number(findings'[Runs!Study(c)]) = n
    BY <1>2
<1>6. \A s \in Research : Number(findings'[s]) <= Number(findings[s])
    BY <1>2, <1>4
<1> HIDE DEF C, D, n, p, u
<1>7. scene.rounds[c] <= 2 /\ CountFits(C, n, p, u) => CountFits(D, n, p, u)
    BY <1>2, <1>3, <1>4, JudgeFits
<1>8. scene.rounds[c] <= 2 /\ CountFits(coordinator[c], Number(findings[Runs!Study(c)]), Cardinality(Unsaved), Used)
        => CountFits(coordinator'[c], Number(findings'[Runs!Study(c)]), Cardinality(Unsaved), Used)
    BY <1>5, <1>7 DEF C, D, n, p, u
<1> QED
    BY <1>2, <1>6, <1>8, CoordinatorFits

LEMMA CountsRecord ==
    ASSUME FindShape, CountsFit, NEW c \in Coordinator, Runs!Record(c)
    PROVE  CountsFit'
<1> DEFINE s == Runs!Study(c)
           C == coordinator[c]
           D == coordinator'[c]
           n == Number(findings[s])
           p == Cardinality(Unsaved)
           u == Used
           count == Len(Runs!Parsed(findings[s]))
           place == IF C.reason \in {"paused", "error"} THEN Runs!Verified(c) ELSE "cleanup"
           total == IF C.round = 0 THEN 0 ELSE C.replaced + Runs!NewInRerun(c, count)
<1>1. MovesOn(c)
    BY CoordinatorMoves
<1>2. /\ FindShape' /\ UNCHANGED <<scene, saving, finds>> /\ c \in DOMAIN scene.study
      /\ \A d \in Coordinator \ {c} : coordinator'[d] = coordinator[d]
      /\ D \in Locals /\ s \in Research
      /\ \A x \in Research : Number(findings'[x]) = Number(findings[x])
    BY <1>1, MovesNumber
<1>3. /\ C.pc = "record"
      /\ coordinator' = [coordinator EXCEPT ![c].pc = place, ![c].base = count, ![c].replaced = total]
    BY Zenon DEF Runs!Record, Runs!At
<1>4. p \in Nat /\ u \in Nat /\ n \in Nat /\ C \in Locals /\ p <= u
      /\ \A x \in Research : Number(findings[x]) \in Nat
    BY <1>2, NumbersAre, CountsAreNumbers DEF Numbers, CountsFit
<1>5. count = n
    <2>1. findings[s] \in Seq(Row)
        BY <1>2 DEF FindShape
    <2> QED
        BY <2>1, ParsedRows
<1>6. place \in {"over", "judge", "cleanup"}
    BY DEF Runs!Verified
<1>7. total = IF C.round = 0 THEN 0 ELSE C.replaced + Runs!Minus(n, Runs!Minus(C.base, C.removed))
    BY <1>5 DEF Runs!NewInRerun
<1>8. coordinator \in [Coordinator -> Locals]
    BY DEF FindShape
<1> HIDE DEF count, place, total
<1>9. D.pc = place /\ D.base = count /\ D.replaced = total /\ D.round = C.round /\ D.removed = C.removed
    BY <1>3, <1>8 DEF Locals
<1>10. Number(findings'[s]) = n /\ \A x \in Research : Number(findings'[x]) <= Number(findings[x])
    BY <1>2, <1>4
<1> HIDE DEF s, C, D, n, p, u
<1>11. CountFits(C, n, p, u) => CountFits(D, n, p, u)
    BY <1>2, <1>3, <1>4, <1>5, <1>6, <1>7, <1>9, RecordFits
<1>12. CountFits(coordinator[c], Number(findings[Runs!Study(c)]), Cardinality(Unsaved), Used)
        => CountFits(coordinator'[c], Number(findings'[Runs!Study(c)]), Cardinality(Unsaved), Used)
    BY <1>10, <1>11 DEF s, C, D, n, p, u
<1> QED
    BY <1>2, <1>10, <1>12, CoordinatorFits

LEMMA CountsRemove ==
    ASSUME FilesInv, CountsFit, NEW c \in Coordinator, Runs!RemoveDead(c) \/ Runs!Rename(c) \/ Runs!RenameFails(c)
    PROVE  CountsFit'
<1>0. FindShape /\ RunFits(c)
    BY EachFits DEF FilesInv
<1> DEFINE s == Runs!Study(c)
           C == coordinator[c]
           D == coordinator'[c]
<1>1. PICK k \in Nat :
        /\ FindShape' /\ WritesOn(c) /\ s \in Research
        /\ GoesTo(C, D) /\ D.round = C.round /\ D.base = C.base /\ D.replaced = C.replaced
        /\ k = 0 \/ C.pc = "rename"
        /\ D.removed = C.removed + k
        /\ Number(findings'[s]) + k = Number(findings[s])
        /\ \A x \in Research \ {s} : findings'[x] = findings[x]
    <2>0. coordinator[c] \in Locals /\ C.removed \in Nat
        BY <1>0 DEF FindShape, Locals
    <2>1. CASE Runs!RemoveDead(c)
        <3>1. /\ FindShape' /\ WritesOn(c) /\ s \in Research /\ C.pc = "remove"
              /\ findings' = [findings EXCEPT ![s] = Runs!Loaded(s)]
              /\ D.round = C.round /\ D.base = C.base /\ D.removed = C.removed /\ D.replaced = C.replaced
              /\ D.pc = Runs!Decided(C.again) \/ (D.pc = "rename" /\ D.again = C.again)
            BY <1>0, <2>1, RemoveDeadShape
        <3>2. Runs!Loaded(s) \in {findings[s], Runs!Parsed(findings[s])} /\ findings \in [Research -> Seq(Row)]
            BY <1>0, <3>1, LoadedFile DEF FindShape
        <3>3. Number(Runs!Loaded(s)) = Number(findings[s]) /\ Number(findings[s]) \in Nat
            BY <3>1, <3>2, HealedRows
        <3>4. findings'[s] = Runs!Loaded(s) /\ \A x \in Research \ {s} : findings'[x] = findings[x]
            BY <3>1, <3>2
        <3>5. GoesTo(C, D)
            BY <3>1 DEF GoesTo
        <3>6. D.removed = C.removed + 0 /\ Number(findings'[s]) + 0 = Number(findings[s])
            BY <2>0, <3>1, <3>3, <3>4
        <3> QED
            BY <3>1, <3>4, <3>5, <3>6
    <2>2. CASE Runs!Rename(c)
        <3>1. /\ FindShape' /\ WritesOn(c) /\ s \in Research /\ C.pc = "rename"
              /\ findings' = [findings EXCEPT ![s] = C.rest]
              /\ D.round = C.round /\ D.base = C.base /\ D.replaced = C.replaced
              /\ D.removed = C.removed + (Len(findings[s]) - Len(C.rest))
              /\ D.pc = Runs!Decided(C.again)
            BY <1>0, <2>2, RenameShape
        <3>2. /\ Len(findings[s]) - Len(C.rest) \in Nat
              /\ Number(C.rest) + (Len(findings[s]) - Len(C.rest)) = Number(findings[s])
            BY <1>0, <3>1, ClearedFile
        <3>3. findings'[s] = C.rest /\ \A x \in Research \ {s} : findings'[x] = findings[x]
            BY <1>0, <3>1 DEF FindShape
        <3>5. GoesTo(C, D)
            BY <3>1 DEF GoesTo
        <3> QED
            BY <3>1, <3>2, <3>3, <3>5
    <2>3. CASE Runs!RenameFails(c)
        <3>1. /\ FindShape' /\ WritesOn(c) /\ s \in Research /\ C.pc = "rename" /\ findings' = findings
              /\ D.round = C.round /\ D.base = C.base /\ D.removed = C.removed /\ D.replaced = C.replaced
              /\ D.pc = Runs!Decided(C.again)
            BY <1>0, <2>3, RenameFailsShape
        <3>2. Number(findings[s]) \in Nat
            BY <1>0, <3>1, CountsAreNumbers
        <3>5. GoesTo(C, D)
            BY <3>1 DEF GoesTo
        <3>6. D.removed = C.removed + 0 /\ Number(findings'[s]) + 0 = Number(findings[s])
            BY <2>0, <3>1, <3>2
        <3> QED
            BY <3>1, <3>5, <3>6
    <2> QED
        BY <2>1, <2>2, <2>3
<1>2. /\ UNCHANGED <<scene, saving, finds>> /\ c \in DOMAIN scene.study /\ D \in Locals
      /\ \A d \in Coordinator \ {c} : coordinator'[d] = coordinator[d]
    BY <1>0, <1>1 DEF WritesOn, FindShape
<1>3. /\ (\A x \in Research : Number(findings[x]) \in Nat)
      /\ (\A x \in Research : Number(findings'[x]) \in Nat)
    BY <1>0, <1>1, NumbersAre, NumbersAfter DEF Numbers
<1>4. Number(findings'[s]) + k <= Number(findings[s])
    BY <1>1, <1>3
<1>5. ASSUME NEW x \in Research PROVE Number(findings'[x]) <= Number(findings[x])
    <2>1. CASE x = s
        BY <1>1, <1>3, <2>1
    <2>2. CASE x # s
        BY <1>1, <1>3, <2>2
    <2> QED
        BY <2>1, <2>2
<1> QED
    BY <1>0, <1>1, <1>2, <1>4, <1>5, MovesFit

LEMMA CountsAbort ==
    ASSUME FilesInv, CountsFit, NEW c \in Coordinator, Runs!HardAbort(c)
    PROVE  CountsFit'
<1>0. FindShape /\ RunFits(c)
    BY EachFits DEF FilesInv
<1> DEFINE s == Runs!Study(c)
           D == coordinator'[c]
<1>1. /\ FindShape' /\ WritesOn(c) /\ s \in Research
      /\ D.pc = "dropped" /\ D.replaced = 0 /\ D.removed = 0 /\ D.round = 0
      /\ \/ findings' = findings
         \/ coordinator[c].pc = "rename" /\ findings' = [findings EXCEPT ![s] = coordinator[c].rest]
    BY <1>0, HardAbortShape
<1>2. /\ UNCHANGED <<scene, saving, finds>>
      /\ \A d \in Coordinator \ {c} : coordinator'[d] = coordinator[d]
    BY <1>0, <1>1 DEF WritesOn, FindShape
<1>3. /\ (\A x \in Research : Number(findings[x]) \in Nat) /\ Used \in Nat
      /\ (\A x \in Research : Number(findings'[x]) \in Nat)
    BY <1>0, <1>1, NumbersAre, NumbersAfter DEF Numbers
<1>4. ASSUME NEW x \in Research PROVE Number(findings'[x]) <= Number(findings[x])
    <2>1. CASE findings' = findings
        BY <1>3, <2>1
    <2>2. CASE coordinator[c].pc = "rename" /\ findings' = [findings EXCEPT ![s] = coordinator[c].rest]
        <3>1. /\ Len(findings[s]) - Len(coordinator[c].rest) \in Nat
              /\ Number(coordinator[c].rest) + (Len(findings[s]) - Len(coordinator[c].rest)) = Number(findings[s])
            BY <1>0, <2>2, ClearedFile
        <3>2. findings'[s] = coordinator[c].rest /\ \A y \in Research \ {s} : findings'[y] = findings[y]
            BY <1>0, <1>1, <2>2 DEF FindShape
        <3>3. Number(findings'[s]) = Number(coordinator[c].rest) /\ Number(findings[s]) \in Nat /\ Number(findings'[s]) \in Nat
            BY <1>1, <1>3, <3>2
        <3>4. Number(findings'[s]) <= Number(findings[s])
            <4> DEFINE n == Number(findings[s])
                       m == Number(findings'[s])
                       k == Len(findings[s]) - Len(coordinator[c].rest)
            <4>1. n \in Nat /\ m \in Nat /\ k \in Nat /\ m + k = n
                BY <3>1, <3>3
            <4> HIDE DEF n, m, k
            <4>2. m <= n
                BY <4>1
            <4> QED
                BY <4>2 DEF n, m
        <3> QED
            BY <1>3, <3>2, <3>4
    <2> QED
        BY <1>1, <2>1, <2>2
<1>5. CountFits(D, Number(findings'[s]), Cardinality(Unsaved), Used)
    BY <1>1, <1>3, DroppedFits
<1> QED
    BY <1>0, <1>1, <1>2, <1>4, <1>5, CoordinatorFits

\* A step of a save.
LEMMA OneFileNumber ==
    ASSUME FindShape, FindShape', NEW s \in Research, NEW g, findings' = [findings EXCEPT ![s] = g],
           NEW k \in Nat, Number(g) <= Number(findings[s]) + k
    PROVE  \A x \in Research : Number(findings'[x]) <= Number(findings[x]) + k
<1>1. \A x \in Research : findings'[x] = IF x = s THEN g ELSE findings[x]
    BY DEF FindShape
<1>2. \A x \in Research : Number(findings[x]) \in Nat
    BY NumbersAre DEF Numbers
<1> QED
    BY <1>1, <1>2

LEMMA CountsBeginSave ==
    ASSUME FindShape, RunsInv, CountsFit, NEW c \in Coordinator, Runs!BeginSave(c)
    PROVE  CountsFit'
<1>1. /\ FindShape' /\ UNCHANGED <<scene, findings, coordinator>>
      /\ saving[c].pc = "idle" /\ saving'[c].pc = "wait" /\ finds' = finds - 1
      /\ \A d \in Coordinator \ {c} : saving'[d] = saving[d]
    BY BeginSaveShape
<1>2. c \notin Unsaved /\ c \in Unsaved'
    BY <1>1 DEF Unsaved
<1>3. IsFiniteSet(Unsaved) /\ scene.finds \in Nat /\ finds \in Nat
    BY CountsAreNumbers, TheScene DEF FindShape
<1>4. Cardinality(Unsaved') = Cardinality(Unsaved) + 1
    BY <1>1, <1>2, <1>3, PendingAfter
<1>5. Used' = Used + 1
    BY <1>1, <1>3 DEF Used
<1>6. /\ Cardinality(Unsaved) \in Nat /\ Used \in Nat /\ Cardinality(Unsaved) <= Used
      /\ \A s \in Research : Number(findings[s]) \in Nat
    BY NumbersAre DEF Numbers, CountsFit
<1>7. Used <= Used' /\ Cardinality(Unsaved') <= Used'
    BY <1>4, <1>5, <1>6
<1>8. \A s \in Research :
        Number(findings'[s]) + Cardinality(Unsaved') + Used <= Number(findings[s]) + Cardinality(Unsaved) + Used'
    BY <1>1, <1>4, <1>5, <1>6
<1> QED
    BY <1>1, <1>7, <1>8, CountsAfter

LEMMA CountsSave ==
    ASSUME FilesInv, RunsInv, CountsFit, NEW c \in Coordinator,
           \/ Runs!Take(c) \/ Runs!Land(c) \/ Runs!Tell(c) \/ Runs!StopAgent(c)
           \/ Runs!AgentEnds(c) \/ Runs!FailSave(c)
    PROVE  CountsFit'
<1>0. FindShape /\ SaveFits(c)
    BY EachFits DEF FilesInv
<1> DEFINE handed == saving[c].pc \in {"append", "rewrite"}
<1>1. /\ FindShape' /\ UNCHANGED <<scene, coordinator, finds>>
      /\ \A d \in Coordinator \ {c} : saving'[d] = saving[d]
      /\ c \in Unsaved' => c \in Unsaved
      /\ \/ findings' = findings
         \/ \E s \in Research : \E g \in {findings[s], Runs!Parsed(findings[s])} : findings' = [findings EXCEPT ![s] = g]
         \/ handed /\ findings' = [findings EXCEPT ![saving[c].spec] = Runs!Appended(findings[saving[c].spec], Runs!Torn)]
         \/ /\ handed /\ c \notin Unsaved'
            /\ findings' = [findings EXCEPT ![saving[c].spec] = Runs!Written(c)]
    <2>1. CASE Runs!Take(c)
        <3> DEFINE s == saving[c].spec
        <3>1. /\ FindShape' /\ UNCHANGED <<scene, coordinator, finds>> /\ saving[c].pc = "wait"
              /\ \A d \in Coordinator \ {c} : saving'[d] = saving[d]
              /\ findings' = [findings EXCEPT ![s] = findings'[s]]
              /\ findings'[s] \in {Runs!Loaded(s), Runs!Parsed(findings[s])}
            BY <1>0, <2>1, TakeShape
        <3>2. s \in Research /\ findings'[s] \in {findings[s], Runs!Parsed(findings[s])}
            BY <1>0, <3>1, SavedSpec, LoadedFile
        <3>3. c \in Unsaved
            BY <3>1 DEF Unsaved
        <3>4. PICK x \in Research : x = s
            BY <3>2
        <3>5. PICK g \in {findings[x], Runs!Parsed(findings[x])} : findings' = [findings EXCEPT ![x] = g]
            BY <3>1, <3>2, <3>4
        <3> QED
            BY <3>1, <3>3, <3>5
    <2>2. CASE Runs!Land(c)
        <3>1. /\ FindShape' /\ EndsSave(c) /\ handed
              /\ findings' = [findings EXCEPT ![saving[c].spec] = Runs!Written(c)]
            BY <1>0, <2>2, LandShape
        <3>2. c \in Unsaved /\ c \notin Unsaved'
            BY <3>1 DEF Unsaved, EndsSave
        <3> QED
            BY <3>1, <3>2 DEF EndsSave
    <2>3. CASE Runs!Tell(c)
        <3> DEFINE s == saving[c].spec
        <3>1. /\ FindShape' /\ EndsSave(c) /\ saving[c].pc = "tell"
              /\ findings' = [findings EXCEPT ![s] = Runs!Parsed(findings[s])]
            BY <1>0, <2>3, TellShape
        <3>2. c \notin Unsaved'
            BY <3>1 DEF Unsaved, EndsSave
        <3>3. s \in Research
            BY <1>0, <3>1, SavedSpec
        <3> QED
            BY <3>1, <3>2, <3>3 DEF EndsSave
    <2>4. CASE Runs!StopAgent(c)
        <3>1. /\ FindShape' /\ EndsSave(c) /\ saving'[c].pc = "idle"
              /\ findings' = findings \/ (handed /\ findings' = [findings EXCEPT ![saving[c].spec] = Runs!Written(c)])
            BY <1>0, <2>4, StopAgentShape
        <3>2. c \notin Unsaved'
            BY <3>1 DEF Unsaved
        <3> QED
            BY <3>1, <3>2 DEF EndsSave
    <2>5. CASE Runs!AgentEnds(c)
        <3>1. FindShape' /\ EndsSave(c) /\ UNCHANGED <<findings, saving>>
            BY <1>0, <2>5, AgentEndsShape
        <3>2. c \in Unsaved' => c \in Unsaved
            BY <3>1 DEF Unsaved
        <3> QED
            BY <3>1, <3>2 DEF EndsSave
    <2>6. CASE Runs!FailSave(c)
        <3>1. /\ FindShape' /\ EndsSave(c) /\ handed /\ saving'[c].pc = "idle"
              /\ \/ findings' = [findings EXCEPT ![saving[c].spec] = Runs!Appended(findings[saving[c].spec], Runs!Torn)]
                 \/ findings' = findings
            BY <1>0, <2>6, FailSaveShape
        <3>2. c \notin Unsaved'
            BY <3>1 DEF Unsaved
        <3> QED
            BY <3>1, <3>2 DEF EndsSave
    <2> QED
        BY <2>1, <2>2, <2>3, <2>4, <2>5, <2>6
<1>2. \A x \in Research : Number(findings[x]) \in Nat /\ Number(findings'[x]) \in Nat
    BY <1>0, <1>1, NumbersAre, NumbersAfter DEF Numbers
<1>3. CASE findings' = findings
    <2>1. \A x \in Research : Number(findings'[x]) <= Number(findings[x])
        BY <1>2, <1>3
    <2> QED
        BY <1>0, <1>1, <2>1, SavesFit
<1>4. ASSUME NEW s \in Research, NEW g \in {findings[s], Runs!Parsed(findings[s])}, findings' = [findings EXCEPT ![s] = g]
      PROVE  CountsFit'
    <2>1. \A x \in Research : Number(findings'[x]) = Number(findings[x])
        BY <1>0, <1>4, HealedNumber
    <2>2. \A x \in Research : Number(findings'[x]) <= Number(findings[x])
        BY <1>2, <2>1
    <2> QED
        BY <1>0, <1>1, <2>2, SavesFit
<1>5. CASE handed /\ findings' = [findings EXCEPT ![saving[c].spec] = Runs!Appended(findings[saving[c].spec], Runs!Torn)]
    <2>1. saving[c].spec \in Research /\ findings[saving[c].spec] \in Seq(Row)
        BY <1>0, <1>5, SavedSpec
    <2>2. PICK s \in Research : s = saving[c].spec
        BY <2>1
    <2>3. PICK g : g = Runs!Appended(findings[s], Runs!Torn)
        OBVIOUS
    <2>4. Number(g) <= Number(findings[s])
        BY <2>1, <2>2, <2>3, LinesAreRows, AppendedRows
    <2>5. findings' = [findings EXCEPT ![s] = g]
        BY <1>5, <2>2, <2>3
    <2>6. \A x \in Research : findings'[x] = IF x = s THEN g ELSE findings[x]
        BY <1>0, <2>5 DEF FindShape
    <2>7. \A x \in Research : Number(findings'[x]) <= Number(findings[x])
        BY <1>2, <2>4, <2>6
    <2> QED
        BY <1>0, <1>1, <2>7, SavesFit
<1>6. CASE handed /\ c \notin Unsaved' /\ findings' = [findings EXCEPT ![saving[c].spec] = Runs!Written(c)]
    <2>1. saving[c].spec \in Research
        BY <1>0, <1>6, SavedSpec
    <2>2. PICK s \in Research : s = saving[c].spec
        BY <2>1
    <2>3. PICK g : g = Runs!Written(c)
        OBVIOUS
    <2>4. Number(g) <= Number(findings[s]) + 1
        BY <1>0, <1>6, <2>2, <2>3, WrittenFile
    <2>5. findings' = [findings EXCEPT ![s] = g]
        BY <1>6, <2>2, <2>3
    <2>6. c \in Unsaved
        BY <1>6 DEF Unsaved
    <2>7. \A x \in Research : Number(findings'[x]) <= Number(findings[x]) + 1
        BY <1>0, <1>1, <2>4, <2>5, OneFileNumber
    <2> QED
        BY <1>0, <1>1, <1>6, <2>6, <2>7, SavesFit
<1> QED
    BY <1>1, <1>3, <1>4, <1>5, <1>6

LEMMA CountsCrash ==
    ASSUME FilesInv, CountsFit, Runs!Crash
    PROVE  CountsFit'
<1>0. FindShape /\ \A c \in Coordinator : SaveFits(c) /\ RunFits(c)
    BY EachFits DEF FilesInv
<1>1. /\ FindShape' /\ UNCHANGED <<scene, finds>>
      /\ \A c \in Coordinator :
           /\ coordinator'[c] = IF c \in Runs!Holding THEN [Runs!Queued EXCEPT !.pc = "dropped"] ELSE coordinator[c]
           /\ saving'[c].pc = "idle"
    BY <1>0, CrashShape
<1>2. Unsaved' = {}
    BY <1>1 DEF Unsaved
<1>3. Cardinality(Unsaved') = 0 /\ Used' = Used /\ Used \in Nat
    BY <1>0, <1>1, <1>2, FS_EmptySet, NumbersAre DEF Used, Numbers
<1> SUFFICES ASSUME NEW c \in Coordinator, scene'.rounds[c] <= 2
             PROVE  CountFits(coordinator'[c], Number(findings'[Runs!Study(c)']), 0, Used)
    BY <1>3 DEF CountsFit
<1>4. CASE c \in Runs!Holding
    <2>1. coordinator'[c] = [Runs!Queued EXCEPT !.pc = "dropped"]
        BY <1>1, <1>4
    <2>2. /\ coordinator'[c].pc = "dropped" /\ coordinator'[c].round = 0
          /\ coordinator'[c].removed = 0 /\ coordinator'[c].replaced = 0
        BY <2>1 DEF Runs!Queued
    <2> QED
        BY <1>3, <2>2, DroppedFits
<1>5. CASE c \notin Runs!Holding
    <2>1. coordinator'[c] = coordinator[c] /\ ~ BetweenCounts(coordinator[c])
        BY <1>1, <1>5 DEF Runs!Holding, BetweenCounts
    <2>2. CountFits(coordinator[c], Number(findings[Runs!Study(c)]), Cardinality(Unsaved), Used)
        BY <1>1 DEF CountsFit
    <2> QED
        BY <2>1, <2>2 DEF CountFits
<1> QED
    BY <1>4, <1>5

\* What is known of the research runs.
LEMMA ResearchBegins == Runs!Init => ResearchInv
BY RunsBegin, FilesBegin, OwnBegins, CountsBegin, FindShapeBegins DEF ResearchInv, FilesInv

LEMMA ResearchStep == ResearchInv /\ Runs!Next => ResearchInv'
<1> SUFFICES ASSUME ResearchInv, Runs!Next PROVE ResearchInv'
    OBVIOUS
<1>1. RunsInv /\ FindShape /\ FilesInv /\ OwnInv /\ CountsFit
    BY DEF ResearchInv, FilesInv
<1>2. RunsInv' /\ FilesInv'
    BY <1>1, RunsStep, FilesStep
<1>3. OwnInv' /\ CountsFit'
    <2>1. CASE Runs!Crash
        BY <1>1, <2>1, OwnCrash, CountsCrash
    <2>2. ASSUME NEW c \in Coordinator,
              \/ Runs!Take(c) \/ Runs!Land(c) \/ Runs!Tell(c) \/ Runs!StopAgent(c)
              \/ Runs!AgentEnds(c) \/ Runs!FailSave(c)
          PROVE  OwnInv' /\ CountsFit'
        BY <1>1, <1>2, <2>2, OwnSaves, CountsSave
    <2>3. ASSUME NEW c \in Coordinator, Runs!BeginSave(c) PROVE OwnInv' /\ CountsFit'
        BY <1>1, <1>2, <2>3, OwnSaves, CountsBeginSave
    <2>4. ASSUME NEW c \in Coordinator,
              \/ Runs!Acquire(c) \/ Runs!Paused(c) \/ Runs!Open(c) \/ Runs!Launch(c) \/ Runs!Refused(c)
              \/ Runs!Drained(c) \/ Runs!Wall(c) \/ Runs!Cleanup(c) \/ Runs!Final(c) \/ Runs!Cancel(c)
          PROVE  OwnInv' /\ CountsFit'
        BY <1>1, <1>2, <2>4, OwnMoves, CountsMove
    <2>5. ASSUME NEW c \in Coordinator, Runs!Judge(c) PROVE OwnInv' /\ CountsFit'
        BY <1>1, <1>2, <2>5, OwnMoves, CountsJudge
    <2>6. ASSUME NEW c \in Coordinator, Runs!Record(c) PROVE OwnInv' /\ CountsFit'
        BY <1>1, <1>2, <2>6, OwnMoves, CountsRecord
    <2>7. ASSUME NEW c \in Coordinator, Runs!RemoveDead(c) \/ Runs!Rename(c) \/ Runs!RenameFails(c)
          PROVE  OwnInv' /\ CountsFit'
        BY <1>1, <1>2, <2>7, OwnRemoves, CountsRemove
    <2>8. ASSUME NEW c \in Coordinator, Runs!HardAbort(c) PROVE OwnInv' /\ CountsFit'
        BY <1>1, <1>2, <2>8, OwnRemoves, CountsAbort
    <2> QED
        BY <2>1, <2>2, <2>3, <2>4, <2>5, <2>6, <2>7, <2>8, Zenon DEF Runs!Next, Runs!Progress
<1> QED
    BY <1>2, <1>3 DEF ResearchInv, FilesInv

LEMMA ResearchStays == ResearchInv /\ UNCHANGED research => ResearchInv'
<1> SUFFICES ASSUME ResearchInv, UNCHANGED research PROVE ResearchInv'
    OBVIOUS
<1>1. UNCHANGED <<scene, findings, known, guarded, context, coordinator, finder, saving, finds, trouble, kept, spoiled>>
    BY DEF research
<1>2. \A c \in Coordinator : Runs!Study(c)' = Runs!Study(c)
    BY <1>1 DEF Runs!Study
<1>3. RunsInv'
    BY RunsStay DEF ResearchInv
<1>4. FindShape'
    BY <1>1 DEF ResearchInv, FindShape, SaveShape
<1>5. FileMutex'
    BY <1>1, <1>2 DEF ResearchInv, FileMutex, Holds, SaveHolds, RunHolds
<1>6. FilesFit'
    BY <1>1, <1>2 DEF ResearchInv, FilesFit, SaveFits, RunFits, FileFits
<1>7. OwnInv'
    BY <1>1, <1>2 DEF ResearchInv, OwnInv, OneRunAtATime, ContextFits, RowsFit, RowsOwn, OneByOne, Runs!Holding
<1>8. CountsFit'
    BY <1>1, <1>2 DEF ResearchInv, CountsFit, CountFits, BetweenCounts, Used, Unsaved
<1> QED
    BY <1>3, <1>4, <1>5, <1>6, <1>7, <1>8 DEF ResearchInv

\* What a run reports, and where what it found is.
LEMMA ReportsFit == ResearchInv => Runs!OverMeansStopped /\ Runs!ReplacementsWereSaved
<1> SUFFICES ASSUME ResearchInv PROVE Runs!OverMeansStopped /\ Runs!ReplacementsWereSaved
    OBVIOUS
<1>1. Runs!OverMeansStopped
    BY DEF ResearchInv, RunsInv, CleansUp, Runs!OverMeansStopped, Runs!At
<1>2. Runs!ReplacementsWereSaved
    BY DEF ResearchInv, CountsFit, CountFits, Used, Runs!ReplacementsWereSaved
<1> QED
    BY <1>1, <1>2

-----------------------------------------------------------------------------
(***************************************************************************)
(* The memory: the lists of MEMORY.md and of its writers.                  *)
(***************************************************************************)

Kinds == {"store", "promote", "delete", "recall", "fold"}
Adding == {"store", "promote"}
\* Rules that come back as they were written.
ReadRules == {r \in Rule : ReadAs[r] = r}
EntryType == [type : 1..Sections, says : SUBSET ReadRules, summary : BOOLEAN]
OneOfEach(list) ==
    \A i, j \in DOMAIN list, r \in Rule \ Memory!Cut :
        Memory!Is(list[i], r) /\ Memory!Is(list[j], r) => i = j
GoodLists == {list \in Seq(EntryType) : OneOfEach(list)}
Good(list) == list \in GoodLists
Job == [at : {"idle", "load", "open", "write", "rename", "done", "failed"}, kind : Kinds \cup {None},
        rule : Rule \cup {None}, list : GoodLists, file : Files \cup {None}, gone : SUBSET Rule]
HoldsAll(list, rules) == \A r \in rules : \E i \in DOMAIN list : r \in list[i].says
WriterAt == {"open", "write", "rename"}

\* What is told to be stored once the writer is done.
ToldAfter(j) == (told \ j.gone) \cup (IF j.kind \in Adding THEN {ReadAs[j.rule]} ELSE {})

ListsFit ==
    /\ lines \in [Files -> GoodLists]
    /\ memory_md \in Files /\ memory_tmp \in Files \cup {None}
    /\ job \in [Writer \cup {"digest"} -> Job]
    /\ \A w \in DOMAIN job : job[w].at \in {"load"} \cup WriterAt =>
            job[w].kind \in Kinds /\ (job[w].kind \in Adding => job[w].rule \in Rule)

\* As long as no two writers overlapped.
OneWriter ==
    /\ memory_tmp # memory_md /\ HoldsAll(lines[memory_md], told)
    /\ \A v, w \in DOMAIN job : job[v].at \in WriterAt /\ job[w].at \in WriterAt => v = w
    /\ \A w \in DOMAIN job :
        /\ job[w].at \in WriterAt => HoldsAll(job[w].list, ToldAfter(job[w]))
        /\ job[w].at = "write" => job[w].file = memory_tmp /\ memory_tmp # None
        /\ job[w].at = "rename" /\ memory_tmp # None => lines[memory_tmp] = job[w].list

DigestFits ==
    /\ drafts \in [1..MaxDay -> SUBSET ReadRules] /\ day \in 1..MaxDay
    /\ last_digest \in Nat /\ last_digest <= day /\ planned \subseteq ReadRules
    /\ \A d \in seen_days : d \in 1..day
    /\ digest # "idle" => last_digest < day
    /\ digest = "fold" \/ last_digest = day => planned = {}
    /\ day \in seen_days => \A r \in Explicit, d \in 1..(day - 1) :
        d + Lookback > day /\ r \in drafts[d] => r \in planned \cup ever

MemoryInv == ListsFit /\ (raced \/ OneWriter) /\ DigestFits

LEMMA MemoryNumbers ==
    /\ MaxRules \in Nat /\ MaxRules > 0 /\ FoldWindow \in Nat /\ FoldWindow > 0
    /\ MaxDay \in Nat /\ MaxDay > 0 /\ Lookback \in Nat /\ Sections \in Nat
    /\ IsFiniteSet(Writer) /\ IsFiniteSet(Files) /\ None \notin Files
    /\ Cardinality(Writer) \in Nat /\ Cardinality(Files) \in Nat
    /\ Cardinality(Files) >= Cardinality(Writer) + 3
BY MemoryAssumption, FS_CardinalityType

\* A rule is read as one that stays; its entry speaks for that one.
LEMMA LineIs ==
    ASSUME NEW r \in Rule
    PROVE  /\ ReadAs[r] \in ReadRules /\ Memory!Line(r) \in EntryType
           /\ Memory!Line(r).says = {ReadAs[r]}
           /\ \A q \in Rule \ Memory!Cut : Memory!Is(Memory!Line(r), q) => q = r
<1>1. /\ ReadAs[r] \in ReadRules /\ Section[r] \in 1..Sections
    BY MemoryAssumption DEF ReadRules
<1>2. Memory!Line(r) = [type |-> Section[r], says |-> {ReadAs[r]}, summary |-> FALSE]
    BY DEF Memory!Line
<1>3. \A q : Memory!Is(Memory!Line(r), q) => q = ReadAs[r]
    BY <1>2 DEF Memory!Is
<1>4. ReadAs[r] # r => ReadAs[r] \in Memory!Cut
    BY DEF Memory!Cut
<1>5. \A q \in Rule \ Memory!Cut : Memory!Is(Memory!Line(r), q) => q = r
    BY <1>3, <1>4, Zenon
<1>6. Memory!Line(r) \in EntryType /\ Memory!Line(r).says = {ReadAs[r]}
    BY <1>1, <1>2 DEF EntryType
<1> QED
    BY <1>1, <1>5, <1>6, Zenon

LEMMA MemoryLists ==
    /\ \A list, places : Memory!Kept(list, places) = Kept(list, places)
    /\ \A list, i : Memory!Without(list, i) = Kept(list, DOMAIN list \ {i})
BY DEF Memory!Kept, Kept, Memory!Sorted, Sorted, Memory!Cardinality, Cardinality, Memory!Without

LEMMA SomeEntries ==
    ASSUME NEW T, NEW list \in Seq(T), NEW places \in SUBSET DOMAIN list
    PROVE  /\ Kept(list, places) \in Seq(T)
           /\ \A k \in DOMAIN Kept(list, places) : \E n \in places : Kept(list, places)[k] = list[n]
           /\ \A n \in places : \E k \in DOMAIN Kept(list, places) : Kept(list, places)[k] = list[n]
<1> DEFINE some == Kept(list, places)
<1>1. /\ some \in Seq(T)
      /\ \A k \in DOMAIN some : Sorted(places)[k] \in places /\ some[k] = list[Sorted(places)[k]]
      /\ \A n \in places : \E k \in DOMAIN some : Sorted(places)[k] = n
    BY KeptEntries
<1> HIDE DEF some
<1>2. ASSUME NEW k \in DOMAIN some PROVE \E n \in places : some[k] = list[n]
    BY <1>1, Zenon
<1>3. ASSUME NEW n \in places PROVE \E k \in DOMAIN some : some[k] = list[n]
    BY <1>1, Zenon
<1> QED
    BY <1>1, <1>2, <1>3, Zenon DEF some

LEMMA SaysRules ==
    ASSUME NEW list, Good(list), NEW i \in DOMAIN list
    PROVE  list[i].says \in SUBSET ReadRules /\ list[i].type \in 1..Sections
<1>1. list[i] \in EntryType
    BY DEF Good, GoodLists
<1> QED
    BY <1>1 DEF EntryType

\* Entries that are taken out leave the others as they are.
LEMMA TakenOut ==
    ASSUME NEW list, Good(list), NEW places \in SUBSET DOMAIN list
    PROVE  /\ Good(Kept(list, places))
           /\ \A i \in places : \E k \in DOMAIN Kept(list, places) : Kept(list, places)[k] = list[i]
<1> DEFINE some == Kept(list, places)
<1>1. list \in Seq(EntryType)
    BY DEF Good, GoodLists
<1>2. /\ some \in Seq(EntryType)
      /\ \A k \in DOMAIN some : Sorted(places)[k] \in places /\ some[k] = list[Sorted(places)[k]]
      /\ \A n \in places : \E k \in DOMAIN some : Sorted(places)[k] = n
      /\ \A j, k \in DOMAIN some : j < k => Sorted(places)[j] < Sorted(places)[k]
    BY <1>1, KeptEntries
<1> HIDE DEF some
<1>3. OneOfEach(some)
    <2> SUFFICES ASSUME NEW i \in DOMAIN some, NEW j \in DOMAIN some, NEW r \in Rule \ Memory!Cut,
                        Memory!Is(some[i], r), Memory!Is(some[j], r)
                 PROVE  i = j
        BY Zenon DEF OneOfEach
    <2> DEFINE m == Sorted(places)[i]
               n == Sorted(places)[j]
    <2>1. m \in DOMAIN list /\ n \in DOMAIN list /\ Memory!Is(list[m], r) /\ Memory!Is(list[n], r)
        BY <1>2, Zenon
    <2>2. m = n
        BY <2>1, Zenon DEF Good, GoodLists, OneOfEach
    <2>3. ~ (i < j) /\ ~ (j < i)
        <3>1. m \in Nat
            BY <1>1, <2>1
        <3>2. ~ (m < m)
            BY <3>1
        <3> QED
            BY <1>2, <2>2, <3>2, Zenon
    <2> HIDE DEF m, n
    <2> QED
        BY <1>2, <2>3
<1> QED
    BY <1>2, <1>3, Zenon DEF some, Good, GoodLists

\* What the entries that are taken out do not say is still said.
LEMMA OthersSay ==
    ASSUME NEW list, Good(list), NEW places \in SUBSET DOMAIN list, NEW gone, NEW R, HoldsAll(list, R),
           \A i \in DOMAIN list : i \in places \/ list[i].says \subseteq gone
    PROVE  HoldsAll(Kept(list, places), R \ gone)
<1> SUFFICES ASSUME NEW q \in R \ gone
             PROVE  \E k \in DOMAIN Kept(list, places) : q \in Kept(list, places)[k].says
    BY Zenon DEF HoldsAll
<1>1. PICK i \in DOMAIN list : q \in list[i].says
    BY Zenon DEF HoldsAll
<1>2. i \in places
    BY <1>1
<1>3. PICK k \in DOMAIN Kept(list, places) : Kept(list, places)[k] = list[i]
    BY <1>2, TakenOut, Zenon
<1>4. q \in Kept(list, places)[k].says
    BY <1>1, <1>3
<1> QED
    BY <1>4, Zenon

\* A rule that is added is there; only what the evicted entry said may be gone.
LEMMA AddedFits ==
    ASSUME NEW list, Good(list), NEW r \in Rule, NEW c \in Memory!Added(list, r)
    PROVE  /\ Good(c.list) /\ c.gone \in SUBSET Rule /\ HoldsAll(c.list, {ReadAs[r]})
           /\ \A R : HoldsAll(list, R) => HoldsAll(c.list, R \ c.gone)
<1>1. list \in Seq(EntryType) /\ Len(list) \in Nat
    BY DEF Good, GoodLists
<1>2. CASE Memory!Has(list, r)
    <2>1. c = Memory!Change(list, {})
        BY <1>2, Zenon DEF Memory!Added
    <2>2. c.list = list /\ c.gone = {}
        BY <2>1 DEF Memory!Change
    <2>3. PICK i \in DOMAIN list : list[i].says = {r}
        BY <1>2 DEF Memory!Has, Memory!Is
    <2>4. list[i].says \in SUBSET ReadRules
        BY SaysRules
    <2>5. ReadAs[r] = r
        BY <2>3, <2>4 DEF ReadRules
    <2>6. HoldsAll(list, {ReadAs[r]})
        BY <2>3, <2>5 DEF HoldsAll
    <2> QED
        BY <2>2, <2>6, Zenon DEF HoldsAll
<1>3. CASE ~ Memory!Has(list, r)
    <2> DEFINE longer == Append(list, Memory!Line(r))
    <2>1. /\ longer \in Seq(EntryType) /\ Len(longer) = Len(list) + 1
          /\ \A i \in DOMAIN list : i \in DOMAIN longer /\ longer[i] = list[i] /\ i # Len(list) + 1
          /\ longer[Len(list) + 1] = Memory!Line(r) /\ Len(list) + 1 \in DOMAIN longer
          /\ \A i \in DOMAIN longer : i = Len(list) + 1 \/ i \in DOMAIN list
        BY <1>1, LineIs
    <2>2. \A i \in DOMAIN list : ~ Memory!Is(list[i], r)
        BY <1>3, Zenon DEF Memory!Has
    <2> HIDE DEF longer
    <2>3. OneOfEach(longer)
        <3> SUFFICES ASSUME NEW i \in DOMAIN longer, NEW j \in DOMAIN longer, NEW q \in Rule \ Memory!Cut,
                            Memory!Is(longer[i], q), Memory!Is(longer[j], q)
                     PROVE  i = j
            BY Zenon DEF OneOfEach
        <3>1. CASE i \in DOMAIN list /\ j \in DOMAIN list
            BY <2>1, <3>1, Zenon DEF Good, GoodLists, OneOfEach
        <3>2. CASE i = Len(list) + 1 /\ j = Len(list) + 1
            BY <3>2
        <3>3. CASE (i = Len(list) + 1 /\ j \in DOMAIN list) \/ (j = Len(list) + 1 /\ i \in DOMAIN list)
            <4>1. Memory!Is(Memory!Line(r), q)
                BY <2>1, <3>3, Zenon
            <4>2. q = r
                BY <4>1, LineIs, Zenon
            <4> QED
                BY <2>1, <2>2, <3>3, <4>2, Zenon
        <3> QED
            BY <2>1, <3>1, <3>2, <3>3, Zenon
    <2>4. Good(longer)
        BY <2>1, <2>3, Zenon DEF Good, GoodLists
    <2>5. /\ longer[Len(list) + 1].says = {ReadAs[r]}
          /\ HoldsAll(longer, {ReadAs[r]}) /\ \A R : HoldsAll(list, R) => HoldsAll(longer, R)
        <3>1. longer[Len(list) + 1].says = {ReadAs[r]}
            BY <2>1, LineIs
        <3>2. HoldsAll(longer, {ReadAs[r]})
            BY <2>1, <3>1 DEF HoldsAll
        <3> QED
            BY <2>1, <3>1, <3>2, Zenon DEF HoldsAll
    <2>6. CASE Len(list) < MaxRules
        <3>1. c = Memory!Change(longer, {})
            BY <1>3, <2>6, Zenon DEF Memory!Added, longer
        <3>2. c.list = longer /\ c.gone = {}
            BY <3>1 DEF Memory!Change
        <3> QED
            BY <2>4, <2>5, <3>2, Zenon DEF HoldsAll
    <2>7. CASE ~ (Len(list) < MaxRules)
        <3>1. c \in {Memory!Change(Memory!Evict(longer, i), list[i].says) : i \in Memory!Firsts(list)}
            BY <1>3, <2>7, Zenon DEF Memory!Added, longer
        <3>2. PICK i \in DOMAIN list : c = Memory!Change(Memory!Evict(longer, i), list[i].says)
            BY <3>1, Zenon DEF Memory!Firsts
        <3> DEFINE P == DOMAIN longer \ {i}
        <3>3. c.list = Kept(longer, P) /\ c.gone = list[i].says
            BY <3>2, MemoryLists, Zenon DEF Memory!Change, Memory!Evict
        <3>4. c.gone \in SUBSET Rule
            BY <3>3, SaysRules DEF ReadRules
        <3>5. /\ P \in SUBSET DOMAIN longer /\ Len(list) + 1 \in P
              /\ \A j \in DOMAIN longer : j \in P \/ longer[j].says \subseteq c.gone
            BY <2>1, <3>3, Zenon
        <3> HIDE DEF P
        <3>6. Good(Kept(longer, P))
            BY <2>4, <3>5, TakenOut, Zenon
        <3>7. HoldsAll(Kept(longer, P), {ReadAs[r]})
            <4>1. PICK k \in DOMAIN Kept(longer, P) : Kept(longer, P)[k] = longer[Len(list) + 1]
                BY <2>4, <3>5, TakenOut, Zenon
            <4> QED
                BY <2>5, <4>1 DEF HoldsAll
        <3>8. \A R : HoldsAll(list, R) => HoldsAll(Kept(longer, P), R \ c.gone)
            BY <2>4, <2>5, <3>5, OthersSay, Zenon
        <3> QED
            BY <3>3, <3>4, <3>6, <3>7, <3>8, Zenon
    <2> QED
        BY <2>6, <2>7
<1> QED
    BY <1>2, <1>3

LEMMA DeletedFits ==
    ASSUME NEW list, Good(list), NEW c \in Memory!Deleted(list)
    PROVE  /\ Good(c.list) /\ c.gone \in SUBSET Rule
           /\ \A R : HoldsAll(list, R) => HoldsAll(c.list, R \ c.gone)
<1>1. PICK i \in DOMAIN list : c = Memory!Change(Memory!Without(list, i), list[i].says)
    BY Zenon DEF Memory!Deleted
<1> DEFINE P == DOMAIN list \ {i}
<1>2. c.list = Kept(list, P) /\ c.gone = list[i].says
    BY <1>1, MemoryLists, Zenon DEF Memory!Change
<1>3. c.gone \in SUBSET Rule
    BY <1>2, SaysRules DEF ReadRules
<1>4. P \in SUBSET DOMAIN list /\ \A j \in DOMAIN list : j \in P \/ list[j].says \subseteq c.gone
    BY <1>2, Zenon
<1> HIDE DEF P
<1>5. Good(Kept(list, P))
    BY <1>4, TakenOut, Zenon
<1>6. \A R : HoldsAll(list, R) => HoldsAll(Kept(list, P), R \ c.gone)
    BY <1>4, OthersSay, Zenon
<1> QED
    BY <1>2, <1>3, <1>5, <1>6, Zenon

\* What a fold takes is said by the summary of its section, but for what is cut off.
LEMMA FoldedFits ==
    ASSUME NEW list, Good(list), NEW c \in Memory!Folded(list)
    PROVE  /\ Good(c.list) /\ c.gone \in SUBSET Rule
           /\ \A R : HoldsAll(list, R) => HoldsAll(c.list, R \ c.gone)
<1>1. PICK v \in Memory!Foldable(list) :
        c \in {Memory!Change(Memory!Merged(list, v, s), Memory!Said(list, v) \ s) : s \in SUBSET Memory!Said(list, v)}
    BY Zenon DEF Memory!Folded
<1>2. PICK s \in SUBSET Memory!Said(list, v) :
        c = Memory!Change(Memory!Merged(list, v, s), Memory!Said(list, v) \ s)
    BY <1>1, Zenon
<1> DEFINE P == DOMAIN list \ v
           types == {list[i].type : i \in v}
           told_in(t) == s \cap Memory!Said(list, Memory!Typed(list, v, t))
           summary == [t \in 1..Sections |-> [type |-> t, summary |-> TRUE, says |-> told_in(t)]]
           old == Kept(list, P)
           new == Kept(summary, types)
<1>3. list \in Seq(EntryType) /\ v \in SUBSET DOMAIN list /\ P \in SUBSET DOMAIN list
    BY Zenon DEF Good, GoodLists, Memory!Foldable
<1>4. /\ \A i \in v : list[i].says \in SUBSET ReadRules /\ list[i].type \in 1..Sections
      /\ Memory!Said(list, v) \in SUBSET ReadRules /\ s \in SUBSET ReadRules
    <2>1. \A i \in v : list[i].says \in SUBSET ReadRules /\ list[i].type \in 1..Sections
        BY <1>3, SaysRules
    <2> QED
        BY <2>1, Zenon DEF Memory!Said
<1>5. c.list = old \o new /\ c.gone = Memory!Said(list, v) \ s
    <2>1. c.list = Memory!Merged(list, v, s) /\ c.gone = Memory!Said(list, v) \ s
        BY <1>2, Zenon DEF Memory!Change
    <2>2. Memory!Merged(list, v, s) = old \o new
        BY MemoryLists, Zenon DEF Memory!Merged, Memory!Dropped, Memory!Summaries
    <2> QED
        BY <2>1, <2>2
<1>6. \A t \in 1..Sections : told_in(t) \in SUBSET ReadRules
    BY <1>4, Zenon
<1> HIDE DEF P, told_in
<1>7. /\ summary \in Seq(EntryType) /\ DOMAIN summary = 1..Sections
      /\ \A t \in 1..Sections : summary[t].summary = TRUE /\ summary[t].says = told_in(t)
    BY <1>6, MemoryNumbers DEF EntryType
<1>8. types \in SUBSET DOMAIN summary
    BY <1>4, <1>7
<1> HIDE DEF summary, types
<1>9. /\ new \in Seq(EntryType)
      /\ \A k \in DOMAIN new : new[k].summary = TRUE
      /\ \A t \in types : \E k \in DOMAIN new : new[k].says = told_in(t)
    <2>1. /\ new \in Seq(EntryType)
          /\ \A k \in DOMAIN new : \E t \in types : new[k] = summary[t]
          /\ \A t \in types : \E k \in DOMAIN new : new[k] = summary[t]
        BY <1>7, <1>8, SomeEntries, Zenon
    <2> HIDE DEF new
    <2>2. ASSUME NEW k \in DOMAIN new PROVE new[k].summary = TRUE
        BY <1>7, <1>8, <2>1
    <2>3. ASSUME NEW t \in types PROVE \E k \in DOMAIN new : new[k].says = told_in(t)
        BY <1>7, <1>8, <2>1
    <2> QED
        BY <2>1, <2>2, <2>3
<1>10. Good(old)
    BY <1>3, TakenOut, Zenon
<1> HIDE DEF old, new
<1>11. /\ old \o new \in Seq(EntryType)
       /\ \A i \in DOMAIN old : i \in DOMAIN (old \o new) /\ (old \o new)[i] = old[i]
       /\ \A k \in DOMAIN new : \E i \in DOMAIN (old \o new) : (old \o new)[i] = new[k]
       /\ \A i \in DOMAIN (old \o new) : i \in DOMAIN old \/ \E k \in DOMAIN new : (old \o new)[i] = new[k]
    <2>1. old \in Seq(EntryType) /\ Len(old) \in Nat /\ Len(new) \in Nat
        BY <1>9, <1>10 DEF Good, GoodLists
    <2>2. /\ old \o new \in Seq(EntryType) /\ Len(old \o new) = Len(old) + Len(new)
          /\ \A i \in 1..(Len(old) + Len(new)) :
                (old \o new)[i] = IF i <= Len(old) THEN old[i] ELSE new[i - Len(old)]
        BY <1>9, <2>1
    <2>3. /\ DOMAIN old = 1..Len(old) /\ DOMAIN new = 1..Len(new)
          /\ DOMAIN (old \o new) = 1..(Len(old) + Len(new))
        BY <1>9, <2>1, <2>2
    <2>4. ASSUME NEW k \in DOMAIN new PROVE \E i \in DOMAIN (old \o new) : (old \o new)[i] = new[k]
        <3>1. k + Len(old) \in 1..(Len(old) + Len(new)) /\ ~ (k + Len(old) <= Len(old)) /\ (k + Len(old)) - Len(old) = k
            BY <2>1, <2>3
        <3> QED
            BY <2>2, <2>3, <3>1
    <2>5. ASSUME NEW i \in DOMAIN (old \o new), i \notin DOMAIN old
          PROVE  \E k \in DOMAIN new : (old \o new)[i] = new[k]
        <3>1. i \in 1..(Len(old) + Len(new)) /\ ~ (i <= Len(old)) /\ i - Len(old) \in 1..Len(new)
            BY <2>1, <2>3, <2>5
        <3> QED
            BY <2>2, <2>3, <3>1
    <2>6. \A i \in DOMAIN old : i \in DOMAIN (old \o new) /\ (old \o new)[i] = old[i]
        BY <2>1, <2>2, <2>3
    <2> QED
        BY <2>2, <2>4, <2>5, <2>6
<1> DEFINE both == old \o new
<1> HIDE DEF both
<1>12. OneOfEach(both)
    <2> SUFFICES ASSUME NEW i \in DOMAIN both, NEW j \in DOMAIN both, NEW r \in Rule \ Memory!Cut,
                        Memory!Is(both[i], r), Memory!Is(both[j], r)
                 PROVE  i = j
        BY Zenon DEF OneOfEach
    <2>1. both[i].summary = FALSE /\ both[j].summary = FALSE
        BY <1>11 DEF Memory!Is, both, EntryType
    <2>2. i \in DOMAIN old /\ j \in DOMAIN old
        BY <1>9, <1>11, <2>1 DEF both
    <2> QED
        BY <1>10, <1>11, <2>2, Zenon DEF Good, GoodLists, OneOfEach, both
<1>13. Good(both)
    BY <1>11, <1>12, Zenon DEF Good, GoodLists, both
<1>14. ASSUME NEW R, HoldsAll(list, R), NEW q \in R \ c.gone PROVE \E i \in DOMAIN both : q \in both[i].says
    <2>1. PICK i \in DOMAIN list : q \in list[i].says
        BY <1>14, Zenon DEF HoldsAll
    <2>2. CASE i \in v
        <3>1. q \in Memory!Said(list, v) /\ q \in s
            BY <1>5, <1>14, <2>1, <2>2, Zenon DEF Memory!Said
        <3>2. list[i].type \in types /\ i \in Memory!Typed(list, v, list[i].type)
            BY <2>2 DEF types, Memory!Typed
        <3>3. q \in told_in(list[i].type)
            BY <2>1, <3>1, <3>2, Zenon DEF told_in, Memory!Said
        <3>4. PICK k \in DOMAIN new : new[k].says = told_in(list[i].type)
            BY <1>9, <3>2, Zenon
        <3>5. PICK n \in DOMAIN both : both[n] = new[k]
            BY <1>11, Zenon DEF both
        <3> QED
            BY <3>3, <3>4, <3>5
    <2>3. CASE i \notin v
        <3>1. PICK k \in DOMAIN old : old[k] = list[i]
            BY <1>3, <2>3, TakenOut, Zenon DEF P, old
        <3> QED
            BY <1>11, <2>1, <3>1, Zenon DEF both
    <2> QED
        BY <2>2, <2>3
<1>15. c.gone \in SUBSET Rule
    BY <1>4, <1>5 DEF ReadRules
<1> QED
    BY <1>5, <1>13, <1>14, <1>15, Zenon DEF HoldsAll, both

\* Whatever a writer makes of the list it read, it holds what is told once it is done.
LEMMA ChangesFit ==
    ASSUME NEW j \in Job, j.kind \in Kinds, NEW list, Good(list), j.kind \in Adding => j.rule \in Rule,
           NEW c \in Memory!Changes(j, list), HoldsAll(list, told) \/ raced
    PROVE  /\ Good(c.list) /\ c.gone \in SUBSET Rule
           /\ raced \/ HoldsAll(c.list, (told \ c.gone) \cup (IF j.kind \in Adding THEN {ReadAs[j.rule]} ELSE {}))
<1>1. CASE j.kind \in Adding
    <2>1. c \in Memory!Added(list, j.rule) /\ j.rule \in Rule
        BY <1>1 DEF Memory!Changes, Adding
    <2>2. /\ Good(c.list) /\ c.gone \in SUBSET Rule /\ HoldsAll(c.list, {ReadAs[j.rule]})
          /\ HoldsAll(list, told) => HoldsAll(c.list, told \ c.gone)
        BY <2>1, AddedFits, Zenon
    <2> QED
        BY <1>1, <2>2, Zenon DEF HoldsAll
<1>2. CASE j.kind = "delete"
    <2>1. c \in Memory!Deleted(list)
        BY <1>2 DEF Memory!Changes
    <2> QED
        BY <1>2, <2>1, DeletedFits, Zenon DEF Adding, HoldsAll
<1>3. CASE j.kind = "recall"
    <2>1. c = Memory!Change(list, {})
        BY <1>3 DEF Memory!Changes
    <2>2. c.list = list /\ c.gone = {}
        BY <2>1 DEF Memory!Change
    <2> QED
        BY <1>3, <2>2, Zenon DEF Adding, HoldsAll
<1>4. CASE j.kind = "fold"
    <2>1. c \in Memory!Folded(list)
        BY <1>4 DEF Memory!Changes
    <2> QED
        BY <1>4, <2>1, FoldedFits, Zenon DEF Adding, HoldsAll
<1> QED
    BY <1>1, <1>2, <1>3, <1>4 DEF Kinds, Adding

IdleJob == [at |-> "idle", kind |-> None, rule |-> None, list |-> <<>>, file |-> None, gone |-> {}]

LEMMA JobsAsked ==
    /\ Memory!Idle = IdleJob /\ IdleJob \in Job /\ Good(<<>>)
    /\ [IdleJob EXCEPT !.at = "done"] \in Job /\ [IdleJob EXCEPT !.at = "failed"] \in Job
    /\ \A kind \in Kinds, r \in Rule \cup {None} :
        /\ Memory!Asks(kind, r) = [IdleJob EXCEPT !.at = "load", !.kind = kind, !.rule = r]
        /\ Memory!Asks(kind, r) \in Job
<1>1. <<>> \in Seq(SUBSET Rule) /\ Len(<<>>) = 0 /\ DOMAIN <<>> = {}
    OBVIOUS
<1>2. Good(<<>>)
    BY <1>1, MemoryNumbers DEF Good, GoodLists, OneOfEach
<1>3. IdleJob \in Job
    BY <1>2 DEF Good, IdleJob, Job, Kinds
<1> QED
    BY <1>1, <1>2, <1>3 DEF Memory!Idle, Memory!Asks, IdleJob, Job, Kinds

\* A writer that writes nothing, now.
LEMMA JobIsSet ==
    ASSUME ListsFit, raced \/ OneWriter, NEW w \in DOMAIN job, NEW j \in Job, Good(j.list),
           j.at \notin WriterAt,
           j.at = "load" =>
                j.kind \in Kinds /\ (j.kind \in Adding => j.rule \in Rule),
           job' = [job EXCEPT ![w] = j], UNCHANGED <<lines, memory_md, memory_tmp, told, raced>>
    PROVE  ListsFit' /\ (raced \/ OneWriter)'
<1>1. job' \in [Writer \cup {"digest"} -> Job] /\ DOMAIN job' = DOMAIN job
    BY DEF ListsFit
<1>2. job'[w] = j /\ \A v \in DOMAIN job : v # w => job'[v] = job[v]
    OBVIOUS
<1>3. ListsFit'
    <2>1. \A v \in DOMAIN job : job'[v].at \in {"load"} \cup WriterAt =>
            /\ job'[v].kind \in Kinds
            /\ job'[v].kind \in Adding => job'[v].rule \in Rule
        <3> SUFFICES ASSUME NEW v \in DOMAIN job, job'[v].at \in {"load"} \cup WriterAt
                     PROVE  /\ job'[v].kind \in Kinds
                            /\ job'[v].kind \in Adding => job'[v].rule \in Rule
            OBVIOUS
        <3>1. CASE v = w
            BY <1>2, <3>1
        <3>2. CASE v # w
            BY <1>2, <3>2, Zenon DEF ListsFit
        <3> QED
            BY <3>1, <3>2
    <2> QED
        BY <1>1, <2>1, Zenon DEF ListsFit
<1>4. ASSUME OneWriter PROVE OneWriter'
    <2>1. \A v \in DOMAIN job : job'[v].at \in WriterAt => job'[v] = job[v]
        BY <1>2, Zenon
    <2>2. \A v, u \in DOMAIN job : job'[v].at \in WriterAt /\ job'[u].at \in WriterAt => v = u
        BY <1>4, <2>1, Zenon DEF OneWriter
    <2>3. \A v \in DOMAIN job :
            /\ job'[v].at \in WriterAt => HoldsAll(job'[v].list, ToldAfter(job'[v]))
            /\ job'[v].at = "write" => job'[v].file = memory_tmp /\ memory_tmp # None
            /\ job'[v].at = "rename" /\ memory_tmp # None => lines[memory_tmp] = job'[v].list
        <3> TAKE v \in DOMAIN job
        <3>1. CASE job'[v].at \in WriterAt
            BY <1>4, <2>1, <3>1, Zenon DEF OneWriter
        <3>2. CASE job'[v].at \notin WriterAt
            BY <3>2 DEF WriterAt
        <3> QED
            BY <3>1, <3>2
    <2>4. \A k : ToldAfter(k)' = ToldAfter(k)
        BY DEF ToldAfter
    <2> QED
        BY <1>1, <1>4, <2>2, <2>3, <2>4 DEF OneWriter, HoldsAll
<1> QED
    BY <1>3, <1>4, Zenon

\* A writer may hold the text of its list for long; another that reads meanwhile is a race.
LEMMA MemoryLoads ==
    ASSUME ListsFit, raced \/ OneWriter, NEW w \in DOMAIN job, Memory!Load(w)
    PROVE  ListsFit' /\ (raced \/ OneWriter)'
<1>1. job[w].at = "load" /\ UNCHANGED <<lines, memory_md, memory_tmp, told>>
    BY Zenon DEF Memory!Load, Memory!names
<1>2. job[w] \in Job /\ job[w].kind \in Kinds /\ Good(lines[memory_md])
      /\ (job[w].kind \in Adding => job[w].rule \in Rule)
    BY <1>1 DEF ListsFit, Good
<1>3. CASE UNCHANGED raced
          /\ job' = [job EXCEPT ![w] = [Memory!Idle EXCEPT !.at = IF w = Memory!Nightly THEN "done" ELSE "idle"]]
    <2> DEFINE j == [IdleJob EXCEPT !.at = IF w = Memory!Nightly THEN "done" ELSE "idle"]
    <2>1. j \in Job /\ j.list = <<>> /\ j.at \notin WriterAt /\ j.at # "load"
        BY JobsAsked DEF IdleJob, Job, WriterAt
    <2>2. job' = [job EXCEPT ![w] = j]
        BY <1>3, JobsAsked
    <2> HIDE DEF j
    <2> QED
        BY <1>1, <1>3, <2>1, <2>2, JobsAsked, JobIsSet
<1>4. CASE /\ \E c \in Memory!Changes(job[w], Memory!MemoryLines) :
                job' = [job EXCEPT ![w].at = "open", ![w].list = c.list, ![w].gone = c.gone]
           /\ raced' = (raced \/ Memory!Writing # {})
    <2>1. PICK c \in Memory!Changes(job[w], lines[memory_md]) :
                job' = [job EXCEPT ![w].at = "open", ![w].list = c.list, ![w].gone = c.gone]
        BY <1>4, Zenon DEF Memory!MemoryLines
    <2>2. HoldsAll(lines[memory_md], told) \/ raced
        BY DEF OneWriter
    <2>3. /\ Good(c.list) /\ c.gone \in SUBSET Rule
          /\ raced \/ HoldsAll(c.list,
                (told \ c.gone) \cup (IF job[w].kind \in Adding THEN {ReadAs[job[w].rule]} ELSE {}))
        BY <1>2, <2>1, <2>2, ChangesFit
    <2> DEFINE j == [job[w] EXCEPT !.at = "open", !.list = c.list, !.gone = c.gone]
    <2>5. job' = [job EXCEPT ![w] = j]
        BY <2>1, Zenon
    <2>6. /\ j \in Job /\ j.at = "open" /\ j.list = c.list /\ j.gone = c.gone /\ j.kind = job[w].kind
          /\ j.rule = job[w].rule
        BY <1>2, <2>3 DEF Job, Good
    <2> HIDE DEF j
    <2>7. job' \in [Writer \cup {"digest"} -> Job] /\ DOMAIN job' = DOMAIN job
        BY <2>5, <2>6 DEF ListsFit
    <2>8. job'[w] = j /\ \A v \in DOMAIN job : v # w => job'[v] = job[v]
        BY <2>5
    <2>9. ListsFit'
        <3>1. \A v \in DOMAIN job : job'[v].at \in {"load"} \cup WriterAt =>
                /\ job'[v].kind \in Kinds
                /\ job'[v].kind \in Adding => job'[v].rule \in Rule
            BY <1>2, <2>6, <2>8, Zenon DEF ListsFit
        <3> QED
            BY <1>1, <2>7, <3>1, Zenon DEF ListsFit
    <2>10. ASSUME ~ raced' PROVE OneWriter'
        <3>1. ~ raced /\ OneWriter /\ \A v \in DOMAIN job : job[v].at \notin WriterAt
            BY <1>4, <2>10 DEF Memory!Writing, WriterAt
        <3>2. raced \/ HoldsAll(c.list, ToldAfter(j))
            BY <2>3, <2>6, Zenon DEF ToldAfter
        <3>3. \A v \in DOMAIN job : job'[v].at \in WriterAt => v = w
            BY <2>8, <3>1, Zenon
        <3>4. \A v \in DOMAIN job :
                /\ job'[v].at \in WriterAt => HoldsAll(job'[v].list, ToldAfter(job'[v]))
                /\ job'[v].at # "write" /\ job'[v].at # "rename"
            <4> TAKE v \in DOMAIN job
            <4>1. CASE v = w
                BY <2>6, <2>8, <3>1, <3>2, <4>1 DEF WriterAt
            <4>2. CASE v # w
                BY <2>8, <3>1, <4>2 DEF WriterAt
            <4> QED
                BY <4>1, <4>2
        <3>5. \A k : ToldAfter(k)' = ToldAfter(k)
            BY <1>1 DEF ToldAfter
        <3> QED
            BY <1>1, <2>7, <3>1, <3>3, <3>4, <3>5 DEF OneWriter, HoldsAll
    <2> QED
        BY <2>9, <2>10
<1> QED
    BY <1>3, <1>4, Zenon DEF Memory!Load

\* There is a file for a name that has none.
LEMMA FreeFile == ListsFit /\ memory_tmp = None => \E x \in Files : x \notin Memory!InUse
<1> SUFFICES ASSUME ListsFit, memory_tmp = None, \A x \in Files : x \in Memory!InUse PROVE FALSE
    OBVIOUS
<1> DEFINE D == Writer \cup {"digest"}
           F == Files \ {memory_md}
           g == [x \in F |-> CHOOSE w \in D : job[w].file = x]
<1>1. DOMAIN job = D /\ memory_md \in Files
    BY DEF ListsFit
<1>2. \A x \in F : \E w \in D : job[w].file = x
    BY <1>1, MemoryNumbers DEF Memory!InUse
<1>3. g \in Injection(F, D)
    BY <1>2 DEF Injection, IsInjective
<1>4. /\ IsFiniteSet(D)
      /\ Cardinality(D) = IF "digest" \in Writer THEN Cardinality(Writer) ELSE Cardinality(Writer) + 1
    BY MemoryNumbers, FS_AddElement
<1>5. /\ IsFiniteSet(F)
      /\ Cardinality(F) = IF memory_md \in Files THEN Cardinality(Files) - 1 ELSE Cardinality(Files)
    BY MemoryNumbers, FS_RemoveElement
<1> HIDE DEF F, D, g
<1>6. Cardinality(F) <= Cardinality(D)
    BY <1>3, <1>4, FS_Injection
<1> QED
    BY <1>1, <1>4, <1>5, <1>6, MemoryNumbers

\* A list of files and one job change: what is left to show of that job.
LEMMA WriterGoesOn ==
    ASSUME ListsFit, NEW w \in DOMAIN job, job[w].at \in WriterAt, NEW j \in Job, j.at \in WriterAt,
           j.list = job[w].list, j.kind = job[w].kind, j.rule = job[w].rule, j.gone = job[w].gone,
           job' = [job EXCEPT ![w] = j], UNCHANGED <<memory_md, told, raced>>,
           lines' \in [Files -> GoodLists], memory_tmp' \in Files \cup {None},
           ~ raced => /\ OneWriter /\ memory_tmp' \in Files \ {memory_md} /\ lines'[memory_md] = lines[memory_md]
                      /\ j.at = "write" => j.file = memory_tmp'
                      /\ j.at = "rename" => lines'[memory_tmp'] = j.list
    PROVE  ListsFit' /\ (raced \/ OneWriter)'
<1>1. job' \in [Writer \cup {"digest"} -> Job] /\ DOMAIN job' = DOMAIN job
    BY DEF ListsFit
<1>2. job'[w] = j /\ \A v \in DOMAIN job : v # w => job'[v] = job[v]
    OBVIOUS
<1>3. \A v \in DOMAIN job : job'[v].at \in {"load"} \cup WriterAt =>
            /\ job'[v].kind \in Kinds
            /\ job'[v].kind \in Adding => job'[v].rule \in Rule
    <2> SUFFICES ASSUME NEW v \in DOMAIN job, job'[v].at \in {"load"} \cup WriterAt
                 PROVE  /\ job'[v].kind \in Kinds
                        /\ job'[v].kind \in Adding => job'[v].rule \in Rule
        OBVIOUS
    <2>1. CASE v = w
        BY <1>2, <2>1 DEF ListsFit
    <2>2. CASE v # w
        BY <1>2, <2>2, Zenon DEF ListsFit
    <2> QED
        BY <2>1, <2>2
<1>4. ListsFit'
    BY <1>1, <1>3 DEF ListsFit
<1>5. ASSUME ~ raced PROVE OneWriter'
    <2>1. /\ OneWriter /\ memory_tmp' \in Files \ {memory_md} /\ lines'[memory_md] = lines[memory_md]
          /\ j.at = "write" => j.file = memory_tmp'
          /\ j.at = "rename" => lines'[memory_tmp'] = j.list
        BY <1>5
    <2>2. \A v \in DOMAIN job : v # w => job'[v].at \notin WriterAt
        BY <1>2, <2>1, Zenon DEF OneWriter
    <2>3. HoldsAll(lines'[memory_md], told) /\ HoldsAll(j.list, ToldAfter(j))
        BY <2>1 DEF OneWriter, ToldAfter
    <2>4. memory_tmp' # None
        BY <1>5, MemoryNumbers
    <2>5. \A k : ToldAfter(k)' = ToldAfter(k)
        BY DEF ToldAfter
    <2>6. \A v \in DOMAIN job :
            /\ job'[v].at \in WriterAt => HoldsAll(job'[v].list, ToldAfter(job'[v]))
            /\ job'[v].at = "write" => job'[v].file = memory_tmp' /\ memory_tmp' # None
            /\ job'[v].at = "rename" /\ memory_tmp' # None => lines'[memory_tmp'] = job'[v].list
        <3> TAKE v \in DOMAIN job
        <3>1. CASE v = w
            BY <1>2, <2>1, <2>3, <2>4, <3>1
        <3>2. CASE v # w
            BY <2>2, <3>2 DEF WriterAt
        <3> QED
            BY <3>1, <3>2
    <2> QED
        BY <1>1, <2>1, <2>2, <2>3, <2>5, <2>6 DEF OneWriter, HoldsAll
<1> QED
    BY <1>4, <1>5

LEMMA MemoryOpens ==
    ASSUME ListsFit, raced \/ OneWriter, NEW w \in DOMAIN job, Memory!Open(w)
    PROVE  ListsFit' /\ (raced \/ OneWriter)'
<1> DEFINE f == IF memory_tmp # None THEN memory_tmp ELSE CHOOSE x \in Files : x \notin Memory!InUse
           j == [job[w] EXCEPT !.at = "write", !.file = f]
<1>1. /\ job[w].at = "open" /\ memory_tmp' = f /\ lines' = [lines EXCEPT ![f] = <<>>]
      /\ job' = [job EXCEPT ![w].at = "write", ![w].file = f]
      /\ UNCHANGED <<memory_md, told, raced>>
    BY DEF Memory!Open
<1>2. f \in Files /\ (f = memory_tmp \/ f # memory_md)
    BY FreeFile DEF ListsFit, Memory!InUse
<1> HIDE DEF f
<1>3. job[w] \in Job /\ job' = [job EXCEPT ![w] = j]
    BY <1>1 DEF ListsFit
<1>4. /\ j \in Job /\ j.at = "write" /\ j.file = f
      /\ j.list = job[w].list /\ j.kind = job[w].kind /\ j.rule = job[w].rule /\ j.gone = job[w].gone
    BY <1>2, <1>3 DEF Job
<1> HIDE DEF j
<1>5. lines' \in [Files -> GoodLists] /\ (f # memory_md => lines'[memory_md] = lines[memory_md])
    BY <1>1, <1>2, JobsAsked DEF ListsFit, Good
<1>6. ~ raced => OneWriter /\ f # memory_md
    BY <1>2 DEF OneWriter
<1> QED
    BY <1>1, <1>2, <1>3, <1>4, <1>5, <1>6, WriterGoesOn DEF WriterAt

LEMMA MemoryWrites ==
    ASSUME ListsFit, raced \/ OneWriter, NEW w \in DOMAIN job, Memory!Write(w)
    PROVE  ListsFit' /\ (raced \/ OneWriter)'
<1> DEFINE j == [job[w] EXCEPT !.at = "rename"]
<1>1. /\ job[w].at = "write" /\ lines' = [lines EXCEPT ![job[w].file] = job[w].list]
      /\ job' = [job EXCEPT ![w] = j]
      /\ UNCHANGED <<memory_md, memory_tmp, told, raced>>
    BY Zenon DEF Memory!Write
<1>2. job[w] \in Job
    BY DEF ListsFit
<1>3. /\ j \in Job /\ j.at = "rename"
      /\ j.list = job[w].list /\ j.kind = job[w].kind /\ j.rule = job[w].rule /\ j.gone = job[w].gone
    BY <1>2 DEF Job
<1> HIDE DEF j
<1>4. lines' \in [Files -> GoodLists] /\ memory_tmp' \in Files \cup {None}
    BY <1>1, <1>2 DEF ListsFit, Job
<1>5. ~ raced => /\ OneWriter /\ job[w].file = memory_tmp /\ memory_tmp' \in Files \ {memory_md}
                 /\ lines'[memory_md] = lines[memory_md] /\ lines'[memory_tmp] = j.list
    BY <1>1, <1>3, <1>4 DEF OneWriter, ListsFit
<1> QED
    BY <1>1, <1>3, <1>4, <1>5, WriterGoesOn DEF WriterAt

LEMMA MemoryRenames ==
    ASSUME ListsFit, raced \/ OneWriter, NEW w \in DOMAIN job, Memory!Rename(w)
    PROVE  ListsFit' /\ (raced \/ OneWriter)'
<1> DEFINE j == [IdleJob EXCEPT !.at = IF w = Memory!Nightly THEN "done" ELSE "idle"]
<1>1. /\ job[w].at = "rename" /\ memory_tmp # None /\ memory_md' = memory_tmp /\ memory_tmp' = None
      /\ job' = [job EXCEPT ![w] = [Memory!Idle EXCEPT !.at = IF w = Memory!Nightly THEN "done" ELSE "idle"]]
      /\ UNCHANGED <<lines, raced>>
    BY Zenon DEF Memory!Rename
<1>2. told' = ToldAfter(job[w])
    BY Zenon DEF Memory!Rename, ToldAfter, Adding
<1>3. j \in Job /\ j.at \notin WriterAt \cup {"load"} /\ job' = [job EXCEPT ![w] = j]
    BY <1>1, JobsAsked DEF IdleJob, Job, WriterAt
<1> HIDE DEF j
<1>4. /\ job' \in [Writer \cup {"digest"} -> Job] /\ DOMAIN job' = DOMAIN job
      /\ job'[w] = j /\ \A v \in DOMAIN job : v # w => job'[v] = job[v]
    BY <1>3 DEF ListsFit
<1>5. \A v \in DOMAIN job : job'[v].at \in {"load"} \cup WriterAt =>
            /\ job'[v].kind \in Kinds
            /\ job'[v].kind \in Adding => job'[v].rule \in Rule
    BY <1>3, <1>4, Zenon DEF ListsFit
<1>6. ListsFit'
    BY <1>1, <1>4, <1>5 DEF ListsFit
<1>7. ASSUME ~ raced PROVE OneWriter'
    <2>1. OneWriter /\ memory_tmp \in Files
        BY <1>1, <1>7 DEF ListsFit
    <2>2. HoldsAll(lines[memory_tmp], told')
        BY <1>1, <1>2, <2>1 DEF OneWriter, WriterAt
    <2>3. \A v \in DOMAIN job : job'[v].at \notin WriterAt
        <3> TAKE v \in DOMAIN job
        <3>1. CASE v = w
            BY <1>3, <1>4, <3>1
        <3>2. CASE v # w
            BY <1>1, <1>4, <2>1, <3>2 DEF OneWriter, WriterAt
        <3> QED
            BY <3>1, <3>2
    <2>4. \A v \in DOMAIN job : job'[v].at # "write" /\ job'[v].at # "rename"
        BY <2>3 DEF WriterAt
    <2> QED
        BY <1>1, <1>4, <2>1, <2>2, <2>3, <2>4, MemoryNumbers DEF OneWriter, HoldsAll
<1> QED
    BY <1>1, <1>6, <1>7

LEMMA MemoryCrashes ==
    ASSUME ListsFit, raced \/ OneWriter, Memory!Crash
    PROVE  ListsFit' /\ (raced \/ OneWriter)'
<1>1. job' = [w \in DOMAIN job |-> IdleJob] /\ UNCHANGED <<lines, memory_md, memory_tmp, told, raced>>
    BY JobsAsked, Zenon DEF Memory!Crash, Memory!names
<1>2. /\ job' \in [Writer \cup {"digest"} -> Job] /\ DOMAIN job' = DOMAIN job
      /\ \A v \in DOMAIN job : job'[v].at = "idle"
    BY <1>1, JobsAsked DEF ListsFit, IdleJob
<1>3. \A v \in DOMAIN job : job'[v].at \notin WriterAt /\ job'[v].at \notin {"load"} \cup WriterAt
          /\ job'[v].at # "write" /\ job'[v].at # "rename"
    BY <1>2 DEF WriterAt
<1>4. ListsFit'
    BY <1>1, <1>2, <1>3, Zenon DEF ListsFit
<1> QED
    BY <1>1, <1>2, <1>3, <1>4 DEF OneWriter, HoldsAll

\* Steps that write neither the file nor what is told, and set at most one job to wait.
LEMMA MemoryWaits ==
    ASSUME ListsFit, raced \/ OneWriter, DigestFits,
           \/ \E w \in DOMAIN job : Memory!RenameFails(w)
           \/ Memory!CronFires \/ Memory!BuildPlan \/ Memory!Promote \/ Memory!ApplyFails
           \/ Memory!Fold \/ Memory!RotateAndMark
           \/ \E w \in Writer : Memory!StoreOrDelete(w)
           \/ Memory!AppendDaily \/ Memory!Tomorrow
    PROVE  ListsFit' /\ (raced \/ OneWriter)'
<1>1. UNCHANGED <<lines, memory_md, memory_tmp, told, raced>>
    BY DEF Memory!names, Memory!RenameFails, Memory!CronFires, Memory!BuildPlan, Memory!Promote,
        Memory!ApplyFails, Memory!Fold, Memory!RotateAndMark, Memory!StoreOrDelete, Memory!AppendDaily,
        Memory!Tomorrow
<1>2. "digest" \in DOMAIN job /\ \A w \in Writer : w \in DOMAIN job
    BY DEF ListsFit
<1>3. UNCHANGED job
      \/ \E w \in DOMAIN job : \/ job' = [job EXCEPT ![w] = IdleJob]
                               \/ \E x \in {"idle", "failed"} : job' = [job EXCEPT ![w] = [IdleJob EXCEPT !.at = x]]
                               \/ \E k \in Kinds, r \in Rule \cup {None} :
                                    /\ job' = [job EXCEPT ![w] = Memory!Asks(k, r)]
                                    /\ k \in Adding => r \in Rule
    <2>1. CASE \E w \in DOMAIN job : Memory!RenameFails(w)
        <3>1. PICK w \in DOMAIN job :
                job' = [job EXCEPT ![w] = [IdleJob EXCEPT !.at = IF w = "digest" THEN "failed" ELSE "idle"]]
            BY <2>1, JobsAsked, Zenon DEF Memory!RenameFails, Memory!Nightly
        <3> QED
            BY <3>1, Zenon
    <2>2. CASE Memory!CronFires
        <3>1. UNCHANGED job \/ job' = [job EXCEPT !["digest"] = Memory!Asks("recall", None)]
            BY <2>2, Zenon DEF Memory!CronFires, Memory!Nightly
        <3> QED
            BY <1>2, <3>1 DEF Kinds, Adding
    <2>3. CASE Memory!BuildPlan \/ Memory!ApplyFails \/ Memory!RotateAndMark
        <3>1. job' = [job EXCEPT !["digest"] = IdleJob]
            BY <2>3, JobsAsked, Zenon DEF Memory!BuildPlan, Memory!ApplyFails, Memory!RotateAndMark, Memory!Nightly
        <3> QED
            BY <1>2, <3>1, Zenon
    <2>4. CASE Memory!Promote
        <3>1. PICK r \in planned : job' = [job EXCEPT !["digest"] = Memory!Asks("promote", r)]
            BY <2>4, Zenon DEF Memory!Promote, Memory!Nightly
        <3>2. r \in Rule /\ "promote" \in Kinds
            BY DEF DigestFits, Kinds, ReadRules
        <3> QED
            BY <1>2, <3>1, <3>2, Zenon
    <2>5. CASE Memory!Fold
        <3>1. job' = [job EXCEPT !["digest"] = Memory!Asks("fold", None)]
            BY <2>5, Zenon DEF Memory!Fold, Memory!Nightly
        <3> QED
            BY <1>2, <3>1 DEF Kinds, Adding
    <2>6. CASE \E w \in Writer : Memory!StoreOrDelete(w)
        <3>1. PICK w \in Writer : \/ \E r \in Rule : job' = [job EXCEPT ![w] = Memory!Asks("store", r)]
                                 \/ job' = [job EXCEPT ![w] = Memory!Asks("delete", None)]
            BY <2>6, Zenon DEF Memory!StoreOrDelete
        <3>2. "store" \in Kinds /\ "delete" \in Kinds /\ "delete" \notin Adding
            BY DEF Kinds, Adding
        <3> QED
            BY <1>2, <3>1, <3>2, Zenon
    <2>7. CASE Memory!AppendDaily \/ Memory!Tomorrow
        BY <2>7, Zenon DEF Memory!AppendDaily, Memory!Tomorrow
    <2> QED
        BY <2>1, <2>2, <2>3, <2>4, <2>5, <2>6, <2>7, Zenon
<1>4. CASE UNCHANGED job
    BY <1>1, <1>4 DEF ListsFit, OneWriter, HoldsAll, ToldAfter
<1>5. CASE \E w \in DOMAIN job : job' = [job EXCEPT ![w] = IdleJob]
    BY <1>1, <1>5, JobsAsked, JobIsSet DEF IdleJob, WriterAt
<1>6. CASE \E w \in DOMAIN job : \E x \in {"idle", "failed"} :
            job' = [job EXCEPT ![w] = [IdleJob EXCEPT !.at = x]]
    <2>1. PICK w \in DOMAIN job, x \in {"idle", "failed"} : job' = [job EXCEPT ![w] = [IdleJob EXCEPT !.at = x]]
        BY <1>6, Zenon
    <2> DEFINE j == [IdleJob EXCEPT !.at = x]
    <2>2. j \in Job /\ Good(j.list) /\ j.at \notin WriterAt /\ j.at # "load"
        BY JobsAsked DEF IdleJob, Job, WriterAt
    <2>3. job' = [job EXCEPT ![w] = j]
        BY <2>1
    <2> HIDE DEF j
    <2> QED
        BY <1>1, <2>2, <2>3, JobIsSet
<1>7. CASE \E w \in DOMAIN job : \E k \in Kinds, r \in Rule \cup {None} :
            /\ job' = [job EXCEPT ![w] = Memory!Asks(k, r)]
            /\ k \in Adding => r \in Rule
    <2>1. PICK w \in DOMAIN job, k \in Kinds, r \in Rule \cup {None} :
            /\ job' = [job EXCEPT ![w] = Memory!Asks(k, r)]
            /\ k \in Adding => r \in Rule
        BY <1>7, Zenon
    <2> DEFINE j == Memory!Asks(k, r)
    <2>2. j \in Job /\ j.at = "load" /\ j.kind = k /\ j.rule = r /\ Good(j.list) /\ j.at \notin WriterAt
        <3>1. /\ Memory!Asks(k, r) = [IdleJob EXCEPT !.at = "load", !.kind = k, !.rule = r]
              /\ Memory!Asks(k, r) \in Job /\ Good(<<>>)
            BY JobsAsked
        <3> QED
            BY <3>1 DEF IdleJob, WriterAt
    <2>3. job' = [job EXCEPT ![w] = j]
        BY <2>1
    <2> HIDE DEF j
    <2> QED
        BY <1>1, <2>1, <2>2, <2>3, JobIsSet
<1> QED
    BY <1>3, <1>4, <1>5, <1>6, <1>7, Zenon

LEMMA MemoryBegins == Memory!Init => MemoryInv
<1> SUFFICES ASSUME Memory!Init PROVE MemoryInv
    OBVIOUS
<1> DEFINE first == [i \in DOMAIN Stored |-> Memory!Line(Stored[i])]
<1>1. /\ memory_md = CHOOSE f \in Files : TRUE
      /\ lines = [f \in Files |-> IF f = memory_md THEN first ELSE <<>>]
      /\ memory_tmp = None /\ job = [w \in Writer \cup {"digest"} |-> IdleJob]
      /\ told = {Stored[i] : i \in DOMAIN Stored}
    BY JobsAsked DEF Memory!Init, Memory!Nightly, Memory!Range
<1>2. memory_md \in Files
    <2>1. Files # {}
        BY MemoryNumbers, FS_EmptySet
    <2> QED
        BY <1>1, <2>1
<1>3. PICK n \in 0..MaxRules : Stored \in [1..n -> Rule]
    BY MemoryAssumption
<1>4. /\ \A i, j \in DOMAIN Stored : Stored[i] = Stored[j] => i = j
      /\ \A i \in DOMAIN Stored : Stored[i] \in Rule /\ ReadAs[Stored[i]] = Stored[i]
    BY <1>3, MemoryAssumption
<1>5. /\ DOMAIN first = DOMAIN Stored /\ n \in Nat
      /\ \A i \in DOMAIN Stored : first[i] = Memory!Line(Stored[i]) /\ first[i].says = {Stored[i]}
      /\ \A i \in 1..n : first[i] \in EntryType
    BY <1>3, <1>4, LineIs, MemoryNumbers
<1>6. OneOfEach(first)
    <2> SUFFICES ASSUME NEW i \in DOMAIN Stored, NEW j \in DOMAIN Stored, NEW r,
                        Memory!Is(first[i], r), Memory!Is(first[j], r)
                 PROVE  i = j
        BY <1>5, Zenon DEF OneOfEach
    <2>1. Stored[i] = r /\ Stored[j] = r
        BY <1>5 DEF Memory!Is
    <2> QED
        BY <1>4, <2>1
<1>7. first \in GoodLists
    <2>1. first \in Seq(EntryType)
        BY <1>3, <1>5
    <2> QED
        BY <1>6, <2>1 DEF GoodLists
<1>8. HoldsAll(lines[memory_md], told)
    <2>1. lines[memory_md] = first
        BY <1>1, <1>2
    <2> QED
        BY <1>1, <1>5, <2>1 DEF HoldsAll
<1> HIDE DEF first
<1>9. \A w \in Writer \cup {"digest"} : job[w].at = "idle"
    BY <1>1 DEF IdleJob
<1>10. ListsFit
    BY <1>1, <1>2, <1>7, <1>9, JobsAsked DEF ListsFit, WriterAt, Good
<1>11. OneWriter
    BY <1>1, <1>2, <1>8, <1>9, MemoryNumbers DEF OneWriter, WriterAt
<1>12. DigestFits
    BY MemoryNumbers DEF DigestFits, Memory!Init
<1> QED
    BY <1>10, <1>11, <1>12 DEF MemoryInv

\* A digest marks its day only when all it planned is in the file.
LEMMA DigestGoesOn ==
    ASSUME DigestFits, Memory!Next
    PROVE  DigestFits'
<1>1. /\ drafts \in [1..MaxDay -> SUBSET ReadRules] /\ day \in Nat /\ day >= 1 /\ day <= MaxDay
      /\ last_digest \in Nat /\ last_digest <= day /\ planned \subseteq ReadRules
      /\ \A d \in seen_days : d \in 1..day
    BY MemoryNumbers DEF DigestFits
<1>2. CASE UNCHANGED <<drafts, day, last_digest, planned, seen_days, ever>>
           /\ digest' \in {digest, "idle"}
    BY <1>2 DEF DigestFits
<1>3. CASE \E w \in DOMAIN job : Memory!Load(w) \/ Memory!Open(w) \/ Memory!Write(w) \/ Memory!RenameFails(w)
    BY <1>2, <1>3, Zenon DEF Memory!Load, Memory!Open, Memory!Write, Memory!RenameFails, Memory!dates
<1>4. CASE Memory!Promote \/ Memory!ApplyFails \/ (\E w \in Writer : Memory!StoreOrDelete(w)) \/ Memory!Crash
    BY <1>2, <1>4, Zenon DEF Memory!Promote, Memory!ApplyFails, Memory!StoreOrDelete, Memory!Crash, Memory!dates
<1>5. CASE \E w \in DOMAIN job : Memory!Rename(w)
    <2>1. PICK w \in DOMAIN job : Memory!Rename(w)
        BY <1>5
    <2>2. /\ UNCHANGED <<drafts, day, last_digest, seen_days, digest>> /\ ever' = ever \cup told'
          /\ planned' = IF job[w].kind = "promote" THEN planned \ {job[w].rule} ELSE planned
          /\ job[w].kind = "promote" => told' = (told \ job[w].gone) \cup {ReadAs[job[w].rule]}
        BY <2>1 DEF Memory!Rename, Memory!dates
    <2>3. planned' \subseteq planned /\ \A r \in planned \cup ever : r \in planned' \cup ever'
        BY <1>1, <2>2 DEF ReadRules
    <2> QED
        BY <1>1, <2>2, <2>3 DEF DigestFits
<1>6. CASE Memory!CronFires
    BY <1>1, <1>6 DEF Memory!CronFires, DigestFits
<1>7. CASE Memory!BuildPlan
    <2>1. /\ UNCHANGED <<drafts, day, last_digest, ever>> /\ digest = "flush" /\ digest' = "promote"
          /\ planned' = {r \in Memory!Candidates : Memory!Passes(r)} /\ seen_days' = seen_days \cup {day}
        BY <1>7 DEF Memory!BuildPlan, Memory!dates
    <2>2. last_digest < day
        BY <2>1 DEF DigestFits
    <2>3. Memory!Recent \subseteq 1..day /\ Memory!Candidates = UNION {drafts[d] : d \in Memory!Recent}
        BY DEF Memory!Recent, Memory!Candidates
    <2>4. planned' \subseteq ReadRules
        <3>1. \A d \in Memory!Recent : drafts[d] \subseteq ReadRules
            <4>1. \A d \in 1..day : d \in 1..MaxDay
                BY <1>1, MemoryNumbers
            <4> QED
                BY <1>1, <2>3, <4>1
        <3> QED
            BY <2>1, <2>3, <3>1
    <2>5. \A r \in Explicit, d \in 1..(day - 1) : d + Lookback > day /\ r \in drafts[d] => r \in planned'
        <3> SUFFICES ASSUME NEW r \in Explicit, NEW d \in 1..(day - 1), d + Lookback > day, r \in drafts[d]
                     PROVE  r \in planned'
            OBVIOUS
        <3>1. d \in Memory!Recent
            BY <1>1 DEF Memory!Recent
        <3>2. r \in Memory!Candidates /\ Memory!Passes(r)
            BY <2>3, <3>1 DEF Memory!Passes
        <3> QED
            BY <2>1, <3>2
    <2> QED
        BY <1>1, <2>1, <2>2, <2>4, <2>5, MemoryNumbers DEF DigestFits
<1>8. CASE Memory!Fold
    BY <1>1, <1>8 DEF Memory!Fold, Memory!dates, DigestFits
<1>9. CASE Memory!RotateAndMark
    <2>1. /\ UNCHANGED <<planned, day, ever, seen_days>> /\ digest = "fold" /\ digest' = "idle"
          /\ last_digest' = day
          /\ drafts' = [d \in DOMAIN drafts |-> IF d + Retention < day THEN {} ELSE drafts[d]]
        BY <1>9 DEF Memory!RotateAndMark
    <2>2. planned = {}
        BY <2>1 DEF DigestFits
    <2>3. drafts' \in [1..MaxDay -> SUBSET ReadRules] /\ \A d \in 1..MaxDay : drafts'[d] \subseteq drafts[d]
        BY <1>1, <2>1
    <2>4. \A d \in 1..(day - 1) : d \in 1..MaxDay
        BY <1>1, MemoryNumbers
    <2>5. \A r \in Explicit, d \in 1..(day - 1) : r \in drafts'[d] => r \in drafts[d]
        BY <2>3, <2>4
    <2> QED
        BY <1>1, <2>1, <2>2, <2>3, <2>5 DEF DigestFits
<1>10. CASE Memory!AppendDaily
    <2>1. /\ UNCHANGED <<planned, day, ever, seen_days, digest, last_digest>>
          /\ \E r \in Rule : drafts' = [drafts EXCEPT ![day] = @ \cup {ReadAs[r]}]
        BY <1>10 DEF Memory!AppendDaily
    <2>2. drafts' \in [1..MaxDay -> SUBSET ReadRules]
        BY <1>1, <2>1, LineIs
    <2>3. \A d \in 1..(day - 1) : drafts'[d] = drafts[d]
        BY <1>1, <2>1, MemoryNumbers
    <2> QED
        BY <2>1, <2>2, <2>3 DEF DigestFits
<1>11. CASE Memory!Tomorrow
    <2>1. /\ UNCHANGED <<planned, drafts, ever, seen_days, digest, last_digest>>
          /\ day < MaxDay /\ day' = day + 1
        BY <1>11 DEF Memory!Tomorrow
    <2>2. day' \in 1..MaxDay /\ last_digest < day' /\ day' \notin seen_days /\ \A d \in seen_days : d \in 1..day'
        BY <1>1, <2>1, MemoryNumbers
    <2>3. digest = "fold" => planned = {}
        BY DEF DigestFits
    <2> QED
        BY <1>1, <2>1, <2>2, <2>3 DEF DigestFits
<1> QED
    BY <1>3, <1>4, <1>5, <1>6, <1>7, <1>8, <1>9, <1>10, <1>11, Zenon DEF Memory!Next, Memory!Progress

LEMMA MemoryStep == MemoryInv /\ Memory!Next => MemoryInv'
<1> SUFFICES ASSUME MemoryInv, Memory!Next PROVE MemoryInv'
    OBVIOUS
<1>1. ListsFit /\ (raced \/ OneWriter) /\ DigestFits
    BY DEF MemoryInv
<1>2. DigestFits'
    BY <1>1, DigestGoesOn
<1>3. ListsFit' /\ (raced \/ OneWriter)'
    BY <1>1, MemoryLoads, MemoryOpens, MemoryWrites, MemoryRenames, MemoryCrashes, MemoryWaits, Zenon
    DEF Memory!Next, Memory!Progress
<1> QED
    BY <1>2, <1>3, Zenon DEF MemoryInv

LEMMA MemoryStays == MemoryInv /\ UNCHANGED memory => MemoryInv'
BY DEF memory, MemoryInv, ListsFit, OneWriter, DigestFits, HoldsAll, ToldAfter

LEMMA MemoryHolds == MemoryInv => Memory!ToldIsKept /\ Memory!NoDuplicates /\ Memory!MarkMeansDone
<1> SUFFICES ASSUME MemoryInv PROVE Memory!ToldIsKept /\ Memory!NoDuplicates /\ Memory!MarkMeansDone
    OBVIOUS
<1>1. Memory!ToldIsKept
    BY DEF MemoryInv, OneWriter, HoldsAll, Memory!ToldIsKept, Memory!Remembered, Memory!Said, Memory!MemoryLines
<1>2. Memory!NoDuplicates
    <2>1. OneOfEach(lines[memory_md])
        BY DEF MemoryInv, ListsFit, GoodLists
    <2> QED
        BY <2>1, Zenon DEF OneOfEach, Memory!NoDuplicates, Memory!MemoryLines
<1>3. Memory!MarkMeansDone
    <2>1. DigestFits
        BY DEF MemoryInv
    <2> QED
        BY <2>1 DEF DigestFits, Memory!MarkMeansDone
<1> QED
    BY <1>1, <1>2, <1>3

-----------------------------------------------------------------------------
(***************************************************************************)
(* The marks of interrupted turns.                                         *)
(***************************************************************************)

User == Markers!FileUser
Own(s) == Markers!Own(s)
Refusal(s) == Markers!Refusal(s)
InText == {"empty", "write"}
AtTheFile == {"starting", "ending"}
WriteType == [at : {"idle", "read", "empty", "write", "done"}, op : {"none", "mark", "unmark"},
              text : Seq(Session)]

\* A text names these of the chats, each once.
Named(c, text) == \E i \in DOMAIN text : text[i] = c
Marks(of, text, who) ==
    /\ \A c \in of : c \in who <=> Named(c, text)
    /\ \A i, j \in DOMAIN text : text[i] = text[j] /\ text[i] \in of => i = j

Unlisted(text, s) == Kept(text, {i \in DOMAIN text : text[i] # s})

\* The chats the file lists before a change that is under way, and after it.
Before == {s \in chats : turn[s] \in {"running", "ending"} \/ write[Refusal(s)].at # "idle"}
After == {s \in chats : turn[s] \in {"starting", "running"}}

MarkShape ==
    /\ chats \subseteq Session /\ marked \in Seq(Session) \cup {None}
    /\ turn \in [Session -> Markers!TurnAt] /\ owner \in Session \cup {None}
    /\ write \in [User -> WriteType]
    /\ recent \subseteq Session /\ drained \subseteq Session /\ cut \subseteq Session
    /\ blamed \subseteq Session /\ notices \in [Session -> Nat] /\ tangled \in BOOLEAN
    /\ boot \in {"begins", "drain", "tell", "up"}

TurnFits(s) ==
    /\ turn[s] = "starting" => write[Own(s)].at # "idle" /\ write[Own(s)].op = "mark"
    /\ turn[s] = "ending" => write[Own(s)].at # "idle" /\ write[Own(s)].op = "unmark"
    /\ write[Own(s)].at # "idle" => turn[s] \in AtTheFile
    /\ turn[s] \in AtTheFile \cup {"saving"} => owner = s
    /\ write[Refusal(s)].at # "idle" => write[Refusal(s)].op = "unmark"
    /\ s \in chats /\ boot # "up" => turn[s] = "none" /\ write[Refusal(s)].at = "idle"
TurnsFit == \A s \in Session : TurnFits(s)

\* As long as no changes of the file overlapped that no lock keeps apart.
Apart ==
    /\ boot = "drain" => \A w \in User : write[w].at = "idle"
    /\ \A v, w \in User : write[v].at # "idle" /\ write[w].at # "idle" => v = w
OneUser ==
    /\ Apart
    /\ \A s \in Session : write[Refusal(s)].at # "idle" => turn[s] \in {"none", "let in"}
    /\ \A w \in User : write[w].at = "write" => marked = <<>>

FileTrue ==
    /\ (\A w \in User : write[w].at \notin {"write", "done"}) => Marks(chats, Markers!Lines, Before)
    /\ \A w \in User : write[w].at \in InText => Marks(chats, write[w].text, After)
    /\ \A w \in User : write[w].at = "done" => Marks(chats, Markers!Lines, After)

\* Whom a crash cut off is in what is read at the next start.
CutFits ==
    boot \in {"begins", "drain"} =>
        \A s \in cut :
            /\ s \in recent /\ s \in chats /\ (boot = "drain" => s \in drained)
            /\ (\A w \in User : write[w].at # "write") => Named(s, Markers!Lines)
            /\ \A w \in User : write[w].at \in InText => Named(s, write[w].text)

\* Whom the file may name after a crash, and who was told.
ToTell(s) ==
    \/ Named(s, Markers!Lines) \/ s \in drained
    \/ \E w \in User : write[w].at \in InText /\ Named(s, write[w].text)
StartFits ==
    /\ \A s \in Session : notices[s] <= 1 /\ (notices[s] > 0 => s \in blamed)
    /\ boot \in {"begins", "drain"} => \A s \in chats : ToTell(s) => s \in blamed /\ notices[s] = 0
    /\ boot = "begins" => drained = {}
    /\ boot = "tell" => /\ \A s \in drained : s \in blamed /\ notices[s] = 0
                        /\ \A s \in cut : s \in drained \/ notices[s] = 1
    /\ boot = "up" => drained = {} /\ \A s \in cut : notices[s] = 1

Untangled == OneUser /\ CutFits /\ (boot \in {"tell", "up"} => FileTrue)
MarkersInv ==
    /\ MarkShape /\ TurnsFit /\ StartFits
    /\ tangled \/ Untangled

LEMMA Users ==
    /\ \A s \in Session : Own(s) \in User /\ Refusal(s) \in User
    /\ \A s, t \in Session : /\ Own(s) # Refusal(t)
                             /\ Own(s) = Own(t) => s = t
                             /\ Refusal(s) = Refusal(t) => s = t
    /\ \A w \in User : \E s \in Session : w = Own(s) \/ w = Refusal(s)
BY DEF User, Own, Refusal, Markers!FileUser, Markers!Own, Markers!Refusal

LEMMA MarkersLists ==
    /\ \A list, places : Markers!Kept(list, places) = Kept(list, places)
    /\ \A S : Markers!Cardinality(S) = Cardinality(S)
BY DEF Markers!Kept, Kept, Markers!Sorted, Sorted, Markers!Cardinality, Cardinality

\* One line more.
LEMMA MarkAdds ==
    ASSUME NEW text \in Seq(Session), NEW s \in Session
    PROVE  /\ Append(text, s) \in Seq(Session)
           /\ \A c : Named(c, Append(text, s)) <=> Named(c, text) \/ c = s
           /\ ~ Named(s, text) =>
                \A of, who : Marks(of, text, who) => Marks(of, Append(text, s), who \cup {s})
<1> DEFINE longer == Append(text, s)
           n == Len(text) + 1
<1>1. /\ longer \in Seq(Session) /\ n \in DOMAIN longer /\ longer[n] = s
      /\ \A i \in DOMAIN text : i \in DOMAIN longer /\ longer[i] = text[i]
      /\ \A i \in DOMAIN longer : i = n \/ i \in DOMAIN text
    OBVIOUS
<1> HIDE DEF longer, n
<1>2. \A c : Named(c, longer) <=> Named(c, text) \/ c = s
    BY <1>1, Zenon DEF Named
<1>3. ASSUME ~ Named(s, text), NEW of, NEW who, Marks(of, text, who) PROVE Marks(of, longer, who \cup {s})
    <2>1. \A c \in of : c \in who \cup {s} <=> Named(c, longer)
        BY <1>2, <1>3 DEF Marks
    <2>2. \A i \in DOMAIN text : text[i] # s
        BY <1>3, Zenon DEF Named
    <2>3. ASSUME NEW i \in DOMAIN longer, NEW j \in DOMAIN longer, longer[i] = longer[j], longer[i] \in of
          PROVE  i = j
        <3>1. CASE i \in DOMAIN text /\ j \in DOMAIN text
            BY <1>1, <1>3, <2>3, <3>1 DEF Marks
        <3>2. CASE i = n /\ j = n
            BY <3>2
        <3>3. CASE (i = n /\ j \in DOMAIN text) \/ (j = n /\ i \in DOMAIN text)
            BY <1>1, <2>2, <2>3, <3>3
        <3> QED
            BY <1>1, <3>1, <3>2, <3>3
    <2> QED
        BY <2>1, <2>3, Zenon DEF Marks
<1> QED
    BY <1>1, <1>2, <1>3, Zenon DEF longer

\* All lines of one session less.
LEMMA MarkGoes ==
    ASSUME NEW text \in Seq(Session), NEW s
    PROVE  /\ Unlisted(text, s) \in Seq(Session)
           /\ \A c : Named(c, Unlisted(text, s)) <=> Named(c, text) /\ c # s
           /\ \A of, who : Marks(of, text, who) => Marks(of, Unlisted(text, s), who \ {s})
<1> DEFINE rest == Unlisted(text, s)
           P == {i \in DOMAIN text : text[i] # s}
<1>1. P \subseteq DOMAIN text /\ (\A i \in P : text[i] # s) /\ \A i \in DOMAIN text : text[i] # s => i \in P
    OBVIOUS
<1>2. rest = Kept(text, P)
    BY DEF Unlisted
<1> HIDE DEF P, rest
<1>3. /\ rest \in Seq(Session)
      /\ \A k \in DOMAIN rest : Sorted(P)[k] \in P /\ rest[k] = text[Sorted(P)[k]]
      /\ \A i \in P : \E k \in DOMAIN rest : Sorted(P)[k] = i
      /\ \A j, k \in DOMAIN rest : j < k => Sorted(P)[j] < Sorted(P)[k]
    <2> DEFINE g == Kept(text, P)
    <2>1. /\ g \in Seq(Session)
          /\ \A k \in DOMAIN g : Sorted(P)[k] \in P /\ g[k] = text[Sorted(P)[k]]
          /\ \A i \in P : \E k \in DOMAIN g : Sorted(P)[k] = i
          /\ \A j, k \in DOMAIN g : j < k => Sorted(P)[j] < Sorted(P)[k]
        <3>1. P \in SUBSET DOMAIN text
            BY <1>1
        <3> HIDE DEF g
        <3>2. /\ Kept(text, P) \in Seq(Session)
              /\ \A k \in DOMAIN Kept(text, P) : Sorted(P)[k] \in P /\ Kept(text, P)[k] = text[Sorted(P)[k]]
              /\ \A i \in P : \E k \in DOMAIN Kept(text, P) : Sorted(P)[k] = i
              /\ \A j, k \in DOMAIN Kept(text, P) : j < k => Sorted(P)[j] < Sorted(P)[k]
            BY <3>1, KeptEntries
        <3> QED
            BY <3>2, Zenon DEF g
    <2>2. rest = g
        BY <1>2
    <2> HIDE DEF g
    <2> QED
        BY <2>1, <2>2, Zenon
<1>4. \A c : Named(c, rest) => Named(c, text) /\ c # s
    BY <1>1, <1>3 DEF Named
<1>5. \A c : Named(c, text) /\ c # s => Named(c, rest)
    <2> SUFFICES ASSUME NEW i \in DOMAIN text, text[i] # s PROVE Named(text[i], rest)
        BY Zenon DEF Named
    <2>1. PICK k \in DOMAIN rest : Sorted(P)[k] = i
        BY <1>1, <1>3
    <2> QED
        BY <1>3, <2>1 DEF Named
<1>6. ASSUME NEW of, NEW who, Marks(of, text, who) PROVE Marks(of, rest, who \ {s})
    <2>1. ASSUME NEW i \in DOMAIN rest, NEW j \in DOMAIN rest, rest[i] = rest[j], rest[i] \in of PROVE i = j
        <3>1. Sorted(P)[i] = Sorted(P)[j]
            BY <1>1, <1>3, <1>6, <2>1 DEF Marks
        <3>2. Sorted(P)[i] \in Nat
            <4>1. \A m \in DOMAIN text : m \in Nat
                OBVIOUS
            <4> QED
                BY <1>1, <1>3, <4>1, Zenon
        <3>3. ~ (Sorted(P)[i] < Sorted(P)[i])
            BY <3>2
        <3>4. ~ (i < j) /\ ~ (j < i)
            BY <1>3, <3>1, <3>3, Zenon
        <3> QED
            BY <1>3, <3>4
    <2>2. \A c \in of : c \in who \ {s} <=> Named(c, rest)
        BY <1>4, <1>5, <1>6 DEF Marks
    <2> QED
        BY <2>1, <2>2, Zenon DEF Marks
<1> QED
    BY <1>3, <1>4, <1>5, <1>6 DEF rest

\* A text over another: each line is of one of them.
LEMMA MarkOver ==
    ASSUME NEW text \in Seq(Session), NEW old \in Seq(Session)
    PROVE  /\ Markers!Over(text, old) \in Seq(Session) /\ Markers!Over(text, <<>>) = text
           /\ \A c : Named(c, Markers!Over(text, old)) => Named(c, text) \/ Named(c, old)
<1> DEFINE n == IF Len(text) > Len(old) THEN Len(text) ELSE Len(old)
           over == [i \in 1..n |-> IF i <= Len(text) THEN text[i] ELSE old[i]]
<1>1. Markers!Over(text, old) = over
    BY DEF Markers!Over
<1>2. n \in Nat /\ (n = Len(text) \/ n = Len(old)) /\ n >= Len(text)
    OBVIOUS
<1> HIDE DEF n
<1>3. \A i \in 1..n : i <= Len(text) => i \in DOMAIN text /\ text[i] \in Session
    BY <1>2
<1>4. \A i \in 1..n : ~ (i <= Len(text)) => i \in DOMAIN old /\ old[i] \in Session
    BY <1>2
<1>5. over \in Seq(Session)
    BY <1>2, <1>3, <1>4
<1>6. \A c : Named(c, over) => Named(c, text) \/ Named(c, old)
    BY <1>3, <1>4 DEF Named
<1>7. Markers!Over(text, <<>>) = text
    BY DEF Markers!Over
<1> QED
    BY <1>1, <1>5, <1>6, <1>7

LEMMA MarkersBegin == Markers!Init => MarkersInv
<1> SUFFICES ASSUME Markers!Init PROVE MarkersInv
    OBVIOUS
<1>1. /\ chats \in ChatsOf /\ marked = None /\ turn = [s \in Session |-> "none"] /\ owner = None
      /\ write = [w \in User |-> [at |-> "idle", op |-> "none", text |-> <<>>]]
      /\ recent \subseteq Session /\ boot = "up" /\ drained = {} /\ cut = {} /\ blamed = {}
      /\ notices = [s \in Session |-> 0] /\ tangled = FALSE
    BY DEF Markers!Init, User, Markers!NoWrite
<1>2. \A w \in User : write[w].at = "idle"
    BY <1>1
<1>3. MarkShape
    <2>1. chats \subseteq Session
        BY <1>1, MarkersAssumption
    <2>2. [at |-> "idle", op |-> "none", text |-> <<>>] \in WriteType
        BY DEF WriteType
    <2> QED
        BY <1>1, <2>1, <2>2 DEF MarkShape, Markers!TurnAt
<1>4. TurnsFit
    BY <1>1, <1>2, Users DEF TurnsFit, TurnFits, AtTheFile
<1>5. StartFits
    BY <1>1 DEF StartFits
<1>6. OneUser /\ CutFits
    BY <1>1, <1>2, Users DEF OneUser, Apart, CutFits
<1>7. FileTrue
    <2>1. Before = {} /\ Markers!Lines = <<>>
        BY <1>1, <1>2, Users, MarkersAssumption DEF Before, Markers!Lines
    <2>2. Marks(chats, <<>>, {})
        BY DEF Marks, Named
    <2> QED
        BY <1>2, <2>1, <2>2 DEF FileTrue, InText
<1> QED
    BY <1>1, <1>3, <1>4, <1>5, <1>6, <1>7, Zenon DEF MarkersInv, Untangled

LEMMA WritesMoved ==
    ASSUME NEW r \in WriteType, NEW x \in {"idle", "read", "empty", "write", "done"}, NEW t \in Seq(Session)
    PROVE  /\ [r EXCEPT !.at = x] = [at |-> x, op |-> r.op, text |-> r.text]
           /\ [r EXCEPT !.at = x, !.text = t] = [at |-> x, op |-> r.op, text |-> t]
<1> DEFINE moved == [at |-> x, op |-> r.op, text |-> r.text]
<1>1. [r EXCEPT !.at = x] = moved
    BY DEF WriteType
<1>2. moved \in WriteType
    BY DEF WriteType
<1> HIDE DEF moved
<1>3. [moved EXCEPT !.text = t] = [at |-> moved.at, op |-> moved.op, text |-> t]
    BY <1>2 DEF WriteType
<1>4. [r EXCEPT !.at = x, !.text = t] = [[r EXCEPT !.at = x] EXCEPT !.text = t]
    BY Zenon
<1> QED
    BY <1>1, <1>3, <1>4 DEF moved

LEMMA FileLines == MarkShape => Markers!Lines \in Seq(Session)
BY DEF MarkShape, Markers!Lines

\* What a reader makes of the file: the line of its session is added, or is gone.
LEMMA MarkReads ==
    ASSUME MarkShape, NEW s \in Session, NEW w \in User, Markers!Read(w, s)
    PROVE  /\ write[w].at = "read"
           /\ UNCHANGED <<marked, turn, owner, recent, boot, drained, cut, blamed, notices>>
           /\ \E at_ \in {"done", "empty"}, text \in Seq(Session) :
                /\ write' = [write EXCEPT ![w] = [at |-> at_, op |-> write[w].op, text |-> text]]
                /\ at_ = "empty" => \A c : c # s => (Named(c, text) <=> Named(c, Markers!Lines))
                /\ \A of, who : Marks(of, Markers!Lines, who) =>
                    Marks(of, IF at_ = "empty" THEN text ELSE Markers!Lines,
                          IF write[w].op = "mark" THEN who \cup {s} ELSE who \ {s})
<1> DEFINE L == Markers!Lines
           text == IF write[w].op = "mark" THEN Markers!Marked(s) ELSE Markers!Unmarked(s)
<1>1. /\ write[w].at = "read"
      /\ write' = [write EXCEPT ![w] = IF text = None THEN [@ EXCEPT !.at = "done"]
                                     ELSE [@ EXCEPT !.at = "empty", !.text = text]]
      /\ UNCHANGED <<marked, turn, owner, recent, boot, drained, cut, blamed, notices>>
    BY Zenon DEF Markers!Read, Markers!start, Markers!told_of
<1>2. L \in Seq(Session) /\ write[w] \in WriteType /\ None \notin Seq(Session)
    BY FileLines, MarkersAssumption DEF MarkShape
<1>3. CASE text = None
    <2>1. write' = [write EXCEPT ![w] = [at |-> "done", op |-> write[w].op, text |-> write[w].text]]
        BY <1>1, <1>2, <1>3, WritesMoved
    <2>2. ASSUME NEW of, NEW who, Marks(of, L, who)
          PROVE  Marks(of, L, IF write[w].op = "mark" THEN who \cup {s} ELSE who \ {s})
        <3>1. CASE write[w].op = "mark"
            <4>1. Markers!Marked(s) = None
                BY <1>3, <3>1, Zenon
            <4>2. Named(s, L)
                <5>1. s \in Markers!Range(L)
                    BY <1>2, <4>1, MarkAdds DEF Markers!Marked
                <5> QED
                    BY <5>1 DEF Markers!Range, Named
            <4> QED
                BY <2>2, <3>1, <4>2 DEF Marks
        <3>2. CASE write[w].op # "mark"
            <4>1. marked = None
                <5>1. Markers!Unmarked(s) = None
                    BY <1>3, <3>2, Zenon
                <5>2. marked # None => Markers!Unmarked(s) \in Seq(Session)
                    <6>1. marked # None => marked \in Seq(Session) /\ Markers!Unmarked(s) = Unlisted(marked, s)
                        BY MarkersLists DEF MarkShape, Markers!Unmarked, Unlisted
                    <6> QED
                        BY <6>1, MarkGoes
                <5> QED
                    BY <1>2, <5>1, <5>2, Zenon
            <4>2. L = <<>>
                BY <4>1 DEF Markers!Lines
            <4>3. \A c : ~ Named(c, <<>>)
                BY DEF Named
            <4> QED
                BY <2>2, <3>2, <4>2, <4>3 DEF Marks
        <3> QED
            BY <3>1, <3>2
    <2>3. write[w].text \in Seq(Session) /\ "done" # "empty"
        BY <1>2 DEF WriteType
    <2> HIDE DEF L
    <2>4. \E at_ \in {"done", "empty"}, t \in Seq(Session) :
            /\ write' = [write EXCEPT ![w] = [at |-> at_, op |-> write[w].op, text |-> t]]
            /\ at_ = "done"
        BY <2>1, <2>3
    <2> QED
        BY <1>1, <2>2, <2>3, <2>4, Zenon DEF L
<1>4. CASE text # None
    <2>2. /\ text \in Seq(Session) /\ \A c : c # s => (Named(c, text) <=> Named(c, L))
          /\ \A of, who : Marks(of, L, who) =>
                Marks(of, text, IF write[w].op = "mark" THEN who \cup {s} ELSE who \ {s})
        <3>1. CASE write[w].op = "mark"
            <4>1. text = Append(L, s) /\ ~ Named(s, L)
                BY <1>4, <3>1 DEF Markers!Marked, Markers!Range, Named
            <4> HIDE DEF text, L
            <4> QED
                BY <1>2, <3>1, <4>1, MarkAdds
        <3>2. CASE write[w].op # "mark"
            <4>1. /\ marked # None /\ marked = L
                  /\ text = Unlisted(L, s)
                BY <1>4, <3>2, MarkersLists DEF Markers!Unmarked, Markers!Lines, Unlisted
            <4> HIDE DEF text, L
            <4> QED
                BY <1>2, <3>2, <4>1, MarkGoes
        <3> QED
            BY <3>1, <3>2
    <2> HIDE DEF text, L
    <2>3. "empty" \in {"done", "empty"} /\ text \in Seq(Session)
        BY <2>2
    <2>4. [write[w] EXCEPT !.at = "empty", !.text = text] = [at |-> "empty", op |-> write[w].op, text |-> text]
        BY <1>2, <2>3, WritesMoved
    <2>5. write' = [write EXCEPT ![w] = [at |-> "empty", op |-> write[w].op, text |-> text]]
        BY <1>1, <1>4, <2>4, Zenon
    <2> QED
        BY <1>1, <2>2, <2>3, <2>5, Zenon DEF L
<1> QED
    BY <1>3, <1>4

\* What a turn does besides: no text that is written changes, nor what the start reads.
Calm ==
    /\ UNCHANGED <<chats, marked, boot, drained, cut, blamed, notices>> /\ recent \subseteq recent'
    /\ \A w \in User : write[w].at \in InText \/ write'[w].at \in InText => write'[w] = write[w]
\* Only this session moves.
Only(s) ==
    /\ \A t \in Session : t # s => /\ turn'[t] = turn[t] /\ write'[Own(t)] = write[Own(t)]
                                   /\ write'[Refusal(t)] = write[Refusal(t)]
    /\ owner' = owner \/ owner \in {None, s}

LEMMA CalmKeeps ==
    ASSUME MarkShape, MarkShape', Calm, StartFits
    PROVE  /\ StartFits' /\ (CutFits => CutFits')
           /\ OneUser => \A w \in User : write'[w].at = "write" => marked' = <<>>
<1>1. Markers!Lines' = Markers!Lines
    BY DEF Calm, Markers!Lines
<1>2. \A s : ToTell(s)' => ToTell(s)
    BY <1>1 DEF ToTell, Calm
<1>3. StartFits'
    BY <1>2 DEF StartFits, Calm
<1>4. \A w \in User : /\ write[w].at = "write" => write'[w].at = "write"
                      /\ write'[w].at \in InText => write[w].at \in InText /\ write'[w] = write[w]
    BY DEF Calm, InText
<1>5. CutFits => CutFits'
    BY <1>1, <1>4 DEF CutFits, Calm
<1>6. OneUser => \A w \in User : write'[w].at = "write" => marked' = <<>>
    BY <1>4 DEF OneUser, Calm, InText
<1> QED
    BY <1>3, <1>5, <1>6

LEMMA OthersFit ==
    ASSUME TurnsFit, NEW s \in Session, Only(s), UNCHANGED <<chats, boot>>, TurnFits(s)'
    PROVE  TurnsFit'
<1> SUFFICES ASSUME NEW t \in Session, t # s PROVE TurnFits(t)'
    BY Zenon DEF TurnsFit
<1>1. t # None /\ TurnFits(t)
    BY MarkersAssumption DEF TurnsFit
<1> QED
    BY <1>1 DEF TurnFits, Only

LEMMA WriteSet ==
    ASSUME MarkShape, NEW w \in User, NEW r \in WriteType, write' = [write EXCEPT ![w] = r]
    PROVE  /\ write' \in [User -> WriteType] /\ write'[w] = r
           /\ \A v \in User : v # w => write'[v] = write[v]
BY DEF MarkShape

LEMMA NewWrite == \A op \in {"mark", "unmark"} :
    /\ [at |-> "read", op |-> op, text |-> <<>>] \in WriteType
    /\ [at |-> "idle", op |-> "none", text |-> <<>>] \in WriteType
BY DEF WriteType

\* What a turn does with the file: nothing, it begins to use it, or it is done with it.
TurnUses(s) ==
    \/ write' = write
    \/ \E u \in {Own(s), Refusal(s)}, op \in {"mark", "unmark"} :
        /\ write' = [write EXCEPT ![u] = [at |-> "read", op |-> op, text |-> <<>>]]
        /\ write[u].at = "idle"
    \/ \E u \in {Own(s), Refusal(s)} :
        /\ write' = [write EXCEPT ![u] = [at |-> "idle", op |-> "none", text |-> <<>>]]
        /\ write[u].at = "done"

LEMMA TurnIsCalm ==
    ASSUME MarkShape, NEW s \in Session, TurnUses(s), NEW to \in Markers!TurnAt,
           turn' \in {turn, [turn EXCEPT ![s] = to]}, owner' \in Session \cup {None},
           owner' = owner \/ owner \in {None, s}, recent' \subseteq Session, recent \subseteq recent',
           UNCHANGED <<chats, marked, boot, drained, cut, blamed, notices>>, tangled' \in BOOLEAN
    PROVE  MarkShape' /\ Calm /\ Only(s)
<1>1. turn' \in [Session -> Markers!TurnAt] /\ \A t \in Session : t # s => turn'[t] = turn[t]
    BY DEF MarkShape
<1>2. Own(s) \in User /\ Refusal(s) \in User
    BY Users
<1>3. \A t \in Session : t # s => Own(t) \notin {Own(s), Refusal(s)} /\ Refusal(t) \notin {Own(s), Refusal(s)}
    BY Users
<1>4. /\ write' \in [User -> WriteType]
      /\ \A v \in User : v \notin {Own(s), Refusal(s)} => write'[v] = write[v]
      /\ \A v \in User : write[v].at \in InText \/ write'[v].at \in InText => write'[v] = write[v]
    <2>1. CASE write' = write
        BY <2>1 DEF MarkShape
    <2>2. CASE write' # write
        <3>1. PICK u \in {Own(s), Refusal(s)}, r \in WriteType :
                /\ write' = [write EXCEPT ![u] = r]
                /\ write[u].at \notin InText /\ r.at \notin InText
            <4>1. "read" \notin InText /\ "idle" \notin InText /\ "done" \notin InText
                BY DEF InText
            <4> QED
                BY <2>2, <4>1, NewWrite DEF TurnUses
        <3> QED
            BY <1>2, <3>1, WriteSet
    <2> QED
        BY <2>1, <2>2
<1>5. MarkShape'
    BY <1>1, <1>4 DEF MarkShape
<1>6. Calm
    BY <1>4, Zenon DEF Calm
<1>7. Only(s)
    BY <1>1, <1>3, <1>4, Users DEF Only
<1> QED
    BY <1>5, <1>6, <1>7

\* The moves of a turn, and whom they let use the file.
TurnDoes(s) ==
    \/ turn[s] = "none" /\ turn'[s] = "let in" /\ (boot = "up" \/ s \notin chats) /\ write' = write
    \/ turn[s] = "saving" /\ turn'[s] = "none" /\ write' = write
    \/ /\ turn[s] = "let in" /\ turn'[s] = "starting" /\ owner' = s
       /\ write'[Own(s)].at = "read" /\ write'[Own(s)].op = "mark" /\ write'[Refusal(s)] = write[Refusal(s)]
    \/ /\ turn[s] = "running" /\ turn'[s] = "ending" /\ owner' = s
       /\ write'[Own(s)].at = "read" /\ write'[Own(s)].op = "unmark" /\ write'[Refusal(s)] = write[Refusal(s)]
    \/ /\ turn[s] = "running" /\ turn'[s] = "none" /\ write'[Own(s)] = write[Own(s)]
       /\ write[Refusal(s)].at = "idle"
       /\ write'[Refusal(s)].at = "read" /\ write'[Refusal(s)].op = "unmark"
    \/ /\ turn[s] = "starting" /\ turn'[s] = "running" /\ write'[Refusal(s)] = write[Refusal(s)]
       /\ write[Own(s)].at = "done" /\ write'[Own(s)].at = "idle"
    \/ /\ turn[s] = "ending" /\ turn'[s] = "saving" /\ write'[Refusal(s)] = write[Refusal(s)]
       /\ write[Own(s)].at = "done" /\ write'[Own(s)].at = "idle" /\ owner' = owner
    \/ /\ turn'[s] = turn[s] /\ write'[Own(s)] = write[Own(s)] /\ owner' = owner
       /\ write[Refusal(s)].at = "done" /\ write'[Refusal(s)].at = "idle"

LEMMA TurnMoves ==
    ASSUME MarkShape, TurnsFit, NEW s \in Session, Markers!Turn(s), UNCHANGED chats, tangled' \in BOOLEAN
    PROVE  MarkShape' /\ Calm /\ Only(s) /\ TurnFits(s)' /\ TurnDoes(s)
<1>1. /\ TurnUses(s) /\ owner' \in Session \cup {None} /\ (owner' = owner \/ owner \in {None, s})
      /\ UNCHANGED <<marked, boot, drained, cut, blamed, notices>>
      /\ recent' \subseteq Session /\ recent \subseteq recent'
    <2>1. /\ turn[s] \in AtTheFile => owner = s
          /\ turn[s] = "saving" => owner = s
          /\ turn[s] \notin AtTheFile => write[Own(s)].at = "idle"
        BY DEF TurnsFit, TurnFits
    <2>2. Own(s) \in {Own(s), Refusal(s)} /\ Refusal(s) \in {Own(s), Refusal(s)} /\ None \notin Session
        BY MarkersAssumption
    <2> QED
        BY <2>1, <2>2 DEF Markers!Turn, Markers!Dispatch, Markers!Setup, Markers!Runs, Markers!Refuse,
           Markers!Refused, Markers!Persist, Markers!Saves, Markers!Saved, Markers!Begins, Markers!NoWrite,
           Markers!Using, Markers!start, Markers!told_of, TurnUses, MarkShape, Own, Refusal, AtTheFile
<1>2. \E to \in Markers!TurnAt : turn' \in {turn, [turn EXCEPT ![s] = to]}
    BY DEF Markers!Turn, Markers!Dispatch, Markers!Setup, Markers!Runs, Markers!Refuse,
           Markers!Refused, Markers!Persist, Markers!Saves, Markers!Saved, Markers!TurnAt
<1>3. MarkShape' /\ Calm /\ Only(s)
    <2>1. PICK to \in Markers!TurnAt : turn' \in {turn, [turn EXCEPT ![s] = to]}
        BY <1>2
    <2> QED
        BY <1>1, <2>1, TurnIsCalm
<1>4. TurnDoes(s)
    <2>1. /\ turn \in [Session -> Markers!TurnAt] /\ write \in [User -> WriteType]
          /\ Own(s) \in User /\ Refusal(s) \in User /\ Own(s) # Refusal(s)
          /\ Own(s) = Markers!Own(s) /\ Refusal(s) = Markers!Refusal(s)
        BY Users DEF MarkShape, Own, Refusal
    <2>2. CASE Markers!Dispatch(s) \/ Markers!Saved(s)
        BY <2>1, <2>2 DEF Markers!Dispatch, Markers!Saved, Markers!Serves, TurnDoes
    <2>3. CASE Markers!Setup(s)
        BY <2>1, <2>3 DEF Markers!Setup, Markers!Begins, TurnDoes
    <2>4. CASE Markers!Persist(s)
        BY <2>1, <2>4 DEF Markers!Persist, Markers!Begins, TurnDoes
    <2>5. CASE Markers!Refuse(s)
        BY <2>1, <2>5 DEF Markers!Refuse, Markers!Begins, Markers!Using, TurnDoes
    <2>6. CASE Markers!Refused(s)
        BY <2>1, <2>6 DEF Markers!Refused, Markers!NoWrite, TurnDoes
    <2>7. CASE Markers!Runs(s)
        BY <2>1, <2>7 DEF Markers!Runs, Markers!NoWrite, TurnDoes
    <2>8. CASE Markers!Saves(s)
        BY <2>1, <2>8 DEF Markers!Saves, Markers!NoWrite, TurnDoes
    <2> QED
        BY <2>2, <2>3, <2>4, <2>5, <2>6, <2>7, <2>8 DEF Markers!Turn
<1>5. TurnFits(s)'
    <2>1. TurnFits(s) /\ UNCHANGED <<chats, boot>>
        BY <1>1 DEF TurnsFit
    <2>2. /\ turn'[s] = "starting" => write'[Own(s)].at # "idle" /\ write'[Own(s)].op = "mark"
          /\ turn'[s] = "ending" => write'[Own(s)].at # "idle" /\ write'[Own(s)].op = "unmark"
        BY <1>4, <2>1 DEF TurnDoes, TurnFits
    <2>3. write'[Own(s)].at # "idle" => turn'[s] \in AtTheFile
        BY <1>4, <2>1 DEF TurnDoes, TurnFits, AtTheFile
    <2>4. turn'[s] \in AtTheFile \cup {"saving"} => owner' = s
        BY <1>4, <2>1 DEF TurnDoes, TurnFits, AtTheFile
    <2>5. write'[Refusal(s)].at # "idle" => write'[Refusal(s)].op = "unmark"
        BY <1>4, <2>1 DEF TurnDoes, TurnFits
    <2>6. s \in chats' /\ boot' # "up" => turn'[s] = "none" /\ write'[Refusal(s)].at = "idle"
        BY <1>4, <2>1 DEF TurnDoes, TurnFits
    <2> QED
        BY <2>2, <2>3, <2>4, <2>5, <2>6 DEF TurnFits, Own, Refusal
<1> QED
    BY <1>1, <1>3, <1>4, <1>5

\* No lock is needed between those who cannot be at the file together.
LEMMA LocksKeepApart == MarkShape /\ TurnsFit /\ ~ Markers!Overlap => Apart
<1> SUFFICES ASSUME MarkShape, TurnsFit, ~ Markers!Overlap PROVE Apart
    OBVIOUS
<1>1. \A w \in User : w \in Markers!FileUser
    BY DEF User
<1>2. /\ boot = "drain" => \A w \in User : write[w].at = "idle"
      /\ \A s \in Session, w \in User :
            write[Refusal(s)].at # "idle" /\ write[w].at # "idle" => w = Refusal(s)
    BY <1>1 DEF Markers!Overlap, Markers!Busy, Markers!Using, Refusal
<1>3. ASSUME NEW s \in Session, NEW t \in Session, write[Own(s)].at # "idle", write[Own(t)].at # "idle"
      PROVE  s = t
    BY <1>3 DEF TurnsFit, TurnFits
<1>4. ASSUME NEW v \in User, NEW w \in User, write[v].at # "idle", write[w].at # "idle" PROVE v = w
    BY <1>2, <1>3, <1>4, Users
<1> QED
    BY <1>2, <1>4 DEF Apart

\* A new file: the start removed the old one and nobody is at it.
NewFile == boot = "tell" /\ marked = None /\ \A w \in User : write[w].at = "idle"
LEMMA NewFileIsTrue == MarkShape /\ TurnsFit /\ NewFile => Untangled
<1> SUFFICES ASSUME MarkShape, TurnsFit, NewFile PROVE Untangled
    OBVIOUS
<1>1. Before = {} /\ Markers!Lines = <<>>
    BY DEF NewFile, MarkShape, TurnsFit, TurnFits, Before, Markers!Lines
<1>2. FileTrue
    <2>1. Marks(chats, <<>>, {})
        BY DEF Marks, Named
    <2> QED
        BY <1>1, <2>1 DEF FileTrue, NewFile, InText
<1>3. OneUser /\ CutFits
    BY Users DEF OneUser, Apart, CutFits, NewFile
<1> QED
    BY <1>2, <1>3 DEF Untangled

\* While somebody is at the file nobody else is, and no other turn begins or ends.
LEMMA Sole ==
    ASSUME MarkShape, TurnsFit, OneUser, NEW s \in Session, NEW u \in {Own(s), Refusal(s)}, write[u].at # "idle"
    PROVE  /\ u \in User /\ \A w \in User : w # u => write[w].at = "idle"
           /\ \A t \in Session : t # s => turn[t] \notin AtTheFile /\ write[Refusal(t)].at = "idle"
           /\ u = Own(s) => write[Refusal(s)].at = "idle"
           /\ u = Refusal(s) => turn[s] \in {"none", "let in"}
<1>1. u \in User /\ \A w \in User : w # u => write[w].at = "idle"
    <2>1. u \in User
        BY Users, Zenon
    <2>2. \A v, w \in User : write[v].at # "idle" /\ write[w].at # "idle" => v = w
        BY Zenon DEF OneUser, Apart
    <2> QED
        BY <2>1, <2>2, Zenon
<1>2. \A t \in Session : t # s => u # Own(t) /\ u # Refusal(t) /\ Own(t) \in User /\ Refusal(t) \in User
    BY Users
<1>3. \A t \in Session : turn[t] \in AtTheFile => write[Own(t)].at # "idle"
    BY DEF TurnsFit, TurnFits, AtTheFile
<1> QED
    BY <1>1, <1>2, <1>3, Users DEF OneUser

LEMMA SameMarks == \A of, text, who, same :
    Marks(of, text, who) /\ (\A c \in of : c \in who <=> c \in same) => Marks(of, text, same)
BY DEF Marks

LEMMA TurnKeepsTrue ==
    ASSUME MarkShape, TurnsFit, OneUser, FileTrue, NEW s \in Session, Calm, Only(s), TurnDoes(s), Apart'
    PROVE  FileTrue'
<1>1. Markers!Lines' = Markers!Lines /\ UNCHANGED chats
    BY DEF Calm, Markers!Lines
<1>2. /\ \A t \in Session : t # s => /\ turn'[t] = turn[t] /\ write'[Own(t)] = write[Own(t)]
                                     /\ write'[Refusal(t)] = write[Refusal(t)]
      /\ \A w \in User : w \notin {Own(s), Refusal(s)} => write'[w] = write[w]
      /\ Own(s) \in User /\ Refusal(s) \in User /\ Own(s) # Refusal(s)
    BY Users DEF Only
<1>3. chats \subseteq Session /\ TurnFits(s)
    BY DEF MarkShape, TurnsFit
<1>4. CASE write' = write /\ turn[s] \in {"none", "saving"} /\ turn'[s] \in {"none", "let in"}
    <2>1. Before' = Before /\ After' = After
        BY <1>1, <1>2, <1>3, <1>4 DEF Before, After
    <2> QED
        BY <1>1, <1>4, <2>1 DEF FileTrue
<1>5. ASSUME NEW u \in {Own(s), Refusal(s)}, write[u].at = "idle", write'[u].at = "read",
             \A w \in {Own(s), Refusal(s)} : w # u => write'[w] = write[w],
             u = Own(s) => \/ turn[s] = "let in" /\ turn'[s] = "starting"
                           \/ turn[s] = "running" /\ turn'[s] = "ending",
             u = Refusal(s) => turn[s] = "running"
      PROVE  FileTrue'
    <2>1. /\ \A w \in User : write[w].at = "idle"
          /\ \A w \in User : write'[w].at \in {"idle", "read"}
        BY <1>2, <1>5 DEF Apart
    <2>2. Marks(chats, Markers!Lines, Before)
        BY <2>1 DEF FileTrue
    <2>3. \A t \in chats : t \in Before <=> t \in Before'
        BY <1>1, <1>2, <1>3, <1>5, <2>1 DEF Before
    <2>4. Marks(chats, Markers!Lines, Before)'
        BY <1>1, <2>2, <2>3, SameMarks
    <2> QED
        BY <2>1, <2>4 DEF FileTrue, InText
<1>6. ASSUME NEW u \in {Own(s), Refusal(s)}, write[u].at = "done", write'[u].at = "idle",
             \A w \in {Own(s), Refusal(s)} : w # u => write'[w] = write[w],
             u = Own(s) => \/ turn[s] = "starting" /\ turn'[s] = "running"
                           \/ turn[s] = "ending" /\ turn'[s] = "saving",
             u = Refusal(s) => turn'[s] = turn[s]
      PROVE  FileTrue'
    <2>1. /\ u \in User /\ \A w \in User : w # u => write[w].at = "idle"
          /\ \A t \in Session : t # s => turn[t] \notin AtTheFile /\ write[Refusal(t)].at = "idle"
          /\ u = Own(s) => write[Refusal(s)].at = "idle"
          /\ u = Refusal(s) => turn[s] \in {"none", "let in"}
        BY <1>6, Sole
    <2>2. \A w \in User : write'[w].at = "idle"
        BY <1>2, <1>6, <2>1
    <2>3. Marks(chats, Markers!Lines, After)
        BY <1>6, <2>1 DEF FileTrue
    <2>4. \A t \in chats : t \in After <=> t \in Before'
        <3>1. \A t \in Session : write'[Refusal(t)].at = "idle"
            BY <2>2, Users
        <3>2. \A t \in chats : t \in Before' <=> turn'[t] \in {"running", "ending"}
            BY <1>1, <1>3, <3>1 DEF Before
        <3>3. \A t \in chats : t # s => turn'[t] = turn[t] /\ turn[t] \notin {"starting", "ending"}
            BY <1>2, <1>3, <2>1 DEF AtTheFile
        <3>4. turn[s] \in {"starting", "running"} <=> turn'[s] \in {"running", "ending"}
            BY <1>6, <2>1
        <3> QED
            BY <3>2, <3>3, <3>4 DEF After
    <2>5. Marks(chats, Markers!Lines, Before)'
        BY <1>1, <2>3, <2>4, SameMarks
    <2> QED
        BY <2>2, <2>5 DEF FileTrue, InText
<1>7. turn[s] \notin AtTheFile => write[Own(s)].at = "idle"
    BY <1>3 DEF TurnFits
<1> QED
    BY <1>2, <1>4, <1>5, <1>6, <1>7 DEF TurnDoes, AtTheFile

\* What follows for the file from the locks, and from its removal.
LEMMA TangledOrNot ==
    ASSUME MarkShape', TurnsFit', Markers!Tangles
    PROVE  /\ tangled' \in BOOLEAN
           /\ ~ tangled' => Apart' /\ (tangled => Untangled')
<1>1. (MarkShape /\ TurnsFit /\ ~ Markers!Overlap => Apart)'
    BY LocksKeepApart, PTL
<1>2. (MarkShape /\ TurnsFit /\ NewFile => Untangled)'
    BY NewFileIsTrue, PTL
<1>3. ASSUME ~ tangled' PROVE ~ Markers!Overlap' /\ (tangled => NewFile')
    BY <1>3 DEF Markers!Tangles, NewFile, Markers!Busy, Markers!Using, User
<1>4. tangled' \in BOOLEAN
    BY DEF Markers!Tangles
<1> QED
    BY <1>1, <1>2, <1>3, <1>4

LEMMA TurnGoesOn ==
    ASSUME MarkersInv, NEW s \in Session, Markers!Turn(s), Markers!Tangles, UNCHANGED chats
    PROVE  MarkersInv'
<1>1. tangled' \in BOOLEAN
    BY DEF Markers!Tangles
<1>2. MarkShape' /\ Calm /\ Only(s) /\ TurnFits(s)' /\ TurnDoes(s)
    BY <1>1, TurnMoves DEF MarkersInv
<1>3. UNCHANGED <<chats, boot>>
    BY <1>2 DEF Calm
<1>4. TurnsFit'
    BY <1>2, <1>3, OthersFit DEF MarkersInv
<1>5. /\ StartFits' /\ (CutFits => CutFits')
      /\ OneUser => \A w \in User : write'[w].at = "write" => marked' = <<>>
    BY <1>2, CalmKeeps DEF MarkersInv
<1>6. ~ tangled' => Apart' /\ (tangled => Untangled')
    BY <1>2, <1>4, TangledOrNot
<1>7. ASSUME ~ tangled, ~ tangled' PROVE Untangled'
    <2>1. OneUser /\ CutFits /\ (boot \in {"tell", "up"} => FileTrue) /\ Apart' /\ TurnFits(s)
        BY <1>6, <1>7 DEF MarkersInv, Untangled, TurnsFit
    <2>2. ASSUME NEW t \in Session, write'[Refusal(t)].at # "idle" PROVE turn'[t] \in {"none", "let in"}
        <3>1. Own(t) \in User /\ Refusal(t) \in User /\ Own(t) # Refusal(t)
            BY Users
        <3>2. CASE t # s
            BY <1>2, <2>1, <2>2, <3>1, <3>2 DEF OneUser, Only
        <3>3. CASE t = s
            <4>1. write'[Own(s)].at = "idle"
                BY <2>1, <2>2, <3>1, <3>3 DEF Apart
            <4>2. write[Refusal(s)].at # "idle" => write[Own(s)].at = "idle"
                BY <2>1, <3>1, <3>3 DEF OneUser, Apart
            <4> QED
                BY <1>2, <2>1, <2>2, <3>3, <4>1, <4>2 DEF TurnDoes, OneUser
        <3> QED
            BY <3>2, <3>3
    <2>3. OneUser'
        BY <1>5, <2>1, <2>2 DEF OneUser
    <2>4. boot \in {"tell", "up"} => FileTrue'
        BY <1>2, <1>4, <2>1, TurnKeepsTrue DEF MarkersInv
    <2> QED
        BY <1>3, <1>5, <2>1, <2>3, <2>4 DEF Untangled
<1> QED
    BY <1>2, <1>4, <1>5, <1>6, <1>7, Zenon DEF MarkersInv

\* A writer goes on: whose turn it is stays, and who is at the file.
LEMMA WriteMoves ==
    ASSUME MarkShape, TurnsFit, NEW w \in User, NEW to \in {"empty", "write", "done"}, NEW text \in Seq(Session),
           write[w].at # "idle", write' = [write EXCEPT ![w] = [at |-> to, op |-> write[w].op, text |-> text]],
           marked' \in Seq(Session) \cup {None},
           UNCHANGED <<chats, turn, owner, recent, boot, drained, cut, blamed, notices>>, Markers!Tangles
    PROVE  /\ MarkShape' /\ TurnsFit' /\ Before' = Before /\ After' = After
           /\ write'[w].at = to /\ write'[w].text = text
           /\ \A v \in User : v # w => write'[v] = write[v]
           /\ OneUser => \A s \in Session : write'[Refusal(s)].at # "idle" => turn'[s] \in {"none", "let in"}
<1>1. [at |-> to, op |-> write[w].op, text |-> text] \in WriteType
    BY DEF MarkShape, WriteType
<1>2. /\ write' \in [User -> WriteType] /\ write'[w] = [at |-> to, op |-> write[w].op, text |-> text]
      /\ \A v \in User : v # w => write'[v] = write[v]
    BY <1>1, WriteSet
<1>3. MarkShape'
    BY <1>2 DEF MarkShape, Markers!Tangles
<1>4. \A v \in User : write'[v].op = write[v].op /\ (write'[v].at = "idle" <=> write[v].at = "idle")
    BY <1>2
<1>5. TurnsFit'
    BY <1>4, Users DEF TurnsFit, TurnFits
<1>6. Before' = Before /\ After' = After
    BY <1>4, Users DEF Before, After, MarkShape
<1>7. OneUser => \A s \in Session : write'[Refusal(s)].at # "idle" => turn'[s] \in {"none", "let in"}
    BY <1>4, Users DEF OneUser
<1> QED
    BY <1>2, <1>3, <1>5, <1>6, <1>7

\* What is left to see of a writer: what the file and the texts say.
LEMMA FileGoesOn ==
    ASSUME MarkersInv, NEW w \in User, NEW to \in {"empty", "write", "done"}, NEW text \in Seq(Session),
           write[w].at # "idle", write' = [write EXCEPT ![w] = [at |-> to, op |-> write[w].op, text |-> text]],
           marked' \in Seq(Session) \cup {None},
           UNCHANGED <<chats, turn, owner, recent, boot, drained, cut, blamed, notices>>, Markers!Tangles,
           boot # "up" => \A c \in chats : ToTell(c)' => ToTell(c),
           OneUser /\ Apart' => \A v \in User : write'[v].at = "write" => marked' = <<>>,
           OneUser /\ CutFits => CutFits',
           OneUser /\ FileTrue => FileTrue'
    PROVE  MarkersInv'
<1>1. /\ MarkShape' /\ TurnsFit'
      /\ OneUser => \A s \in Session : write'[Refusal(s)].at # "idle" => turn'[s] \in {"none", "let in"}
    BY WriteMoves DEF MarkersInv
<1>2. ~ tangled' => Apart' /\ (tangled => Untangled')
    BY <1>1, TangledOrNot
<1>3. StartFits'
    BY DEF MarkersInv, StartFits
<1>4. ASSUME ~ tangled, ~ tangled' PROVE Untangled'
    <2>1. OneUser /\ CutFits /\ (boot \in {"tell", "up"} => FileTrue) /\ Apart'
        BY <1>2, <1>4 DEF MarkersInv, Untangled
    <2>2. OneUser'
        BY <1>1, <2>1 DEF OneUser
    <2> QED
        BY <2>1, <2>2 DEF Untangled
<1> QED
    BY <1>1, <1>2, <1>3, <1>4, Zenon DEF MarkersInv

LEMMA AtTheStart ==
    ASSUME MarkShape, TurnsFit, boot # "up", NEW s \in Session, NEW u \in {Own(s), Refusal(s)}, write[u].at # "idle"
    PROVE  s \notin chats
BY DEF TurnsFit, TurnFits, AtTheFile

LEMMA ReadGoesOn ==
    ASSUME MarkersInv, NEW s \in Session, NEW w \in {Own(s), Refusal(s)}, Markers!Read(w, s), Markers!Tangles,
           UNCHANGED chats
    PROVE  MarkersInv'
<1>1. MarkShape /\ TurnsFit /\ w \in User
    BY Users DEF MarkersInv
<1>2. /\ write[w].at = "read"
      /\ UNCHANGED <<marked, turn, owner, recent, boot, drained, cut, blamed, notices>>
      /\ marked' \in Seq(Session) \cup {None} /\ write[w].at # "idle"
    <2>1. /\ write[w].at = "read"
          /\ UNCHANGED <<marked, turn, owner, recent, boot, drained, cut, blamed, notices>>
        BY <1>1, MarkReads
    <2> QED
        BY <1>1, <2>1 DEF MarkShape
<1>3. PICK to \in {"done", "empty"}, text \in Seq(Session) :
        /\ write' = [write EXCEPT ![w] = [at |-> to, op |-> write[w].op, text |-> text]]
        /\ to = "empty" => \A c : c # s => (Named(c, text) <=> Named(c, Markers!Lines))
        /\ \A of, who : Marks(of, Markers!Lines, who) =>
               Marks(of, IF to = "empty" THEN text ELSE Markers!Lines,
                     IF write[w].op = "mark" THEN who \cup {s} ELSE who \ {s})
    BY <1>1, MarkReads
<1>4. /\ Before' = Before /\ After' = After /\ write'[w].at = to /\ write'[w].text = text
      /\ \A v \in User : v # w => write'[v] = write[v]
    BY <1>1, <1>2, <1>3, WriteMoves
<1>5. Markers!Lines' = Markers!Lines
    BY <1>2 DEF Markers!Lines
<1>6. ASSUME boot # "up" PROVE \A c \in chats : to = "empty" => (Named(c, text) <=> Named(c, Markers!Lines))
    BY <1>1, <1>2, <1>3, <1>6, AtTheStart
<1>7. boot # "up" => \A c \in chats : ToTell(c)' => ToTell(c)
    BY <1>2, <1>4, <1>5, <1>6 DEF ToTell, InText
<1>8. OneUser => \A v \in User : write'[v].at = "write" => marked' = <<>>
    BY <1>2, <1>4 DEF OneUser
<1>9. ASSUME OneUser, CutFits PROVE CutFits'
    <2>1. \A v \in User : v # w => write[v].at = "idle"
        BY <1>1, <1>2, <1>9 DEF OneUser, Apart
    <2> QED
        BY <1>2, <1>4, <1>5, <1>6, <1>9, <2>1 DEF CutFits, InText
<1>10. ASSUME OneUser, FileTrue PROVE FileTrue'
    <2>1. /\ \A v \in User : v # w => write[v].at = "idle"
          /\ \A t \in Session : t # s => turn[t] \notin AtTheFile /\ write[Refusal(t)].at = "idle"
          /\ w = Own(s) => write[Refusal(s)].at = "idle"
          /\ w = Refusal(s) => turn[s] \in {"none", "let in"}
        BY <1>1, <1>2, <1>10, Sole
    <2>2. Marks(chats, Markers!Lines, Before)
        BY <1>2, <1>10, <2>1 DEF FileTrue
    <2> DEFINE then == IF write[w].op = "mark" THEN Before \cup {s} ELSE Before \ {s}
    <2>3. \A c \in chats : c \in then <=> c \in After
        <3>1. /\ write[w].op = "mark" => w = Own(s) /\ turn[s] = "starting"
              /\ write[w].op # "mark" => turn[s] \in {"ending", "none", "let in"}
            BY <1>1, <1>2, <2>1 DEF TurnsFit, TurnFits, AtTheFile
        <3>2. chats \subseteq Session
            BY <1>1 DEF MarkShape
        <3> QED
            BY <2>1, <3>1, <3>2 DEF Before, After, AtTheFile
    <2>4. Marks(chats, IF to = "empty" THEN text ELSE Markers!Lines, After)
        BY <1>3, <2>2, <2>3, SameMarks
    <2> HIDE DEF then
    <2> QED
        BY <1>4, <1>5, <2>1, <2>2, <2>4 DEF FileTrue, InText
<1> QED
    BY <1>1, <1>2, <1>3, <1>7, <1>8, <1>9, <1>10, FileGoesOn

LEMMA EmptyGoesOn ==
    ASSUME MarkersInv, NEW w \in User, Markers!Empty(w), Markers!Tangles, UNCHANGED chats
    PROVE  MarkersInv'
<1> DEFINE text == write[w].text
<1>1. MarkShape /\ TurnsFit /\ write[w] \in WriteType /\ text \in Seq(Session)
    BY DEF MarkersInv, MarkShape, WriteType
<1>2. /\ write[w].at = "empty" /\ marked' = <<>> /\ write' = [write EXCEPT ![w].at = "write"]
      /\ UNCHANGED <<turn, owner, recent, boot, drained, cut, blamed, notices>>
    BY Zenon DEF Markers!Empty, Markers!Step, Markers!start, Markers!told_of
<1>3. write' = [write EXCEPT ![w] = [at |-> "write", op |-> write[w].op, text |-> text]]
    <2>1. [write[w] EXCEPT !.at = "write"] = [at |-> "write", op |-> write[w].op, text |-> text]
        BY <1>1, WritesMoved
    <2> QED
        BY <1>2, <2>1, Zenon
<1> HIDE DEF text
<1>4. marked' \in Seq(Session) \cup {None} /\ write[w].at # "idle" /\ "write" \in {"empty", "write", "done"}
    BY <1>2
<1>5. /\ After' = After /\ write'[w].at = "write" /\ write'[w].text = text
      /\ \A v \in User : v # w => write'[v] = write[v]
    BY <1>1, <1>2, <1>3, <1>4, WriteMoves
<1>6. \A c : ~ Named(c, Markers!Lines')
    BY <1>2 DEF Markers!Lines, Named
<1>7. \A c \in chats : ToTell(c)' => ToTell(c)
    BY <1>2, <1>5, <1>6 DEF ToTell, InText, text
<1>8. CutFits => CutFits'
    BY <1>2, <1>5 DEF CutFits, InText, text
<1>9. ASSUME OneUser, FileTrue PROVE FileTrue'
    <2>1. \A v \in User : v # w => write[v].at = "idle"
        BY <1>4, <1>9 DEF OneUser, Apart
    <2> QED
        BY <1>2, <1>5, <1>9, <2>1 DEF FileTrue, InText, text
<1> QED
    BY <1>1, <1>2, <1>3, <1>4, <1>7, <1>8, <1>9, FileGoesOn

LEMMA WriteGoesOn ==
    ASSUME MarkersInv, NEW w \in User, Markers!Write(w), Markers!Tangles, UNCHANGED chats
    PROVE  MarkersInv'
<1> DEFINE text == write[w].text
<1>1. MarkShape /\ TurnsFit /\ write[w] \in WriteType /\ text \in Seq(Session)
    BY DEF MarkersInv, MarkShape, WriteType
<1>2. /\ write[w].at = "write" /\ marked' = IF marked = None THEN None ELSE Markers!Over(text, marked)
      /\ write' = [write EXCEPT ![w].at = "done"]
      /\ UNCHANGED <<turn, owner, recent, boot, drained, cut, blamed, notices>>
    BY Zenon DEF Markers!Write, Markers!Step, Markers!start, Markers!told_of
<1>3. write' = [write EXCEPT ![w] = [at |-> "done", op |-> write[w].op, text |-> text]]
    <2>1. [write[w] EXCEPT !.at = "done"] = [at |-> "done", op |-> write[w].op, text |-> text]
        BY <1>1, WritesMoved
    <2> QED
        BY <1>2, <2>1, Zenon
<1> HIDE DEF text
<1>4. marked # None => /\ Markers!Over(text, marked) \in Seq(Session)
                       /\ \A c : Named(c, Markers!Over(text, marked)) => Named(c, text) \/ Named(c, marked)
    BY <1>1, MarkOver DEF MarkShape
<1>5. marked' \in Seq(Session) \cup {None} /\ write[w].at # "idle" /\ "done" \in {"empty", "write", "done"}
    BY <1>2, <1>4
<1>6. /\ After' = After /\ write'[w].at = "done" /\ write'[w].text = text
      /\ \A v \in User : v # w => write'[v] = write[v]
    BY <1>1, <1>2, <1>3, <1>5, WriteMoves
<1>7. \A c : Named(c, Markers!Lines') => Named(c, text) \/ Named(c, Markers!Lines)
    <2>1. None # <<>> => (marked = None => Markers!Lines' = <<>>)
        BY <1>2 DEF Markers!Lines
    <2>2. \A c : ~ Named(c, <<>>)
        BY DEF Named
    <2> QED
        BY <1>2, <1>4, <2>1, <2>2, MarkersAssumption DEF Markers!Lines
<1>8. \A c \in chats : ToTell(c)' => ToTell(c)
    BY <1>2, <1>6, <1>7 DEF ToTell, InText, text
<1>9. OneUser => /\ Markers!Lines' = text /\ marked = <<>>
                 /\ \A v \in User : v # w => write[v].at = "idle"
    <2>1. OneUser => marked = <<>> /\ \A v \in User : v # w => write[v].at = "idle"
        BY <1>2, <1>5 DEF OneUser, Apart
    <2>2. Markers!Over(text, <<>>) = text /\ None # <<>> /\ None # text
        <3>1. <<>> \in Seq(Session)
            OBVIOUS
        <3> QED
            BY <1>1, <3>1, MarkOver, MarkersAssumption
    <2> QED
        BY <1>2, <2>1, <2>2 DEF Markers!Lines
<1>10. ASSUME OneUser, CutFits PROVE CutFits'
    BY <1>2, <1>6, <1>9, <1>10 DEF CutFits, InText, text
<1>11. ASSUME OneUser, FileTrue PROVE FileTrue'
    BY <1>2, <1>6, <1>9, <1>11 DEF FileTrue, InText, text
<1>12. OneUser => \A v \in User : write'[v].at # "write"
    BY <1>6, <1>9
<1> QED
    BY <1>1, <1>2, <1>3, <1>5, <1>8, <1>10, <1>11, <1>12, FileGoesOn

\* The start goes on and nobody touches the file.
LEMMA SameFileGoesOn ==
    ASSUME MarkersInv, UNCHANGED <<chats, marked, turn, owner, write>>, MarkShape', StartFits', Markers!Tangles,
           boot = "up" => boot' = "up", boot' \in {"tell", "up"} => boot \in {"tell", "up"},
           Apart' /\ CutFits => CutFits'
    PROVE  MarkersInv'
<1>1. TurnsFit'
    BY DEF MarkersInv, TurnsFit, TurnFits
<1>2. ~ tangled' => Apart' /\ (tangled => Untangled')
    BY <1>1, TangledOrNot
<1>3. Before' = Before /\ After' = After /\ Markers!Lines' = Markers!Lines
    BY DEF Before, After, Markers!Lines
<1>4. ASSUME ~ tangled, ~ tangled' PROVE Untangled'
    <2>1. OneUser /\ CutFits /\ (boot \in {"tell", "up"} => FileTrue) /\ Apart'
        BY <1>2, <1>4 DEF MarkersInv, Untangled
    <2>2. OneUser'
        BY <2>1 DEF OneUser
    <2>3. FileTrue => FileTrue'
        BY <1>3 DEF FileTrue
    <2> QED
        BY <2>1, <2>2, <2>3 DEF Untangled
<1> QED
    BY <1>1, <1>2, <1>4, Zenon DEF MarkersInv

LEMMA DrainReadGoesOn ==
    ASSUME MarkersInv, Markers!DrainRead, Markers!Tangles, UNCHANGED chats
    PROVE  MarkersInv'
<1>1. /\ boot = "begins" /\ boot' = "drain" /\ drained' = Markers!Range(Markers!Lines)
      /\ UNCHANGED <<marked, turn, owner, write, recent, cut, blamed, notices>>
    BY Zenon DEF Markers!DrainRead, Markers!live, Markers!told_of
<1>2. \A s : s \in drained' <=> Named(s, Markers!Lines)
    BY <1>1 DEF Markers!Range, Named
<1>3. MarkShape' /\ Markers!Lines' = Markers!Lines
    <2>1. Markers!Lines \in Seq(Session)
        BY FileLines DEF MarkersInv
    <2> QED
        BY <1>1, <2>1 DEF MarkersInv, MarkShape, Markers!Tangles, Markers!Range, Markers!Lines
<1>4. StartFits'
    <2>1. \A s : ToTell(s)' => ToTell(s)
        BY <1>1, <1>2, <1>3 DEF ToTell
    <2> QED
        BY <1>1, <2>1 DEF MarkersInv, StartFits
<1>5. Apart' /\ CutFits => CutFits'
    BY <1>1, <1>2, <1>3 DEF Apart, CutFits, InText
<1> QED
    BY <1>1, <1>3, <1>4, <1>5, SameFileGoesOn

LEMMA DrainRemoveGoesOn ==
    ASSUME MarkersInv, Markers!DrainRemove, Markers!Tangles, UNCHANGED chats
    PROVE  MarkersInv'
<1>1. /\ boot = "drain" /\ boot' = "tell" /\ marked' = None /\ drained' = drained \cap recent \cap chats
      /\ cut' = IF tangled \/ Markers!Busy THEN {} ELSE cut
      /\ UNCHANGED <<turn, owner, write, recent, blamed, notices>>
    BY Zenon DEF Markers!DrainRemove, Markers!live
<1>2. MarkShape' /\ TurnsFit'
    BY <1>1 DEF MarkersInv, MarkShape, Markers!Tangles, TurnsFit, TurnFits
<1>3. StartFits'
    <2>1. \A s \in drained' : s \in blamed /\ notices[s] = 0
        BY <1>1 DEF MarkersInv, StartFits, ToTell
    <2>2. \A s \in cut' : s \in drained'
        BY <1>1 DEF MarkersInv, Untangled, CutFits
    <2> QED
        BY <1>1, <2>1, <2>2 DEF MarkersInv, StartFits
<1>4. ~ tangled' => Untangled'
    <2>1. (MarkShape /\ TurnsFit /\ NewFile => Untangled)'
        BY NewFileIsTrue, PTL
    <2>2. ~ tangled => NewFile'
        BY <1>1 DEF MarkersInv, Untangled, OneUser, Apart, NewFile
    <2> QED
        BY <1>2, <2>1, <2>2, TangledOrNot
<1> QED
    BY <1>2, <1>3, <1>4, Zenon DEF MarkersInv

LEMMA TellGoesOn ==
    ASSUME MarkersInv, Markers!Tangles, UNCHANGED chats,
           \/ Markers!Up \/ Markers!Ages
           \/ \E s \in Session : Markers!Notify(s) \/ Markers!NotifyFails(s)
    PROVE  MarkersInv'
<1>1. CASE Markers!Up \/ Markers!Ages
    <2>1. /\ UNCHANGED <<marked, turn, owner, write, drained, blamed, notices>>
          /\ boot' = boot \/ (boot = "tell" /\ boot' = "up" /\ drained = {})
          /\ recent' \in {recent, {}} /\ cut' \in {cut, {}}
          /\ boot' = boot /\ boot \in {"begins", "drain"} => cut' = {}
        BY <1>1 DEF Markers!Up, Markers!Ages, Markers!live, Markers!start, Markers!told_of
    <2>2. MarkShape' /\ Markers!Lines' = Markers!Lines
        BY <2>1 DEF MarkersInv, MarkShape, Markers!Tangles, Markers!Lines
    <2>3. StartFits'
        <3>1. \A s : ToTell(s)' => ToTell(s)
            BY <2>1, <2>2 DEF ToTell
        <3> QED
            BY <2>1, <3>1 DEF MarkersInv, StartFits
    <2>4. CutFits'
        BY <2>1 DEF CutFits
    <2> QED
        BY <2>1, <2>2, <2>3, <2>4, SameFileGoesOn
<1>2. ASSUME NEW s \in Session, Markers!Notify(s) \/ Markers!NotifyFails(s) PROVE MarkersInv'
    <2>1. /\ boot = "tell" /\ boot' = boot /\ s \in drained /\ drained' = drained \ {s}
          /\ UNCHANGED <<marked, turn, owner, write, recent, blamed>>
          /\ \/ notices' = [notices EXCEPT ![s] = @ + 1] /\ cut' = cut
             \/ notices' = notices /\ cut' = cut \ {s}
        BY <1>2 DEF Markers!Notify, Markers!NotifyFails, Markers!live
    <2>2. MarkShape'
        BY <2>1 DEF MarkersInv, MarkShape, Markers!Tangles
    <2>3. StartFits'
        BY <2>1 DEF MarkersInv, MarkShape, StartFits
    <2>4. CutFits'
        BY <2>1 DEF CutFits
    <2> QED
        BY <2>1, <2>2, <2>3, <2>4, SameFileGoesOn
<1> QED
    BY <1>1, <1>2

LEMMA CrashGoesOn ==
    ASSUME MarkersInv, Markers!Crash, Markers!Tangles, UNCHANGED chats
    PROVE  MarkersInv'
<1> DEFINE none == [at |-> "idle", op |-> "none", text |-> <<>>]
<1>1. /\ cut' = IF tangled \/ Markers!Busy \/ boot = "tell" THEN {}
               ELSE IF boot = "up" THEN {s \in recent \cap chats : turn[s] = "running"} ELSE cut
      /\ blamed' = IF tangled THEN Session
                  ELSE IF boot = "up" THEN {s \in Session : turn[s] # "none" \/ Markers!Using(Refusal(s))}
                  ELSE blamed
      /\ notices' = IF boot = "up" \/ tangled THEN [s \in Session |-> 0] ELSE notices
      /\ boot' = "begins" /\ drained' = {} /\ owner' = None
      /\ turn' = [s \in Session |-> "none"] /\ write' = [w \in User |-> none]
      /\ UNCHANGED <<marked, recent>>
    BY Zenon DEF Markers!Crash, Markers!NoWrite, User, Refusal
<1>2. none \in WriteType /\ none.at = "idle" /\ \A w \in User : write'[w].at = "idle"
    BY <1>1 DEF WriteType
<1> HIDE DEF none
<1>3. cut' \subseteq Session /\ blamed' \subseteq Session /\ notices' \in [Session -> Nat]
    BY <1>1 DEF MarkersInv, MarkShape
<1>4. MarkShape' /\ TurnsFit'
    <2>1. MarkShape'
        BY <1>1, <1>2, <1>3 DEF MarkersInv, MarkShape, Markers!Tangles, Markers!TurnAt
    <2>2. TurnsFit'
        BY <1>1, <1>2, Users DEF TurnsFit, TurnFits, AtTheFile
    <2> QED
        BY <2>1, <2>2
<1>5. tangled' <=> tangled
    <2>1. ~ Markers!Overlap'
        BY <1>1, <1>2 DEF Markers!Overlap, Markers!Using, Markers!Busy, User
    <2> QED
        BY <1>1, <2>1 DEF Markers!Tangles, MarkersInv, MarkShape
<1>6. /\ Markers!Lines' = Markers!Lines /\ \A s : ToTell(s)' => Named(s, Markers!Lines)
    BY <1>1, <1>2 DEF Markers!Lines, ToTell, InText
<1>7. ASSUME ~ tangled, boot \in {"tell", "up"}, NEW s \in chats, Named(s, Markers!Lines)
      PROVE  s \in Before \cup After
    <2>1. OneUser /\ FileTrue
        BY <1>7 DEF MarkersInv, Untangled
    <2>2. \A w \in User : write[w].at # "write"
        <3>1. marked = <<>> => ~ Named(s, Markers!Lines)
            BY DEF Markers!Lines, Named
        <3> QED
            BY <1>7, <2>1, <3>1 DEF OneUser
    <2>3. CASE \E w \in User : write[w].at = "done"
        BY <1>7, <2>1, <2>3 DEF FileTrue, Marks
    <2>4. CASE \A w \in User : write[w].at # "done"
        BY <1>7, <2>1, <2>2, <2>4 DEF FileTrue, Marks
    <2> QED
        BY <2>3, <2>4
<1>8. ASSUME NEW s \in chats, Named(s, Markers!Lines) PROVE s \in blamed' /\ notices'[s] = 0
    <2>1. s \in Session /\ MarkShape /\ TurnFits(s)
        BY DEF MarkersInv, MarkShape, TurnsFit
    <2>2. CASE ~ tangled /\ boot \in {"tell", "up"}
        <3>1. s \in Before \cup After
            BY <1>7, <1>8, <2>2
        <3>2. turn[s] # "none" \/ write[Refusal(s)].at # "idle"
            BY <3>1 DEF Before, After
        <3> QED
            BY <1>1, <2>1, <2>2, <3>2 DEF TurnFits, Markers!Using
    <2>3. CASE tangled
        BY <1>1, <2>1, <2>3
    <2>4. CASE ~ tangled /\ boot \in {"begins", "drain"}
        BY <1>1, <1>8, <2>4 DEF MarkersInv, StartFits, ToTell
    <2> QED
        BY <2>1, <2>2, <2>3, <2>4 DEF MarkShape
<1>9. StartFits'
    <2>1. \A s \in Session : notices'[s] <= 1 /\ (notices'[s] > 0 => s \in blamed')
        BY <1>1 DEF MarkersInv, StartFits
    <2>2. \A s \in chats' : ToTell(s)' => s \in blamed' /\ notices'[s] = 0
        BY <1>6, <1>8
    <2> QED
        BY <1>1, <2>1, <2>2 DEF StartFits
<1>10. ASSUME ~ tangled, NEW s \in cut' PROVE s \in recent /\ s \in chats /\ Named(s, Markers!Lines)
    <2>1. ~ Markers!Busy /\ Untangled /\ \A w \in User : write[w].at = "idle"
        BY <1>1, <1>10 DEF MarkersInv, Markers!Busy, Markers!Using, User
    <2>2. CASE boot = "up"
        <3>1. s \in recent \cap chats /\ turn[s] = "running"
            BY <1>1, <1>10, <2>1, <2>2
        <3>2. Marks(chats, Markers!Lines, Before) /\ s \in Before
            BY <2>1, <2>2, <3>1 DEF Untangled, FileTrue, Before
        <3> QED
            BY <3>1, <3>2 DEF Marks
    <2>3. CASE boot \in {"begins", "drain"}
        BY <1>1, <1>10, <2>1, <2>3 DEF Untangled, CutFits
    <2> QED
        BY <1>1, <1>10, <2>1, <2>2, <2>3 DEF MarkersInv, MarkShape
<1>11. ~ tangled' => Untangled'
    <2>1. OneUser'
        BY <1>1, <1>2, Users DEF OneUser, Apart
    <2>2. ~ tangled => CutFits'
        BY <1>1, <1>2, <1>6, <1>10 DEF CutFits, InText
    <2> QED
        BY <1>1, <1>5, <2>1, <2>2 DEF Untangled
<1> QED
    BY <1>4, <1>9, <1>11, Zenon DEF MarkersInv

LEMMA MarkersStep == MarkersInv /\ Markers!Next => MarkersInv'
<1> SUFFICES ASSUME MarkersInv, Markers!Next PROVE MarkersInv'
    OBVIOUS
<1>1. Markers!Tangles /\ UNCHANGED chats
    BY DEF Markers!Next
<1>2. CASE Markers!Writes
    <2>1. ASSUME NEW s \in Session, Markers!Read(Own(s), s) \/ Markers!Read(Refusal(s), s) PROVE MarkersInv'
        BY <1>1, <2>1, ReadGoesOn
    <2>2. ASSUME NEW w \in User, Markers!Empty(w) \/ Markers!Write(w) PROVE MarkersInv'
        BY <1>1, <2>2, EmptyGoesOn, WriteGoesOn
    <2> QED
        BY <1>2, <2>1, <2>2, Zenon DEF Markers!Writes, Own, Refusal, User
<1>3. CASE Markers!DrainRead \/ Markers!DrainRemove
    BY <1>1, <1>3, DrainReadGoesOn, DrainRemoveGoesOn
<1>4. CASE Markers!Up \/ Markers!Ages \/ \E s \in Session : Markers!Notify(s) \/ Markers!NotifyFails(s)
    BY <1>1, <1>4, TellGoesOn
<1>5. CASE Markers!Crash
    BY <1>1, <1>5, CrashGoesOn
<1>6. CASE \E s \in Session : Markers!Turn(s)
    BY <1>1, <1>6, TurnGoesOn
<1> QED
    BY <1>2, <1>3, <1>4, <1>5, <1>6, Zenon DEF Markers!Next, Markers!Starts

LEMMA MarkersStay == MarkersInv /\ UNCHANGED markers => MarkersInv'
<1> SUFFICES ASSUME MarkersInv, UNCHANGED markers PROVE MarkersInv'
    OBVIOUS
<1> USE DEF markers
<1>1. MarkShape' /\ TurnsFit'
    BY DEF MarkersInv, MarkShape, TurnsFit, TurnFits
<1>2. Markers!Lines' = Markers!Lines /\ Before' = Before /\ After' = After
    BY DEF Markers!Lines, Before, After
<1>3. StartFits'
    BY <1>2 DEF MarkersInv, StartFits, ToTell
<1>4. Untangled => Untangled'
    <2>1. (OneUser => OneUser') /\ (CutFits => CutFits')
        BY <1>2 DEF OneUser, Apart, CutFits
    <2>2. FileTrue => FileTrue'
        BY <1>2 DEF FileTrue
    <2> QED
        BY <2>1, <2>2 DEF Untangled
<1> QED
    BY <1>1, <1>3, <1>4 DEF MarkersInv

\* Of a text that names these of the chats, each once, as many lines are theirs.
LEMMA OnceEach ==
    ASSUME NEW of, NEW text \in Seq(Session), NEW who \in SUBSET of, Marks(of, text, who)
    PROVE  LET rest == Kept(text, {i \in DOMAIN text : text[i] \in of}) IN
           /\ Markers!Range(rest) = who
           /\ Len(rest) = Cardinality(Markers!Range(rest))
<1> DEFINE P == {i \in DOMAIN text : text[i] \in of}
           rest == Kept(text, P)
           f == [i \in P |-> text[i]]
<1>1. P \in SUBSET DOMAIN text /\ \A i \in DOMAIN text : i \in P <=> text[i] \in of
    OBVIOUS
<1> HIDE DEF P
<1>2. /\ IsFiniteSet(P) /\ Len(rest) = Cardinality(P)
      /\ \A k \in DOMAIN rest : Sorted(P)[k] \in P /\ rest[k] = text[Sorted(P)[k]]
      /\ \A i \in P : \E k \in DOMAIN rest : Sorted(P)[k] = i
    <2>1. /\ IsFiniteSet(P) /\ Len(Kept(text, P)) = Cardinality(P)
          /\ \A k \in DOMAIN Kept(text, P) : Sorted(P)[k] \in P /\ Kept(text, P)[k] = text[Sorted(P)[k]]
          /\ \A i \in P : \E k \in DOMAIN Kept(text, P) : Sorted(P)[k] = i
        BY <1>1, KeptEntries
    <2> QED
        BY <2>1, Zenon DEF rest
<1> HIDE DEF rest
<1>3. Markers!Range(rest) = {text[i] : i \in P}
    BY <1>2 DEF Markers!Range
<1>4. Markers!Range(rest) = who
    <2>1. \A c : c \in who <=> \E i \in P : text[i] = c
        BY <1>1 DEF Marks, Named
    <2> QED
        BY <1>3, <2>1
<1>5. f \in Bijection(P, Markers!Range(rest))
    <2>1. f \in [P -> Markers!Range(rest)]
        BY <1>3
    <2>2. \A i, j \in P : f[i] = f[j] => i = j
        BY <1>1 DEF Marks
    <2>3. \A c \in Markers!Range(rest) : \E i \in P : f[i] = c
        BY <1>3
    <2> HIDE DEF f
    <2>4. f \in Injection(P, Markers!Range(rest))
        BY <2>1, <2>2 DEF Injection, IsInjective
    <2>5. f \in Surjection(P, Markers!Range(rest))
        BY <2>1, <2>3 DEF Surjection
    <2> QED
        BY <2>4, <2>5 DEF Bijection
<1>6. Cardinality(Markers!Range(rest)) = Cardinality(P)
    <2>1. ExistsBijection(P, Markers!Range(rest))
        BY <1>5 DEF ExistsBijection
    <2> QED
        BY <1>2, <2>1, FS_Bijection
<1> QED
    BY <1>2, <1>4, <1>6 DEF rest, P

LEMMA MarkersHolds == MarkersInv => Markers!MarkersHold
<1> SUFFICES ASSUME MarkersInv PROVE Markers!MarkersAreTrue /\ Markers!CutAreTold
    BY DEF Markers!MarkersHold
<1>1. Markers!CutAreTold
    BY DEF MarkersInv, StartFits, Markers!CutAreTold
<1>2. ASSUME boot = "up", ~ tangled, ~ Markers!Busy
      PROVE  LET rest == Kept(Markers!Lines, {i \in DOMAIN Markers!Lines : Markers!Lines[i] \in chats}) IN
             /\ Markers!Range(rest) = {s \in chats : turn[s] = "running"}
             /\ Len(rest) = Cardinality(Markers!Range(rest))
    <2>1. Untangled /\ \A w \in User : write[w].at = "idle"
        BY <1>2 DEF MarkersInv, Markers!Busy, Markers!Using, User
    <2>2. Marks(chats, Markers!Lines, Before)
        BY <1>2, <2>1 DEF Untangled, FileTrue
    <2>3. Before = {s \in chats : turn[s] = "running"}
        BY <2>1, Users DEF MarkersInv, MarkShape, TurnsFit, TurnFits, Before
    <2>4. Markers!Lines \in Seq(Session) /\ Before \subseteq chats
        BY FileLines DEF MarkersInv, Before
    <2> QED
        BY <2>2, <2>3, <2>4, OnceEach
<1> QED
    BY <1>1, <1>2, MarkersLists DEF Markers!MarkersAreTrue
=============================================================================
