---------------------------- MODULE PartsProofs ----------------------------
(***************************************************************************)
(* What Parts asks of its eleven parts, for every value of the constants.  *)
(* A step of the whole is a step of one part, which leaves the variables   *)
(* of the others alone; so each part has lemmas over its own variables,    *)
(* those of the research runs, the memory and the markers in StoresProofs, *)
(* and the theorems put them together.                                     *)
(***************************************************************************)
EXTENDS Parts, StoresProofs

-----------------------------------------------------------------------------
(***************************************************************************)
(* The supervisor of tasks.                                                *)
(***************************************************************************)

\* A body that runs has its supervisor waiting for it, unless that was aborted; and once the
\* token is cancelled only a body that was let in at that moment may still be started.
TasksInv ==
    /\ bodies \in Nat /\ shutdown \in BOOLEAN /\ aborted \in BOOLEAN
    /\ aborted => at = "done"
    /\ bodies > 0 /\ ~aborted => at = "awaits"
    /\ shutdown /\ at = "spawn" => found = "spawn"

LEMMA TasksBegin == Tasks!Init => TasksInv
<1> SUFFICES ASSUME Tasks!Init PROVE TasksInv
    OBVIOUS
<1>1. bodies \in Nat /\ ~ (bodies > 0)
    <2>1. bodies = 0
        BY Zenon DEF Tasks!Init
    <2> QED
        BY <2>1
<1>2. shutdown = FALSE /\ aborted = FALSE
    BY Zenon DEF Tasks!Init
<1> QED
    BY <1>1, <1>2, Zenon DEF TasksInv

LEMMA TasksStay == TasksInv /\ UNCHANGED tasks => TasksInv'
BY DEF TasksInv, tasks

LEMMA TasksStep == TasksInv /\ Tasks!Next => TasksInv' /\ Tasks!StartsUnlessShutDown
<1> SUFFICES ASSUME TasksInv, Tasks!Next PROVE TasksInv' /\ Tasks!StartsUnlessShutDown
    OBVIOUS
<1> USE DEF TasksInv, Tasks!StartsUnlessShutDown
<1>1. CASE Tasks!Check
    BY <1>1 DEF Tasks!Check
<1>2. CASE Tasks!Start
    BY <1>2 DEF Tasks!Start
<1>3. CASE Tasks!Observe
    BY <1>3 DEF Tasks!Observe, Tasks!Await, Tasks!AfterError
<1>4. CASE Tasks!Hooked
    BY <1>4 DEF Tasks!Hooked
<1>5. CASE Tasks!BackOff
    BY <1>5 DEF Tasks!BackOff
<1>6. CASE Tasks!SleepEnds \/ Tasks!SleepInterrupted
    BY <1>6 DEF Tasks!SleepEnds, Tasks!SleepInterrupted
<1>7. CASE Tasks!BodyReturns \/ \E how \in {"err", "panic"} : Tasks!BodyFails(how)
    BY <1>7 DEF Tasks!BodyReturns, Tasks!BodyFails
<1>8. CASE Tasks!Shutdown
    BY <1>8 DEF Tasks!Shutdown
<1>9. CASE Tasks!Abort
    BY <1>9 DEF Tasks!Abort
<1> QED
    BY <1>1, <1>2, <1>3, <1>4, <1>5, <1>6, <1>7, <1>8, <1>9 DEF Tasks!Next, Tasks!Advance

LEMMA TasksQuiet == TasksInv => Tasks!DoneMeansQuiet
BY DEF TasksInv, Tasks!DoneMeansQuiet

-----------------------------------------------------------------------------
(***************************************************************************)
(* The limiter of edits.                                                   *)
(***************************************************************************)

LEMMA LimiterNumbers ==
    /\ Budget \in Nat /\ Window \in Nat /\ Gap \in Nat /\ DropAfter \in Nat /\ MaxGap \in Nat
    /\ Budget > 0 /\ Window > 0 /\ Window <= MaxGap /\ Gap <= MaxGap
    /\ RetryAfter \subseteq Nat
BY LimiterAssumption

\* The ages of the edits that count, and the waits, within what they may be.
Ages ==
    /\ window_edits \in Seq(Nat) /\ \A i \in DOMAIN window_edits : window_edits[i] < Window
    /\ last_edit \in 0..Gap /\ blocked \in 0..MaxGap
EditorType == [at : Limiter!Steps, wait : 0..MaxGap, tries : Nat]
Editors ==
    /\ editor \in [Limiter!Editor -> EditorType]
    /\ crowd \in Crowds /\ crowd \subseteq Limiter!Editor /\ edits \in [crowd -> Nat]
    /\ \A e \in Limiter!Editor :
        /\ editor[e].at # "idle" => e \in crowd
        /\ EditorKind[e] = "edit" => editor[e].wait <= DropAfter

\* When one editor is at work: a sleep ends not before the park does, nor before there is
\* room in the window; and while it sends there is room for what it sends.
SleepsEnough(e) ==
    editor[e].at = "sleeps" =>
        /\ blocked <= editor[e].wait
        /\ Len(window_edits) < Budget \/ Window <= window_edits[1] + editor[e].wait
HasRoom(e) == editor[e].at = "sends" => blocked = 0 /\ Len(window_edits) < Budget
Alone ==
    /\ Len(window_edits) <= Budget
    /\ blocked > 0 => Len(window_edits) < Budget
    /\ \A e \in Limiter!Editor : SleepsEnough(e) /\ HasRoom(e)
IsAlone == \E e \in Limiter!Editor : crowd = {e}
LimiterInv == Ages /\ Editors /\ (IsAlone => Alone)

LEMMA LimiterBegin == Limiter!Init => LimiterInv
<1> SUFFICES ASSUME Limiter!Init PROVE LimiterInv
    OBVIOUS
<1> USE LimiterNumbers DEF Limiter!Init
<1>1. Ages
    BY DEF Ages
<1>2. Editors
    BY LimiterAssumption DEF Editors, EditorType, Limiter!Editor, Limiter!Idle, Limiter!Steps
<1>3. Alone
    BY DEF Alone, SleepsEnough, HasRoom, Limiter!Idle
<1> QED
    BY <1>1, <1>2, <1>3, Zenon DEF LimiterInv

LEMMA LimiterStay == LimiterInv /\ UNCHANGED limiter => LimiterInv'
BY DEF LimiterInv, Ages, Editors, IsAlone, Alone, SleepsEnough, HasRoom, Limiter!Editor, limiter

\* How long an editor is told to wait.
LEMMA WaitIsBounded ==
    ASSUME Ages
    PROVE  /\ Limiter!TimeUntilAllowed \in 0..MaxGap
           /\ blocked <= Limiter!TimeUntilAllowed
           /\ Limiter!TimeUntilAllowed = 0 => blocked = 0
<1> USE LimiterNumbers
<1>1. CASE blocked > 0
    BY <1>1 DEF Ages, Limiter!TimeUntilAllowed
<1>2. CASE blocked = 0 /\ Len(window_edits) >= Budget
    <2>1. Head(window_edits) = window_edits[1] /\ 1 \in DOMAIN window_edits
        BY <1>2 DEF Ages
    <2>2. Head(window_edits) \in Nat /\ Head(window_edits) < Window
        BY <2>1 DEF Ages
    <2> QED
        BY <1>2, <2>2 DEF Limiter!TimeUntilAllowed
<1>3. CASE blocked = 0 /\ ~ (Len(window_edits) >= Budget)
    BY <1>3 DEF Ages, Limiter!TimeUntilAllowed
<1> QED
    BY <1>1, <1>2, <1>3 DEF Ages

LEMMA WaitMakesRoom ==
    ASSUME Ages, blocked = 0
    PROVE  \/ Len(window_edits) < Budget
           \/ /\ Window <= window_edits[1] + Limiter!TimeUntilAllowed
              /\ Limiter!TimeUntilAllowed # 0
<1> USE LimiterNumbers
<1> SUFFICES ASSUME Len(window_edits) >= Budget
             PROVE  /\ Window <= window_edits[1] + Limiter!TimeUntilAllowed
                    /\ Limiter!TimeUntilAllowed # 0
    BY DEF Ages
<1>1. Head(window_edits) = window_edits[1] /\ 1 \in DOMAIN window_edits
    BY DEF Ages
<1>2. Limiter!TimeUntilAllowed = Window - window_edits[1]
    BY <1>1 DEF Limiter!TimeUntilAllowed
<1> QED
    BY <1>1, <1>2 DEF Ages

LEMMA OneEditor ==
    ASSUME Editors, NEW e \in Limiter!Editor, NEW E \in EditorType,
           editor' = [editor EXCEPT ![e] = E], crowd' = crowd, edits' \in [crowd -> Nat],
           E.at # "idle" => e \in crowd,
           EditorKind[e] = "edit" => E.wait <= DropAfter
    PROVE  /\ Editors' /\ editor'[e] = E
           /\ \A d \in Limiter!Editor \ {e} : editor'[d] = editor[d]
BY DEF Editors, Limiter!Editor

LEMMA OneSleeps ==
    ASSUME Alone, NEW e \in Limiter!Editor,
           UNCHANGED <<window_edits, blocked>>,
           \A d \in Limiter!Editor \ {e} : editor'[d] = editor[d],
           SleepsEnough(e)', HasRoom(e)'
    PROVE  Alone'
BY DEF Alone, SleepsEnough, HasRoom, Limiter!Editor

LEMMA LimiterAsk ==
    ASSUME LimiterInv, NEW e \in Limiter!Editor, Limiter!Ask(e)
    PROVE  LimiterInv' /\ Limiter!RespectsPark
<1> DEFINE wait == Limiter!TimeUntilAllowed
<1>1. Ages /\ Editors
    BY Zenon DEF LimiterInv
<1>2. wait \in 0..MaxGap /\ blocked <= wait /\ (wait = 0 => blocked = 0)
    BY <1>1, WaitIsBounded
<1>3. /\ editor[e].at = "asks" /\ UNCHANGED <<window_edits, last_edit, blocked, crowd, edits>>
      /\ editor' = [editor EXCEPT ![e] =
            IF EditorKind[e] = "edit" /\ wait > DropAfter THEN Limiter!Idle
            ELSE [editor[e] EXCEPT !.at = IF wait = 0 THEN "sends" ELSE "sleeps", !.wait = wait]]
    BY DEF Limiter!Ask, Limiter!limiter
<1> HIDE DEF wait
<1>a. editor[e] \in EditorType /\ e \in crowd
    BY <1>1, <1>3 DEF Editors
<1>4. PICK E \in EditorType :
          /\ editor' = [editor EXCEPT ![e] = E]
          /\ \/ E.at = "idle" /\ E.wait = 0
             \/ E.at = (IF wait = 0 THEN "sends" ELSE "sleeps") /\ E.wait = wait
          /\ EditorKind[e] = "edit" => E.wait <= DropAfter
    <2>1. CASE EditorKind[e] = "edit" /\ wait > DropAfter
        <3>1. /\ Limiter!Idle \in EditorType
              /\ Limiter!Idle.at = "idle" /\ Limiter!Idle.wait = 0 /\ 0 <= DropAfter
            BY LimiterNumbers DEF Limiter!Idle, EditorType, Limiter!Steps
        <3>2. editor' = [editor EXCEPT ![e] = Limiter!Idle]
            BY <1>3, <2>1, Zenon
        <3> QED
            BY <3>1, <3>2
    <2>2. CASE ~ (EditorKind[e] = "edit" /\ wait > DropAfter)
        <3> DEFINE E == [editor[e] EXCEPT !.at = IF wait = 0 THEN "sends" ELSE "sleeps", !.wait = wait]
        <3>1. /\ E \in EditorType
              /\ E.at = (IF wait = 0 THEN "sends" ELSE "sleeps") /\ E.wait = wait
            BY <1>2, <1>a, LimiterNumbers DEF EditorType, Limiter!Steps
        <3>2. editor' = [editor EXCEPT ![e] = E]
            BY <1>3, <2>2, Zenon
        <3>3. EditorKind[e] = "edit" => wait <= DropAfter
            BY <1>2, <2>2, LimiterNumbers
        <3> HIDE DEF E
        <3> QED
            BY <3>1, <3>2, <3>3
    <2> QED
        BY <2>1, <2>2, Zenon
<1>5. /\ Editors' /\ editor'[e] = E
      /\ \A d \in Limiter!Editor \ {e} : editor'[d] = editor[d]
    <2>1. edits' \in [crowd -> Nat]
        BY <1>1, <1>3 DEF Editors
    <2> QED
        BY <1>1, <1>3, <1>4, <1>a, <2>1, OneEditor, Zenon
<1>6. IsAlone => Alone'
    <2> SUFFICES ASSUME IsAlone PROVE Alone'
        OBVIOUS
    <2>1. Alone
        BY Zenon DEF LimiterInv
    <2>2. \/ blocked > 0
          \/ Len(window_edits) < Budget
          \/ Window <= window_edits[1] + wait /\ wait # 0
        BY <1>1, WaitMakesRoom DEF Ages, wait
    <2>3. Len(window_edits) \in Nat /\ blocked \in Nat /\ (blocked > 0 => Len(window_edits) < Budget)
        BY <1>1, <2>1 DEF Ages, Alone
    <2>4. SleepsEnough(e)' /\ HasRoom(e)'
        BY <1>2, <1>3, <1>4, <1>5, <2>2, <2>3 DEF SleepsEnough, HasRoom
    <2> QED
        BY <1>3, <1>5, <2>1, <2>4, OneSleeps
<1>7. Limiter!RespectsPark
    BY <1>2, <1>3, <1>4, <1>5 DEF Limiter!RespectsPark
<1>8. Ages' /\ (IsAlone' => IsAlone)
    BY <1>1, <1>3 DEF Ages, IsAlone, Limiter!Editor
<1> QED
    BY <1>5, <1>6, <1>7, <1>8, Zenon DEF LimiterInv

\* The one editor that is at work is the only one the invariant speaks of.
LEMMA TheOne ==
    ASSUME Editors', IsAlone', NEW e \in Limiter!Editor, e \in crowd',
           Len(window_edits') <= Budget,
           blocked' > 0 => Len(window_edits') < Budget,
           SleepsEnough(e)', HasRoom(e)'
    PROVE  Alone'
<1>1. crowd' = {e}
    BY DEF IsAlone
<1>2. \A d \in Limiter!Editor \ {e} : editor'[d].at = "idle"
    BY <1>1 DEF Editors, Limiter!Editor
<1> QED
    BY <1>2 DEF Alone, SleepsEnough, HasRoom, Limiter!Editor

LEMMA LimiterStart ==
    ASSUME LimiterInv, NEW e \in Limiter!Editor, Limiter!Start(e) \/ Limiter!Wake(e)
    PROVE  LimiterInv' /\ Limiter!RespectsPark
<1>1. Ages /\ Editors
    BY Zenon DEF LimiterInv
<1>2. PICK step \in {"asks", "sends"} :
         /\ editor' = [editor EXCEPT ![e] = [editor[e] EXCEPT !.at = step]]
         /\ e \in crowd /\ UNCHANGED <<window_edits, last_edit, blocked, crowd>>
         /\ edits' \in [crowd -> Nat]
         /\ \/ step = "asks" /\ editor[e].at = "idle"
            \/ step = "sends" /\ editor[e].at = "sleeps" /\ editor[e].wait = 0
    <2>1. CASE Limiter!Start(e)
        BY <1>1, <2>1 DEF Limiter!Start, Limiter!limiter, Editors, Limiter!Editor
    <2>2. CASE Limiter!Wake(e)
        BY <1>1, <2>2 DEF Limiter!Wake, Limiter!limiter, Editors
    <2> QED
        BY <2>1, <2>2
<1> DEFINE E == [editor[e] EXCEPT !.at = step]
<1>3. /\ editor[e] \in EditorType /\ E \in EditorType
      /\ E.at = step /\ E.wait = editor[e].wait
      /\ EditorKind[e] = "edit" => E.wait <= DropAfter
    BY <1>1 DEF Editors, EditorType, Limiter!Steps
<1>4. editor' = [editor EXCEPT ![e] = E]
    BY <1>2, Zenon
<1> HIDE DEF E
<1>5. /\ Editors' /\ editor'[e] = E
      /\ \A d \in Limiter!Editor \ {e} : editor'[d] = editor[d]
    BY <1>1, <1>2, <1>3, <1>4, OneEditor, Zenon
<1>6. IsAlone => Alone'
    <2> SUFFICES ASSUME IsAlone PROVE Alone'
        OBVIOUS
    <2>1. Alone
        BY Zenon DEF LimiterInv
    <2>2. SleepsEnough(e)'
        BY <1>2, <1>3, <1>5 DEF SleepsEnough
    <2>3. HasRoom(e)'
        <3>1. CASE step = "asks"
            BY <1>3, <1>5, <3>1 DEF HasRoom
        <3>2. CASE step = "sends" /\ editor[e].at = "sleeps" /\ editor[e].wait = 0
            <4>1. blocked <= 0 /\ (Len(window_edits) < Budget \/ Window <= window_edits[1] + 0)
                BY <2>1, <3>2 DEF Alone, SleepsEnough
            <4>2. Len(window_edits) > 0 => window_edits[1] \in Nat /\ window_edits[1] < Window
                BY <1>1 DEF Ages
            <4>3. blocked = 0 /\ Len(window_edits) < Budget
                BY <1>1, <4>1, <4>2, LimiterNumbers DEF Ages
            <4> QED
                BY <1>2, <4>3 DEF HasRoom
        <3> QED
            BY <1>2, <3>1, <3>2
    <2> QED
        BY <1>2, <1>5, <2>1, <2>2, <2>3, OneSleeps
<1>7. Limiter!RespectsPark
    BY <1>2, <1>3, <1>5 DEF Limiter!RespectsPark
<1>8. Ages' /\ (IsAlone' => IsAlone)
    BY <1>1, <1>2 DEF Ages, IsAlone, Limiter!Editor
<1> QED
    BY <1>5, <1>6, <1>7, <1>8, Zenon DEF LimiterInv

LEMMA LimiterAnswered ==
    ASSUME LimiterInv, NEW e \in Limiter!Editor, Limiter!Answered(e)
    PROVE  LimiterInv' /\ Limiter!RespectsPark
<1>1. Ages /\ Editors
    BY Zenon DEF LimiterInv
<1>2. /\ editor[e].at = "sends" /\ UNCHANGED <<blocked, crowd, edits>>
      /\ window_edits' = Append(window_edits, 0) /\ last_edit' = 0
      /\ editor' = [editor EXCEPT ![e] = Limiter!Idle]
    BY DEF Limiter!Answered, Limiter!RecordEdit
<1>3. /\ Limiter!Idle \in EditorType /\ Limiter!Idle.at = "idle"
      /\ (EditorKind[e] = "edit" => Limiter!Idle.wait <= DropAfter)
    BY LimiterNumbers DEF Limiter!Idle, EditorType, Limiter!Steps
<1>4. e \in crowd /\ edits' \in [crowd -> Nat]
    BY <1>1, <1>2 DEF Editors
<1>5. /\ Editors' /\ editor'[e] = Limiter!Idle
      /\ \A d \in Limiter!Editor \ {e} : editor'[d] = editor[d]
    BY <1>1, <1>2, <1>3, <1>4, OneEditor, Zenon
<1>6. Ages' /\ Len(window_edits') = Len(window_edits) + 1
    BY <1>1, <1>2, LimiterNumbers DEF Ages
<1>7. IsAlone' => Alone'
    <2> SUFFICES ASSUME IsAlone' PROVE Alone'
        OBVIOUS
    <2>1. Alone
        BY <1>2, Zenon DEF LimiterInv, IsAlone, Limiter!Editor
    <2>2. blocked = 0 /\ Len(window_edits) < Budget
        BY <1>2, <2>1 DEF Alone, HasRoom
    <2>3. SleepsEnough(e)' /\ HasRoom(e)'
        BY <1>3, <1>5 DEF SleepsEnough, HasRoom
    <2>4. Len(window_edits') <= Budget /\ ~ (blocked' > 0)
        BY <1>1, <1>2, <1>6, <2>2, LimiterNumbers DEF Ages
    <2> QED
        BY <1>2, <1>4, <1>5, <2>3, <2>4, TheOne
<1>8. Limiter!RespectsPark
    BY <1>3, <1>5 DEF Limiter!RespectsPark
<1> QED
    BY <1>5, <1>6, <1>7, <1>8, Zenon DEF LimiterInv

LEMMA LimiterTooMany ==
    ASSUME LimiterInv, NEW e \in Limiter!Editor, NEW secs \in RetryAfter, Limiter!TooMany(e, secs)
    PROVE  LimiterInv' /\ Limiter!RespectsPark
<1>1. Ages /\ Editors
    BY Zenon DEF LimiterInv
<1>2. /\ editor[e].at = "sends" /\ UNCHANGED <<window_edits, last_edit, crowd, edits>>
      /\ blocked' \in 0..MaxGap
    BY LimiterNumbers DEF Limiter!TooMany, Limiter!Clamped
<1>a. editor[e] \in EditorType /\ editor[e].tries \in Nat
    BY <1>1 DEF Editors, EditorType
<1>3. PICK E \in EditorType :
         editor' = [editor EXCEPT ![e] = E] /\ E.at \in {"idle", "asks"} /\ E.wait = 0
    <2> DEFINE more == EditorKind[e] = "must" /\ editor[e].tries + 1 < MaxTries
               A == [at |-> "asks", wait |-> 0, tries |-> editor[e].tries + 1]
    <2>1. A \in EditorType /\ A.at = "asks" /\ A.wait = 0
        BY <1>a, LimiterNumbers DEF EditorType, Limiter!Steps
    <2>2. Limiter!Idle \in EditorType /\ Limiter!Idle.at = "idle" /\ Limiter!Idle.wait = 0
        BY LimiterNumbers DEF Limiter!Idle, EditorType, Limiter!Steps
    <2>3. editor' = [editor EXCEPT ![e] = IF more THEN A ELSE Limiter!Idle]
        BY Zenon DEF Limiter!TooMany
    <2> HIDE DEF A, more
    <2>4. editor' = [editor EXCEPT ![e] = A] \/ editor' = [editor EXCEPT ![e] = Limiter!Idle]
        BY <2>3, Zenon
    <2> QED
        BY <2>1, <2>2, <2>4
<1>4. e \in crowd /\ edits' \in [crowd -> Nat] /\ (EditorKind[e] = "edit" => E.wait <= DropAfter)
    BY <1>1, <1>2, <1>3, LimiterNumbers DEF Editors
<1>5. /\ Editors' /\ editor'[e] = E
      /\ \A d \in Limiter!Editor \ {e} : editor'[d] = editor[d]
    BY <1>1, <1>2, <1>3, <1>4, OneEditor, Zenon
<1>6. Ages'
    BY <1>1, <1>2 DEF Ages
<1>7. IsAlone' => Alone'
    <2> SUFFICES ASSUME IsAlone' PROVE Alone'
        OBVIOUS
    <2>1. Alone
        BY <1>2, Zenon DEF LimiterInv, IsAlone, Limiter!Editor
    <2>2. Len(window_edits) < Budget
        BY <1>2, <2>1 DEF Alone, HasRoom
    <2>3. SleepsEnough(e)' /\ HasRoom(e)'
        BY <1>3, <1>5 DEF SleepsEnough, HasRoom
    <2>4. Len(window_edits') <= Budget /\ Len(window_edits') < Budget
        BY <1>1, <1>2, <2>2, LimiterNumbers DEF Ages
    <2> QED
        BY <1>2, <1>4, <1>5, <2>3, <2>4, TheOne
<1>8. Limiter!RespectsPark
    BY <1>3, <1>5 DEF Limiter!RespectsPark
<1> QED
    BY <1>5, <1>6, <1>7, <1>8, Zenon DEF LimiterInv

\* A unit of time: the first n edits leave, everybody who sleeps is a unit nearer its end.
LEMMA AgesPass ==
    ASSUME Ages, Limiter!Tick
    PROVE  /\ Ages' /\ Len(window_edits') <= Len(window_edits)
           /\ Len(window_edits') = Len(window_edits) =>
                \A i \in DOMAIN window_edits : window_edits'[i] = window_edits[i] + 1
           /\ blocked' = (IF blocked > 0 THEN blocked - 1 ELSE 0)
<1> USE LimiterNumbers
<1>1. PICK n \in 0..Len(window_edits) : Limiter!Retain(n)
    BY DEF Limiter!Tick
<1> DEFINE k == Len(window_edits) - n
           older == [i \in 1..k |-> window_edits[i + n] + 1]
<1>2. /\ k \in Nat /\ k <= Len(window_edits) /\ window_edits' = older
      /\ \A i \in DOMAIN window_edits : window_edits[i] + 1 < Window <=> i > n
    BY <1>1 DEF Ages, Limiter!Retain
<1>3. older \in Seq(Nat) /\ Len(older) = k /\ DOMAIN older = 1..k
    <2>1. \A i \in 1..k : window_edits[i + n] + 1 \in Nat
        BY <1>2 DEF Ages
    <2> QED
        BY <1>2, <2>1
<1>4. \A i \in 1..k : older[i] < Window
    BY <1>2 DEF Ages
<1>5. Len(window_edits') <= Len(window_edits)
    BY <1>2, <1>3
<1>6. ASSUME Len(window_edits') = Len(window_edits)
      PROVE  \A i \in DOMAIN window_edits : window_edits'[i] = window_edits[i] + 1
    <2>1. n = 0
        BY <1>2, <1>3, <1>6 DEF Ages
    <2> QED
        BY <1>2, <1>3, <2>1 DEF Ages
<1>7. /\ last_edit' = (IF last_edit < Gap THEN last_edit + 1 ELSE Gap)
      /\ blocked' = (IF blocked > 0 THEN blocked - 1 ELSE 0)
    BY DEF Limiter!Tick
<1>8. last_edit' \in 0..Gap /\ blocked' \in 0..MaxGap
    BY <1>7 DEF Ages
<1>9. window_edits' \in Seq(Nat) /\ \A i \in DOMAIN window_edits' : window_edits'[i] < Window
    BY <1>2, <1>3, <1>4
<1> QED
    BY <1>5, <1>6, <1>7, <1>8, <1>9, Zenon DEF Ages

LEMMA SleepersNear ==
    ASSUME Editors, Limiter!Tick
    PROVE  /\ Editors' /\ crowd' = crowd
           /\ \A e \in Limiter!Editor :
                /\ editor'[e].at = editor[e].at
                /\ editor[e].at = "sleeps" =>
                    editor[e].wait > 0 /\ editor'[e].wait = editor[e].wait - 1
<1> USE LimiterNumbers
<1>1. /\ UNCHANGED <<crowd, edits>>
      /\ \A e \in Limiter!Editor : editor[e].at = "sleeps" => editor[e].wait > 0
      /\ editor' = [e \in Limiter!Editor |->
            IF editor[e].at = "sleeps" THEN [editor[e] EXCEPT !.wait = @ - 1] ELSE editor[e]]
    BY DEF Limiter!Tick
<1>2. ASSUME NEW e \in Limiter!Editor
      PROVE  /\ editor'[e] \in EditorType /\ editor'[e].at = editor[e].at
             /\ editor'[e].wait <= editor[e].wait
             /\ editor[e].at = "sleeps" => editor'[e].wait = editor[e].wait - 1
    <2>1. editor[e] \in EditorType
        BY DEF Editors
    <2>2. CASE editor[e].at = "sleeps"
        <3>1. editor'[e] = [editor[e] EXCEPT !.wait = editor[e].wait - 1]
            BY <1>1, <2>2
        <3> QED
            BY <1>1, <2>1, <2>2, <3>1 DEF EditorType
    <2>3. CASE editor[e].at # "sleeps"
        <3>1. editor'[e] = editor[e]
            BY <1>1, <2>3
        <3> QED
            BY <2>1, <2>3, <3>1 DEF EditorType
    <2> QED
        BY <2>2, <2>3
<1>3. editor' \in [Limiter!Editor -> EditorType]
    BY <1>1, <1>2
<1>4. Editors'
    <2>1. \A e \in Limiter!Editor : editor[e].wait \in Nat /\ editor'[e].wait \in Nat
        BY <1>3 DEF Editors, EditorType
    <2> QED
        BY <1>1, <1>2, <1>3, <2>1 DEF Editors, Limiter!Editor
<1> QED
    BY <1>1, <1>2, <1>4

LEMMA LimiterTick ==
    ASSUME LimiterInv, Limiter!Tick
    PROVE  LimiterInv' /\ Limiter!RespectsPark
<1> USE LimiterNumbers
<1>1. Ages /\ Editors
    BY Zenon DEF LimiterInv
<1>2. Ages' /\ Editors' /\ crowd' = crowd
    BY <1>1, AgesPass, SleepersNear
<1>3. Limiter!RespectsPark
    BY <1>1, SleepersNear DEF Limiter!RespectsPark
<1>4. IsAlone => Alone'
    <2> SUFFICES ASSUME IsAlone PROVE Alone'
        OBVIOUS
    <2>1. Alone
        BY Zenon DEF LimiterInv
    <2>2. PICK e \in Limiter!Editor : crowd = {e}
        BY DEF IsAlone
    <2>3. /\ Len(window_edits) \in Nat /\ Len(window_edits') \in Nat
          /\ Len(window_edits') <= Len(window_edits)
          /\ blocked \in Nat /\ blocked' = (IF blocked > 0 THEN blocked - 1 ELSE 0)
        BY <1>1, <1>2, AgesPass DEF Ages
    <2>4. Len(window_edits') <= Budget /\ (blocked' > 0 => Len(window_edits') < Budget)
        BY <2>1, <2>3 DEF Alone
    <2>5. HasRoom(e)'
        BY <1>1, <2>1, <2>3, SleepersNear DEF Alone, HasRoom
    <2>6. SleepsEnough(e)'
        <3> SUFFICES ASSUME editor[e].at = "sleeps"
                     PROVE  /\ blocked' <= editor'[e].wait
                            /\ Len(window_edits') < Budget \/ Window <= window_edits'[1] + editor'[e].wait
            BY <1>1, SleepersNear DEF SleepsEnough
        <3>1. editor[e].wait > 0 /\ editor'[e].wait = editor[e].wait - 1 /\ editor[e].wait \in Nat
            BY <1>1, SleepersNear DEF Editors, EditorType
        <3>2. /\ blocked <= editor[e].wait
              /\ Len(window_edits) < Budget \/ Window <= window_edits[1] + editor[e].wait
            BY <2>1 DEF Alone, SleepsEnough
        <3>3. CASE Len(window_edits') < Budget
            BY <2>3, <3>1, <3>2, <3>3
        <3>4. CASE ~ (Len(window_edits') < Budget)
            <4>1. Len(window_edits') = Len(window_edits) /\ Len(window_edits) = Budget
                BY <2>1, <2>3, <3>4 DEF Alone
            <4>2. 1 \in DOMAIN window_edits /\ window_edits[1] \in Nat
                BY <1>1, <4>1 DEF Ages
            <4>3. window_edits'[1] = window_edits[1] + 1
                BY <1>1, <4>1, <4>2, AgesPass
            <4> QED
                BY <2>3, <3>1, <3>2, <4>1, <4>2, <4>3
        <3> QED
            BY <3>3, <3>4
    <2>7. IsAlone' /\ e \in crowd'
        BY <1>2, <2>2 DEF IsAlone, Limiter!Editor
    <2> QED
        BY <1>2, <2>4, <2>5, <2>6, <2>7, TheOne
<1>5. IsAlone' => IsAlone
    BY <1>2 DEF IsAlone, Limiter!Editor
<1> QED
    BY <1>2, <1>3, <1>4, <1>5, Zenon DEF LimiterInv

LEMMA LimiterStep == LimiterInv /\ Limiter!Next => LimiterInv' /\ Limiter!RespectsPark
BY LimiterTick, LimiterAsk, LimiterStart, LimiterAnswered, LimiterTooMany, Zenon
    DEF Limiter!Next, Limiter!Progress

LEMMA LimiterHolds == LimiterInv => Limiter!BudgetHeldAlone /\ Limiter!CeilingHeld
<1> SUFFICES ASSUME LimiterInv PROVE Limiter!BudgetHeldAlone /\ Limiter!CeilingHeld
    OBVIOUS
<1>1. Limiter!CeilingHeld
    BY DEF LimiterInv, Ages, Editors, EditorType, Limiter!CeilingHeld
<1>2. ASSUME Cardinality(crowd) = 1 PROVE Len(window_edits) <= Budget
    <2>1. IsFiniteSet(crowd) /\ crowd \subseteq Limiter!Editor
        BY LimiterAssumption DEF LimiterInv, Editors
    <2>2. PICK e : crowd = {e}
        BY <1>2, <2>1, FS_Singleton, Zenon
    <2>3. IsAlone
        BY <2>1, <2>2 DEF IsAlone
    <2> QED
        BY <2>3, Zenon DEF LimiterInv, Alone
<1>3. Limiter!BudgetHeldAlone
    <2>1. Limiter!Cardinality(crowd) = Cardinality(crowd)
        BY DEF Limiter!Cardinality, Cardinality
    <2> QED
        BY <1>2, <2>1 DEF Limiter!BudgetHeldAlone
<1> QED
    BY <1>1, <1>3, Zenon

-----------------------------------------------------------------------------
(***************************************************************************)
(* The watchdog.                                                           *)
(***************************************************************************)

LEMMA WatchNumbers ==
    /\ WatchdogSec \in Nat /\ Grace \in Nat /\ PollTimeout \in Nat /\ TickInterval \in Nat
    /\ BuildLimit \in Nat
    /\ MaxSilence[Watch!Poll] \in Nat /\ MaxSilence[Watch!Scheduler] \in Nat
    /\ WatchdogSec >= 2 /\ Grace >= 1
    /\ PollTimeout + 1 <= MaxSilence[Watch!Poll]
    /\ TickInterval <= MaxSilence[Watch!Scheduler]
    /\ Watch!Half \in Nat /\ Watch!Half >= 1 /\ Watch!Half + Watch!Half <= WatchdogSec
BY WatchdogAssumption DEF Watch!Half, Watch!Poll, Watch!Scheduler

\* The silence that is forgiven, in the grace or after it.
Forgiven(s) ==
    IF MaxSilence[s] > BuildLimit + Grace THEN MaxSilence[s] ELSE BuildLimit + Grace

LEMMA ForgivenNumbers ==
    \A s \in Watch!Source :
        /\ MaxSilence[s] \in Nat /\ Forgiven(s) \in Nat
        /\ MaxSilence[s] <= Forgiven(s) /\ BuildLimit + Grace <= Forgiven(s)
        /\ Watch!Detected(s) = Forgiven(s) + WatchdogSec
        /\ Watch!Utmost(s) = Forgiven(s) + WatchdogSec + 1
BY WatchdogAssumption, WatchNumbers
    DEF Forgiven, Watch!Source, Watch!Poll, Watch!Scheduler, Watch!Detected, Watch!Utmost

LoopStep == {"off", "boots", "sleeps", "scans", "polls", "pauses", "paused", "wedged"}
WatchType ==
    /\ bot \in {"building", "running", "stopping"} /\ ticker \in {"off", "waits", "looks"}
    /\ loops \in [Watch!Source -> LoopStep] /\ silence \in [Watch!Source -> Nat]
    /\ ticked \in 0..Watch!Half /\ uptime \in 0..Grace /\ unheard \in 0..WatchdogSec
    /\ overran \in BOOLEAN
Undoubted == clock_set \/ doubted = {}

\* Before it serves, a process has been silent for no longer than it was built.
WhileBuilding ==
    bot = "building" =>
        /\ \A s \in Watch!Source : silence[s] <= unheard
        /\ unheard <= BuildLimit /\ ticker = "off" /\ uptime = 0
        /\ loops[Watch!Poll] = "off"

\* What the ticker forgives, systemd hears of; beyond that only unheard time is silence.
WhileRunning ==
    bot = "running" =>
        /\ ticker # "off"
        /\ \A s \in Watch!Source : silence[s] <= Forgiven(s) + unheard
        /\ uptime < Grace => \A s \in Watch!Source : silence[s] <= BuildLimit + uptime
        /\ loops[Watch!Poll] # "off" /\ Watch!Poll \in beaten
        /\ scheduler_on => loops[Watch!Scheduler] # "off"

\* How long a loop that is not stuck has been silent.
PollLoop ==
    /\ loops[Watch!Poll] \in {"off", "polls", "pauses", "paused", "wedged"}
    /\ loops[Watch!Poll] \in {"polls", "pauses"} => silence[Watch!Poll] <= PollTimeout
    /\ loops[Watch!Poll] = "paused" => silence[Watch!Poll] <= PollTimeout + 1
SchedulerLoop ==
    /\ loops[Watch!Scheduler] \in {"off", "boots", "sleeps", "scans", "wedged"}
    /\ loops[Watch!Scheduler] = "boots" => Watch!Scheduler \notin beaten
    /\ loops[Watch!Scheduler] = "sleeps" =>
        Watch!Scheduler \in beaten /\ silence[Watch!Scheduler] <= TickInterval
    /\ loops[Watch!Scheduler] = "scans" => Watch!Scheduler \in beaten
    /\ loops[Watch!Scheduler] = "off" => Watch!Scheduler \notin beaten

\* A scheduler that is too slow is known to be, once the grace is over.
OverrunSeen == Watch!Overruns /\ ~ (uptime < Grace) => overran

\* A process that works is heard of at every look: in half the interval after the last one,
\* or, before the first, in half the interval and the time it was built.
Works ==
    /\ bot = "running" /\ scheduler_on /\ ~ late /\ ~ clock_set /\ ~ overran
    /\ \A s \in Watch!Source : loops[s] # "wedged"
HeardOf == Works => unheard + 1 <= ticked + Watch!Half

WatchInv == WatchType /\ Undoubted /\ WhileBuilding /\ WhileRunning /\ PollLoop /\ SchedulerLoop
    /\ HeardOf /\ OverrunSeen

LEMMA WatchBegin == Watch!Init => WatchInv
<1> SUFFICES ASSUME Watch!Init PROVE WatchInv
    OBVIOUS
<1> USE WatchNumbers DEF Watch!Init
<1>1. WatchType
    <2>1. /\ ticked \in 0..Watch!Half /\ uptime \in 0..Grace /\ unheard \in 0..WatchdogSec
          /\ loops \in [Watch!Source -> LoopStep] /\ silence \in [Watch!Source -> Nat]
        BY DEF LoopStep
    <2>2. /\ bot \in {"building", "running", "stopping"} /\ ticker \in {"off", "waits", "looks"}
          /\ overran \in BOOLEAN
        BY Zenon
    <2> QED
        BY <2>1, <2>2, Zenon DEF WatchType
<1>2. bot = "building" /\ WhileBuilding /\ PollLoop /\ SchedulerLoop
    BY DEF WhileBuilding, PollLoop, SchedulerLoop, Watch!Source, Watch!Poll, Watch!Scheduler
<1>3. Undoubted
    BY Zenon DEF Undoubted
<1>4. OverrunSeen
    BY DEF OverrunSeen
<1> QED
    BY <1>1, <1>2, <1>3, <1>4 DEF WatchInv, WhileRunning, HeardOf, Works

LEMMA WatchStay == WatchInv /\ UNCHANGED watchdog => WatchInv'
<1> SUFFICES ASSUME WatchInv, UNCHANGED watchdog PROVE WatchInv'
    OBVIOUS
<1> USE DEF watchdog, WatchInv
<1>1. WatchType' /\ Undoubted'
    BY DEF WatchType, Undoubted
<1>2. WhileBuilding' /\ WhileRunning'
    BY DEF WhileBuilding, WhileRunning
<1>3. PollLoop' /\ SchedulerLoop'
    BY DEF PollLoop, SchedulerLoop
<1>4. HeardOf' /\ OverrunSeen'
    BY DEF HeardOf, Works, OverrunSeen, Watch!Overruns
<1> QED
    BY <1>1, <1>2, <1>3, <1>4, Zenon

LEMMA WatchStarts == WatchInv /\ (Watch!StartScheduler) => WatchInv'
<1> SUFFICES ASSUME WatchInv, Watch!StartScheduler PROVE WatchInv'
    OBVIOUS
<1> USE WatchNumbers DEF WatchInv, Watch!process, Watch!beats, Watch!timers, Watch!To, Watch!StartScheduler
<1>1. WatchType'
    BY DEF WatchType, LoopStep
<1>2. WhileBuilding'
    BY DEF WatchType, WhileBuilding, Watch!Poll, Watch!Scheduler, Watch!Source
<1>3. WhileRunning'
    BY ForgivenNumbers DEF WatchType, WhileBuilding, WhileRunning, Watch!Poll, Watch!Scheduler, Watch!Source
<1>4. PollLoop'
    BY DEF WatchType, PollLoop, Watch!Poll, Watch!Scheduler, Watch!Source
<1>5. SchedulerLoop'
    BY DEF WatchType, SchedulerLoop, WhileBuilding, Watch!Poll, Watch!Scheduler, Watch!Source
<1>7. Undoubted'
    BY DEF Undoubted
<1>6. HeardOf'
    BY DEF WatchType, HeardOf, Works, WhileRunning, Watch!Poll, Watch!Scheduler, Watch!Source
<1>8. OverrunSeen'
    BY DEF WatchType, OverrunSeen, Watch!Overruns, WhileBuilding, SchedulerLoop, Watch!Poll, Watch!Scheduler, Watch!Source
<1> QED
    BY <1>1, <1>2, <1>3, <1>4, <1>5, <1>6, <1>7, <1>8, Zenon

LEMMA WatchServes ==
    ASSUME WatchInv, Watch!Serve
    PROVE  WatchInv'
<1> USE WatchNumbers
<1>1. WatchType /\ Undoubted /\ WhileBuilding /\ PollLoop /\ SchedulerLoop
    BY Zenon DEF WatchInv
<1>2. /\ bot = "building" /\ bot' = "running"
      /\ scheduler_on => loops[Watch!Scheduler] # "off"
      /\ ticker' = "waits" /\ ticked' = 0 /\ uptime' = 0 /\ unheard' = unheard
      /\ loops' = [loops EXCEPT ![Watch!Poll] = "polls"]
      /\ silence' = [silence EXCEPT ![Watch!Poll] = 0]
      /\ beaten' = beaten \cup {Watch!Poll} /\ doubted' = doubted \ {Watch!Poll}
      /\ scheduler_on' = scheduler_on /\ clock_set' = clock_set
      /\ overran' = overran
    BY Zenon DEF Watch!Serve, Watch!Beat, Watch!To
<1>3. late' \/ unheard < Watch!Half
    <2>1. late' = (unheard >= Watch!Half)
        BY Zenon DEF Watch!Serve
    <2>2. CASE unheard >= Watch!Half
        BY <2>1, <2>2, Zenon
    <2>3. CASE ~ (unheard >= Watch!Half)
        BY <1>1, <2>3 DEF WatchType
    <2> QED
        BY <2>2, <2>3
<1>4. WatchType'
    BY <1>1, <1>2 DEF WatchType, LoopStep, Watch!Poll, Watch!Source
<1>5. /\ loops'[Watch!Poll] = "polls" /\ loops'[Watch!Scheduler] = loops[Watch!Scheduler]
      /\ silence'[Watch!Poll] = 0 /\ silence'[Watch!Scheduler] = silence[Watch!Scheduler]
      /\ Watch!Scheduler \in beaten' <=> Watch!Scheduler \in beaten
      /\ Watch!Source = {Watch!Poll, Watch!Scheduler}
    BY <1>1, <1>2 DEF WatchType, Watch!Poll, Watch!Scheduler, Watch!Source
<1>6. WhileBuilding' /\ WhileRunning'
    BY <1>1, <1>2, <1>5, ForgivenNumbers DEF WatchType, WhileBuilding, WhileRunning
<1>7. PollLoop' /\ SchedulerLoop'
    <2>1. uptime' = 0 /\ silence[Watch!Scheduler] \in Nat
        BY <1>1, <1>2, <1>5 DEF WatchType
    <2> QED
        BY <1>1, <1>5, <2>1 DEF PollLoop, SchedulerLoop
<1>8. HeardOf'
    <2> SUFFICES ASSUME Works' PROVE unheard' + 1 <= ticked' + Watch!Half
        BY Zenon DEF HeardOf
    <2>1. unheard < Watch!Half
        BY <1>3, Zenon DEF Works
    <2> QED
        BY <1>1, <1>2, <2>1 DEF WatchType
<1>9. Undoubted'
    BY <1>1, <1>2 DEF Undoubted
<1>10. OverrunSeen'
    BY <1>2 DEF OverrunSeen
<1> QED
    BY <1>4, <1>6, <1>7, <1>8, <1>9, <1>10, Zenon DEF WatchInv

LEMMA WatchPolls == WatchInv /\ (Watch!Polled) => WatchInv'
<1> SUFFICES ASSUME WatchInv, Watch!Polled PROVE WatchInv'
    OBVIOUS
<1> USE WatchNumbers DEF WatchInv, Watch!process, Watch!beats, Watch!timers, Watch!To, Watch!Polled, Watch!Beat
<1>1. WatchType'
    BY DEF WatchType, LoopStep
<1>2. WhileBuilding'
    BY DEF WatchType, WhileBuilding, Watch!Poll, Watch!Scheduler, Watch!Source
<1>3. WhileRunning'
    BY ForgivenNumbers DEF WatchType, WhileBuilding, WhileRunning, Watch!Poll, Watch!Scheduler, Watch!Source
<1>4. PollLoop'
    BY DEF WatchType, PollLoop, Watch!Poll, Watch!Scheduler, Watch!Source
<1>5. SchedulerLoop'
    BY DEF WatchType, SchedulerLoop, WhileBuilding, Watch!Poll, Watch!Scheduler, Watch!Source
<1>7. Undoubted'
    BY DEF Undoubted
<1>6. HeardOf'
    BY DEF WatchType, HeardOf, Works, WhileRunning, Watch!Poll, Watch!Scheduler, Watch!Source
<1>8. OverrunSeen'
    BY DEF WatchType, OverrunSeen, Watch!Overruns, WhileBuilding, SchedulerLoop, Watch!Poll, Watch!Scheduler, Watch!Source
<1> QED
    BY <1>1, <1>2, <1>3, <1>4, <1>5, <1>6, <1>7, <1>8, Zenon

LEMMA WatchPollFails == WatchInv /\ (Watch!PollFails) => WatchInv'
<1> SUFFICES ASSUME WatchInv, Watch!PollFails PROVE WatchInv'
    OBVIOUS
<1> USE WatchNumbers DEF WatchInv, Watch!process, Watch!beats, Watch!timers, Watch!To, Watch!PollFails
<1>1. WatchType'
    BY DEF WatchType, LoopStep
<1>2. WhileBuilding'
    BY DEF WatchType, WhileBuilding, Watch!Poll, Watch!Scheduler, Watch!Source
<1>3. WhileRunning'
    BY ForgivenNumbers DEF WatchType, WhileBuilding, WhileRunning, Watch!Poll, Watch!Scheduler, Watch!Source
<1>4. PollLoop'
    BY DEF WatchType, PollLoop, Watch!Poll, Watch!Scheduler, Watch!Source
<1>5. SchedulerLoop'
    BY DEF WatchType, SchedulerLoop, WhileBuilding, Watch!Poll, Watch!Scheduler, Watch!Source
<1>7. Undoubted'
    BY DEF Undoubted
<1>6. HeardOf'
    BY DEF WatchType, HeardOf, Works, WhileRunning, Watch!Poll, Watch!Scheduler, Watch!Source
<1>8. OverrunSeen'
    BY DEF WatchType, OverrunSeen, Watch!Overruns, WhileBuilding, SchedulerLoop, Watch!Poll, Watch!Scheduler, Watch!Source
<1> QED
    BY <1>1, <1>2, <1>3, <1>4, <1>5, <1>6, <1>7, <1>8, Zenon

LEMMA WatchWakes == WatchInv /\ (Watch!Woken) => WatchInv'
<1> SUFFICES ASSUME WatchInv, Watch!Woken PROVE WatchInv'
    OBVIOUS
<1> USE WatchNumbers DEF WatchInv, Watch!process, Watch!beats, Watch!timers, Watch!To, Watch!Woken
<1>1. WatchType'
    BY DEF WatchType, LoopStep
<1>2. WhileBuilding'
    BY DEF WatchType, WhileBuilding, Watch!Poll, Watch!Scheduler, Watch!Source
<1>3. WhileRunning'
    BY ForgivenNumbers DEF WatchType, WhileBuilding, WhileRunning, Watch!Poll, Watch!Scheduler, Watch!Source
<1>4. PollLoop'
    BY DEF WatchType, PollLoop, Watch!Poll, Watch!Scheduler, Watch!Source
<1>5. SchedulerLoop'
    BY DEF WatchType, SchedulerLoop, WhileBuilding, Watch!Poll, Watch!Scheduler, Watch!Source
<1>7. Undoubted'
    BY DEF Undoubted
<1>6. HeardOf'
    BY DEF WatchType, HeardOf, Works, WhileRunning, Watch!Poll, Watch!Scheduler, Watch!Source
<1>8. OverrunSeen'
    BY DEF WatchType, OverrunSeen, Watch!Overruns, WhileBuilding, SchedulerLoop, Watch!Poll, Watch!Scheduler, Watch!Source
<1> QED
    BY <1>1, <1>2, <1>3, <1>4, <1>5, <1>6, <1>7, <1>8, Zenon

LEMMA WatchScans ==
    ASSUME WatchInv, Watch!Scanned
    PROVE  WatchInv'
<1> USE WatchNumbers
<1>1. WatchType /\ Undoubted /\ WhileBuilding /\ WhileRunning /\ PollLoop /\ SchedulerLoop /\ HeardOf
    BY Zenon DEF WatchInv
<1>2. /\ loops[Watch!Scheduler] \in {"boots", "scans"}
      /\ loops' = [loops EXCEPT ![Watch!Scheduler] = "sleeps"]
      /\ silence' = [silence EXCEPT ![Watch!Scheduler] = 0]
      /\ beaten' = beaten \cup {Watch!Scheduler} /\ doubted' = doubted \ {Watch!Scheduler}
      /\ UNCHANGED <<bot, scheduler_on, late, clock_set, ticker, ticked, uptime, unheard, overran>>
    BY Zenon DEF Watch!Scanned, Watch!Beat, Watch!To, Watch!process, Watch!timers
<1>4. WatchType'
    BY <1>1, <1>2 DEF WatchType, LoopStep, Watch!Scheduler, Watch!Source
<1>5. /\ loops'[Watch!Scheduler] = "sleeps" /\ loops'[Watch!Poll] = loops[Watch!Poll]
      /\ silence'[Watch!Scheduler] = 0 /\ silence'[Watch!Poll] = silence[Watch!Poll]
      /\ Watch!Poll \in beaten' <=> Watch!Poll \in beaten
      /\ Watch!Scheduler \in beaten'
      /\ Watch!Source = {Watch!Poll, Watch!Scheduler}
    BY <1>1, <1>2 DEF WatchType, Watch!Poll, Watch!Scheduler, Watch!Source
<1>6. WhileBuilding'
    BY <1>1, <1>2, <1>5 DEF WatchType, WhileBuilding
<1>7. WhileRunning'
    BY <1>1, <1>2, <1>5, ForgivenNumbers DEF WatchType, WhileRunning
<1>8. PollLoop' /\ SchedulerLoop'
    BY <1>1, <1>5 DEF PollLoop, SchedulerLoop
<1>9. HeardOf'
    <2>1. Works' => Works
        BY <1>2, <1>5 DEF Works
    <2> QED
        BY <1>1, <1>2, <2>1 DEF HeardOf
<1>10. Undoubted'
    BY <1>1, <1>2 DEF Undoubted
<1>11. OverrunSeen'
    BY <1>5 DEF OverrunSeen, Watch!Overruns
<1> QED
    BY <1>4, <1>6, <1>7, <1>8, <1>9, <1>10, <1>11, Zenon DEF WatchInv

LEMMA WatchWedges == WatchInv /\ (\E s \in Watch!Source : Watch!Wedge(s)) => WatchInv'
<1> SUFFICES ASSUME WatchInv, \E s \in Watch!Source : Watch!Wedge(s) PROVE WatchInv'
    OBVIOUS
<1> USE WatchNumbers DEF WatchInv, Watch!process, Watch!beats, Watch!timers, Watch!To, Watch!Wedge
<1>1. WatchType'
    BY DEF WatchType, LoopStep
<1>2. WhileBuilding'
    BY DEF WatchType, WhileBuilding, Watch!Poll, Watch!Scheduler, Watch!Source
<1>3. WhileRunning'
    BY ForgivenNumbers DEF WatchType, WhileBuilding, WhileRunning, Watch!Poll, Watch!Scheduler, Watch!Source
<1>4. PollLoop'
    BY DEF WatchType, PollLoop, Watch!Poll, Watch!Scheduler, Watch!Source
<1>5. SchedulerLoop'
    BY DEF WatchType, SchedulerLoop, WhileBuilding, Watch!Poll, Watch!Scheduler, Watch!Source
<1>7. Undoubted'
    BY DEF Undoubted
<1>6. HeardOf'
    BY DEF WatchType, HeardOf, Works, WhileRunning, Watch!Poll, Watch!Scheduler, Watch!Source
<1>8. OverrunSeen'
    BY DEF WatchType, OverrunSeen, Watch!Overruns, WhileBuilding, SchedulerLoop, Watch!Poll, Watch!Scheduler, Watch!Source
<1> QED
    BY <1>1, <1>2, <1>3, <1>4, <1>5, <1>6, <1>7, <1>8, Zenon

LEMMA WatchSetsClock == WatchInv /\ (Watch!SetClock) => WatchInv'
<1> SUFFICES ASSUME WatchInv, Watch!SetClock PROVE WatchInv'
    OBVIOUS
<1> USE WatchNumbers DEF WatchInv, Watch!process, Watch!beats, Watch!timers, Watch!To, Watch!SetClock
<1>1. WatchType'
    BY DEF WatchType, LoopStep
<1>2. WhileBuilding'
    BY DEF WatchType, WhileBuilding, Watch!Poll, Watch!Scheduler, Watch!Source
<1>3. WhileRunning'
    BY ForgivenNumbers DEF WatchType, WhileBuilding, WhileRunning, Watch!Poll, Watch!Scheduler, Watch!Source
<1>4. PollLoop'
    BY DEF WatchType, PollLoop, Watch!Poll, Watch!Scheduler, Watch!Source
<1>5. SchedulerLoop'
    BY DEF WatchType, SchedulerLoop, WhileBuilding, Watch!Poll, Watch!Scheduler, Watch!Source
<1>7. Undoubted'
    BY DEF Undoubted
<1>6. HeardOf'
    BY DEF WatchType, HeardOf, Works, WhileRunning, Watch!Poll, Watch!Scheduler, Watch!Source
<1>8. OverrunSeen'
    BY DEF WatchType, OverrunSeen, Watch!Overruns, WhileBuilding, SchedulerLoop, Watch!Poll, Watch!Scheduler, Watch!Source
<1> QED
    BY <1>1, <1>2, <1>3, <1>4, <1>5, <1>6, <1>7, <1>8, Zenon

LEMMA WatchTicks == WatchInv /\ (Watch!Wake) => WatchInv'
<1> SUFFICES ASSUME WatchInv, Watch!Wake PROVE WatchInv'
    OBVIOUS
<1> USE WatchNumbers DEF WatchInv, Watch!process, Watch!beats, Watch!timers, Watch!To, Watch!Wake
<1>1. WatchType'
    BY DEF WatchType, LoopStep
<1>2. WhileBuilding'
    BY DEF WatchType, WhileBuilding, Watch!Poll, Watch!Scheduler, Watch!Source
<1>3. WhileRunning'
    BY ForgivenNumbers DEF WatchType, WhileBuilding, WhileRunning, Watch!Poll, Watch!Scheduler, Watch!Source
<1>4. PollLoop'
    BY DEF WatchType, PollLoop, Watch!Poll, Watch!Scheduler, Watch!Source
<1>5. SchedulerLoop'
    BY DEF WatchType, SchedulerLoop, WhileBuilding, Watch!Poll, Watch!Scheduler, Watch!Source
<1>7. Undoubted'
    BY DEF Undoubted
<1>6. HeardOf'
    BY DEF WatchType, HeardOf, Works, WhileRunning, Watch!Poll, Watch!Scheduler, Watch!Source
<1>8. OverrunSeen'
    BY DEF WatchType, OverrunSeen, Watch!Overruns, WhileBuilding, SchedulerLoop, Watch!Poll, Watch!Scheduler, Watch!Source
<1> QED
    BY <1>1, <1>2, <1>3, <1>4, <1>5, <1>6, <1>7, <1>8, Zenon

LEMMA WorksIsAlive ==
    ASSUME WatchInv, Works
    PROVE  Watch!Alive
<1> USE WatchNumbers
<1>1. WatchType /\ WhileRunning /\ PollLoop /\ SchedulerLoop /\ doubted = {} /\ OverrunSeen /\ ~ overran
    BY Zenon DEF WatchInv, Undoubted, Works
<1> SUFFICES ASSUME ~ (uptime < Grace), NEW s \in Watch!Source PROVE ~ Watch!Stale(s)
    BY Zenon DEF Watch!Alive, Watch!AnyStale
<1>2. CASE s = Watch!Poll
    <2>1. loops[Watch!Poll] \in {"polls", "pauses", "paused"} /\ Watch!Poll \in beaten
        BY <1>1, <1>2 DEF Works, WhileRunning, PollLoop
    <2>2. silence[Watch!Poll] <= PollTimeout + 1 /\ silence[Watch!Poll] \in Nat
        BY <1>1, <1>2, <2>1 DEF PollLoop, WatchType
    <2>3. ~ (silence[Watch!Poll] > MaxSilence[Watch!Poll])
        BY <2>2
    <2> QED
        BY <1>1, <1>2, <2>1, <2>3 DEF Watch!Stale
<1>3. CASE s = Watch!Scheduler
    <2>1. loops[Watch!Scheduler] \in {"boots", "sleeps", "scans"}
        BY <1>1, <1>3 DEF Works, WhileRunning, SchedulerLoop
    <2>2. silence[Watch!Scheduler] \in Nat /\ uptime \in Nat /\ uptime >= Grace
        <3>1. uptime \in 0..Grace /\ silence \in [Watch!Source -> Nat]
            BY <1>1, Zenon DEF WatchType
        <3> QED
            BY <1>3, <3>1
    <2>3. ~ Watch!Overruns
        BY <1>1, Zenon DEF OverrunSeen
    <2>4. Watch!Scheduler \in beaten /\ ~ (silence[Watch!Scheduler] > MaxSilence[Watch!Scheduler])
        <3>1. CASE loops[Watch!Scheduler] = "sleeps"
            BY <1>1, <2>2, <3>1 DEF SchedulerLoop
        <3>2. CASE loops[Watch!Scheduler] = "scans"
            BY <1>1, <2>3, <3>2, Zenon DEF SchedulerLoop, Watch!Overruns
        <3>3. loops[Watch!Scheduler] # "boots"
            BY <2>2, <2>3 DEF Watch!Overruns
        <3> QED
            BY <2>1, <3>1, <3>2, <3>3
    <2> QED
        BY <1>1, <1>3, <2>4 DEF Watch!Stale
<1> QED
    BY <1>2, <1>3, Zenon DEF Watch!Source, Watch!Poll, Watch!Scheduler

LEMMA WatchLooks ==
    ASSUME WatchInv, Watch!Look
    PROVE  WatchInv'
<1> USE WatchNumbers
<1>1. WatchType /\ Undoubted /\ WhileBuilding /\ WhileRunning /\ PollLoop /\ SchedulerLoop /\ HeardOf /\ OverrunSeen
    BY Zenon DEF WatchInv
<1>2. /\ ticker = "looks" /\ ticker' = "waits" /\ ticked' = 0
      /\ UNCHANGED <<bot, scheduler_on, late, clock_set, loops, silence, beaten, doubted, uptime>>
    BY Zenon DEF Watch!Look, Watch!process, Watch!beats
<1>3. \/ Watch!Alive /\ unheard' = 0 /\ overran' = FALSE
      \/ ~ Watch!Alive /\ unheard' = unheard /\ overran' = overran
    <2>1. overran' = (overran /\ ~ Watch!Alive) /\ unheard' = (IF Watch!Alive THEN 0 ELSE unheard)
        BY Zenon DEF Watch!Look
    <2>2. overran \in BOOLEAN
        BY <1>1, Zenon DEF WatchType
    <2> HIDE DEF Watch!Alive
    <2> QED
        BY <2>1, <2>2
<1>4. WatchType'
    <2>1. unheard' = 0 \/ unheard' = unheard
        BY <1>3, Zenon
    <2>2. unheard' \in 0..WatchdogSec
        BY <1>1, <2>1 DEF WatchType
    <2>3. overran' \in BOOLEAN
        BY <1>1, <1>3, Zenon DEF WatchType
    <2> QED
        BY <1>1, <1>2, <2>2, <2>3 DEF WatchType
<1>5. WhileBuilding' /\ PollLoop' /\ SchedulerLoop' /\ Undoubted'
    BY <1>1, <1>2 DEF WhileBuilding, PollLoop, SchedulerLoop, Undoubted
<1>6. WhileRunning'
    <2> SUFFICES ASSUME bot = "running", NEW s \in Watch!Source
                 PROVE  silence[s] <= Forgiven(s) + unheard'
        BY <1>1, <1>2 DEF WhileRunning
    <2>1. CASE Watch!Alive /\ unheard' = 0
        <3>1. silence[s] <= Forgiven(s)
            <4>1. CASE uptime < Grace
                BY <1>1, <4>1, ForgivenNumbers DEF WhileRunning, WatchType
            <4>2. CASE ~ (uptime < Grace)
                <5>1. ~ (silence[s] > MaxSilence[s])
                    BY <2>1, <4>2, Zenon DEF Watch!Alive, Watch!AnyStale, Watch!Stale
                <5> QED
                    BY <1>1, <5>1, ForgivenNumbers DEF WatchType
            <4> QED
                BY <4>1, <4>2
        <3> QED
            BY <1>1, <2>1, <3>1, ForgivenNumbers DEF WatchType
    <2>2. CASE unheard' = unheard
        BY <1>1, <2>2 DEF WhileRunning
    <2> QED
        BY <1>3, <2>1, <2>2
<1>7. HeardOf'
    <2> SUFFICES ASSUME Works' PROVE unheard' + 1 <= ticked' + Watch!Half
        BY Zenon DEF HeardOf
    <2>1. ~ Watch!Alive => Works
        BY <1>2, <1>3 DEF Works
    <2>2. unheard' = 0
        BY <1>3, <2>1, WorksIsAlive, Zenon
    <2> QED
        BY <1>2, <2>2
<1>8. OverrunSeen'
    <2>1. CASE Watch!Alive
        <3>1. SUFFICES ASSUME Watch!Overruns, ~ (uptime < Grace) PROVE FALSE
            BY <1>2, Zenon DEF OverrunSeen, Watch!Overruns
        <3>2. ~ Watch!Stale(Watch!Scheduler)
            BY <2>1, <3>1, Zenon DEF Watch!Alive, Watch!AnyStale, Watch!Source, Watch!Scheduler, Watch!Poll
        <3> QED
            BY <1>1, <3>1, <3>2, Zenon DEF Watch!Stale, Watch!Overruns, SchedulerLoop
    <2>2. CASE ~ Watch!Alive
        BY <1>1, <1>2, <1>3, <2>2, Zenon DEF OverrunSeen, Watch!Overruns
    <2> QED
        BY <2>1, <2>2
<1> QED
    BY <1>4, <1>5, <1>6, <1>7, <1>8, Zenon DEF WatchInv

\* What a process begins with, and what a ticker that is told to stop leaves.
Nothing ==
    /\ loops = [s \in Watch!Source |-> "off"] /\ silence = [s \in Watch!Source |-> 0]
    /\ beaten = {} /\ doubted = {}
    /\ ticker = "off" /\ ticked = 0 /\ uptime = 0 /\ unheard = 0 /\ overran = FALSE

LEMMA NothingHolds ==
    ASSUME Nothing', bot' \in {"building", "stopping"}
    PROVE  WatchInv'
<1> USE WatchNumbers
<1>1. /\ \A s \in Watch!Source : loops'[s] = "off" /\ silence'[s] = 0
      /\ Watch!Poll \in Watch!Source /\ Watch!Scheduler \in Watch!Source
    BY DEF Nothing, Watch!Source, Watch!Poll, Watch!Scheduler
<1>2. WatchType'
    <2>1. overran' \in BOOLEAN
        BY Zenon DEF Nothing
    <2> QED
        BY <2>1 DEF WatchType, Nothing, LoopStep
<1>3. WhileBuilding' /\ PollLoop' /\ SchedulerLoop'
    BY <1>1 DEF Nothing, WhileBuilding, PollLoop, SchedulerLoop
<1>4. WhileRunning' /\ HeardOf' /\ Undoubted' /\ OverrunSeen'
    BY DEF Nothing, WhileRunning, HeardOf, Works, Undoubted, OverrunSeen
<1> QED
    BY <1>2, <1>3, <1>4, Zenon DEF WatchInv

LEMMA WatchStops ==
    ASSUME WatchInv, Watch!Stop
    PROVE  WatchInv'
<1>1. CASE Nothing'
    BY <1>1, NothingHolds DEF Watch!Stop
<1>2. CASE /\ bot' = "stopping"
           /\ UNCHANGED <<scheduler_on, late, clock_set, loops, silence, beaten, doubted, ticker,
                  ticked, uptime, unheard, overran>>
    BY <1>2 DEF WatchInv, OverrunSeen, Watch!Overruns, WatchType, Undoubted, WhileBuilding, WhileRunning, PollLoop, SchedulerLoop,
        HeardOf, Works
<1> QED
    BY <1>1, <1>2, Zenon DEF Watch!Stop, Watch!Cleared, Watch!beats, Watch!timers, Nothing

LEMMA WatchBegins ==
    ASSUME Watch!Exit \/ Watch!Kill
    PROVE  WatchInv'
<1>1. Nothing' /\ bot' = "building"
    BY Zenon DEF Watch!Exit, Watch!Kill, Watch!Begins, Watch!Cleared, Nothing
<1> QED
    BY <1>1, NothingHolds

LEMMA WatchPasses ==
    ASSUME WatchInv, Watch!Pass
    PROVE  WatchInv'
<1> USE WatchNumbers
<1>1. WatchType /\ Undoubted /\ WhileBuilding /\ WhileRunning /\ PollLoop /\ SchedulerLoop /\ HeardOf
    BY Zenon DEF WatchInv
<1>2. /\ bot # "stopping" /\ ~ Watch!PollDue /\ ~ Watch!SchedulerDue /\ ~ Watch!TickerDue
      /\ ~ Watch!BuildDue /\ ~ Watch!Due
      /\ silence' = [s \in Watch!Source |-> Watch!Upto(silence[s], Watch!Utmost(s))]
      /\ loops' = [loops EXCEPT ![Watch!Poll] = IF @ = "pauses" THEN "paused" ELSE @]
      /\ ticked' = (IF ticker = "waits" THEN ticked + 1 ELSE ticked)
      /\ uptime' = (IF ticker = "off" THEN 0 ELSE Watch!Upto(uptime, Grace))
      /\ unheard' = unheard + 1 /\ overran' = (overran \/ Watch!Overruns')
      /\ UNCHANGED <<bot, scheduler_on, late, clock_set, beaten, doubted, ticker>>
    BY Zenon DEF Watch!Pass, Watch!process
<1>3. unheard < WatchdogSec
    BY <1>1, <1>2 DEF WatchType, Watch!Due
<1>4. ticker # "looks" /\ (ticker = "waits" => ticked < Watch!Half)
    BY <1>1, <1>2 DEF WatchType, Watch!TickerDue
<1>5. /\ uptime' \in 0..Grace /\ uptime' <= uptime + 1
      /\ uptime' < Grace /\ ticker # "off" => uptime' = uptime + 1
      /\ ticker = "off" => uptime' = 0
    BY <1>1, <1>2 DEF WatchType, Watch!Upto
<1>6. ASSUME NEW s \in Watch!Source
      PROVE  /\ silence'[s] \in Nat /\ silence'[s] <= silence[s] + 1 /\ silence[s] \in Nat
             /\ silence'[s] = silence[s] + 1 \/ silence'[s] >= Grace
    <2>1. silence[s] \in Nat /\ Watch!Utmost(s) \in Nat /\ Watch!Utmost(s) >= Grace
        BY <1>1, ForgivenNumbers DEF WatchType
    <2>2. silence'[s] = Watch!Upto(silence[s], Watch!Utmost(s))
        BY <1>2
    <2> QED
        BY <2>1, <2>2 DEF Watch!Upto
<1>7. /\ Watch!Source = {Watch!Poll, Watch!Scheduler} /\ Watch!Poll # Watch!Scheduler
      /\ loops'[Watch!Poll] = (IF loops[Watch!Poll] = "pauses" THEN "paused" ELSE loops[Watch!Poll])
      /\ loops'[Watch!Scheduler] = loops[Watch!Scheduler]
      /\ loops' \in [Watch!Source -> LoopStep] /\ silence' \in [Watch!Source -> Nat]
    <2>1. silence' \in [Watch!Source -> Nat]
        BY <1>2, <1>6
    <2> QED
        BY <1>1, <1>2, <2>1 DEF WatchType, LoopStep, Watch!Poll, Watch!Scheduler, Watch!Source
<1>8. WatchType'
    <2>1. ticked' \in 0..Watch!Half /\ unheard' \in 0..WatchdogSec
        BY <1>1, <1>2, <1>3, <1>4 DEF WatchType
    <2>2. overran' \in BOOLEAN
        BY <1>2, Zenon
    <2> QED
        BY <1>1, <1>2, <1>5, <1>7, <2>1, <2>2 DEF WatchType
<1>9. WhileBuilding'
    <2> SUFFICES ASSUME bot = "building" PROVE WhileBuilding'
        BY <1>2 DEF WhileBuilding
    <2>1. unheard < BuildLimit /\ unheard \in Nat
        BY <1>1, <1>2 DEF WatchType, Watch!BuildDue
    <2> QED
        BY <1>1, <1>2, <1>5, <1>6, <1>7, <2>1 DEF WhileBuilding
<1>10. WhileRunning'
    <2> SUFFICES ASSUME bot = "running" PROVE WhileRunning'
        BY <1>2 DEF WhileRunning
    <2>1. /\ ticker # "off" /\ loops[Watch!Poll] # "off" /\ Watch!Poll \in beaten
          /\ scheduler_on => loops[Watch!Scheduler] # "off"
        BY <1>1 DEF WhileRunning
    <2>2. ASSUME NEW s \in Watch!Source PROVE silence'[s] <= Forgiven(s) + unheard'
        BY <1>1, <1>2, <1>6, ForgivenNumbers DEF WhileRunning, WatchType
    <2>3. ASSUME uptime' < Grace, NEW s \in Watch!Source PROVE silence'[s] <= BuildLimit + uptime'
        <3>1. uptime' = uptime + 1 /\ uptime < Grace
            BY <1>1, <1>5, <2>1, <2>3 DEF WatchType
        <3> QED
            BY <1>1, <1>6, <3>1 DEF WhileRunning, WatchType
    <2> QED
        BY <1>2, <1>7, <2>1, <2>2, <2>3 DEF WhileRunning
<1>11. PollLoop'
    <2>1. loops[Watch!Poll] = "paused" => FALSE
        BY <1>1, <1>2 DEF Watch!PollDue, WatchType, WhileBuilding
    <2>2. loops[Watch!Poll] = "polls" => silence[Watch!Poll] < PollTimeout
        BY <1>1, <1>2, <1>6, <1>7 DEF Watch!PollDue, WatchType, WhileBuilding
    <2>3. silence'[Watch!Poll] <= silence[Watch!Poll] + 1 /\ {silence'[Watch!Poll], silence[Watch!Poll]} \subseteq Nat
        BY <1>6, <1>7
    <2> QED
        BY <1>1, <1>7, <2>1, <2>2, <2>3 DEF PollLoop
<1>12. SchedulerLoop'
    <2> DEFINE S == Watch!Scheduler
    <2>1. /\ silence'[S] <= silence[S] + 1 /\ silence'[S] \in Nat /\ silence[S] \in Nat
          /\ silence'[S] = silence[S] + 1 \/ silence'[S] >= Grace
        BY <1>6, <1>7
    <2>2. loops[S] = "sleeps" => silence[S] < TickInterval
        BY <1>2, <2>1 DEF Watch!SchedulerDue
    <2> QED
        BY <1>1, <1>2, <1>7, <2>1, <2>2 DEF SchedulerLoop
<1>13. HeardOf'
    <2> SUFFICES ASSUME Works' PROVE unheard' + 1 <= ticked' + Watch!Half
        BY Zenon DEF HeardOf
    <2>1. Works
        BY <1>2, <1>7, Zenon DEF Works, Watch!Source
    <2>2. ticker = "waits"
        BY <1>1, <1>4, <2>1 DEF Works, WhileRunning, WatchType
    <2> QED
        BY <1>1, <1>2, <2>1, <2>2 DEF HeardOf, WatchType
<1>14. Undoubted'
    BY <1>1, <1>2 DEF Undoubted
<1>15. OverrunSeen'
    BY <1>2, Zenon DEF OverrunSeen
<1> QED
    BY <1>8, <1>9, <1>10, <1>11, <1>12, <1>13, <1>14, <1>15, Zenon DEF WatchInv

LEMMA WatchHolds == WatchInv => Watch!FitsTogether
<1> SUFFICES ASSUME WatchInv PROVE Watch!FitsTogether
    OBVIOUS
<1>1. Watch!HealthySpared
    <2> SUFFICES ASSUME bot = "running", Watch!Due, Works PROVE FALSE
        BY Zenon DEF Watch!HealthySpared, Works
    <2>1. unheard + 1 <= ticked + Watch!Half /\ unheard >= WatchdogSec
        BY DEF WatchInv, HeardOf, Watch!Due
    <2> QED
        BY <2>1, WatchNumbers DEF WatchInv, WatchType
<1>2. Watch!StuckIsNoticed
    BY WatchNumbers, ForgivenNumbers DEF WatchInv, WatchType, WhileRunning, Watch!StuckIsNoticed
<1> QED
    BY <1>1, <1>2, Zenon DEF Watch!FitsTogether

LEMMA WatchStep == WatchInv /\ Watch!Next => WatchInv'
BY WatchStarts, WatchServes, WatchPolls, WatchPollFails, WatchWakes, WatchScans, WatchWedges,
    WatchSetsClock, WatchTicks, WatchLooks, WatchStops, WatchBegins, WatchPasses, Zenon
    DEF Watch!Next

-----------------------------------------------------------------------------
(***************************************************************************)
(* The client of an MCP server.                                            *)
(***************************************************************************)

\* A call that writes or reads holds the exchange, and the ids of calls are no junk.
Call == [at : {"idle", "lock", "write", "read"}, id : Nat]
CallsShape ==
    /\ tool_call \in [Client -> Call] /\ DOMAIN result = Client
    /\ next_id \in Nat /\ next_id > 0
    /\ \A c \in Client : tool_call[c].at # "idle" => tool_call[c].id > 0
    /\ \A c \in Client : tool_call[c].at \in {"write", "read"} <=> exchange = c

\* The answer of the call of c is on its way: with the server, or to be read, or lost.
OnItsWay(c) ==
    \/ inbox = <<tool_call[c].id>> /\ outbox = <<>> /\ up
    \/ inbox = <<>> /\ outbox = <<tool_call[c].id>>
    \/ inbox = <<>> /\ outbox = <<>> /\ ~ up

\* While nothing timed out, nobody was dropped and the server kept to answers, the pipes
\* hold what belongs to the call that has the exchange, and nothing else.
InStep ==
    /\ ~ torn /\ ~ desynced
    /\ \A c \in Client : tool_call[c].at = "read" => OnItsWay(c)
    /\ (\A c \in Client : tool_call[c].at # "read") => inbox = <<>> /\ outbox = <<>>

McpInv ==
    /\ CallsShape /\ Mcp!ReplyIsOwn
    /\ disturbed \/ InStep

LEMMA McpBegin == Mcp!Init => McpInv
<1> SUFFICES ASSUME Mcp!Init PROVE McpInv
    OBVIOUS
<1>1. CallsShape
    BY McpAssumption DEF Mcp!Init, CallsShape, Call, Mcp!Resting, Mcp!Junk
<1>2. Mcp!ReplyIsOwn
    BY DEF Mcp!Init, Mcp!ReplyIsOwn
<1>3. InStep
    BY DEF Mcp!Init, InStep, Mcp!Resting
<1> QED
    BY <1>1, <1>2, <1>3, Zenon DEF McpInv

LEMMA McpStay == McpInv /\ UNCHANGED mcp => McpInv'
<1> SUFFICES ASSUME McpInv, UNCHANGED mcp PROVE McpInv'
    OBVIOUS
<1>1. CallsShape' /\ Mcp!ReplyIsOwn'
    BY DEF mcp, McpInv, CallsShape, Mcp!ReplyIsOwn
<1>2. InStep => InStep'
    BY DEF mcp, InStep, OnItsWay
<1>3. disturbed' = disturbed
    BY DEF mcp
<1> QED
    BY <1>1, <1>2, <1>3, Zenon DEF McpInv

\* What a step does to the call of c, and to nobody else's.
OneCall(c, C) ==
    /\ tool_call' = [tool_call EXCEPT ![c] = C]
    /\ C \in Call /\ (C.at # "idle" => C.id > 0)

LEMMA CallsStay ==
    ASSUME CallsShape, NEW c \in Client, NEW C, OneCall(c, C),
           next_id' \in Nat, next_id' >= next_id, DOMAIN result' = Client,
           \/ C.at \in {"write", "read"} /\ exchange' = c /\ exchange \in {c, None}
           \/ C.at \notin {"write", "read"} /\ exchange' = (IF exchange = c THEN None ELSE exchange)
    PROVE  /\ CallsShape' /\ tool_call'[c] = C
           /\ \A d \in Client \ {c} : tool_call'[d] = tool_call[d]
<1>1. /\ tool_call' \in [Client -> Call] /\ tool_call'[c] = C
      /\ \A d \in Client \ {c} : tool_call'[d] = tool_call[d]
    BY DEF OneCall, CallsShape
<1>2. \A d \in Client : tool_call'[d].at # "idle" => tool_call'[d].id > 0
    BY <1>1 DEF OneCall, CallsShape
<1>3. \A d \in Client : tool_call'[d].at \in {"write", "read"} <=> exchange' = d
    BY <1>1, McpAssumption DEF CallsShape
<1>4. next_id' \in Nat /\ next_id' > 0
    BY DEF CallsShape
<1> QED
    BY <1>1, <1>2, <1>3, <1>4 DEF CallsShape

\* Nobody reads while another one has the exchange.
LEMMA OneReads ==
    ASSUME CallsShape, NEW c \in Client, exchange = c \/ exchange = None, NEW d \in Client \ {c}
    PROVE  tool_call[d].at \notin {"write", "read"}
BY McpAssumption DEF CallsShape

LEMMA McpCalls ==
    ASSUME McpInv, NEW c \in Client, Mcp!CallTool(c) \/ Mcp!Acquire(c)
    PROVE  McpInv'
<1>1. CallsShape /\ Mcp!ReplyIsOwn
    BY Zenon DEF McpInv
<1>2. UNCHANGED <<inbox, outbox, torn, up, desynced, result, disturbed>>
    BY Zenon DEF Mcp!CallTool, Mcp!Acquire, Mcp!stream
<1>3. Mcp!ReplyIsOwn'
    BY <1>1, <1>2 DEF Mcp!ReplyIsOwn
<1>4. PICK C : /\ CallsShape' /\ tool_call'[c] = C /\ C.at # "read" /\ tool_call[c].at # "read"
               /\ \A d \in Client \ {c} : tool_call'[d] = tool_call[d]
    <2>1. CASE Mcp!CallTool(c)
        <3> DEFINE C == [at |-> "lock", id |-> next_id]
        <3>1. OneCall(c, C)
            BY <1>1, <2>1 DEF Mcp!CallTool, OneCall, Call, CallsShape
        <3>2. /\ next_id' = next_id + 1 /\ exchange' = exchange /\ tool_call[c].at = "idle"
              /\ DOMAIN result' = Client
            BY <1>1, <2>1 DEF Mcp!CallTool, CallsShape
        <3>3. next_id' \in Nat /\ next_id' >= next_id /\ exchange # c
            BY <1>1, <3>2 DEF CallsShape
        <3>4. C.at = "lock"
            OBVIOUS
        <3> HIDE DEF C
        <3> QED
            BY <1>1, <3>1, <3>2, <3>3, <3>4, CallsStay
    <2>2. CASE Mcp!Acquire(c)
        <3>1. PICK C : /\ OneCall(c, C) /\ C.at # "read" /\ tool_call[c].at = "lock"
                       /\ exchange = None /\ DOMAIN result' = Client /\ next_id' = next_id
                       /\ \/ C.at = "write" /\ exchange' = c
                          \/ C.at = "idle" /\ exchange' = exchange
            <4>1. CASE desynced
                <5>1. OneCall(c, Mcp!Resting) /\ Mcp!Resting.at = "idle"
                    BY <1>1, <2>2, <4>1 DEF Mcp!Acquire, OneCall, Call, CallsShape, Mcp!Resting, Mcp!Junk
                <5> QED
                    BY <1>1, <2>2, <4>1, <5>1 DEF Mcp!Acquire, Mcp!Free, CallsShape
            <4>2. CASE ~ desynced
                <5> DEFINE C == [tool_call[c] EXCEPT !.at = "write"]
                <5>1. OneCall(c, C) /\ C.at = "write"
                    BY <1>1, <2>2, <4>2 DEF Mcp!Acquire, OneCall, Call, CallsShape
                <5> HIDE DEF C
                <5> QED
                    BY <1>1, <2>2, <4>2, <5>1 DEF Mcp!Acquire, Mcp!Free, CallsShape
            <4> QED
                BY <4>1, <4>2
        <3>2. next_id' \in Nat /\ next_id' >= next_id /\ exchange # c
            BY <1>1, <3>1 DEF CallsShape
        <3> QED
            BY <1>1, <3>1, <3>2, CallsStay
    <2> QED
        BY <2>1, <2>2
<1>5. ASSUME InStep PROVE InStep'
    BY <1>2, <1>4, <1>5 DEF InStep, OnItsWay
<1> QED
    BY <1>2, <1>3, <1>4, <1>5, Zenon DEF McpInv

LEMMA McpGivesUp ==
    ASSUME McpInv, NEW c \in Client,
           Mcp!TimesOut(c) \/ Mcp!Dropped(c)
    PROVE  McpInv'
<1>1. CallsShape /\ Mcp!ReplyIsOwn
    BY Zenon DEF McpInv
<1>2. disturbed' = TRUE /\ result' = result /\ next_id' = next_id
    BY DEF Mcp!TimesOut, Mcp!Dropped
<1>3. /\ tool_call' = [tool_call EXCEPT ![c] = Mcp!Resting]
      /\ exchange' = (IF exchange = c THEN None ELSE exchange)
    <2>1. CASE Mcp!TimesOut(c)
        BY <1>1, <2>1 DEF Mcp!TimesOut, Mcp!Ends, CallsShape
    <2>2. CASE Mcp!Dropped(c)
        BY <2>2, Zenon DEF Mcp!Dropped
    <2> QED
        BY <2>1, <2>2
<1>4. OneCall(c, Mcp!Resting) /\ Mcp!Resting.at = "idle"
    BY <1>3 DEF OneCall, Call, Mcp!Resting, Mcp!Junk
<1>5. CallsShape'
    <2>1. next_id' \in Nat /\ next_id' >= next_id /\ DOMAIN result' = Client
        BY <1>1, <1>2 DEF CallsShape
    <2> QED
        BY <1>1, <1>3, <1>4, <2>1, CallsStay
<1>6. Mcp!ReplyIsOwn'
    BY <1>1, <1>2 DEF Mcp!ReplyIsOwn
<1> QED
    BY <1>2, <1>5, <1>6, Zenon DEF McpInv

LEMMA McpWrites ==
    ASSUME McpInv, NEW c \in Client, Mcp!Written(c)
    PROVE  McpInv'
<1>1. CallsShape /\ Mcp!ReplyIsOwn
    BY Zenon DEF McpInv
<1> DEFINE C == [tool_call[c] EXCEPT !.at = "read"]
<1>2. /\ OneCall(c, C) /\ C.at = "read" /\ C.id = tool_call[c].id /\ tool_call[c].at = "write"
    BY <1>1 DEF Mcp!Written, OneCall, Call, CallsShape
<1> HIDE DEF C
<1>3. /\ UNCHANGED <<outbox, up, exchange, desynced, next_id, result, disturbed>>
      /\ torn' = FALSE /\ exchange = c
      /\ ~ torn => inbox' = Append(inbox, tool_call[c].id)
    BY <1>1, <1>2 DEF Mcp!Written, CallsShape
<1>4. /\ CallsShape' /\ tool_call'[c] = C
      /\ \A d \in Client \ {c} : tool_call'[d] = tool_call[d]
    <2>1. next_id' \in Nat /\ next_id' >= next_id /\ DOMAIN result' = Client
        BY <1>1, <1>3 DEF CallsShape
    <2> QED
        BY <1>1, <1>2, <1>3, <2>1, CallsStay
<1>5. Mcp!ReplyIsOwn'
    BY <1>1, <1>3 DEF Mcp!ReplyIsOwn
<1>6. ASSUME InStep PROVE InStep'
    <2>1. \A d \in Client : tool_call[d].at # "read"
        BY <1>1, <1>2, <1>3, OneReads
    <2>2. inbox = <<>> /\ outbox = <<>> /\ ~ torn /\ ~ desynced
        BY <1>6, <2>1 DEF InStep
    <2>3. inbox' = <<C.id>> /\ outbox' = <<>>
        BY <1>2, <1>3, <2>2
    <2>4. up'
        BY <1>3 DEF Mcp!Written
    <2> QED
        BY <1>2, <1>3, <1>4, <2>1, <2>2, <2>3, <2>4 DEF InStep, OnItsWay
<1> QED
    BY <1>3, <1>4, <1>5, <1>6, Zenon DEF McpInv

LEMMA McpEnds ==
    ASSUME McpInv, NEW c \in Client, Mcp!Read(c) \/ Mcp!Broken(c)
    PROVE  McpInv'
<1>1. CallsShape /\ Mcp!ReplyIsOwn
    BY Zenon DEF McpInv
<1>2. /\ UNCHANGED <<inbox, torn, up, next_id, disturbed>>
      /\ exchange' = None /\ tool_call' = [tool_call EXCEPT ![c] = Mcp!Resting]
      /\ tool_call[c].at \in {"write", "read"}
    BY DEF Mcp!Read, Mcp!Broken, Mcp!Ends, Mcp!stream
<1>3. exchange = c
    BY <1>1, <1>2 DEF CallsShape
<1>4. OneCall(c, Mcp!Resting) /\ Mcp!Resting.at = "idle"
    BY <1>2 DEF OneCall, Call, Mcp!Resting, Mcp!Junk
<1>5. DOMAIN result' = Client /\ Mcp!ReplyIsOwn'
    <2>1. CASE result' = result
        BY <1>1, <2>1 DEF CallsShape, Mcp!ReplyIsOwn
    <2>2. CASE \E line : /\ line = tool_call[c].id
                         /\ result' = [result EXCEPT ![c] = [id |-> tool_call[c].id, line |-> line]]
        BY <1>1, <2>2 DEF CallsShape, Mcp!ReplyIsOwn
    <2> QED
        BY <2>1, <2>2, Zenon DEF Mcp!Read, Mcp!Broken, Mcp!Matches
<1>6. /\ CallsShape' /\ tool_call'[c] = Mcp!Resting
      /\ \A d \in Client \ {c} : tool_call'[d] = tool_call[d]
    <2>1. next_id' \in Nat /\ next_id' >= next_id
        BY <1>1, <1>2 DEF CallsShape
    <2> QED
        BY <1>1, <1>2, <1>3, <1>4, <1>5, <2>1, CallsStay
<1>7. ASSUME InStep PROVE InStep'
    <2>1. \A d \in Client \ {c} : tool_call[d].at # "read"
        BY <1>1, <1>3, OneReads
    <2>2. \A d \in Client : tool_call'[d].at # "read"
        BY <1>4, <1>6, <2>1
    <2>3. inbox' = <<>> /\ outbox' = <<>> /\ (desynced' => desynced)
        <3>1. CASE Mcp!Read(c)
            <4>1. tool_call[c].at = "read" /\ outbox # <<>>
                BY <3>1 DEF Mcp!Read
            <4>2. inbox = <<>> /\ outbox = <<tool_call[c].id>>
                BY <1>7, <4>1 DEF InStep, OnItsWay
            <4>3. Head(outbox) = tool_call[c].id /\ Tail(outbox) = <<>>
                BY <4>2
            <4>4. outbox' = Tail(outbox)
                BY <3>1, Zenon DEF Mcp!Read
            <4>5. desynced' => desynced
                BY <3>1, <4>3, Zenon DEF Mcp!Read, Mcp!Matches
            <4> QED
                BY <1>2, <4>2, <4>3, <4>4, <4>5
        <3>2. CASE Mcp!Broken(c)
            <4>1. /\ UNCHANGED <<outbox, desynced>> /\ ~ up
                  /\ tool_call[c].at = "write" \/ (tool_call[c].at = "read" /\ outbox = <<>>)
                BY <3>2, Zenon DEF Mcp!Broken, Mcp!stream
            <4>2. CASE tool_call[c].at = "write"
                BY <1>2, <1>7, <2>1, <4>1, <4>2 DEF InStep
            <4>3. CASE tool_call[c].at = "read" /\ outbox = <<>>
                <5>1. inbox = <<>>
                    BY <1>7, <4>1, <4>3 DEF InStep, OnItsWay
                <5> QED
                    BY <1>2, <4>1, <4>3, <5>1
            <4> QED
                BY <4>1, <4>2, <4>3
        <3> QED
            BY <3>1, <3>2
    <2> QED
        BY <1>2, <1>7, <2>2, <2>3 DEF InStep
<1> QED
    BY <1>2, <1>5, <1>6, <1>7, Zenon DEF McpInv

\* The lists of the client are those above.
LEMMA McpLists == \A list, i : Mcp!Without(list, i) = Without(list, i)
BY DEF Mcp!Without, Without, Mcp!Kept, Kept, Mcp!Sorted, Sorted, Mcp!Cardinality, Cardinality

LEMMA McpServer ==
    ASSUME McpInv, Mcp!Reply \/ Mcp!Chatter \/ Mcp!Die
    PROVE  McpInv'
<1>1. CallsShape /\ Mcp!ReplyIsOwn
    BY Zenon DEF McpInv
<1>2. UNCHANGED <<torn, exchange, desynced, next_id, tool_call, result>>
    BY Zenon DEF Mcp!Reply, Mcp!Chatter, Mcp!Die
<1>3. CallsShape' /\ Mcp!ReplyIsOwn'
    BY <1>1, <1>2 DEF CallsShape, Mcp!ReplyIsOwn
<1>4. CASE Mcp!Chatter
    BY <1>3, <1>4, Zenon DEF McpInv, Mcp!Chatter
<1>5. CASE Mcp!Reply
    <2>1. PICK i \in DOMAIN inbox : /\ outbox' = Append(outbox, inbox[i]) /\ inbox' = Mcp!Without(inbox, i)
                                    /\ up' = up /\ disturbed' = disturbed
        BY <1>5, Zenon DEF Mcp!Reply
    <2>2. ASSUME InStep PROVE InStep'
        <3>1. PICK c \in Client : tool_call[c].at = "read" /\ inbox = <<tool_call[c].id>> /\ outbox = <<>>
            <4>1. inbox # <<>>
                BY <2>1
            <4> QED
                BY <2>2, <4>1 DEF InStep, OnItsWay
        <3>2. inbox' = <<>> /\ outbox' = <<tool_call[c].id>>
            <4>1. i = 1
                BY <2>1, <3>1
            <4>2. Without(<<tool_call[c].id>>, 1) = <<>>
                <5>1. <<tool_call[c].id>> \in Seq({tool_call[c].id}) /\ 1 \in DOMAIN <<tool_call[c].id>>
                    OBVIOUS
                <5>2. /\ Without(<<tool_call[c].id>>, 1) \in Seq({tool_call[c].id})
                      /\ Len(Without(<<tool_call[c].id>>, 1)) = 0
                    <6>1. Len(<<tool_call[c].id>>) - 1 = 0
                        OBVIOUS
                    <6> QED
                        BY <5>1, <6>1, WithoutOne
                <5> QED
                    BY <5>2
            <4>3. Mcp!Without(<<tool_call[c].id>>, 1) = <<>>
                BY <4>2, McpLists
            <4> QED
                BY <2>1, <3>1, <4>1, <4>3
        <3>3. \A d \in Client \ {c} : tool_call[d].at # "read"
            BY <1>1, <3>1, OneReads DEF CallsShape
        <3> QED
            BY <1>2, <2>2, <3>1, <3>2, <3>3 DEF InStep, OnItsWay
    <2> QED
        BY <1>3, <2>1, <2>2, Zenon DEF McpInv
<1>6. CASE Mcp!Die
    <2>1. up' = FALSE /\ inbox' = <<>> /\ outbox' = outbox /\ disturbed' = disturbed
        BY <1>6, Zenon DEF Mcp!Die
    <2>2. ASSUME InStep PROVE InStep'
        BY <1>2, <2>1, <2>2 DEF InStep, OnItsWay
    <2> QED
        BY <1>3, <2>1, <2>2, Zenon DEF McpInv
<1> QED
    BY <1>4, <1>5, <1>6

LEMMA McpStep == McpInv /\ Mcp!Next => McpInv'
BY McpCalls, McpGivesUp, McpWrites, McpEnds, McpServer, Zenon DEF Mcp!Next, Mcp!Progress

LEMMA McpHolds == McpInv => Mcp!ReplyIsOwn /\ Mcp!GivenUpForACause
BY Zenon DEF McpInv, InStep, Mcp!GivenUpForACause

-----------------------------------------------------------------------------
(***************************************************************************)
(* The lasting shells.                                                     *)
(***************************************************************************)

\* The lists of the shells are those above.
LEMMA ShellsLists == \A list, i : Shells!Without(list, i) = Without(list, i)
BY DEF Shells!Without, Without, Shells!Kept, Kept, Shells!Sorted, Sorted, Shells!Cardinality, Cardinality

RunType == [at : {"idle", "get", "shell", "read", "reap", "close", "kill"}, shell : Shell \cup {None}]
ShellsShape ==
    /\ sessions \in Seq(Session \X Shell) /\ Len(sessions) <= MaxShells
    /\ run \in [Session -> RunType]
    /\ \A o \in Session : run[o].at \in {"idle", "get"} <=> run[o].shell = None
    /\ process \in [Shell -> Nat \cup {None}]

\* The shells of a session: the one of the map, and the one its call is at work with.
Listed(o, s) == \E i \in DOMAIN sessions : sessions[i] = <<o, s>>
AtWork(o, s) == run[o].at \in {"shell", "read", "reap"} /\ run[o].shell = s
Owns(o, s) == Listed(o, s) \/ AtWork(o, s)
OneOwner ==
    \A s \in Shell : \A o, p \in Session : Owns(o, s) /\ Owns(p, s) => o = p

\* The process of a shell has no job in the background, and no more commands to answer
\* than the one its session waits for.
InTurn(o, s) ==
    /\ s \notin jobs
    /\ \/ process[s] \in {None, 0}
       \/ process[s] = 1 /\ run[o].at \in {"read", "reap"} /\ run[o].shell = s
Answered ==
    /\ \A o \in Session \ left : \A s \in Shell : Owns(o, s) => InTurn(o, s)
    /\ mixed \subseteq left

ShellsInv == ShellsShape /\ OneOwner /\ Answered

LEMMA ShellsNumbers ==
    /\ MaxShells \in Nat /\ None \notin Nat /\ None \notin Shell
    /\ IsFiniteSet(Session) /\ IsFiniteSet(Shell)
    /\ MaxShells + Cardinality(Session) <= Cardinality(Shell)
    /\ Cardinality(Session) \in Nat /\ Cardinality(Shell) \in Nat
BY ShellsAssumption, FS_CardinalityType

LEMMA ShellsBegin == Shells!Init => ShellsInv
<1> SUFFICES ASSUME Shells!Init PROVE ShellsInv
    OBVIOUS
<1>1. ShellsShape
    BY ShellsAssumption DEF Shells!Init, ShellsShape, RunType, Shells!Resting
<1>2. \A o \in Session, s \in Shell : ~ Owns(o, s)
    BY DEF Shells!Init, Owns, Listed, AtWork, Shells!Resting
<1>3. mixed \subseteq left
    BY DEF Shells!Init
<1> QED
    BY <1>1, <1>2, <1>3 DEF ShellsInv, OneOwner, Answered

LEMMA ShellsStay == ShellsInv /\ UNCHANGED shells => ShellsInv'
<1> SUFFICES ASSUME ShellsInv, UNCHANGED shells PROVE ShellsInv'
    OBVIOUS
<1>1. UNCHANGED <<sessions, process, run, jobs, mixed, left>>
    BY DEF shells, Shells!pipes
<1> QED
    BY <1>1 DEF ShellsInv, ShellsShape, OneOwner, Answered, Owns, Listed, AtWork, InTurn

\* A step of the call of o that gives nobody a shell.
LEMMA NobodyGains ==
    ASSUME ShellsInv, ShellsShape',
           \A p \in Session, s \in Shell : Owns(p, s)' => Owns(p, s),
           \A p \in Session \ left', s \in Shell : Owns(p, s)' /\ InTurn(p, s) => InTurn(p, s)',
           left \subseteq left', mixed' \subseteq left'
    PROVE  ShellsInv'
<1>1. OneOwner'
    BY DEF ShellsInv, OneOwner
<1>2. \A p \in Session \ left', s \in Shell : Owns(p, s)' => InTurn(p, s)'
    BY DEF ShellsInv, Answered
<1>3. Answered'
    BY <1>2 DEF Answered
<1> QED
    BY <1>1, <1>3, Zenon DEF ShellsInv

\* What a step does to the call of o, and to nobody else's.
LEMMA OneRun ==
    ASSUME ShellsShape, NEW o \in Session, NEW R \in RunType,
           run' = [run EXCEPT ![o] = R], R.at \in {"idle", "get"} <=> R.shell = None
    PROVE  /\ run' \in [Session -> RunType] /\ run'[o] = R
           /\ \A p \in Session \ {o} : run'[p] = run[p]
           /\ \A p \in Session : run'[p].at \in {"idle", "get"} <=> run'[p].shell = None
BY DEF ShellsShape

LEMMA RestIsRun ==
    Shells!Resting \in RunType /\ Shells!Resting.at = "idle" /\ Shells!Resting.shell = None
BY DEF RunType, Shells!Resting

\* A call that begins, fails to get a shell or to start it, or has one to kill.
LEMMA ShellsWait ==
    ASSUME ShellsInv, NEW o \in Session,
           \/ Shells!Begin(o) \/ Shells!Busy(o) \/ Shells!StartFails(o) \/ Shells!Fails(o)
           \/ Shells!Close(o)
    PROVE  ShellsInv'
<1>1. ShellsShape /\ OneOwner /\ Answered
    BY Zenon DEF ShellsInv
<1>2. /\ UNCHANGED <<sessions, process, jobs, mixed, left>>
      /\ run[o] \in RunType
    BY <1>1, Zenon DEF Shells!Begin, Shells!Busy, Shells!StartFails, Shells!Fails, Shells!Close,
        Shells!bounds, Shells!pipes, ShellsShape
<1>3. PICK R \in RunType :
         /\ run' = [run EXCEPT ![o] = R] /\ (R.at \in {"idle", "get"} <=> R.shell = None)
         /\ \/ R.at \in {"idle", "get", "kill"} /\ run[o].at \notin {"read", "reap"}
            \/ R.at = "reap" /\ R.shell = run[o].shell /\ run[o].at = "read"
    <2>1. CASE Shells!Busy(o) \/ Shells!StartFails(o)
        BY <2>1, RestIsRun DEF Shells!Busy, Shells!StartFails
    <2>2. CASE Shells!Begin(o)
        <3> DEFINE R == [run[o] EXCEPT !.at = "get"]
        <3>1. R \in RunType /\ R.at = "get" /\ R.shell = None /\ run[o].at = "idle"
            BY <1>1, <1>2, <2>2 DEF Shells!Begin, RunType, ShellsShape
        <3>2. run' = [run EXCEPT ![o] = R]
            BY <2>2 DEF Shells!Begin
        <3> HIDE DEF R
        <3> QED
            BY <3>1, <3>2
    <2>3. CASE Shells!Fails(o)
        <3> DEFINE R == [run[o] EXCEPT !.at = "reap"]
        <3>1. R \in RunType /\ R.at = "reap" /\ R.shell = run[o].shell /\ run[o].at = "read" /\ R.shell # None
            BY <1>1, <1>2, <2>3 DEF Shells!Fails, RunType, ShellsShape
        <3>2. run' = [run EXCEPT ![o] = R]
            BY <2>3 DEF Shells!Fails
        <3> HIDE DEF R
        <3> QED
            BY <3>1, <3>2
    <2>4. CASE Shells!Close(o)
        <3> DEFINE R == [run[o] EXCEPT !.at = "kill"]
        <3>1. R \in RunType /\ R.at = "kill" /\ run[o].at = "close" /\ R.shell # None
            BY <1>1, <1>2, <2>4 DEF Shells!Close, RunType, ShellsShape
        <3>2. run' = [run EXCEPT ![o] = R]
            BY <2>4 DEF Shells!Close
        <3> HIDE DEF R
        <3> QED
            BY <3>1, <3>2
    <2> QED
        BY <2>1, <2>2, <2>3, <2>4
<1>4. /\ run' \in [Session -> RunType] /\ run'[o] = R
      /\ \A p \in Session \ {o} : run'[p] = run[p]
      /\ \A p \in Session : run'[p].at \in {"idle", "get"} <=> run'[p].shell = None
    BY <1>1, <1>3, OneRun
<1>5. ShellsShape'
    BY <1>1, <1>2, <1>4 DEF ShellsShape
<1>6. \A p \in Session, s \in Shell : Owns(p, s)' => Owns(p, s)
    BY <1>2, <1>3, <1>4 DEF Owns, Listed, AtWork
<1>7. \A p \in Session \ left', s \in Shell : Owns(p, s)' /\ InTurn(p, s) => InTurn(p, s)'
    BY <1>2, <1>3, <1>4 DEF InTurn
<1>8. left \subseteq left' /\ mixed' \subseteq left'
    BY <1>1, <1>2 DEF Answered
<1> QED
    BY <1>5, <1>6, <1>7, <1>8, NobodyGains, Zenon

LEMMA ShellsGet ==
    ASSUME ShellsInv, NEW o \in Session, Shells!Get(o)
    PROVE  ShellsInv'
<1>1. ShellsShape /\ OneOwner /\ Answered
    BY Zenon DEF ShellsInv
<1>2. PICK i \in DOMAIN sessions :
         /\ sessions[i][1] = o /\ sessions' = Append(Shells!Without(sessions, i), sessions[i])
         /\ run' = [run EXCEPT ![o] = [at |-> "shell", shell |-> sessions[i][2]]]
         /\ run[o].at = "get" /\ UNCHANGED <<process, jobs, mixed, left>>
    BY Zenon DEF Shells!Get, Shells!Places, Shells!bounds, Shells!pipes
<1> DEFINE s0 == sessions[i][2]
           R == [at |-> "shell", shell |-> s0]
           rest == Shells!Without(sessions, i)
<1>3. /\ sessions[i] = <<o, s0>> /\ s0 \in Shell
      /\ R \in RunType /\ R.at = "shell" /\ R.shell = s0
    BY <1>1, <1>2 DEF ShellsShape, RunType
<1>4. /\ run' \in [Session -> RunType] /\ run'[o] = R
      /\ \A p \in Session \ {o} : run'[p] = run[p]
      /\ \A p \in Session : run'[p].at \in {"idle", "get"} <=> run'[p].shell = None
    <2>1. run' = [run EXCEPT ![o] = R] /\ ~ (R.at \in {"idle", "get"}) /\ R.shell # None
        BY <1>2, <1>3, ShellsNumbers
    <2> HIDE DEF R
    <2> QED
        BY <1>1, <1>3, <2>1, OneRun
<1>5. /\ rest \in Seq(Session \X Shell) /\ Len(rest) = Len(sessions) - 1
      /\ \A j \in DOMAIN rest : \E k \in DOMAIN sessions : rest[j] = sessions[k]
    <2>1. sessions \in Seq(Session \X Shell)
        BY <1>1 DEF ShellsShape
    <2> QED
        BY <1>2, <2>1, ShellsLists, WithoutOne
<1>6. sessions' = Append(rest, sessions[i]) /\ sessions[i] \in Session \X Shell
    BY <1>1, <1>2 DEF ShellsShape
<1> HIDE DEF rest, R, s0
<1>7. /\ sessions' \in Seq(Session \X Shell) /\ Len(sessions') = Len(sessions)
      /\ \A j \in DOMAIN sessions' : \E k \in DOMAIN sessions : sessions'[j] = sessions[k]
    <2>1. Len(sessions) \in Nat
        BY <1>1 DEF ShellsShape
    <2>2. sessions' \in Seq(Session \X Shell) /\ Len(sessions') = Len(sessions)
        BY <1>5, <1>6, <2>1
    <2>3. ASSUME NEW j \in DOMAIN sessions' PROVE \E k \in DOMAIN sessions : sessions'[j] = sessions[k]
        <3>1. j \in 1..(Len(rest) + 1)
            BY <1>5, <1>6
        <3>2. CASE j = Len(rest) + 1
            BY <1>2, <1>5, <1>6, <3>2
        <3>3. CASE j \in 1..Len(rest)
            <4>1. sessions'[j] = rest[j] /\ j \in DOMAIN rest
                BY <1>5, <1>6, <3>3
            <4> QED
                BY <1>5, <4>1
        <3> QED
            BY <1>5, <3>1, <3>2, <3>3
    <2> QED
        BY <2>2, <2>3
<1>8. ShellsShape'
    BY <1>1, <1>2, <1>4, <1>7 DEF ShellsShape
<1>9. \A p \in Session, s \in Shell : Owns(p, s)' => Owns(p, s)
    <2>1. \A p \in Session, s \in Shell : Listed(p, s)' => Listed(p, s)
        BY <1>7 DEF Listed
    <2>2. \A p \in Session, s \in Shell : AtWork(p, s)' => AtWork(p, s) \/ (p = o /\ s = s0)
        BY <1>3, <1>4 DEF AtWork
    <2>3. Listed(o, s0)
        BY <1>2, <1>3 DEF Listed
    <2> QED
        BY <2>1, <2>2, <2>3 DEF Owns
<1>10. \A p \in Session \ left', s \in Shell : Owns(p, s)' /\ InTurn(p, s) => InTurn(p, s)'
    BY <1>2, <1>4 DEF InTurn
<1>11. left \subseteq left' /\ mixed' \subseteq left'
    BY <1>1, <1>2 DEF Answered
<1> QED
    BY <1>8, <1>9, <1>10, <1>11, NobodyGains, Zenon

LEMMA ShellsEvict ==
    ASSUME ShellsInv, NEW o \in Session, Shells!Evict(o)
    PROVE  ShellsInv'
<1>1. ShellsShape /\ OneOwner /\ Answered
    BY Zenon DEF ShellsInv
<1> DEFINE i == CHOOSE j \in Shells!Victims : \A k \in Shells!Victims : j <= k
<1>2. /\ sessions' = Shells!Without(sessions, i) /\ Shells!Victims # {}
      /\ run' = [run EXCEPT ![o] = [at |-> "close", shell |-> sessions[i][2]]]
      /\ run[o].at = "get" /\ UNCHANGED <<process, jobs, mixed, left>>
    BY Zenon DEF Shells!Evict, Shells!bounds, Shells!pipes
<1>3. i \in DOMAIN sessions
    <2>1. Shells!Victims \subseteq Nat /\ Shells!Victims \subseteq DOMAIN sessions
        BY <1>1 DEF Shells!Victims, ShellsShape
    <2>2. \E j \in Shells!Victims : \A k \in Shells!Victims : j <= k
        BY <1>2, <2>1, Least
    <2> QED
        BY <2>1, <2>2
<1> DEFINE R == [at |-> "close", shell |-> sessions[i][2]]
<1> HIDE DEF i
<1>4. R \in RunType /\ R.at = "close" /\ R.shell # None
    BY <1>1, <1>3, ShellsNumbers DEF ShellsShape, RunType
<1>5. /\ run' \in [Session -> RunType] /\ run'[o] = R
      /\ \A p \in Session \ {o} : run'[p] = run[p]
      /\ \A p \in Session : run'[p].at \in {"idle", "get"} <=> run'[p].shell = None
    <2>1. run' = [run EXCEPT ![o] = R] /\ ~ (R.at \in {"idle", "get"}) /\ R.shell # None
        BY <1>2, <1>4
    <2> HIDE DEF R
    <2> QED
        BY <1>1, <1>4, <2>1, OneRun
<1>6. /\ sessions' \in Seq(Session \X Shell) /\ Len(sessions') = Len(sessions) - 1
      /\ \A j \in DOMAIN sessions' : \E k \in DOMAIN sessions : sessions'[j] = sessions[k]
    <2>1. sessions \in Seq(Session \X Shell)
        BY <1>1 DEF ShellsShape
    <2> QED
        BY <1>2, <1>3, <2>1, ShellsLists, WithoutOne
<1>7. ShellsShape'
    <2>1. Len(sessions') <= MaxShells
        BY <1>1, <1>6, ShellsNumbers DEF ShellsShape
    <2> QED
        BY <1>1, <1>2, <1>5, <1>6, <2>1 DEF ShellsShape
<1>8. \A p \in Session, s \in Shell : Owns(p, s)' => Owns(p, s)
    BY <1>2, <1>4, <1>5, <1>6 DEF Owns, Listed, AtWork
<1>9. \A p \in Session \ left', s \in Shell : Owns(p, s)' /\ InTurn(p, s) => InTurn(p, s)'
    BY <1>2, <1>5 DEF InTurn
<1>10. left \subseteq left' /\ mixed' \subseteq left'
    BY <1>1, <1>2 DEF Answered
<1> QED
    BY <1>7, <1>8, <1>9, <1>10, NobodyGains, Zenon


\* There is a shell that nobody named yet when the map has room for one.
LEMMA AShellIsFree ==
    ASSUME ShellsShape, NEW o \in Session, run[o].at = "get", ~ Shells!Full
    PROVE  \E s \in Shell : s \notin Shells!Named
<1> DEFINE L == {sessions[i][2] : i \in 1..Len(sessions)}
           W == {run[p].shell : p \in Session \ {o}}
<1>1. Len(sessions) \in Nat /\ Len(sessions) < MaxShells
    BY ShellsNumbers DEF ShellsShape, Shells!Full
<1>2. Shells!Named \subseteq L \cup W \cup {None}
    <2>1. Shells!Range(sessions) = {sessions[i] : i \in DOMAIN sessions} /\ DOMAIN sessions = 1..Len(sessions)
        BY DEF Shells!Range, ShellsShape
    <2>2. run[o].shell = None
        BY DEF ShellsShape
    <2>3. \A e \in Shells!Range(sessions) : e[2] \in L
        BY <2>1
    <2>4. \A p \in Session : run[p].shell \in W \cup {None}
        BY <2>2
    <2> QED
        BY <2>3, <2>4 DEF Shells!Named
<1>3. IsFiniteSet(L) /\ Cardinality(L) <= Len(sessions)
    <2>1. IsFiniteSet(1..Len(sessions)) /\ Cardinality(1..Len(sessions)) = Len(sessions)
        <3>1. Len(sessions) \in Int /\ (1 > Len(sessions) => Len(sessions) = 0) /\ Len(sessions) - 1 + 1 = Len(sessions)
            BY <1>1
        <3> QED
            BY <3>1, FS_Interval
    <2> DEFINE F == [i \in 1..Len(sessions) |-> sessions[i][2]]
    <2>2. F \in Surjection(1..Len(sessions), L)
        BY DEF Surjection
    <2> HIDE DEF F, L
    <2>3. IsFiniteSet(L) /\ Cardinality(L) <= Cardinality(1..Len(sessions))
        BY <2>1, <2>2, FS_Surjection
    <2> QED
        BY <2>1, <2>3
<1>4. IsFiniteSet(W) /\ Cardinality(W) <= Cardinality(Session) - 1
    <2>1. /\ IsFiniteSet(Session \ {o}) /\ Cardinality(Session \ {o}) = Cardinality(Session) - 1
        BY ShellsNumbers, FS_RemoveElement
    <2> DEFINE F == [p \in Session \ {o} |-> run[p].shell]
    <2>2. F \in Surjection(Session \ {o}, W)
        BY DEF Surjection
    <2> HIDE DEF F, W
    <2>3. IsFiniteSet(W) /\ Cardinality(W) <= Cardinality(Session \ {o})
        BY <2>1, <2>2, FS_Surjection
    <2> QED
        BY <2>1, <2>3
<1> HIDE DEF L, W
<1>5. SUFFICES ASSUME Shell \subseteq Shells!Named PROVE FALSE
    OBVIOUS
<1>6. Shell \subseteq L \cup W
    BY <1>2, <1>5, ShellsNumbers
<1>7. /\ IsFiniteSet(L \cup W)
      /\ Cardinality(L \cup W) <= Cardinality(L) + Cardinality(W)
    <2>1. /\ IsFiniteSet(L \cup W)
          /\ Cardinality(L \cup W) = Cardinality(L) + Cardinality(W) - Cardinality(L \cap W)
        BY <1>3, <1>4, FS_Union
    <2>2. Cardinality(L \cap W) \in Nat /\ Cardinality(L) \in Nat /\ Cardinality(W) \in Nat
        BY <1>3, <1>4, FS_CardinalityType, FS_Intersection
    <2> QED
        BY <2>1, <2>2
<1>8. Cardinality(Shell) <= Cardinality(L \cup W)
    BY <1>6, <1>7, FS_Subset
<1>9. Cardinality(L) \in Nat /\ Cardinality(W) \in Nat /\ Cardinality(L \cup W) \in Nat
    BY <1>3, <1>4, <1>7, FS_CardinalityType
<1> QED
    BY <1>1, <1>3, <1>4, <1>7, <1>8, <1>9, ShellsNumbers

LEMMA ShellsCreate ==
    ASSUME ShellsInv, NEW o \in Session, Shells!Create(o)
    PROVE  ShellsInv'
<1>1. ShellsShape /\ OneOwner /\ Answered
    BY Zenon DEF ShellsInv
<1> DEFINE s == CHOOSE f \in Shell \ Shells!Named : TRUE
           R == [at |-> "shell", shell |-> s]
<1>2. /\ run[o].at = "get" /\ ~ Shells!Full
      /\ sessions' = Append(sessions, <<o, s>>)
      /\ process' = [process EXCEPT ![s] = None]
      /\ run' = [run EXCEPT ![o] = R]
      /\ jobs' = jobs \ {s} /\ UNCHANGED <<mixed, left>>
    BY Zenon DEF Shells!Create
<1>3. s \in Shell /\ s \notin Shells!Named
    BY <1>1, <1>2, AShellIsFree
<1>4. R \in RunType /\ R.at = "shell" /\ R.shell = s /\ R.shell # None
    BY <1>3, ShellsNumbers DEF RunType
<1> HIDE DEF s, R
<1>5. /\ run' \in [Session -> RunType] /\ run'[o] = R
      /\ \A p \in Session \ {o} : run'[p] = run[p]
      /\ \A p \in Session : run'[p].at \in {"idle", "get"} <=> run'[p].shell = None
    BY <1>1, <1>2, <1>4, OneRun
<1>6. \A p \in Session : ~ Owns(p, s)
    <2>1. \A i \in DOMAIN sessions : sessions[i] \in Shells!Range(sessions)
        BY <1>1 DEF Shells!Range, ShellsShape
    <2>2. \A i \in DOMAIN sessions : sessions[i][2] # s
        BY <1>3, <2>1 DEF Shells!Named
    <2>3. \A p \in Session : run[p].shell # s
        BY <1>3 DEF Shells!Named
    <2> QED
        BY <2>2, <2>3 DEF Owns, Listed, AtWork
<1>7. /\ sessions' \in Seq(Session \X Shell) /\ Len(sessions') = Len(sessions) + 1
      /\ \A j \in DOMAIN sessions' :
            sessions'[j] = <<o, s>> \/ \E k \in DOMAIN sessions : sessions'[j] = sessions[k]
    BY <1>1, <1>2, <1>3 DEF ShellsShape
<1>8. ShellsShape'
    <2>1. Len(sessions') <= MaxShells
        BY <1>1, <1>2, <1>7, ShellsNumbers DEF ShellsShape, Shells!Full
    <2>2. process' \in [Shell -> Nat \cup {None}]
        BY <1>1, <1>2 DEF ShellsShape
    <2> QED
        BY <1>5, <1>7, <2>1, <2>2 DEF ShellsShape
<1>9. \A p \in Session, x \in Shell : Owns(p, x)' => Owns(p, x) \/ (p = o /\ x = s)
    <2>1. \A p \in Session, x \in Shell : Listed(p, x)' => Listed(p, x) \/ (p = o /\ x = s)
        BY <1>7 DEF Listed
    <2>2. \A p \in Session, x \in Shell : AtWork(p, x)' => AtWork(p, x) \/ (p = o /\ x = s)
        BY <1>4, <1>5 DEF AtWork
    <2> QED
        BY <2>1, <2>2 DEF Owns
<1>10. OneOwner'
    BY <1>1, <1>6, <1>9 DEF OneOwner
<1>11. \A p \in Session \ left, x \in Shell : Owns(p, x)' => InTurn(p, x)'
    <2> SUFFICES ASSUME NEW p \in Session \ left, NEW x \in Shell, Owns(p, x)' PROVE InTurn(p, x)'
        OBVIOUS
    <2>1. CASE x = s
        <3>1. process'[x] = None /\ x \notin jobs'
            BY <1>1, <1>2, <2>1 DEF ShellsShape
        <3> QED
            BY <3>1 DEF InTurn
    <2>2. CASE x # s
        <3>1. Owns(p, x) /\ InTurn(p, x) /\ process'[x] = process[x] /\ jobs' \subseteq jobs
            BY <1>1, <1>2, <1>9, <2>2 DEF Answered, ShellsShape
        <3>2. p = o => run[p].at = "get"
            BY <1>2
        <3>3. p # o => run'[p] = run[p]
            BY <1>5
        <3> QED
            BY <3>1, <3>2, <3>3 DEF InTurn
    <2> QED
        BY <2>1, <2>2
<1>12. Answered'
    BY <1>1, <1>2, <1>11 DEF Answered
<1> QED
    BY <1>8, <1>10, <1>12, Zenon DEF ShellsInv

\* A command is written by the only call that has the shell, which has nothing to answer.
LEMMA ShellsRun ==
    ASSUME ShellsInv, NEW o \in Session, Shells!RunCommand(o)
    PROVE  ShellsInv'
<1>1. ShellsShape /\ OneOwner /\ Answered
    BY Zenon DEF ShellsInv
<1> DEFINE s == run[o].shell
           R == [run[o] EXCEPT !.at = "read"]
           n == IF process[s] = None THEN 1 ELSE process[s] + 1
<1>2. /\ run[o].at = "shell" /\ UNCHANGED <<sessions, jobs, mixed, left>>
      /\ process' = [process EXCEPT ![s] = n] /\ run' = [run EXCEPT ![o] = R]
    BY DEF Shells!RunCommand, Shells!pipes
<1>3. run[o] \in RunType
    BY <1>1 DEF ShellsShape
<1>4. R \in RunType /\ R.at = "read" /\ R.shell = s /\ R.shell # None
    BY <1>1, <1>2, <1>3 DEF RunType, ShellsShape
<1>5. s \in Shell \cup {None} /\ (s \in Shell => process[s] \in Nat \cup {None})
    BY <1>1, <1>3 DEF RunType, ShellsShape
<1>6. s \in Shell => n \in Nat
    BY <1>5, ShellsNumbers
<1>7. s \in Shell => Owns(o, s)
    BY <1>2 DEF Owns, AtWork
<1>8. s \in Shell /\ o \notin left => n = 1
    <2> SUFFICES ASSUME s \in Shell, o \notin left PROVE n = 1
        OBVIOUS
    <2>1. InTurn(o, s)
        BY <1>1, <1>7 DEF Answered
    <2>2. process[s] \in {None, 0}
        BY <1>2, <2>1 DEF InTurn
    <2> QED
        BY <2>2
<1>9. \A x \in Shell : process'[x] = IF x = s THEN n ELSE process[x]
    BY <1>1, <1>2 DEF ShellsShape
<1>10. process' \in [Shell -> Nat \cup {None}]
    <2> HIDE DEF n, s
    <2> QED
        BY <1>1, <1>2, <1>6, <1>9 DEF ShellsShape
<1> HIDE DEF s, R, n
<1>11. /\ run' \in [Session -> RunType] /\ run'[o] = R
       /\ \A p \in Session \ {o} : run'[p] = run[p]
       /\ \A p \in Session : run'[p].at \in {"idle", "get"} <=> run'[p].shell = None
    <2>1. ~ (R.at \in {"idle", "get"})
        BY <1>4
    <2> QED
        BY <1>1, <1>2, <1>4, <2>1, OneRun
<1>12. ShellsShape'
    BY <1>1, <1>2, <1>10, <1>11 DEF ShellsShape
<1>13. \A p \in Session, x \in Shell : Owns(p, x)' => Owns(p, x)
    <2>1. \A p \in Session, x \in Shell : AtWork(p, x)' => AtWork(p, x)
        BY <1>2, <1>4, <1>11 DEF AtWork, s
    <2> QED
        BY <1>2, <2>1 DEF Owns, Listed
<1>14. \A p \in Session \ left', x \in Shell : Owns(p, x)' /\ InTurn(p, x) => InTurn(p, x)'
    <2> SUFFICES ASSUME NEW p \in Session \ left, NEW x \in Shell, Owns(p, x), InTurn(p, x)
                 PROVE  InTurn(p, x)'
        BY <1>2, <1>13
    <2>1. CASE x = s
        <3>1. p = o
            BY <1>1, <1>7, <2>1 DEF OneOwner
        <3>2. process'[x] = 1 /\ run'[p].at = "read" /\ run'[p].shell = x /\ x \notin jobs'
            BY <1>2, <1>4, <1>8, <1>9, <1>11, <2>1, <3>1 DEF InTurn
        <3> QED
            BY <3>2 DEF InTurn
    <2>2. CASE x # s
        <3>1. process'[x] = process[x] /\ jobs' = jobs
            BY <1>2, <1>9, <2>2
        <3>2. p = o => run[p].at = "shell"
            BY <1>2
        <3>3. p # o => run'[p] = run[p]
            BY <1>11
        <3> QED
            BY <3>1, <3>2, <3>3 DEF InTurn
    <2> QED
        BY <2>1, <2>2
<1>15. left \subseteq left' /\ mixed' \subseteq left'
    BY <1>1, <1>2 DEF Answered
<1> QED
    BY <1>12, <1>13, <1>14, <1>15, NobodyGains, Zenon

\* A step of the call of o that leaves a shell with no command to answer, or none at all.
LEMMA ShellsRest ==
    ASSUME ShellsInv, NEW o \in Session, NEW R \in RunType, run' = [run EXCEPT ![o] = R],
           R.at \in {"idle", "get"}, R.shell = None, UNCHANGED sessions,
           process' \in [Shell -> Nat \cup {None}],
           \A x \in Shell : process'[x] = process[x] \/ process'[x] \in {None, 0},
           left \subseteq left', mixed' \subseteq left',
           \A x \in Shell : x \in jobs' => x \in jobs \/ (o \in left' /\ AtWork(o, x)),
           \/ o \in left'
           \/ run[o].at \notin {"read", "reap"}
           \/ run[o].shell \in Shell => process'[run[o].shell] \in {None, 0}
    PROVE  ShellsInv'
<1>1. ShellsShape
    BY Zenon DEF ShellsInv
<1>2. /\ run' \in [Session -> RunType] /\ run'[o] = R
      /\ \A p \in Session \ {o} : run'[p] = run[p]
      /\ \A p \in Session : run'[p].at \in {"idle", "get"} <=> run'[p].shell = None
    BY <1>1, OneRun
<1>3. ShellsShape'
    BY <1>1, <1>2 DEF ShellsShape
<1>4. \A p \in Session, x \in Shell : Owns(p, x)' => Owns(p, x)
    <2>1. \A p \in Session, x \in Shell : AtWork(p, x)' => AtWork(p, x)
        BY <1>2 DEF AtWork
    <2> QED
        BY <2>1 DEF Owns, Listed
<1>5. \A p \in Session \ left', x \in Shell : Owns(p, x)' /\ InTurn(p, x) => InTurn(p, x)'
    <2> SUFFICES ASSUME NEW p \in Session \ left', NEW x \in Shell, Owns(p, x), InTurn(p, x)
                 PROVE  InTurn(p, x)'
        BY <1>4
    <2>1. x \notin jobs'
        <3>1. o \in left' /\ AtWork(o, x) => o = p
            BY DEF ShellsInv, OneOwner, Owns
        <3> QED
            BY <3>1 DEF InTurn
    <2>2. \/ process'[x] \in {None, 0}
          \/ process'[x] = 1 /\ run'[p].at \in {"read", "reap"} /\ run'[p].shell = x
        BY <1>2 DEF InTurn
    <2> QED
        BY <2>1, <2>2 DEF InTurn
<1> QED
    BY <1>3, <1>4, <1>5, NobodyGains, Zenon

LEMMA ShellsRead ==
    ASSUME ShellsInv, NEW o \in Session, Shells!ReadToMark(o)
    PROVE  ShellsInv'
<1>1. ShellsShape /\ OneOwner /\ Answered
    BY Zenon DEF ShellsInv
<1> DEFINE s == run[o].shell
<1>2. /\ run[o].at = "read" /\ process[s] # None
      /\ mixed' = mixed \ {o} \/ (mixed' = mixed \cup {o} /\ (process[s] > 1 \/ s \in jobs))
      /\ \/ jobs' = jobs /\ left' = left
         \/ jobs' = jobs \cup {s} /\ left' = left \cup {o}
      /\ process' = [process EXCEPT ![s] = 0]
      /\ run' = [run EXCEPT ![o] = Shells!Resting] /\ UNCHANGED sessions
    BY DEF Shells!ReadToMark, Shells!Unlock
<1>3. o \notin left /\ s \in Shell => process[s] \in {0, 1} /\ s \notin jobs
    <2> SUFFICES ASSUME o \notin left, s \in Shell PROVE process[s] \in {0, 1} /\ s \notin jobs
        OBVIOUS
    <2>1. Owns(o, s)
        BY <1>2 DEF Owns, AtWork
    <2>2. InTurn(o, s)
        BY <1>1, <2>1 DEF Answered
    <2> QED
        BY <1>2, <2>2 DEF InTurn
<1>4. mixed' \subseteq left'
    <2>1. s \in Shell
        BY <1>1, <1>2 DEF ShellsShape, RunType
    <2>2. o \notin left => ~ (process[s] > 1) /\ s \notin jobs
        BY <1>3, <2>1
    <2> QED
        BY <1>1, <1>2, <2>2 DEF Answered
<1>5. /\ process' \in [Shell -> Nat \cup {None}]
      /\ \A x \in Shell : process'[x] = process[x] \/ process'[x] = 0
      /\ s \in Shell => process'[s] = 0
    BY <1>1, <1>2 DEF ShellsShape
<1>6. \A x \in Shell : x \in jobs' => x \in jobs \/ (o \in left' /\ AtWork(o, x))
    BY <1>2 DEF AtWork
<1>7. left \subseteq left'
    BY <1>2
<1> QED
    BY <1>2, <1>4, <1>5, <1>6, <1>7, RestIsRun, ShellsRest

LEMMA ShellsKill ==
    ASSUME ShellsInv, NEW o \in Session, Shells!KillAndReap(o)
    PROVE  ShellsInv'
<1>1. ShellsShape /\ OneOwner /\ Answered
    BY Zenon DEF ShellsInv
<1> DEFINE s == run[o].shell
           R == IF run[o].at = "kill" THEN [at |-> "get", shell |-> None] ELSE Shells!Resting
<1>2. /\ process' = [process EXCEPT ![s] = None]
      /\ run' = [run EXCEPT ![o] = R] /\ jobs' = jobs \ {s}
      /\ UNCHANGED <<sessions, mixed, left>>
    BY Zenon DEF Shells!KillAndReap, Shells!bounds
<1>3. R \in RunType /\ R.at \in {"idle", "get"} /\ R.shell = None
    BY RestIsRun DEF RunType
<1>4. /\ process' \in [Shell -> Nat \cup {None}]
      /\ \A x \in Shell : process'[x] = process[x] \/ process'[x] = None
      /\ s \in Shell => process'[s] = None
    BY <1>1, <1>2 DEF ShellsShape
<1>5. left \subseteq left' /\ mixed' \subseteq left'
    BY <1>1, <1>2 DEF Answered
<1>6. \A x \in Shell : x \in jobs' => x \in jobs
    BY <1>2
<1> HIDE DEF R
<1> QED
    BY <1>2, <1>3, <1>4, <1>5, <1>6, ShellsRest

\* Whether there is room in the pipe is nothing to the invariant.
LEMMA ShellsNoRoom ==
    ASSUME ShellsInv, NEW o \in Session, Shells!NoRoom(o)
    PROVE  ShellsInv'
<1>1. UNCHANGED <<sessions, process, run, jobs, mixed, left>>
    BY DEF Shells!NoRoom
<1> QED
    BY <1>1 DEF ShellsInv, ShellsShape, OneOwner, Answered, Owns, Listed, AtWork, InTurn

\* A shell that a dropped call leaves behind belongs to a session that is in left.
LEMMA ShellsDropped ==
    ASSUME ShellsInv, NEW o \in Session, Shells!Dropped(o)
    PROVE  ShellsInv'
<1>1. ShellsShape /\ OneOwner /\ Answered
    BY Zenon DEF ShellsInv
<1> DEFINE s == run[o].shell
<1>2. /\ run' = [run EXCEPT ![o] = Shells!Resting]
      /\ process' = process \/ process' = [process EXCEPT ![s] = None]
      /\ jobs' \subseteq jobs
      /\ left' = left \cup {o} /\ UNCHANGED <<sessions, mixed>>
    BY DEF Shells!Dropped
<1>3. /\ process' \in [Shell -> Nat \cup {None}]
      /\ \A x \in Shell : process'[x] = process[x] \/ process'[x] = None
    BY <1>1, <1>2 DEF ShellsShape
<1>4. left \subseteq left' /\ mixed' \subseteq left' /\ o \in left'
    BY <1>1, <1>2 DEF Answered
<1> QED
    BY <1>2, <1>3, <1>4, RestIsRun, ShellsRest

LEMMA ShellsExit ==
    ASSUME ShellsInv, NEW s \in Shell, Shells!Exit(s)
    PROVE  ShellsInv'
<1>1. ShellsShape /\ OneOwner /\ Answered
    BY Zenon DEF ShellsInv
<1>2. /\ process' = [process EXCEPT ![s] = None] /\ jobs' \subseteq jobs
      /\ UNCHANGED <<sessions, run, mixed, left>>
    BY DEF Shells!Exit
<1>3. /\ process' \in [Shell -> Nat \cup {None}]
      /\ \A x \in Shell : process'[x] = process[x] \/ process'[x] = None
    BY <1>1, <1>2 DEF ShellsShape
<1>4. ShellsShape'
    BY <1>1, <1>2, <1>3 DEF ShellsShape
<1>5. \A p \in Session, x \in Shell : Owns(p, x)' => Owns(p, x)
    BY <1>2 DEF Owns, Listed, AtWork
<1>6. \A p \in Session \ left', x \in Shell : Owns(p, x)' /\ InTurn(p, x) => InTurn(p, x)'
    BY <1>2, <1>3 DEF InTurn
<1>7. left \subseteq left' /\ mixed' \subseteq left'
    BY <1>1, <1>2 DEF Answered
<1> QED
    BY <1>4, <1>5, <1>6, <1>7, NobodyGains, Zenon

LEMMA ShellsStep == ShellsInv /\ Shells!Next => ShellsInv'
<1> SUFFICES ASSUME ShellsInv, Shells!Next PROVE ShellsInv'
    OBVIOUS
<1>1. \/ \E o \in Session :
            \/ Shells!Begin(o) \/ Shells!Busy(o) \/ Shells!StartFails(o) \/ Shells!Fails(o)
            \/ Shells!Close(o) \/ Shells!Get(o) \/ Shells!Create(o) \/ Shells!Evict(o)
            \/ Shells!RunCommand(o) \/ Shells!ReadToMark(o) \/ Shells!KillAndReap(o)
            \/ Shells!NoRoom(o) \/ Shells!Dropped(o)
      \/ \E s \in Shell : Shells!Exit(s)
    BY Zenon DEF Shells!Next, Shells!Progress
<1> QED
    BY <1>1, ShellsWait, ShellsGet, ShellsEvict, ShellsCreate, ShellsRun, ShellsRead, ShellsKill,
       ShellsNoRoom, ShellsDropped, ShellsExit

LEMMA ShellsHold == ShellsInv => Shells!OutputIsOwn /\ Shells!ShellsBounded
BY DEF ShellsInv, ShellsShape, Answered, Shells!OutputIsOwn, Shells!ShellsBounded

-----------------------------------------------------------------------------
(***************************************************************************)
(* The pool of keys.                                                       *)
(***************************************************************************)

LEMMA KeysLists ==
    /\ \A S : Keys!Sorted(S) = Sorted(S)
    /\ \A list, places : Keys!Kept(list, places) = Kept(list, places)
BY DEF Keys!Kept, Kept, Keys!Sorted, Sorted, Keys!Cardinality, Cardinality

LEMMA DividedWithRest ==
    ASSUME NEW n \in Nat, NEW L \in Nat \ {0}
    PROVE  n % L \in 0..(L - 1) /\ n = L * (n \div L) + (n % L) /\ n \div L \in Nat
OBVIOUS

\* There is one quotient and one rest.
LEMMA OneRest ==
    ASSUME NEW q \in Int, NEW p \in Int, NEW r \in Nat, NEW s \in Nat, NEW L \in Nat \ {0},
           r < L, s < L, L * q + r = L * p + s
    PROVE  q = p /\ r = s
<1>1. L * (q - p) = s - r /\ L * (p - q) = r - s
    OBVIOUS
<1>2. CASE q > p
    <2>1. q - p >= 1 /\ L * (q - p) >= L
        BY <1>2
    <2> QED
        BY <2>1, <1>1
<1>3. CASE q < p
    <2>1. p - q >= 1 /\ L * (p - q) >= L
        BY <1>3
    <2> QED
        BY <2>1, <1>1
<1> QED
    BY <1>2, <1>3

\* A cursor that goes round C places goes round the L places of a list as well.
LEMMA RoundAndRound ==
    ASSUME NEW n \in Nat, NEW L \in Nat \ {0}, NEW C \in Nat \ {0}, C % L = 0, n < C
    PROVE  /\ n % L \in 0..(L - 1) /\ (n + 1) % C \in 0..(C - 1)
           /\ ((n + 1) % C) % L = IF (n % L) + 1 = L THEN 0 ELSE (n % L) + 1
<1> DEFINE m == n + 1
           q == n \div L
           r == n % L
           p == m \div L
           s == m % L
<1>1. m \in Nat /\ m = n + 1
    OBVIOUS
<1>2. r \in 0..(L - 1) /\ n = L * q + r /\ q \in Nat
    BY DividedWithRest
<1> HIDE DEF m
<1>3. s \in 0..(L - 1) /\ m = L * p + s /\ p \in Nat
    BY <1>1, DividedWithRest
<1> HIDE DEF q, r, p, s
<1>4. s = IF r + 1 = L THEN 0 ELSE r + 1
    <2>1. CASE r + 1 < L
        <3>1. L * q + (r + 1) = L * p + s /\ r + 1 \in Nat /\ s \in Nat /\ s < L
            BY <1>1, <1>2, <1>3
        <3>2. s = r + 1
            BY <3>1, <1>2, <1>3, <2>1, OneRest
        <3> QED
            BY <3>2, <2>1, <1>2
    <2>2. CASE r + 1 = L
        <3> DEFINE next_q == q + 1
        <3>1. L * next_q = L * q + L /\ next_q \in Int
            BY <1>2
        <3> HIDE DEF next_q
        <3>2. L * next_q + 0 = L * p + s /\ s \in Nat /\ s < L /\ p \in Int /\ 0 < L
            BY <2>2, <3>1, <1>1, <1>2, <1>3
        <3>3. 0 = s
            BY <3>1, <3>2, OneRest
        <3> QED
            BY <2>2, <3>3
    <2> QED
        BY <2>1, <2>2, <1>2
<1>5. m % C = IF m = C THEN 0 ELSE m
    <2>1. CASE m = C
        BY <2>1, <1>1
    <2>2. CASE m < C
        BY <2>2, <1>1
    <2> QED
        BY <2>1, <2>2, <1>1
<1>6. (m = C => s = 0) /\ 0 % L = 0
    BY DEF s
<1>7. (m % C) \in 0..(C - 1) /\ (m % C) % L = s
    BY <1>1, <1>5, <1>6 DEF s
<1> QED
    BY <1>1, <1>2, <1>4, <1>7 DEF m, r

KeysShape ==
    /\ keys \in Seq(ApiKey) /\ (\A i, j \in DOMAIN keys : keys[i] = keys[j] => i = j)
    /\ dead \subseteq ApiKey /\ (\A i \in DOMAIN keys : keys[i] \notin dead)
    /\ cursor \in 0..(Cycle - 1) /\ stale \in BOOLEAN /\ offered \subseteq ApiKey
Draw == [at : Keys!Steps, got : SUBSET ApiKey, key : ApiKey \cup {None}, tries : Int]
DrawsShape ==
    /\ draw \in [Keys!Caller -> Draw]
    /\ \A c \in Keys!Caller : draw[c].at = "uses" => draw[c].key \in ApiKey

\* The places, from 0, from b round to before p.
Served(b, p, j) == IF b <= p THEN b <= j /\ j < p ELSE b <= j \/ j < p

\* The keys used once more are those between where the cursor was when all were even and
\* where it is.
Turns ==
    /\ used \in [ApiKey -> Nat]
    /\ keys # <<>> => \E b \in 0..(Len(keys) - 1) : \A i \in 1..Len(keys) :
           used[keys[i]] = IF Served(b, cursor % Len(keys), i - 1) THEN 1 ELSE 0

KeysInv == KeysShape /\ DrawsShape /\ Turns

LEMMA KeysNumbers ==
    /\ ApiKey \subseteq Nat /\ IsFiniteSet(ApiKey) /\ Cycle \in Nat \ {0}
    /\ Cardinality(ApiKey) \in Nat /\ \A n \in 1..Cardinality(ApiKey) : Cycle % n = 0
    /\ \A c \in Keys!Caller : Tries[c] \in Nat
BY KeysAssumption, FS_CardinalityType DEF Keys!Caller

\* A list in which no key is twice is no longer than there are keys.
LEMMA ShortLists ==
    ASSUME NEW list \in Seq(ApiKey), \A i, j \in DOMAIN list : list[i] = list[j] => i = j
    PROVE  Len(list) <= Cardinality(ApiKey)
<1>1. Len(list) \in Nat /\ DOMAIN list = 1..Len(list) /\ IsFiniteSet(1..Len(list))
    <2>1. Len(list) \in Int
        OBVIOUS
    <2> QED
        BY <2>1, FS_Interval
<1>2. Cardinality(1..Len(list)) = Len(list)
    <2>1. Len(list) \in Int /\ 1 \in Int /\ (1 > Len(list) => Len(list) = 0) /\ Len(list) - 1 + 1 = Len(list)
        BY <1>1
    <2> QED
        BY <2>1, FS_Interval
<1>3. list \in Injection(1..Len(list), ApiKey)
    BY <1>1 DEF Injection, IsInjective
<1> QED
    BY <1>1, <1>2, <1>3, KeysNumbers, FS_Injection

LEMMA TurnsStay == Turns /\ UNCHANGED <<keys, used, cursor>> => Turns'
BY DEF Turns

\* In a new list nobody has used a key.
LEMMA NobodyUsed ==
    ASSUME keys' \in Seq(ApiKey), cursor' \in Nat, used' = Keys!Unused
    PROVE  Turns'
<1> SUFFICES ASSUME keys' # <<>>
             PROVE  \E b \in 0..(Len(keys') - 1) : \A i \in 1..Len(keys') :
                        used'[keys'[i]] = IF Served(b, cursor' % Len(keys'), i - 1) THEN 1 ELSE 0
    BY DEF Turns, Keys!Unused
<1>1. Len(keys') \in Nat \ {0}
    OBVIOUS
<1> DEFINE b == cursor' % Len(keys')
<1>2. b \in 0..(Len(keys') - 1)
    BY <1>1, DividedWithRest
<1> HIDE DEF b
<1>3. \A i \in 1..Len(keys') : Keys!Unused[keys'[i]] = 0 /\ ~ Served(b, b, i - 1)
    BY <1>1, <1>2 DEF Served, Keys!Unused
<1> QED
    BY <1>2, <1>3 DEF b

LEMMA KeysBegin == Keys!Init => KeysInv
<1> SUFFICES ASSUME Keys!Init PROVE KeysInv
    OBVIOUS
<1>1. keys = <<>> /\ dead = {} /\ cursor = 0 /\ stale = TRUE /\ offered \subseteq ApiKey
    BY DEF Keys!Init
<1>2. KeysShape
    BY <1>1, KeysNumbers DEF KeysShape
<1>3. DrawsShape
    BY DEF Keys!Init, DrawsShape, Draw, Keys!Idle, Keys!Steps
<1>4. Turns
    BY <1>1 DEF Keys!Init, Turns, Keys!Unused
<1> QED
    BY <1>2, <1>3, <1>4 DEF KeysInv

LEMMA KeysStay == KeysInv /\ UNCHANGED key_pool => KeysInv'
<1> SUFFICES ASSUME KeysInv, UNCHANGED key_pool PROVE KeysInv'
    OBVIOUS
<1>1. UNCHANGED <<offered, keys, dead, cursor, stale, draw, used>>
    BY DEF key_pool
<1> QED
    BY <1>1 DEF KeysInv, KeysShape, DrawsShape, Turns

\* What a step does to the call of c.
LEMMA OneDraw ==
    ASSUME DrawsShape, NEW c \in Keys!Caller, NEW D \in Draw, draw' = [draw EXCEPT ![c] = D],
           D.at = "uses" => D.key \in ApiKey
    PROVE  DrawsShape'
BY DEF DrawsShape

\* The list stays.
LEMMA KeysAsTheyAre ==
    ASSUME KeysInv, UNCHANGED <<keys, dead, cursor, used>>, stale' \in BOOLEAN, offered' \subseteq ApiKey,
           DrawsShape'
    PROVE  KeysInv'
<1>1. KeysShape /\ Turns
    BY DEF KeysInv
<1>2. KeysShape'
    BY <1>1 DEF KeysShape
<1>3. Turns'
    BY <1>1 DEF Turns
<1> QED
    BY <1>2, <1>3 DEF KeysInv

LEMMA IdleDraw == Keys!Idle \in Draw /\ Keys!Idle.at = "idle"
BY DEF Keys!Idle, Draw, Keys!Steps

LEMMA NextTryDraws ==
    ASSUME NEW c \in Keys!Caller, draw[c] \in Draw, Keys!NextTry(c)
    PROVE  \E D \in Draw : draw' = [draw EXCEPT ![c] = D] /\ D.at # "uses"
<1>1. CASE draw[c].tries > 1
    <2> DEFINE less == draw[c].tries - 1
               D == [draw[c] EXCEPT !.at = "next", !.key = None, !.tries = less]
    <2>1. less \in Int
        BY DEF Draw
    <2>2. draw' = [draw EXCEPT ![c] = D]
        BY <1>1, Zenon DEF Keys!NextTry
    <2> HIDE DEF less
    <2>3. D \in Draw /\ D.at # "uses"
        BY <2>1 DEF Draw, Keys!Steps
    <2> QED
        BY <2>2, <2>3, Zenon
<1>2. CASE ~ (draw[c].tries > 1)
    BY <1>2, IdleDraw DEF Keys!NextTry
<1> QED
    BY <1>1, <1>2

\* A call that begins, looks whether the list is old, fetches, or is over without a word on
\* its key.
LEMMA KeysCalls ==
    ASSUME KeysInv, NEW c \in Keys!Caller,
           \/ Keys!Request(c) \/ Keys!Check(c) \/ Keys!Fetch(c) \/ Keys!Succeeds(c) \/ Keys!Fails(c)
    PROVE  KeysInv'
<1>1. KeysShape /\ DrawsShape /\ draw[c] \in Draw
    BY DEF KeysInv, DrawsShape
<1>2. UNCHANGED <<offered, keys, dead, cursor, stale, used>>
    BY Zenon DEF Keys!Request, Keys!Check, Keys!Fetch, Keys!Succeeds, Keys!Fails, Keys!pool, Keys!outside
<1>3. PICK D \in Draw : draw' = [draw EXCEPT ![c] = D] /\ D.at # "uses"
    <2>1. CASE Keys!Request(c)
        <3> DEFINE n == Tries[c]
                   D == [Keys!Idle EXCEPT !.at = "next", !.tries = n]
        <3>1. n \in Int
            BY KeysNumbers
        <3>2. draw' = [draw EXCEPT ![c] = D]
            BY <2>1, Zenon DEF Keys!Request
        <3> HIDE DEF n
        <3>3. D \in Draw /\ D.at # "uses"
            BY <3>1, IdleDraw DEF Draw, Keys!Steps
        <3> QED
            BY <3>2, <3>3, Zenon
    <2>2. CASE Keys!Check(c)
        <3> DEFINE step == IF stale \/ keys = <<>> THEN "fetch" ELSE "pick"
                   D == [draw[c] EXCEPT !.at = step]
        <3>1. D \in Draw /\ D.at # "uses"
            BY <1>1 DEF Draw, Keys!Steps
        <3>2. draw' = [draw EXCEPT ![c] = D]
            BY <2>2 DEF Keys!Check, Keys!To
        <3> QED
            BY <3>1, <3>2, Zenon
    <2>3. CASE Keys!Fetch(c)
        <3> DEFINE list == IF failing THEN {} ELSE offered
                   D == [draw[c] EXCEPT !.at = "install", !.got = list]
        <3>1. D \in Draw /\ D.at # "uses"
            BY <1>1 DEF Draw, Keys!Steps, KeysShape
        <3>2. draw' = [draw EXCEPT ![c] = D]
            BY <2>3 DEF Keys!Fetch
        <3> QED
            BY <3>1, <3>2, Zenon
    <2>4. CASE Keys!Succeeds(c)
        BY <2>4, IdleDraw DEF Keys!Succeeds
    <2>5. CASE Keys!Fails(c)
        BY <2>5, <1>1, NextTryDraws DEF Keys!Fails
    <2> QED
        BY <2>1, <2>2, <2>3, <2>4, <2>5
<1>4. DrawsShape'
    BY <1>1, <1>3, OneDraw
<1>5. stale' \in BOOLEAN /\ offered' \subseteq ApiKey
    BY <1>1, <1>2 DEF KeysShape
<1> QED
    BY <1>2, <1>4, <1>5, KeysAsTheyAre

LEMMA KeysOutside ==
    ASSUME KeysInv, Keys!Age \/ Keys!Change
    PROVE  KeysInv'
<1>1. KeysShape /\ DrawsShape
    BY DEF KeysInv
<1>2. UNCHANGED <<keys, dead, cursor, used, draw>> /\ stale' \in BOOLEAN /\ offered' \subseteq ApiKey
    BY <1>1 DEF Keys!Age, Keys!Change, Keys!pool, KeysShape
<1>3. DrawsShape'
    BY <1>1, <1>2 DEF DrawsShape
<1> QED
    BY <1>2, <1>3, KeysAsTheyAre

\* A list that is put in: nobody has used it, or it is the one there was.
LEMMA KeysListed ==
    ASSUME KeysInv, NEW list \in Seq(ApiKey), Keys!Listed(list), UNCHANGED cursor,
           \A i, j \in DOMAIN list : list[i] = list[j] => i = j,
           dead' \subseteq ApiKey, \A i \in DOMAIN list : list[i] \notin dead',
           stale' \in BOOLEAN, UNCHANGED offered, DrawsShape'
    PROVE  KeysInv'
<1>1. KeysShape /\ Turns
    BY DEF KeysInv
<1>2. keys' = list /\ used' = IF list = keys THEN used ELSE Keys!Unused
    BY DEF Keys!Listed
<1>3. KeysShape'
    BY <1>1, <1>2 DEF KeysShape
<1>4. Turns'
    <2>1. CASE list = keys
        <3>1. UNCHANGED <<keys, used, cursor>>
            BY <1>2, <2>1
        <3> QED
            BY <1>1, <3>1, TurnsStay, Zenon
    <2>2. CASE list # keys
        <3>1. keys' \in Seq(ApiKey) /\ cursor' \in Nat /\ used' = Keys!Unused
            BY <1>1, <1>2, <2>2, KeysNumbers DEF KeysShape
        <3> QED
            BY <3>1, NobodyUsed, Zenon
    <2> QED
        BY <2>1, <2>2
<1> QED
    BY <1>3, <1>4 DEF KeysInv

LEMMA KeysInstall ==
    ASSUME KeysInv, NEW c \in Keys!Caller, Keys!Install(c)
    PROVE  KeysInv'
<1>1. KeysShape /\ DrawsShape /\ draw[c] \in Draw
    BY DEF KeysInv, DrawsShape
<1> DEFINE S == Keys!Fetched(c)
           list == Sorted(S)
           D == [draw[c] EXCEPT !.at = "pick", !.got = {}]
<1>2. /\ Keys!Listed(list) /\ stale' = FALSE /\ UNCHANGED <<cursor, dead, offered>>
      /\ draw' = [draw EXCEPT ![c] = D]
    <2>1. Keys!Listed(Keys!Sorted(S)) /\ stale' = FALSE /\ cursor' = Keys!KeepCursor
        BY Zenon DEF Keys!Install
    <2>2. draw' = [draw EXCEPT ![c] = D] /\ UNCHANGED <<dead, offered>>
        BY DEF Keys!Install, Keys!outside
    <2> QED
        BY <2>1, <2>2, KeysLists DEF Keys!KeepCursor
<1>3. S \subseteq ApiKey /\ S \cap dead = {} /\ S \in SUBSET Nat /\ IsFiniteSet(S)
    BY <1>1, KeysNumbers, FS_Subset DEF Keys!Fetched, Draw
<1>4. /\ Cardinality(S) \in Nat /\ list \in [1..Cardinality(S) -> S]
      /\ \A j, k \in 1..Cardinality(S) : j < k => list[j] < list[k]
    BY <1>3, SortedLists
<1>5. D \in Draw /\ D.at # "uses"
    BY <1>1 DEF Draw, Keys!Steps
<1> HIDE DEF list, D
<1>6. list \in Seq(ApiKey) /\ DOMAIN list = 1..Cardinality(S)
    BY <1>3, <1>4
<1>7. \A i, j \in DOMAIN list : list[i] = list[j] => i = j
    <2> SUFFICES ASSUME NEW i \in DOMAIN list, NEW j \in DOMAIN list, i # j
                 PROVE  list[i] # list[j]
        OBVIOUS
    <2>1. i < j \/ j < i
        BY <1>6
    <2>2. list[i] \in Nat /\ list[j] \in Nat
        BY <1>3, <1>4, <1>6
    <2> QED
        BY <1>4, <1>6, <2>1, <2>2
<1>8. dead' \subseteq ApiKey /\ \A i \in DOMAIN list : list[i] \notin dead'
    BY <1>1, <1>2, <1>3, <1>4, <1>6 DEF KeysShape
<1>9. DrawsShape'
    BY <1>1, <1>2, <1>5, OneDraw
<1> QED
    BY <1>2, <1>6, <1>7, <1>8, <1>9, KeysListed

LEMMA KeysMarkDead ==
    ASSUME KeysInv, NEW c \in Keys!Caller, Keys!MarkDead(c)
    PROVE  KeysInv'
<1>1. KeysShape /\ DrawsShape /\ draw[c] \in Draw
    BY DEF KeysInv, DrawsShape
<1> DEFINE places == {i \in DOMAIN keys : keys[i] # draw[c].key}
           list == Kept(keys, places)
<1>2. /\ Keys!Listed(list) /\ dead' = dead \cup {draw[c].key} /\ draw[c].at = "uses"
      /\ UNCHANGED <<cursor, stale, offered>> /\ Keys!NextTry(c)
    <2>1. /\ Keys!Listed(Keys!Kept(keys, places)) /\ dead' = dead \cup {draw[c].key} /\ draw[c].at = "uses"
          /\ UNCHANGED <<cursor, stale, offered>> /\ Keys!NextTry(c)
        BY Zenon DEF Keys!MarkDead, Keys!outside
    <2> QED
        BY <2>1, KeysLists
<1>3. /\ list \in Seq(ApiKey)
      /\ \A k \in DOMAIN list : Sorted(places)[k] \in places /\ list[k] = keys[Sorted(places)[k]]
      /\ \A j, k \in DOMAIN list : j < k => Sorted(places)[j] < Sorted(places)[k]
    BY <1>1, KeptEntries DEF KeysShape
<1>4. \A k \in DOMAIN list : Sorted(places)[k] \in DOMAIN keys /\ list[k] # draw[c].key
    BY <1>3
<1> HIDE DEF list, places
<1>5. \A i, j \in DOMAIN list : list[i] = list[j] => i = j
    <2> SUFFICES ASSUME NEW i \in DOMAIN list, NEW j \in DOMAIN list, i # j
                 PROVE  list[i] # list[j]
        OBVIOUS
    <2>1. (i < j \/ j < i) /\ Sorted(places)[i] \in Nat /\ Sorted(places)[j] \in Nat
        BY <1>1, <1>3, <1>4 DEF KeysShape
    <2>2. Sorted(places)[i] # Sorted(places)[j]
        BY <1>3, <2>1
    <2> QED
        BY <1>1, <1>3, <1>4, <2>2 DEF KeysShape
<1>6. dead' \subseteq ApiKey /\ \A i \in DOMAIN list : list[i] \notin dead'
    BY <1>1, <1>2, <1>3, <1>4 DEF KeysShape, DrawsShape
<1>7. DrawsShape'
    <2>1. PICK D \in Draw : draw' = [draw EXCEPT ![c] = D] /\ D.at # "uses"
        BY <1>1, <1>2, NextTryDraws
    <2> QED
        BY <1>1, <2>1, OneDraw
<1>8. stale' \in BOOLEAN
    BY <1>1, <1>2 DEF KeysShape
<1> QED
    BY <1>2, <1>3, <1>5, <1>6, <1>7, <1>8, KeysListed


\* The key at the cursor is used: the next one is at the cursor.
LEMMA NextServed ==
    ASSUME NEW L \in Nat \ {0}, NEW b \in 0..(L - 1), NEW p \in 0..(L - 1), NEW next \in 0..(L - 1),
           next = (IF p + 1 = L THEN 0 ELSE p + 1)
    PROVE  /\ ~ Served(b, p, p)
           /\ next = b => \A j \in 0..(L - 1) : j = p \/ Served(b, p, j)
           /\ next # b => \A j \in 0..(L - 1) : Served(b, next, j) <=> (j = p \/ Served(b, p, j))
           /\ \A j \in 0..(L - 1) : ~ Served(next, next, j)
<1>1. ~ Served(b, p, p) /\ \A j \in 0..(L - 1) : ~ Served(next, next, j)
    BY DEF Served
<1>2. next = b => \A j \in 0..(L - 1) : j = p \/ Served(b, p, j)
    <2>1. CASE p + 1 = L
        BY <2>1 DEF Served
    <2>2. CASE p + 1 # L
        BY <2>2 DEF Served
    <2> QED
        BY <2>1, <2>2
<1>3. next # b => \A j \in 0..(L - 1) : Served(b, next, j) <=> (j = p \/ Served(b, p, j))
    <2>1. CASE p + 1 = L
        BY <2>1 DEF Served
    <2>2. CASE p + 1 # L
        BY <2>2 DEF Served
    <2> QED
        BY <2>1, <2>2
<1> QED
    BY <1>1, <1>2, <1>3

\* What is left of the counts above the least.
LEMMA RebasedLeast ==
    ASSUME KeysShape, NEW u, NEW n \in Nat, NEW i \in DOMAIN keys, u[keys[i]] = n,
           \A j \in DOMAIN keys : u[keys[j]] \in Nat /\ n <= u[keys[j]]
    PROVE  /\ Keys!Rebased(u) \in [ApiKey -> Nat]
           /\ \A j \in DOMAIN keys : Keys!Rebased(u)[keys[j]] = u[keys[j]] - n
<1> DEFINE R == Keys!Range(keys)
           least == CHOOSE m \in {u[k] : k \in R} : \A k \in R : m <= u[k]
<1>1. R = {keys[j] : j \in DOMAIN keys}
    BY DEF Keys!Range
<1>2. R \subseteq ApiKey /\ n \in {u[k] : k \in R} /\ \A k \in R : u[k] \in Nat /\ n <= u[k]
    BY <1>1 DEF KeysShape
<1> HIDE DEF R
<1>3. least = n
    <2>1. \E m \in {u[k] : k \in R} : \A k \in R : m <= u[k]
        BY <1>2
    <2>2. least \in {u[k] : k \in R} /\ \A k \in R : least <= u[k]
        BY <2>1
    <2> HIDE DEF least
    <2>3. least \in Nat /\ n <= least
        BY <1>2, <2>2
    <2>4. least <= n
        BY <1>2, <2>2
    <2> QED
        BY <2>3, <2>4
<1>4. Keys!Rebased(u) = [k \in ApiKey |-> IF k \in R THEN u[k] - least ELSE 0]
    BY DEF Keys!Rebased, R
<1> HIDE DEF least
<1>5. Keys!Rebased(u) = [k \in ApiKey |-> IF k \in R THEN u[k] - n ELSE 0]
    BY <1>3, <1>4
<1>6. \A k \in R : u[k] - n \in Nat
    BY <1>2
<1>7. \A j \in DOMAIN keys : keys[j] \in R
    BY <1>1
<1> QED
    BY <1>2, <1>5, <1>6, <1>7

LEMMA KeysPick ==
    ASSUME KeysInv, NEW c \in Keys!Caller, Keys!Pick(c)
    PROVE  KeysInv'
<1>1. KeysShape /\ DrawsShape /\ Turns /\ draw[c] \in Draw
    BY DEF KeysInv, DrawsShape
<1>2. UNCHANGED <<keys, dead, stale, offered>>
    BY Zenon DEF Keys!Pick, Keys!outside
<1>3. CASE keys = <<>>
    <2>1. draw' = [draw EXCEPT ![c] = Keys!Idle] /\ UNCHANGED <<cursor, used>>
        BY <1>3, Zenon DEF Keys!Pick
    <2>2. DrawsShape' /\ stale' \in BOOLEAN /\ offered' \subseteq ApiKey
        BY <1>1, <1>2, <2>1, IdleDraw, OneDraw DEF KeysShape
    <2> QED
        BY <1>2, <2>1, <2>2, KeysAsTheyAre
<1>4. CASE keys # <<>>
    <2> DEFINE L == Len(keys)
               p == cursor % L
               k == keys[p + 1]
               u == [used EXCEPT ![k] = used[k] + 1]
               D == [draw[c] EXCEPT !.at = "uses", !.key = k]
    <2>1. draw' = [draw EXCEPT ![c] = D] /\ cursor' = (cursor + 1) % Cycle /\ used' = Keys!Rebased(u)
        <3>1. /\ draw' = [draw EXCEPT ![c].at = "uses", ![c].key = k]
              /\ cursor' = (cursor + 1) % Cycle /\ used' = Keys!Rebased([used EXCEPT ![k] = @ + 1])
            BY <1>4, Zenon DEF Keys!Pick
        <3> HIDE DEF k
        <3> QED
            BY <3>1
    <2>2. L \in Nat \ {0} /\ DOMAIN keys = 1..L /\ L <= Cardinality(ApiKey) /\ Cycle % L = 0
        <3>1. L \in Nat \ {0} /\ DOMAIN keys = 1..L /\ L <= Cardinality(ApiKey)
            BY <1>1, <1>4, ShortLists DEF KeysShape
        <3> QED
            BY <3>1, KeysNumbers
    <2>3. cursor \in Nat /\ cursor < Cycle /\ Cycle \in Nat \ {0}
        BY <1>1, KeysNumbers DEF KeysShape
    <2> HIDE DEF L
    <2>4. /\ p \in 0..(L - 1) /\ cursor' \in 0..(Cycle - 1)
          /\ cursor' % L = IF p + 1 = L THEN 0 ELSE p + 1
        BY <2>1, <2>2, <2>3, RoundAndRound
    <2> HIDE DEF p
    <2> DEFINE next == cursor' % L
    <2>5. next \in 0..(L - 1) /\ next = IF p + 1 = L THEN 0 ELSE p + 1
        <3>1. next = IF p + 1 = L THEN 0 ELSE p + 1
            BY <2>4
        <3> HIDE DEF next
        <3>2. CASE p + 1 = L
            BY <2>2, <2>4, <3>1, <3>2
        <3>3. CASE p + 1 # L
            BY <2>2, <2>4, <3>1, <3>3
        <3> QED
            BY <3>2, <3>3
    <2> HIDE DEF next
    <2>6. p + 1 \in DOMAIN keys /\ k \in ApiKey
        BY <1>1, <2>2, <2>4 DEF KeysShape
    <2>7. PICK b \in 0..(L - 1) : \A i \in 1..L : used[keys[i]] = IF Served(b, p, i - 1) THEN 1 ELSE 0
        BY <1>1, <1>4 DEF Turns, L, p
    <2>16. /\ ~ Served(b, p, p)
           /\ next = b => \A j \in 0..(L - 1) : j = p \/ Served(b, p, j)
           /\ next # b => \A j \in 0..(L - 1) : Served(b, next, j) <=> (j = p \/ Served(b, p, j))
        <3>1. L \in Nat \ {0} /\ p \in 0..(L - 1)
            BY <2>2, <2>4
        <3> QED
            BY <2>5, <3>1, NextServed, Zenon
    <2>8. used \in [ApiKey -> Nat] /\ keys \in [1..L -> ApiKey]
        BY <1>1, <2>2 DEF Turns, KeysShape
    <2>9. used[k] = 0
        <3>1. ~ Served(b, p, p) /\ (p + 1) - 1 = p /\ p + 1 \in 1..L
            BY <2>2, <2>4, <2>16
        <3> QED
            BY <2>7, <3>1
    <2>10. \A i \in 1..L : u[keys[i]] = IF i - 1 = p \/ Served(b, p, i - 1) THEN 1 ELSE 0
        <3> SUFFICES ASSUME NEW i \in 1..L
                     PROVE  u[keys[i]] = IF i - 1 = p \/ Served(b, p, i - 1) THEN 1 ELSE 0
            OBVIOUS
        <3>1. CASE i - 1 = p
            <4>1. i = p + 1
                BY <2>4, <3>1
            <4> QED
                BY <2>6, <2>8, <2>9, <3>1, <4>1
        <3>2. CASE i - 1 # p
            <4>1. i # p + 1
                BY <2>4, <3>2
            <4>2. keys[i] # k
                BY <1>1, <2>2, <2>6, <4>1 DEF KeysShape
            <4> QED
                BY <2>7, <2>8, <3>2, <4>2
        <3> QED
            BY <3>1, <3>2
    <2> HIDE DEF u
    <2>11. Turns'
        <3>1. CASE next = b
            <4>1. \A i \in 1..L : u[keys[i]] = 1
                <5>1. \A j \in 0..(L - 1) : j = p \/ Served(b, p, j)
                    BY <3>1, <2>16
                <5>2. \A i \in 1..L : i - 1 \in 0..(L - 1)
                    BY <2>2
                <5> QED
                    BY <2>10, <5>1, <5>2
            <4>2. /\ used' \in [ApiKey -> Nat]
                  /\ \A i \in 1..L : used'[keys[i]] = u[keys[i]] - 1
                <5>1. u[keys[p + 1]] = 1 /\ \A i \in DOMAIN keys : u[keys[i]] \in Nat /\ 1 <= u[keys[i]]
                    BY <4>1, <2>2, <2>6
                <5> QED
                    BY <1>1, <2>1, <2>2, <2>6, <5>1, RebasedLeast
            <4>3. \A i \in 1..L : used'[keys[i]] = 0
                BY <4>1, <4>2
            <4>4. \A i \in 1..L : ~ Served(next, next, i - 1)
                <5>1. \A j \in 0..(L - 1) : ~ Served(next, next, j)
                    BY <2>5 DEF Served
                <5>2. \A i \in 1..L : i - 1 \in 0..(L - 1)
                    BY <2>2
                <5> QED
                    BY <5>1, <5>2
            <4>5. \A i \in 1..L : used'[keys[i]] = IF Served(next, next, i - 1) THEN 1 ELSE 0
                BY <4>3, <4>4
            <4> QED
                BY <1>2, <2>5, <4>2, <4>5 DEF Turns, next, L
        <3>2. CASE next # b
            <4>1. \A i \in 1..L : u[keys[i]] = IF Served(b, next, i - 1) THEN 1 ELSE 0
                <5>1. \A j \in 0..(L - 1) : Served(b, next, j) <=> (j = p \/ Served(b, p, j))
                    BY <3>2, <2>16
                <5>2. \A i \in 1..L : i - 1 \in 0..(L - 1)
                    BY <2>2
                <5> QED
                    BY <2>10, <5>1, <5>2
            <4>2. next + 1 \in DOMAIN keys /\ u[keys[next + 1]] = 0
                <5>1. next + 1 \in 1..L /\ (next + 1) - 1 = next
                    BY <2>2, <2>5
                <5>2. ~ Served(b, next, next)
                    BY <2>2, <2>5 DEF Served
                <5> QED
                    BY <4>1, <5>1, <5>2, <2>2
            <4>3. /\ used' \in [ApiKey -> Nat]
                  /\ \A i \in 1..L : used'[keys[i]] = u[keys[i]] - 0
                <5>1. \A i \in DOMAIN keys : u[keys[i]] \in Nat /\ 0 <= u[keys[i]]
                    BY <4>1, <2>2
                <5> QED
                    BY <1>1, <2>1, <2>2, <4>2, <5>1, RebasedLeast
            <4>4. \A i \in 1..L : used'[keys[i]] = IF Served(b, next, i - 1) THEN 1 ELSE 0
                BY <4>1, <4>3
            <4> QED
                BY <1>2, <2>7, <4>3, <4>4 DEF Turns, next, L
        <3> QED
            BY <3>1, <3>2
    <2>12. KeysShape'
        BY <1>1, <1>2, <2>4 DEF KeysShape
    <2>13. DrawsShape'
        <3> HIDE DEF k
        <3>1. D \in Draw /\ D.key = k
            BY <1>1, <2>6 DEF Draw, Keys!Steps
        <3> QED
            BY <1>1, <2>1, <2>6, <3>1, OneDraw
    <2> QED
        BY <2>11, <2>12, <2>13 DEF KeysInv
<1> QED
    BY <1>3, <1>4

LEMMA KeysStep == KeysInv /\ Keys!Next => KeysInv'
<1> SUFFICES ASSUME KeysInv, Keys!Next PROVE KeysInv'
    OBVIOUS
<1>1. CASE Keys!Age \/ Keys!Change
    BY <1>1, KeysOutside
<1>2. CASE \E c \in Keys!Caller : Keys!Request(c) \/ Keys!Proceed(c)
    <2>1. PICK c \in Keys!Caller : Keys!Request(c) \/ Keys!Proceed(c)
        BY <1>2
    <2> QED
        BY <2>1, KeysCalls, KeysInstall, KeysPick, KeysMarkDead DEF Keys!Proceed
<1> QED
    BY <1>1, <1>2 DEF Keys!Next

\* The keys take turns and a dead one is not in the list.
LEMMA KeysHold == KeysInv => Keys!DeadStaysOut /\ Keys!EvenUse
<1> SUFFICES ASSUME KeysInv PROVE Keys!DeadStaysOut /\ Keys!EvenUse
    OBVIOUS
<1>1. KeysShape /\ Turns
    BY DEF KeysInv
<1>2. Keys!DeadStaysOut
    BY <1>1 DEF Keys!DeadStaysOut, Keys!Range, KeysShape
<1>3. \A i, j \in DOMAIN keys : used[keys[i]] <= used[keys[j]] + 1
    <2> SUFFICES ASSUME NEW i \in DOMAIN keys, NEW j \in DOMAIN keys
                 PROVE  used[keys[i]] <= used[keys[j]] + 1
        OBVIOUS
    <2>1. DOMAIN keys = 1..Len(keys) /\ keys # <<>>
        BY <1>1 DEF KeysShape
    <2>2. PICK b \in 0..(Len(keys) - 1) : \A n \in 1..Len(keys) :
              used[keys[n]] = IF Served(b, cursor % Len(keys), n - 1) THEN 1 ELSE 0
        BY <1>1, <2>1 DEF Turns
    <2>3. used[keys[i]] \in {0, 1} /\ used[keys[j]] \in {0, 1}
        BY <2>1, <2>2
    <2> QED
        BY <2>3
<1> QED
    BY <1>2, <1>3 DEF Keys!EvenUse

LEMMA KeysTypes == KeysInv => Keys!TypeOK
<1> SUFFICES ASSUME KeysInv PROVE Keys!TypeOK
    OBVIOUS
<1>1. KeysShape /\ DrawsShape
    BY DEF KeysInv
<1>2. Keys!Range(keys) \subseteq ApiKey /\ dead \subseteq ApiKey /\ stale \in BOOLEAN /\ cursor \in Nat
    BY <1>1, KeysNumbers DEF KeysShape, Keys!Range
<1>3. Keys!IsInjective(keys)
    BY <1>1 DEF Keys!IsInjective, KeysShape
<1>4. \A c \in Keys!Caller : draw[c].at \in Keys!Steps /\ draw[c].key \in ApiKey \cup {None}
    BY <1>1 DEF DrawsShape, Draw
<1> QED
    BY <1>2, <1>3, <1>4 DEF Keys!TypeOK

-----------------------------------------------------------------------------
(***************************************************************************)
(* The health of the models.                                               *)
(***************************************************************************)

HealthShape ==
    /\ clock \in 1..MaxTicks /\ mishaps \in 0..MaxMishaps /\ last \in 0..MaxTicks
    /\ happened \subseteq Health!Event /\ IsFiniteSet(happened) /\ Cardinality(happened) <= MaxEvents
    /\ \A e \in happened : e.ts <= clock
    /\ ring \in [events : SUBSET happened, until : 0..(MaxTicks + Quarantine), ever : BOOLEAN]
    /\ health_log \in [lines : SUBSET happened, open : SUBSET happened]
    /\ health_log.lines \cap health_log.open = {}
ReportsShape ==
    /\ report \in [Thread -> [at : {"idle", "newline", "update"}, event : Health!Event \cup {Health!NoEvent}]]
    /\ \A t \in Thread : report[t].at # "idle" => report[t].event \in happened

\* Reports of one kind and moment are numbered.
Alike(e) == {f \in happened : f.ts = e.ts /\ f.kind = e.kind}
Numbered == \A e \in happened : e.nth <= Cardinality(Alike(e))

\* An event of the window is in the ring, is about to be, or is on no line of its own and
\* never will be; and while somebody reports, so is every event of the window of the last.
Busy == \E t \in Thread : report[t].at # "idle"
Pending(e) == \E t \in Thread : report[t].at # "idle" /\ report[t].event = e
Missed(e) ==
    e \notin health_log.lines /\ (e \in health_log.open => \E f \in health_log.open : f # e)
Accounts(e) == e \in ring.events \/ Missed(e) \/ Pending(e)
Recent(e) == \A f \in happened : e.ts >= f.ts - Horizon
Accounted ==
    \A e \in happened : e.ts >= clock - Horizon \/ (Busy /\ Recent(e)) => Accounts(e)

HealthInv ==
    /\ HealthShape /\ ReportsShape /\ Numbered /\ Accounted
    /\ Health!FailuresQuarantine /\ Health!QuarantineIsEarned

LEMMA HealthNumbers ==
    /\ EmptyAt \in Nat /\ ErrorAt \in Nat /\ Horizon \in Nat /\ Quarantine \in Nat \ {0} /\ Recovery \in Nat
    /\ MaxEvents \in Nat /\ MaxTicks \in Nat \ {0} /\ MaxMishaps \in Nat
BY HealthAssumption

LEMMA HealthCounts == \A S : Health!Cardinality(S) = Cardinality(S)
BY DEF Health!Cardinality, Cardinality

\* What triggers a quarantine triggers it among more events.
LEMMA MoreTrigger ==
    ASSUME NEW S, NEW T, IsFiniteSet(T), S \subseteq T, Health!Triggers(S)
    PROVE  Health!Triggers(T)
<1>1. \A kind : Health!Count(S, kind) \in Nat /\ Health!Count(T, kind) \in Nat
                /\ Health!Count(S, kind) <= Health!Count(T, kind)
    <2> SUFFICES ASSUME NEW kind
                 PROVE  Health!Count(S, kind) \in Nat /\ Health!Count(T, kind) \in Nat
                        /\ Health!Count(S, kind) <= Health!Count(T, kind)
        OBVIOUS
    <2> DEFINE SK == {e \in S : e.kind = kind}
               TK == {e \in T : e.kind = kind}
    <2>1. SK \subseteq TK /\ TK \subseteq T
        OBVIOUS
    <2>2. Health!Count(S, kind) = Cardinality(SK) /\ Health!Count(T, kind) = Cardinality(TK)
        BY HealthCounts DEF Health!Count
    <2> HIDE DEF SK, TK
    <2>3. IsFiniteSet(TK)
        BY <2>1, FS_Subset
    <2> QED
        BY <2>1, <2>2, <2>3, FS_Subset, FS_CardinalityType
<1> QED
    BY <1>1, HealthNumbers DEF Health!Triggers

LEMMA FewAlike ==
    ASSUME HealthShape, NEW e
    PROVE  IsFiniteSet(Alike(e)) /\ Cardinality(Alike(e)) \in Nat /\ Cardinality(Alike(e)) <= Cardinality(happened)
           /\ Cardinality(happened) \in Nat
<1>1. Alike(e) \subseteq happened /\ IsFiniteSet(happened)
    BY DEF Alike, HealthShape
<1> HIDE DEF Alike
<1> QED
    BY <1>1, FS_Subset, FS_CardinalityType

\* An event that is about to be reported is new.
LEMMA NewEvent ==
    ASSUME HealthShape, Numbered, NEW kind \in Health!Kinds, Cardinality(happened) < MaxEvents
    PROVE  /\ Health!New(kind) \in Health!Event /\ Health!New(kind) \notin happened
           /\ Health!New(kind).ts = clock /\ Health!New(kind).nth <= Cardinality(Alike(Health!New(kind))) + 1
<1> DEFINE e == Health!New(kind)
           n == Cardinality({f \in happened : f.ts = clock /\ f.kind = kind}) + 1
<1>1. e = [ts |-> clock, kind |-> kind, nth |-> n]
    BY HealthCounts DEF Health!New
<1> HIDE DEF n
<1>2. e.ts = clock /\ e.kind = kind /\ e.nth = n
    BY <1>1
<1>3. n = Cardinality(Alike(e)) + 1
    BY <1>2 DEF n, Alike
<1>4. n \in 1..MaxEvents
    BY <1>3, FewAlike, HealthNumbers
<1>5. e \in Health!Event
    BY <1>1, <1>4, HealthNumbers DEF Health!Event, HealthShape
<1> HIDE DEF e
<1>6. e \notin happened
    <2> SUFFICES ASSUME e \in happened PROVE FALSE
        OBVIOUS
    <2>1. n <= Cardinality(Alike(e))
        BY <1>2 DEF Numbered
    <2> QED
        BY <2>1, <1>3, FewAlike
<1> QED
    BY <1>2, <1>3, <1>4, <1>5, <1>6 DEF e

LEMMA HealthBegin == Health!Init => HealthInv
<1> SUFFICES ASSUME Health!Init PROVE HealthInv
    OBVIOUS
<1>1. /\ clock = 1 /\ ring = Health!NewRing /\ happened = {} /\ last = 0 /\ mishaps = MaxMishaps
      /\ health_log = [lines |-> {}, open |-> {}] /\ report = [t \in Thread |-> Health!NoReport]
    BY DEF Health!Init
<1>2. HealthShape
    BY <1>1, HealthNumbers, FS_EmptySet DEF HealthShape, Health!NewRing
<1>3. ReportsShape
    BY <1>1 DEF ReportsShape, Health!NoReport
<1>4. Numbered /\ Accounted
    BY <1>1 DEF Numbered, Accounted
<1>5. Health!FailuresQuarantine /\ Health!QuarantineIsEarned
    BY <1>1 DEF Health!FailuresQuarantine, Health!QuarantineIsEarned, Health!NewRing
<1> QED
    BY <1>2, <1>3, <1>4, <1>5 DEF HealthInv

LEMMA HealthStay == HealthInv /\ UNCHANGED health => HealthInv'
<1> SUFFICES ASSUME HealthInv, UNCHANGED health PROVE HealthInv'
    OBVIOUS
<1>1. UNCHANGED <<clock, ring, health_log, happened, report, last, mishaps>>
    BY DEF health
<1>2. HealthShape' /\ ReportsShape'
    BY <1>1 DEF HealthInv, HealthShape, ReportsShape
<1>3. Numbered' /\ Accounted'
    BY <1>1 DEF HealthInv, Numbered, Alike, Accounted, Accounts, Busy, Pending, Missed, Recent
<1>4. Health!FailuresQuarantine'
    BY <1>1 DEF HealthInv, Health!FailuresQuarantine, Health!Settled, Health!LogIsWhole, Health!Lines,
        Health!Since, Health!LastEvent
<1>5. Health!QuarantineIsEarned'
    BY <1>1 DEF HealthInv, Health!QuarantineIsEarned, Health!Since
<1> QED
    BY <1>2, <1>3, <1>4, <1>5 DEF HealthInv

\* What is missed stays so, as a new event is none of those that happened.
LEMMA MissedStays ==
    ASSUME HealthShape, NEW e \in happened, Missed(e),
           \/ UNCHANGED health_log
           \/ \E f : f \notin happened /\ health_log' = [health_log EXCEPT !.open = health_log.open \cup {f}]
           \/ health_log' = [lines |-> Health!Lines(health_log), open |-> {}]
    PROVE  Missed(e)'
<1>1. CASE UNCHANGED health_log
    BY <1>1 DEF Missed
<1>2. CASE \E f : f \notin happened /\ health_log' = [health_log EXCEPT !.open = health_log.open \cup {f}]
    <2>1. PICK f : f \notin happened /\ health_log' = [health_log EXCEPT !.open = health_log.open \cup {f}]
        BY <1>2
    <2>2. health_log'.lines = health_log.lines /\ health_log'.open = health_log.open \cup {f}
        BY <2>1 DEF HealthShape
    <2> QED
        BY <2>1, <2>2 DEF Missed
<1>3. CASE health_log' = [lines |-> Health!Lines(health_log), open |-> {}]
    <2>1. health_log'.lines = Health!Lines(health_log) /\ health_log'.open = {}
        BY <1>3
    <2>2. e \notin Health!Lines(health_log)
        <3>1. CASE e \in health_log.open
            <4>1. PICK f \in health_log.open : f # e
                BY <3>1 DEF Missed
            <4>2. health_log.open \subseteq happened /\ IsFiniteSet(happened)
                BY DEF HealthShape
            <4>3. Cardinality(health_log.open) # 1
                <5>1. IsFiniteSet(health_log.open)
                    BY <4>2, FS_Subset
                <5> SUFFICES ASSUME Cardinality(health_log.open) = 1 PROVE FALSE
                    OBVIOUS
                <5>2. PICK x : health_log.open = {x}
                    BY <5>1, FS_Singleton
                <5> QED
                    BY <3>1, <4>1, <5>2
            <4> QED
                BY <4>3, HealthCounts DEF Missed, Health!Lines
        <3>2. CASE e \notin health_log.open
            BY <3>2 DEF Missed, Health!Lines
        <3> QED
            BY <3>1, <3>2
    <2> QED
        BY <2>1, <2>2 DEF Missed
<1> QED
    BY <1>1, <1>2, <1>3

\* A turn takes its time, and its event is on the open line or not at all.
LEMMA HealthAdds ==
    ASSUME HealthInv, NEW t \in Thread, report[t].at = "idle", NEW e \in Health!Event, e \notin happened,
           e.ts = clock, e.nth <= Cardinality(Alike(e)) + 1, Cardinality(happened) < MaxEvents,
           happened' = happened \cup {e}, NEW step \in {"newline", "update"},
           report' = [report EXCEPT ![t] = [at |-> step, event |-> e]],
           \/ UNCHANGED health_log
           \/ health_log' = [health_log EXCEPT !.open = health_log.open \cup {e}],
           UNCHANGED <<clock, ring, last>>, mishaps' \in 0..MaxMishaps
    PROVE  HealthInv'
<1>1. HealthShape /\ ReportsShape /\ Numbered /\ Accounted /\ Health!QuarantineIsEarned
    BY DEF HealthInv
<1>2. IsFiniteSet(happened') /\ Cardinality(happened') = Cardinality(happened) + 1 /\ Cardinality(happened) \in Nat
    BY <1>1, FS_AddElement, FS_CardinalityType DEF HealthShape
<1>3. HealthShape'
    <2>1. /\ clock' \in 1..MaxTicks /\ last' \in 0..MaxTicks /\ happened' \subseteq Health!Event
          /\ Cardinality(happened') <= MaxEvents /\ \A f \in happened' : f.ts <= clock'
        BY <1>1, <1>2, HealthNumbers DEF HealthShape
    <2>2. ring' \in [events : SUBSET happened', until : 0..(MaxTicks + Quarantine), ever : BOOLEAN]
        BY <1>1 DEF HealthShape
    <2>3. health_log' \in [lines : SUBSET happened', open : SUBSET happened']
        BY <1>1 DEF HealthShape
    <2>4. health_log'.lines \cap health_log'.open = {}
        BY <1>1 DEF HealthShape
    <2> QED
        BY <1>2, <2>1, <2>2, <2>3, <2>4 DEF HealthShape
<1>4. ReportsShape'
    BY <1>1 DEF ReportsShape
<1>5. Numbered'
    <2> SUFFICES ASSUME NEW f \in happened' PROVE f.nth <= Cardinality(Alike(f)')
        BY DEF Numbered
    <2>1. IsFiniteSet(Alike(f)') /\ Cardinality(Alike(f)') \in Nat
        BY <1>3, FewAlike, FS_Subset, FS_CardinalityType DEF Alike, HealthShape
    <2>2. f.nth \in Int
        BY <1>3 DEF HealthShape, Health!Event
    <2>3. CASE f = e
        <3>1. Alike(f)' = Alike(e) \cup {e} /\ e \notin Alike(e)
            BY <2>3 DEF Alike
        <3>2. IsFiniteSet(Alike(e)) /\ Cardinality(Alike(e)) \in Nat
            BY <1>1, FewAlike
        <3>3. Cardinality(Alike(e) \cup {e}) = Cardinality(Alike(e)) + 1
            BY <3>1, <3>2, FS_AddElement
        <3> QED
            BY <2>3, <3>1, <3>3
    <2>4. CASE f # e
        <3>1. f \in happened /\ Alike(f) \subseteq Alike(f)'
            BY <2>4 DEF Alike
        <3>2. Cardinality(Alike(f)) <= Cardinality(Alike(f)') /\ Cardinality(Alike(f)) \in Nat
            BY <1>1, <2>1, <3>1, FS_Subset, FewAlike
        <3> QED
            BY <1>1, <2>1, <2>2, <3>1, <3>2 DEF Numbered
    <2> QED
        BY <2>3, <2>4
<1>6. Accounted'
    <2> SUFFICES ASSUME NEW f \in happened', f.ts >= clock' - Horizon \/ (Busy' /\ Recent(f)')
                 PROVE  Accounts(f)'
        BY DEF Accounted
    <2>1. CASE f = e
        <3>1. Pending(f)'
            BY <1>1, <2>1 DEF Pending, ReportsShape
        <3> QED
            BY <3>1 DEF Accounts
    <2>2. CASE f # e
        <3>1. f \in happened /\ f.ts >= clock - Horizon
            BY <2>2 DEF Recent
        <3>2. Accounts(f)
            BY <1>1, <3>1 DEF Accounted
        <3>3. Missed(f) => Missed(f)'
            BY <1>1, <3>1, MissedStays
        <3>4. Pending(f) => Pending(f)'
            BY <1>1 DEF Pending, ReportsShape
        <3> QED
            BY <3>2, <3>3, <3>4 DEF Accounts
    <2> QED
        BY <2>1, <2>2
<1>7. Health!FailuresQuarantine'
    <2>1. report'[t].at # "idle"
        BY <1>1 DEF ReportsShape
    <2> QED
        BY <2>1 DEF Health!FailuresQuarantine, Health!Settled
<1>8. Health!QuarantineIsEarned'
    <2> SUFFICES ASSUME ring.until > 0
                 PROVE  Health!Triggers(Health!Since(ring.until - Quarantine)')
        BY DEF Health!QuarantineIsEarned
    <2> DEFINE n == ring.until - Quarantine
               T == {f \in happened' : f.ts >= n - Horizon}
               S == {f \in happened : f.ts >= n - Horizon}
    <2>1. Health!Triggers(S)
        BY <1>1 DEF Health!QuarantineIsEarned, Health!Since, Health!Within
    <2>2. S \subseteq T /\ IsFiniteSet(T)
        BY <1>2, FS_Subset
    <2>3. Health!Since(n)' = T
        BY DEF Health!Since, Health!Within
    <2> HIDE DEF S, T
    <2> QED
        BY <2>1, <2>2, <2>3, MoreTrigger
<1> QED
    BY <1>3, <1>4, <1>5, <1>6, <1>7, <1>8 DEF HealthInv

LEMMA HealthReports ==
    ASSUME HealthInv, NEW t \in Thread, Health!Reports(t) \/ Health!AppendFails(t)
    PROVE  HealthInv'
<1>1. HealthShape /\ Numbered /\ report[t].at = "idle" /\ Cardinality(happened) < MaxEvents
    BY HealthCounts DEF HealthInv, Health!Reports, Health!AppendFails
<1>2. UNCHANGED <<clock, ring, last>> /\ mishaps' \in 0..MaxMishaps
    BY <1>1, HealthNumbers DEF Health!Reports, Health!AppendFails, HealthShape
<1>3. PICK kind \in Health!Kinds, step \in {"newline", "update"} :
        /\ happened' = happened \cup {Health!New(kind)}
        /\ report' = [report EXCEPT ![t] = [at |-> step, event |-> Health!New(kind)]]
        /\ UNCHANGED health_log \/ health_log' = [health_log EXCEPT !.open = health_log.open \cup {Health!New(kind)}]
    <2>1. CASE Health!Reports(t)
        <3>1. PICK kind \in Health!Kinds :
                /\ happened' = happened \cup {Health!New(kind)}
                /\ report' = [report EXCEPT ![t] = [at |-> "newline", event |-> Health!New(kind)]]
                /\ health_log' = [health_log EXCEPT !.open = health_log.open \cup {Health!New(kind)}]
            BY <2>1, Zenon DEF Health!Reports, Health!To
        <3> QED
            BY <3>1, Zenon
    <2>2. CASE Health!AppendFails(t)
        <3>1. PICK kind \in Health!Kinds :
                /\ happened' = happened \cup {Health!New(kind)}
                /\ report' = [report EXCEPT ![t] = [at |-> "update", event |-> Health!New(kind)]]
                /\ UNCHANGED health_log
            BY <2>2, Zenon DEF Health!AppendFails, Health!To
        <3> QED
            BY <3>1, Zenon
    <2> QED
        BY <2>1, <2>2
<1> DEFINE e == Health!New(kind)
<1>4. e \in Health!Event /\ e \notin happened /\ e.ts = clock /\ e.nth <= Cardinality(Alike(e)) + 1
    BY <1>1, NewEvent
<1> HIDE DEF e
<1>5. /\ happened' = happened \cup {e} /\ report' = [report EXCEPT ![t] = [at |-> step, event |-> e]]
      /\ UNCHANGED health_log \/ health_log' = [health_log EXCEPT !.open = health_log.open \cup {e}]
    BY <1>3, Zenon DEF e
<1> QED
    BY <1>1, <1>2, <1>4, <1>5, HealthAdds

LEMMA HealthEndLine ==
    ASSUME HealthInv, NEW t \in Thread, Health!EndLine(t)
    PROVE  HealthInv'
<1>1. HealthShape /\ ReportsShape /\ Numbered /\ Accounted /\ Health!QuarantineIsEarned
    BY DEF HealthInv
<1>2. /\ health_log' = [lines |-> Health!Lines(health_log), open |-> {}] /\ report[t].at = "newline"
      /\ report' = [report EXCEPT ![t] = [at |-> "update", event |-> report[t].event]]
      /\ UNCHANGED <<clock, ring, happened, last, mishaps>>
    BY Zenon DEF Health!EndLine, Health!To
<1>3. HealthShape'
    BY <1>1, <1>2 DEF HealthShape, Health!Lines
<1>4. ReportsShape'
    BY <1>1, <1>2 DEF ReportsShape
<1>5. Numbered'
    BY <1>1, <1>2 DEF Numbered, Alike
<1>6. Accounted'
    <2> SUFFICES ASSUME NEW f \in happened, f.ts >= clock - Horizon \/ (Busy' /\ Recent(f)')
                 PROVE  Accounts(f)'
        BY <1>2 DEF Accounted
    <2>1. Busy /\ (Recent(f)' => Recent(f))
        BY <1>2 DEF Busy, Recent
    <2>2. Accounts(f)
        BY <1>1, <2>1 DEF Accounted
    <2>3. Missed(f) => Missed(f)'
        BY <1>1, <1>2, MissedStays
    <2>4. Pending(f) => Pending(f)'
        BY <1>1, <1>2 DEF Pending, ReportsShape
    <2> QED
        BY <1>2, <2>2, <2>3, <2>4 DEF Accounts
<1>7. Health!FailuresQuarantine'
    <2>1. report'[t].at # "idle"
        BY <1>1, <1>2 DEF ReportsShape
    <2> QED
        BY <2>1 DEF Health!FailuresQuarantine, Health!Settled
<1>8. Health!QuarantineIsEarned'
    BY <1>1, <1>2 DEF Health!QuarantineIsEarned, Health!Since
<1> QED
    BY <1>3, <1>4, <1>5, <1>6, <1>7, <1>8 DEF HealthInv

LEMMA HealthTick ==
    ASSUME HealthInv, Health!Tick
    PROVE  HealthInv'
<1>1. HealthShape /\ ReportsShape /\ Numbered /\ Accounted /\ Health!QuarantineIsEarned
    BY DEF HealthInv
<1>2. clock < MaxTicks /\ clock' = clock + 1 /\ UNCHANGED <<ring, health_log, happened, report, last, mishaps>>
    BY DEF Health!Tick
<1>3. HealthShape'
    BY <1>1, <1>2, HealthNumbers DEF HealthShape, Health!Event
<1>4. ReportsShape'
    BY <1>1, <1>2 DEF ReportsShape
<1>5. Numbered'
    BY <1>1, <1>2 DEF Numbered, Alike
<1>6. Accounted'
    <2> SUFFICES ASSUME NEW f \in happened, f.ts >= (clock + 1) - Horizon \/ (Busy' /\ Recent(f)')
                 PROVE  Accounts(f)'
        BY <1>2 DEF Accounted
    <2>1. f.ts \in Int /\ clock \in Int /\ Horizon \in Int
        BY <1>1, HealthNumbers DEF HealthShape, Health!Event
    <2>2. f.ts >= clock - Horizon \/ (Busy /\ Recent(f))
        <3>1. CASE f.ts >= (clock + 1) - Horizon
            BY <2>1, <3>1
        <3>2. CASE Busy' /\ Recent(f)'
            BY <1>2, <3>2 DEF Busy, Recent
        <3> QED
            BY <3>1, <3>2
    <2>3. Accounts(f)
        BY <1>1, <2>2 DEF Accounted
    <2> QED
        BY <1>2, <2>3 DEF Accounts, Missed, Pending
<1>7. Health!FailuresQuarantine'
    BY <1>2 DEF HealthInv, Health!FailuresQuarantine, Health!Settled, Health!LogIsWhole, Health!Lines,
        Health!Since, Health!LastEvent
<1>8. Health!QuarantineIsEarned'
    BY <1>1, <1>2 DEF Health!QuarantineIsEarned, Health!Since
<1> QED
    BY <1>3, <1>4, <1>5, <1>6, <1>7, <1>8 DEF HealthInv

\* A new process knows what is on lines of their own, and what it does not know is missed.
LEMMA HealthRestart ==
    ASSUME HealthInv, Health!Restart
    PROVE  HealthInv'
<1>1. HealthShape /\ ReportsShape /\ Numbered
    BY DEF HealthInv
<1> DEFINE Known == Health!Loaded(health_log, clock)
           some == Health!Count(Known, "success") > 0
<1>2. /\ mishaps' = mishaps - 1 /\ mishaps > 0 /\ report' = [t \in Thread |-> Health!NoReport] /\ last' = 0
      /\ ring' = [Health!NewRing EXCEPT !.events = Known, !.ever = some] /\ UNCHANGED <<clock, health_log, happened>>
    BY Zenon DEF Health!Restart
<1>3. Known = {e \in Health!Lines(health_log) : e.ts >= clock - Horizon}
    BY DEF Health!Loaded, Health!Within
<1>4. Known \subseteq happened
    BY <1>1, <1>3 DEF HealthShape, Health!Lines
<1>5. some \in BOOLEAN
    OBVIOUS
<1> HIDE DEF Known, some
<1>6. ring' = [events |-> Known, until |-> 0, ever |-> some]
    BY <1>2 DEF Health!NewRing
<1>7. HealthShape'
    BY <1>1, <1>2, <1>4, <1>5, <1>6, HealthNumbers DEF HealthShape
<1>8. ReportsShape'
    BY <1>2 DEF ReportsShape, Health!NoReport
<1>9. Numbered'
    BY <1>1, <1>2 DEF Numbered, Alike
<1>10. Accounted'
    <2> SUFFICES ASSUME NEW f \in happened, f.ts >= clock - Horizon \/ Busy'
                 PROVE  Accounts(f)'
        BY <1>2 DEF Accounted
    <2>1. ~ Busy'
        BY <1>2 DEF Busy, Health!NoReport
    <2>2. CASE f \in Health!Lines(health_log)
        <3>1. f \in ring'.events
            BY <1>3, <1>6, <2>1, <2>2
        <3> QED
            BY <3>1 DEF Accounts
    <2>3. CASE f \notin Health!Lines(health_log)
        <3>1. f \notin health_log.lines
            BY <2>3 DEF Health!Lines
        <3>2. f \in health_log.open => \E e \in health_log.open : e # f
            <4> SUFFICES ASSUME f \in health_log.open, \A e \in health_log.open : e = f PROVE FALSE
                OBVIOUS
            <4>1. health_log.open = {f}
                OBVIOUS
            <4>2. Cardinality({f}) = 1
                BY FS_Singleton
            <4>3. Cardinality(health_log.open) = 1
                BY <4>1, <4>2
            <4>4. f \in Health!Lines(health_log)
                BY <4>3, HealthCounts DEF Health!Lines
            <4> QED
                BY <2>3, <4>4
        <3>3. Missed(f)'
            BY <1>2, <3>1, <3>2 DEF Missed
        <3> QED
            BY <3>3 DEF Accounts
    <2> QED
        BY <2>2, <2>3
<1>11. Health!FailuresQuarantine'
    BY <1>2 DEF Health!FailuresQuarantine
<1>12. Health!QuarantineIsEarned'
    BY <1>6 DEF Health!QuarantineIsEarned
<1> QED
    BY <1>7, <1>8, <1>9, <1>10, <1>11, <1>12 DEF HealthInv

\* The moment of the last event.
LEMMA LastMoment ==
    ASSUME HealthShape, happened # {}
    PROVE  Health!LastEvent \in Int /\ \A e \in happened : e.ts <= Health!LastEvent
<1> DEFINE Times == {e.ts : e \in happened}
           Upper == {n \in Nat : \A e \in happened : e.ts <= n}
<1>1. clock \in Upper /\ \A e \in happened : e.ts \in Nat /\ e.ts >= 1
    BY HealthNumbers DEF HealthShape, Health!Event
<1>2. PICK n \in Upper : \A m \in Upper : n <= m
    <2>1. Upper \in SUBSET Nat /\ Upper # {}
        BY <1>1
    <2> HIDE DEF Upper
    <2> QED
        BY <2>1, Least
<1>3. n \in Times
    <2> SUFFICES ASSUME n \notin Times PROVE FALSE
        OBVIOUS
    <2>1. n \in Nat /\ \A e \in happened : e.ts <= n /\ e.ts # n
        BY <1>2
    <2>2. n - 1 \in Nat /\ \A e \in happened : e.ts <= n - 1
        BY <2>1, <1>1
    <2>3. n - 1 \in Upper
        BY <2>2
    <2>4. n <= n - 1
        BY <1>2, <2>3
    <2> QED
        BY <2>1, <2>4
<1>4. \E x \in Times : \A e \in happened : e.ts <= x
    BY <1>2, <1>3
<1>5. Health!LastEvent \in Times /\ \A e \in happened : e.ts <= Health!LastEvent
    BY <1>4 DEF Health!LastEvent
<1> QED
    BY <1>1, <1>5

\* The event is counted, with those of its window.
LEMMA HealthUpdate ==
    ASSUME HealthInv, NEW t \in Thread, Health!Update(t)
    PROVE  HealthInv'
<1>1. HealthShape /\ ReportsShape /\ Numbered /\ Accounted /\ Health!QuarantineIsEarned
    BY DEF HealthInv
<1> DEFINE e == report[t].event
           Seen == {f \in ring.events \cup {e} : f.ts >= e.ts - Horizon}
           until == IF Health!Clears(e) THEN 0 ELSE ring.until
           begun == IF Health!Triggers(Seen) /\ until <= e.ts THEN e.ts + Quarantine ELSE until
           ok == ring.ever \/ e.kind = "success"
<1>2. /\ report[t].at = "update" /\ report' = [report EXCEPT ![t] = Health!NoReport]
      /\ last' = Health!Failure(e) /\ UNCHANGED <<clock, health_log, happened, mishaps>>
    BY Zenon DEF Health!Update
<1>3. ring' = [events |-> Seen, until |-> begun, ever |-> ok]
    BY Zenon DEF Health!Update, Health!Updated, Health!Trimmed, Health!Within
<1>4. e \in happened /\ e.ts \in 1..MaxTicks /\ e.ts <= clock /\ e.kind \in Health!Kinds
    BY <1>1, <1>2 DEF ReportsShape, HealthShape, Health!Event
<1>5. until \in 0..(MaxTicks + Quarantine) /\ (until > 0 => until = ring.until)
    BY <1>1, HealthNumbers DEF HealthShape
<1>6. ok \in BOOLEAN
    BY <1>1 DEF HealthShape
<1>7. (e.kind # "success" => until = ring.until) /\ Seen \subseteq happened
    BY <1>1, <1>4 DEF Health!Clears, HealthShape
<1> HIDE DEF until
<1>8. /\ begun \in 0..(MaxTicks + Quarantine)
      /\ begun = until \/ (Health!Triggers(Seen) /\ begun = e.ts + Quarantine)
      /\ Health!Triggers(Seen) => begun > e.ts
    BY <1>4, <1>5, HealthNumbers
<1>9. e \in Seen /\ \A f \in ring.events : f.ts >= e.ts - Horizon => f \in Seen
    BY <1>4, HealthNumbers
<1>10. Seen \subseteq {f \in happened : f.ts >= e.ts - Horizon}
    BY <1>7
<1> HIDE DEF Seen, begun, ok
<1>11. ring'.events = Seen /\ ring'.until = begun
    BY <1>3
<1>12. HealthShape'
    <2>1. ring' \in [events : SUBSET happened, until : 0..(MaxTicks + Quarantine), ever : BOOLEAN]
        BY <1>3, <1>6, <1>7, <1>8
    <2>2. last' \in 0..MaxTicks
        BY <1>2, <1>4, HealthNumbers DEF Health!Failure
    <2> HIDE DEF e
    <2> QED
        BY <1>1, <1>2, <2>1, <2>2 DEF HealthShape
<1>13. ReportsShape'
    BY <1>1, <1>2 DEF ReportsShape, Health!NoReport
<1>14. Numbered'
    BY <1>1, <1>2 DEF Numbered, Alike
<1>15. \A f \in happened : Accounts(f) /\ f.ts >= e.ts - Horizon => Accounts(f)'
    <2> SUFFICES ASSUME NEW f \in happened, Accounts(f), f.ts >= e.ts - Horizon
                 PROVE  Accounts(f)'
        OBVIOUS
    <2>1. CASE f \in ring.events
        BY <1>9, <1>11, <2>1 DEF Accounts
    <2>2. CASE Missed(f)
        BY <1>2, <2>2 DEF Accounts, Missed
    <2>3. CASE Pending(f) /\ f # e
        BY <1>1, <1>2, <2>3 DEF Accounts, Pending, ReportsShape
    <2>4. CASE f = e
        BY <1>9, <1>11, <2>4 DEF Accounts
    <2> QED
        BY <2>1, <2>2, <2>3, <2>4 DEF Accounts
<1>16. \A f \in happened : Recent(f) => Accounts(f)
    <2>1. Busy
        BY <1>2 DEF Busy
    <2> QED
        BY <1>1, <2>1 DEF Accounted
<1>17. Accounted'
    <2> SUFFICES ASSUME NEW f \in happened, f.ts >= clock - Horizon \/ (Busy' /\ Recent(f)')
                 PROVE  Accounts(f)'
        BY <1>2 DEF Accounted
    <2>1. f.ts \in Int /\ clock \in Int /\ Horizon \in Int
        BY <1>1, HealthNumbers DEF HealthShape, Health!Event
    <2>2. CASE f.ts >= clock - Horizon
        <3>1. Accounts(f) /\ f.ts >= e.ts - Horizon
            BY <1>1, <1>4, <2>1, <2>2 DEF Accounted
        <3> QED
            BY <1>15, <3>1
    <2>3. CASE Busy' /\ Recent(f)'
        <3>1. Recent(f) /\ f.ts >= e.ts - Horizon
            BY <1>2, <1>4, <2>3 DEF Recent
        <3> QED
            BY <1>15, <1>16, <3>1
    <2> QED
        BY <2>2, <2>3
<1>18. Health!FailuresQuarantine'
    <2> SUFFICES ASSUME Health!Settled', last' > 0, Health!LogIsWhole', Health!Triggers(Health!Since(Health!LastEvent))'
                 PROVE  ring'.until > last'
        BY DEF Health!FailuresQuarantine
    <2>1. last' = e.ts /\ e.kind # "success"
        BY <1>2 DEF Health!Failure
    <2> DEFINE m == Health!LastEvent
               Lately == {f \in happened : f.ts >= m - Horizon}
    <2>2. m \in Int /\ \A f \in happened : f.ts <= m
        BY <1>1, <1>4, LastMoment
    <2>3. Health!Triggers(Lately)
        <3>1. Health!LastEvent' = Health!LastEvent
            BY <1>2 DEF Health!LastEvent
        <3>2. Health!Since(Health!LastEvent)' = Lately
            BY <1>2, <3>1 DEF Health!Since, Health!Within
        <3>3. Health!Triggers(Health!Since(Health!LastEvent))' = Health!Triggers(Health!Since(Health!LastEvent)')
            BY DEF Health!Triggers, Health!Count
        <3> QED
            BY <3>2, <3>3
    <2> HIDE DEF m
    <2>4. Lately \subseteq Seen
        <3> SUFFICES ASSUME NEW f \in happened, f.ts >= m - Horizon PROVE f \in Seen
            OBVIOUS
        <3>0. f.ts \in Int /\ \A g \in happened : g.ts \in Int
            BY <1>1 DEF HealthShape, Health!Event
        <3>1. Recent(f) /\ f.ts >= e.ts - Horizon
            BY <1>4, <2>2, <3>0, HealthNumbers DEF Recent
        <3>2. Accounts(f)'
            BY <1>15, <1>16, <3>1
        <3>3. ~ Pending(f)'
            BY DEF Pending, Health!Settled
        <3>4. ~ Missed(f)'
            <4>1. f \in Health!Lines(health_log')
                BY <1>2 DEF Health!LogIsWhole
            <4>2. IsFiniteSet(health_log.open) /\ health_log' = health_log
                BY <1>1, <1>2, FS_Subset DEF HealthShape
            <4> SUFFICES ASSUME Missed(f) PROVE FALSE
                BY <4>2 DEF Missed
            <4>3. f \in health_log.open /\ Cardinality(health_log.open) = 1
                BY <4>1, <4>2, HealthCounts DEF Missed, Health!Lines
            <4>4. PICK x : health_log.open = {x}
                BY <4>2, <4>3, FS_Singleton
            <4> QED
                BY <4>3, <4>4 DEF Missed
        <3> QED
            BY <1>11, <3>2, <3>3, <3>4 DEF Accounts
    <2>5. IsFiniteSet(Seen)
        BY <1>1, <1>7, FS_Subset DEF HealthShape
    <2> HIDE DEF Lately
    <2>6. Health!Triggers(Seen)
        BY <2>3, <2>4, <2>5, MoreTrigger
    <2> QED
        BY <1>8, <1>11, <2>1, <2>6
<1>19. Health!QuarantineIsEarned'
    <2> SUFFICES ASSUME begun > 0
                 PROVE  Health!Triggers({f \in happened : f.ts >= (begun - Quarantine) - Horizon})
        BY <1>2, <1>11 DEF Health!QuarantineIsEarned, Health!Since, Health!Within
    <2>1. CASE begun = until
        <3>1. begun = ring.until /\ ring.until > 0
            BY <1>5, <2>1
        <3> QED
            BY <1>1, <3>1 DEF Health!QuarantineIsEarned, Health!Since, Health!Within
    <2>2. CASE Health!Triggers(Seen) /\ begun = e.ts + Quarantine
        <3> DEFINE Lately == {f \in happened : f.ts >= (begun - Quarantine) - Horizon}
        <3>1. begun - Quarantine = e.ts
            BY <1>4, <2>2, HealthNumbers
        <3>2. Seen \subseteq Lately
            BY <1>10, <3>1
        <3>3. IsFiniteSet(Lately)
            BY <1>1, FS_Subset DEF HealthShape
        <3> HIDE DEF Lately
        <3>4. Health!Triggers(Lately)
            BY <2>2, <3>2, <3>3, MoreTrigger
        <3> QED
            BY <3>4 DEF Lately
    <2> QED
        BY <1>8, <2>1, <2>2
<1> QED
    BY <1>12, <1>13, <1>14, <1>17, <1>18, <1>19 DEF HealthInv

LEMMA HealthStep == HealthInv /\ Health!Next => HealthInv'
BY HealthReports, HealthEndLine, HealthTick, HealthRestart, HealthUpdate DEF Health!Next

\* Nobody reports and no line is lost: the ring counts the window.
LEMMA HealthIsCounted == HealthInv => Health!HealthHolds
<1> SUFFICES ASSUME HealthInv PROVE Health!HealthHolds
    OBVIOUS
<1>1. HealthShape /\ Accounted
    BY DEF HealthInv
<1>2. Health!RingCountsWindow
    <2> SUFFICES ASSUME Health!Settled, Health!LogIsWhole
                 PROVE  Health!Within(ring.events, clock) = Health!Since(clock)
        BY DEF Health!RingCountsWindow
    <2>1. \A f \in happened : f.ts >= clock - Horizon => f \in ring.events
        <3> SUFFICES ASSUME NEW f \in happened, f.ts >= clock - Horizon PROVE f \in ring.events
            OBVIOUS
        <3>1. Accounts(f) /\ ~ Pending(f)
            BY <1>1 DEF Accounted, Pending, Health!Settled
        <3>2. ~ Missed(f)
            <4>1. f \in Health!Lines(health_log)
                BY DEF Health!LogIsWhole
            <4>2. IsFiniteSet(health_log.open)
                BY <1>1, FS_Subset DEF HealthShape
            <4> SUFFICES ASSUME Missed(f) PROVE FALSE
                OBVIOUS
            <4>3. f \in health_log.open /\ Cardinality(health_log.open) = 1
                BY <4>1, HealthCounts DEF Missed, Health!Lines
            <4>4. PICK x : health_log.open = {x}
                BY <4>2, <4>3, FS_Singleton
            <4> QED
                BY <4>3, <4>4 DEF Missed
        <3> QED
            BY <3>1, <3>2 DEF Accounts
    <2>2. ring.events \subseteq happened
        BY <1>1 DEF HealthShape
    <2> QED
        BY <2>1, <2>2 DEF Health!Within, Health!Since
<1> QED
    BY <1>2 DEF HealthInv, Health!HealthHolds

LEMMA HealthTypes == HealthInv => Health!TypeOK
<1> SUFFICES ASSUME HealthInv PROVE Health!TypeOK
    OBVIOUS
<1>1. HealthShape /\ ReportsShape
    BY DEF HealthInv
<1> QED
    BY <1>1 DEF HealthShape, ReportsShape, Health!TypeOK

-----------------------------------------------------------------------------
(***************************************************************************)
(* The whole.                                                              *)
(***************************************************************************)

\* A step of the whole is one of each part, or leaves it as it is.
LEMMA TasksOrStay == [Next]_vars => Tasks!Next \/ UNCHANGED tasks
BY Zenon DEF Next, vars, FilesMove, LimiterMoves, KeysMove, TasksMove, McpMoves, ShellsMove,
    MemoryMoves, ResearchMoves, HealthMoves, MarkersMove, WatchdogMoves
LEMMA RunsOrStay == [Next]_vars => Runs!Next \/ UNCHANGED research
BY Zenon DEF Next, vars, FilesMove, LimiterMoves, KeysMove, TasksMove, McpMoves, ShellsMove,
    MemoryMoves, ResearchMoves, HealthMoves, MarkersMove, WatchdogMoves
LEMMA LimiterOrStay == [Next]_vars => Limiter!Next \/ UNCHANGED limiter
BY Zenon DEF Next, vars, FilesMove, LimiterMoves, KeysMove, TasksMove, McpMoves, ShellsMove,
    MemoryMoves, ResearchMoves, HealthMoves, MarkersMove, WatchdogMoves
LEMMA WatchOrStay == [Next]_vars => Watch!Next \/ UNCHANGED watchdog
BY Zenon DEF Next, vars, FilesMove, LimiterMoves, KeysMove, TasksMove, McpMoves, ShellsMove,
    MemoryMoves, ResearchMoves, HealthMoves, MarkersMove, WatchdogMoves
LEMMA McpOrStay == [Next]_vars => Mcp!Next \/ UNCHANGED mcp
BY Zenon DEF Next, vars, FilesMove, LimiterMoves, KeysMove, TasksMove, McpMoves, ShellsMove,
    MemoryMoves, ResearchMoves, HealthMoves, MarkersMove, WatchdogMoves
LEMMA KeysOrStay == [Next]_vars => Keys!Next \/ UNCHANGED key_pool
BY Zenon DEF Next, vars, FilesMove, LimiterMoves, KeysMove, TasksMove, McpMoves, ShellsMove,
    MemoryMoves, ResearchMoves, HealthMoves, MarkersMove, WatchdogMoves
LEMMA HealthOrStay == [Next]_vars => Health!Next \/ UNCHANGED health
BY Zenon DEF Next, vars, FilesMove, LimiterMoves, KeysMove, TasksMove, McpMoves, ShellsMove,
    MemoryMoves, ResearchMoves, HealthMoves, MarkersMove, WatchdogMoves
LEMMA ShellsOrStay == [Next]_vars => Shells!Next \/ UNCHANGED shells
BY Zenon DEF Next, vars, FilesMove, LimiterMoves, KeysMove, TasksMove, McpMoves, ShellsMove,
    MemoryMoves, ResearchMoves, HealthMoves, MarkersMove, WatchdogMoves
LEMMA MemoryOrStay == [Next]_vars => Memory!Next \/ UNCHANGED memory
BY Zenon DEF Next, vars, FilesMove, LimiterMoves, KeysMove, TasksMove, McpMoves, ShellsMove,
    MemoryMoves, ResearchMoves, HealthMoves, MarkersMove, WatchdogMoves
LEMMA MarkersOrStay == [Next]_vars => Markers!Next \/ UNCHANGED markers
BY Zenon DEF Next, vars, FilesMove, LimiterMoves, KeysMove, TasksMove, McpMoves, ShellsMove,
    MemoryMoves, ResearchMoves, HealthMoves, MarkersMove, WatchdogMoves

OrderInv == TasksInv /\ RunsInv

LEMMA OrderBegins == Init => OrderInv
BY TasksBegin, RunsBegin, Zenon DEF Init, OrderInv

LEMMA OrderStays == OrderInv /\ [Next]_vars => OrderInv'
<1>1. TasksInv /\ [Next]_vars => TasksInv'
    BY TasksOrStay, TasksStep, TasksStay, Zenon
<1>2. RunsInv /\ [Next]_vars => RunsInv'
    BY RunsOrStay, RunsStep, RunsStay, Zenon
<1> QED
    BY <1>1, <1>2, Zenon DEF OrderInv

\* No body of a task is started once its token is cancelled, but for one let in at that
\* moment, and a supervisor that is done has awaited its body (supervised.rs); a research
\* run that is over has told its agent to stop, on every path (research_adapter.rs).
THEOREM EverythingStopsInOrder == Spec => StopsInOrder
<1>1. OrderInv /\ [Next]_vars =>
        [Tasks!StartsUnlessShutDown /\ Tasks!DoneMeansQuiet' /\ Runs!OverMeansStopped']_<<tasks, research>>
    <2> SUFFICES ASSUME OrderInv, [Next]_vars, <<tasks, research>>' # <<tasks, research>>
                 PROVE  Tasks!StartsUnlessShutDown /\ Tasks!DoneMeansQuiet' /\ Runs!OverMeansStopped'
        BY Zenon
    <2>1. TasksInv' /\ RunsInv'
        BY OrderStays, Zenon DEF OrderInv
    <2>2. Tasks!StartsUnlessShutDown
        <3>1. CASE Tasks!Next
            BY <3>1, TasksStep, Zenon DEF OrderInv
        <3>2. CASE UNCHANGED tasks
            BY <3>2 DEF tasks, Tasks!StartsUnlessShutDown, OrderInv, TasksInv
        <3> QED
            BY <3>1, <3>2, TasksOrStay, Zenon
    <2>3. Tasks!DoneMeansQuiet'
        BY <2>1 DEF TasksInv, Tasks!DoneMeansQuiet
    <2>4. Runs!OverMeansStopped'
        BY <2>1 DEF RunsInv, CleansUp, Runs!OverMeansStopped, Runs!At
    <2> QED
        BY <2>2, <2>3, <2>4, Zenon
<1> QED
    BY <1>1, OrderBegins, OrderStays, PTL DEF Spec, StopsInOrder

LimitsInv == LimiterInv /\ WatchInv

LEMMA LimitsBegin == Init => LimitsInv
BY LimiterBegin, WatchBegin, Zenon DEF Init, LimitsInv

LEMMA LimitsStay == LimitsInv /\ [Next]_vars => LimitsInv'
<1>1. LimiterInv /\ [Next]_vars => LimiterInv'
    BY LimiterOrStay, LimiterStep, LimiterStay, Zenon
<1>2. WatchInv /\ [Next]_vars => WatchInv'
    BY WatchOrStay, WatchStep, WatchStay, Zenon
<1> QED
    BY <1>1, <1>2, Zenon DEF LimitsInv

\* One editor keeps the budget of the rolling window, also when an edit is tried again
\* after a 429; no wait passes the ceiling; who asks while the chat is parked sleeps to the
\* end of the park (rate_limit.rs).  systemd kills no process that works, however its loops,
\* the looks of the ticker and the time they take interleave, but for the causes that
\* HealthySpared names, of which a scan or a pass at boot longer than the ticker forgives is
\* one; and a process in which a loop is stuck outlives what is forgiven by WatchdogSec at
\* most (watchdog.rs, liveness.rs).
THEOREM LimitsAreHeld == Spec => LimitsHeld
<1>1. LimitsInv /\ [Next]_vars =>
        [/\ Limiter!BudgetHeldAlone' /\ Limiter!CeilingHeld' /\ Limiter!RespectsPark
         /\ Of("watchdog", Watch!FitsTogether)']_<<limiter, watchdog>>
    <2> SUFFICES ASSUME LimitsInv, [Next]_vars
                 PROVE  /\ Limiter!BudgetHeldAlone' /\ Limiter!CeilingHeld' /\ Limiter!RespectsPark
                        /\ Of("watchdog", Watch!FitsTogether)'
        BY Zenon
    <2>1. Limiter!RespectsPark
        <3>1. CASE Limiter!Next
            BY <3>1, LimiterStep, Zenon DEF LimitsInv
        <3>2. CASE UNCHANGED limiter
            BY <3>2 DEF limiter, Limiter!RespectsPark
        <3> QED
            BY <3>1, <3>2, LimiterOrStay, Zenon
    <2>2. LimiterInv' /\ WatchInv'
        BY LimitsStay, Zenon DEF LimitsInv
    <2>3. Limiter!BudgetHeldAlone' /\ Limiter!CeilingHeld'
        BY <2>2, LimiterHolds, PTL
    <2>4. Of("watchdog", Watch!FitsTogether)'
        <3>1. Watch!FitsTogether'
            BY <2>2, WatchHolds, PTL
        <3> QED
            BY <3>1, Zenon DEF Of
    <2> QED
        BY <2>1, <2>3, <2>4, Zenon
<1> QED
    BY <1>1, LimitsBegin, LimitsStay, PTL DEF Spec, LimitsHeld

TurnsInv == KeysInv /\ HealthInv

LEMMA TurnsBegin == Init => TurnsInv
BY KeysBegin, HealthBegin, Zenon DEF Init, TurnsInv

LEMMA TurnsGoOn == TurnsInv /\ [Next]_vars => TurnsInv'
<1>1. KeysInv /\ [Next]_vars => KeysInv'
    BY KeysOrStay, KeysStep, KeysStay, Zenon
<1>2. HealthInv /\ [Next]_vars => HealthInv'
    BY HealthOrStay, HealthStep, HealthStay, Zenon
<1> QED
    BY <1>1, <1>2, Zenon DEF TurnsInv

\* A refused key does not come back with a refresh that was under way, and the keys take
\* turns while the list stays as it is (pool.rs); a model is in quarantine for failures of
\* the window, and whenever there were enough of them, whoever reported them in whatever
\* order and also after a restart (health.rs).
THEOREM KeysTakeTurns == Spec => []KeysInTurn
<1>1. TurnsInv => KeysInTurn
    BY KeysHold, HealthIsCounted, Zenon DEF TurnsInv, KeysInTurn, Of
<1> QED
    BY <1>1, TurnsBegin, TurnsGoOn, PTL DEF Spec

AnswersInv == McpInv /\ ShellsInv /\ ResearchInv

LEMMA AnswersBegin == Init => AnswersInv
BY McpBegin, ShellsBegin, ResearchBegins, Zenon DEF Init, AnswersInv

LEMMA AnswersGoOn == AnswersInv /\ [Next]_vars => AnswersInv'
<1>1. McpInv /\ [Next]_vars => McpInv'
    BY McpOrStay, McpStep, McpStay, Zenon
<1>2. ShellsInv /\ [Next]_vars => ShellsInv'
    BY ShellsOrStay, ShellsStep, ShellsStay, Zenon
<1>3. ResearchInv /\ [Next]_vars => ResearchInv'
    BY RunsOrStay, ResearchStep, ResearchStays, Zenon
<1> QED
    BY <1>1, <1>2, <1>3, Zenon DEF AnswersInv

\* A tool call of an MCP server takes no answer of another call, and gives the server up for
\* a cause only (transport.rs); a shell gives a command the output of that command unless a
\* call of its session was dropped or left a job in the background, and the cap of shells is
\* held (persistent_bash.rs); a
\* finding is in the spec of the run that found it, and a run reports no more replacements
\* than were saved (store_fs.rs, runner_dispatch.rs).
THEOREM AnswersStayOwn == Spec => []AnswersAreOwn
<1>1. AnswersInv => AnswersAreOwn
    <2> SUFFICES ASSUME AnswersInv PROVE AnswersAreOwn
        OBVIOUS
    <2>1. Mcp!ReplyIsOwn /\ Mcp!GivenUpForACause /\ Shells!OutputIsOwn /\ Shells!ShellsBounded
        BY McpHolds, ShellsHold, Zenon DEF AnswersInv
    <2>2. Runs!SavesAreOwn /\ Runs!ReplacementsWereSaved
        BY OwnRows, ReportsFit, Zenon DEF AnswersInv, ResearchInv
    <2> QED
        BY <2>1, <2>2, Zenon DEF AnswersAreOwn, Of
<1> QED
    BY <1>1, AnswersBegin, AnswersGoOn, PTL DEF Spec

StoredInv == ResearchInv /\ MemoryInv /\ MarkersInv

LEMMA StoredBegins == Init => StoredInv
BY ResearchBegins, MemoryBegins, MarkersBegin, Zenon DEF Init, StoredInv

LEMMA StoredGoesOn == StoredInv /\ [Next]_vars => StoredInv'
<1>1. ResearchInv /\ [Next]_vars => ResearchInv'
    BY RunsOrStay, ResearchStep, ResearchStays, Zenon
<1>2. MemoryInv /\ [Next]_vars => MemoryInv'
    BY MemoryOrStay, MemoryStep, MemoryStays, Zenon
<1>3. MarkersInv /\ [Next]_vars => MarkersInv'
    BY MarkersOrStay, MarkersStep, MarkersStay, Zenon
<1> QED
    BY <1>1, <1>2, <1>3, Zenon DEF StoredInv

\* What somebody was told is stored is in MEMORY.md, by the line that is read of it, through
\* promotions, folds, crashes and starts, unless it was deleted, evicted by the cap or cut
\* off a summary, and as long as no two writers overlapped; no rule is there twice, but for
\* first lines of longer texts; and a day is marked as digested only when its promotions are
\* written (store.rs, digest.rs).  A finding that was stored is in the
\* file until a gatekeeper removes it, as long as no write of that file ended half-way, and
\* no URL has two rows (store_fs.rs).  As long as no changes overlapped that no lock keeps
\* apart, the file of the marks lists the chats whose turn runs, each once, and whom a crash
\* cut off is told so, once (jsonl_store.rs, runtime.rs).
THEOREM StoredStays == Spec => []StoredIsKept
<1>1. StoredInv => StoredIsKept
    <2> SUFFICES ASSUME StoredInv PROVE StoredIsKept
        OBVIOUS
    <2>1. Memory!ToldIsKept /\ Memory!NoDuplicates /\ Memory!MarkMeansDone
        BY MemoryHolds, Zenon DEF StoredInv
    <2>2. Runs!FindingsKept /\ Runs!OneRowEach
        BY FilesHoldRows, Zenon DEF StoredInv, ResearchInv, FilesInv
    <2>3. Markers!MarkersHold
        BY MarkersHolds, Zenon DEF StoredInv
    <2> QED
        BY <2>1, <2>2, <2>3, Zenon DEF StoredIsKept, Of
<1> QED
    BY <1>1, StoredBegins, StoredGoesOn, PTL DEF Spec
=============================================================================
