------------------------------ MODULE TurnProofs ------------------------------
(***************************************************************************)
(* What a turn keeps of its session (SessionTurn), for any number of turns, *)
(* notes, aborts and restarts, and what the providers that answer it keep  *)
(* (ProviderFailover), for any keys, calls, bounds and restarts.           *)
(***************************************************************************)
EXTENDS SessionTurn, ProviderFailover, SequenceTheorems, FiniteSetTheorems,
        WellFoundedInduction, TLAPS

(* SessionTurn *)

IInv == TypeOK /\ StuckFree /\ DiskCount

\* Without abort: the flight of a turn and the Active state go together.
Alone ==
    /\ aborter = "idle" /\ spent.abort = 0
    /\ \A t \in Turn : turn[t].phase \in InFlight => state = "Active"
    /\ OneTurn

LEMMA Singleton == ASSUME NEW S, NEW x \in S PROVE <<x>> \in Seq(S) /\ Len(<<x>>) = 1
    OBVIOUS

LEMMA CarriedType == ASSUME NEW h \in Seq(Message) PROVE Carried(h) \in Message
<1>1. \A i \in DOMAIN h : h[i] \in Message
    BY ElementOfSeq, LenProperties
<1> QED
    BY <1>1 DEF Carried, Message

LEMMA SliceType ==
    ASSUME NEW h \in Seq(Message), NEW m \in Nat \ {0}, NEW n \in Int, n <= Len(h)
    PROVE  /\ SubSeq(h, m, n) \in Seq(Message)
           /\ Len(SubSeq(h, m, n)) = IF m <= n THEN n - m + 1 ELSE 0
<1>1. Len(h) \in Nat
    BY LenProperties
<1>2. \A i \in m..n : h[i] \in Message
    BY <1>1, ElementOfSeq
<1> QED
    BY <1>2, SubSeqProperties

LEMMA CompactionType ==
    ASSUME NEW h \in Seq(Message), NEW summary \in Message
    PROVE  /\ CompactWithSummary(h, summary) \in Seq(Message)
           /\ AutoCompacted(h) \subseteq Seq(Message)
           /\ Carried(Older(h)) \in Message
<1>1. Len(h) \in Nat /\ Keep \in Nat \ {0}
    BY LenProperties, SessionTurnAssumption
<1>2. Older(h) \in Seq(Message)
    BY <1>1, SliceType DEF Older
<1>3. ASSUME Len(h) > Keep PROVE CompactWithSummary(h, summary) \in Seq(Message)
    <2>1. SubSeq(h, Len(h) - Keep + 1, Len(h)) \in Seq(Message)
        BY <1>1, <1>3, SliceType
    <2> QED
        BY <2>1, <1>1, <1>3, ConcatProperties DEF CompactWithSummary
<1>4. ASSUME Len(h) > Keep, NEW cut \in (Len(h) - Keep)..Len(h)
      PROVE  <<Carried(SubSeq(h, 1, cut))>> \o SubSeq(h, cut + 1, Len(h)) \in Seq(Message)
    <2>1. SubSeq(h, 1, cut) \in Seq(Message) /\ SubSeq(h, cut + 1, Len(h)) \in Seq(Message)
        BY <1>1, <1>4, SliceType
    <2>2. <<Carried(SubSeq(h, 1, cut))>> \in Seq(Message)
        BY <2>1, CarriedType, Singleton
    <2> QED
        BY <2>1, <2>2, ConcatProperties
<1>5. CompactWithSummary(h, summary) \in Seq(Message)
    BY <1>1, <1>3 DEF CompactWithSummary
<1>6. AutoCompacted(h) \subseteq Seq(Message)
    <2>1. CASE Len(h) <= Keep
        BY <2>1 DEF AutoCompacted
    <2>2. CASE ~(Len(h) <= Keep)
        <3>1. AutoCompacted(h) = {<<Carried(SubSeq(h, 1, cut))>> \o SubSeq(h, cut + 1, Len(h)) :
                                     cut \in (Len(h) - Keep)..Len(h)}
            BY <2>2 DEF AutoCompacted
        <3>2. ASSUME NEW x \in AutoCompacted(h) PROVE x \in Seq(Message)
            <4>1. PICK cut \in (Len(h) - Keep)..Len(h) :
                          x = <<Carried(SubSeq(h, 1, cut))>> \o SubSeq(h, cut + 1, Len(h))
                BY <3>1, <3>2
            <4> QED
                BY <1>1, <1>4, <2>2, <4>1
        <3> QED
            BY <3>2
    <2> QED
        BY <2>1, <2>2
<1> QED
    BY <1>2, <1>5, <1>6, CarriedType

Prefix(a, b) == Len(a) <= Len(b) /\ \A i \in 1..Len(a) : b[i] = a[i]

LEMMA PrefixCarries ==
    ASSUME NEW a \in Seq(Message), NEW b \in Seq(Message), Prefix(a, b)
    PROVE  Carried(a) \subseteq Carried(b)
<1>1. Len(a) \in Nat /\ Len(b) \in Nat /\ DOMAIN a = 1..Len(a) /\ DOMAIN b = 1..Len(b)
    BY LenProperties
<1>2. ASSUME NEW i \in DOMAIN a PROVE i \in DOMAIN b /\ b[i] = a[i]
    BY <1>1 DEF Prefix
<1> QED
    BY <1>2 DEF Carried

\* The file after some of the new messages, or all of them, were appended.
LEMMA AppendedType ==
    ASSUME TypeOK, NEW h \in Seq(Message), NEW last \in persisted..Len(h), NEW end \in Ending
    PROVE  /\ Appended(h, last, end) \in File
           /\ Appended(h, last, end).end = IF disk.end = "line" THEN end ELSE "torn"
           /\ Len(Appended(h, last, end).msgs) = Len(disk.msgs) + (last - persisted)
           /\ \A i \in 1..(Len(disk.msgs) + (last - persisted)) :
                  Appended(h, last, end).msgs[i] =
                      IF i <= Len(disk.msgs) THEN disk.msgs[i] ELSE h[persisted + (i - Len(disk.msgs))]
           /\ Carried(disk.msgs) \subseteq Carried(Appended(h, last, end).msgs)
<1> DEFINE tail == SubSeq(h, persisted + 1, last)
           whole == disk.msgs \o tail
<1>1. /\ Len(h) \in Nat /\ persisted \in Nat /\ last \in Nat /\ last <= Len(h) /\ persisted <= last
      /\ disk.msgs \in Seq(Message) /\ Len(disk.msgs) \in Nat
    BY LenProperties DEF TypeOK, File
<1>2. tail \in Seq(Message) /\ Len(tail) = last - persisted
    BY <1>1, SliceType
<1>3. \A i \in 1..Len(tail) : tail[i] = h[persisted + i]
    BY <1>1, <1>2
<1>4. /\ Appended(h, last, end).msgs = whole
      /\ Appended(h, last, end).end = IF disk.end = "line" THEN end ELSE "torn"
      /\ whole \in Seq(Message) => Appended(h, last, end) \in File
    BY DEF Appended, TypeOK, File, Ending
<1> HIDE DEF tail
<1>5. /\ whole \in Seq(Message) /\ Len(whole) = Len(disk.msgs) + Len(tail)
      /\ \A i \in 1..Len(whole) : whole[i] = IF i <= Len(disk.msgs) THEN disk.msgs[i]
                                             ELSE tail[i - Len(disk.msgs)]
    <2>1. \A left, right \in Seq(Message) :
            /\ left \o right \in Seq(Message) /\ Len(left \o right) = Len(left) + Len(right)
            /\ \A i \in 1..(Len(left) + Len(right)) :
                 (left \o right)[i] = IF i <= Len(left) THEN left[i] ELSE right[i - Len(left)]
        BY ConcatProperties
    <2> QED
        BY <1>1, <1>2, <2>1
<1> HIDE DEF whole
<1>6. Prefix(disk.msgs, whole)
    BY <1>1, <1>2, <1>5 DEF Prefix
<1>7. Carried(disk.msgs) \subseteq Carried(whole)
    BY <1>1, <1>5, <1>6, PrefixCarries
<1>8. ASSUME NEW i \in 1..(Len(disk.msgs) + (last - persisted))
      PROVE  whole[i] = IF i <= Len(disk.msgs) THEN disk.msgs[i] ELSE h[persisted + (i - Len(disk.msgs))]
    <2>1. CASE i <= Len(disk.msgs)
        BY <1>1, <1>2, <1>5, <2>1
    <2>2. CASE ~(i <= Len(disk.msgs))
        <3>1. i - Len(disk.msgs) \in 1..Len(tail)
            BY <1>1, <1>2, <2>2
        <3> QED
            BY <1>1, <1>2, <1>3, <1>5, <2>2, <3>1
    <2> QED
        BY <2>1, <2>2
<1> QED
    BY <1>2, <1>4, <1>5, <1>7, <1>8

LEMMA RewrittenType ==
    ASSUME NEW h \in Seq(Message)
    PROVE  Rewritten(h) \in File /\ Rewritten(h).msgs = h /\ Rewritten(h).end = "line"
    BY DEF Rewritten, File, Ending

LEMMA SavedType ==
    ASSUME TypeOK, NEW h \in Seq(Message)
    PROVE  /\ Saved(h) \in File /\ Len(h) \in Nat
           /\ DiskCount => Len(h) <= Len(Saved(h).msgs)
           /\ DiskCount /\ ~(halved /\ CanAppend(h)) =>
                  Saved(h).end = "line" /\ Len(Saved(h).msgs) = Len(h)
<1>1. Len(h) \in Nat /\ persisted \in Nat /\ Len(disk.msgs) \in Nat
    BY LenProperties DEF TypeOK, File
<1>2. CASE CanAppend(h)
    <2>1. Len(h) \in persisted..Len(h) /\ "line" \in Ending /\ Saved(h) = Appended(h, Len(h), "line")
        BY <1>1, <1>2 DEF CanAppend, Ending, Saved
    <2>2. /\ Saved(h) \in File
          /\ Saved(h).end = IF disk.end = "line" THEN "line" ELSE "torn"
          /\ Len(Saved(h).msgs) = Len(disk.msgs) + (Len(h) - persisted)
        BY <2>1, AppendedType
    <2> QED
        BY <1>1, <1>2, <2>2 DEF DiskCount
<1>3. CASE ~CanAppend(h)
    <2>1. Saved(h) = Rewritten(h)
        BY <1>3 DEF Saved
    <2> QED
        BY <1>1, <2>1, RewrittenType
<1> QED
    BY <1>2, <1>3

LEMMA InterruptedType ==
    ASSUME TypeOK, NEW h \in Seq(Message), CanAppend(h), NEW d \in Interrupted(h)
    PROVE  /\ d \in File /\ Len(disk.msgs) <= Len(d.msgs)
           /\ Carried(disk.msgs) \subseteq Carried(d.msgs)
<1>1. Len(h) \in Nat /\ persisted \in Nat /\ Len(disk.msgs) \in Nat /\ persisted < Len(h)
    BY LenProperties DEF TypeOK, File, CanAppend
<1>2. \E last \in persisted..Len(h), end \in Ending : d = Appended(h, last, end)
    BY <1>1 DEF Interrupted, Ending
<1>3. PICK last \in persisted..Len(h), end \in Ending : d = Appended(h, last, end)
    BY <1>2
<1>4. /\ d \in File /\ Len(d.msgs) = Len(disk.msgs) + (last - persisted)
      /\ Carried(disk.msgs) \subseteq Carried(d.msgs)
    BY <1>3, AppendedType
<1>5. last - persisted \in Nat
    BY <1>1
<1> QED
    BY <1>1, <1>4, <1>5

LEMMA InitInv == Init => IInv
<1> SUFFICES ASSUME Init PROVE IInv
    OBVIOUS
<1>1. <<>> \in Seq(Message) /\ Len(<<>>) = 0 /\ {} \in Message
    BY EmptySeq DEF Message
<1>2. TypeOK
    <2>1. turn \in [Turn -> TurnState]
        BY <1>1, SessionTurnAssumption DEF Init, Phase, TurnState
    <2>2. disk \in File
        BY <1>1 DEF Init, File, Ending
    <2> QED
        BY <1>1, <2>1, <2>2 DEF Init, TypeOK
<1> QED
    BY <1>1, <1>2 DEF Init, IInv, StuckFree, DiskCount


\* A step of a turn that only moves its phase, and what it may touch besides.
LEMMA BecomeType ==
    ASSUME TypeOK, NEW t \in Turn, NEW phase \in Phase, Become(t, phase)
    PROVE  turn' \in [Turn -> TurnState]
    BY DEF TypeOK, Become, TurnState

LEMMA UpdateType ==
    ASSUME NEW f \in [Turn -> TurnState], NEW t \in Turn, NEW r \in TurnState
    PROVE  [f EXCEPT ![t] = r] \in [Turn -> TurnState]
    OBVIOUS

LEMMA TypeStep == ASSUME TypeOK, [Next]_vars PROVE TypeOK'
<1> USE DEF TypeOK
<1> USE DEF memory, store, tokens, recovery
<1>1. ASSUME NEW t \in Turn, Dispatch(t) PROVE TypeOK'
    <2>1. turn' \in [Turn -> TurnState]
        BY <1>1, BecomeType DEF Dispatch, Phase
    <2> QED
        BY <1>1, <2>1 DEF Dispatch
<1>2. ASSUME NEW t \in Turn, Setup(t) PROVE TypeOK'
    <2>1. Prompt(t) \in Message
        BY DEF Prompt, Message, Source
    <2>2. history' \in Seq(Message)
        BY <1>2, <2>1, ConcatProperties DEF Setup
    <2>3. Carried(Older(history')) \in Message /\ {} \in Message
        BY <2>2, CompactionType DEF Message
    <2>4. turn' \in [Turn -> TurnState]
        <3>1. PICK compact \in BOOLEAN :
                  turn' = [turn EXCEPT ![t].phase = "gathered", ![t].compact = compact,
                                       ![t].gathered = IF compact THEN Carried(Older(history'))
                                                                  ELSE {}]
            BY <1>2 DEF Setup
        <3> DEFINE g == IF compact THEN Carried(Older(history')) ELSE {}
                   r == [turn[t] EXCEPT !.phase = "gathered", !.compact = compact,
                                        !.gathered = g]
        <3>2. g \in Message
            BY <2>3
        <3>3. turn' = [turn EXCEPT ![t] = r]
            BY <3>1
        <3> HIDE DEF g
        <3>4. turn[t] \in TurnState
            OBVIOUS
        <3>5. r \in TurnState
            BY <3>2, <3>4 DEF TurnState, Phase
        <3> HIDE DEF r
        <3> QED
            BY <3>3, <3>5, UpdateType
    <2>5. spent' \in [Event -> Nat]
        BY <1>2 DEF Setup, Spend, Event
    <2> QED
        BY <1>2, <2>2, <2>4, <2>5 DEF Setup, File
<1>3. ASSUME NEW t \in Turn, Prepare(t) PROVE TypeOK'
    <2>1. turn[t].gathered \in Message
        BY DEF TurnState
    <2>2. history' \in Seq(Message)
        BY <1>3, <2>1, CompactionType DEF Prepare
    <2>3. turn' \in [Turn -> TurnState]
        <3> DEFINE r == [turn[t] EXCEPT !.phase = "prepared", !.private = history']
        <3>1. turn' = [turn EXCEPT ![t] = r]
            BY <1>3 DEF Prepare
        <3>2. turn[t] \in TurnState
            OBVIOUS
        <3>3. r \in TurnState
            BY <2>2, <3>2 DEF TurnState, Phase
        <3> HIDE DEF r
        <3> QED
            BY <3>1, <3>3, UpdateType
    <2> QED
        BY <1>3, <2>2, <2>3 DEF Prepare
<1>4. ASSUME NEW t \in Turn, Refuse(t) \/ MarkIdleAfterReject(t) \/ UnmarkAfterReject(t) \/ LoopEnd(t)
      PROVE  TypeOK'
    <2>1. turn' \in [Turn -> TurnState]
        BY <1>4, BecomeType DEF Refuse, MarkIdleAfterReject, UnmarkAfterReject, LoopEnd, Phase
    <2> QED
        BY <1>4, <2>1 DEF Refuse, MarkIdleAfterReject, UnmarkAfterReject, LoopEnd
<1>5. ASSUME NEW t \in Turn, Launch(t) PROVE TypeOK'
    <2>1. turn' \in [Turn -> TurnState]
        <3> DEFINE r == [turn[t] EXCEPT !.phase = "looping", !.token = cancels]
        <3>1. turn' = [turn EXCEPT ![t] = r]
            BY <1>5 DEF Launch
        <3>2. turn[t] \in TurnState
            OBVIOUS
        <3>3. r \in TurnState
            BY <3>2 DEF TurnState, Phase
        <3> HIDE DEF r
        <3> QED
            BY <3>1, <3>3, UpdateType
    <2> QED
        BY <1>5, <2>1 DEF Launch
<1>6. ASSUME NEW t \in Turn, LoopReply(t) PROVE TypeOK'
    <2>1. Reply(t) \in Message
        BY DEF Reply, Message, Source
    <2>2. turn[t].private \in Seq(Message) /\ turn[t].replies \in 0..MaxReplies /\ MaxReplies \in Nat
        BY SessionTurnAssumption DEF TurnState
    <2>3. Append(turn[t].private, Reply(t)) \in Seq(Message) /\ turn[t].replies + 1 \in 0..MaxReplies
        BY <1>6, <2>1, <2>2 DEF LoopReply
    <2>4. turn' \in [Turn -> TurnState]
        <3> DEFINE r == [turn[t] EXCEPT !.private = Append(@, Reply(t)), !.replies = @ + 1]
        <3>1. turn[t] \in TurnState /\ r \in TurnState
            BY <2>3 DEF TurnState
        <3>2. turn' = [turn EXCEPT ![t] = r]
            BY <1>6 DEF LoopReply
        <3> QED
            BY <3>1, <3>2, UpdateType
    <2> QED
        BY <1>6, <2>4 DEF LoopReply
<1>7. ASSUME NEW t \in Turn, LoopCycle(t) PROVE TypeOK'
    <2>1. Carried(turn[t].private) \in Message /\ <<>> \in Seq(Message)
        BY CarriedType, EmptySeq DEF TurnState
    <2>2. archived' \in Message
        BY <1>7, <2>1 DEF LoopCycle, Message
    <2>3. turn' \in [Turn -> TurnState]
        BY <1>7, <2>1 DEF LoopCycle, TurnState
    <2>4. spent' \in [Event -> Nat]
        BY <1>7 DEF LoopCycle, Spend, Event
    <2> QED
        BY <1>7, <2>2, <2>3, <2>4 DEF LoopCycle
<1>8. ASSUME NEW t \in Turn, Persist(t) PROVE TypeOK'
    <2>1. turn[t].private \in Seq(Message)
        BY DEF TurnState
    <2>2. Saved(turn[t].private) \in File /\ Len(turn[t].private) \in Nat
        BY <2>1, SavedType
    <2>3. turn' \in [Turn -> TurnState]
        BY <1>8, BecomeType DEF Persist, Phase
    <2>4. disk' \in File /\ halved' \in BOOLEAN
        BY <1>8, <2>1, <2>2, InterruptedType DEF Persist
    <2> QED
        BY <1>8, <2>1, <2>2, <2>3, <2>4 DEF Persist
<1>9. ASSUME AbortCancel \/ AbortIdle PROVE TypeOK'
    <2>1. spent' \in [Event -> Nat]
        BY <1>9 DEF AbortCancel, AbortIdle, Spend, Event
    <2> QED
        BY <1>9, <2>1 DEF AbortCancel, AbortIdle
<1>10. ASSUME NEW n \in Note, QueueMessage(n) PROVE TypeOK'
    <2>1. {<<n, "note">>} \in Message
        BY DEF Message, Source
    <2> QED
        BY <1>10, <2>1 DEF QueueMessage
<1>11. ASSUME CompactCheck \/ CompactSession PROVE TypeOK'
    <2>1. spent' \in [Event -> Nat]
        BY <1>11 DEF CompactCheck, CompactSession, Spend, Event
    <2>2. history' \in Seq(Message)
        <3>1. {} \in Message
            BY DEF Message
        <3> QED
            BY <1>11, <3>1, CompactionType DEF CompactCheck, CompactSession
    <2> QED
        BY <1>11, <2>1, <2>2 DEF CompactCheck, CompactSession
<1>12. ASSUME Age PROVE TypeOK'
    BY <1>12 DEF Age, File
<1>13. ASSUME Restart PROVE TypeOK'
    <2>1. spent' \in [Event -> Nat]
        BY <1>13 DEF Restart, Spend, Event
    <2>2. disk' \in File /\ halved' \in BOOLEAN
        <3>1. \A t \in Turn : turn[t].private \in Seq(Message)
            BY DEF TurnState
        <3> QED
            BY <1>13, <3>1, SavedType, InterruptedType DEF Restart
    <2>3. disk'.msgs \in Seq(Message) /\ <<>> \in Seq(Message)
        BY <2>2, EmptySeq DEF File
    <2>4. history' \in Seq(Message)
        BY <1>13, <2>3 DEF Restart
    <2>5. persisted' \in Nat
        BY <1>13, <2>4, LenProperties DEF Restart
    <2>6. turn' \in [Turn -> TurnState]
        <3>1. ASSUME NEW t \in Turn PROVE turn'[t] \in TurnState
            <4>1. turn[t] \in TurnState /\ [turn[t] EXCEPT !.phase = "dead"] \in TurnState
                BY DEF TurnState, Phase
            <4> QED
                BY <1>13, <4>1 DEF Restart
        <3>2. DOMAIN turn' = Turn /\ turn' = [t \in Turn |-> turn'[t]]
            BY <1>13 DEF Restart
        <3> QED
            BY <3>1, <3>2
    <2>7. updated' \in {"recent", "old"} /\ state' \in {"Active", "Idle", "Sleeping", "Absent"}
        BY <1>13, <2>2 DEF Restart, File
    <2>8. /\ owed' \in BOOLEAN /\ notified' \in BOOLEAN /\ marked' = FALSE
          /\ cancels' = None /\ cancelled' = {} /\ targets' = {}
          /\ aborter' = "idle" /\ compactor' = "idle" /\ UNCHANGED <<archived, queued>>
        BY <1>13 DEF Restart
    <2> QED
        BY <2>1, <2>2, <2>4, <2>5, <2>6, <2>7, <2>8
<1>14. ASSUME UNCHANGED vars PROVE TypeOK'
    BY <1>14 DEF vars
<1> QED
    BY <1>1, <1>2, <1>3, <1>4, <1>5, <1>6, <1>7, <1>8, <1>9, <1>10, <1>11, <1>12, <1>13,
       <1>14 DEF Next, TurnStep


LEMMA StuckFreeStep == ASSUME TypeOK, StuckFree, [Next]_vars PROVE StuckFree'
<1> USE DEF memory, store, tokens, recovery, InFlight
<1>1. turn \in [Turn -> TurnState] /\ \A t \in Turn : turn[t] = [turn[t] EXCEPT !.phase = @]
    BY DEF TypeOK, TurnState
<1>2. ASSUME NEW t \in Turn, NEW phase \in Phase, Become(t, phase)
      PROVE  /\ turn'[t].phase = phase
             /\ \A u \in Turn \ {t} : turn'[u] = turn[u]
    BY <1>1, <1>2 DEF Become, TurnState
<1>3. ASSUME NEW t \in Turn, Dispatch(t) PROVE StuckFree'
    <2>1. CASE state = "Active"
        BY <1>2, <1>3, <2>1 DEF Dispatch, StuckFree, Phase
    <2>2. CASE state # "Active"
        BY <1>2, <1>3, <2>2 DEF Dispatch, StuckFree, Phase
    <2> QED
        BY <2>1, <2>2
<1>4. ASSUME NEW t \in Turn, Setup(t) \/ Prepare(t) \/ Launch(t) \/ LoopReply(t) \/ LoopCycle(t)
      PROVE  StuckFree'
    <2>1. CASE Setup(t)
        BY <1>1, <2>1 DEF Setup, StuckFree, TurnState
    <2>2. CASE Prepare(t)
        BY <1>1, <2>2 DEF Prepare, StuckFree, TurnState
    <2>3. CASE Launch(t)
        BY <1>1, <2>3 DEF Launch, StuckFree, TurnState
    <2>4. CASE LoopReply(t)
        BY <1>1, <2>4 DEF LoopReply, StuckFree, TurnState
    <2>5. CASE LoopCycle(t)
        BY <1>1, <2>5 DEF LoopCycle, StuckFree, TurnState
    <2> QED
        BY <1>4, <2>1, <2>2, <2>3, <2>4, <2>5
<1>5. ASSUME NEW t \in Turn, Refuse(t) \/ LoopEnd(t) PROVE StuckFree'
    <2>1. turn'[t].phase \in InFlight
        BY <1>2, <1>5 DEF Refuse, LoopEnd, Phase
    <2> QED
        BY <2>1 DEF StuckFree
<1>6. ASSUME NEW t \in Turn, UnmarkAfterReject(t) PROVE StuckFree'
    BY <1>2, <1>6 DEF UnmarkAfterReject, StuckFree, Phase
<1>7. ASSUME \/ \E t \in Turn : MarkIdleAfterReject(t) \/ Persist(t)
             \/ AbortIdle \/ Restart
      PROVE  StuckFree'
    BY <1>7 DEF MarkIdleAfterReject, Persist, AbortIdle, Restart, StuckFree
<1>8. ASSUME UNCHANGED <<state, turn>> PROVE StuckFree'
    BY <1>8 DEF StuckFree
<1>9. ASSUME \/ AbortCancel \/ CompactCheck \/ CompactSession \/ Age \/ UNCHANGED vars
             \/ \E n \in Note : QueueMessage(n)
      PROVE  StuckFree'
    BY <1>8, <1>9 DEF AbortCancel, CompactCheck, CompactSession, Age, QueueMessage, vars
<1> QED
    BY <1>3, <1>4, <1>5, <1>6, <1>7, <1>9 DEF Next, TurnStep

LEMMA DiskCountStep == ASSUME TypeOK, DiskCount, [Next]_vars PROVE DiskCount'
<1> USE DEF memory, store, tokens, recovery
<1>1. ASSUME NEW t \in Turn, Persist(t) PROVE DiskCount'
    <2>1. turn[t].private \in Seq(Message)
        BY DEF TypeOK, TurnState
    <2>2. /\ Len(turn[t].private) <= Len(Saved(turn[t].private).msgs)
          /\ ~(halved /\ CanAppend(turn[t].private)) =>
                 /\ Saved(turn[t].private).end = "line"
                 /\ Len(Saved(turn[t].private).msgs) = Len(turn[t].private)
        BY <2>1, SavedType
    <2>3. CASE disk' = Saved(turn[t].private) /\ persisted' = Len(turn[t].private)
               /\ halved' = (halved /\ CanAppend(turn[t].private))
        BY <2>2, <2>3 DEF DiskCount
    <2>4. CASE UNCHANGED <<disk, halved, persisted>>
        BY <2>4 DEF DiskCount
    <2>5. CASE CanAppend(turn[t].private) /\ disk' \in Interrupted(turn[t].private)
               /\ halved' = TRUE /\ persisted' = persisted
        <3>1. Len(disk.msgs) <= Len(disk'.msgs) /\ disk'.msgs \in Seq(Message)
            BY <2>1, <2>5, InterruptedType DEF File
        <3>2. Len(disk.msgs) \in Nat /\ Len(disk'.msgs) \in Nat /\ persisted \in Nat
            BY <3>1, LenProperties DEF TypeOK, File
        <3> QED
            BY <2>5, <3>1, <3>2 DEF DiskCount
    <2> QED
        BY <1>1, <2>3, <2>4, <2>5 DEF Persist
<1>2. ASSUME Restart PROVE DiskCount'
    <2>1. disk' \in File /\ persisted' \in Nat
        BY <1>2, TypeStep DEF Next, TypeOK
    <2>2. Len(<<>>) = 0 /\ disk'.msgs \in Seq(Message) /\ Len(disk'.msgs) \in Nat
        BY <2>1, EmptySeq, LenProperties DEF File
    <2>3. /\ halved' = (disk'.end # "line") /\ persisted' = Len(history')
          /\ history' = IF disk'.end = "torn" THEN <<>> ELSE disk'.msgs
        BY <1>2 DEF Restart
    <2>4. persisted' <= Len(disk'.msgs)
        BY <2>2, <2>3
    <2>5. CASE disk'.end = "line"
        BY <2>2, <2>3, <2>4, <2>5 DEF DiskCount
    <2>6. CASE disk'.end # "line"
        <3>1. halved'
            BY <2>3, <2>6
        <3> QED
            BY <2>4, <3>1 DEF DiskCount
    <2> QED
        BY <2>5, <2>6
<1>3. ASSUME Age PROVE DiskCount'
    BY <1>3 DEF Age, DiskCount, TypeOK, File
<1>4. ASSUME UNCHANGED <<disk, halved, persisted>> PROVE DiskCount'
    BY <1>4 DEF DiskCount
<1> QED
    BY <1>1, <1>2, <1>3, <1>4 DEF Next, TurnStep, Dispatch, Setup, Prepare, Refuse,
       MarkIdleAfterReject, UnmarkAfterReject, Launch, LoopReply, LoopCycle, LoopEnd,
       AbortCancel, AbortIdle, QueueMessage, CompactCheck, CompactSession, vars

LEMMA NextInv == IInv /\ [Next]_vars => IInv'
    BY TypeStep, StuckFreeStep, DiskCountStep DEF IInv

\* Every variable keeps its type, for all turns and notes.
THEOREM TypeCorrect == Spec => []TypeOK
<1>1. IInv => TypeOK
    BY DEF IInv
<1> QED
    BY <1>1, InitInv, NextInv, PTL DEF Spec

\* However dispatches, rejections, aborts, compactions and restarts interleave, a
\* session is Active only while some turn is on its way to set it Idle.
THEOREM NeverStuckActive == Spec => []StuckFree
<1>1. IInv => StuckFree
    BY DEF IInv
<1> QED
    BY <1>1, InitInv, NextInv, PTL DEF Spec

\* Whatever the saves, compactions, overlapping turns and restarts are,
\* persisted_msg_count is at most what the file holds, and exactly that as long as no
\* append stopped half-way since the file was last rewritten or loaded.
THEOREM CountMatchesFile == Spec => []DiskCount
<1>1. IInv => DiskCount
    BY DEF IInv
<1> QED
    BY <1>1, InitInv, NextInv, PTL DEF Spec

LEMMA AbortsSpent ==
    ASSUME TypeOK, [Next]_vars, ~AbortCancel PROVE spent'.abort = spent.abort
<1>1. spent \in [Event -> Nat]
    BY DEF TypeOK
<1>2. UNCHANGED spent \/ Spend("shrink") \/ Spend("crash")
    BY DEF Next, TurnStep, Dispatch, Setup, Prepare, Refuse, MarkIdleAfterReject,
       UnmarkAfterReject, Launch, LoopReply, LoopCycle, LoopEnd, Persist, AbortIdle,
       QueueMessage, CompactCheck, CompactSession, Age, Restart, vars
<1> QED
    BY <1>1, <1>2 DEF Spend, Event

LEMMA AloneStep ==
    ASSUME TypeOK, Alone, spent'.abort = 0, [Next]_vars
    PROVE  Alone'
<1> USE DEF memory, store, tokens, recovery
<1>1. turn \in [Turn -> TurnState] /\ spent \in [Event -> Nat]
    BY DEF TypeOK
<1>2. aborter = "idle" /\ spent.abort = 0
    BY DEF Alone
<1>3. ASSUME NEW event \in {"shrink", "crash"}, Spend(event) PROVE spent'.abort = 0
    BY <1>1, <1>2, <1>3 DEF Spend, Event
<1>4. ~AbortCancel /\ ~AbortIdle
    BY <1>1, <1>2 DEF AbortCancel, AbortIdle, Spend, Event
<1>5. ASSUME NEW t \in Turn,
             \A u \in Turn \ {t} : turn'[u] = turn[u],
             turn'[t].phase \in InFlight => state' = "Active",
             turn[t].phase \in InFlight \/ state # "Active" \/ turn'[t].phase \notin InFlight,
             state' = state \/ turn[t].phase \in InFlight \/ state # "Active",
             aborter' = "idle", spent'.abort = 0
      PROVE  Alone'
    BY <1>5 DEF Alone, OneTurn
<1>6. ASSUME NEW t \in Turn, Dispatch(t) PROVE Alone'
    <2>1. /\ \A u \in Turn \ {t} : turn'[u] = turn[u]
          /\ turn'[t].phase = IF state = "Active" THEN "busy" ELSE "claimed"
        BY <1>1, <1>6 DEF Dispatch, Become, TurnState
    <2>2. aborter' = "idle" /\ spent'.abort = 0
        BY <1>2, <1>6 DEF Dispatch
    <2>3. CASE state = "Active"
        <3>1. state' = state
            BY <1>6, <2>3 DEF Dispatch
        <3> QED
            BY <2>1, <2>2, <2>3, <3>1, <1>5 DEF InFlight
    <2>4. CASE state # "Active"
        <3>1. state' = "Active"
            BY <1>6, <2>4 DEF Dispatch
        <3> QED
            BY <2>1, <2>2, <2>4, <3>1, <1>5
    <2> QED
        BY <2>3, <2>4
<1>7. ASSUME NEW t \in Turn, TurnStep(t) PROVE Alone'
    <2>1. /\ \A u \in Turn \ {t} : turn'[u] = turn[u]
          /\ turn[t].phase \in InFlight \/ (turn[t].phase = "unmarking" /\ turn'[t].phase \notin InFlight)
        BY <1>1, <1>7 DEF TurnStep, Setup, Prepare, Refuse, MarkIdleAfterReject,
           UnmarkAfterReject, Launch, LoopReply, LoopCycle, LoopEnd, Persist, Become,
           TurnState, InFlight
    <2>2. aborter' = "idle" /\ spent'.abort = 0
        <3>1. aborter' = aborter
            BY <1>7 DEF TurnStep, Setup, Prepare, Refuse, MarkIdleAfterReject,
               UnmarkAfterReject, Launch, LoopReply, LoopCycle, LoopEnd, Persist
        <3>2. UNCHANGED spent \/ Spend("shrink")
            BY <1>7 DEF TurnStep, Setup, Prepare, Refuse, MarkIdleAfterReject,
               UnmarkAfterReject, Launch, LoopReply, LoopCycle, LoopEnd, Persist
        <3> QED
            BY <1>2, <1>3, <3>1, <3>2
    <2>3. turn'[t].phase \in InFlight => state' = "Active"
        <3>1. CASE MarkIdleAfterReject(t) \/ UnmarkAfterReject(t) \/ Persist(t)
            BY <1>1, <3>1 DEF MarkIdleAfterReject, UnmarkAfterReject, Persist, Become,
               TurnState, InFlight
        <3>2. CASE Setup(t)
            BY <3>2 DEF Setup
        <3>3. CASE Prepare(t) \/ Refuse(t) \/ Launch(t) \/ LoopReply(t) \/ LoopCycle(t) \/ LoopEnd(t)
            <4>1. turn[t].phase \in InFlight /\ state' = state
                BY <3>3 DEF Prepare, Refuse, Launch, LoopReply, LoopCycle, LoopEnd, InFlight
            <4> QED
                BY <4>1 DEF Alone
        <3> QED
            BY <1>7, <3>1, <3>2, <3>3 DEF TurnStep
    <2>4. state' = state \/ turn[t].phase \in InFlight
        BY <1>7 DEF TurnStep, Setup, Prepare, Refuse, MarkIdleAfterReject,
           UnmarkAfterReject, Launch, LoopReply, LoopCycle, LoopEnd, Persist, InFlight
    <2> QED
        BY <1>5, <2>1, <2>2, <2>3, <2>4
<1>8. ASSUME Restart PROVE Alone'
    <2>1. \A t \in Turn : turn'[t].phase \notin InFlight
        BY <1>1, <1>8 DEF Restart, InFlight, TurnState
    <2>2. aborter' = "idle" /\ spent'.abort = 0
        BY <1>3, <1>8 DEF Restart
    <2> QED
        BY <2>1, <2>2 DEF Alone, OneTurn
<1>9. ASSUME UNCHANGED <<state, turn, aborter>>, UNCHANGED spent \/ Spend("shrink") PROVE Alone'
    <2>1. spent'.abort = 0
        BY <1>2, <1>3, <1>9
    <2> QED
        BY <1>9, <2>1 DEF Alone, OneTurn
<1>10. ASSUME \/ CompactCheck \/ CompactSession \/ Age \/ UNCHANGED vars
              \/ \E n \in Note : QueueMessage(n)
       PROVE  Alone'
    BY <1>9, <1>10 DEF CompactCheck, CompactSession, Age, QueueMessage, vars
<1> QED
    BY <1>4, <1>6, <1>7, <1>8, <1>10 DEF Next

LEMMA AloneInit == Init => Alone
    BY DEF Init, Alone, OneTurn, Event, InFlight

LEMMA AloneNext == ASSUME MaxAborts = 0 PROVE IInv /\ Alone /\ [Next]_vars => Alone'
<1> SUFFICES ASSUME TypeOK, Alone, [Next]_vars PROVE Alone'
    BY DEF IInv
<1>1. ~AbortCancel
    BY DEF AbortCancel, Spend, Limit, Alone
<1> QED
    BY <1>1, AloneStep, AbortsSpent DEF Alone

\* As long as nobody calls abort, a session has at most one turn in flight, for any
\* number of concurrent send_prompt, queue_message and /compact calls and restarts.
THEOREM WithoutAbortOneTurn == MaxAborts = 0 => (Spec => []OneTurn)
<1> SUFFICES ASSUME MaxAborts = 0 PROVE Spec => []OneTurn
    OBVIOUS
<1>1. Alone => OneTurn
    BY DEF Alone
<1> QED
    BY <1>1, AloneInit, AloneNext, InitInv, NextInv, PTL DEF Spec

-----------------------------------------------------------------------------
(* Saved turns.  With no abort and no compaction the counted messages of   *)
(* the history, and of the copy that a turn works on, are in the file, and *)
(* the file is their beginning unless an append stopped half-way.          *)

Working == {"prepared", "looping", "ended"}

Covers(h, file, count, half, turns) ==
    /\ count <= Len(h)
    /\ \A i \in 1..count : h[i] \subseteq Carried(file.msgs)
    /\ \A t \in Turn : turns[t].phase = "saved" => Prompt(t) \subseteq Carried(h)
    /\ ~half => Prefix(file.msgs, h)

Kept ==
    /\ archived = {} /\ compactor = "idle" /\ spent.shrink = 0
    /\ \A t \in Turn : ~turn[t].compact /\ turn[t].gathered = {}
    /\ state # "Absent" => Covers(history, disk, persisted, halved, turn)
    /\ \A t \in Turn : turn[t].phase = "gathered" => Prompt(t) \subseteq Carried(history)
    /\ \A t \in Turn : turn[t].phase \in Working =>
           /\ Covers(turn[t].private, disk, persisted, halved, turn)
           /\ Prompt(t) \subseteq Carried(turn[t].private)
    /\ \A t \in Turn : turn[t].phase = "saved" => Prompt(t) \subseteq Carried(disk.msgs)

LEMMA AppendCarries ==
    ASSUME NEW h \in Seq(Message), NEW m \in Message
    PROVE  /\ Append(h, m) \in Seq(Message) /\ Prefix(h, Append(h, m))
           /\ Carried(h) \subseteq Carried(Append(h, m)) /\ m \subseteq Carried(Append(h, m))
<1>1. /\ Len(h) \in Nat /\ Append(h, m) \in Seq(Message) /\ Len(Append(h, m)) = Len(h) + 1
      /\ \A i \in 1..Len(h) : Append(h, m)[i] = h[i]
      /\ Append(h, m)[Len(h) + 1] = m
    BY AppendProperties, LenProperties
<1>2. Prefix(h, Append(h, m))
    BY <1>1 DEF Prefix
<1>3. Len(h) + 1 \in DOMAIN Append(h, m)
    BY <1>1, LenProperties
<1>4. m \subseteq Carried(Append(h, m))
    BY <1>1, <1>3 DEF Carried
<1> QED
    BY <1>1, <1>2, <1>4, PrefixCarries

LEMMA PrefixTransitive ==
    ASSUME NEW a \in Seq(Message), NEW b \in Seq(Message), NEW c \in Seq(Message),
           Prefix(a, b), Prefix(b, c)
    PROVE  Prefix(a, c)
<1>1. Len(a) \in Nat /\ Len(b) \in Nat /\ Len(c) \in Nat
    BY LenProperties
<1> QED
    BY <1>1 DEF Prefix

LEMMA PrefixOfItself == ASSUME NEW h \in Seq(Message) PROVE Prefix(h, h)
<1>1. Len(h) \in Nat
    BY LenProperties
<1> QED
    BY <1>1 DEF Prefix

\* A longer history covers what a shorter one did.
LEMMA CoversMore ==
    ASSUME TypeOK, NEW h \in Seq(Message), NEW m \in Message,
           Covers(h, disk, persisted, halved, turn)
    PROVE  Covers(Append(h, m), disk, persisted, halved, turn)
<1>1. /\ Append(h, m) \in Seq(Message) /\ Prefix(h, Append(h, m))
      /\ Carried(h) \subseteq Carried(Append(h, m))
    BY AppendCarries
<1>2. /\ Len(h) \in Nat /\ persisted \in Nat /\ disk.msgs \in Seq(Message)
      /\ Len(Append(h, m)) = Len(h) + 1
    BY AppendProperties, LenProperties DEF TypeOK, File
<1>3. \A i \in 1..persisted : i \in 1..Len(h) /\ Append(h, m)[i] = h[i]
    BY <1>1, <1>2 DEF Covers, Prefix
<1>4. ~halved => Prefix(disk.msgs, Append(h, m))
    BY <1>1, <1>2, PrefixTransitive DEF Covers
<1> QED
    BY <1>1, <1>2, <1>3, <1>4 DEF Covers

\* A save leaves in the file everything of the copy and of the file before; it leaves
\* the copy itself unless it appends to what an append had left half-done.
LEMMA SavedIsWhole ==
    ASSUME TypeOK, DiskCount, NEW h \in Seq(Message), Covers(h, disk, persisted, halved, turn)
    PROVE  /\ Carried(h) \subseteq Carried(Saved(h).msgs)
           /\ ~(halved /\ CanAppend(h)) => Saved(h).msgs = h /\ Saved(h).end = "line"
<1>1. /\ Len(h) \in Nat /\ disk.msgs \in Seq(Message) /\ Len(disk.msgs) \in Nat
      /\ persisted \in Nat /\ persisted <= Len(disk.msgs) /\ DOMAIN h = 1..Len(h)
    BY LenProperties DEF TypeOK, File, DiskCount
<1>2. CASE CanAppend(h)
    <2> DEFINE whole == Saved(h).msgs
    <2>1. Len(h) \in persisted..Len(h) /\ "line" \in Ending /\ Saved(h) = Appended(h, Len(h), "line")
        BY <1>1, <1>2 DEF CanAppend, Ending, Saved
    <2>2. /\ Saved(h) \in File
          /\ Saved(h).end = IF disk.end = "line" THEN "line" ELSE "torn"
          /\ Len(whole) = Len(disk.msgs) + (Len(h) - persisted)
          /\ \A i \in 1..(Len(disk.msgs) + (Len(h) - persisted)) :
                 whole[i] = IF i <= Len(disk.msgs) THEN disk.msgs[i]
                                                   ELSE h[persisted + (i - Len(disk.msgs))]
          /\ Carried(disk.msgs) \subseteq Carried(whole)
        BY <2>1, AppendedType
    <2>3. whole \in Seq(Message) /\ DOMAIN whole = 1..Len(whole)
        BY <2>2, LenProperties DEF File
    <2> HIDE DEF whole
    <2>4. ASSUME NEW i \in 1..Len(h) PROVE h[i] \subseteq Carried(whole)
        <3>1. CASE i <= persisted
            BY <1>1, <2>2, <3>1 DEF Covers
        <3>2. CASE ~(i <= persisted)
            <4> DEFINE j == Len(disk.msgs) + (i - persisted)
            <4>1. j \in 1..(Len(disk.msgs) + (Len(h) - persisted)) /\ ~(j <= Len(disk.msgs))
                  /\ persisted + (j - Len(disk.msgs)) = i
                BY <1>1, <3>2
            <4> HIDE DEF j
            <4>2. j \in DOMAIN whole /\ whole[j] = h[i]
                BY <2>2, <2>3, <4>1
            <4> QED
                BY <4>2 DEF Carried
        <3> QED
            BY <3>1, <3>2
    <2>5. Carried(h) \subseteq Carried(whole)
        BY <1>1, <2>4 DEF Carried
    <2>6. ASSUME ~halved PROVE whole = h /\ Saved(h).end = "line"
        <3>1. disk.end = "line" /\ Len(disk.msgs) = persisted /\ Prefix(disk.msgs, h)
            BY <2>6 DEF DiskCount, Covers
        <3>2. Len(whole) = Len(h)
            BY <1>1, <2>2, <3>1
        <3>3. ASSUME NEW i \in 1..Len(h) PROVE whole[i] = h[i]
            <4>1. CASE i <= persisted
                BY <1>1, <2>2, <3>1, <4>1 DEF Prefix
            <4>2. CASE ~(i <= persisted)
                <5>1. persisted + (i - Len(disk.msgs)) = i
                    BY <1>1, <3>1
                <5> QED
                    BY <1>1, <2>2, <3>1, <3>2, <4>2, <5>1
            <4> QED
                BY <4>1, <4>2
        <3> QED
            BY <2>2, <2>3, <3>1, <3>2, <3>3, SeqEqual
    <2> QED
        BY <1>2, <2>5, <2>6 DEF whole
<1>3. CASE ~CanAppend(h)
    BY <1>3, RewrittenType DEF Saved
<1> QED
    BY <1>2, <1>3

LEMMA KeptStep ==
    ASSUME TypeOK, DiskCount, Alone, Alone', Kept, MaxAborts = 0, MaxShrinks = 0, [Next]_vars
    PROVE  Kept'
<1> USE DEF memory, store, tokens, recovery
<1>1. /\ turn \in [Turn -> TurnState] /\ history \in Seq(Message) /\ disk.msgs \in Seq(Message)
      /\ \A t \in Turn : turn[t].private \in Seq(Message)
    BY DEF TypeOK, TurnState, File
<1>2. ~Spend("shrink")
    BY DEF Spend, Limit, Kept
<1>3. ~AbortCancel /\ ~CompactCheck /\ ~CompactSession /\ \A t \in Turn : ~LoopCycle(t)
    BY <1>2 DEF AbortCancel, Spend, Limit, Alone, Kept, CompactCheck, CompactSession, LoopCycle
<1>4. spent'.shrink = 0
    <2>1. UNCHANGED spent \/ Spend("abort") \/ Spend("crash")
        BY <1>2, <1>3 DEF Next, TurnStep, Dispatch, Setup, Prepare, Refuse, MarkIdleAfterReject,
           UnmarkAfterReject, Launch, LoopReply, LoopEnd, Persist, AbortIdle, QueueMessage,
           Age, Restart, vars
    <2> QED
        BY <2>1 DEF Spend, Event, Kept, TypeOK
<1>5. archived' = archived /\ compactor' = "idle"
    BY <1>3 DEF Kept, Next, TurnStep, Dispatch, Setup, Prepare, Refuse, MarkIdleAfterReject,
       UnmarkAfterReject, Launch, LoopReply, LoopEnd, Persist, AbortIdle, QueueMessage,
       Age, Restart, vars
\* A step of one turn, which leaves the file as it is.
<1>6. ASSUME NEW t \in Turn, \A u \in Turn \ {t} : turn'[u] = turn[u], UNCHANGED <<disk, persisted, halved>>,
             ~turn'[t].compact, turn'[t].gathered = {},
             state' # "Absent" => Covers(history', disk, persisted, halved, turn),
             Carried(history) \subseteq Carried(history') \/ turn'[t].phase \notin InFlight,
             turn'[t].phase = "gathered" => Prompt(t) \subseteq Carried(history'),
             turn'[t].phase \in Working =>
                 /\ Covers(turn'[t].private, disk, persisted, halved, turn)
                 /\ Prompt(t) \subseteq Carried(turn'[t].private),
             turn'[t].phase = "saved" => turn[t].phase = "saved",
             turn[t].phase \in InFlight \/ history' = history
      PROVE  Kept'
    <2>1. \A u \in Turn : turn'[u].phase = "gathered" => Prompt(u) \subseteq Carried(history')
        <3> SUFFICES ASSUME NEW u \in Turn, turn'[u].phase = "gathered"
                     PROVE  Prompt(u) \subseteq Carried(history')
            OBVIOUS
        <3>1. CASE u = t
            BY <1>6, <3>1
        <3>2. CASE u # t
            <4>1. turn[u].phase = "gathered" /\ Prompt(u) \subseteq Carried(history)
                BY <1>6, <3>2 DEF Kept
            <4>2. turn[t].phase \notin InFlight
                BY <3>2, <4>1 DEF Alone, OneTurn, InFlight
            <4> QED
                BY <1>6, <4>1, <4>2
        <3> QED
            BY <3>1, <3>2
    <2>2. \A u \in Turn : turn'[u].phase = "saved" => turn[u].phase = "saved"
        BY <1>6
    <2>3. ASSUME NEW h, Covers(h, disk, persisted, halved, turn)
          PROVE  Covers(h, disk', persisted', halved', turn')
        BY <1>6, <2>2, <2>3 DEF Covers
    <2>4. state' # "Absent" => Covers(history', disk', persisted', halved', turn')
        BY <1>6, <2>3
    <2>5. \A u \in Turn : turn'[u].phase \in Working =>
              /\ Covers(turn'[u].private, disk', persisted', halved', turn')
              /\ Prompt(u) \subseteq Carried(turn'[u].private)
        BY <1>6, <2>3 DEF Kept
    <2> QED
        BY <1>4, <1>5, <1>6, <2>1, <2>2, <2>4, <2>5 DEF Kept
\* A step that touches no turn.
<1>7. ASSUME turn' = turn, disk'.msgs = disk.msgs, UNCHANGED <<persisted, halved>>, state' = state,
             \/ history' = history
             \/ \E m \in Message : history' = Append(history, m)
      PROVE  Kept'
    <2>1. Carried(history) \subseteq Carried(history')
        BY <1>1, <1>7, AppendCarries
    <2>2. Covers(history, disk, persisted, halved, turn) =>
              Covers(history', disk, persisted, halved, turn)
        BY <1>1, <1>7, CoversMore
    <2>4. ASSUME NEW h, Covers(h, disk, persisted, halved, turn)
          PROVE  Covers(h, disk', persisted', halved', turn')
        BY <1>7, <2>4 DEF Covers
    <2>3. \A u \in Turn : turn'[u].phase = "gathered" => Prompt(u) \subseteq Carried(history')
        BY <1>7, <2>1 DEF Kept
    <2> QED
        BY <1>4, <1>5, <1>7, <2>2, <2>3, <2>4 DEF Kept
<1>8. ASSUME NEW t \in Turn, NEW phase \in Phase, Become(t, phase)
      PROVE  /\ \A u \in Turn \ {t} : turn'[u] = turn[u]
             /\ turn'[t].phase = phase /\ turn'[t].private = turn[t].private
             /\ turn'[t].compact = turn[t].compact /\ turn'[t].gathered = turn[t].gathered
    BY <1>1, <1>8 DEF Become, TurnState
<1>9. ASSUME NEW t \in Turn, Dispatch(t) PROVE Kept'
    <2>1. PICK phase \in {"busy", "claimed"} : Become(t, phase)
        BY <1>9 DEF Dispatch
    <2>2. UNCHANGED <<history, disk, persisted, halved>> /\ state # "Absent"
        BY <1>9 DEF Dispatch
    <2> QED
        BY <1>6, <1>8, <2>1, <2>2 DEF Phase, Working, Kept
<1>10. ASSUME NEW t \in Turn, Setup(t) PROVE Kept'
    <2>1. /\ \A u \in Turn \ {t} : turn'[u] = turn[u]
          /\ turn'[t].phase = "gathered" /\ ~turn'[t].compact /\ turn'[t].gathered = {}
        BY <1>1, <1>2, <1>10 DEF Setup, TurnState
    <2>2. /\ history' = Append(history, Prompt(t)) /\ turn[t].phase = "claimed"
          /\ UNCHANGED <<disk, persisted, halved>>
        BY <1>10 DEF Setup
    <2>3. Prompt(t) \in Message
        BY DEF Prompt, Message, Source
    <2>4. /\ history' \in Seq(Message) /\ Prefix(history, history')
          /\ Carried(history) \subseteq Carried(history') /\ Prompt(t) \subseteq Carried(history')
        BY <1>1, <2>2, <2>3, AppendCarries
    <2>5. state = "Active"
        BY <2>2 DEF Alone, InFlight
    <2>6. Covers(history', disk, persisted, halved, turn)
        BY <1>1, <2>2, <2>3, <2>5, CoversMore DEF Kept
    <2> QED
        BY <1>6, <2>1, <2>2, <2>4, <2>5, <2>6 DEF Working, InFlight
<1>11. ASSUME NEW t \in Turn, Prepare(t) PROVE Kept'
    <2>1. history' = history
        BY <1>11 DEF Prepare, Kept
    <2>2. /\ \A u \in Turn \ {t} : turn'[u] = turn[u]
          /\ turn'[t].phase = "prepared" /\ ~turn'[t].compact /\ turn'[t].gathered = {}
          /\ turn'[t].private = history
        BY <1>1, <1>11, <2>1 DEF Prepare, TurnState, Kept
    <2>3. UNCHANGED <<disk, persisted, halved, state>> /\ turn[t].phase = "gathered"
        BY <1>11 DEF Prepare
    <2>4. state = "Active"
        BY <2>3 DEF Alone, InFlight
    <2>5. Covers(history, disk, persisted, halved, turn) /\ Prompt(t) \subseteq Carried(history)
        BY <2>3, <2>4 DEF Kept
    <2> QED
        BY <1>6, <2>1, <2>2, <2>3, <2>4, <2>5 DEF Working, InFlight
<1>12. ASSUME NEW t \in Turn, Refuse(t) \/ MarkIdleAfterReject(t) \/ UnmarkAfterReject(t)
                              \/ LoopEnd(t)
       PROVE  Kept'
    <2>1. PICK phase \in {"refused", "unmarking", "rejected", "ended"} : Become(t, phase)
        BY <1>12 DEF Refuse, MarkIdleAfterReject, UnmarkAfterReject, LoopEnd
    <2>2. /\ turn'[t].phase = "ended" => turn[t].phase = "looping"
          /\ UNCHANGED <<disk, persisted, halved, history>>
          /\ state' # "Absent" => state # "Absent"
        <3>1. CASE LoopEnd(t)
            BY <3>1 DEF LoopEnd
        <3>2. CASE MarkIdleAfterReject(t)
            <4>1. turn[t].phase = "refused"
                BY <3>2 DEF MarkIdleAfterReject
            <4>2. state = "Active"
                BY <4>1 DEF Alone, InFlight
            <4>3. turn'[t].phase = "unmarking"
                BY <1>8, <3>2 DEF MarkIdleAfterReject, Phase
            <4> QED
                BY <3>2, <4>2, <4>3 DEF MarkIdleAfterReject
        <3>3. CASE Refuse(t)
            BY <1>8, <3>3 DEF Refuse, Phase
        <3>4. CASE UnmarkAfterReject(t)
            BY <1>8, <3>4 DEF UnmarkAfterReject, Phase
        <3> QED
            BY <1>12, <3>1, <3>2, <3>3, <3>4
    <2>3. state # "Absent" => Covers(history, disk, persisted, halved, turn)
        BY DEF Kept
    <2>4. /\ \A u \in Turn \ {t} : turn'[u] = turn[u]
          /\ turn'[t].phase = phase /\ turn'[t].private = turn[t].private
          /\ turn'[t].compact = turn[t].compact /\ turn'[t].gathered = turn[t].gathered
        BY <1>8, <2>1 DEF Phase
    <2>5. ~turn[t].compact /\ turn[t].gathered = {}
        BY DEF Kept
    <2>6. turn'[t].phase \in Working =>
              /\ Covers(turn'[t].private, disk, persisted, halved, turn)
              /\ Prompt(t) \subseteq Carried(turn'[t].private)
        BY <2>1, <2>2, <2>4 DEF Kept, Working
    <2>7. turn'[t].phase # "gathered" /\ turn'[t].phase # "saved"
        BY <2>1, <2>4
    <2> QED
        BY <1>6, <2>2, <2>3, <2>4, <2>5, <2>6, <2>7
<1>13. ASSUME NEW t \in Turn, Launch(t) PROVE Kept'
    <2>1. /\ \A u \in Turn \ {t} : turn'[u] = turn[u]
          /\ turn'[t].phase = "looping" /\ turn'[t].private = turn[t].private
          /\ turn'[t].compact = turn[t].compact /\ turn'[t].gathered = turn[t].gathered
        BY <1>1, <1>13 DEF Launch, TurnState
    <2>2. /\ turn[t].phase = "prepared" /\ UNCHANGED <<disk, persisted, halved, history, state>>
        BY <1>13 DEF Launch
    <2>3. /\ state # "Absent" => Covers(history, disk, persisted, halved, turn)
          /\ ~turn[t].compact /\ turn[t].gathered = {}
          /\ Covers(turn[t].private, disk, persisted, halved, turn) /\ Prompt(t) \subseteq Carried(turn[t].private)
        BY <2>2 DEF Kept, Working
    <2> QED
        BY <1>6, <2>1, <2>2, <2>3
<1>14. ASSUME NEW t \in Turn, LoopReply(t) PROVE Kept'
    <2>1. /\ \A u \in Turn \ {t} : turn'[u] = turn[u]
          /\ turn'[t].phase = "looping" /\ turn'[t].private = Append(turn[t].private, Reply(t))
          /\ turn'[t].compact = turn[t].compact /\ turn'[t].gathered = turn[t].gathered
        BY <1>1, <1>14 DEF LoopReply, TurnState
    <2>2. /\ turn[t].phase = "looping" /\ UNCHANGED <<disk, persisted, halved, history, state>>
        BY <1>14 DEF LoopReply
    <2>3. /\ state # "Absent" => Covers(history, disk, persisted, halved, turn)
          /\ ~turn[t].compact /\ turn[t].gathered = {}
          /\ Covers(turn[t].private, disk, persisted, halved, turn) /\ Prompt(t) \subseteq Carried(turn[t].private)
        BY <2>2 DEF Kept, Working
    <2>4. Reply(t) \in Message
        BY DEF Reply, Message, Source
    <2>5. /\ turn'[t].private \in Seq(Message) /\ Prefix(turn[t].private, turn'[t].private)
          /\ Carried(turn[t].private) \subseteq Carried(turn'[t].private)
        BY <1>1, <2>1, <2>4, AppendCarries
    <2>6. Covers(turn'[t].private, disk, persisted, halved, turn)
        BY <1>1, <2>1, <2>3, <2>4, CoversMore
    <2> QED
        BY <1>6, <2>1, <2>2, <2>3, <2>5, <2>6
<1>15. ASSUME NEW t \in Turn, Persist(t) PROVE Kept'
    <2>1. turn[t].phase = "ended" /\ history' = turn[t].private /\ state' = "Idle"
        BY <1>15 DEF Persist
    <2>2. state = "Active"
        BY <2>1 DEF Alone, InFlight
    <2>3. /\ Covers(turn[t].private, disk, persisted, halved, turn)
          /\ Prompt(t) \subseteq Carried(turn[t].private)
          /\ ~turn[t].compact /\ turn[t].gathered = {}
        BY <2>1 DEF Kept, Working
    <2>4. \A u \in Turn \ {t} : turn[u].phase \notin InFlight
        BY <2>1 DEF Alone, OneTurn, InFlight
    <2>5. PICK phase \in {"saved", "unsaved"} : Become(t, phase)
        BY <1>15 DEF Persist
    <2>6. /\ \A u \in Turn \ {t} : turn'[u] = turn[u]
          /\ turn'[t].phase = phase /\ ~turn'[t].compact /\ turn'[t].gathered = {}
        BY <1>8, <2>3, <2>5 DEF Phase
    <2>7. \A u \in Turn : turn'[u].phase \notin Working /\ turn'[u].phase # "gathered"
        BY <2>4, <2>6 DEF Working, InFlight
    <2>8. \A u \in Turn : ~turn'[u].compact /\ turn'[u].gathered = {}
        BY <2>6 DEF Kept
    <2>9. \A u \in Turn : turn'[u].phase = "saved" => Prompt(u) \subseteq Carried(history')
        BY <2>1, <2>3, <2>6 DEF Covers
    <2>10. CASE /\ disk' = Saved(turn[t].private) /\ persisted' = Len(turn[t].private)
                /\ halved' = (halved /\ CanAppend(turn[t].private))
        <3>1. /\ Carried(history') \subseteq Carried(disk'.msgs)
              /\ ~halved' => disk'.msgs = history'
            BY <1>1, <2>1, <2>3, <2>10, SavedIsWhole
        <3>2. /\ history' \in Seq(Message) /\ Len(history') \in Nat
              /\ DOMAIN history' = 1..Len(history') /\ persisted' = Len(history')
            BY <1>1, <2>1, <2>10, LenProperties
        <3>3. \A i \in 1..persisted' : history'[i] \subseteq Carried(disk'.msgs)
            BY <3>1, <3>2 DEF Carried
        <3>4. ~halved' => Prefix(disk'.msgs, history')
            BY <3>1, <3>2, PrefixOfItself
        <3>5. Covers(history', disk', persisted', halved', turn')
            BY <2>9, <3>2, <3>3, <3>4 DEF Covers
        <3>6. \A u \in Turn : turn'[u].phase = "saved" => Prompt(u) \subseteq Carried(disk'.msgs)
            BY <2>9, <3>1
        <3> QED
            BY <1>4, <1>5, <2>7, <2>8, <3>5, <3>6 DEF Kept
    <2>11. CASE UNCHANGED <<disk, halved, persisted>> /\ Become(t, "unsaved")
        <3>1. turn'[t].phase = "unsaved"
            BY <1>8, <2>11 DEF Phase
        <3> QED
            BY <1>6, <2>1, <2>3, <2>6, <2>11, <3>1 DEF Working, InFlight
    <2>12. CASE /\ CanAppend(turn[t].private) /\ disk' \in Interrupted(turn[t].private)
                /\ halved' = TRUE /\ persisted' = persisted /\ Become(t, "unsaved")
        <3>1. Carried(disk.msgs) \subseteq Carried(disk'.msgs)
            BY <1>1, <2>12, InterruptedType
        <3>2. turn'[t].phase = "unsaved"
            BY <1>8, <2>12 DEF Phase
        <3>3. Covers(history', disk', persisted', halved', turn')
            BY <2>1, <2>3, <2>9, <2>12, <3>1 DEF Covers
        <3>4. \A u \in Turn : turn'[u].phase = "saved" => Prompt(u) \subseteq Carried(disk'.msgs)
            BY <2>6, <3>1, <3>2 DEF Kept
        <3> QED
            BY <1>4, <1>5, <2>7, <2>8, <3>3, <3>4 DEF Kept
    <2> QED
        BY <1>15, <2>10, <2>11, <2>12 DEF Persist
<1>16. ASSUME NEW n \in Note, QueueMessage(n) PROVE Kept'
    <2>1. {<<n, "note">>} \in Message
        BY DEF Message, Source
    <2>2. /\ history' = Append(history, {<<n, "note">>})
          /\ turn' = turn /\ UNCHANGED <<disk, persisted, halved, state>>
        BY <1>16 DEF QueueMessage
    <2> QED
        BY <1>7, <2>1, <2>2
<1>17. ASSUME Age PROVE Kept'
    BY <1>1, <1>7, <1>17 DEF Age, TypeOK, File
<1>18. ASSUME Restart PROVE Kept'
    <2>1. \A t \in Turn : turn[t].phase = "ended" => Covers(turn[t].private, disk, persisted, halved, turn)
        BY DEF Kept, Working
    <2>2. \A t \in Turn : turn[t].phase = "saved" => Prompt(t) \subseteq Carried(disk'.msgs)
        <3>1. CASE disk' = disk
            BY <3>1 DEF Kept
        <3>2. ASSUME NEW u \in Turn, turn[u].phase = "ended", disk' = Saved(turn[u].private)
              PROVE  \A t \in Turn : turn[t].phase = "saved" => Prompt(t) \subseteq Carried(disk'.msgs)
            BY <1>1, <2>1, <3>2, SavedIsWhole DEF Covers
        <3>3. ASSUME NEW u \in Turn, CanAppend(turn[u].private), disk' \in Interrupted(turn[u].private)
              PROVE  \A t \in Turn : turn[t].phase = "saved" => Prompt(t) \subseteq Carried(disk'.msgs)
            BY <1>1, <3>3, InterruptedType DEF Kept
        <3> QED
            BY <1>18, <3>1, <3>2, <3>3 DEF Restart
    <2>3. \A t \in Turn : /\ turn'[t].compact = turn[t].compact
                          /\ turn'[t].gathered = turn[t].gathered
                          /\ turn'[t].phase \notin InFlight
                          /\ turn'[t].phase = "saved" => turn[t].phase = "saved"
        BY <1>1, <1>18 DEF Restart, TurnState, InFlight
    <2>4. \A t \in Turn : turn'[t].phase \notin Working /\ turn'[t].phase # "gathered"
        BY <2>3 DEF Working, InFlight
    <2>5. \A t \in Turn : turn'[t].phase = "saved" => Prompt(t) \subseteq Carried(disk'.msgs)
        BY <2>2, <2>3
    <2>6. \A t \in Turn : ~turn'[t].compact /\ turn'[t].gathered = {}
        BY <2>3 DEF Kept
    <2>7. ASSUME state' # "Absent" PROVE Covers(history', disk', persisted', halved', turn')
        <3>1. history' = disk'.msgs /\ persisted' = Len(history')
            BY <1>18, <2>7 DEF Restart
        <3>2. disk' \in File
            BY TypeStep DEF TypeOK
        <3>3. /\ history' \in Seq(Message) /\ Len(history') \in Nat
              /\ DOMAIN history' = 1..Len(history') /\ Prefix(disk'.msgs, history')
            BY <3>1, <3>2, LenProperties, PrefixOfItself DEF File
        <3>4. \A i \in 1..persisted' : history'[i] \subseteq Carried(disk'.msgs)
            BY <3>1, <3>3 DEF Carried
        <3> QED
            BY <2>5, <3>1, <3>3, <3>4 DEF Covers
    <2> QED
        BY <1>4, <1>5, <2>4, <2>5, <2>6, <2>7 DEF Kept
<1>19. ASSUME UNCHANGED vars PROVE Kept'
    BY <1>1, <1>7, <1>19 DEF vars
<1>20. ~AbortIdle
    BY DEF AbortIdle, Alone
<1> QED
    BY <1>3, <1>9, <1>10, <1>11, <1>12, <1>13, <1>14, <1>15, <1>16, <1>17, <1>18, <1>19, <1>20
    DEF Next, TurnStep

LEMMA KeptInit == Init => Kept
<1> SUFFICES ASSUME Init PROVE Kept
    OBVIOUS
<1>1. Prefix(<<>>, <<>>)
    BY EmptySeq DEF Prefix
<1>2. Covers(<<>>, [msgs |-> <<>>, updated |-> "recent", end |-> "line"], 0, FALSE, turn)
    BY <1>1, EmptySeq DEF Covers, Init
<1> QED
    BY <1>2 DEF Init, Kept, Event, Working

\* Turns, queued notes, rejected models, saves that fail or stop half-way and restarts in
\* any number and any order, as long as nobody aborts or compacts: what a turn saved
\* stays in the file and in the session that is loaded from it.
THEOREM SavedTurnsStay == MaxAborts = 0 /\ MaxShrinks = 0 => (Spec => []SavedTurnsKept)
<1> SUFFICES ASSUME MaxAborts = 0, MaxShrinks = 0 PROVE Spec => []SavedTurnsKept
    OBVIOUS
<1>1. IInv /\ Alone /\ Alone' /\ Kept /\ [Next]_vars => Kept'
    BY KeptStep DEF IInv
<1>2. IInv /\ Kept => SavedTurnsKept
    <2> SUFFICES ASSUME TypeOK, Kept, NEW t \in Turn, turn[t].phase = "saved"
                 PROVE  /\ Prompt(t) \subseteq archived \cup Carried(disk.msgs)
                        /\ state # "Absent" => Prompt(t) \subseteq archived \cup Carried(history)
        BY DEF IInv, SavedTurnsKept
    <2>1. Prompt(t) \subseteq Carried(disk.msgs)
        BY DEF Kept
    <2>2. state # "Absent" => Prompt(t) \subseteq Carried(history)
        BY DEF Kept, Covers
    <2> QED
        BY <2>1, <2>2
<1> QED
    BY <1>1, <1>2, AloneInit, AloneNext, KeptInit, InitInv, NextInv, PTL DEF Spec

\* Under the same conditions a save that succeeds, an append or a rewrite, leaves in the
\* file every message of the session, and exactly those as long as no append stopped
\* half-way since the file was last rewritten or loaded.
THEOREM SavesAreFaithful == MaxAborts = 0 /\ MaxShrinks = 0 => (Spec => SaveIsFaithful)
<1> SUFFICES ASSUME MaxAborts = 0, MaxShrinks = 0 PROVE Spec => SaveIsFaithful
    OBVIOUS
<1>1. IInv /\ Alone /\ Alone' /\ Kept /\ [Next]_vars => Kept'
    BY KeptStep DEF IInv
<1>2. IInv /\ Alone /\ Kept /\ [Next]_vars =>
          [\A t \in Turn : turn[t].phase = "ended" /\ turn'[t].phase = "saved"
                           => /\ Carried(history') \subseteq Carried(disk'.msgs)
                              /\ ~halved' => disk'.msgs = history' /\ disk'.end = "line"]_vars
    <2> SUFFICES ASSUME TypeOK, DiskCount, Alone, Kept, [Next]_vars, NEW t \in Turn,
                        turn[t].phase = "ended", turn'[t].phase = "saved"
                 PROVE  /\ Carried(history') \subseteq Carried(disk'.msgs)
                        /\ ~halved' => disk'.msgs = history' /\ disk'.end = "line"
        BY DEF IInv
    <2>1. turn \in [Turn -> TurnState] /\ turn[t].private \in Seq(Message)
        BY DEF TypeOK, TurnState
    <2>2. ASSUME NEW u \in Turn, Persist(u) PROVE u = t
        BY <2>2 DEF Persist, Alone, OneTurn, InFlight
    <2>3. ASSUME NEW u \in Turn, Dispatch(u) \/ Setup(u) \/ Prepare(u) \/ Launch(u)
                                 \/ LoopReply(u) \/ LoopCycle(u)
          PROVE  turn'[t].phase # "saved"
        <3>1. CASE Dispatch(u)
            BY <2>1, <3>1 DEF Dispatch, Become, TurnState
        <3>2. CASE Setup(u) \/ Prepare(u)
            BY <2>1, <3>2 DEF Setup, Prepare, TurnState
        <3>3. CASE Launch(u) \/ LoopReply(u) \/ LoopCycle(u)
            BY <2>1, <3>3 DEF Launch, LoopReply, LoopCycle, TurnState
        <3> QED
            BY <2>3, <3>1, <3>2, <3>3
    <2>4. ASSUME NEW u \in Turn, Refuse(u) \/ MarkIdleAfterReject(u) \/ UnmarkAfterReject(u)
                                 \/ LoopEnd(u)
          PROVE  turn'[t].phase # "saved"
        BY <2>1, <2>4 DEF Refuse, MarkIdleAfterReject, UnmarkAfterReject, LoopEnd, Become, TurnState
    <2>5. ASSUME Restart PROVE turn'[t].phase # "saved"
        BY <2>1, <2>5 DEF Restart, TurnState
    <2>6. ASSUME turn' = turn PROVE FALSE
        BY <2>6
    <2>7. Persist(t)
        BY <2>2, <2>3, <2>4, <2>5, <2>6 DEF Next, TurnStep, AbortCancel, AbortIdle, QueueMessage,
           CompactCheck, CompactSession, Age, vars
    <2>8. /\ disk' = Saved(turn[t].private) /\ history' = turn[t].private
          /\ halved' = (halved /\ CanAppend(turn[t].private))
        BY <2>1, <2>7 DEF Persist, Become, TurnState
    <2>9. Covers(turn[t].private, disk, persisted, halved, turn)
        BY DEF Kept, Working
    <2> QED
        BY <2>1, <2>8, <2>9, SavedIsWhole
<1> QED
    BY <1>1, <1>2, AloneInit, AloneNext, KeptInit, InitInv, NextInv, PTL DEF Spec, SaveIsFaithful

-----------------------------------------------------------------------------
(* The first abort of a session. *)

\* Until then the map holds the token of the turn in flight, once it has one.
Reach ==
    \A t \in Turn : /\ turn[t].phase = "prepared" => cancels = t
                    /\ turn[t].phase = "looping" => cancels = t /\ turn[t].token = t

Reached == spent.abort = 0 => Alone /\ Reach

LEMMA ReachStep ==
    ASSUME TypeOK, Alone, Reach, [Next]_vars, ~AbortCancel
    PROVE  Reach'
<1> USE DEF memory, store, tokens, recovery
<1>1. turn \in [Turn -> TurnState]
    BY DEF TypeOK
<1>2. ASSUME NEW t \in Turn, \A u \in Turn \ {t} : turn'[u] = turn[u],
             turn'[t].phase = "prepared" => cancels' = t,
             turn'[t].phase = "looping" => cancels' = t /\ turn'[t].token = t,
             turn[t].phase \in InFlight \/ cancels' = cancels
      PROVE  Reach'
    <2>1. ASSUME NEW u \in Turn \ {t}, turn[u].phase \in {"prepared", "looping"}
          PROVE  cancels' = cancels
        BY <1>2, <2>1 DEF Alone, OneTurn, InFlight
    <2> QED
        BY <1>2, <2>1 DEF Reach
<1>3. ASSUME NEW t \in Turn, Prepare(t) PROVE Reach'
    <2>1. /\ \A u \in Turn \ {t} : turn'[u] = turn[u]
          /\ turn'[t].phase = "prepared" /\ cancels' = t /\ turn[t].phase = "gathered"
        BY <1>1, <1>3 DEF Prepare, TurnState
    <2> QED
        BY <1>2, <2>1 DEF InFlight
<1>4. ASSUME NEW t \in Turn, Launch(t) PROVE Reach'
    <2>1. /\ \A u \in Turn \ {t} : turn'[u] = turn[u]
          /\ turn'[t].phase = "looping" /\ turn'[t].token = cancels
          /\ cancels' = cancels /\ turn[t].phase = "prepared"
        BY <1>1, <1>4 DEF Launch, TurnState
    <2> QED
        BY <1>2, <2>1 DEF Reach
<1>5. ASSUME NEW t \in Turn, LoopReply(t) \/ LoopCycle(t) PROVE Reach'
    <2>1. /\ \A u \in Turn \ {t} : turn'[u] = turn[u]
          /\ turn'[t].phase = "looping" /\ turn'[t].token = turn[t].token
          /\ cancels' = cancels /\ turn[t].phase = "looping"
        BY <1>1, <1>5 DEF LoopReply, LoopCycle, TurnState
    <2> QED
        BY <1>2, <2>1 DEF Reach
<1>6. ASSUME NEW t \in Turn, Setup(t) PROVE Reach'
    <2>1. /\ \A u \in Turn \ {t} : turn'[u] = turn[u]
          /\ turn'[t].phase = "gathered" /\ cancels' = cancels
        BY <1>1, <1>6 DEF Setup, TurnState
    <2> QED
        BY <1>2, <2>1
<1>7. ASSUME NEW t \in Turn, Dispatch(t) \/ Refuse(t) \/ MarkIdleAfterReject(t)
                             \/ UnmarkAfterReject(t) \/ LoopEnd(t) \/ Persist(t)
      PROVE  Reach'
    <2>1. /\ \A u \in Turn \ {t} : turn'[u] = turn[u]
          /\ turn'[t].phase \notin {"prepared", "looping"} /\ cancels' = cancels
        BY <1>1, <1>7 DEF Dispatch, Refuse, MarkIdleAfterReject, UnmarkAfterReject, LoopEnd,
           Persist, Become, TurnState
    <2> QED
        BY <1>2, <2>1
<1>8. ASSUME Restart PROVE Reach'
    BY <1>1, <1>8 DEF Restart, Reach, InFlight, TurnState
<1>9. ASSUME UNCHANGED <<turn, cancels>> PROVE Reach'
    BY <1>9 DEF Reach
<1> QED
    BY <1>3, <1>4, <1>5, <1>6, <1>7, <1>8, <1>9 DEF Next, TurnStep, AbortIdle, QueueMessage,
       CompactCheck, CompactSession, Age, vars

LEMMA ReachedStep == ASSUME TypeOK, Reached, [Next]_vars PROVE Reached'
<1> SUFFICES ASSUME spent'.abort = 0 PROVE Alone' /\ Reach'
    BY DEF Reached
<1>1. ~AbortCancel
    BY DEF AbortCancel, Spend, Event, TypeOK
<1>2. spent.abort = 0
    BY <1>1, AbortsSpent
<1> QED
    BY <1>1, <1>2, AloneStep, ReachStep DEF Reached

\* The first abort of a session always cancels the token that the loop in flight
\* listens to, whatever turns, compactions and restarts came before it.
THEOREM FirstAbortReachesLoop == MaxAborts <= 1 => (Spec => AbortReachesLoop)
<1> SUFFICES ASSUME MaxAborts <= 1 PROVE Spec => AbortReachesLoop
    OBVIOUS
<1>1. Init => Reached
    <2>1. ASSUME Init, NEW t \in Turn PROVE turn[t].phase = "new"
        BY <2>1 DEF Init
    <2>2. Init => Reach
        BY <2>1 DEF Reach
    <2> QED
        BY <2>2, AloneInit DEF Reached
<1>2. IInv /\ Reached /\ [Next]_vars => Reached'
    BY ReachedStep DEF IInv
<1>3. IInv /\ Reached /\ [Next]_vars =>
          [spent'.abort > spent.abort =>
               \A t \in Turn : turn[t].phase = "looping" => turn[t].token \in cancelled']_vars
    <2> SUFFICES ASSUME TypeOK, Reached, [Next]_vars, spent'.abort > spent.abort,
                        NEW t \in Turn, turn[t].phase = "looping"
                 PROVE  turn[t].token \in cancelled'
        BY DEF IInv
    <2>1. spent.abort \in Nat
        BY DEF TypeOK, Event
    <2>2. AbortCancel
        BY <2>1, AbortsSpent
    <2>3. spent.abort = 0
        BY <2>1, <2>2, SessionTurnAssumption DEF AbortCancel, Spend, Limit
    <2>4. cancels = t /\ turn[t].token = t /\ t # None
        BY <2>3, SessionTurnAssumption DEF Reached, Reach
    <2> QED
        BY <2>2, <2>4 DEF AbortCancel
<1> QED
    BY <1>1, <1>2, <1>3, InitInv, NextInv, PTL DEF Spec, AbortReachesLoop

-----------------------------------------------------------------------------
(* ProviderFailover *)

(* Induction and recursion over the natural numbers, stated with sets. *)

LEMMA Least == ASSUME NEW T, T \subseteq Nat, T # {} PROVE \E n \in T : \A m \in T : n <= m
<1>1. PICK n \in T : \A m \in T : <<m, n>> \notin OpToRel(<, Nat)
    BY WFMin, NatLessThanWellFounded
<1>2. \A m \in T : ~(m < n)
    BY <1>1 DEF OpToRel
<1> QED
    BY <1>2

LEMMA Induction ==
    ASSUME NEW P, 0 \in P, \A n \in Nat : n \in P => n + 1 \in P
    PROVE  Nat \subseteq P
<1> SUFFICES ASSUME Nat \ P # {} PROVE FALSE
    OBVIOUS
<1>1. PICK n \in Nat \ P : \A m \in Nat \ P : n <= m
    BY Least
<1>2. n # 0 /\ n - 1 \in Nat /\ n - 1 \in P
    BY <1>1
<1> QED
    BY <1>1, <1>2

\* A list of steps, one after the other, from a base.
Scan(f, n, S, base, step) ==
    f \in [0..n -> S] /\ f[0] = base /\ \A i \in 1..n : f[i] = step[i][f[i - 1]]

LEMMA Recursion ==
    ASSUME NEW M \in Nat, NEW S, NEW base \in S, NEW step \in [1..M -> [S -> S]]
    PROVE  \E f : Scan(f, M, S, base, step)
<1> USE DEF Scan
<1> DEFINE Upto(k) == \E f : Scan(f, k, S, base, step)
           P == {k \in Nat : k <= M => Upto(k)}
<1>1. 0 \in P
    <2> DEFINE f == [i \in 0..0 |-> base]
    <2>1. f \in [0..0 -> S] /\ f[0] = base /\ \A n \in 1..0 : f[n] = step[n][f[n - 1]]
        OBVIOUS
    <2> HIDE DEF f
    <2> QED
        BY <2>1
<1>2. ASSUME NEW k \in Nat, k \in P PROVE k + 1 \in P
    <2> SUFFICES ASSUME k + 1 <= M PROVE Upto(k + 1)
        OBVIOUS
    <2>1. PICK f \in [0..k -> S] : f[0] = base /\ \A n \in 1..k : f[n] = step[n][f[n - 1]]
        BY <1>2
    <2> DEFINE g == [i \in 0..(k + 1) |-> IF i <= k THEN f[i] ELSE step[k + 1][f[k]]]
    <2>2. f[k] \in S /\ k + 1 \in 1..M /\ step[k + 1] \in [S -> S]
        OBVIOUS
    <2>3. g \in [0..(k + 1) -> S]
        BY <2>2
    <2>4. g[0] = base /\ \A n \in 1..(k + 1) : g[n] = step[n][g[n - 1]]
        <3>1. g[0] = base
            BY <2>1
        <3>2. ASSUME NEW n \in 1..(k + 1) PROVE g[n] = step[n][g[n - 1]]
            <4>1. CASE n <= k
                BY <2>1, <4>1
            <4>2. CASE n = k + 1
                BY <4>2
            <4> QED
                BY <4>1, <4>2
        <3> QED
            BY <3>1, <3>2
    <2> QED
        BY <2>3, <2>4
<1>3. M \in P
    BY <1>1, <1>2, Induction
<1> QED
    BY <1>3

-----------------------------------------------------------------------------
(* Numbers of things *)

Pile(number) == UNION {{x} \X (1..number[x]) : x \in DOMAIN number}

LEMMA Column ==
    ASSUME NEW x, NEW n \in Nat
    PROVE  IsFiniteSet({x} \X (1..n)) /\ Cardinality({x} \X (1..n)) = n
<1> DEFINE A == {x}
           B == 1..n
<1>1. IsFiniteSet(A) /\ Cardinality(A) = 1
    BY FS_Singleton
<1>2. IsFiniteSet(B) /\ Cardinality(B) = n
    BY FS_Interval
<1> HIDE DEF A, B
<1>3. IsFiniteSet(A \X B) /\ Cardinality(A \X B) = Cardinality(A) * Cardinality(B)
    BY <1>1, <1>2, FS_Product, Zenon
<1>4. Cardinality(A) * Cardinality(B) = n
    BY <1>1, <1>2
<1> QED
    BY <1>3, <1>4 DEF A, B

LEMMA PileIsFinite ==
    ASSUME NEW S, IsFiniteSet(S), NEW d \in [S -> Nat]
    PROVE  IsFiniteSet(Pile(d))
<1> DEFINE T == {{x} \X (1..d[x]) : x \in S}
           g == [x \in S |-> {x} \X (1..d[x])]
<1>1. g \in Surjection(S, T)
    BY DEF Surjection
<1>2. IsFiniteSet(T)
    BY <1>1, FS_Surjection
<1>3. ASSUME NEW x \in S PROVE IsFiniteSet({x} \X (1..d[x]))
    BY Column
<1>4. \A t \in T : IsFiniteSet(t)
    BY <1>3
<1>5. IsFiniteSet(UNION T)
    BY <1>2, <1>4, FS_UNION
<1>6. Pile(d) = UNION T
    BY DEF Pile
<1> QED
    BY <1>5, <1>6

\* One entry of a function of numbers counts apart from the others.
LEMMA Apart ==
    ASSUME NEW S, IsFiniteSet(S), NEW d \in [S -> Nat], NEW x \in S
    PROVE  /\ IsFiniteSet(UNION {{y} \X (1..d[y]) : y \in S \ {x}})
           /\ Total(d) = Cardinality(UNION {{y} \X (1..d[y]) : y \in S \ {x}}) + d[x]
<1> DEFINE rest == UNION {{y} \X (1..d[y]) : y \in S \ {x}}
           own == {x} \X (1..d[x])
<1>1. Pile(d) = rest \cup own
    BY DEF Pile
<1>2. rest \cap own = {}
    OBVIOUS
<1>3. IsFiniteSet(Pile(d))
    BY PileIsFinite
<1>4. IsFiniteSet(rest) /\ Cardinality(rest) \in Nat
    BY <1>1, <1>3, FS_Subset, FS_CardinalityType
<1>5. IsFiniteSet(own) /\ Cardinality(own) = d[x]
    BY Column
<1>6. Cardinality(Pile(d)) = Cardinality(rest) + Cardinality(own) - Cardinality(rest \cap own)
    BY <1>1, <1>4, <1>5, FS_Union
<1>7. Cardinality(rest \cap own) = 0
    BY <1>2, FS_EmptySet
<1>8. Total(d) = Cardinality(Pile(d))
    BY DEF Total, Pile
<1> HIDE DEF rest, own
<1>9. Total(d) = Cardinality(rest) + d[x]
    BY <1>4, <1>5, <1>6, <1>7, <1>8
<1> QED
    BY <1>4, <1>9 DEF rest

\* A total moves by as much as the one entry that moves.
LEMMA TotalMoves ==
    ASSUME NEW S, IsFiniteSet(S), NEW d \in [S -> Nat], NEW e \in [S -> Nat], NEW x \in S,
           \A y \in S \ {x} : e[y] = d[y]
    PROVE  Total(d) \in Nat /\ Total(e) \in Nat /\ Total(e) + d[x] = Total(d) + e[x]
<1> DEFINE n == Cardinality(UNION {{y} \X (1..d[y]) : y \in S \ {x}})
           m == Cardinality(UNION {{y} \X (1..e[y]) : y \in S \ {x}})
<1>1. Total(d) = n + d[x] /\ n \in Nat
    BY Apart, FS_CardinalityType
<1>2. Total(e) = m + e[x] /\ m \in Nat
    BY Apart, FS_CardinalityType
<1>3. {{y} \X (1..d[y]) : y \in S \ {x}} = {{y} \X (1..e[y]) : y \in S \ {x}}
    OBVIOUS
<1>4. n = m
    BY <1>3
<1> HIDE DEF n, m
<1> QED
    BY <1>1, <1>2, <1>4

LEMMA TotalBounds ==
    ASSUME NEW S, IsFiniteSet(S), NEW d \in [S -> Nat], NEW x \in S
    PROVE  Total(d) \in Nat /\ d[x] <= Total(d)
<1> DEFINE n == Cardinality(UNION {{y} \X (1..d[y]) : y \in S \ {x}})
<1>1. Total(d) = n + d[x] /\ n \in Nat
    BY Apart, FS_CardinalityType
<1> HIDE DEF n
<1> QED
    BY <1>1

LEMMA TotalOfNone ==
    ASSUME NEW S
    PROVE  Total([x \in S |-> 0]) = 0
<1>1. UNION {{x} \X (1..[y \in S |-> 0][x]) : x \in DOMAIN [y \in S |-> 0]} = {}
    OBVIOUS
<1> QED
    BY <1>1, FS_EmptySet DEF Total

-----------------------------------------------------------------------------
(* Orders: each key once *)

Arrangement(K) == {s \in Seq(K) : IsInjective(s) /\ Range(s) = K}

LEMMA Removed ==
    ASSUME NEW K, NEW s \in Arrangement(K), NEW i, i \in Range(s)
    PROVE  /\ Without(s, i) \in Seq(K) /\ IsInjective(Without(s, i))
           /\ Range(Without(s, i)) = K \ {i}
<1> DEFINE p == CHOOSE p \in DOMAIN s : s[p] = i
           w == Without(s, i)
           left == SubSeq(s, 1, p - 1)
           right == SubSeq(s, p + 1, Len(s))
<1>1. s \in Seq(K) /\ Len(s) \in Nat /\ DOMAIN s = 1..Len(s)
    BY LenProperties DEF Arrangement
<1>2. p \in 1..Len(s) /\ s[p] = i
    BY <1>1 DEF Range
<1>3. w = left \o right
    BY DEF Without
<1> HIDE DEF p, w
<1>4. left \in Seq(K) /\ Len(left) = p - 1 /\ \A j \in 1..(p - 1) : left[j] = s[j]
    BY <1>1, <1>2
<1>5. /\ right \in Seq(K) /\ Len(right) = Len(s) - p
      /\ \A j \in 1..(Len(s) - p) : right[j] = s[p + j]
    <2>1. \A j \in (p + 1)..Len(s) : s[j] \in K
        BY <1>1, <1>2
    <2>2. p + 1 \in Int /\ Len(s) \in Int
        BY <1>1, <1>2
    <2>3. /\ right \in Seq(K) /\ Len(right) = IF p + 1 <= Len(s) THEN Len(s) - (p + 1) + 1 ELSE 0
          /\ \A j \in 1..(Len(s) - (p + 1) + 1) : right[j] = s[p + 1 + j - 1]
        BY <2>1, <2>2, SubSeqProperties
    <2> HIDE DEF right
    <2>4. Len(right) = Len(s) - p
        <3>1. CASE p + 1 <= Len(s)
            <4>1. Len(right) = Len(s) - (p + 1) + 1
                BY <2>3, <3>1
            <4> QED
                BY <1>1, <1>2, <4>1
        <3>2. CASE ~(p + 1 <= Len(s))
            <4>1. Len(right) = 0
                BY <2>3, <3>2
            <4>2. p \in Nat /\ Len(s) \in Nat /\ p <= Len(s)
                BY <1>1, <1>2
            <4>3. Len(s) - p = 0
                BY <3>2, <4>2
            <4> QED
                BY <4>1, <4>3
        <3> QED
            BY <3>1, <3>2
    <2>5. ASSUME NEW j \in 1..(Len(s) - p) PROVE right[j] = s[p + j]
        <3>1. j \in 1..(Len(s) - (p + 1) + 1) /\ p + 1 + j - 1 = p + j
            BY <1>1, <1>2
        <3> QED
            BY <2>3, <3>1
    <2> QED
        BY <2>3, <2>4, <2>5
<1> HIDE DEF left, right
<1>6. /\ w \in Seq(K) /\ Len(w) = Len(s) - 1 /\ DOMAIN w = 1..(Len(s) - 1)
      /\ \A j \in 1..(Len(s) - 1) : w[j] = IF j <= p - 1 THEN left[j] ELSE right[j - (p - 1)]
    <2>1. /\ w \in Seq(K) /\ Len(w) = Len(left) + Len(right)
          /\ \A j \in 1..(Len(left) + Len(right)) : w[j] = IF j <= Len(left) THEN left[j] ELSE right[j - Len(left)]
        BY <1>3, <1>4, <1>5, ConcatProperties
    <2>2. Len(left) + Len(right) = Len(s) - 1
        BY <1>1, <1>2, <1>4, <1>5
    <2>3. DOMAIN w = 1..Len(w)
        BY <2>1, LenProperties
    <2> QED
        BY <1>4, <2>1, <2>2, <2>3
<1>7. \A j \in 1..(Len(s) - 1) : w[j] = IF j < p THEN s[j] ELSE s[j + 1]
    <2> SUFFICES ASSUME NEW j \in 1..(Len(s) - 1) PROVE w[j] = IF j < p THEN s[j] ELSE s[j + 1]
        OBVIOUS
    <2>1. CASE j < p
        BY <1>1, <1>2, <1>4, <1>6, <2>1
    <2>2. CASE ~(j < p)
        <3>1. j - (p - 1) \in 1..(Len(s) - p) /\ p + (j - (p - 1)) = j + 1
            BY <1>1, <1>2, <2>2
        <3>2. w[j] = right[j - (p - 1)]
            BY <1>1, <1>2, <1>6, <2>2
        <3> QED
            BY <1>5, <2>2, <3>1, <3>2
    <2> QED
        BY <2>1, <2>2
<1>8. \A a, b \in 1..Len(s) : s[a] = s[b] => a = b
    BY <1>1 DEF Arrangement, IsInjective
<1>9. IsInjective(w)
    <2> SUFFICES ASSUME NEW a \in 1..(Len(s) - 1), NEW b \in 1..(Len(s) - 1), w[a] = w[b] PROVE a = b
        BY <1>6 DEF IsInjective
    <2> QED
        BY <1>1, <1>2, <1>7, <1>8
<1>10. ASSUME NEW x \in Range(w) PROVE x \in K \ {i}
    <2>1. PICK j \in 1..(Len(s) - 1) : x = w[j]
        BY <1>6, <1>10 DEF Range
    <2>2. x \in K
        BY <1>6, <2>1
    <2>3. x # s[p]
        BY <1>1, <1>2, <1>7, <1>8, <2>1
    <2> QED
        BY <1>2, <2>2, <2>3
<1>11. ASSUME NEW x \in K \ {i} PROVE x \in Range(w)
    <2>1. PICK j \in 1..Len(s) : x = s[j]
        BY <1>1 DEF Arrangement, Range
    <2>2. j # p
        BY <1>2, <2>1
    <2>3. CASE j < p
        <3>1. j \in 1..(Len(s) - 1) /\ w[j] = x
            BY <1>1, <1>2, <1>7, <2>1, <2>3
        <3> QED
            BY <1>6, <3>1 DEF Range
    <2>4. CASE j > p
        <3>1. j - 1 \in 1..(Len(s) - 1) /\ w[j - 1] = s[(j - 1) + 1]
            BY <1>1, <1>2, <1>7, <2>4
        <3>2. w[j - 1] = x
            BY <2>1, <3>1
        <3> QED
            BY <1>6, <3>1, <3>2 DEF Range
    <2> QED
        BY <1>1, <1>2, <2>2, <2>3, <2>4
<1> QED
    BY <1>6, <1>9, <1>10, <1>11 DEF w

LEMMA MovedKeeps ==
    ASSUME NEW K, NEW s \in Arrangement(K), NEW i
    PROVE  ToBack(s, i) \in Arrangement(K) /\ ToFront(s, i) \in Arrangement(K)
<1>1. CASE i \notin Range(s)
    BY <1>1 DEF ToBack, ToFront
<1>2. CASE i \in Range(s)
    <2> DEFINE w == Without(s, i)
               back == Append(w, i)
               front == <<i>> \o w
    <2>1. w \in Seq(K) /\ IsInjective(w) /\ Range(w) = K \ {i} /\ i \in K
        BY <1>2, Removed DEF Arrangement
    <2>2. ToBack(s, i) = back /\ ToFront(s, i) = front
        BY <1>2 DEF ToBack, ToFront
    <2> HIDE DEF w
    <2>3. Len(w) \in Nat /\ DOMAIN w = 1..Len(w)
        BY <2>1, LenProperties
    <2>4. \A j \in 1..Len(w) : w[j] \in K /\ w[j] # i
        BY <2>1, <2>3 DEF Range
    <2>5. /\ back \in Seq(K) /\ DOMAIN back = 1..(Len(w) + 1)
          /\ \A j \in 1..(Len(w) + 1) : back[j] = IF j = Len(w) + 1 THEN i ELSE w[j]
        BY <2>1, <2>3
    <2>6. /\ front \in Seq(K) /\ DOMAIN front = 1..(Len(w) + 1)
          /\ \A j \in 1..(Len(w) + 1) : front[j] = IF j = 1 THEN i ELSE w[j - 1]
        BY <2>1, <2>3
    <2> HIDE DEF back, front
    <2>7. \A a, b \in 1..Len(w) : w[a] = w[b] => a = b
        BY <2>1, <2>3 DEF IsInjective
    <2>8. IsInjective(back)
        BY <2>3, <2>4, <2>5, <2>7 DEF IsInjective
    <2>9. IsInjective(front)
        <3> SUFFICES ASSUME NEW a \in 1..(Len(w) + 1), NEW b \in 1..(Len(w) + 1), front[a] = front[b]
                     PROVE  a = b
            BY <2>6 DEF IsInjective
        <3>1. CASE a = 1 \/ b = 1
            BY <2>3, <2>4, <2>6, <3>1
        <3>2. CASE a # 1 /\ b # 1
            <4>1. w[a - 1] = w[b - 1] /\ a - 1 \in 1..Len(w) /\ b - 1 \in 1..Len(w)
                BY <2>3, <2>6, <3>2
            <4> QED
                BY <2>3, <2>7, <4>1
        <3> QED
            BY <3>1, <3>2
    <2>10. \A x \in K : x = i \/ \E j \in 1..Len(w) : w[j] = x
        BY <2>1, <2>3 DEF Range
    <2>11. Range(back) = K
        <3>1. Range(back) \subseteq K
            BY <2>1, <2>4, <2>5 DEF Range
        <3>2. ASSUME NEW x \in K PROVE x \in Range(back)
            <4>1. CASE x = i
                BY <2>3, <2>5, <4>1 DEF Range
            <4>2. CASE \E j \in 1..Len(w) : w[j] = x
                BY <2>3, <2>5, <4>2 DEF Range
            <4> QED
                BY <2>10, <4>1, <4>2
        <3> QED
            BY <3>1, <3>2
    <2>12. Range(front) = K
        <3>1. Range(front) \subseteq K
            BY <2>1, <2>3, <2>4, <2>6 DEF Range
        <3>2. ASSUME NEW x \in K PROVE x \in Range(front)
            <4>1. CASE x = i
                BY <2>3, <2>6, <4>1 DEF Range
            <4>2. CASE \E j \in 1..Len(w) : w[j] = x
                <5>1. PICK j \in 1..Len(w) : w[j] = x
                    BY <4>2
                <5>2. j + 1 \in 1..(Len(w) + 1) /\ (j + 1) - 1 = j /\ j + 1 # 1
                    BY <2>3
                <5>3. front[j + 1] = x
                    BY <2>6, <5>1, <5>2
                <5> QED
                    BY <2>6, <5>2, <5>3 DEF Range
            <4> QED
                BY <2>10, <4>1, <4>2
        <3> QED
            BY <3>1, <3>2
    <2> QED
        BY <2>2, <2>5, <2>6, <2>8, <2>9, <2>11, <2>12 DEF Arrangement
<1> QED
    BY <1>1, <1>2

\* Demoting any list of keys, one after the other, keeps every key once.
LEMMA DemotedKeeps ==
    ASSUME NEW K, NEW ord \in Arrangement(K), NEW failed, Len(failed) \in Nat
    PROVE  Demoted(ord, failed) \in Arrangement(K)
<1> DEFINE M == Len(failed)
           S == Arrangement(K)
           Equation(h) == h = [n \in 0..M |-> IF n = 0 THEN ord ELSE ToBack(h[n - 1], failed[n])]
           step == [n \in 1..M |-> [q \in S |-> ToBack(q, failed[n])]]
<1>1. step \in [1..M -> [S -> S]]
    BY MovedKeeps
<1>2. \A n \in 1..M : \A q \in S : step[n][q] = ToBack(q, failed[n])
    OBVIOUS
<1> HIDE DEF step, S
<1>3. PICK f : Scan(f, M, S, ord, step)
    BY <1>1, Recursion DEF S
<1>4. ASSUME NEW n \in 1..M PROVE f[n] = ToBack(f[n - 1], failed[n])
    <2>1. n - 1 \in 0..M
        OBVIOUS
    <2>2. f[n - 1] \in S
        BY <1>3, <2>1 DEF Scan
    <2> QED
        BY <1>2, <1>3, <2>2 DEF Scan
<1>5. \A n \in 0..M : f[n] = IF n = 0 THEN ord ELSE ToBack(f[n - 1], failed[n])
    BY <1>3, <1>4 DEF Scan
<1>6. \E h : Equation(h)
    BY <1>3, <1>5 DEF Scan
<1>7. PICK h : Equation(h) /\ Demoted(ord, failed) = h[M]
    BY <1>6 DEF Demoted
<1> DEFINE Q == {n \in Nat : n <= M => h[n] \in S}
<1>8. h[0] = ord /\ \A n \in Nat : n + 1 <= M => h[n + 1] = ToBack(h[n], failed[n + 1])
    BY <1>7
<1> HIDE DEF Equation
<1>9. 0 \in Q
    BY <1>8 DEF S
<1>10. ASSUME NEW n \in Nat, n \in Q PROVE n + 1 \in Q
    BY <1>8, <1>10, MovedKeeps DEF S
<1>11. Nat \subseteq Q
    BY <1>9, <1>10, Induction
<1> QED
    BY <1>7, <1>11 DEF S

Ascends(s, keys) ==
    s \in [1..Cardinality(keys) -> keys] /\ \A j, k \in DOMAIN s : j < k => s[j] < s[k]

LEMMA AscentGrows ==
    ASSUME NEW n \in Nat, NEW keys \in SUBSET (1..(n + 1)), n + 1 \in keys,
           NEW s, Ascends(s, keys \ {n + 1})
    PROVE  \E t : Ascends(t, keys)
<1> DEFINE m == Cardinality(keys \ {n + 1})
           t == [j \in 1..(m + 1) |-> IF j = m + 1 THEN n + 1 ELSE s[j]]
<1>1. IsFiniteSet(1..(n + 1))
    BY FS_Interval
<1>2. IsFiniteSet(keys)
    BY <1>1, FS_Subset
<1>3. IsFiniteSet(keys \ {n + 1}) /\ Cardinality(keys \ {n + 1}) = Cardinality(keys) - 1
    BY <1>2, FS_RemoveElement
<1>4. m \in Nat /\ Cardinality(keys) \in Nat /\ m + 1 = Cardinality(keys)
    BY <1>2, <1>3, FS_CardinalityType
<1>5. s \in [1..m -> keys \ {n + 1}] /\ \A j, k \in 1..m : j < k => s[j] < s[k]
    BY DEF Ascends
<1> HIDE DEF m
<1>6. ASSUME NEW j \in 1..m PROVE s[j] \in keys /\ s[j] < n + 1
    <2>1. s[j] \in keys \ {n + 1}
        BY <1>5
    <2>2. s[j] \in 1..(n + 1) /\ s[j] # n + 1
        BY <2>1
    <2> QED
        BY <2>1, <2>2
<1>7. t \in [1..(m + 1) -> keys]
    BY <1>4, <1>6
<1>8. \A j, k \in 1..(m + 1) : j < k => t[j] < t[k]
    <2> SUFFICES ASSUME NEW j \in 1..(m + 1), NEW k \in 1..(m + 1), j < k PROVE t[j] < t[k]
        OBVIOUS
    <2>1. j \in 1..m /\ t[j] = s[j]
        BY <1>4
    <2>2. CASE k = m + 1
        BY <1>6, <2>1, <2>2
    <2>3. CASE k # m + 1
        <3>1. k \in 1..m /\ t[k] = s[k]
            BY <1>4, <2>3
        <3> QED
            BY <1>5, <2>1, <3>1
    <2> QED
        BY <2>2, <2>3
<1>9. t \in [1..Cardinality(keys) -> keys] /\ DOMAIN t = 1..(m + 1)
    BY <1>4, <1>7
<1> HIDE DEF t
<1> QED
    BY <1>8, <1>9 DEF Ascends

LEMMA AscentExists ==
    ASSUME NEW keys \in SUBSET Provider
    PROVE  \E s : Ascends(s, keys)
<1> DEFINE P == {n \in Nat : \A K \in SUBSET (1..n) : \E s : Ascends(s, K)}
<1>1. 0 \in P
    <2> SUFFICES ASSUME NEW K \in SUBSET (1..0) PROVE \E s : Ascends(s, K)
        OBVIOUS
    <2>1. K = {} /\ Cardinality({}) = 0
        BY FS_EmptySet
    <2>2. Ascends([j \in {} |-> j], K)
        BY <2>1 DEF Ascends
    <2> QED
        BY <2>2
<1>2. ASSUME NEW n \in Nat, n \in P PROVE n + 1 \in P
    <2> SUFFICES ASSUME NEW K \in SUBSET (1..(n + 1)) PROVE \E s : Ascends(s, K)
        OBVIOUS
    <2>1. K \ {n + 1} \in SUBSET (1..n)
        OBVIOUS
    <2>2. PICK s : Ascends(s, K \ {n + 1})
        BY <1>2, <2>1
    <2>3. CASE n + 1 \in K
        BY <2>2, <2>3, AscentGrows
    <2>4. CASE n + 1 \notin K
        <3>1. K \ {n + 1} = K
            BY <2>4
        <3> QED
            BY <2>2, <3>1
    <2> QED
        BY <2>3, <2>4
<1>3. N \in P
    BY <1>1, <1>2, Induction, FailoverAssumption
<1> QED
    BY <1>3 DEF Provider

LEMMA KeysAreFinite ==
    ASSUME NEW keys \in SUBSET Provider
    PROVE  IsFiniteSet(keys) /\ Cardinality(keys) \in Nat
<1>1. IsFiniteSet(Provider)
    BY FS_Interval, FailoverAssumption DEF Provider
<1> QED
    BY <1>1, FS_Subset, FS_CardinalityType

\* The configured order holds every configured key once.
LEMMA ConfiguredIsArranged ==
    ASSUME NEW keys \in SUBSET Provider
    PROVE  Configured(keys) \in Arrangement(keys)
<1> DEFINE s == Configured(keys)
           n == Cardinality(keys)
<1>1. s = CHOOSE r \in [1..n -> keys] : \A j, k \in DOMAIN r : j < k => r[j] < r[k]
    BY DEF Configured, Ascending
<1>2. \E r \in [1..n -> keys] : \A j, k \in DOMAIN r : j < k => r[j] < r[k]
    BY AscentExists DEF Ascends
<1> HIDE DEF s
<1>3. s \in [1..n -> keys] /\ \A j, k \in 1..n : j < k => s[j] < s[k]
    BY <1>1, <1>2
<1>4. IsFiniteSet(keys) /\ n \in Nat
    BY KeysAreFinite
<1> HIDE DEF n
<1>5. IsInjective(s)
    <2> SUFFICES ASSUME NEW a \in 1..n, NEW b \in 1..n, s[a] = s[b], a # b PROVE FALSE
        BY <1>3 DEF IsInjective
    <2>1. s[a] \in keys /\ s[b] \in keys
        BY <1>3
    <2>2. keys \subseteq Nat
        BY FailoverAssumption DEF Provider
    <2>3. s[a] \in Nat /\ s[b] \in Nat
        BY <2>1, <2>2
    <2>4. a < b \/ b < a
        BY <1>4
    <2> QED
        BY <1>3, <2>3, <2>4
<1>6. s \in Injection(1..n, keys)
    BY <1>3, <1>5 DEF Injection
<1>7. IsFiniteSet(1..n) /\ Cardinality(1..n) = n
    BY <1>4, FS_Interval
<1>8. s \in Surjection(1..n, keys)
    BY <1>4, <1>6, <1>7, FS_Injection DEF n
<1>9. Range(s) = keys
    BY <1>3, <1>8 DEF Range, Surjection
<1>10. s \in Seq(keys)
    BY <1>3, <1>4
<1> QED
    BY <1>5, <1>9, <1>10 DEF Arrangement, s

-----------------------------------------------------------------------------
(***************************************************************************)
(* The invariant, part by part                                             *)
(***************************************************************************)

Counts == [Provider -> 0..CountMask]

CallRecord ==
    [pc : CallState, drained : Counts, snapshot : Seq(Provider), pos : Nat,
     failed : Seq(Provider), saw_content : BOOLEAN]

Typed ==
    /\ blacklist \in [Provider -> {"no", "hour", "over", "forever"}]
    /\ tally \in [Provider -> [pending : BOOLEAN, count : 0..CountMask]]
    /\ last_fallback \in {NoProvider} \cup [requested : Provider, served_by : Provider]
    /\ auditing \in BOOLEAN /\ restarts \in 0..MaxRestarts
    /\ errors \in [Provider -> Nat] /\ settled \in [Provider -> Nat]

\* The order holds each key once, and each one it holds is filed or was refused.
Rotating ==
    /\ rotation \subseteq Provider /\ refused \subseteq Provider /\ 1 \in rotation
    /\ order \in Arrangement(Range(order))
    /\ rotation \subseteq Range(order) /\ Range(order) \subseteq Provider
    /\ Range(order) \subseteq rotation \cup refused

\* A walk over a snapshot of the order: what failed is behind it, each key once, and
\* only a fold holds counts.
Walks(p, d, s, n, f, keys) ==
    /\ IsInjective(s) /\ Range(s) \subseteq keys
    /\ n \in 1..(Len(s) + 1)
    /\ p \in {"request", "promote", "stream"} => n <= Len(s)
    /\ IsInjective(f)
    /\ \A x \in Range(f) : \E j \in 1..(n - 1) : s[j] = x
    /\ p \in {"idle", "fold", "carry", "snapshot", "expire"} => f = <<>> /\ n = 1
    /\ p \notin {"fold", "carry"} => d = Zero

Walked(r, keys) == Walks(r.pc, r.drained, r.snapshot, r.pos, r.failed, keys)

Calls == call \in [Call -> CallRecord] /\ \A c \in Call : Walked(call[c], Range(order))

Base == Typed /\ Rotating /\ Calls

Counted == Total(errors) <= MaxErrors /\ StrikesConserved

ProviderInv == Base /\ Counted

-----------------------------------------------------------------------------
(***************************************************************************)
(* Base                                                                    *)
(***************************************************************************)

LEMMA ZeroIsCounts == Zero \in Counts /\ NoFailure \in [pending : BOOLEAN, count : 0..CountMask]
BY FailoverAssumption DEF Zero, Counts, NoFailure

LEMMA IdleIsWalked ==
    ASSUME NEW keys
    PROVE  Idle \in CallRecord /\ Walked(Idle, keys)
<1>1. Idle \in CallRecord
    BY ZeroIsCounts DEF Idle, CallRecord, CallState
<1>2. /\ Idle.pc = "idle" /\ Idle.drained = Zero /\ Idle.snapshot = <<>> /\ Idle.pos = 1
      /\ Idle.failed = <<>>
    BY DEF Idle
<1>3. Range(<<>>) = {} /\ IsInjective(<<>>) /\ Len(<<>>) = 0
    BY DEF Range, IsInjective
<1>4. Walked(Idle, keys)
    BY <1>2, <1>3 DEF Walked, Walks
<1> QED
    BY <1>1, <1>4

LEMMA BootIsBase ==
    ASSUME NEW keys \in SUBSET Provider, 1 \in keys, Boot(keys), rotation = keys,
           restarts \in 0..MaxRestarts
    PROVE  Base
<1>1. order \in Arrangement(keys)
    BY ConfiguredIsArranged DEF Boot
<1>2. Range(order) = keys
    BY <1>1 DEF Arrangement
<1>3. Typed
    BY ZeroIsCounts DEF Typed, Boot, Zero
<1>4. Rotating
    BY <1>1, <1>2 DEF Rotating, Boot
<1>5. Calls
    BY IdleIsWalked DEF Calls, Boot
<1> QED
    BY <1>3, <1>4, <1>5 DEF Base

LEMMA InitBase == ProviderInit => Base
<1>1. 1 \in Provider
    BY FailoverAssumption DEF Provider
<1>2. 0 \in 0..MaxRestarts
    BY FailoverAssumption
<1> QED
    BY <1>1, <1>2, BootIsBase DEF ProviderInit

-----------------------------------------------------------------------------
(* One call moves. *)

Turns(g, h, c, p, d, s, n, f, w) ==
    /\ h \in [Call -> CallRecord] /\ \A e \in Call \ {c} : h[e] = g[e]
    /\ h[c].pc = p /\ h[c].drained = d /\ h[c].snapshot = s /\ h[c].pos = n
    /\ h[c].failed = f /\ h[c].saw_content = w

Becomes(c, p, d, s, n, f, w) == Turns(call, call', c, p, d, s, n, f, w)

LEMMA CallRewritten ==
    ASSUME NEW g \in [Call -> CallRecord], NEW c \in Call,
           NEW p \in CallState, NEW d \in Counts, NEW s \in Seq(Provider), NEW n \in Nat,
           NEW f \in Seq(Provider), NEW w \in BOOLEAN
    PROVE
      /\ Turns(g, [g EXCEPT ![c].pc = p],
                 c, p, g[c].drained, g[c].snapshot, g[c].pos, g[c].failed, g[c].saw_content)
      /\ Turns(g, [g EXCEPT ![c].pos = n],
                 c, g[c].pc, g[c].drained, g[c].snapshot, n, g[c].failed, g[c].saw_content)
      /\ Turns(g, [g EXCEPT ![c].saw_content = w],
                 c, g[c].pc, g[c].drained, g[c].snapshot, g[c].pos, g[c].failed, w)
      /\ Turns(g, [g EXCEPT ![c].drained = d, ![c].pc = p],
                 c, p, d, g[c].snapshot, g[c].pos, g[c].failed, g[c].saw_content)
      /\ Turns(g, [g EXCEPT ![c].snapshot = s, ![c].pc = p],
                 c, p, g[c].drained, s, g[c].pos, g[c].failed, g[c].saw_content)
      /\ Turns(g, [g EXCEPT ![c].failed = f, ![c].pos = n, ![c].pc = p],
                 c, p, g[c].drained, g[c].snapshot, n, f, g[c].saw_content)
<1>1. Turns(g, [g EXCEPT ![c].pc = p],
                 c, p, g[c].drained, g[c].snapshot, g[c].pos, g[c].failed, g[c].saw_content)
    BY DEF CallRecord, Turns
<1>2. Turns(g, [g EXCEPT ![c].pos = n],
                 c, g[c].pc, g[c].drained, g[c].snapshot, n, g[c].failed, g[c].saw_content)
    BY DEF CallRecord, Turns
<1>3. Turns(g, [g EXCEPT ![c].saw_content = w],
                 c, g[c].pc, g[c].drained, g[c].snapshot, g[c].pos, g[c].failed, w)
    BY DEF CallRecord, Turns
<1>4. Turns(g, [g EXCEPT ![c].drained = d, ![c].pc = p],
                 c, p, d, g[c].snapshot, g[c].pos, g[c].failed, g[c].saw_content)
    BY DEF CallRecord, Turns
<1>5. Turns(g, [g EXCEPT ![c].snapshot = s, ![c].pc = p],
                 c, p, g[c].drained, s, g[c].pos, g[c].failed, g[c].saw_content)
    BY DEF CallRecord, Turns
<1>6. Turns(g, [g EXCEPT ![c].failed = f, ![c].pos = n, ![c].pc = p],
                 c, p, g[c].drained, g[c].snapshot, n, f, g[c].saw_content)
    BY DEF CallRecord, Turns
<1> QED
    BY <1>1, <1>2, <1>3, <1>4, <1>5, <1>6

LEMMA Turned ==
    ASSUME Calls, NEW c \in Call, NEW p, NEW d, NEW s, NEW n, NEW f, NEW w,
           Becomes(c, p, d, s, n, f, w), Walks(p, d, s, n, f, Range(order)),
           Range(order') = Range(order)
    PROVE  Calls'
<1>1. call' \in [Call -> CallRecord]
    BY DEF Becomes, Turns
<1>2. ASSUME NEW e \in Call PROVE Walked(call'[e], Range(order))
    <2>1. CASE e = c
        BY <2>1 DEF Becomes, Turns, Walked
    <2>2. CASE e # c
        BY <2>2 DEF Becomes, Turns, Calls
    <2> QED
        BY <2>1, <2>2
<1>3. \A e \in Call : Walked(call'[e], Range(order'))
    BY <1>2
<1> QED
    BY <1>1, <1>3 DEF Calls

LEMMA KeyOnTheWay ==
    ASSUME Base, NEW c \in Call, call[c].pos <= Len(call[c].snapshot)
    PROVE  /\ KeyOf(c) \in Range(order) /\ KeyOf(c) \in Provider
           /\ KeyOf(c) \notin Range(call[c].failed)
           /\ call[c].pos \in 1..Len(call[c].snapshot)
           /\ call[c].pos \in DOMAIN call[c].snapshot
<1> DEFINE r == call[c]
           s == r.snapshot
<1>1. r \in CallRecord /\ Walks(r.pc, r.drained, s, r.pos, r.failed, Range(order))
    BY DEF Base, Calls, Walked
<1>2. s \in Seq(Provider) /\ Len(s) \in Nat /\ DOMAIN s = 1..Len(s) /\ r.pos \in Nat
    BY <1>1, LenProperties DEF CallRecord
<1>3. r.pos \in 1..Len(s)
    BY <1>1, <1>2 DEF Walks
<1>4. s[r.pos] \in Range(order) /\ s[r.pos] \in Provider
    <2>1. s[r.pos] \in Range(s)
        BY <1>2, <1>3 DEF Range
    <2>2. Range(s) \subseteq Range(order)
        BY <1>1 DEF Walks
    <2> QED
        BY <1>2, <1>3, <2>1, <2>2
<1>5. ASSUME s[r.pos] \in Range(r.failed) PROVE FALSE
    <2>1. PICK j \in 1..(r.pos - 1) : s[j] = s[r.pos]
        BY <1>1, <1>5 DEF Walks
    <2>2. j \in 1..Len(s) /\ j # r.pos
        BY <1>2, <1>3
    <2> QED
        BY <1>1, <1>2, <1>3, <2>1, <2>2 DEF Walks, IsInjective
<1> QED
    BY <1>2, <1>3, <1>4, <1>5 DEF KeyOf

\* The key that failed joins those behind the walk.
LEMMA FailedGrows ==
    ASSUME Base, NEW c \in Call, call[c].pc = "request"
    PROVE  /\ Append(call[c].failed, KeyOf(c)) \in Seq(Provider)
           /\ Walks("try", call[c].drained, call[c].snapshot, call[c].pos + 1,
                    Append(call[c].failed, KeyOf(c)), Range(order))
<1> DEFINE r == call[c]
           s == r.snapshot
           f == r.failed
           k == KeyOf(c)
           g == Append(f, k)
<1>1. r \in CallRecord /\ Walks(r.pc, r.drained, s, r.pos, f, Range(order))
    BY DEF Base, Calls, Walked
<1>2. s \in Seq(Provider) /\ f \in Seq(Provider) /\ Len(s) \in Nat /\ r.pos \in Nat
    BY <1>1, LenProperties DEF CallRecord
<1>3. r.pos <= Len(s)
    BY <1>1 DEF Walks
<1>4. k \in Provider /\ k \notin Range(f) /\ r.pos \in 1..Len(s)
    BY <1>3, KeyOnTheWay
<1>5. k = s[r.pos]
    BY DEF KeyOf
<1> HIDE DEF k
<1>6. Len(f) \in Nat /\ DOMAIN f = 1..Len(f)
    BY <1>2, LenProperties
<1>7. g \in Seq(Provider) /\ DOMAIN g = 1..(Len(f) + 1)
      /\ \A j \in 1..(Len(f) + 1) : g[j] = IF j = Len(f) + 1 THEN k ELSE f[j]
    BY <1>2, <1>4, <1>6
<1> HIDE DEF g
<1>8. \A j \in 1..Len(f) : f[j] # k
    BY <1>4, <1>6 DEF Range
<1>9. IsInjective(f)
    BY <1>1 DEF Walks
<1>10. IsInjective(g)
    <2> SUFFICES ASSUME NEW a \in 1..(Len(f) + 1), NEW b \in 1..(Len(f) + 1), g[a] = g[b]
                 PROVE  a = b
        BY <1>7 DEF IsInjective
    <2>1. CASE a = Len(f) + 1 \/ b = Len(f) + 1
        BY <1>6, <1>7, <1>8, <2>1
    <2>2. CASE a \in 1..Len(f) /\ b \in 1..Len(f)
        BY <1>6, <1>7, <1>9, <2>2 DEF IsInjective
    <2> QED
        BY <1>6, <2>1, <2>2
<1>11. ASSUME NEW x \in Range(g) PROVE \E j \in 1..((r.pos + 1) - 1) : s[j] = x
    <2>1. x = k \/ x \in Range(f)
        BY <1>6, <1>7 DEF Range
    <2>2. CASE x = k
        BY <1>2, <1>4, <1>5, <2>2
    <2>3. CASE x \in Range(f)
        <3>1. PICK j \in 1..(r.pos - 1) : s[j] = x
            BY <1>1, <2>3 DEF Walks
        <3>2. j \in 1..((r.pos + 1) - 1)
            BY <1>2
        <3> QED
            BY <3>1, <3>2
    <2> QED
        BY <2>1, <2>2, <2>3
<1>12. r.pos + 1 \in 1..(Len(s) + 1)
    BY <1>2, <1>4
<1> QED
    BY <1>1, <1>7, <1>10, <1>11, <1>12 DEF Walks, g, k

LEMMA PendingAreCounts ==
    ASSUME Typed
    PROVE  PendingCounts \in Counts
BY FailoverAssumption DEF Typed, PendingCounts, Counts

LEMMA StruckLeave ==
    ASSUME NEW c \in Call, call[c] \in CallRecord
    PROVE  [i \in Provider |-> IF i \in Struck(c) THEN 0 ELSE call[c].drained[i]] \in Counts
BY FailoverAssumption DEF CallRecord, Counts

-----------------------------------------------------------------------------
(* What a step does to the call it is of. *)

Shares == <<blacklist, tally, last_fallback, auditing, rotation, restarts, accounts>>

LEMMA OrderMoves ==
    ASSUME Rotating, order' \in Arrangement(Range(order)), UNCHANGED <<rotation, refused>>
    PROVE  Rotating' /\ Range(order') = Range(order)
BY DEF Rotating, Arrangement

LEMMA OrderStays ==
    ASSUME Rotating, UNCHANGED order, rotation' \subseteq rotation, 1 \in rotation',
           refused' \subseteq Provider, rotation \cup refused \subseteq rotation' \cup refused'
    PROVE  Rotating' /\ Range(order') = Range(order)
BY DEF Rotating

LEMMA DrainBase ==
    ASSUME Base, NEW c \in Call, Drain(c)
    PROVE  /\ Base'
           /\ \E p \in CallState : Becomes(c, p, PendingCounts, call[c].snapshot, call[c].pos,
                                           call[c].failed, call[c].saw_content)
<1> DEFINE p == IF PendingCounts = Zero THEN "snapshot" ELSE "fold"
           r == call[c]
<1>1. r \in CallRecord /\ Walks(r.pc, r.drained, r.snapshot, r.pos, r.failed, Range(order)) /\ r.pc = "idle"
    BY DEF Base, Calls, Walked, Drain
<1>2. PendingCounts \in Counts
    BY PendingAreCounts DEF Base
<1>3. call' = [call EXCEPT ![c].drained = PendingCounts, ![c].pc = p]
    BY DEF Drain
<1>4. p \in CallState /\ p \in {"snapshot", "fold"} /\ (p # "fold" => PendingCounts = Zero)
    BY DEF CallState
<1> HIDE DEF p
<1>5. Becomes(c, p, PendingCounts, r.snapshot, r.pos, r.failed, r.saw_content)
    BY <1>1, <1>2, <1>3, <1>4, CallRewritten DEF Base, Calls, Becomes, CallRecord
<1>6. Walks(p, PendingCounts, r.snapshot, r.pos, r.failed, Range(order))
    BY <1>1, <1>4 DEF Walks
<1>7. Typed'
    BY ZeroIsCounts DEF Base, Typed, Drain, accounts
<1>8. Rotating' /\ Range(order') = Range(order)
    BY DEF Base, Rotating, Drain, accounts
<1>9. Calls'
    BY <1>5, <1>6, <1>8, Turned DEF Base
<1> QED
    BY <1>4, <1>5, <1>7, <1>8, <1>9 DEF Base

LEMMA FoldBase ==
    ASSUME Base, NEW c \in Call, Fold(c)
    PROVE  /\ Base'
           /\ \E p \in CallState : Becomes(c, p,
                 [i \in Provider |-> IF i \in Struck(c) THEN 0 ELSE call[c].drained[i]],
                 call[c].snapshot, call[c].pos, call[c].failed, call[c].saw_content)
<1> DEFINE p == IF DrainedKeys(c) = Struck(c) THEN "snapshot" ELSE "carry"
           r == call[c]
           d == [i \in Provider |-> IF i \in Struck(c) THEN 0 ELSE call[c].drained[i]]
<1>1. r \in CallRecord /\ Walks(r.pc, r.drained, r.snapshot, r.pos, r.failed, Range(order)) /\ r.pc = "fold"
    BY DEF Base, Calls, Walked, Fold
<1>2. d \in Counts
    BY <1>1, StruckLeave
<1>3. call' = [call EXCEPT ![c].drained = d, ![c].pc = p]
    <2>1. call' = [call EXCEPT
                      ![c].drained = [i \in Provider |-> IF i \in Struck(c) THEN 0 ELSE @[i]],
                      ![c].pc = p]
        BY DEF Fold
    <2> QED
        BY <1>1, <2>1 DEF Base, Calls
<1>4. p \in CallState /\ p \in {"snapshot", "carry"}
    BY DEF CallState
<1>5. p # "carry" => d = Zero
    <2>1. \A i \in Provider : r.drained[i] \in Nat
        BY <1>1, FailoverAssumption DEF CallRecord, Counts
    <2>2. ASSUME DrainedKeys(c) = Struck(c), NEW i \in Provider PROVE d[i] = 0
        <3>1. i \notin DrainedKeys(c) => r.drained[i] = 0
            BY <2>1 DEF DrainedKeys
        <3> QED
            BY <2>2, <3>1
    <2> QED
        BY <2>2 DEF Zero
<1> HIDE DEF p, d
<1>6. Becomes(c, p, d, r.snapshot, r.pos, r.failed, r.saw_content)
    BY <1>1, <1>2, <1>3, <1>4, CallRewritten DEF Base, Calls, Becomes, CallRecord
<1>7. Walks(p, d, r.snapshot, r.pos, r.failed, Range(order))
    BY <1>1, <1>4, <1>5 DEF Walks
<1>8. blacklist' \in [Provider -> {"no", "hour", "over", "forever"}]
    BY DEF Base, Typed, Fold
<1>9. settled' \in [Provider -> Nat]
    <2>1. ASSUME NEW i \in Provider PROVE settled[i] + (IF i \in Struck(c) THEN r.drained[i] ELSE 0) \in Nat
        BY <1>1, FailoverAssumption DEF Base, Typed, CallRecord, Counts
    <2> QED
        BY <2>1 DEF Fold
<1>10. Typed'
    BY <1>8, <1>9 DEF Base, Typed, Fold
<1>11. order' \in Arrangement(Range(order))
    <2>1. PICK demoted \in Injection(1..Cardinality(DrainedKeys(c) \ Struck(c)), DrainedKeys(c) \ Struck(c)) :
             order' = Demoted(order, demoted)
        BY DEF Fold
    <2>2. Cardinality(DrainedKeys(c) \ Struck(c)) \in Nat
        BY KeysAreFinite DEF DrainedKeys
    <2>3. Len(demoted) \in Nat
        BY <2>1, <2>2 DEF Injection
    <2> QED
        BY <2>1, <2>3, DemotedKeeps DEF Base, Rotating
<1>12. Rotating' /\ Range(order') = Range(order)
    BY <1>11, OrderMoves DEF Base, Fold
<1>13. Calls'
    BY <1>6, <1>7, <1>12, Turned DEF Base
<1> QED
    BY <1>4, <1>6, <1>10, <1>12, <1>13 DEF Base, d

LEMMA CarryBase ==
    ASSUME Base, NEW c \in Call, Carry(c)
    PROVE  /\ Base'
           /\ Becomes(c, "snapshot", Zero, call[c].snapshot, call[c].pos, call[c].failed,
                      call[c].saw_content)
<1> DEFINE r == call[c]
<1>1. r \in CallRecord /\ Walks(r.pc, r.drained, r.snapshot, r.pos, r.failed, Range(order)) /\ r.pc = "carry"
    BY DEF Base, Calls, Walked, Carry
<1>2. Becomes(c, "snapshot", Zero, r.snapshot, r.pos, r.failed, r.saw_content)
    BY <1>1, ZeroIsCounts, CallRewritten DEF Base, Calls, Becomes, CallRecord, CallState, Carry
<1>3. Walks("snapshot", Zero, r.snapshot, r.pos, r.failed, Range(order))
    BY <1>1 DEF Walks
<1>4. tally' \in [Provider -> [pending : BOOLEAN, count : 0..CountMask]]
    <2>1. ASSUME NEW i \in Provider
          PROVE  CountsCarried(tally[i], r.drained[i]) \in [pending : BOOLEAN, count : 0..CountMask]
        <3>1. /\ tally[i] \in [pending : BOOLEAN, count : 0..CountMask]
              /\ r.drained[i] \in 0..CountMask
            BY <1>1 DEF Base, Typed, CallRecord, Counts
        <3>2. Capped(tally[i].count + r.drained[i]) \in 0..CountMask
            BY <3>1, FailoverAssumption DEF Capped
        <3> QED
            BY <3>1, <3>2 DEF CountsCarried
    <2> QED
        BY <2>1 DEF Carry, Base, Typed
<1>5. Typed'
    BY <1>4 DEF Base, Typed, Carry, accounts
<1>6. Rotating' /\ Range(order') = Range(order)
    BY DEF Base, Rotating, Carry, accounts
<1>7. Calls'
    BY <1>2, <1>3, <1>6, Turned DEF Base
<1> QED
    BY <1>2, <1>5, <1>6, <1>7 DEF Base

\* No fold gained or lost a count.
HandsStay == \A e \in Call : call'[e].drained = call[e].drained

LEMMA TurnedQuietly ==
    ASSUME Base, NEW c \in Call, NEW p, NEW s, NEW n, NEW f, NEW w,
           Becomes(c, p, call[c].drained, s, n, f, w)
    PROVE  HandsStay
BY DEF Becomes, Turns, HandsStay

LEMMA WalkBase ==
    ASSUME Base, NEW c \in Call, Snapshot(c) \/ Expire(c) \/ Try(c) \/ Content(c)
    PROVE  Base' /\ HandsStay
<1> DEFINE r == call[c]
<1>1. r \in CallRecord /\ Walks(r.pc, r.drained, r.snapshot, r.pos, r.failed, Range(order))
    BY DEF Base, Calls, Walked
<1>2. Typed'
    <2>1. CASE Expire(c)
        BY <2>1 DEF Base, Typed, Expire, accounts
    <2>2. CASE Snapshot(c) \/ Try(c) \/ Content(c)
        BY <2>2 DEF Base, Typed, Snapshot, Try, Content, accounts, locks
    <2> QED
        BY <2>1, <2>2
<1>3. Rotating' /\ Range(order') = Range(order)
    BY DEF Base, Rotating, Snapshot, Expire, Try, Content, accounts, locks
<1>4. CASE Snapshot(c)
    <2>1. order \in Seq(Provider) /\ IsInjective(order) /\ Len(order) \in Nat
        <3>1. order \in Seq(Range(order)) /\ Range(order) \subseteq Provider
            BY DEF Base, Rotating, Arrangement
        <3>2. order \in Seq(Provider)
            BY <3>1
        <3> QED
            BY <3>2, LenProperties DEF Base, Rotating, Arrangement
    <2>2. Becomes(c, "expire", r.drained, order, r.pos, r.failed, r.saw_content)
        BY <1>1, <1>4, <2>1, CallRewritten DEF Base, Calls, Becomes, CallRecord, CallState, Snapshot
    <2>3. Walks("expire", r.drained, order, r.pos, r.failed, Range(order))
        BY <1>1, <1>4, <2>1 DEF Walks, Snapshot
    <2> QED
        BY <1>2, <1>3, <2>2, <2>3, Turned, TurnedQuietly DEF Base
<1>5. CASE Expire(c)
    <2>1. Becomes(c, "try", r.drained, r.snapshot, r.pos, r.failed, r.saw_content)
        BY <1>1, <1>5, CallRewritten DEF Base, Calls, Becomes, CallRecord, CallState, Expire, Goto
    <2>2. Walks("try", r.drained, r.snapshot, r.pos, r.failed, Range(order))
        BY <1>1, <1>5 DEF Walks, Expire
    <2> QED
        BY <1>2, <1>3, <2>1, <2>2, Turned, TurnedQuietly DEF Base
<1>6. CASE Try(c)
    <2>1. r.pos \in 1..Len(r.snapshot) /\ r.pc = "try" /\ r.pos + 1 \in Nat /\ r.pos + 1 \in 1..(Len(r.snapshot) + 1)
        BY <1>1, <1>6, LenProperties DEF Try, CallRecord, Walks
    <2>2. \/ Becomes(c, "try", r.drained, r.snapshot, r.pos + 1, r.failed, r.saw_content)
          \/ Becomes(c, "request", r.drained, r.snapshot, r.pos, r.failed, r.saw_content)
        <3>1. \/ call' = [call EXCEPT ![c].pos = r.pos + 1]
              \/ call' = [call EXCEPT ![c].pc = "request"]
            <4>1. \/ call' = [call EXCEPT ![c].pos = @ + 1]
                  \/ call' = [call EXCEPT ![c].pc = "request"]
                BY <1>6 DEF Try, Goto
            <4> QED
                BY <4>1 DEF Base, Calls
        <3>2. ASSUME call' = [call EXCEPT ![c].pos = r.pos + 1]
              PROVE  Becomes(c, r.pc, r.drained, r.snapshot, r.pos + 1, r.failed, r.saw_content)
            BY <1>1, <2>1, <3>2, CallRewritten DEF Base, Calls, Becomes, CallRecord
        <3>3. ASSUME call' = [call EXCEPT ![c].pc = "request"]
              PROVE  Becomes(c, "request", r.drained, r.snapshot, r.pos, r.failed, r.saw_content)
            BY <1>1, <3>3, CallRewritten DEF Base, Calls, Becomes, CallRecord, CallState
        <3> QED
            BY <2>1, <3>1, <3>2, <3>3
    <2>3. Walks("request", r.drained, r.snapshot, r.pos, r.failed, Range(order))
        BY <1>1, <2>1 DEF Walks
    <2>4. Walks("try", r.drained, r.snapshot, r.pos + 1, r.failed, Range(order))
        <3>1. ASSUME NEW x \in Range(r.failed) PROVE \E j \in 1..((r.pos + 1) - 1) : r.snapshot[j] = x
            <4>1. PICK j \in 1..(r.pos - 1) : r.snapshot[j] = x
                BY <1>1 DEF Walks
            <4>2. j \in 1..((r.pos + 1) - 1)
                BY <2>1
            <4> QED
                BY <4>1, <4>2
        <3> QED
            BY <1>1, <2>1, <3>1 DEF Walks
    <2>5. CASE Becomes(c, "try", r.drained, r.snapshot, r.pos + 1, r.failed, r.saw_content)
        BY <1>2, <1>3, <2>5, <2>4, Turned, TurnedQuietly DEF Base
    <2>6. CASE Becomes(c, "request", r.drained, r.snapshot, r.pos, r.failed, r.saw_content)
        BY <1>2, <1>3, <2>6, <2>3, Turned, TurnedQuietly DEF Base
    <2> QED
        BY <2>2, <2>5, <2>6
<1>7. CASE Content(c)
    <2>1. Becomes(c, r.pc, r.drained, r.snapshot, r.pos, r.failed, TRUE)
        BY <1>1, <1>7, CallRewritten DEF Base, Calls, Becomes, CallRecord, Content
    <2> QED
        BY <1>1, <1>2, <1>3, <2>1, Turned, TurnedQuietly DEF Base
<1> QED
    BY <1>4, <1>5, <1>6, <1>7

LEMMA AcceptBase ==
    ASSUME Base, NEW c \in Call, Accepted(c) \/ Promote(c)
    PROVE  Base' /\ HandsStay
<1> DEFINE r == call[c]
<1>1. r \in CallRecord /\ Walks(r.pc, r.drained, r.snapshot, r.pos, r.failed, Range(order))
    BY DEF Base, Calls, Walked
<1>2. r.pc \in {"request", "promote"} /\ r.pos <= Len(r.snapshot)
    BY <1>1 DEF Accepted, Promote, Walks
<1>3. KeyOf(c) \in Provider /\ r.pos \in 1..Len(r.snapshot)
    BY <1>2, KeyOnTheWay
<1>4. PICK p \in {"stream", "promote"} : call' = [call EXCEPT ![c].pc = p]
    BY DEF Accepted, Promote, Goto
<1>5. Becomes(c, p, r.drained, r.snapshot, r.pos, r.failed, r.saw_content)
    <2>1. p \in CallState
        BY DEF CallState
    <2> QED
        BY <1>1, <1>4, <2>1, CallRewritten DEF Base, Calls, Becomes, CallRecord
<1>6. Walks(p, r.drained, r.snapshot, r.pos, r.failed, Range(order))
    BY <1>1, <1>2, <1>3 DEF Walks
<1>7. CASE Accepted(c)
    <2>1. NotedLabel(c) \in {NoProvider} \cup [requested : Provider, served_by : Provider]
        <3>1. r.snapshot \in Seq(Provider) /\ Len(r.snapshot) \in Nat
            BY <1>1, LenProperties DEF CallRecord
        <3>2. 1 \in 1..Len(r.snapshot)
            BY <1>3, <3>1
        <3>3. r.snapshot[1] \in Provider
            BY <3>1, <3>2
        <3> QED
            BY <1>3, <3>3 DEF NotedLabel
    <2>2. Typed'
        BY <1>7, <2>1 DEF Base, Typed, Accepted, accounts
    <2>3. Rotating' /\ Range(order') = Range(order)
        BY <1>7 DEF Base, Rotating, Accepted, accounts
    <2> QED
        BY <1>5, <1>6, <2>2, <2>3, Turned, TurnedQuietly DEF Base
<1>8. CASE Promote(c)
    <2>1. Typed'
        BY <1>8 DEF Base, Typed, Promote, accounts
    <2>2. Len(r.failed) \in Nat
        BY <1>1, LenProperties DEF CallRecord
    <2>3. order' \in Arrangement(Range(order))
        <3>1. order \in Arrangement(Range(order))
            BY DEF Base, Rotating
        <3>2. (IF r.pos > 1 THEN ToFront(order, KeyOf(c)) ELSE order) \in Arrangement(Range(order))
            BY <3>1, MovedKeeps
        <3>3. order' = Demoted(IF r.pos > 1 THEN ToFront(order, KeyOf(c)) ELSE order, r.failed)
            BY <1>8 DEF Promote, Reordered
        <3> QED
            BY <2>2, <3>2, <3>3, DemotedKeeps
    <2>4. Rotating' /\ Range(order') = Range(order)
        BY <1>8, <2>3, OrderMoves DEF Base, Promote, accounts
    <2> QED
        BY <1>5, <1>6, <2>1, <2>4, Turned, TurnedQuietly DEF Base
<1> QED
    BY <1>7, <1>8

LEMMA PushBase ==
    ASSUME Base, NEW c \in Call, Refused(c) \/ Failed(c)
    PROVE  /\ Base' /\ HandsStay
           /\ rotation \ rotation' \subseteq refused'
<1> DEFINE r == call[c]
           k == KeyOf(c)
<1>1. r \in CallRecord /\ Walks(r.pc, r.drained, r.snapshot, r.pos, r.failed, Range(order)) /\ r.pc = "request"
    BY DEF Base, Calls, Walked, Refused, Failed
<1>2. k \in Provider /\ k \in Range(order) /\ r.pos \in 1..Len(r.snapshot)
    BY <1>1, KeyOnTheWay DEF Walks
<1>3. Append(r.failed, k) \in Seq(Provider) /\ Walks("try", r.drained, r.snapshot, r.pos + 1, Append(r.failed, k), Range(order))
    BY <1>1, FailedGrows
<1>4. call' = [call EXCEPT ![c].failed = Append(r.failed, k), ![c].pos = r.pos + 1, ![c].pc = "try"]
    <2>1. call' = [call EXCEPT ![c].failed = Append(@, k), ![c].pos = @ + 1, ![c].pc = "try"]
        BY DEF Refused, Failed, PushFailed
    <2> QED
        BY <2>1 DEF Base, Calls
<1>5. Becomes(c, "try", r.drained, r.snapshot, r.pos + 1, Append(r.failed, k), r.saw_content)
    <2> DEFINE f == Append(r.failed, k)
               n == r.pos + 1
    <2>1. /\ call \in [Call -> CallRecord] /\ f \in Seq(Provider) /\ n \in Nat /\ "try" \in CallState
          /\ r.drained \in Counts /\ r.snapshot \in Seq(Provider) /\ r.saw_content \in BOOLEAN
        BY <1>1, <1>3 DEF Base, Calls, CallRecord, CallState
    <2>2. call' = [call EXCEPT ![c].failed = f, ![c].pos = n, ![c].pc = "try"]
        BY <1>4
    <2> HIDE DEF f, n
    <2>3. Turns(call, [call EXCEPT ![c].failed = f, ![c].pos = n, ![c].pc = "try"],
                 c, "try", call[c].drained, call[c].snapshot, n, f, call[c].saw_content)
        BY <2>1, CallRewritten
    <2> QED
        BY <2>2, <2>3 DEF Becomes, f, n
<1>6. CASE Failed(c)
    <2>1. Typed' /\ Rotating' /\ Range(order') = Range(order)
        BY <1>6 DEF Base, Typed, Rotating, Failed, accounts, locks
    <2> QED
        BY <1>3, <1>5, <1>6, <2>1, Turned, TurnedQuietly DEF Base, Failed
<1>7. CASE Refused(c)
    <2> HIDE DEF k
    <2>1. Typed'
        BY <1>2, <1>7 DEF Base, Typed, Refused, k
    <2>2. rotation' \in Persisted(k) /\ refused' = refused \cup {k}
        BY <1>7 DEF Refused, k
    <2>3. 1 \in rotation
        BY DEF Base, Rotating
    <2>4. rotation' \subseteq rotation /\ 1 \in rotation' /\ rotation \ rotation' \subseteq {k}
        BY <2>2, <2>3 DEF Persisted
    <2>5. refused' \subseteq Provider
        BY <1>2, <2>2 DEF Base, Rotating
    <2>6. Rotating' /\ Range(order') = Range(order)
        BY <1>7, <2>2, <2>4, <2>5, OrderStays DEF Base, Refused
    <2> QED
        BY <1>3, <1>5, <2>1, <2>2, <2>4, <2>6, Turned, TurnedQuietly DEF Base
<1> QED
    BY <1>6, <1>7

-----------------------------------------------------------------------------
(* A call ends. *)

LEMMA EndedCall ==
    ASSUME Base, NEW c \in Call, call' = [call EXCEPT ![c] = Idle], Range(order') = Range(order)
    PROVE  /\ Calls' /\ call'[c].drained = Zero
           /\ call[c].pc \notin {"fold", "carry"} => HandsStay
<1>1. Idle \in CallRecord /\ Walked(Idle, Range(order)) /\ Idle.drained = Zero
    BY IdleIsWalked DEF Idle
<1>2. call' \in [Call -> CallRecord] /\ call'[c] = Idle /\ \A e \in Call \ {c} : call'[e] = call[e]
    BY <1>1 DEF Base, Calls
<1>3. Calls'
    BY <1>1, <1>2 DEF Base, Calls
<1>4. call[c].pc \notin {"fold", "carry"} => call[c].drained = Zero
    BY DEF Base, Calls, Walked, Walks
<1> QED
    BY <1>1, <1>2, <1>3, <1>4 DEF HandsStay

LEMMA EndBase ==
    ASSUME Base, NEW c \in Call, ModelDead(c) \/ Exhausted(c)
    PROVE  Base' /\ HandsStay
<1>1. CASE ModelDead(c)
    <2>1. Typed' /\ Rotating' /\ Range(order') = Range(order)
        BY <1>1 DEF Base, Typed, Rotating, ModelDead, accounts, locks
    <2> QED
        BY <1>1, <2>1, EndedCall DEF Base, ModelDead
<1>2. CASE Exhausted(c)
    <2>1. Typed'
        BY <1>2 DEF Base, Typed, Exhausted, accounts
    <2>2. Len(call[c].failed) \in Nat
        BY LenProperties DEF Base, Calls, CallRecord
    <2>3. order' \in Arrangement(Range(order))
        BY <1>2, <2>2, DemotedKeeps DEF Base, Rotating, Exhausted
    <2>4. Rotating' /\ Range(order') = Range(order)
        BY <1>2, <2>3, OrderMoves DEF Base, Exhausted, accounts
    <2> QED
        BY <1>2, <2>1, <2>4, EndedCall DEF Base, Exhausted
<1> QED
    BY <1>1, <1>2

LEMMA StreamErrorBase ==
    ASSUME Base, NEW c \in Call, StreamError(c)
    PROVE  Base' /\ HandsStay /\ KeyOf(c) \in Provider
<1>1. KeyOf(c) \in Provider
    BY KeyOnTheWay DEF Base, Calls, Walked, Walks, StreamError
<1>2. Bumped(tally[KeyOf(c)]) \in [pending : BOOLEAN, count : 0..CountMask]
    BY <1>1, FailoverAssumption DEF Base, Typed, Bumped, Capped
<1>3. Typed'
    BY <1>1, <1>2 DEF Base, Typed, StreamError
<1>4. Rotating' /\ Range(order') = Range(order)
    BY DEF Base, Rotating, StreamError
<1> QED
    BY <1>1, <1>3, <1>4, EndedCall DEF Base, StreamError

LEMMA StreamDoneBase ==
    ASSUME Base, NEW c \in Call, StreamDone(c)
    PROVE  Base' /\ HandsStay /\ KeyOf(c) \in Provider
<1>1. KeyOf(c) \in Provider
    BY KeyOnTheWay DEF Base, Calls, Walked, Walks, StreamDone
<1>2. settled[KeyOf(c)] + tally[KeyOf(c)].count \in Nat
    BY <1>1, FailoverAssumption DEF Base, Typed
<1>3. tally' \in [Provider -> [pending : BOOLEAN, count : 0..CountMask]] /\ settled' \in [Provider -> Nat]
    BY <1>1, <1>2, ZeroIsCounts DEF Base, Typed, StreamDone
<1>4. Typed'
    BY <1>3 DEF Base, Typed, StreamDone
<1>5. Rotating' /\ Range(order') = Range(order)
    BY DEF Base, Rotating, StreamDone
<1> QED
    BY <1>1, <1>4, <1>5, EndedCall DEF Base, StreamDone

LEMMA DroppedBase ==
    ASSUME Base, NEW c \in Call, Dropped(c)
    PROVE  Base' /\ call'[c].drained = Zero
<1>1. ASSUME NEW i \in Provider PROVE settled[i] + call[c].drained[i] \in Nat
    BY FailoverAssumption DEF Base, Typed, Calls, CallRecord, Counts
<1>2. settled' \in [Provider -> Nat]
    BY <1>1 DEF Dropped
<1>3. Typed'
    BY <1>2 DEF Base, Typed, Dropped, locks
<1>4. Rotating' /\ Range(order') = Range(order)
    BY DEF Base, Rotating, Dropped, locks
<1> QED
    BY <1>3, <1>4, EndedCall DEF Base, Dropped

-----------------------------------------------------------------------------
(* Time, the audit and the process *)

LEMMA HourBase ==
    ASSUME Base, NEW i \in Provider, HourPasses(i)
    PROVE  Base' /\ HandsStay
<1>1. Typed'
    BY DEF Base, Typed, HourPasses, accounts
<1>2. Rotating' /\ Calls' /\ HandsStay
    BY DEF Base, Rotating, Calls, HourPasses, accounts, HandsStay
<1> QED
    BY <1>1, <1>2 DEF Base

LEMMA AuditBase ==
    ASSUME Base, Audited
    PROVE  /\ Base' /\ HandsStay
           /\ rotation \ rotation' \subseteq refused'
<1>1. PICK dead \in SUBSET Range(order) :
         /\ blacklist' = [i \in Provider |-> IF i \in dead THEN "forever" ELSE blacklist[i]]
         /\ refused' = refused \cup dead
         /\ \E lost \in SUBSET dead : rotation' = rotation \ (dead \ (lost \cup {1}))
    BY DEF Audited
<1>2. PICK lost \in SUBSET dead : rotation' = rotation \ (dead \ (lost \cup {1}))
    BY <1>1
<1>3. rotation' \subseteq rotation /\ 1 \in rotation' /\ rotation \ rotation' \subseteq dead
    BY <1>2 DEF Base, Rotating
<1>4. refused' \subseteq Provider /\ rotation \cup refused \subseteq rotation' \cup refused'
    BY <1>1, <1>3 DEF Base, Rotating
<1>5. Typed'
    BY <1>1 DEF Base, Typed, Audited
<1>6. Rotating' /\ Range(order') = Range(order)
    BY <1>3, <1>4, OrderStays DEF Base, Audited
<1>7. Calls' /\ HandsStay
    BY <1>6 DEF Base, Calls, Audited, HandsStay
<1> QED
    BY <1>1, <1>3, <1>5, <1>6, <1>7 DEF Base

LEMMA RestartBase ==
    ASSUME Base, NewProcess
    PROVE  Base'
<1>1. order' \in Arrangement(rotation)
    BY ConfiguredIsArranged DEF Base, Rotating, NewProcess
<1>2. Range(order') = rotation
    BY <1>1 DEF Arrangement
<1>3. Typed'
    BY ZeroIsCounts, FailoverAssumption DEF Base, Typed, NewProcess, Zero
<1>4. Rotating'
    BY <1>1, <1>2 DEF Base, Rotating, NewProcess
<1>5. Calls'
    BY IdleIsWalked DEF Calls, NewProcess
<1> QED
    BY <1>3, <1>4, <1>5 DEF Base

LEMMA NextBase == Base /\ [ProviderNext]_provider_vars => Base'
<1> SUFFICES ASSUME Base, [ProviderNext]_provider_vars PROVE Base'
    OBVIOUS
<1>1. ASSUME NEW c \in Call, Fixed(c) PROVE Base'
    BY <1>1, DrainBase, FoldBase, CarryBase, WalkBase, AcceptBase, EndBase DEF Fixed
<1>2. ASSUME NEW c \in Call, Answered(c) PROVE Base'
    BY <1>2, AcceptBase, PushBase, EndBase DEF Answered
<1>3. ASSUME NEW c \in Call, Streamed(c) PROVE Base'
    BY <1>3, WalkBase, StreamErrorBase, StreamDoneBase, DroppedBase DEF Streamed
<1>4. CASE UNCHANGED provider_vars
    BY <1>4 DEF Base, Typed, Rotating, Calls, provider_vars, accounts
<1> QED
    BY <1>1, <1>2, <1>3, <1>4, HourBase, AuditBase, RestartBase DEF ProviderNext

-----------------------------------------------------------------------------
(***************************************************************************)
(* Counted                                                                 *)
(***************************************************************************)

InHand(g, i) == Total([c \in Call |-> g[c].drained[i]])

LEMMA HandMoves ==
    ASSUME NEW g \in [Call -> CallRecord], NEW h \in [Call -> CallRecord], NEW c \in Call,
           NEW i \in Provider, \A e \in Call \ {c} : h[e].drained = g[e].drained
    PROVE  /\ InHand(g, i) \in Nat /\ InHand(h, i) \in Nat
           /\ InHand(h, i) + g[c].drained[i] = InHand(g, i) + h[c].drained[i]
           /\ g[c].drained[i] <= InHand(g, i)
<1> DEFINE d == [e \in Call |-> g[e].drained[i]]
           b == [e \in Call |-> h[e].drained[i]]
<1>1. d \in [Call -> Nat] /\ b \in [Call -> Nat]
    BY FailoverAssumption DEF CallRecord, Counts
<1>2. d[c] = g[c].drained[i] /\ b[c] = h[c].drained[i] /\ \A e \in Call \ {c} : b[e] = d[e]
    OBVIOUS
<1>3. Total(d) = InHand(g, i) /\ Total(b) = InHand(h, i)
    BY DEF InHand
<1> HIDE DEF d, b
<1>4. Total(d) \in Nat /\ Total(b) \in Nat /\ Total(b) + d[c] = Total(d) + b[c] /\ d[c] <= Total(d)
    BY <1>1, <1>2, TotalMoves, TotalBounds, FailoverAssumption
<1> QED
    BY <1>2, <1>3, <1>4

LEMMA StrikesBounds ==
    ASSUME Base, Counted, NEW c \in Call, NEW i \in Provider
    PROVE  /\ tally[i].count \in Nat /\ call[c].drained[i] \in Nat /\ settled[i] \in Nat /\ errors[i] \in Nat
           /\ tally[i].count + call[c].drained[i] <= errors[i]
           /\ errors[i] <= Total(errors) /\ Total(errors) <= MaxErrors /\ Total(errors) \in Nat
<1>1. call \in [Call -> CallRecord]
    BY DEF Base, Calls
<1>2. InHand(call, i) \in Nat /\ call[c].drained[i] <= InHand(call, i)
    BY <1>1, HandMoves
<1>3. errors[i] = settled[i] + tally[i].count + InHand(call, i)
    BY DEF Counted, StrikesConserved, StrikesInHand, InHand
<1>4. /\ tally[i].count \in Nat /\ call[c].drained[i] \in Nat /\ settled[i] \in Nat /\ errors[i] \in Nat
      /\ errors \in [Provider -> Nat]
    BY <1>1, FailoverAssumption DEF Base, Typed, CallRecord, Counts
<1>5. IsFiniteSet(Provider)
    BY KeysAreFinite
<1>6. errors[i] <= Total(errors) /\ Total(errors) \in Nat
    BY <1>4, <1>5, TotalBounds
<1> QED
    BY <1>2, <1>3, <1>4, <1>6 DEF Counted

\* What leaves one place arrives in another.
LEMMA Balance ==
    ASSUME Base, Base', StrikesConserved, NEW c \in Call,
           \A e \in Call \ {c} : call'[e].drained = call[e].drained,
           \A i \in Provider :
              settled'[i] + tally'[i].count + call'[c].drained[i] + errors[i]
                 = settled[i] + tally[i].count + call[c].drained[i] + errors'[i]
    PROVE  StrikesConserved'
<1> SUFFICES ASSUME NEW i \in Provider PROVE (errors[i] = settled[i] + tally[i].count + StrikesInHand(i))'
    BY DEF StrikesConserved
<1>1. call \in [Call -> CallRecord] /\ call' \in [Call -> CallRecord]
    BY DEF Base, Calls
<1>2. /\ InHand(call, i) \in Nat /\ InHand(call', i) \in Nat
      /\ InHand(call', i) + call[c].drained[i] = InHand(call, i) + call'[c].drained[i]
    BY <1>1, HandMoves
<1>3. errors[i] = settled[i] + tally[i].count + InHand(call, i)
    BY DEF StrikesConserved, StrikesInHand, InHand
<1>4. /\ tally[i].count \in Nat /\ call[c].drained[i] \in Nat /\ settled[i] \in Nat /\ errors[i] \in Nat
      /\ tally'[i].count \in Nat /\ call'[c].drained[i] \in Nat /\ settled'[i] \in Nat /\ errors'[i] \in Nat
    BY <1>1, FailoverAssumption DEF Base, Typed, CallRecord, Counts
<1>5. settled'[i] + tally'[i].count + call'[c].drained[i] + errors[i]
         = settled[i] + tally[i].count + call[c].drained[i] + errors'[i]
    OBVIOUS
<1>6. errors'[i] = settled'[i] + tally'[i].count + InHand(call', i)
    <2> DEFINE e0 == errors[i]
               s0 == settled[i]
               t0 == tally[i].count
               d0 == call[c].drained[i]
               h0 == InHand(call, i)
               e1 == errors'[i]
               s1 == settled'[i]
               t1 == tally'[i].count
               d1 == call'[c].drained[i]
               h1 == InHand(call', i)
    <2>1. /\ e0 \in Nat /\ s0 \in Nat /\ t0 \in Nat /\ d0 \in Nat /\ h0 \in Nat
          /\ e1 \in Nat /\ s1 \in Nat /\ t1 \in Nat /\ d1 \in Nat /\ h1 \in Nat
          /\ h1 + d0 = h0 + d1 /\ e0 = s0 + t0 + h0 /\ s1 + t1 + d1 + e0 = s0 + t0 + d0 + e1
        BY <1>2, <1>3, <1>4, <1>5
    <2> HIDE DEF e0, s0, t0, d0, h0, e1, s1, t1, d1, h1
    <2>2. e1 = s1 + t1 + h1
        BY <2>1
    <2> QED
        BY <2>2 DEF e1, s1, t1, h1
<1> QED
    BY <1>6 DEF StrikesInHand, InHand

LEMMA QuietCounted ==
    ASSUME Base, Base', Counted, HandsStay, UNCHANGED <<tally, errors, settled>>
    PROVE  Counted'
<1>1. ASSUME NEW i \in Provider PROVE (errors[i] = settled[i] + tally[i].count + StrikesInHand(i))'
    <2>1. errors[i] = settled[i] + tally[i].count + StrikesInHand(i)
        BY DEF Counted, StrikesConserved
    <2>2. [c \in Call |-> call'[c].drained[i]] = [c \in Call |-> call[c].drained[i]]
        BY DEF HandsStay
    <2>3. StrikesInHand(i)' = StrikesInHand(i)
        BY <2>2 DEF StrikesInHand
    <2> QED
        BY <2>1, <2>3
<1>2. Total(errors') <= MaxErrors
    BY DEF Counted
<1> QED
    BY <1>1, <1>2 DEF Counted, StrikesConserved

LEMMA DrainCounted ==
    ASSUME Base, Counted, NEW c \in Call, Drain(c)
    PROVE  Counted'
<1>1. Base' /\ \A e \in Call \ {c} : call'[e].drained = call[e].drained
    BY DrainBase DEF Becomes, Turns
<1>2. call'[c].drained = PendingCounts
    BY DrainBase DEF Becomes, Turns
<1>3. call[c].drained = Zero
    BY DEF Base, Calls, Walked, Walks, Drain
<1>4. errors' = errors /\ settled' = settled
    BY DEF Drain, accounts
<1>5. ASSUME NEW i \in Provider
      PROVE  settled'[i] + tally'[i].count + call'[c].drained[i] + errors[i]
                = settled[i] + tally[i].count + call[c].drained[i] + errors'[i]
    <2>1. /\ tally[i].count \in Nat /\ settled[i] \in Nat /\ errors[i] \in Nat
          /\ call[c].drained[i] = 0
        BY <1>3, StrikesBounds DEF Zero
    <2>2. CASE tally[i].pending
        <3>1. tally'[i].count = 0 /\ call'[c].drained[i] = tally[i].count
            BY <1>2, <2>2 DEF Drain, PendingCounts, NoFailure
        <3> QED
            BY <1>4, <2>1, <3>1
    <2>3. CASE ~tally[i].pending
        <3>1. tally'[i] = tally[i] /\ call'[c].drained[i] = 0
            BY <1>2, <2>3 DEF Drain, PendingCounts
        <3> QED
            BY <1>4, <2>1, <3>1
    <2> QED
        BY <2>2, <2>3
<1>6. StrikesConserved'
    BY <1>1, <1>5, Balance DEF Counted
<1> QED
    BY <1>4, <1>6 DEF Counted

LEMMA FoldCounted ==
    ASSUME Base, Counted, NEW c \in Call, Fold(c)
    PROVE  Counted'
<1> DEFINE d == [i \in Provider |-> IF i \in Struck(c) THEN 0 ELSE call[c].drained[i]]
<1>1. Base' /\ \A e \in Call \ {c} : call'[e].drained = call[e].drained
    BY FoldBase DEF Becomes, Turns
<1>2. call'[c].drained = d
    BY FoldBase DEF Becomes, Turns
<1>3. errors' = errors /\ tally' = tally
    BY DEF Fold
<1>4. ASSUME NEW i \in Provider
      PROVE  settled'[i] + tally'[i].count + call'[c].drained[i] + errors[i]
                = settled[i] + tally[i].count + call[c].drained[i] + errors'[i]
    <2>1. /\ tally[i].count \in Nat /\ settled[i] \in Nat /\ errors[i] \in Nat
          /\ call[c].drained[i] \in Nat
        BY StrikesBounds
    <2>2. CASE i \in Struck(c)
        <3>1. settled'[i] = settled[i] + call[c].drained[i] /\ call'[c].drained[i] = 0
            BY <1>2, <2>2 DEF Fold
        <3> QED
            BY <1>3, <2>1, <3>1
    <2>3. CASE i \notin Struck(c)
        <3>1. settled'[i] = settled[i] + 0 /\ call'[c].drained[i] = call[c].drained[i]
            BY <1>2, <2>3 DEF Fold
        <3> QED
            BY <1>3, <2>1, <3>1
    <2> QED
        BY <2>2, <2>3
<1>5. StrikesConserved'
    BY <1>1, <1>4, Balance DEF Counted
<1> QED
    BY <1>3, <1>5 DEF Counted

LEMMA CarryCounted ==
    ASSUME Base, Counted, MaxErrors <= CountMask, NEW c \in Call, Carry(c)
    PROVE  Counted'
<1>1. Base' /\ \A e \in Call \ {c} : call'[e].drained = call[e].drained
    BY CarryBase DEF Becomes, Turns
<1>2. call'[c].drained = Zero
    BY CarryBase DEF Becomes, Turns
<1>3. errors' = errors /\ settled' = settled
    BY DEF Carry, accounts
<1>4. ASSUME NEW i \in Provider
      PROVE  settled'[i] + tally'[i].count + call'[c].drained[i] + errors[i]
                = settled[i] + tally[i].count + call[c].drained[i] + errors'[i]
    <2>1. /\ tally[i].count \in Nat /\ settled[i] \in Nat /\ errors[i] \in Nat
          /\ call[c].drained[i] \in Nat
          /\ tally[i].count + call[c].drained[i] <= CountMask
        BY StrikesBounds, FailoverAssumption
    <2>2. call'[c].drained[i] = 0
        BY <1>2 DEF Zero
    <2>3. CASE i \in DrainedKeys(c)
        <3>1. tally'[i] = CountsCarried(tally[i], call[c].drained[i])
            BY <2>3 DEF Carry
        <3>2. tally[i] \in [pending : BOOLEAN, count : 0..CountMask]
            BY DEF Base, Typed
        <3>3. CountsCarried(tally[i], call[c].drained[i]).count = Capped(tally[i].count + call[c].drained[i])
            BY <3>2 DEF CountsCarried
        <3>4. tally'[i].count = tally[i].count + call[c].drained[i]
            BY <2>1, <3>1, <3>3, FailoverAssumption DEF Capped
        <3> QED
            BY <1>3, <2>1, <2>2, <3>4
    <2>4. CASE i \notin DrainedKeys(c)
        <3>1. tally'[i] = tally[i] /\ call[c].drained[i] = 0
            BY <2>1, <2>4 DEF Carry, DrainedKeys
        <3> QED
            BY <1>3, <2>1, <2>2, <3>1
    <2> QED
        BY <2>3, <2>4
<1>5. StrikesConserved'
    BY <1>1, <1>4, Balance DEF Counted
<1> QED
    BY <1>3, <1>5 DEF Counted

LEMMA StreamErrorCounted ==
    ASSUME Base, Counted, MaxErrors <= CountMask, NEW c \in Call, StreamError(c)
    PROVE  Counted'
<1> DEFINE k == KeyOf(c)
<1>1. Base' /\ HandsStay /\ k \in Provider
    BY StreamErrorBase
<1>2. /\ tally' = [tally EXCEPT ![k] = Bumped(@)] /\ errors' = [errors EXCEPT ![k] = @ + 1]
      /\ settled' = settled /\ Total(errors) < MaxErrors
    BY DEF StreamError
<1> HIDE DEF k
<1>3. tally \in [Provider -> [pending : BOOLEAN, count : 0..CountMask]] /\ errors \in [Provider -> Nat]
    BY DEF Base, Typed
<1>4. ASSUME NEW i \in Provider
      PROVE  settled'[i] + tally'[i].count + call'[c].drained[i] + errors[i]
                = settled[i] + tally[i].count + call[c].drained[i] + errors'[i]
    <2>1. /\ tally[i].count \in Nat /\ settled[i] \in Nat /\ errors[i] \in Nat
          /\ call[c].drained[i] \in Nat /\ tally[i].count <= errors[i] /\ errors[i] <= Total(errors)
          /\ Total(errors) \in Nat
        BY StrikesBounds
    <2>2. call'[c].drained[i] = call[c].drained[i]
        BY <1>1 DEF HandsStay
    <2>3. CASE i = k
        <3>1. tally'[i].count = Capped(tally[i].count + 1) /\ errors'[i] = errors[i] + 1
            BY <1>1, <1>2, <1>3, <2>3 DEF Bumped
        <3>2. tally[i].count + 1 <= CountMask
            BY <1>2, <2>1, FailoverAssumption
        <3>3. tally'[i].count = tally[i].count + 1
            BY <2>1, <3>1, <3>2, FailoverAssumption DEF Capped
        <3> QED
            BY <1>2, <2>1, <2>2, <3>1, <3>3
    <2>4. CASE i # k
        <3>1. tally'[i] = tally[i] /\ errors'[i] = errors[i]
            BY <1>2, <1>3, <2>4
        <3> QED
            BY <1>2, <2>1, <2>2, <3>1
    <2> QED
        BY <2>3, <2>4
<1>5. StrikesConserved'
    BY <1>1, <1>4, Balance DEF Counted, HandsStay
<1>6. Total(errors') <= MaxErrors
    <2>1. errors' \in [Provider -> Nat] /\ errors'[k] = errors[k] + 1 /\ \A i \in Provider \ {k} : errors'[i] = errors[i]
        BY <1>1, <1>2, <1>3
    <2>2. IsFiniteSet(Provider)
        BY KeysAreFinite
    <2>3. Total(errors) \in Nat /\ Total(errors') \in Nat /\ Total(errors') + errors[k] = Total(errors) + errors'[k]
        BY <1>1, <1>3, <2>1, <2>2, TotalMoves
    <2>4. errors[k] \in Nat
        BY <1>1, <1>3
    <2> QED
        BY <1>2, <2>1, <2>3, <2>4, FailoverAssumption
<1> QED
    BY <1>5, <1>6 DEF Counted

LEMMA StreamDoneCounted ==
    ASSUME Base, Counted, NEW c \in Call, StreamDone(c)
    PROVE  Counted'
<1> DEFINE k == KeyOf(c)
<1>1. Base' /\ HandsStay /\ k \in Provider
    BY StreamDoneBase
<1>2. errors' = errors
    BY DEF StreamDone
<1>3. CASE ~Clears(c)
    BY <1>1, <1>2, <1>3, QuietCounted DEF StreamDone
<1>4. CASE Clears(c)
    <2>1. tally' = [tally EXCEPT ![k] = NoFailure] /\ settled' = [settled EXCEPT ![k] = @ + tally[k].count]
        BY <1>4 DEF StreamDone
    <2> HIDE DEF k
    <2>2. /\ tally \in [Provider -> [pending : BOOLEAN, count : 0..CountMask]]
          /\ settled \in [Provider -> Nat]
        BY DEF Base, Typed
    <2>3. ASSUME NEW i \in Provider
          PROVE  settled'[i] + tally'[i].count + call'[c].drained[i] + errors[i]
                    = settled[i] + tally[i].count + call[c].drained[i] + errors'[i]
        <3>1. /\ tally[i].count \in Nat /\ settled[i] \in Nat /\ errors[i] \in Nat
              /\ call[c].drained[i] \in Nat
            BY StrikesBounds
        <3>2. call'[c].drained[i] = call[c].drained[i]
            BY <1>1 DEF HandsStay
        <3>3. CASE i = k
            <4>1. tally'[i].count = 0 /\ settled'[i] = settled[i] + tally[i].count
                BY <1>1, <2>1, <2>2, <3>3 DEF NoFailure
            <4> QED
                BY <1>2, <3>1, <3>2, <4>1
        <3>4. CASE i # k
            <4>1. tally'[i] = tally[i] /\ settled'[i] = settled[i]
                BY <2>1, <2>2, <3>4
            <4> QED
                BY <1>2, <3>1, <3>2, <4>1
        <3> QED
            BY <3>3, <3>4
    <2>4. StrikesConserved'
        BY <1>1, <2>3, Balance DEF Counted, HandsStay
    <2> QED
        BY <1>2, <2>4 DEF Counted
<1> QED
    BY <1>3, <1>4

LEMMA DroppedCounted ==
    ASSUME Base, Counted, NEW c \in Call, Dropped(c)
    PROVE  Counted'
<1>1. Base' /\ call'[c].drained = Zero
    BY DroppedBase
<1>2. \A e \in Call \ {c} : call'[e].drained = call[e].drained
    BY DEF Dropped, Base, Calls
<1>3. errors' = errors /\ tally' = tally
    BY DEF Dropped, locks
<1>4. ASSUME NEW i \in Provider
      PROVE  settled'[i] + tally'[i].count + call'[c].drained[i] + errors[i]
                = settled[i] + tally[i].count + call[c].drained[i] + errors'[i]
    <2>1. /\ tally[i].count \in Nat /\ settled[i] \in Nat /\ errors[i] \in Nat
          /\ call[c].drained[i] \in Nat
        BY StrikesBounds
    <2>2. call'[c].drained[i] = 0 /\ settled'[i] = settled[i] + call[c].drained[i]
        BY <1>1 DEF Dropped, Zero
    <2> QED
        BY <1>3, <2>1, <2>2
<1>5. StrikesConserved'
    BY <1>1, <1>2, <1>4, Balance DEF Counted
<1> QED
    BY <1>3, <1>5 DEF Counted

\* A process that was just started has counted nothing.
LEMMA NothingCounted ==
    /\ Total(Zero) = 0
    /\ \A i \in Provider : Total([c \in Call |-> [e \in Call |-> Idle][c].drained[i]]) = 0
<1>1. ASSUME NEW i \in Provider
      PROVE  Total([c \in Call |-> [e \in Call |-> Idle][c].drained[i]]) = 0
    <2>1. [c \in Call |-> [e \in Call |-> Idle][c].drained[i]] = [c \in Call |-> 0]
        BY DEF Idle, Zero
    <2> QED
        BY <2>1, TotalOfNone
<1> QED
    BY <1>1, TotalOfNone DEF Zero

LEMMA InitCounted == ProviderInit => Counted
<1> SUFFICES ASSUME ProviderInit PROVE Counted
    OBVIOUS
<1>1. /\ errors = Zero /\ settled = Zero /\ tally = [i \in Provider |-> NoFailure]
      /\ call = [c \in Call |-> Idle]
    BY DEF ProviderInit, Boot
<1>2. ASSUME NEW i \in Provider PROVE errors[i] = settled[i] + tally[i].count + StrikesInHand(i)
    <2>1. StrikesInHand(i) = 0
        BY <1>1, NothingCounted DEF StrikesInHand
    <2> QED
        BY <1>1, <2>1 DEF Zero, NoFailure
<1>3. Total(errors) <= MaxErrors
    BY <1>1, NothingCounted, FailoverAssumption
<1> QED
    BY <1>2, <1>3 DEF Counted, StrikesConserved

LEMMA RestartCounted == NewProcess => Counted'
<1> SUFFICES ASSUME NewProcess PROVE Counted'
    OBVIOUS
<1>1. /\ errors' = Zero /\ settled' = Zero /\ tally' = [i \in Provider |-> NoFailure]
      /\ call' = [c \in Call |-> Idle]
    BY DEF NewProcess
<1>2. ASSUME NEW i \in Provider PROVE (errors[i] = settled[i] + tally[i].count + StrikesInHand(i))'
    <2>1. StrikesInHand(i)' = 0
        BY <1>1, NothingCounted DEF StrikesInHand
    <2> QED
        BY <1>1, <2>1 DEF Zero, NoFailure
<1>3. Total(errors') <= MaxErrors
    BY <1>1, NothingCounted, FailoverAssumption
<1> QED
    BY <1>2, <1>3 DEF Counted, StrikesConserved

LEMMA NextCounted ==
    ASSUME Base, Counted, MaxErrors <= CountMask, [ProviderNext]_provider_vars
    PROVE  Counted'
<1> USE DEF accounts, locks
<1>1. ASSUME NEW c \in Call, Fixed(c) PROVE Counted'
    <2>1. CASE Snapshot(c) \/ Expire(c) \/ Try(c)
        <3>1. UNCHANGED <<tally, errors, settled>>
            BY <2>1 DEF Snapshot, Expire, Try
        <3> QED
            BY <2>1, <3>1, WalkBase, QuietCounted
    <2>2. CASE Promote(c)
        BY <2>2, AcceptBase, QuietCounted DEF Promote
    <2>3. CASE Exhausted(c)
        BY <2>3, EndBase, QuietCounted DEF Exhausted
    <2> QED
        BY <1>1, <2>1, <2>2, <2>3, DrainCounted, FoldCounted, CarryCounted DEF Fixed
<1>2. ASSUME NEW c \in Call, Answered(c) PROVE Counted'
    <2>1. CASE Accepted(c)
        BY <2>1, AcceptBase, QuietCounted DEF Accepted
    <2>2. CASE Refused(c) \/ Failed(c)
        <3>1. UNCHANGED <<tally, errors, settled>>
            BY <2>2 DEF Refused, Failed
        <3> QED
            BY <2>2, <3>1, PushBase, QuietCounted
    <2>3. CASE ModelDead(c)
        BY <2>3, EndBase, QuietCounted DEF ModelDead
    <2> QED
        BY <1>2, <2>1, <2>2, <2>3 DEF Answered
<1>3. ASSUME NEW c \in Call, Streamed(c) PROVE Counted'
    <2>1. CASE Content(c)
        BY <2>1, WalkBase, QuietCounted DEF Content
    <2> QED
        BY <1>3, <2>1, StreamErrorCounted, StreamDoneCounted, DroppedCounted DEF Streamed
<1>4. ASSUME NEW i \in Provider, HourPasses(i) PROVE Counted'
    BY <1>4, HourBase, QuietCounted DEF HourPasses
<1>5. CASE Audited
    BY <1>5, AuditBase, QuietCounted DEF Audited
<1>6. CASE UNCHANGED provider_vars
    <2>1. Base' /\ HandsStay /\ UNCHANGED <<tally, errors, settled>>
        BY <1>6, NextBase DEF provider_vars, HandsStay
    <2> QED
        BY <2>1, QuietCounted
<1> QED
    BY <1>1, <1>2, <1>3, <1>4, <1>5, <1>6, RestartCounted DEF ProviderNext

-----------------------------------------------------------------------------
(***************************************************************************)
(* The theorems                                                            *)
(***************************************************************************)

LEMMA BaseAlways == ProviderSpec => []Base
<1>1. ProviderInit => Base
    BY InitBase
<1>2. Base /\ [ProviderNext]_provider_vars => Base'
    BY NextBase
<1> QED
    BY <1>1, <1>2, PTL DEF ProviderSpec

LEMMA BaseIsTyped == Base => ProviderTypeOK
<1> SUFFICES ASSUME Base PROVE ProviderTypeOK
    OBVIOUS
<1>1. ASSUME NEW c \in Call
      PROVE  /\ call[c].pc \in CallState /\ call[c].drained \in [Provider -> 0..CountMask]
             /\ IsInjective(call[c].snapshot) /\ IsInjective(call[c].failed)
             /\ Range(call[c].failed) \subseteq Range(call[c].snapshot)
             /\ call[c].pos \in 1..(Len(call[c].snapshot) + 1) /\ call[c].saw_content \in BOOLEAN
    <2> DEFINE r == call[c]
    <2>1. r \in CallRecord /\ Walks(r.pc, r.drained, r.snapshot, r.pos, r.failed, Range(order))
        BY DEF Base, Calls, Walked
    <2>2. Len(r.snapshot) \in Nat /\ DOMAIN r.snapshot = 1..Len(r.snapshot) /\ r.pos \in 1..(Len(r.snapshot) + 1)
        BY <2>1, LenProperties DEF CallRecord, Walks
    <2>3. ASSUME NEW x \in Range(r.failed) PROVE x \in Range(r.snapshot)
        <3>1. PICK j \in 1..(r.pos - 1) : r.snapshot[j] = x
            BY <2>1 DEF Walks
        <3>2. j \in DOMAIN r.snapshot
            BY <2>2
        <3> QED
            BY <3>1, <3>2 DEF Range
    <2> QED
        BY <2>1, <2>3 DEF CallRecord, Counts, Walks
<1> QED
    BY <1>1 DEF Base, Typed, Rotating, Arrangement, Calls, ProviderTypeOK

\* The types hold in every state: the order holds every configured key once through all demotions and
\* promotions of fold_stream_failures and stream_chat, and no count leaves its bits.
THEOREM ProviderTypes == ProviderSpec => []ProviderTypeOK
BY BaseAlways, BaseIsTyped, PTL

\* As long as the errors of a process fit in STREAM_FAILURE_COUNT_MASK, each mid-stream failure is in the
\* tally, in the hands of one fold, or settled, however the calls drain, fold, carry and are dropped.
THEOREM StrikesAreKept ==
    ASSUME MaxErrors <= CountMask
    PROVE  ProviderSpec => []StrikesAccounted
<1>1. ProviderInit => ProviderInv
    BY InitBase, InitCounted DEF ProviderInv
<1>2. ProviderInv /\ [ProviderNext]_provider_vars => ProviderInv'
    BY NextBase, NextCounted DEF ProviderInv
<1>3. ProviderInv => StrikesAccounted
    BY BaseIsTyped DEF ProviderInv, Counted, StrikesAccounted
<1> QED
    BY <1>1, <1>2, <1>3, PTL DEF ProviderSpec

LEMMA StepKeepsMarks ==
    ASSUME Base, [ProviderNext]_provider_vars, restarts' = restarts, NEW i \in Provider,
           tally[i].pending, ~tally'[i].pending
    PROVE  \E c \in Call : call'[c].drained[i] = tally[i].count
<1>1. tally' # tally
    OBVIOUS
<1>2. tally \in [Provider -> [pending : BOOLEAN, count : 0..CountMask]]
    BY DEF Base, Typed
<1>3. PICK c \in Call : Drain(c) \/ Carry(c) \/ StreamError(c) \/ StreamDone(c)
    <2>1. ~NewProcess
        BY DEF NewProcess, Base, Typed
    <2> QED
        BY <1>1, <2>1
        DEF ProviderNext, Fixed, Answered, Streamed, Fold, Snapshot, Expire, Try, Promote, Exhausted,
            Accepted,
            Refused, Failed, ModelDead, Content, Dropped, HourPasses, Audited, provider_vars, locks
<1>4. CASE Drain(c)
    <2>1. call'[c].drained = PendingCounts
        BY <1>4, DrainBase DEF Becomes, Turns
    <2> QED
        BY <2>1 DEF PendingCounts
<1>5. CASE Carry(c)
    <2>1. tally'[i] = tally[i] \/ tally'[i] = CountsCarried(tally[i], call[c].drained[i])
        BY <1>5 DEF Carry
    <2>2. tally[i] \in [pending : BOOLEAN, count : 0..CountMask]
        BY <1>2
    <2>3. tally'[i].pending
        BY <2>1, <2>2 DEF CountsCarried
    <2> QED
        BY <2>3
<1>6. CASE StreamError(c)
    <2>1. tally'[i] = tally[i] \/ tally'[i] = Bumped(tally[i])
        BY <1>2, <1>6 DEF StreamError
    <2> QED
        BY <2>1 DEF Bumped
<1>7. CASE StreamDone(c)
    <2>1. Clears(c) /\ tally' = [tally EXCEPT ![KeyOf(c)] = NoFailure]
        BY <1>1, <1>7 DEF StreamDone
    <2>2. KeyOf(c) # i
        BY <2>1 DEF Clears
    <2>3. tally'[i] = tally[i]
        BY <1>2, <2>1, <2>2
    <2> QED
        BY <2>3
<1> QED
    BY <1>3, <1>4, <1>5, <1>6, <1>7

\* The mark of a failure that was not folded yet goes only into the hands of a fold: a clean stream of
\* another call does not forgive it.
THEOREM MarksWaitForFold == ProviderSpec => PendingIsFolded
<1>1. Base /\ [ProviderNext]_provider_vars =>
         [restarts' = restarts =>
            \A i \in Provider : tally[i].pending /\ ~tally'[i].pending =>
                \E c \in Call : call'[c].drained[i] = tally[i].count]_provider_vars
    BY StepKeepsMarks
<1> QED
    BY <1>1, BaseAlways, PTL DEF ProviderSpec, PendingIsFolded

LEMMA AskedIsFiled == Base => FiledIsNotAsked
<1> SUFFICES ASSUME Base, NEW c \in Call, call[c].pc = "request" PROVE KeyOf(c) \in rotation \cup refused
    BY DEF FiledIsNotAsked
<1>1. call[c].pos <= Len(call[c].snapshot)
    BY DEF Base, Calls, Walked, Walks
<1> QED
    BY <1>1, KeyOnTheWay DEF Base, Rotating

LEMMA StepFilesRefused ==
    ASSUME Base, [ProviderNext]_provider_vars
    PROVE  rotation \ rotation' \subseteq refused'
<1>1. CASE rotation' = rotation
    BY <1>1
<1>2. CASE Audited
    BY <1>2, AuditBase
<1>3. CASE \E c \in Call : Refused(c)
    BY <1>3, PushBase
<1> QED
    BY <1>1, <1>2, <1>3
    DEF ProviderNext, Fixed, Answered, Streamed, Drain, Fold, Carry, Snapshot, Expire, Try, Promote,
        Exhausted,
        Accepted, Failed, ModelDead, Content, StreamError, StreamDone, Dropped, HourPasses,
        NewProcess, provider_vars

\* The file of the rotation loses a key only after that key was refused, never the primary, and what it
\* lost is asked by no later process.
THEOREM RefusedAreFiled == ProviderSpec => OnlyRefusedAreFiled
<1>1. Base /\ Base' /\ [ProviderNext]_provider_vars =>
         [/\ rotation \ rotation' \subseteq refused'
          /\ 1 \in rotation'
          /\ FiledIsNotAsked']_provider_vars
    <2> SUFFICES ASSUME Base, Base', [ProviderNext]_provider_vars
                 PROVE  /\ rotation \ rotation' \subseteq refused'
                        /\ 1 \in rotation'
                        /\ FiledIsNotAsked'
        OBVIOUS
    <2>1. Base' => FiledIsNotAsked'
        BY AskedIsFiled, PTL
    <2>2. 1 \in rotation'
        BY DEF Base, Rotating
    <2> QED
        BY <2>1, <2>2, StepFilesRefused
<1> QED
    BY <1>1, BaseAlways, PTL DEF ProviderSpec, OnlyRefusedAreFiled

=============================================================================
