------------------------------ MODULE AgentLoop ------------------------------
(***************************************************************************)
(* AgentLoop::run: the loop of one turn between its first request to the   *)
(* provider and its return.  It streams a reply, pushes it to the history, *)
(* runs the read-only calls of the reply as one batch and the gated ones   *)
(* one by one, and starts again.  Meanwhile the user may send steers into  *)
(* a bounded channel, edit them, or abort; deadlines cancel the same token *)
(* an abort cancels.  A step of the model ends where the code awaits.      *)
(* A message of the history keeps its role and the tool calls it makes or  *)
(* answers; a steer keeps which accepted message it came from (at) and     *)
(* whose text it has now (text).                                           *)
(***************************************************************************)
EXTENDS Integers, Sequences, FiniteSets

CONSTANTS Steer,            \* Telegram messages sent while the turn runs
          Tool, Args,       \* names of tools, arguments of calls
          MaxIterations,    \* effective.max_iterations
          MaxEmpty,         \* MAX_EMPTY_CONTENT_RETRIES
          BlockAt, HaltAt,  \* thresholds of the loop guard
          ChannelCap,       \* capacity of the steer channel
          MaxCalls,         \* bound: calls of one reply
          MaxAccepted,      \* bound: steers and edits the channel takes
          Sessions, Given,  \* histories a session may hold when the turn starts,
                            \* the last number given to a call in them
          Open,             \* their calls a cancelled turn left without an answer
          Hazards           \* which of "abort", "deadline", "drop", "lsp",
                            \* "cards", "compact" may happen

ASSUME BoundsAssumption ==
  /\ {MaxIterations, MaxEmpty, HaltAt, MaxCalls, MaxAccepted} \subseteq Nat
  /\ {BlockAt, ChannelCap} \subseteq Nat \ {0}

VARIABLES pc, result,       \* where the loop is, what it returns
          iteration, empties,
          cancelled, fired, \* the token of the turn; the armed deadline fired
          late,             \* max_wall has elapsed
          history, nextId,
          batch, gated,     \* calls being run together, calls still to run
          attempts, failures, ran, approved,
          chan, rxOpen, senderUp, accepted, pending, merged

turn      == <<pc, result, iteration, empties>>
tokens    == <<cancelled, fired, late>>
guard     == <<attempts, failures, ran, approved>>
calls     == <<batch, gated, nextId>>
sender    == <<senderUp, accepted>>
receiver  == <<chan, rxOpen, pending, merged>>
vars      == <<turn, tokens, history, calls, guard, sender, receiver>>

Signature == Tool \X Args
Decision  == {"execute", "ask", "deny"}
Call      == [id: Nat, sig: Signature, decision: Decision]
Message   == [role: {"user", "assistant", "tool", "system"}, calls: SUBSET Int]

User          == [role |-> "user",      calls |-> {}]
Summary       == [role |-> "system",    calls |-> {}]
Assistant(cs) == [role |-> "assistant", calls |-> {c.id : c \in cs}]
Answer(c)     == [role |-> "tool",      calls |-> {c.id}]
GuardNote(c)  == [role |-> "tool",      calls |-> {-c.id}]

Lesser(m, n)   == IF m < n THEN m ELSE n
Greater(m, n)  == IF m < n THEN n ELSE m
Elements(s)    == {s[i] : i \in DOMAIN s}

-----------------------------------------------------------------------------
(* Calls and their answers. *)

AnswersOf(h, c) == {j \in DOMAIN h : h[j].role = "tool" /\ c \in h[j].calls}

Ids(s) == {s[i].id : i \in DOMAIN s}

\* The calls of a history are numbered up to n.
Numbered(h, n) ==
  \A i \in DOMAIN h : \A c \in h[i].calls :
    /\ h[i].role = "assistant" => c \in 1..n
    /\ h[i].role = "tool" => c <= n

\* Every call of the history but the open ones has one answer, behind it.
Paired(h, open) ==
  \A i \in DOMAIN h : \A c \in h[i].calls :
    h[i].role = "assistant" =>
      IF c \in open THEN AnswersOf(h, c) = {} ELSE \E j \in DOMAIN h : j > i /\ AnswersOf(h, c) = {j}

ASSUME SessionsAssumption ==
  /\ Given \in Nat /\ Open \subseteq 1..Given
  /\ \A h \in Sessions : h \in Seq(Message) /\ Numbered(h, Given) /\ Paired(h, Open)

-----------------------------------------------------------------------------
(* The steer pipeline. *)

\* one message of the channel against the pending list
Absorb(pend, m) ==
  LET same == {i \in DOMAIN pend : pend[i].id = m.id}
      first == CHOOSE i \in same : \A j \in same : i <= j
  IN  CASE m.edit /\ same # {} -> [pend EXCEPT ![first].text = m.text]
        [] m.edit /\ same = {} /\ m.id \in {e.id : e \in Elements(merged)} ->
             Append(pend, [m EXCEPT !.edit = FALSE, !.correction = TRUE])
        [] OTHER -> Append(pend, m)

\* the pending list after the whole channel
Gathered ==
  LET after[n \in 0..Len(chan)] == IF n = 0 THEN pending ELSE Absorb(after[n - 1], chan[n])
  IN  after[Len(chan)]

SteersWait  == rxOpen /\ pending \o chan # <<>>

\* drain: everything that waits becomes one user message
Drain ==
  /\ IF SteersWait THEN /\ merged'  = merged \o Gathered
                        /\ pending' = <<>>
                        /\ chan'    = <<>>
                   ELSE UNCHANGED <<merged, pending, chan>>
  /\ UNCHANGED rxOpen

WithSteers(h) == IF SteersWait THEN Append(h, User) ELSE h

\* mutant: the burst after the winner is read and forgotten
RecordWinnerOnly ==
  /\ rxOpen /\ chan # <<>>
  /\ pending' = Append(pending, chan[1])
  /\ chan'    = <<>>
  /\ UNCHANGED <<rxOpen, merged>>

\* mutant: the burst goes in front of what is pending
RecordInFront ==
  /\ rxOpen /\ chan # <<>>
  /\ pending' = chan \o pending
  /\ chan'    = <<>>
  /\ UNCHANGED <<rxOpen, merged>>

\* record_winner_and_burst
Record ==
  /\ rxOpen /\ chan # <<>>
  /\ pending' = pending \o chan
  /\ chan'    = <<>>
  /\ UNCHANGED <<rxOpen, merged>>

\* recv() returned None
CloseReceiver ==
  /\ rxOpen /\ ~senderUp /\ chan = <<>>
  /\ rxOpen' = FALSE
  /\ UNCHANGED <<chan, pending, merged>>

-----------------------------------------------------------------------------
(* Compaction of the history after the provider found it too long. *)

KeepRecent(n) == Greater(4, Lesser(6, n \div 3))

Boundary(m) == m.role \in {"user", "system"} \/ (m.role = "assistant" /\ m.calls = {})

Compact(h) ==
  LET prefix == IF h # <<>> /\ h[1] = Summary THEN 1 ELSE 0
      raw    == Len(h) - KeepRecent(Len(h)) + 1
      cuts   == {i \in raw..Len(h) : Boundary(h[i])} \cup {Len(h) + 1}
      from   == CHOOSE i \in cuts : \A j \in cuts : i <= j
  IN  IF Len(h) <= KeepRecent(Len(h)) \/ from <= prefix + 1
      THEN h
      ELSE <<Summary>> \o SubSeq(h, from, Len(h))

\* one to five rounds, until the estimate fits
Compactions(h) ==
  LET rounds[n \in 1..5] == Compact(IF n = 1 THEN h ELSE rounds[n - 1])
  IN  IF Len(h) <= 3 THEN {h} ELSE {rounds[n] : n \in 1..5}

\* the messages an OpenAI-compatible provider sends: answers without their call are left out
SentAnswers(h) ==
  {i \in DOMAIN h : h[i].role = "tool"
                    /\ \E j \in DOMAIN h : h[j].role = "assistant" /\ h[i].calls \subseteq h[j].calls}

-----------------------------------------------------------------------------
(* The loop guard and the results of calls. *)

Times(s, sig) == Cardinality({i \in DOMAIN s : s[i].sig = sig})

\* record_attempt for the i-th call of a reply
Blocked(s, i) == attempts[s[i].sig] + Times(SubSeq(s, 1, i), s[i].sig) >= BlockAt

Counted(count, s) == [sig \in Signature |-> Lesser(BlockAt, count[sig] + Times(s, sig))]

\* push_tool_outcome: acc is the history and the failures so far
Outcome(acc, call, ok) ==
  LET tool  == call.sig[1]
      fails == IF ok THEN 0 ELSE Lesser(HaltAt, acc.failures[tool] + 1)
      note  == IF fails >= HaltAt THEN <<GuardNote(call)>> ELSE <<>>
  IN  [history  |-> acc.history \o <<Answer(call)>> \o note,
       failures |-> [acc.failures EXCEPT ![tool] = fails]]

\* the outcomes of a batch, in the order of its calls
Outcomes(s, ok) ==
  LET after[n \in 0..Len(s)] == IF n = 0 THEN [history |-> history, failures |-> failures]
                                ELSE Outcome(after[n - 1], s[n], ok[n])
  IN  after[Len(s)]

-----------------------------------------------------------------------------
Init ==
  /\ pc = "top" /\ result = "none" /\ iteration = 0 /\ empties = 0
  /\ cancelled = FALSE /\ fired = FALSE /\ late = FALSE
  /\ history \in {Append(h, User) : h \in Sessions} /\ nextId = Given /\ batch = <<>> /\ gated = <<>>
  /\ attempts = [s \in Signature |-> 0] /\ failures = [t \in Tool |-> 0]
  /\ ran = [s \in Signature |-> 0] /\ approved = {}
  /\ chan = <<>> /\ rxOpen = TRUE /\ senderUp = TRUE
  /\ accepted = <<>> /\ pending = <<>> /\ merged = <<>>

Continue ==
  /\ pc' = "top" /\ iteration' = iteration + 1
  /\ UNCHANGED result

\* the value run() will return; its last sends to the client still go on
Close(value) ==
  /\ pc' = "closing" /\ result' = value
  /\ UNCHANGED <<iteration, empties>>

\* a rescue drain in front of an early return
CloseWithDrain(value) ==
  /\ Close(value)
  /\ Drain /\ history' = WithSteers(history)

\* mutant: a guard for every iteration, as before B118a
StartIterationNewGuard ==
  /\ pc = "top" /\ iteration < MaxIterations /\ ~cancelled /\ ~late
  /\ Drain /\ history' = WithSteers(history)
  /\ pc' = "stream" /\ fired' = FALSE
  /\ attempts' = [s \in Signature |-> 0]
  /\ UNCHANGED <<result, iteration, empties, cancelled, late, calls, failures, ran, approved, sender>>

\* the top of an iteration
StartIteration ==
  /\ pc = "top" /\ iteration < MaxIterations /\ ~cancelled /\ ~late
  /\ Drain /\ history' = WithSteers(history)
  /\ pc' = "stream" /\ fired' = FALSE
  /\ UNCHANGED <<result, iteration, empties, cancelled, late, calls, guard, sender>>

StopAtTop ==
  /\ pc = "top" /\ iteration < MaxIterations /\ (cancelled \/ late)
  /\ CloseWithDrain(IF cancelled THEN "Cancelled" ELSE "WallTimeout")
  /\ UNCHANGED <<tokens, calls, guard, sender>>

IterationsExhausted ==
  /\ pc = "top" /\ iteration = MaxIterations
  /\ Close("MaxIterations")
  /\ UNCHANGED <<tokens, history, calls, guard, sender, receiver>>

-----------------------------------------------------------------------------
(* stream_one_turn *)

\* mutant: only the backstop interrupts a stream
StreamCancelledByBackstop ==
  /\ pc = "stream" /\ fired
  /\ CloseWithDrain("WallTimeout")
  /\ UNCHANGED <<tokens, calls, guard, sender>>

StreamCancelled ==
  /\ pc = "stream" /\ cancelled
  /\ CloseWithDrain(IF fired THEN "WallTimeout" ELSE "Cancelled")
  /\ UNCHANGED <<tokens, calls, guard, sender>>

\* mutant: the error of the provider returns at once
StreamErrorUndrained ==
  /\ pc = "stream"
  /\ Close("Failed")
  /\ UNCHANGED <<tokens, history, calls, guard, sender, receiver>>

StreamError ==
  /\ pc = "stream"
  /\ CloseWithDrain("Failed")
  /\ UNCHANGED <<tokens, calls, guard, sender>>

StreamSteered ==
  /\ pc = "stream" /\ Record
  /\ pc' = "interrupted"
  /\ UNCHANGED <<result, iteration, empties, tokens, history, calls, guard, sender>>

\* the partial reply is dropped; the backstop was disarmed meanwhile
Reissue ==
  /\ pc = "interrupted"
  /\ Continue /\ empties' = 0
  /\ Drain /\ history' = WithSteers(history)
  /\ UNCHANGED <<tokens, calls, guard, sender>>

ContextTooLong ==
  /\ pc = "stream" /\ "compact" \in Hazards
  /\ history' \in Compactions(history)
  /\ Continue
  /\ UNCHANGED <<empties, tokens, calls, guard, sender, receiver>>

\* mutant: the budget of empty replies is counted and not asked
EmptyReplyUnbounded(sawDone) ==
  /\ pc = "stream"
  /\ IF ~sawDone
     THEN /\ Continue /\ empties' = empties + 1
          /\ UNCHANGED <<history, receiver>>
     ELSE CloseWithDrain("Failed")
  /\ UNCHANGED <<tokens, calls, guard, sender>>

EmptyReply(sawDone) ==
  /\ pc = "stream"
  /\ IF ~sawDone /\ empties < MaxEmpty
     THEN /\ Continue /\ empties' = empties + 1
          /\ UNCHANGED <<history, receiver>>
     ELSE CloseWithDrain("Failed")
  /\ UNCHANGED <<tokens, calls, guard, sender>>

FinalReply ==
  /\ pc = "stream"
  /\ Drain /\ history' = WithSteers(Append(history, Assistant({})))
  /\ empties' = 0
  /\ IF SteersWait THEN Continue
                   ELSE /\ pc' = "closing" /\ result' = "Ok"
                        /\ UNCHANGED iteration
  /\ UNCHANGED <<tokens, calls, guard, sender>>

\* the calls decided d, in their order
Decided(s, d) ==
  LET chosen[n \in 0..Len(s)] ==
        IF n = 0 THEN <<>>
        ELSE IF s[n].decision = d THEN Append(chosen[n - 1], s[n])
        ELSE chosen[n - 1]
  IN  chosen[Len(s)]

\* classify_tool_calls, the denied results, the start of the read-only batch
ToolReply(sigs, decisions) ==
  LET plain   == [i \in DOMAIN sigs |-> [id |-> nextId + i, sig |-> sigs[i], decision |-> decisions[i]]]
      reply   == [i \in DOMAIN sigs |->
                    IF Blocked(plain, i) THEN [plain[i] EXCEPT !.decision = "deny"] ELSE plain[i]]
      denied  == Decided(reply, "deny")
  IN  /\ pc = "stream"
      /\ history'  = Append(history, Assistant(Elements(reply)))
                       \o [i \in DOMAIN denied |-> Answer(denied[i])]
      /\ nextId'   = nextId + Len(sigs)
      /\ attempts' = Counted(attempts, reply)
      /\ batch'    = Decided(reply, "execute")
      /\ gated'    = Decided(reply, "ask")
      /\ ran'      = Counted(ran, batch')
      /\ pc'       = IF batch' # <<>> THEN "batch" ELSE "gate"
      /\ empties'  = 0
      /\ UNCHANGED <<result, iteration, tokens, failures, approved, sender, receiver>>

-----------------------------------------------------------------------------
(* Tools *)

BatchDone(ok) ==
  /\ pc = "batch"
  /\ history'  = Outcomes(batch, ok).history
  /\ failures' = Outcomes(batch, ok).failures
  /\ batch' = <<>> /\ pc' = "gate"
  /\ UNCHANGED <<result, iteration, empties, tokens, gated, nextId, attempts, ran, approved, sender, receiver>>

\* `.await?` returns without a drain and without the results of the batch
BatchCancelled ==
  /\ pc = "batch" /\ cancelled
  /\ Close("Cancelled")
  /\ UNCHANGED <<tokens, history, calls, guard, sender, receiver>>

BatchOver ==
  /\ pc = "gate" /\ gated = <<>>
  /\ Continue
  /\ UNCHANGED <<empties, tokens, history, calls, guard, sender, receiver>>

\* a steer is drained before every gated call; then a hook or a rule may refuse it
Refuse ==
  /\ pc = "gate" /\ gated # <<>>
  /\ Drain /\ history' = Append(WithSteers(history), Answer(gated[1]))
  /\ gated' = Tail(gated)
  /\ UNCHANGED <<turn, tokens, batch, nextId, guard, sender>>

\* the cache or a rule allows the call, or the user is asked
Gate ==
  /\ pc = "gate" /\ gated # <<>>
  /\ Drain /\ history' = WithSteers(history)
  /\ IF gated[1].sig \in approved \/ "cards" \notin Hazards
     THEN /\ pc' = "exec" /\ fired' = FALSE
          /\ ran' = Counted(ran, <<gated[1]>>)
     ELSE pc' = "ask" /\ UNCHANGED <<fired, ran>>
  /\ UNCHANGED <<result, iteration, empties, cancelled, late, calls, attempts, failures, approved, sender>>

Allowed ==
  /\ pc = "ask"
  /\ approved' = approved \cup {gated[1].sig}
  /\ pc' = "exec" /\ fired' = FALSE
  /\ ran' = Counted(ran, <<gated[1]>>)
  /\ UNCHANGED <<result, iteration, empties, cancelled, late, history, calls, attempts, failures, sender, receiver>>

\* mutant: a refused call gets no result
NotAllowedUnanswered ==
  /\ pc = "ask"
  /\ gated' = Tail(gated) /\ pc' = "gate"
  /\ UNCHANGED <<result, iteration, empties, tokens, history, batch, nextId, guard, sender, receiver>>

\* No, a card that timed out, or a client that went away
NotAllowed ==
  /\ pc = "ask"
  /\ history' = Append(history, Answer(gated[1]))
  /\ gated' = Tail(gated) /\ pc' = "gate"
  /\ UNCHANGED <<result, iteration, empties, tokens, batch, nextId, guard, sender, receiver>>

\* an edit may be followed by diagnostics, pushed as a user message before the result
ExecDone(ok, diagnosed) ==
  LET before == IF diagnosed THEN Append(history, User) ELSE history
      done   == Outcome([history |-> before, failures |-> failures], gated[1], ok)
  IN  /\ pc = "exec"
      /\ diagnosed => ok /\ "lsp" \in Hazards
      /\ history' = done.history /\ failures' = done.failures
      /\ gated' = Tail(gated) /\ pc' = "gate"
      /\ UNCHANGED <<result, iteration, empties, tokens, batch, nextId, attempts, ran, approved, sender, receiver>>

\* only the deadline of the tool drains
ExecCancelled ==
  /\ pc = "exec" /\ cancelled
  /\ IF fired THEN CloseWithDrain("WallTimeout")
              ELSE Close("Cancelled") /\ UNCHANGED <<history, receiver>>
  /\ UNCHANGED <<tokens, calls, guard, sender>>

\* the select! of a running tool takes a steer, or finds the sender gone
ToolSteered ==
  /\ pc \in {"batch", "exec"} /\ Record
  /\ UNCHANGED <<turn, tokens, history, calls, guard, sender>>

NoticeClosed ==
  /\ pc \in {"stream", "batch", "exec"} /\ CloseReceiver
  /\ UNCHANGED <<turn, tokens, history, calls, guard, sender>>

\* run() returns and drops the receiver
Return ==
  /\ pc = "closing"
  /\ pc' = "returned" /\ rxOpen' = FALSE
  /\ UNCHANGED <<result, iteration, empties, tokens, history, calls, guard, sender, chan, pending, merged>>

-----------------------------------------------------------------------------
(* The world around the loop. *)

SendSteer(id, edit) ==
  /\ senderUp /\ rxOpen /\ pc # "returned"
  /\ Len(chan) < ChannelCap /\ Len(accepted) < MaxAccepted
  /\ edit <=> id \in Elements(accepted)
  /\ accepted' = Append(accepted, id)
  /\ chan' = Append(chan, [id |-> id, edit |-> edit, correction |-> FALSE,
                           at |-> Len(accepted'), text |-> Len(accepted')])
  /\ UNCHANGED <<turn, tokens, history, calls, guard, senderUp, rxOpen, pending, merged>>

SenderDrops ==
  /\ "drop" \in Hazards /\ senderUp
  /\ senderUp' = FALSE
  /\ UNCHANGED <<turn, tokens, history, calls, guard, accepted, receiver>>

Abort ==
  /\ "abort" \in Hazards /\ ~cancelled /\ pc # "returned"
  /\ cancelled' = TRUE
  /\ UNCHANGED <<turn, fired, late, history, calls, guard, sender, receiver>>

\* the backstop of a stream or the deadline of a gated tool
DeadlineFires ==
  /\ "deadline" \in Hazards /\ pc \in {"stream", "interrupted", "exec"} /\ ~fired
  /\ fired' = TRUE /\ cancelled' = TRUE
  /\ UNCHANGED <<turn, late, history, calls, guard, sender, receiver>>

WallElapses ==
  /\ "deadline" \in Hazards /\ ~late /\ pc # "returned"
  /\ late' = TRUE
  /\ UNCHANGED <<turn, cancelled, fired, history, calls, guard, sender, receiver>>

Idle == pc = "returned" /\ UNCHANGED vars

-----------------------------------------------------------------------------
\* what the loop does by itself, whatever the provider, the tools and the user do
Progress ==
  \/ StartIteration \/ StopAtTop \/ IterationsExhausted
  \/ StreamCancelled \/ Reissue
  \/ BatchCancelled \/ BatchOver \/ Refuse \/ Gate
  \/ NotAllowed \/ ExecCancelled \/ Return

Provider ==
  \/ StreamError \/ ContextTooLong \/ FinalReply
  \/ \E sawDone \in BOOLEAN : EmptyReply(sawDone)
  \/ \E n \in 1..MaxCalls : \E sigs \in [1..n -> Signature], decisions \in [1..n -> Decision] :
       ToolReply(sigs, decisions)

Tools ==
  \/ \E ok \in [DOMAIN batch -> BOOLEAN] : BatchDone(ok)
  \/ \E ok, diagnosed \in BOOLEAN : ExecDone(ok, diagnosed)

World ==
  \/ Allowed
  \/ \E id \in Steer, edit \in BOOLEAN : SendSteer(id, edit)
  \/ SenderDrops \/ Abort \/ DeadlineFires \/ WallElapses

Next ==
  \/ Progress \/ Provider \/ Tools \/ World
  \/ StreamSteered \/ ToolSteered \/ NoticeClosed \/ Idle

\* The executor polls the loop again whenever it is ready; a permission card is
\* answered, if only by its timeout.  Nothing is assumed of providers and tools.
Spec == Init /\ [][Next]_vars /\ WF_vars(Progress)

-----------------------------------------------------------------------------
SteerMessage == [id: Steer, edit: BOOLEAN, correction: BOOLEAN, at: Nat, text: Nat]

\* Every variable keeps its type and every counter its limit.
TypeOK ==
  /\ pc \in {"top", "stream", "interrupted", "batch", "gate", "ask", "exec", "closing", "returned"}
  /\ result \in {"none", "Ok", "Cancelled", "WallTimeout", "Failed", "MaxIterations"}
  /\ iteration \in 0..MaxIterations /\ empties \in 0..MaxEmpty
  /\ {cancelled, fired, late, rxOpen, senderUp} \subseteq BOOLEAN
  /\ history \in Seq(Message) /\ nextId \in Nat
  /\ batch \in Seq(Call) /\ gated \in Seq(Call)
  /\ attempts \in [Signature -> 0..BlockAt] /\ ran \in [Signature -> 0..BlockAt]
  /\ failures \in [Tool -> 0..HaltAt] /\ approved \subseteq Signature
  /\ chan \in Seq(SteerMessage) /\ Len(chan) <= ChannelCap
  /\ pending \in Seq(SteerMessage) /\ merged \in Seq(SteerMessage)
  /\ accepted \in Seq(Steer)

Journey == merged \o pending \o chan

\* A steer the channel took is in the channel, pending, or merged into the
\* history, or a later edit of it took its place: drain, the bursts of select!
\* and edits never drop one while the turn has not returned.
SteersAccounted ==
  \A k \in DOMAIN accepted :
    \E e \in Elements(Journey) : e.at = k \/ (e.id = accepted[k] /\ e.text >= k)

\* Steers reach the model in the order the user sent them and none twice, also
\* when a burst, an edit and a drain met the same messages.
SteersInOrder ==
  \A i, j \in DOMAIN Journey : i < j => Journey[i].at < Journey[j].at

\* Steers are neither lost, doubled nor reordered on their way from the channel
\* into the history, and every list, counter and token keeps its type.
SteersKept == TypeOK /\ SteersAccounted /\ SteersInOrder

\* A turn that fails on its provider or on a deadline first puts the steers it
\* was sent so far, read or not, into the history.
Fails == pc # "closing" /\ pc' = "closing" /\ result' \in {"Failed", "WallTimeout"}

FailureKeepsSteers == [][Fails /\ rxOpen => pending' \o chan' = <<>>]_vars

\* Every request answers every tool call of this turn it carries exactly once and
\* behind the call: refusals by the guard, a hook, a rule or the user answer too.
\* Only a turn that returns on a cancelled token leaves calls open, those of its
\* last reply; they stay open in every later turn of the session and get no
\* second answer, so what a turn leaves is a history the next one can start from.
RequestsArePaired ==
  /\ pc = "stream"   => Paired(history, Open)
  /\ pc = "returned" =>
       /\ Numbered(history, nextId)
       /\ Paired(history, Open \cup Ids(batch) \cup Ids(gated))
       /\ result \notin {"Cancelled", "WallTimeout"} => Ids(batch) \cup Ids(gated) = {}

\* One guard watches the whole turn: the call that would be the BlockAt-th with
\* the same arguments never runs, whatever iterations lie between.
RepeatsAreBlocked ==
  \A s \in Signature : ran[s] < BlockAt

\* Once the token of the turn is cancelled, by the user or by a deadline, the
\* loop returns, even if the provider or a tool never does.
CancelEnds == cancelled ~> pc = "returned"

-----------------------------------------------------------------------------
(* What comments and messages of the code promise and the code does not keep. *)

\* "on every Err return path of AgentLoop::run" a drain puts the pending steers
\* into the history.
ErrPathsDrain ==
  pc \in {"closing", "returned"} /\ result \notin {"none", "Ok"} => pending = <<>>

\* The acknowledgement of a steer says it will be delivered between steps: a turn
\* that ends well has told the model every steer it took.
AcceptedIsHeard ==
  pc = "returned" /\ result = "Ok" => pending \o chan = <<>>

\* An edit of a delivered steer is told to the model as a correction.
LateEditsAreCorrections ==
  \A i, j \in DOMAIN merged :
    i < j /\ merged[i].id = merged[j].id => merged[j].correction

\* "Never cut between assistant(tool_use) and its tool_result": a result in the
\* history still has its call before it.
NoCutBetweenPairs ==
  \A j \in DOMAIN history : \A c \in history[j].calls :
    history[j].role = "tool" /\ c > 0 =>
      \E i \in 1..(j - 1) : history[i].role = "assistant" /\ c \in history[i].calls

\* A provider is sent a history in which every call has its answer: not after a
\* turn that was cancelled while its tools ran.
EveryRequestIsPaired == pc = "stream" => Paired(history, {})

\* The guard "halts after too many consecutive failures": at least the next
\* request says so.
HaltIsTold ==
  pc = "stream" =>
    \A t \in Tool : failures[t] >= HaltAt =>
      \E i \in SentAnswers(history) : \E c \in history[i].calls : c < 0
=============================================================================
