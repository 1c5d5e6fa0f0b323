---------------------------- MODULE McpTransport ----------------------------
(***************************************************************************)
(* One MCP server over a pair of pipes (naked-core/src/mcp/transport.rs,    *)
(* mcp/client.rs).  Tools that only read run at the same time, so several   *)
(* calls want the pipes; a call writes one line and takes the next line it  *)
(* reads for its answer.  The server may be slow, silent, out of order or   *)
(* chatty, and a call may be dropped with its turn at any await.            *)
(***************************************************************************)
EXTENDS Lists

CONSTANTS
    Client,       \* callers of tools
    None,
    MaxCalls,     \* bound on the calls of a caller
    MaxDropped,   \* bound on dropped calls
    MaxChatter    \* bound on lines the server writes unasked

VARIABLES
    inbox,        \* lines the server has yet to answer
    outbox,       \* lines nobody has read
    torn,         \* whether the last line to the server lacks its end
    up,           \* whether the server runs
    exchange,     \* who holds the lock of the exchange
    desynced,
    next_id,
    tool_call,    \* caller -> [at, id]
    result,       \* caller -> [id, line] of its last answer
    calls, dropped, chatter,
    disturbed     \* history: whether a call timed out or was dropped, or the server chattered

stream == <<inbox, outbox, torn, up>>
bounds == <<calls, dropped, chatter>>
vars == <<stream, exchange, desynced, next_id, tool_call, result, bounds, disturbed>>

\* A line that does not parse; a notification parses and has no id.
Junk == 0
NoId == None
Resting == [at |-> "idle", id |-> Junk]

Init ==
    /\ inbox = <<>> /\ outbox = <<>> /\ torn = FALSE /\ up = TRUE
    /\ exchange = None /\ desynced = FALSE /\ next_id = 1
    /\ tool_call = [c \in Client |-> Resting]
    /\ result = [c \in Client |-> None]
    /\ calls = [c \in Client |-> MaxCalls] /\ dropped = MaxDropped /\ chatter = MaxChatter
    /\ disturbed = FALSE

CallTool(c) ==
    /\ tool_call[c].at = "idle" /\ calls[c] > 0
    /\ calls' = [calls EXCEPT ![c] = @ - 1]
    /\ next_id' = next_id + 1
    /\ tool_call' = [tool_call EXCEPT ![c] = [at |-> "lock", id |-> next_id]]
    /\ UNCHANGED <<stream, exchange, desynced, result, dropped, chatter, disturbed>>

Unlocked == TRUE
Free == exchange = None

\* A stream that was given up is not used again.
Acquire(c) ==
    /\ tool_call[c].at = "lock" /\ Free
    /\ IF desynced THEN tool_call' = [tool_call EXCEPT ![c] = Resting] /\ UNCHANGED exchange
       ELSE tool_call' = [tool_call EXCEPT ![c].at = "write"] /\ exchange' = c
    /\ UNCHANGED <<stream, desynced, next_id, result, bounds, disturbed>>

Written(c) ==
    /\ tool_call[c].at = "write" /\ up
    /\ inbox' = Append(inbox, IF torn THEN Junk ELSE tool_call[c].id) /\ torn' = FALSE
    /\ tool_call' = [tool_call EXCEPT ![c].at = "read"]
    /\ UNCHANGED <<outbox, up, exchange, desynced, next_id, result, bounds, disturbed>>

Ends(c) == exchange' = None /\ tool_call' = [tool_call EXCEPT ![c] = Resting]

\* Both halves have a deadline; after either the pipes are not trusted again.
TimesOut(c) ==
    /\ tool_call[c].at \in {"write", "read"}
    /\ torn' \in (IF tool_call[c].at = "write" THEN {torn, TRUE} ELSE {torn})
    /\ desynced' = TRUE /\ disturbed' = TRUE
    /\ Ends(c)
    /\ UNCHANGED <<inbox, outbox, up, next_id, result, bounds>>

MatchesAny(line, id) == line # Junk
Matches(line, id) == line = id

\* A line that does not parse is an error of this call; a reply to another call
\* is the end of the stream.
Read(c) ==
    LET line == Head(outbox) IN
    /\ tool_call[c].at = "read" /\ outbox # <<>>
    /\ outbox' = Tail(outbox)
    /\ desynced' = (desynced \/ (line # Junk /\ ~ Matches(line, tool_call[c].id)))
    /\ result' = IF Matches(line, tool_call[c].id)
                 THEN [result EXCEPT ![c] = [id |-> tool_call[c].id, line |-> line]] ELSE result
    /\ Ends(c)
    /\ UNCHANGED <<inbox, torn, up, next_id, bounds, disturbed>>

\* Pipes of a server that is gone: an error of the call, and no mark.
Broken(c) ==
    /\ ~ up
    /\ tool_call[c].at = "write" \/ (tool_call[c].at = "read" /\ outbox = <<>>)
    /\ Ends(c)
    /\ UNCHANGED <<stream, desynced, next_id, result, bounds, disturbed>>

\* The future of a call is dropped at an await: its lock is free again, and what
\* it wrote or had yet to read stays in the pipes.
Dropped(c) ==
    /\ tool_call[c].at # "idle" /\ dropped > 0 /\ dropped' = dropped - 1
    /\ torn' \in (IF tool_call[c].at = "write" THEN {torn, TRUE} ELSE {torn})
    /\ exchange' = IF exchange = c THEN None ELSE exchange
    /\ tool_call' = [tool_call EXCEPT ![c] = Resting]
    /\ disturbed' = TRUE
    /\ UNCHANGED <<inbox, outbox, up, desynced, next_id, result, calls, chatter>>

\* The server answers what it was sent, in any order.
Reply ==
    \E i \in DOMAIN inbox :
        /\ up /\ outbox' = Append(outbox, inbox[i]) /\ inbox' = Without(inbox, i)
        /\ UNCHANGED <<torn, up, exchange, desynced, next_id, tool_call, result, bounds, disturbed>>

Chatter ==
    /\ up /\ chatter > 0 /\ chatter' = chatter - 1
    /\ \E line \in {Junk, NoId} : outbox' = Append(outbox, line)
    /\ disturbed' = TRUE
    /\ UNCHANGED <<inbox, torn, up, exchange, desynced, next_id, tool_call, result, calls, dropped>>

Die ==
    /\ up /\ up' = FALSE /\ inbox' = <<>>
    /\ UNCHANGED <<outbox, torn, exchange, desynced, next_id, tool_call, result, bounds, disturbed>>

Progress == \E c \in Client : Acquire(c) \/ Written(c) \/ TimesOut(c) \/ Read(c) \/ Broken(c)
Next == Progress \/ Reply \/ Chatter \/ Die \/ \E c \in Client : CallTool(c) \/ Dropped(c)

\* Calls go on and their deadlines pass; the server need not answer.
Spec == Init /\ [][Next]_vars /\ WF_vars(Progress)

-----------------------------------------------------------------------------
(***************************************************************************)
(* Properties                                                              *)
(***************************************************************************)

\* The types; at most one call is between its write and its read.
TypeOK ==
    /\ exchange \in Client \cup {None} /\ desynced \in BOOLEAN /\ torn \in BOOLEAN
    /\ Range(inbox) \cup Range(outbox) \subseteq 0..(next_id - 1) \cup {NoId}
    /\ \A c \in Client : tool_call[c].at \in {"write", "read"} <=> exchange = c

\* An answer is the answer to the question: whatever stale replies timeouts and
\* dropped calls leave in the pipe, no caller takes the result of another call.
ReplyIsOwn == \A c \in Client : result[c] # None => result[c].line = result[c].id

\* Calls that merely run at the same time never cost the server its stream: it
\* is given up only after a timeout, a dropped call or a line nobody asked for.
GivenUpForACause == desynced => disturbed

\* "set when a timeout leaves an unread reply in the pipe": whoever finds the
\* exchange free finds nothing of another call in the pipes, or the mark.  It does
\* not hold: a dropped call leaves its reply and sets no mark; the next call gets
\* an error for it and only then is the stream given up.
FreeMeansInStep == exchange = None => desynced \/ ~ up \/ inbox \o outbox = <<>>

\* Every call returns, though the server may neither read nor answer.
Quiet == \A c \in Client : tool_call[c].at = "idle"
CallsReturn == []<>Quiet
=============================================================================
