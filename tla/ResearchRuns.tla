---------------------------- MODULE ResearchRuns ----------------------------
(***************************************************************************)
(* A research run (naked-core/src/research/coordinator_mod/) and the file  *)
(* of its findings (research/store_fs.rs): a coordinator starts an agent,  *)
(* waits for it, stops it and lets a gatekeeper remove findings, for a few *)
(* rounds; the agent saves findings while it is on.  Findings have one     *)
(* row per URL; a set in memory says which URLs the file has.  A save that *)
(* names no spec goes to the spec of the one context all runs share.       *)
(***************************************************************************)
EXTENDS Lists

CONSTANTS
    Research,     \* ids of specs
    Coordinator,  \* runs, of this process or of the next one
    Url,
    None,
    Scenes        \* which run studies what, under which settings; bounds on the saves
                  \* and on cancels, aborts, crashes and errors

VARIABLES
    scene,
    findings,     \* spec -> the rows of findings.jsonl
    known,        \* spec -> the dedup set
    guarded,      \* spec -> whether its file mutex is held
    context,      \* the run ResearchContext was set for, or None
    coordinator,  \* run -> its locals
    finder,       \* run -> its agent: none, on, stopping, off
    saving,       \* run -> the research_save its agent is in
    finds, trouble,
    kept,         \* history: spec -> the URLs a save stored and no gatekeeper removed
    spoiled       \* history: the specs with a row half written, or written by a save that was dropped

rows == <<findings, known, guarded, kept, spoiled>>
vars == <<scene, rows, context, coordinator, finder, saving, finds, trouble>>

Queued == [pc |-> "queued", round |-> 0, reason |-> None, cancel |-> FALSE, base |-> 0,
           dead |-> {}, again |-> FALSE, rest |-> <<>>, removed |-> 0, replaced |-> 0]
NoSave == [pc |-> "idle", spec |-> None, row |-> None, rest |-> <<>>]

\* Lines that do not parse: the last one without its end, and one with.
Torn == [url |-> None, by |-> "torn"]
Bad == [url |-> None, by |-> "bad"]
Earlier(u) == [url |-> u, by |-> None]

Init ==
    /\ scene \in Scenes
    /\ findings = [s \in Research |-> <<Earlier(scene.earlier)>>]
    /\ known = [s \in Research |-> {}] /\ guarded = [s \in Research |-> FALSE]
    /\ context = None
    /\ coordinator = [c \in Coordinator |->
           IF c \in DOMAIN scene.study THEN Queued ELSE [Queued EXCEPT !.pc = "over"]]
    /\ finder = [c \in Coordinator |-> "none"] /\ saving = [c \in Coordinator |-> NoSave]
    /\ finds = scene.finds /\ trouble = scene.trouble
    /\ kept = [s \in Research |-> {scene.earlier}] /\ spoiled = {}

Study(c) == scene.study[c]

-----------------------------------------------------------------------------
(***************************************************************************)
(* The file.                                                               *)
(***************************************************************************)

Parsed(file) == Kept(file, {i \in DOMAIN file : file[i].url # None})
Urls(file) == {r.url : r \in Range(Parsed(file))}

\* What is appended to a line without an end becomes part of it.
Appended(file, row) ==
    IF file # <<>> /\ file[Len(file)] = Torn
    THEN Append(Without(file, Len(file)), IF row = Torn THEN Torn ELSE Bad)
    ELSE Append(file, row)

Replaced(file, row) ==
    IF row.url \in Urls(file)
    THEN [i \in DOMAIN file |-> IF file[i].url = row.url THEN row ELSE file[i]]
    ELSE Append(file, row)

\* The rewrite keeps what does not parse, each line with an end.
Cleared(file, dead) ==
    LET left == Kept(file, {i \in DOMAIN file : file[i].url \notin dead})
    IN [i \in DOMAIN left |-> IF left[i] = Torn THEN Bad ELSE left[i]]

\* ensure_dedup_loaded_from_file: an empty set is loaded, and the file healed.
Loaded(s) == IF known[s] = {} THEN Parsed(findings[s]) ELSE findings[s]
KnownOf(s) == IF known[s] = {} THEN Urls(findings[s]) ELSE known[s]

\* list_findings, count_findings: wait for the mutex, and heal.
Heal(s) ==
    /\ ~ guarded[s]
    /\ findings' = [findings EXCEPT ![s] = Parsed(@)]
    /\ UNCHANGED <<known, guarded, kept, spoiled>>

-----------------------------------------------------------------------------
(***************************************************************************)
(* ResearchSaveTool::execute and upsert_finding.                           *)
(***************************************************************************)

\* The spec of the argument, or that of the context; the tag of the run is left out.
BeginSave(c) ==
    /\ finder[c] = "on" /\ saving[c].pc = "idle" /\ finds > 0 /\ finds' = finds - 1
    /\ scene.explicit \/ context # None
    /\ \E u \in Url :
        saving' = [saving EXCEPT ![c] =
            [pc |-> "wait", spec |-> IF scene.explicit THEN Study(c) ELSE Study(context),
             row |-> [url |-> u, by |-> c], rest |-> <<>>]]
    /\ UNCHANGED <<scene, rows, context, coordinator, finder, trouble>>

Unguarded(s) == TRUE
Free(s) == ~ guarded[s]

\* Under the mutex, up to the first write: a row that is known is replaced in a copy.
Take(c) ==
    LET s == saving[c].spec
        r == saving[c].row IN
    /\ saving[c].pc = "wait" /\ Free(s)
    /\ guarded' = [guarded EXCEPT ![s] = TRUE]
    /\ known' = [known EXCEPT ![s] = KnownOf(s)]
    /\ IF r.url \in KnownOf(s)
       THEN /\ findings' = [findings EXCEPT ![s] = Parsed(@)]
            /\ saving' = [saving EXCEPT ![c].pc = "rewrite", ![c].rest = Replaced(Parsed(findings[s]), r)]
       ELSE /\ findings' = [findings EXCEPT ![s] = Loaded(s)]
            /\ saving' = [saving EXCEPT ![c].pc = "append"]
    /\ UNCHANGED <<scene, kept, spoiled, context, coordinator, finder, finds, trouble>>

Written(c) ==
    IF saving[c].pc = "append" THEN Appended(findings[saving[c].spec], saving[c].row) ELSE saving[c].rest

NotNoted(c) == known[saving[c].spec]
Noted(c) == known[saving[c].spec] \cup {saving[c].row.url}

Land(c) ==
    LET s == saving[c].spec IN
    /\ saving[c].pc \in {"append", "rewrite"}
    /\ findings' = [findings EXCEPT ![s] = Written(c)]
    /\ known' = [known EXCEPT ![s] = Noted(c)]
    /\ guarded' = [guarded EXCEPT ![s] = FALSE]
    /\ kept' = [kept EXCEPT ![s] = @ \cup {saving[c].row.url}]
    /\ saving' = [saving EXCEPT ![c].pc = "tell", ![c].rest = <<>>]
    /\ UNCHANGED <<scene, spoiled, context, coordinator, finder, finds, trouble>>

\* The disk is full: an append may leave part of its line, a rewrite leaves the file.
FailSave(c) ==
    LET s == saving[c].spec IN
    /\ saving[c].pc \in {"append", "rewrite"} /\ trouble > 0 /\ trouble' = trouble - 1
    /\ guarded' = [guarded EXCEPT ![s] = FALSE]
    /\ \/ /\ saving[c].pc = "append"
          /\ findings' = [findings EXCEPT ![s] = Appended(@, Torn)]
          /\ spoiled' = spoiled \cup {s}
       \/ UNCHANGED <<findings, spoiled>>
    /\ saving' = [saving EXCEPT ![c] = NoSave]
    /\ UNCHANGED <<scene, known, kept, context, coordinator, finder, finds>>

\* The result counts the findings.
Tell(c) ==
    /\ saving[c].pc = "tell" /\ Heal(saving[c].spec)
    /\ saving' = [saving EXCEPT ![c] = NoSave]
    /\ UNCHANGED <<scene, context, coordinator, finder, finds, trouble>>

\* The cancelled loop drops the call it is in: a write that was handed over is
\* still made (it may even be made later, when another call holds the mutex), but
\* the set is not told.
StopAgent(c) ==
    LET s == saving[c].spec
        writes == saving[c].pc \in {"append", "rewrite"} IN
    /\ finder[c] = "stopping" /\ finder' = [finder EXCEPT ![c] = "off"]
    /\ findings' \in {findings} \cup (IF writes THEN {[findings EXCEPT ![s] = Written(c)]} ELSE {})
    /\ guarded' = [x \in Research |-> guarded[x] /\ ~ (writes /\ x = s)]
    /\ spoiled' = IF writes THEN spoiled \cup {s} ELSE spoiled
    /\ saving' = [saving EXCEPT ![c] = NoSave]
    /\ UNCHANGED <<scene, known, kept, context, coordinator, finds, trouble>>

-----------------------------------------------------------------------------
(***************************************************************************)
(* run_research_verified_with_cancel and run_once_with_cancel.             *)
(***************************************************************************)

Goes(c, pc) == coordinator' = [coordinator EXCEPT ![c].pc = pc]
Returns(c, reason) == coordinator' = [coordinator EXCEPT ![c].pc = "record", ![c].reason = reason]
At(c, pc) == coordinator[c].pc = pc
Holding == {c \in Coordinator : coordinator[c].pc \notin {"queued", "over", "dropped"}}

Acquire(c) ==
    /\ At(c, "queued") /\ Cardinality(Holding) < scene.permits
    /\ Goes(c, "open")
    /\ UNCHANGED <<scene, rows, context, finder, saving, finds, trouble>>

\* Somebody may have paused the spec by now.
Paused(c) ==
    /\ At(c, "open") /\ scene.paused
    /\ Returns(c, "paused")
    /\ UNCHANGED <<scene, rows, context, finder, saving, finds, trouble>>

Open(c) ==
    /\ At(c, "open") /\ Heal(Study(c))
    /\ Goes(c, "launch")
    /\ UNCHANGED <<scene, context, finder, saving, finds, trouble>>

\* start_research_turn: the context is set before the prompt is sent.
Launch(c) ==
    /\ At(c, "launch")
    /\ context' = c /\ finder' = [finder EXCEPT ![c] = "on"]
    /\ Goes(c, "drain")
    /\ UNCHANGED <<scene, rows, saving, finds, trouble>>

\* No model of the chain accepts: the context stays as it was set.
Refused(c) ==
    /\ At(c, "launch") /\ trouble > 0 /\ trouble' = trouble - 1
    /\ context' = c
    /\ IF coordinator[c].round = 0 THEN Returns(c, "error") ELSE Goes(c, "final")
    /\ UNCHANGED <<scene, rows, finder, saving, finds>>

AgentEnds(c) ==
    /\ finder[c] = "on" /\ saving[c].pc = "idle"
    /\ finder' = [finder EXCEPT ![c] = "off"]
    /\ UNCHANGED <<scene, rows, context, coordinator, saving, finds, trouble>>

\* drain_events: Idle, the token, or the wall clock.
Drained(c) ==
    /\ At(c, "drain")
    /\ coordinator[c].cancel \/ finder[c] = "off"
    /\ Returns(c, IF coordinator[c].cancel THEN "cancelled" ELSE "idle")
    /\ UNCHANGED <<scene, rows, context, finder, saving, finds, trouble>>
WallIfDone(c) == At(c, "drain") /\ finder[c] = "off" /\ Drained(c)
Wall(c) ==
    /\ At(c, "drain") /\ finder[c] = "on" /\ Returns(c, "timeout")
    /\ UNCHANGED <<scene, rows, context, finder, saving, finds, trouble>>

Minus(a, b) == IF a > b THEN a - b ELSE 0
NewAtAll(c, after) == after

\* In a later round: what is there beyond what was left after the removals.
NewInRerun(c, after) == Minus(after, Minus(coordinator[c].base, coordinator[c].removed))

\* A run that is not to be verified is over.
Verified(c) == IF scene.rounds[c] = 0 THEN "over" ELSE "judge"

\* write_record, with the two counts before it; only a run that started is cleaned up after.
Record(c) ==
    LET count == Len(Parsed(findings[Study(c)]))
        C == coordinator[c] IN
    /\ At(c, "record") /\ Heal(Study(c))
    /\ coordinator' = [coordinator EXCEPT
           ![c].pc = IF C.reason \in {"paused", "error"} THEN Verified(c) ELSE "cleanup",
           ![c].base = count,
           ![c].replaced = IF C.round = 0 THEN 0 ELSE C.replaced + NewInRerun(c, count)]
    /\ UNCHANGED <<scene, context, finder, saving, finds, trouble>>

LeftOn(c) == finder[c]
Stopped(c) == IF finder[c] = "on" THEN "stopping" ELSE finder[c]

\* cleanup_research_session: abort, then clear the context, whoever set it last.
Cleanup(c) ==
    /\ At(c, "cleanup")
    /\ finder' = [finder EXCEPT ![c] = Stopped(c)]
    /\ context' = None
    /\ Goes(c, Verified(c))
    /\ UNCHANGED <<scene, rows, saving, finds, trouble>>

-----------------------------------------------------------------------------
(***************************************************************************)
(* run_verified_with_cancel, verify_findings, remove_findings_by_hash.     *)
(***************************************************************************)

\* The next round runs the agent again, also on a spec that is paused by now.
Decided(again) == IF again THEN "launch" ELSE "final"

\* The links of a list of the findings are tried; what is dead, old or double is to
\* go, and what is incomplete may ask for another round.
Judge(c) ==
    /\ At(c, "judge") /\ ~ coordinator[c].cancel /\ Heal(Study(c))
    /\ \E dead \in SUBSET Urls(findings[Study(c)]), again \in BOOLEAN :
        /\ Cardinality(dead) <= 1
        /\ again => coordinator[c].round + 1 < scene.rounds[c]
        /\ coordinator' = [coordinator EXCEPT
               ![c].pc = IF dead # {} THEN "remove" ELSE Decided(again),
               ![c].round = @ + 1, ![c].dead = dead, ![c].again = again /\ dead # {}]
    /\ UNCHANGED <<scene, context, finder, saving, finds, trouble>>

Removes(c, n) ==
    coordinator' = [coordinator EXCEPT ![c].pc = Decided(coordinator[c].again), ![c].rest = <<>>,
                        ![c].dead = {}, ![c].again = FALSE, ![c].removed = @ + n]

\* Under the mutex; a file without such a row is not rewritten.
RemoveDead(c) ==
    LET s == Study(c)
        C == coordinator[c] IN
    /\ At(c, "remove") /\ Free(s)
    /\ known' = [known EXCEPT ![s] = KnownOf(s)]
    /\ findings' = [findings EXCEPT ![s] = Loaded(s)]
    /\ IF C.dead \cap Urls(findings[s]) = {}
       THEN Removes(c, 0) /\ UNCHANGED guarded
       ELSE /\ coordinator' = [coordinator EXCEPT ![c].pc = "rename", ![c].rest = Cleared(Loaded(s), C.dead)]
            /\ guarded' = [guarded EXCEPT ![s] = TRUE]
    /\ UNCHANGED <<scene, kept, spoiled, context, finder, saving, finds, trouble>>

Rename(c) ==
    LET s == Study(c)
        C == coordinator[c] IN
    /\ At(c, "rename")
    /\ findings' = [findings EXCEPT ![s] = C.rest]
    /\ known' = [known EXCEPT ![s] = @ \ C.dead]
    /\ kept' = [kept EXCEPT ![s] = @ \ C.dead]
    /\ guarded' = [guarded EXCEPT ![s] = FALSE]
    /\ Removes(c, Len(findings[s]) - Len(C.rest))
    /\ UNCHANGED <<scene, spoiled, context, finder, saving, finds, trouble>>

RenameFails(c) ==
    /\ At(c, "rename") /\ trouble > 0 /\ trouble' = trouble - 1
    /\ guarded' = [guarded EXCEPT ![Study(c)] = FALSE]
    /\ Removes(c, 0)
    /\ UNCHANGED <<scene, findings, known, kept, spoiled, context, finder, saving, finds>>

\* Also when it was cancelled: the summary record says AgentIdle, and is what the caller sees.
Final(c) ==
    /\ At(c, "final") \/ (At(c, "judge") /\ coordinator[c].cancel)
    /\ Heal(Study(c))
    /\ coordinator' = [coordinator EXCEPT ![c].pc = "over", ![c].reason = "idle"]
    /\ UNCHANGED <<scene, context, finder, saving, finds, trouble>>

-----------------------------------------------------------------------------
(***************************************************************************)
(* What comes from outside.                                                *)
(***************************************************************************)

Cancel(c) ==
    /\ c \in Holding /\ ~ coordinator[c].cancel /\ trouble > 0 /\ trouble' = trouble - 1
    /\ coordinator' = [coordinator EXCEPT ![c].cancel = TRUE]
    /\ UNCHANGED <<scene, rows, context, finder, saving, finds>>

\* The scheduler aborts the task of a run: permit and mutex are free, a rewrite
\* under way is made or not, and the agent and the context stay.
HardAbort(c) ==
    LET s == Study(c)
        writes == At(c, "rename") IN
    /\ scene.hard /\ c \in Holding /\ trouble > 0 /\ trouble' = trouble - 1
    /\ coordinator' = [coordinator EXCEPT ![c] = [Queued EXCEPT !.pc = "dropped"]]
    /\ guarded' = [x \in Research |-> guarded[x] /\ ~ (writes /\ x = s)]
    /\ findings' \in {findings} \cup (IF writes THEN {[findings EXCEPT ![s] = coordinator[c].rest]} ELSE {})
    /\ spoiled' = IF writes THEN spoiled \cup {s} ELSE spoiled
    /\ UNCHANGED <<scene, known, kept, context, finder, saving, finds>>

\* A line may be cut, a rewrite is a rename.  The runs that waited are those of the
\* next process, which knows nothing.
Savers(s) == {c \in Coordinator : saving[c].spec = s /\ saving[c].pc \in {"append", "rewrite"}}
Removers(s) == {c \in Coordinator : At(c, "rename") /\ Study(c) = s}
AfterCrash(s) ==
    {findings[s]}
    \cup {Written(c) : c \in Savers(s)}
    \cup {Appended(findings[s], Torn) : c \in {d \in Savers(s) : saving[d].pc = "append"}}
    \cup {coordinator[c].rest : c \in Removers(s)}

Crash ==
    /\ Holding # {} /\ trouble > 0 /\ trouble' = trouble - 1
    /\ \E s \in Research : \E file \in AfterCrash(s) :
        /\ \A x \in Research \ {s} : Cardinality(AfterCrash(x)) = 1
        /\ findings' = [findings EXCEPT ![s] = file]
        /\ kept' = [kept EXCEPT ![s] =
               @ \ UNION {coordinator[c].dead : c \in {d \in Removers(s) : coordinator[d].rest = file}}]
    /\ known' = [s \in Research |-> {}] /\ guarded' = [s \in Research |-> FALSE]
    /\ context' = None
    /\ coordinator' = [c \in Coordinator |->
           IF c \in Holding THEN [Queued EXCEPT !.pc = "dropped"] ELSE coordinator[c]]
    /\ finder' = [c \in Coordinator |-> IF finder[c] = "none" THEN "none" ELSE "off"]
    /\ saving' = [c \in Coordinator |-> NoSave]
    /\ UNCHANGED <<scene, spoiled, finds>>

Progress == \E c \in Coordinator :
    \/ Take(c) \/ Land(c) \/ Tell(c) \/ StopAgent(c)
    \/ Acquire(c) \/ Paused(c) \/ Open(c) \/ Launch(c) \/ Drained(c) \/ Wall(c)
    \/ Record(c) \/ Cleanup(c) \/ Judge(c) \/ RemoveDead(c) \/ Rename(c) \/ Final(c)
Next ==
    \/ Progress \/ Crash
    \/ \E c \in Coordinator :
        \/ BeginSave(c) \/ AgentEnds(c) \/ FailSave(c) \/ Refused(c)
        \/ RenameFails(c) \/ Cancel(c) \/ HardAbort(c)

\* The clock ends a run whose agent does not; nothing is assumed of agents.
Spec == Init /\ [][Next]_vars /\ WF_vars(Progress)

-----------------------------------------------------------------------------
(***************************************************************************)
(* Properties                                                              *)
(***************************************************************************)

\* The types; the mutex of a file is held by one that is writing it.
TypeOK ==
    /\ context \in Coordinator \cup {None}
    /\ \A s \in Research :
        /\ guarded[s] <=> Savers(s) \cup Removers(s) # {}
        /\ known[s] \subseteq Url /\ kept[s] \subseteq Url

\* A finding that was stored is in the file until a gatekeeper removes it, whatever
\* is saved, replaced, removed, healed or cut off by a crash beside it, as long as
\* no write ended half-way.
FindingsKept == \A s \in Research \ spoiled : kept[s] \subseteq Urls(findings[s])

\* Without that condition: it does not hold, the row after a half written one is
\* appended to it, told to be stored, and healed away.
FindingsKeptAlways == \A s \in Research : kept[s] \subseteq Urls(findings[s])

\* The set in memory and the file agree on what is there, also when two agents save
\* the same URL at once: no URL has two rows.
OneRowEach ==
    \A s \in Research \ spoiled : \A i, j \in DOMAIN findings[s] :
        findings[s][i].url = findings[s][j].url /\ findings[s][i].url \in Url => i = j

\* A finding lands in the spec of the run that found it: with explicit ids, or with
\* one run at a time that is never aborted hard, also when an agent that was
\* stopped is still on its last save.
SavesAreOwn ==
    \A s \in Research : \A row \in Range(findings[s]) :
        row.by \in Coordinator /\ (scene.explicit \/ (scene.permits = 1 /\ ~ scene.hard))
        => Study(row.by) = s

\* Without that condition: it does not hold, the context is that of the run that
\* started last, and a run that ends clears that of another one.
SavesAreAlwaysOwn ==
    \A s \in Research : \A row \in Range(findings[s]) :
        row.by \in Coordinator => Study(row.by) = s

\* "Remember which session backs this run so cleanup can abort": a run that is over
\* has told its agent to stop, on every path.
OverMeansStopped == \A c \in Coordinator : At(c, "over") => finder[c] # "on"

\* The replacements a run reports are not more than what was saved, when it has at
\* most one more round.
ReplacementsWereSaved ==
    \A c \in Coordinator :
        scene.rounds[c] <= 2 => coordinator[c].replaced <= scene.finds - finds

\* With the three rounds of the default: it does not hold, the removals of earlier
\* rounds are taken off again in each.
ReplacementsWereAlwaysSaved ==
    \A c \in Coordinator : coordinator[c].replaced <= scene.finds - finds

\* "the scheduler treats cancellation as a failure": it does not hold, the summary
\* of a verified run says AgentIdle.
CancelIsReported ==
    [][\A c \in Coordinator :
          coordinator[c].reason = "cancelled" => coordinator'[c].reason # "idle"]_vars

\* "skipping paused research": it does not hold, the gatekeeper sends an agent again.
PausedIsSkipped ==
    [][\A c \in Coordinator :
          At(c, "launch") /\ ~ At(c, "launch")' => coordinator[c].reason # "paused"]_vars

\* The context names a run that goes on, or nothing: it does not hold after a start
\* that was refused.
ContextIsLive == context = None \/ ~ At(context, "over")

\* Every run ends, and so does every save.
Quiet == \A c \in Coordinator : coordinator[c].pc \in {"over", "dropped"} /\ saving[c].pc = "idle"
RunsEnd == <>[]Quiet
=============================================================================
