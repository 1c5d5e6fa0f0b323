---------------------------- MODULE MemoryFiles ----------------------------
(***************************************************************************)
(* The memory of one scope: MEMORY.md, the drafts of each day and the      *)
(* nightly digest (naked-core/src/memory/store.rs, daily.rs, digest/, fed  *)
(* by tool/memory.rs, turn.rs and naked-tg/src/memory_scheduler.rs).  A    *)
(* writer reads the file, changes the list and replaces the file through   *)
(* MEMORY.md.tmp; no lock orders the writers.  The file is a list under    *)
(* the heading of each type, one line an entry: of a text of several lines *)
(* only the first comes back.  The digest promotes drafts and folds old    *)
(* entries, with calls of a model in between.                              *)
(***************************************************************************)
EXTENDS Lists

CONSTANTS
    Rule,         \* contents worth remembering
    ReadAs,       \* rule -> what a file that holds it is read as
    Sections,     \* MemoryType::ALL, by their places
    Section,      \* rule -> its type
    Explicit,     \* those the user asked for: promoted by the first digest
    Writer,       \* the memory tool in some turn, or the command line
    None,
    Stored,       \* the rules of MEMORY.md at the start, the oldest first
    MaxRules,   \* MAX_ENTRIES_PER_FILE
    RepeatDays,   \* promote_min_repeat_days
    Lookback,     \* recent_shift_days
    Retention,    \* daily_retention_days
    FoldAt,       \* compact_threshold_per_section
    FoldWindow,   \* compact_window
    Files,        \* files there may be at a time
    MaxDay,       \* bound on days
    MaxWrites,    \* bound on stores and deletions
    MaxDrafts,    \* bound on drafts
    MaxCrashes    \* bound on crashes

VARIABLES
    lines,        \* file -> entries, in the order in which they were appended
    memory_md, memory_tmp,   \* file behind each name; the second may have none
    job,          \* writer -> its read, change and replacement
    digest,       \* where run_daily is
    planned,      \* what the plan of the digest promotes
    drafts,       \* day -> rules in its file
    day, due, last_digest,
    writes, crashes, drafted,
    told,         \* history: rules somebody was told are stored, as they are read
    ever,         \* history: all that was ever told
    raced,        \* history: whether two writers overlapped
    seen_days     \* history: days on which a digest read the drafts

names == <<lines, memory_md, memory_tmp>>
dates == <<drafts, day, due, last_digest>>
bounds == <<writes, crashes, drafted>>
vars == <<names, job, digest, planned, dates, bounds, told, ever, raced, seen_days>>

Nightly == "digest"
Idle == [at |-> "idle", kind |-> None, rule |-> None, list |-> <<>>, file |-> None, gone |-> {}]
MemoryLines == lines[memory_md]

\* An entry: its type, the rules its text speaks for, and whether a fold wrote it.
Line(r) == [type |-> Section[r], says |-> {ReadAs[r]}, summary |-> FALSE]

Init ==
    /\ memory_md = CHOOSE f \in Files : TRUE
    /\ lines = [f \in Files |-> IF f = memory_md THEN [i \in DOMAIN Stored |-> Line(Stored[i])] ELSE <<>>]
    /\ memory_tmp = None
    /\ job = [w \in Writer \cup {Nightly} |-> Idle]
    /\ digest = "idle" /\ planned = {}
    /\ drafts = [d \in 1..MaxDay |-> {}] /\ day = 1 /\ due = FALSE /\ last_digest = 0
    /\ writes = MaxWrites /\ crashes = MaxCrashes /\ drafted = MaxDrafts
    /\ told = Range(Stored) /\ ever = Range(Stored) /\ raced = FALSE /\ seen_days = {}

-----------------------------------------------------------------------------
(***************************************************************************)
(* MarkdownMemoryStore: load, change, save.                                *)
(***************************************************************************)

Asks(kind, r) == [Idle EXCEPT !.at = "load", !.kind = kind, !.rule = r]

\* append_dedup compares texts, whatever their type: of a text that is cut when it is
\* read nothing is found.
Is(entry, r) == entry.says = {r} /\ ~ entry.summary
Twice(list, r) == FALSE
Has(list, r) == \E i \in DOMAIN list : Is(list[i], r)

\* The first of the first section makes room, as the list that was read is grouped by
\* type: it need not be the oldest.
Firsts(list) ==
    {i \in DOMAIN list : \A j \in DOMAIN list :
        list[i].type < list[j].type \/ (list[i].type = list[j].type /\ i <= j)}
EvictNewest(list, i) == SubSeq(list, 1, MaxRules)
Evict(list, i) == Without(list, i)

\* What a writer makes of the list: the new one, and the rules that lose an entry.
Change(list, gone) == [list |-> list, gone |-> gone]
Added(list, r) ==
    IF Has(list, r) THEN {Change(list, {})}
    ELSE IF Len(list) < MaxRules THEN {Change(Append(list, Line(r)), {})}
    ELSE {Change(Evict(Append(list, Line(r)), i), list[i].says) : i \in Firsts(list)}
\* By an id, which may be of a summary.
Deleted(list) == {Change(Without(list, i), list[i].says) : i \in DOMAIN list}

\* compact_memory, section by section: enough entries, and a window of them old and
\* little recalled; which those are is open.  A text that stands for them is appended;
\* it is cut to compact_max_chars, which may lose what some of them say.
Typed(list, places, t) == {i \in places : list[i].type = t}
Foldable(list) ==
    {v \in (SUBSET DOMAIN list) \ {{}} : \A t \in 1..Sections :
        Typed(list, v, t) # {} =>
            /\ Cardinality(Typed(list, DOMAIN list, t)) >= FoldAt
            /\ Cardinality(Typed(list, v, t)) = FoldWindow}
Said(list, places) == UNION {list[i].says : i \in places}
Summaries(list, victims, stay) ==
    Kept([t \in 1..Sections |-> [type |-> t, summary |-> TRUE,
                                 says |-> stay \cap Said(list, Typed(list, victims, t))]],
         {list[i].type : i \in victims})
Dropped(list, victims, stay) == Kept(list, DOMAIN list \ victims)
Merged(list, victims, stay) ==
    Dropped(list, victims, stay) \o Summaries(list, victims, stay)
Folded(list) ==
    UNION {{Change(Merged(list, v, stay), Said(list, v) \ stay) : stay \in SUBSET Said(list, v)} :
        v \in Foldable(list)}

\* What each kind of writer makes of the lines it read; none at all ends it.
Changes(j, list) ==
    CASE j.kind \in {"store", "promote"} -> Added(list, j.rule)
      [] j.kind = "delete" -> Deleted(list)
      [] j.kind = "recall" -> IF list = <<>> THEN {} ELSE {Change(list, {})}
      [] j.kind = "fold" -> Folded(list)

Writing == {w \in DOMAIN job : job[w].at \in {"open", "write", "rename"}}

Load(w) ==
    /\ job[w].at = "load"
    /\ \/ \E c \in Changes(job[w], MemoryLines) :
            /\ job' = [job EXCEPT ![w].at = "open", ![w].list = c.list, ![w].gone = c.gone]
            /\ raced' = (raced \/ Writing # {})
       \/ /\ Changes(job[w], MemoryLines) = {} \/ job[w].kind \in {"recall", "fold", "delete"}
          /\ job' = [job EXCEPT ![w] = [Idle EXCEPT !.at = IF w = Nightly THEN "done" ELSE "idle"]]
          /\ UNCHANGED raced
    /\ UNCHANGED <<names, digest, planned, dates, bounds, told, ever, seen_days>>

\* fs::write is an open that empties and a write; all writers share the name.
InUse == {memory_md, memory_tmp} \cup {job[w].file : w \in DOMAIN job}
Open(w) ==
    LET f == IF memory_tmp # None THEN memory_tmp ELSE CHOOSE x \in Files : x \notin InUse IN
    /\ job[w].at = "open"
    /\ memory_tmp' = f /\ lines' = [lines EXCEPT ![f] = <<>>]
    /\ job' = [job EXCEPT ![w].at = "write", ![w].file = f]
    /\ UNCHANGED <<memory_md, digest, planned, dates, bounds, told, ever, raced, seen_days>>

Write(w) ==
    /\ job[w].at = "write"
    /\ lines' = [lines EXCEPT ![job[w].file] = job[w].list]
    /\ job' = [job EXCEPT ![w].at = "rename"]
    /\ UNCHANGED <<memory_md, memory_tmp, digest, planned, dates, bounds, told, ever, raced, seen_days>>

Rename(w) ==
    LET j == job[w] IN
    /\ j.at = "rename" /\ memory_tmp # None
    /\ memory_md' = memory_tmp /\ memory_tmp' = None
    /\ told' = (told \ j.gone) \cup
            (IF j.kind \in {"store", "promote"} THEN {ReadAs[j.rule]} ELSE {})
    /\ ever' = ever \cup told'
    /\ planned' = IF j.kind = "promote" THEN planned \ {j.rule} ELSE planned
    /\ job' = [job EXCEPT ![w] = [Idle EXCEPT !.at = IF w = Nightly THEN "done" ELSE "idle"]]
    /\ UNCHANGED <<lines, digest, dates, bounds, raced, seen_days>>

\* Another writer took the file away: an error.
RenameFails(w) ==
    /\ job[w].at = "rename" /\ memory_tmp = None
    /\ job' = [job EXCEPT ![w] = [Idle EXCEPT !.at = IF w = Nightly THEN "failed" ELSE "idle"]]
    /\ UNCHANGED <<names, digest, planned, dates, bounds, told, ever, raced, seen_days>>

StoreOrDelete(w) ==
    /\ job[w].at = "idle" /\ writes > 0 /\ writes' = writes - 1
    /\ \/ \E r \in Rule : job' = [job EXCEPT ![w] = Asks("store", r)]
       \/ job' = [job EXCEPT ![w] = Asks("delete", None)]
    /\ UNCHANGED <<names, digest, planned, dates, crashes, drafted, told, ever, raced, seen_days>>

\* spawn_memory_classify and the flushes of a session: a rule in the file of today,
\* where a text that is cut has lost that the user asked for it.
AppendDaily ==
    /\ drafted > 0 /\ drafted' = drafted - 1
    /\ \E r \in Rule : drafts' = [drafts EXCEPT ![day] = @ \cup {ReadAs[r]}]
    /\ UNCHANGED <<names, job, digest, planned, day, due, last_digest, writes, crashes, told, ever, raced, seen_days>>

-----------------------------------------------------------------------------
(***************************************************************************)
(* run_daily, called by the loop of the memory scheduler.                  *)
(***************************************************************************)

RecentShort == {d \in 1..day : d + Lookback > day + 1}
Recent == {d \in 1..day : d + Lookback > day}
Candidates == UNION {drafts[d] : d \in Recent}
Passes(r) == r \in Explicit \/ Cardinality({d \in Recent : r \in drafts[d]}) >= RepeatDays

\* The cron fires once a day, if the process is up; a digest that already ran
\* today is not run again.
CronFires ==
    /\ due /\ due' = FALSE /\ digest = "idle"
    /\ IF last_digest < day
       THEN digest' = "flush" /\ job' = [job EXCEPT ![Nightly] = Asks("recall", None)]
       ELSE UNCHANGED <<digest, job>>
    /\ UNCHANGED <<names, planned, drafts, day, last_digest, bounds, told, ever, raced, seen_days>>

\* The counters of recalls are saved, or not; either way the drafts are read.
BuildPlan ==
    /\ digest = "flush" /\ job[Nightly].at \in {"done", "failed"}
    /\ planned' = {r \in Candidates : Passes(r)}
    /\ digest' = "promote" /\ job' = [job EXCEPT ![Nightly] = Idle]
    /\ seen_days' = seen_days \cup {day}
    /\ UNCHANGED <<names, dates, bounds, told, ever, raced>>

\* One append for each, in the order of a hash map; the first error ends the digest.
Promote ==
    /\ digest = "promote" /\ job[Nightly].at \in {"idle", "done"}
    /\ \E r \in planned : job' = [job EXCEPT ![Nightly] = Asks("promote", r)]
    /\ UNCHANGED <<names, digest, planned, dates, bounds, told, ever, raced, seen_days>>

ApplyGoesOn ==
    /\ digest = "promote" /\ job[Nightly].at = "failed"
    /\ digest' = "fold" /\ job' = [job EXCEPT ![Nightly] = Asks("fold", None)]
    /\ UNCHANGED <<names, planned, dates, bounds, told, ever, raced, seen_days>>
ApplyFails ==
    /\ digest = "promote" /\ job[Nightly].at = "failed"
    /\ digest' = "idle" /\ job' = [job EXCEPT ![Nightly] = Idle]
    /\ UNCHANGED <<names, planned, dates, bounds, told, ever, raced, seen_days>>

Fold ==
    /\ digest = "promote" /\ job[Nightly].at \in {"idle", "done"} /\ planned = {}
    /\ digest' = "fold" /\ job' = [job EXCEPT ![Nightly] = Asks("fold", None)]
    /\ UNCHANGED <<names, planned, dates, bounds, told, ever, raced, seen_days>>

\* Old drafts go; the marker is written last, with the date it is by then.
RotateAndMark ==
    /\ digest = "fold" /\ job[Nightly].at \in {"done", "failed"}
    /\ drafts' = [d \in DOMAIN drafts |-> IF d + Retention < day THEN {} ELSE drafts[d]]
    /\ last_digest' = day
    /\ digest' = "idle" /\ job' = [job EXCEPT ![Nightly] = Idle]
    /\ UNCHANGED <<names, planned, day, due, bounds, told, ever, raced, seen_days>>

Tomorrow ==
    /\ day < MaxDay /\ day' = day + 1 /\ due' = TRUE
    /\ UNCHANGED <<names, job, digest, planned, drafts, last_digest, bounds, told, ever, raced, seen_days>>

\* The files stay as they are; a digest that was due while the process was down is
\* not made up for.
Crash ==
    /\ crashes > 0 /\ crashes' = crashes - 1
    /\ job' = [w \in DOMAIN job |-> Idle] /\ digest' = "idle"
    /\ due' \in {due, FALSE}
    /\ UNCHANGED <<names, planned, drafts, day, last_digest, writes, drafted, told, ever, raced, seen_days>>

Progress ==
    \/ \E w \in DOMAIN job : Load(w) \/ Open(w) \/ Write(w) \/ Rename(w) \/ RenameFails(w)
    \/ CronFires \/ BuildPlan \/ Promote \/ ApplyFails \/ Fold \/ RotateAndMark
Next == Progress \/ (\E w \in Writer : StoreOrDelete(w)) \/ AppendDaily \/ Tomorrow \/ Crash

\* Writers and the digest go on.
Spec == Init /\ [][Next]_vars /\ WF_vars(Progress)

-----------------------------------------------------------------------------
(***************************************************************************)
(* Properties                                                              *)
(***************************************************************************)

Remembered == Said(MemoryLines, DOMAIN MemoryLines)

\* The types, and the cap of the file.
TypeOK ==
    /\ Range(MemoryLines) \subseteq [type : 1..Sections, says : SUBSET Rule, summary : BOOLEAN]
    /\ Len(MemoryLines) <= MaxRules /\ memory_md # memory_tmp
    /\ last_digest \in 0..day /\ told \subseteq Rule /\ planned \subseteq Rule

\* What somebody was told is stored, and was neither deleted nor pushed out by the cap
\* nor cut off a summary, is in MEMORY.md, as it was said or in a summary: whatever was
\* promoted, folded or interrupted by a crash, as long as no two writers overlapped.
ToldIsKept == raced \/ told \subseteq Remembered

\* Without that condition: it does not hold, a writer replaces the file by the list
\* it read before another one stored its entry; a fold holds its list through a
\* call of the model.
ToldIsKeptAlways == told \subseteq Remembered

\* "Force dedup=true so re-runs are idempotent": no rule is in the file twice as
\* itself, whatever drafts repeat it and however often a digest is run again; but for
\* the first lines of texts that are cut, of which the next copy is not known again.
Cut == {ReadAs[r] : r \in {q \in Rule : ReadAs[q] # q}}
NoDuplicates ==
    \A i, j \in DOMAIN MemoryLines, r \in Rule \ Cut :
        Is(MemoryLines[i], r) /\ Is(MemoryLines[j], r) => i = j

\* Without that exception, and of the whole text: they do not hold.
NeverTwice ==
    \A i, j \in DOMAIN MemoryLines, r \in Rule :
        Is(MemoryLines[i], r) /\ Is(MemoryLines[j], r) => i = j
StoredWhole ==
    [][\A w \in Writer : Rename(w) /\ job[w].kind = "store" => job[w].rule \in Remembered']_vars

\* "Enforces MAX_ENTRIES_PER_FILE by evicting oldest": it does not hold, the list was
\* grouped by type when it was read.
EvictsOldest ==
    [][\A w \in DOMAIN job :
        /\ job[w].at = "load" /\ job'[w].at = "open"
        /\ job[w].kind = "store" /\ job'[w].gone # {}
        => job'[w].gone \subseteq Head(MemoryLines).says]_vars

\* "preserves the operational meaning of all of them" (compact.rs): a promise of the
\* prompt that the cut to compact_max_chars does not keep.
FoldKeeps ==
    [][\A w \in DOMAIN job : job[w].kind = "fold" /\ Rename(w) => Remembered \subseteq Remembered']_vars

\* "The lock is written after a successful run": a day is marked only when all that
\* a plan of that day promotes was promoted, also if the digest failed or crashed;
\* and what a user asked to remember on a day of the window was stored by then.
MarkMeansDone ==
    last_digest = day /\ day \in seen_days =>
        /\ planned = {}
        /\ \A r \in Explicit, d \in 1..(day - 1) :
            d + Lookback > day /\ r \in drafts[d] => r \in ever

\* "Returns true when no successful digest has run today": it does not hold, a digest
\* that ends past midnight marks the day it did not read.
MarkedWasSeen == last_digest \in seen_days \cup {0}

\* "atomic: .tmp + rename": it does not hold, the name of the .tmp file is shared; a
\* writer empties the file that another one renames.
NeverTorn ==
    [][MemoryLines # <<>> /\ MemoryLines' = <<>> => \E w \in Writer : job[w].kind = "delete"]_vars

\* Every writer ends, and so does the digest.
Quiet == digest = "idle" /\ \A w \in Writer : job[w].at = "idle"
=============================================================================
