------------------------------- MODULE Stores -------------------------------
(***************************************************************************)
(* The three of the Parts that keep files from one process to the next:    *)
(* the memory, the findings of research runs and the markers of            *)
(* interrupted turns.                                                      *)
(***************************************************************************)
EXTENDS Naturals, FiniteSets, Sequences

CONSTANTS
    None,
    Rule, ReadAs, Sections, Section, Explicit, Writer, Stored, MaxRules, RepeatDays, Lookback, Retention,
    FoldAt, FoldWindow, Files, MaxDay, MaxWrites, MaxDrafts, MaxCrashes,         \* MemoryFiles
    Research, Coordinator, Url, Scenes,                                          \* ResearchRuns
    Session, ChatsOf, MaxTurns, MaxDeaths, MaxUnsent                             \* TurnMarkers

\* Each scene says which run studies what; None is no URL, and nobody is the author of a
\* line that does not parse (store_fs.rs).
ASSUME ScenesAssumption ==
    /\ IsFiniteSet(Coordinator) /\ None \notin Url /\ {None, "torn", "bad"} \cap Coordinator = {}
    /\ \A s \in Scenes :
        /\ DOMAIN s.study \subseteq Coordinator /\ \A c \in DOMAIN s.study : s.study[c] \in Research
        /\ s.rounds \in [Coordinator -> Nat] /\ s.earlier \in Url
        /\ {s.permits, s.finds, s.trouble} \subseteq Nat /\ {s.explicit, s.paused, s.hard} \subseteq BOOLEAN

\* There are files enough for MEMORY.md, one of each writer and of the digest, and a new
\* one; the file holds something, a fold takes something, and each rule stands in the file
\* once at the start.  What comes back of a rule stays so when it is written again, and
\* nobody is known to have asked for it in those words (store.rs).
ASSUME MemoryAssumption ==
    /\ IsFiniteSet(Rule) /\ Explicit \subseteq Rule
    /\ Sections \in Nat /\ Section \in [Rule -> 1..Sections]
    /\ ReadAs \in [Rule -> Rule] /\ \A r \in Rule : ReadAs[ReadAs[r]] = ReadAs[r]
    /\ \A r \in Rule : ReadAs[r] # r => ReadAs[r] \notin Explicit
    /\ {MaxRules, FoldWindow, MaxDay} \subseteq Nat \ {0} /\ Lookback \in Nat
    /\ IsFiniteSet(Files) /\ IsFiniteSet(Writer) /\ None \notin Files
    /\ Cardinality(Files) >= Cardinality(Writer) + 3
    /\ \E n \in 0..MaxRules : Stored \in [1..n -> Rule]
    /\ \A i, j \in DOMAIN Stored : Stored[i] = Stored[j] => i = j
    /\ \A i \in DOMAIN Stored : ReadAs[Stored[i]] = Stored[i]

\* The sessions of a chat are sessions; None is none of them, and no text of the file
\* (jsonl_store.rs).
ASSUME MarkersAssumption ==
    /\ None \notin Session /\ None \notin Seq(Session) /\ IsFiniteSet(Session)
    /\ \A c \in ChatsOf : c \subseteq Session

VARIABLES
    lines, memory_md, memory_tmp, job, digest, planned, drafts, day, due, last_digest,
    writes, crashes, drafted, told, ever, raced, seen_days,
    scene, findings, known, guarded, context, coordinator, finder, saving, finds, trouble,
    kept, spoiled,
    chats, marked, turn, owner, write, recent, boot, drained, cut, blamed, notices, tangled,
    turns, deaths, unsent

memory == <<lines, memory_md, memory_tmp, job, digest, planned, drafts, day, due, last_digest,
    writes, crashes, drafted, told, ever, raced, seen_days>>
research == <<scene, findings, known, guarded, context, coordinator, finder, saving, finds, trouble,
    kept, spoiled>>
markers == <<chats, marked, turn, owner, write, recent, boot, drained, cut, blamed, notices,
    tangled, turns, deaths, unsent>>

Memory == INSTANCE MemoryFiles
Runs == INSTANCE ResearchRuns
Markers == INSTANCE TurnMarkers
=============================================================================
