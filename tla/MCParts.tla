------------------------------ MODULE MCParts ------------------------------
(* Small instances of the eleven parts.                                     *)
EXTENDS Parts, TLC

\* A careful agent, a reader and a third one; one spelling of the path.
MCSpelled == [a \in Agent |-> "file"]
MCDroppable == {"wait", "load", "check", "lock", "rename", "forget"}
MCPlans ==
    {[a1 |-> <<"snapshot", "guarded">>, a2 |-> <<"edit">>, a3 |-> <<"snapshot">>]}
    \cup {[a1 |-> <<"snapshot", "guarded">>, a2 |-> y, a3 |-> <<>>] :
        y \in {<<"write">>, <<"edit", "snapshot">>, <<"snapshot", "guarded">>}}

\* The gap is the window over the budget, rounded down, as MIN_GAP is.
MCEditorKind == [e1 |-> "edit", e2 |-> "must"]
MCCrowds == {{"e1"}, {"e2"}, {"e1", "e2"}}

\* Nothing is stored at first.  A rule of the first section is pushed out by the cap before
\* an older one of the second; a rule of two lines is read as its first.
MCStored == <<>>
MCSection == [r1 |-> 1, r2 |-> 2, r3 |-> 2]
MCReadAs == [r1 |-> "r1", r2 |-> "r2", r3 |-> "r2"]

MCTries == [scraper |-> 2, searcher |-> 1]

\* Two runs of one spec at once; of two specs in turn, by the context; of one spec in
\* turn, aborted hard; and one with two rounds on a spec that is paused.
MCTwins ==
    [study |-> [c1 |-> "s1", c2 |-> "s1"], permits |-> 2, explicit |-> TRUE,
     rounds |-> [c1 |-> 0, c2 |-> 0], paused |-> FALSE, hard |-> FALSE,
     earlier |-> "u1", finds |-> 2, trouble |-> 0]
MCChain ==
    [MCTwins EXCEPT !.study = [c1 |-> "s1", c2 |-> "s2"], !.permits = 1, !.explicit = FALSE,
                    !.rounds = [c1 |-> 0, c2 |-> 0], !.trouble = 1]
MCAfter ==
    [MCTwins EXCEPT !.permits = 1, !.rounds = [c1 |-> 0, c2 |-> 0], !.hard = TRUE, !.trouble = 1]
MCAgain ==
    [MCTwins EXCEPT !.study = [c1 |-> "s1"], !.rounds = [c1 |-> 2, c2 |-> 0],
                    !.paused = TRUE, !.hard = TRUE, !.trouble = 1]
MCScenes == {MCTwins, MCChain, MCAfter, MCAgain}

\* Two chats, or a chat and a research run, which may begin before the chats are served.
MCChatsOf == {{"o1"}, {"o1", "o2"}}

\* The periods of the code in quarters of a minute.
MCMaxSilence == ("tg_polling.tick" :> 6) @@ ("scheduler.tick" :> 8)
=============================================================================
