----------------------------- MODULE MCInbound -----------------------------
(* Three updates without a fault, two with one stop, crash or failure, and  *)
(* turns that take every permit.                                            *)
EXTENDS Inbound

Calm == {<<"text", "text", "text">>, <<"photo", "photo", "photo">>, <<"text", "new", "text">>,
         <<"text", "tap", "text">>, <<"text", "research", "edit">>, <<"research", "text", "text">>,
         <<"new", "text", "text">>}
Rough == {<<"text", "text">>, <<"photo", "photo">>, <<"text", "edit">>, <<"text", "new">>,
          <<"research", "text">>}
MCScenarios ==
    [kinds : Calm, events : {0}, permits : {2}] \cup [kinds : Rough, events : {1}, permits : {2}]
        \cup [kinds : {<<"text", "tap">>, <<"text", "text">>}, events : {0}, permits : {1}]
=============================================================================
