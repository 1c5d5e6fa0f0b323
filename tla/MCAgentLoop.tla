---------------------------- MODULE MCAgentLoop ----------------------------
(***************************************************************************)
(* AgentLoop for TLC.  The turn is the first of its session, or it follows *)
(* one that was cancelled with one call of its reply answered and one not. *)
(***************************************************************************)
EXTENDS AgentLoop

MCSessions == {<<>>, <<User, [role |-> "assistant", calls |-> {1, 2}], [role |-> "tool", calls |-> {1}]>>}
MCOpen     == {2}
=============================================================================
