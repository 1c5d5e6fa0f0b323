---------------------------- MODULE MCChannelMap ----------------------------
(* One chat with two topics; topics and handlers are interchangeable. *)
EXTENDS ChannelMap, TLC

Symmetry == Permutations(Topic) \cup Permutations(Handler)
=============================================================================
