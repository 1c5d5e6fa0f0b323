----------------------------- MODULE MCDelivery -----------------------------
(* A stream at home in chat a, chat b with two threads, one or two commands. *)
EXTENDS Delivery

Place(c, t) == [chat |-> c, thread |-> t]
MCHome == Place("a", 1)
MCNeighbours == {Place("b", 1), Place("b", 2), MCHome}

Cmd(o, c) == [op |-> o, from |-> Place(c, 1)]
MCPlans ==
    {<<Cmd("move", x), Cmd("move", y)>> : x \in {"a", "b"}, y \in {"a", "b"}}
        \cup {<<Cmd("show", "b"), Cmd(o, c)>> : o \in {"move", "show"}, c \in {"a", "b"}}
        \cup {<<Cmd("move", "b"), Cmd("show", "a")>>}
=============================================================================
