------------------------------- MODULE Lists -------------------------------
(***************************************************************************)
(* Lists that lose some of their entries: Vec::retain, Vec::remove and the *)
(* filters of the code, and Vec::sort.  What is kept is given as the set   *)
(* of its places, and none of the operators is recursive, so that what     *)
(* they keep, and in which order, can be proved.                           *)
(***************************************************************************)
EXTENDS Naturals, Sequences, FiniteSets, Functions

\* The numbers of a finite set, the least first.
Sorted(S) ==
    [k \in 1..Cardinality(S) |-> CHOOSE n \in S : Cardinality({m \in S : m <= n}) = k]

\* The entries of a list at these places, in the order of the list.
Kept(list, places) ==
    LET place == Sorted(places) IN [k \in DOMAIN place |-> list[place[k]]]

Without(list, i) == Kept(list, DOMAIN list \ {i})
=============================================================================
