-------------------------------- MODULE Maps --------------------------------
(***************************************************************************)
(* The two operations of std::collections::HashMap that the models need,   *)
(* on functions whose domain is the set of keys present.                   *)
(***************************************************************************)
EXTENDS Functions

EmptyMap == [k \in {} |-> k]

\* HashMap::insert
Put(m, key, value) ==
    [k \in DOMAIN m \cup {key} |-> IF k = key THEN value ELSE m[k]]

\* HashMap::remove, for every key of a set
Drop(m, keys) == Restrict(m, DOMAIN m \ keys)

\* HashMap::get(..).unwrap_or(default)
Get(m, key, default) == IF key \in DOMAIN m THEN m[key] ELSE default
=============================================================================
