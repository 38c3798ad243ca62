----------------------------- MODULE MCQueryLog -----------------------------
(* QueryLog for TLC: two nodes with logs of two entries, of which the one     *)
(* search filter selects the first on one node and both on the other.         *)
EXTENDS QueryLog, TLC

CONSTANTS n1, f1      \* names for model values

MCMatches == [n \in Nodes |->
    (f1 :> IF n = n1 THEN {1} ELSE {1, 2}) @@ (NoFilters :> {1, 2})]
=============================================================================
