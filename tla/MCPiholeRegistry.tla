-------------------------- MODULE MCPiholeRegistry --------------------------
(* PiholeRegistry for TLC: the values of a field are interchangeable, and so *)
(* are the request slots.                                                    *)
EXTENDS PiholeRegistry, TLC

Symmetry == Permutations(Requests) \cup Permutations(Names)
                \cup Permutations(Addrs) \cup Permutations(Passwords)
=============================================================================
