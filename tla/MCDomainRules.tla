--------------------------- MODULE MCDomainRules ---------------------------
(* DomainRules for TLC: two requests, two nodes, one rule.                   *)
EXTENDS DomainRules
=============================================================================
