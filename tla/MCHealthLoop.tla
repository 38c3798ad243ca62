---------------------------- MODULE MCHealthLoop ----------------------------
(* HealthLoop for TLC: three connections that come and go as they like.     *)
EXTENDS HealthLoop
=============================================================================
