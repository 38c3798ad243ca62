--------------------------- MODULE MCPiholeClient ---------------------------
(* PiholeClient for TLC: two calls at the same time, two Pi-holes.           *)
EXTENDS PiholeClient
=============================================================================
