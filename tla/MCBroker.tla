------------------------------ MODULE MCBroker ------------------------------
(* Broker for TLC: a channel of capacity one stands for the sixteen, and a   *)
(* request names any set of topics, none among them.                        *)
EXTENDS Broker

AllTopicSets == SUBSET Topics
=============================================================================
