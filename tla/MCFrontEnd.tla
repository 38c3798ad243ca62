----------------------------- MODULE MCFrontEnd -----------------------------
(***************************************************************************)
(* FrontEnd for TLC: three hooks, two nodes, one Pi-hole under its two      *)
(* default addresses.                                                       *)
(***************************************************************************)
EXTENDS FrontEnd

CONSTANTS t1, t2, h1, h2, h3, host

\* Two hooks for one topic, one for another.
MCTopicOf == [h \in {h1, h2, h3} |-> IF h = h3 THEN t2 ELSE t1]

\* One host, under its two default addresses; the password at one of them ends
\* in a blank.
Http == [scheme |-> "http", host |-> <<"", host>>, port |-> 80]
Https == [scheme |-> "https", host |-> <<"", host>>, port |-> 443]
MCAddresses == {Http, Https}
MCPasswords == {"", "p", "p "}
MCTrim == [p \in MCPasswords |-> IF p = "p " THEN "p" ELSE p]
MCContents == {<<Http, "p">>, <<Https, "p ">>}
MCAccepts == {<<Http, "p">>, <<Https, "p ">>}
=============================================================================
