------------------------------ MODULE Presence ------------------------------
(***************************************************************************)
(* Who is subscribed, as the rest of the server can tell: the atomic       *)
(* counter Broker.n and the channel subscribersChanged, of capacity one,   *)
(* into which every change of the counter is followed by a poke that is    *)
(* dropped when one is already pending.  Counting and poking are two steps *)
(* of the subscribing (or leaving) goroutine, outside the broker's lock.   *)
(***************************************************************************)
EXTENDS Integers, FiniteSets

CONSTANT Conns      \* event-stream connections; one may come back as itself

VARIABLES
    stage,          \* how far each connection is
    n,              \* Broker.n
    token           \* tokens in subscribersChanged

presenceVars == <<stage, n, token>>

Stages == {"away", "joining", "here", "leaving"}

PresenceInit ==
    /\ stage = [c \in Conns |-> "away"]
    /\ n = 0
    /\ token = 0

\* A receiver must be waiting: the channel has no buffer, and no one is.
PokedUnbuffered == token

\* poke: a non-blocking send into a buffer of one.
Poked == 1

\* Subscribe: n.Add(1), then poke.
CountIn(c) ==
    /\ stage[c] = "away"
    /\ stage' = [stage EXCEPT ![c] = "joining"]
    /\ n' = n + 1
    /\ UNCHANGED token

PokeIn(c) ==
    /\ stage[c] = "joining"
    /\ stage' = [stage EXCEPT ![c] = "here"]
    /\ token' = Poked
    /\ UNCHANGED n

\* The function Subscribe returns: n.Add(-1), then poke.
CountOut(c) ==
    /\ stage[c] = "here"
    /\ stage' = [stage EXCEPT ![c] = "leaving"]
    /\ n' = n - 1
    /\ UNCHANGED token

PokeOut(c) ==
    /\ stage[c] = "leaving"
    /\ stage' = [stage EXCEPT ![c] = "away"]
    /\ token' = Poked
    /\ UNCHANGED n

\* A receive from SubscribersChanged().
TakeToken ==
    /\ token = 1
    /\ token' = 0
    /\ UNCHANGED <<stage, n>>

PresenceNext ==
    \/ \E c \in Conns : CountIn(c) \/ PokeIn(c) \/ CountOut(c) \/ PokeOut(c)
    \/ TakeToken

PresenceSpec == PresenceInit /\ [][PresenceNext]_presenceVars

Poking == {c \in Conns : stage[c] \in {"joining", "leaving"}}

PresenceTypeOK ==
    /\ stage \in [Conns -> Stages]
    /\ n \in Nat
    /\ token \in 0..1
=============================================================================
