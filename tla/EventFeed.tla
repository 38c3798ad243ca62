----------------------------- MODULE EventFeed ------------------------------
(***************************************************************************)
(* What the event stream promises a connection: an ordered, lossy feed.    *)
(* While it is open it is offered the events of its topics; an event may   *)
(* be missed, but none is delivered twice, late or to the wrong topic.     *)
(***************************************************************************)
EXTENDS Integers, Sequences

CONSTANTS
    Conns,          \* connections, each used once
    Topics,
    TopicOf(_)      \* the topic of the event with this number

VARIABLES
    latest,         \* the number of the latest event
    phase,          \* "new", "open" or "closed"
    wants,          \* the topics a connection asked for
    queue,          \* events accepted for a connection, not yet delivered
    got             \* events delivered to it

vars == <<latest, phase, wants, queue, got>>

Elements(s) == {s[i] : i \in 1..Len(s)}

Init ==
    /\ latest = 0
    /\ phase = [c \in Conns |-> "new"]
    /\ wants = [c \in Conns |-> {}]
    /\ queue = [c \in Conns |-> <<>>]
    /\ got = [c \in Conns |-> <<>>]

Open(c) ==
    /\ phase[c] = "new"
    /\ phase' = [phase EXCEPT ![c] = "open"]
    /\ \E T \in SUBSET Topics : wants' = [wants EXCEPT ![c] = T]
    /\ UNCHANGED <<latest, queue, got>>

Happen ==
    /\ latest' = latest + 1
    /\ UNCHANGED <<phase, wants, queue, got>>

\* The latest event is accepted for a connection, at most once.
Offer(c) ==
    /\ phase[c] = "open"
    /\ TopicOf(latest) \in wants[c]
    /\ \A e \in Elements(queue[c]) \cup Elements(got[c]) : e < latest
    /\ queue' = [queue EXCEPT ![c] = Append(@, latest)]
    /\ UNCHANGED <<latest, phase, wants, got>>

Deliver(c) ==
    /\ phase[c] = "open"
    /\ queue[c] # <<>>
    /\ got' = [got EXCEPT ![c] = Append(@, Head(queue[c]))]
    /\ queue' = [queue EXCEPT ![c] = Tail(@)]
    /\ UNCHANGED <<latest, phase, wants>>

Close(c) ==
    /\ phase[c] = "open"
    /\ phase' = [phase EXCEPT ![c] = "closed"]
    /\ queue' = [queue EXCEPT ![c] = <<>>]
    /\ UNCHANGED <<latest, wants, got>>

Next ==
    \/ Happen
    \/ \E c \in Conns : Open(c) \/ Offer(c) \/ Deliver(c) \/ Close(c)

Spec == Init /\ [][Next]_vars
=============================================================================
