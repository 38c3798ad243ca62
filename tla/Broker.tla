------------------------------- MODULE Broker -------------------------------
(***************************************************************************)
(* The event stream: the broker with its subscriptions and its counter,    *)
(* the forwarder goroutine that eventsservice puts between a subscription  *)
(* and its handler, the handler of /api/events, and the one publisher, the *)
(* health service, which broadcasts a summary and a node list in turn.     *)
(* The broker's RWMutex matters: Publish holds it for reading while it     *)
(* sends to one subscriber after the other.                                *)
(***************************************************************************)
EXTENDS Integers, Sequences, FiniteSets

CONSTANTS
    Conns,          \* requests to /api/events; a reconnect is another one
    TopicSets,      \* the sets of topics a request may name
    Cap,            \* capacity of a subscription's channel (16 in the code)
    MaxEvents       \* bound on the number of events published

Topics == {"health_summary", "node_health"}

ASSUME BrokerAssumption ==
    /\ TopicSets \subseteq SUBSET Topics
    /\ Cap \in Nat \ {0} /\ MaxEvents \in Nat

VARIABLES
    conn,           \* how far the handler of each connection is
    wants,          \* the topics it subscribed to
    subs,           \* Broker.subscriptions: topic -> connections
    n, token,       \* Broker.n and the tokens in subscribersChanged
    chan, closed,   \* the subscription's channel: buffered events, closed?
    cancelled,      \* the request's context is done
    fwd, held,      \* the forwarder, and the event it is about to pass on
    got,            \* events the handler received, in order
    latest,         \* number of the latest event
    pub             \* the publisher: [busy, pending], pending while it sends

vars == <<conn, wants, subs, n, token, chan, closed, cancelled, fwd, held,
          got, latest, pub>>

\* recomputeLocked publishes the summary, then the nodes.
TopicOf(e) == IF e % 2 = 1 THEN "health_summary" ELSE "node_health"

Init ==
    /\ conn = [c \in Conns |-> "off"]
    /\ wants = [c \in Conns |-> {}]
    /\ subs = [t \in Topics |-> {}]
    /\ n = 0
    /\ token = 0
    /\ chan = [c \in Conns |-> <<>>]
    /\ closed = [c \in Conns |-> FALSE]
    /\ cancelled = [c \in Conns |-> FALSE]
    /\ fwd = [c \in Conns |-> "off"]
    /\ held = [c \in Conns |-> 0]
    /\ got = [c \in Conns |-> <<>>]
    /\ latest = 0
    /\ pub = [busy |-> FALSE, pending |-> {}]

-----------------------------------------------------------------------------
(* Subscribe and the function it returns.  Each critical section is one    *)
(* step, possible only when the publisher does not hold the read lock.     *)

Move(c, from, to) == conn[c] = from /\ conn' = [conn EXCEPT ![c] = to]

\* parseTopics may yield no topic at all.
Register(c) ==
    /\ Move(c, "off", "registered")
    /\ ~pub.busy
    /\ \E T \in TopicSets :
        /\ wants' = [wants EXCEPT ![c] = T]
        /\ subs' = [t \in Topics |-> IF t \in T THEN subs[t] \cup {c} ELSE subs[t]]
    /\ UNCHANGED <<n, token, chan, closed, cancelled, fwd, held, got, latest, pub>>

\* n.Add(1).
OneMore == n + 1

CountIn(c) ==
    /\ Move(c, "registered", "counted")
    /\ n' = OneMore
    /\ UNCHANGED <<wants, subs, token, chan, closed, cancelled, fwd, held, got, latest, pub>>

\* poke; Subscribe returns and eventsservice starts the forwarder.
PokeIn(c) ==
    /\ Move(c, "counted", "stream")
    /\ token' = 1
    /\ fwd' = [fwd EXCEPT ![c] = "recv"]
    /\ UNCHANGED <<wants, subs, n, chan, closed, cancelled, held, got, latest, pub>>

UnregisterFirstTopic(c) ==
    /\ Move(c, "cancel", "unregistered")
    /\ ~pub.busy
    /\ subs' = [subs EXCEPT !["health_summary"] = @ \ {c}]
    /\ UNCHANGED <<wants, n, token, chan, closed, cancelled, fwd, held, got, latest, pub>>

Unregister(c) ==
    /\ Move(c, "cancel", "unregistered")
    /\ ~pub.busy
    /\ subs' = [t \in Topics |-> IF t \in wants[c] THEN subs[t] \ {c} ELSE subs[t]]
    /\ UNCHANGED <<wants, n, token, chan, closed, cancelled, fwd, held, got, latest, pub>>

CountOut(c) ==
    /\ Move(c, "unregistered", "uncounted")
    /\ n' = n - 1
    /\ UNCHANGED <<wants, subs, token, chan, closed, cancelled, fwd, held, got, latest, pub>>

PokeOutForgotten(c) ==
    /\ Move(c, "uncounted", "poked")
    /\ UNCHANGED <<wants, subs, n, token, chan, closed, cancelled, fwd, held, got, latest, pub>>

PokeOut(c) ==
    /\ Move(c, "uncounted", "poked")
    /\ token' = 1
    /\ UNCHANGED <<wants, subs, n, chan, closed, cancelled, fwd, held, got, latest, pub>>

CloseChan(c) ==
    /\ Move(c, "poked", "gone")
    /\ closed' = [closed EXCEPT ![c] = TRUE]
    /\ UNCHANGED <<wants, subs, n, token, chan, cancelled, fwd, held, got, latest, pub>>

-----------------------------------------------------------------------------
(* Publish.                                                                *)

AllSubscribers(e) == subs["health_summary"] \cup subs["node_health"]

\* Broker.subscriptions[topic].
Audience(e) == subs[TopicOf(e)]

\* RLock, and the set of the event's topic.
PublishLock ==
    /\ ~pub.busy
    /\ latest < MaxEvents
    /\ latest' = latest + 1
    /\ pub' = [busy |-> TRUE, pending |-> Audience(latest + 1)]
    /\ UNCHANGED <<conn, wants, subs, n, token, chan, closed, cancelled, fwd, held, got>>

PublishBlocking(c) ==
    /\ c \in pub.pending
    /\ Len(chan[c]) < Cap
    /\ chan' = [chan EXCEPT ![c] = Append(@, latest)]
    /\ pub' = [pub EXCEPT !.pending = @ \ {c}]
    /\ UNCHANGED <<conn, wants, subs, n, token, closed, cancelled, fwd, held, got, latest>>

\* A non-blocking send: the event is dropped when the buffer is full.
PublishSend(c) ==
    /\ c \in pub.pending
    /\ chan' = IF Len(chan[c]) < Cap THEN [chan EXCEPT ![c] = Append(@, latest)] ELSE chan
    /\ pub' = [pub EXCEPT !.pending = @ \ {c}]
    /\ UNCHANGED <<conn, wants, subs, n, token, closed, cancelled, fwd, held, got, latest>>

PublishUnlock ==
    /\ pub.busy /\ pub.pending = {}
    /\ pub' = [pub EXCEPT !.busy = FALSE]
    /\ UNCHANGED <<conn, wants, subs, n, token, chan, closed, cancelled, fwd, held, got, latest>>

-----------------------------------------------------------------------------
(* The forwarder.                                                          *)

\* select: an event; a closed channel still yields what it holds.
Receive(c) ==
    /\ fwd[c] = "recv"
    /\ chan[c] # <<>>
    /\ held' = [held EXCEPT ![c] = Head(chan[c])]
    /\ chan' = [chan EXCEPT ![c] = Tail(@)]
    /\ fwd' = [fwd EXCEPT ![c] = "send"]
    /\ UNCHANGED <<conn, wants, subs, n, token, closed, cancelled, got, latest, pub>>

ForwarderForwardsClose(c) ==
    /\ fwd[c] = "recv"
    /\ (closed[c] /\ chan[c] = <<>>) \/ cancelled[c]
    /\ fwd' = [fwd EXCEPT ![c] = IF cancelled[c] /\ ~closed[c] THEN "done" ELSE "send"]
    /\ held' = [held EXCEPT ![c] = 0]
    /\ UNCHANGED <<conn, wants, subs, n, token, chan, closed, cancelled, got, latest, pub>>

\* select: the channel is closed and drained, or the context is done; the
\* deferred close(out) is seen by the handler as fwd = "done".
ForwarderReturns(c) ==
    /\ fwd[c] = "recv"
    /\ (closed[c] /\ chan[c] = <<>>) \/ cancelled[c]
    /\ fwd' = [fwd EXCEPT ![c] = "done"]
    /\ UNCHANGED <<conn, wants, subs, n, token, chan, closed, cancelled, held, got, latest, pub>>

-----------------------------------------------------------------------------
(* The handler's loop, and its surroundings.                               *)

\* out is unbuffered: the forwarder's send meets the handler's receive.
Deliver(c) ==
    /\ conn[c] = "stream"
    /\ fwd[c] = "send"
    /\ got' = [got EXCEPT ![c] = Append(@, held[c])]
    /\ held' = [held EXCEPT ![c] = 0]
    /\ fwd' = [fwd EXCEPT ![c] = "recv"]
    /\ UNCHANGED <<conn, wants, subs, n, token, chan, closed, cancelled, latest, pub>>

\* The handler returns when a write fails, of an event or a heartbeat, ...
WriteFails(c) ==
    /\ Move(c, "stream", "cancel")
    /\ UNCHANGED <<wants, subs, n, token, chan, closed, cancelled, fwd, held, got, latest, pub>>

HandlerReturnsWithoutCancel(c) ==
    /\ cancelled[c] \/ fwd[c] = "done"
    /\ Move(c, "stream", "returned")
    /\ UNCHANGED <<wants, subs, n, token, chan, closed, cancelled, fwd, held, got, latest, pub>>

\* ... when its context is done, or when out was closed.
HandlerReturns(c) ==
    /\ cancelled[c] \/ fwd[c] = "done"
    /\ Move(c, "stream", "cancel")
    /\ UNCHANGED <<wants, subs, n, token, chan, closed, cancelled, fwd, held, got, latest, pub>>

\* The client disconnects, the router's timeout middleware ends the request,
\* or net/http cancels the context of a request whose handler has returned.
ContextDone(c) ==
    /\ conn[c] # "off" /\ ~cancelled[c]
    /\ cancelled' = [cancelled EXCEPT ![c] = TRUE]
    /\ UNCHANGED <<conn, wants, subs, n, token, chan, closed, fwd, held, got, latest, pub>>

\* The health loop receives from SubscribersChanged().
TakeToken ==
    /\ token = 1
    /\ token' = 0
    /\ UNCHANGED <<conn, wants, subs, n, chan, closed, cancelled, fwd, held, got, latest, pub>>

Publisher == PublishLock \/ (\E c \in Conns : PublishSend(c)) \/ PublishUnlock
Forwarder(c) == Receive(c) \/ ForwarderReturns(c)
Leaving(c) == CountOut(c) \/ PokeOut(c) \/ CloseChan(c)

Next ==
    \/ Publisher \/ TakeToken
    \/ \E c \in Conns :
        \/ Register(c) \/ CountIn(c) \/ PokeIn(c)
        \/ WriteFails(c) \/ HandlerReturns(c) \/ Unregister(c) \/ Leaving(c)
        \/ Forwarder(c) \/ Deliver(c) \/ ContextDone(c)

Spec == Init /\ [][Next]_vars

\* Only the publisher is fair: whatever subscribers do not do.
PublisherFairSpec == Spec /\ WF_vars(Publisher)

\* Goroutines run, every request's context is done in the end (the router's
\* timeout is 30 s), a select picks a case that stays ready, and a waiting
\* writer keeps new readers off the RWMutex.
FairSpec ==
    /\ PublisherFairSpec
    /\ \A c \in Conns :
        /\ WF_vars(CountIn(c)) /\ WF_vars(PokeIn(c))
        /\ WF_vars(ContextDone(c)) /\ SF_vars(HandlerReturns(c))
        /\ SF_vars(Unregister(c)) /\ WF_vars(Leaving(c)) /\ WF_vars(Forwarder(c))

-----------------------------------------------------------------------------
(* Properties.                                                             *)

Stops == {"off", "registered", "counted", "stream", "cancel", "unregistered",
          "uncounted", "poked", "gone"}

\* A channel never holds more than its capacity, and the other variables have
\* their types.
TypeOK ==
    /\ conn \in [Conns -> Stops]
    /\ wants \in [Conns -> SUBSET Topics]
    /\ subs \in [Topics -> SUBSET Conns]
    /\ n \in 0..Cardinality(Conns)
    /\ token \in 0..1
    /\ chan \in [Conns -> Seq(1..MaxEvents)]
    /\ \A c \in Conns : Len(chan[c]) <= Cap
    /\ closed \in [Conns -> BOOLEAN]
    /\ cancelled \in [Conns -> BOOLEAN]
    /\ fwd \in [Conns -> {"off", "recv", "send", "done"}]
    /\ held \in [Conns -> 0..MaxEvents]
    /\ got \in [Conns -> Seq(1..MaxEvents)]
    /\ latest \in 0..MaxEvents
    /\ pub \in [busy : BOOLEAN, pending : SUBSET Conns]

\* Publish never sends on a closed channel, which would panic: neither the
\* subscribers it still has to visit nor those in the map are closed.
NoSendOnClosed ==
    \A c \in Conns : closed[c] =>
        c \notin pub.pending /\ \A t \in Topics : c \notin subs[t]

\* The broker's bookkeeping and its channels are sound at once.
BrokerSafe == TypeOK /\ NoSendOnClosed

\* The counter and the tokens behave as the health loop takes them to.
PresenceStage ==
    [c \in Conns |->
        CASE conn[c] \in {"off", "registered", "poked", "gone"} -> "away"
          [] conn[c] = "counted" -> "joining"
          [] conn[c] \in {"stream", "cancel", "unregistered"} -> "here"
          [] conn[c] = "uncounted" -> "leaving"]

Presence == INSTANCE Presence WITH stage <- PresenceStage

ImplementsPresence == Presence!PresenceSpec

\* The channel, the forwarder and the handler together are an ordered lossy
\* feed; when the handler has returned the feed is closed, even though the
\* publisher may still send to the channel.
FeedPhase ==
    [c \in Conns |->
        CASE conn[c] = "off" -> "new"
          [] conn[c] \in {"registered", "counted", "stream"} -> "open"
          [] OTHER -> "closed"]

FeedQueue ==
    [c \in Conns |->
        IF FeedPhase[c] # "open" THEN <<>>
        ELSE IF fwd[c] = "send" THEN <<held[c]>> \o chan[c] ELSE chan[c]]

Feed == INSTANCE EventFeed WITH phase <- FeedPhase, queue <- FeedQueue

ImplementsFeed == Feed!Spec

\* A subscriber that never reads holds up neither the health service nor, by
\* way of the lock, anyone else: every Publish returns.
PublishReturns == pub.busy ~> ~pub.busy

\* Every connection is taken out of the broker in the end.
ConnectionsEnd == \A c \in Conns : conn[c] = "registered" ~> conn[c] = "gone"

\* A forwarder ends after its handler, with one exception: it was passing on
\* an event when the handler returned, and is blocked in that send for good.
ForwarderEnds ==
    \A c \in Conns :
        conn[c] = "gone" ~> fwd[c] = "done" \/ (fwd[c] = "send" /\ held[c] # 0)
=============================================================================
