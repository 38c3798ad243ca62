---------------------------- MODULE BrokerProofs ----------------------------
(***************************************************************************)
(* Proofs about Broker for any finite set of connections, any sets of      *)
(* topics, any capacity and any number of events.                         *)
(***************************************************************************)
EXTENDS Broker, FiniteSetTheorems, SequenceTheorems, TLAPS

\* Between Subscribe's critical section and that of the function it returns.
InMap == {"registered", "counted", "stream", "cancel"}

\* Between the two additions to the counter.
Counted == {c \in Conns : conn[c] \in {"counted", "stream", "cancel", "unregistered"}}

\* The map holds connections under the topics they want, and forgets them when
\* they unregister.
Listed ==
    \A t \in Topics : \A c \in subs[t] : conn[c] \in InMap /\ t \in wants[c]

\* The publisher visits only such connections, of the topic it publishes, and
\* only under its lock.
Visiting ==
    /\ pub.pending # {} => pub.busy
    /\ pub.busy => latest # 0
    /\ \A c \in pub.pending : conn[c] \in InMap /\ TopicOf(latest) \in wants[c]

ClosedLast == \A c \in Conns : closed[c] => conn[c] = "gone"

\* A forwarder begins after Subscribe has returned, and sends what it holds.
Forwarding ==
    \A c \in Conns :
        /\ fwd[c] = "send" => held[c] # 0
        /\ conn[c] \in {"off", "registered", "counted"} => fwd[c] = "off"
        /\ conn[c] = "off" => chan[c] = <<>>

CounterExact == n = Cardinality(Counted)

IInv ==
    /\ TypeOK
    /\ Listed /\ Visiting /\ ClosedLast /\ Forwarding
    /\ CounterExact

-----------------------------------------------------------------------------
LEMMA CardinalityInRange ==
    ASSUME IsFiniteSet(Conns), NEW S \in SUBSET Conns
    PROVE  IsFiniteSet(S) /\ Cardinality(S) \in 0..Cardinality(Conns)
<1>1. IsFiniteSet(S) /\ Cardinality(S) <= Cardinality(Conns)
    BY FS_Subset
<1>2. Cardinality(S) \in Nat /\ Cardinality(Conns) \in Nat
    BY <1>1, FS_CardinalityType
<1> QED BY <1>1, <1>2

LEMMA Dequeued ==
    ASSUME NEW S, NEW s \in Seq(S), s # <<>>
    PROVE  /\ Head(s) = s[1] /\ Head(s) \in S
           /\ Tail(s) \in Seq(S) /\ Len(Tail(s)) = Len(s) - 1
           /\ Len(s) \in Nat \ {0}
           /\ \A i \in 1..Len(Tail(s)) : Tail(s)[i] = s[i + 1]
BY HeadTailProperties

LEMMA TopicOfEvent == \A e : TopicOf(e) \in Topics
BY DEF TopicOf, Topics

LEMMA Safe ==
    ASSUME IInv
    PROVE  BrokerSafe
<1>1. TypeOK
    BY DEF IInv
<1>2. NoSendOnClosed
    BY DEF IInv, TypeOK, Listed, Visiting, ClosedLast, InMap, NoSendOnClosed
<1> QED BY <1>1, <1>2 DEF BrokerSafe

LEMMA InitInv ==
    ASSUME IsFiniteSet(Conns), Init
    PROVE  IInv
<1>1. n = 0 /\ Counted = {} /\ CounterExact
    BY FS_EmptySet DEF Init, Counted, CounterExact
<1>2. n \in 0..Cardinality(Conns)
    BY <1>1, CardinalityInRange DEF CounterExact
<1>3. TypeOK
    BY <1>2, BrokerAssumption DEF Init, TypeOK, Stops
<1>4. Listed /\ Visiting /\ ClosedLast /\ Forwarding
    BY DEF Init, Listed, Visiting, ClosedLast, Forwarding
<1> QED BY <1>1, <1>3, <1>4 DEF IInv

-----------------------------------------------------------------------------
(* Steps of Subscribe and of the function it returns.                      *)

LEMMA MoveCounts ==
    ASSUME TypeOK, NEW c \in Conns, NEW from, NEW to \in Stops, Move(c, from, to)
    PROVE  /\ from = conn[c]
           /\ conn' = [conn EXCEPT ![c] = to] /\ conn' \in [Conns -> Stops]
           /\ conn'[c] = to /\ \A d \in Conns \ {c} : conn'[d] = conn[d]
BY DEF Move, TypeOK

LEMMA RegisterInv ==
    ASSUME IInv, NEW c \in Conns, Register(c)
    PROVE  IInv'
<1>0. TypeOK
    BY DEF IInv
<1>1. /\ conn[c] = "off" /\ ~pub.busy /\ conn' \in [Conns -> Stops]
      /\ conn'[c] = "registered" /\ \A d \in Conns \ {c} : conn'[d] = conn[d]
    BY <1>0, MoveCounts DEF Register, Stops
<1>2. PICK T \in SUBSET Topics :
        /\ wants' = [wants EXCEPT ![c] = T]
        /\ subs' = [t \in Topics |-> IF t \in T THEN subs[t] \cup {c} ELSE subs[t]]
    BY BrokerAssumption DEF Register
<1>3. UNCHANGED <<n, token, chan, closed, cancelled, fwd, held, got, latest, pub>>
    BY DEF Register
<1>4. TypeOK'
    BY <1>0, <1>1, <1>2, <1>3 DEF TypeOK
<1>5. Listed'
    <2> SUFFICES ASSUME NEW t \in Topics, NEW d \in subs'[t]
                 PROVE  conn'[d] \in InMap /\ t \in wants'[d]
        BY DEF Listed
    <2>1. CASE d = c
        BY <1>0, <1>1, <1>2, <2>1 DEF IInv, Listed, TypeOK, InMap
    <2>2. CASE d # c
        BY <1>0, <1>1, <1>2, <2>2 DEF IInv, Listed, TypeOK
    <2> QED BY <2>1, <2>2
<1>6. Visiting'
    BY <1>0, <1>1, <1>3 DEF IInv, Visiting, TypeOK
<1>7. ClosedLast' /\ Forwarding'
    BY <1>0, <1>1, <1>3 DEF IInv, ClosedLast, Forwarding, TypeOK
<1>8. CounterExact'
    <2>1. Counted' = Counted
        BY <1>0, <1>1 DEF Counted
    <2> QED BY <1>3, <2>1 DEF IInv, CounterExact
<1> QED BY <1>4, <1>5, <1>6, <1>7, <1>8 DEF IInv

\* A connection that moves on within the map, or leaves it when no one looks,
\* disturbs neither the map nor the publisher.
LEMMA MovePlaces ==
    ASSUME IInv, NEW c \in Conns, NEW from, NEW to \in Stops, Move(c, from, to),
           to \in InMap \/ from \notin InMap,
           from \notin {"off", "gone"},
           to \notin {"off", "registered"},
           UNCHANGED <<wants, subs, latest, pub>>
    PROVE  Listed' /\ Visiting'
<1>1. TypeOK
    BY DEF IInv
<1>2. conn[c] = from /\ conn'[c] = to /\ \A d \in Conns \ {c} : conn'[d] = conn[d]
    BY <1>1, MoveCounts
<1>3. Listed'
    BY <1>1, <1>2 DEF IInv, Listed, TypeOK
<1>4. Visiting'
    BY <1>1, <1>2 DEF IInv, Visiting, TypeOK
<1> QED BY <1>3, <1>4

LEMMA CountInInv ==
    ASSUME IsFiniteSet(Conns), IInv, NEW c \in Conns, CountIn(c)
    PROVE  IInv'
<1>0. TypeOK /\ Move(c, "registered", "counted")
    BY DEF IInv, CountIn
<1>1. /\ conn[c] = "registered" /\ conn' \in [Conns -> Stops]
      /\ conn'[c] = "counted" /\ \A d \in Conns \ {c} : conn'[d] = conn[d]
    BY <1>0, MoveCounts DEF Stops
<1>2. n' = n + 1
      /\ UNCHANGED <<wants, subs, token, chan, closed, cancelled, fwd, held, got, latest, pub>>
    BY DEF CountIn, OneMore
<1>3. Counted' = Counted \cup {c} /\ c \notin Counted
    BY <1>0, <1>1 DEF Counted
<1>4. CounterExact'
    <2>1. IsFiniteSet(Counted)
        BY CardinalityInRange DEF Counted
    <2> QED BY <1>2, <1>3, <2>1, FS_AddElement DEF IInv, CounterExact
<1>5. n' \in 0..Cardinality(Conns)
    <2>1. Counted' \in SUBSET Conns
        BY DEF Counted
    <2> QED BY <1>4, <2>1, CardinalityInRange DEF CounterExact
<1>6. TypeOK'
    BY <1>0, <1>1, <1>2, <1>5 DEF TypeOK
<1>7. Listed' /\ Visiting'
    BY <1>0, <1>2, MovePlaces DEF InMap, Stops
<1>8. ClosedLast' /\ Forwarding'
    BY <1>1, <1>2 DEF IInv, ClosedLast, Forwarding
<1> QED BY <1>4, <1>6, <1>7, <1>8 DEF IInv

LEMMA CountOutInv ==
    ASSUME IsFiniteSet(Conns), IInv, NEW c \in Conns, CountOut(c)
    PROVE  IInv'
<1>0. TypeOK /\ Move(c, "unregistered", "uncounted")
    BY DEF IInv, CountOut
<1>1. /\ conn[c] = "unregistered" /\ conn' \in [Conns -> Stops]
      /\ conn'[c] = "uncounted" /\ \A d \in Conns \ {c} : conn'[d] = conn[d]
    BY <1>0, MoveCounts DEF Stops
<1>2. n' = n - 1
      /\ UNCHANGED <<wants, subs, token, chan, closed, cancelled, fwd, held, got, latest, pub>>
    BY DEF CountOut
<1>3. Counted' = Counted \ {c} /\ c \in Counted
    BY <1>0, <1>1 DEF Counted
<1>4. CounterExact'
    <2>1. IsFiniteSet(Counted)
        BY CardinalityInRange DEF Counted
    <2> QED BY <1>2, <1>3, <2>1, FS_RemoveElement DEF IInv, CounterExact
<1>5. n' \in 0..Cardinality(Conns)
    <2>1. Counted' \in SUBSET Conns
        BY DEF Counted
    <2> QED BY <1>4, <2>1, CardinalityInRange DEF CounterExact
<1>6. TypeOK'
    BY <1>0, <1>1, <1>2, <1>5 DEF TypeOK
<1>7. Listed' /\ Visiting'
    BY <1>0, <1>2, MovePlaces DEF InMap, Stops
<1>8. ClosedLast' /\ Forwarding'
    BY <1>1, <1>2 DEF IInv, ClosedLast, Forwarding
<1> QED BY <1>4, <1>6, <1>7, <1>8 DEF IInv

LEMMA UnregisterInv ==
    ASSUME IInv, NEW c \in Conns, Unregister(c)
    PROVE  IInv'
<1>0. TypeOK /\ Move(c, "cancel", "unregistered")
    BY DEF IInv, Unregister
<1>1. /\ conn[c] = "cancel" /\ conn' \in [Conns -> Stops]
      /\ conn'[c] = "unregistered" /\ \A d \in Conns \ {c} : conn'[d] = conn[d]
    BY <1>0, MoveCounts DEF Stops
<1>2. /\ ~pub.busy
      /\ subs' = [t \in Topics |-> IF t \in wants[c] THEN subs[t] \ {c} ELSE subs[t]]
      /\ UNCHANGED <<wants, n, token, chan, closed, cancelled, fwd, held, got, latest, pub>>
    BY DEF Unregister
<1>3. TypeOK'
    BY <1>0, <1>1, <1>2 DEF TypeOK
<1>4. Listed'
    BY <1>0, <1>1, <1>2 DEF IInv, Listed, TypeOK
<1>5. Visiting'
    BY <1>0, <1>1, <1>2 DEF IInv, Visiting, TypeOK
<1>6. ClosedLast' /\ Forwarding'
    BY <1>1, <1>2 DEF IInv, ClosedLast, Forwarding
<1>7. CounterExact'
    <2>1. Counted' = Counted
        BY <1>0, <1>1 DEF Counted
    <2> QED BY <1>2, <2>1 DEF IInv, CounterExact
<1> QED BY <1>3, <1>4, <1>5, <1>6, <1>7 DEF IInv

\* The other steps of a connection leave map and counter alone.
LEMMA MoveInv ==
    ASSUME IInv, NEW c \in Conns, NEW from \in Stops, NEW to \in Stops,
           Move(c, from, to),
           to \in InMap \/ from \notin InMap,
           from \in {"counted", "stream", "cancel", "unregistered"}
               <=> to \in {"counted", "stream", "cancel", "unregistered"},
           from \notin {"off", "gone"}, to \notin {"off", "registered", "counted"},
           UNCHANGED <<wants, subs, n, latest, pub>>,
           TypeOK', ClosedLast', Forwarding'
    PROVE  IInv'
<1>1. Listed' /\ Visiting'
    BY MovePlaces
<1>2. Counted' = Counted
    BY MoveCounts DEF IInv, Counted
<1> QED BY <1>1, <1>2 DEF IInv, CounterExact

LEMMA PokeInInv ==
    ASSUME IInv, NEW c \in Conns, PokeIn(c)
    PROVE  IInv'
<1>0. TypeOK /\ Move(c, "counted", "stream")
    BY DEF IInv, PokeIn
<1>1. /\ conn[c] = "counted" /\ conn' \in [Conns -> Stops]
      /\ conn'[c] = "stream" /\ \A d \in Conns \ {c} : conn'[d] = conn[d]
    BY <1>0, MoveCounts DEF Stops
<1>2. TypeOK'
    BY <1>0, <1>1 DEF PokeIn, TypeOK
<1>3. ClosedLast' /\ Forwarding'
    BY <1>0, <1>1 DEF PokeIn, IInv, ClosedLast, Forwarding, TypeOK
<1> QED BY <1>0, <1>2, <1>3, MoveInv DEF PokeIn, Stops, InMap

LEMMA PokeOutInv ==
    ASSUME IInv, NEW c \in Conns, PokeOut(c)
    PROVE  IInv'
<1>0. TypeOK /\ Move(c, "uncounted", "poked")
    BY DEF IInv, PokeOut
<1>1. /\ conn[c] = "uncounted" /\ conn' \in [Conns -> Stops]
      /\ conn'[c] = "poked" /\ \A d \in Conns \ {c} : conn'[d] = conn[d]
    BY <1>0, MoveCounts DEF Stops
<1>2. TypeOK'
    BY <1>0, <1>1 DEF PokeOut, TypeOK
<1>3. ClosedLast' /\ Forwarding'
    BY <1>0, <1>1 DEF PokeOut, IInv, ClosedLast, Forwarding, TypeOK
<1> QED BY <1>0, <1>2, <1>3, MoveInv DEF PokeOut, Stops, InMap

LEMMA CloseChanInv ==
    ASSUME IInv, NEW c \in Conns, CloseChan(c)
    PROVE  IInv'
<1>0. TypeOK /\ Move(c, "poked", "gone")
    BY DEF IInv, CloseChan
<1>1. /\ conn[c] = "poked" /\ conn' \in [Conns -> Stops]
      /\ conn'[c] = "gone" /\ \A d \in Conns \ {c} : conn'[d] = conn[d]
    BY <1>0, MoveCounts DEF Stops
<1>2. TypeOK'
    BY <1>0, <1>1 DEF CloseChan, TypeOK
<1>3. ClosedLast' /\ Forwarding'
    BY <1>0, <1>1 DEF CloseChan, IInv, ClosedLast, Forwarding, TypeOK
<1> QED BY <1>0, <1>2, <1>3, MoveInv DEF CloseChan, Stops, InMap

\* The handler stops reading, for whichever reason.
LEMMA StopsReadingInv ==
    ASSUME IInv, NEW c \in Conns, WriteFails(c) \/ HandlerReturns(c)
    PROVE  IInv'
<1>0. /\ TypeOK /\ Move(c, "stream", "cancel")
      /\ UNCHANGED <<wants, subs, n, token, chan, closed, cancelled, fwd, held, got, latest, pub>>
    BY DEF IInv, WriteFails, HandlerReturns
<1>1. /\ conn[c] = "stream" /\ conn' \in [Conns -> Stops]
      /\ conn'[c] = "cancel" /\ \A d \in Conns \ {c} : conn'[d] = conn[d]
    BY <1>0, MoveCounts DEF Stops
<1>2. TypeOK'
    BY <1>0, <1>1 DEF TypeOK
<1>3. ClosedLast' /\ Forwarding'
    BY <1>0, <1>1 DEF IInv, ClosedLast, Forwarding, TypeOK
<1> QED BY <1>0, <1>2, <1>3, MoveInv DEF Stops, InMap

-----------------------------------------------------------------------------
(* Steps that move no connection.                                          *)

LEMMA StayInv ==
    ASSUME IInv, UNCHANGED <<conn, wants, subs, n, closed>>,
           TypeOK', Visiting', Forwarding'
    PROVE  IInv'
<1>1. Listed' /\ ClosedLast'
    BY DEF IInv, Listed, ClosedLast
<1>2. Counted' = Counted
    BY DEF Counted
<1> QED BY <1>1, <1>2 DEF IInv, CounterExact

LEMMA PublisherInv ==
    ASSUME IInv, Publisher
    PROVE  IInv'
<1>0. TypeOK
    BY DEF IInv
<1>1. CASE PublishLock
    <2>1. Audience(latest + 1) = subs[TopicOf(latest + 1)]
          /\ TopicOf(latest + 1) \in Topics
        BY TopicOfEvent DEF Audience
    <2>2. latest' \in 0..MaxEvents /\ latest' # 0
        BY <1>0, <1>1, BrokerAssumption DEF PublishLock, TypeOK
    <2>3. Audience(latest + 1) \in SUBSET Conns
        BY <1>0, <2>1 DEF TypeOK
    <2>4. pub' \in [busy : BOOLEAN, pending : SUBSET Conns]
        BY <1>1, <2>3 DEF PublishLock
    <2>5. TypeOK'
        BY <1>0, <1>1, <2>2, <2>4 DEF PublishLock, TypeOK
    <2>6. Visiting'
        BY <1>1, <2>1, <2>2 DEF PublishLock, IInv, Listed, Visiting
    <2>7. Forwarding'
        BY <1>1 DEF PublishLock, IInv, Forwarding
    <2> QED BY <1>1, <2>5, <2>6, <2>7, StayInv DEF PublishLock
<1>2. ASSUME NEW c \in Conns, PublishSend(c)
      PROVE  IInv'
    <2>1. latest \in 1..MaxEvents /\ conn[c] \in InMap
        BY <1>0, <1>2 DEF PublishSend, IInv, Visiting, TypeOK
    <2>2. pub' \in [busy : BOOLEAN, pending : SUBSET Conns]
          /\ pub'.busy = pub.busy /\ pub'.pending = pub.pending \ {c}
        BY <1>0, <1>2 DEF PublishSend, TypeOK
    <2>3. chan' \in [Conns -> Seq(1..MaxEvents)] /\ \A d \in Conns : Len(chan'[d]) <= Cap
        <3>1. CASE Len(chan[c]) < Cap
            <4>1. chan' = [chan EXCEPT ![c] = Append(chan[c], latest)]
                BY <1>2, <3>1 DEF PublishSend
            <4>2. chan[c] \in Seq(1..MaxEvents) /\ Cap \in Nat
                BY <1>0, BrokerAssumption DEF TypeOK
            <4>3. /\ Append(chan[c], latest) \in Seq(1..MaxEvents)
                  /\ Len(Append(chan[c], latest)) <= Cap
                BY <2>1, <3>1, <4>2
            <4> QED BY <1>0, <4>1, <4>3 DEF TypeOK
        <3>2. CASE ~(Len(chan[c]) < Cap)
            BY <1>0, <1>2, <3>2 DEF PublishSend, TypeOK
        <3> QED BY <3>1, <3>2
    <2>4. TypeOK'
        BY <1>0, <1>2, <2>2, <2>3 DEF PublishSend, TypeOK
    <2>5. Visiting'
        BY <1>2, <2>2 DEF PublishSend, IInv, Visiting
    <2>6. Forwarding'
        <3>1. \A d \in Conns : conn[d] = "off" => chan'[d] = chan[d]
            BY <1>0, <1>2, <2>1 DEF PublishSend, TypeOK, InMap
        <3> QED BY <1>2, <3>1 DEF PublishSend, IInv, Forwarding
    <2> QED BY <1>2, <2>4, <2>5, <2>6, StayInv DEF PublishSend
<1>3. CASE PublishUnlock
    <2>1. pub' \in [busy : BOOLEAN, pending : SUBSET Conns]
          /\ ~pub'.busy /\ pub'.pending = {}
        BY <1>0, <1>3 DEF PublishUnlock, TypeOK
    <2>2. TypeOK'
        BY <1>0, <1>3, <2>1 DEF PublishUnlock, TypeOK
    <2>3. Visiting' /\ Forwarding'
        BY <1>3, <2>1 DEF PublishUnlock, IInv, Visiting, Forwarding
    <2> QED BY <1>3, <2>2, <2>3, StayInv DEF PublishUnlock
<1> QED BY <1>1, <1>2, <1>3 DEF Publisher

LEMMA ReceiveInv ==
    ASSUME IInv, NEW c \in Conns, Receive(c)
    PROVE  IInv'
<1>0. TypeOK
    BY DEF IInv
<1>1. chan[c] \in Seq(1..MaxEvents) /\ chan[c] # <<>> /\ Len(chan[c]) <= Cap /\ Cap \in Nat
    BY <1>0, BrokerAssumption DEF TypeOK, Receive
<1>2. /\ Head(chan[c]) \in 1..MaxEvents
      /\ Tail(chan[c]) \in Seq(1..MaxEvents) /\ Len(Tail(chan[c])) <= Cap
    <2>1. /\ Head(chan[c]) \in 1..MaxEvents
          /\ Tail(chan[c]) \in Seq(1..MaxEvents)
          /\ Len(Tail(chan[c])) = Len(chan[c]) - 1 /\ Len(chan[c]) \in Nat
        BY <1>1, Dequeued
    <2> QED BY <1>1, <2>1
<1>3. /\ chan' \in [Conns -> Seq(1..MaxEvents)]
      /\ chan'[c] = Tail(chan[c]) /\ \A d \in Conns \ {c} : chan'[d] = chan[d]
    BY <1>0, <1>2 DEF Receive, TypeOK
<1>3b. \A d \in Conns : Len(chan'[d]) <= Cap
    <2> TAKE d \in Conns
    <2>1. CASE d = c
        BY <1>2, <1>3, <2>1
    <2>2. CASE d # c
        BY <1>0, <1>3, <2>2 DEF TypeOK
    <2> QED BY <2>1, <2>2
<1>4. /\ held' \in [Conns -> 0..MaxEvents] /\ held'[c] # 0
      /\ \A d \in Conns \ {c} : held'[d] = held[d]
    BY <1>0, <1>2 DEF Receive, TypeOK
<1>5. /\ fwd' \in [Conns -> {"off", "recv", "send", "done"}] /\ fwd[c] = "recv"
      /\ \A d \in Conns \ {c} : fwd'[d] = fwd[d]
    BY <1>0 DEF Receive, TypeOK
<1>6. UNCHANGED <<conn, wants, subs, n, token, closed, cancelled, got, latest, pub>>
    BY DEF Receive
<1>7. TypeOK'
    BY <1>0, <1>3, <1>3b, <1>4, <1>5, <1>6 DEF TypeOK
<1>8. Visiting'
    BY <1>6 DEF IInv, Visiting
<1>9. Forwarding'
    <2>1. conn[c] \notin {"off", "registered", "counted"}
        BY <1>5 DEF IInv, Forwarding
    <2> QED BY <1>3, <1>4, <1>5, <1>6, <2>1 DEF IInv, Forwarding
<1> QED BY <1>6, <1>7, <1>8, <1>9, StayInv

LEMMA ForwarderReturnsInv ==
    ASSUME IInv, NEW c \in Conns, ForwarderReturns(c)
    PROVE  IInv'
<1>0. TypeOK
    BY DEF IInv
<1>1. TypeOK'
    BY <1>0 DEF ForwarderReturns, TypeOK
<1>2. Visiting'
    BY DEF ForwarderReturns, IInv, Visiting
<1>3. Forwarding'
    BY <1>0 DEF ForwarderReturns, IInv, Forwarding, TypeOK
<1> QED BY <1>1, <1>2, <1>3, StayInv DEF ForwarderReturns

LEMMA DeliverInv ==
    ASSUME IInv, NEW c \in Conns, Deliver(c)
    PROVE  IInv'
<1>0. TypeOK
    BY DEF IInv
<1>1. held[c] \in 1..MaxEvents /\ got[c] \in Seq(1..MaxEvents)
    BY <1>0 DEF Deliver, IInv, Forwarding, TypeOK
<1>2. Append(got[c], held[c]) \in Seq(1..MaxEvents)
    BY <1>1
<1>3. got' \in [Conns -> Seq(1..MaxEvents)]
    BY <1>0, <1>2 DEF Deliver, TypeOK
<1>4. held' \in [Conns -> 0..MaxEvents] /\ fwd' \in [Conns -> {"off", "recv", "send", "done"}]
    BY <1>0, BrokerAssumption DEF Deliver, TypeOK
<1>5. TypeOK'
    BY <1>0, <1>3, <1>4 DEF Deliver, TypeOK
<1>6. Visiting'
    BY DEF Deliver, IInv, Visiting
<1>7. Forwarding'
    BY <1>0 DEF Deliver, IInv, Forwarding, TypeOK
<1> QED BY <1>5, <1>6, <1>7, StayInv DEF Deliver

LEMMA SurroundingsInv ==
    ASSUME IInv, TakeToken \/ \E c \in Conns : ContextDone(c)
    PROVE  IInv'
<1>0. TypeOK
    BY DEF IInv
<1>1. TypeOK'
    <2>1. CASE TakeToken
        BY <1>0, <2>1 DEF TakeToken, TypeOK
    <2>2. ASSUME NEW c \in Conns, ContextDone(c)
          PROVE  TypeOK'
        BY <1>0, <2>2 DEF ContextDone, TypeOK
    <2> QED BY <2>1, <2>2
<1>2. UNCHANGED <<conn, wants, subs, n, chan, closed, fwd, held, latest, pub>>
    BY DEF TakeToken, ContextDone
<1>3. Visiting' /\ Forwarding'
    BY <1>2 DEF IInv, Visiting, Forwarding
<1> QED BY <1>1, <1>2, <1>3, StayInv

-----------------------------------------------------------------------------
LEMMA StepInv ==
    ASSUME IsFiniteSet(Conns), IInv, [Next]_vars
    PROVE  IInv'
<1>1. CASE Publisher
    BY <1>1, PublisherInv
<1>2. CASE TakeToken
    BY <1>2, SurroundingsInv
<1>3. ASSUME NEW c \in Conns,
             Register(c) \/ CountIn(c) \/ PokeIn(c) \/ WriteFails(c)
                 \/ HandlerReturns(c) \/ Unregister(c) \/ Leaving(c)
      PROVE  IInv'
    BY <1>3, RegisterInv, CountInInv, PokeInInv, StopsReadingInv, UnregisterInv,
        CountOutInv, PokeOutInv, CloseChanInv DEF Leaving
<1>4. ASSUME NEW c \in Conns, Forwarder(c) \/ Deliver(c) \/ ContextDone(c)
      PROVE  IInv'
    BY <1>4, ReceiveInv, ForwarderReturnsInv, DeliverInv, SurroundingsInv DEF Forwarder
<1>5. CASE UNCHANGED vars
    <2>1. UNCHANGED <<conn, wants, subs, n, token, chan, closed, cancelled, fwd, held,
                      got, latest, pub>>
        BY <1>5 DEF vars
    <2>2. TypeOK'
        BY <2>1 DEF IInv, TypeOK
    <2>3. Visiting' /\ Forwarding'
        BY <2>1 DEF IInv, Visiting, Forwarding
    <2> QED BY <2>1, <2>2, <2>3, StayInv
<1> QED BY <1>1, <1>2, <1>3, <1>4, <1>5 DEF Next

LEMMA Invariance == IsFiniteSet(Conns) => (Spec => []IInv)
<1> SUFFICES ASSUME IsFiniteSet(Conns)
             PROVE  Spec => []IInv
    OBVIOUS
<1>1. Init => IInv
    BY InitInv
<1>2. IInv /\ [Next]_vars => IInv'
    BY StepInv
<1> QED BY <1>1, <1>2, PTL DEF Spec

\* Publish never sends on a closed channel, however subscribers come and go
\* (Broker.Publish, Broker.Subscribe), and the counter never leaves its range.
THEOREM NeverSendsOnClosed == IsFiniteSet(Conns) => (Spec => []BrokerSafe)
<1> SUFFICES ASSUME IsFiniteSet(Conns)
             PROVE  Spec => []BrokerSafe
    OBVIOUS
<1>1. Spec => []IInv
    BY Invariance
<1>2. IInv => BrokerSafe
    BY Safe
<1> QED BY <1>1, <1>2, PTL

-----------------------------------------------------------------------------
(* The counter and the tokens are those of Presence.                       *)

StageOf(stop) ==
    CASE stop \in {"off", "registered", "poked", "gone"} -> "away"
      [] stop = "counted" -> "joining"
      [] stop \in {"stream", "cancel", "unregistered"} -> "here"
      [] stop = "uncounted" -> "leaving"

LEMMA Stages ==
    /\ StageOf("off") = "away" /\ StageOf("registered") = "away"
    /\ StageOf("counted") = "joining"
    /\ StageOf("stream") = "here" /\ StageOf("cancel") = "here"
    /\ StageOf("unregistered") = "here" /\ StageOf("uncounted") = "leaving"
    /\ StageOf("poked") = "away" /\ StageOf("gone") = "away"
BY DEF StageOf

\* A connection that moves within a stage of Presence, or to another.
LEMMA StageMoves ==
    ASSUME TypeOK, NEW c \in Conns, NEW from, NEW to \in Stops, Move(c, from, to)
    PROVE  /\ PresenceStage' = [PresenceStage EXCEPT ![c] = PresenceStage'[c]]
           /\ PresenceStage[c] = StageOf(from)
           /\ PresenceStage'[c] = StageOf(to)
<1>1. /\ conn[c] = from /\ conn'[c] = to
      /\ \A d \in Conns \ {c} : conn'[d] = conn[d]
    BY MoveCounts
<1>2. /\ PresenceStage = [d \in Conns |-> StageOf(conn[d])]
      /\ PresenceStage' = [d \in Conns |-> StageOf(conn'[d])]
    BY DEF PresenceStage, StageOf
<1> QED BY <1>1, <1>2

LEMMA PresenceStays ==
    ASSUME TypeOK, NEW c \in Conns, NEW from, NEW to \in Stops, Move(c, from, to),
           \/ from = "off" /\ to = "registered"
           \/ from = "stream" /\ to = "cancel"
           \/ from = "cancel" /\ to = "unregistered"
           \/ from = "poked" /\ to = "gone"
    PROVE  UNCHANGED PresenceStage
<1>1. /\ PresenceStage' = [PresenceStage EXCEPT ![c] = PresenceStage'[c]]
      /\ PresenceStage'[c] = PresenceStage[c]
    BY StageMoves, Stages
<1> QED BY <1>1 DEF PresenceStage

LEMMA PresenceStep ==
    ASSUME TypeOK, [Next]_vars
    PROVE  [Presence!PresenceNext]_(Presence!presenceVars)
<1>1. ASSUME UNCHANGED <<conn, n, token>>
      PROVE  UNCHANGED Presence!presenceVars
    BY <1>1 DEF PresenceStage, Presence!presenceVars
<1>2. ASSUME NEW c \in Conns, CountIn(c)
      PROVE  Presence!CountIn(c)
    BY <1>2, StageMoves, Stages DEF CountIn, OneMore, Stops, Presence!CountIn
<1>3. ASSUME NEW c \in Conns, PokeIn(c)
      PROVE  Presence!PokeIn(c)
    BY <1>3, StageMoves, Stages DEF PokeIn, Stops, Presence!PokeIn, Presence!Poked
<1>4. ASSUME NEW c \in Conns, CountOut(c)
      PROVE  Presence!CountOut(c)
    BY <1>4, StageMoves, Stages DEF CountOut, Stops, Presence!CountOut
<1>5. ASSUME NEW c \in Conns, PokeOut(c)
      PROVE  Presence!PokeOut(c)
    BY <1>5, StageMoves, Stages DEF PokeOut, Stops, Presence!PokeOut, Presence!Poked
<1>6. CASE TakeToken
    <2>1. UNCHANGED PresenceStage
        BY <1>6 DEF TakeToken, PresenceStage
    <2>2. Presence!TakeToken
        BY <1>6, <2>1 DEF TakeToken, Presence!TakeToken
    <2> QED BY <2>2 DEF Presence!PresenceNext
<1>7. ASSUME NEW c \in Conns,
             Register(c) \/ WriteFails(c) \/ HandlerReturns(c) \/ Unregister(c) \/ CloseChan(c)
      PROVE  UNCHANGED Presence!presenceVars
    <2>1. UNCHANGED PresenceStage
        BY <1>7, PresenceStays DEF Register, WriteFails, HandlerReturns, Unregister,
            CloseChan, Stops
    <2>2. UNCHANGED <<n, token>>
        BY <1>7 DEF Register, WriteFails, HandlerReturns, Unregister, CloseChan
    <2> QED BY <2>1, <2>2 DEF Presence!presenceVars
<1>8. CASE Publisher \/ UNCHANGED vars
    BY <1>1, <1>8 DEF Publisher, PublishLock, PublishSend, PublishUnlock, vars
<1>9. ASSUME NEW c \in Conns, Forwarder(c) \/ Deliver(c) \/ ContextDone(c)
      PROVE  UNCHANGED Presence!presenceVars
    BY <1>1, <1>9 DEF Forwarder, Receive, ForwarderReturns, Deliver, ContextDone
<1> QED BY <1>2, <1>3, <1>4, <1>5, <1>6, <1>7, <1>8, <1>9
        DEF Next, Leaving, Presence!PresenceNext

\* What the health loop relies upon is what the broker does: every addition to
\* the counter is followed by a poke, in the order Presence states.
THEOREM BrokerIsPresence == IsFiniteSet(Conns) => (Spec => ImplementsPresence)
<1> SUFFICES ASSUME IsFiniteSet(Conns)
             PROVE  Spec => ImplementsPresence
    OBVIOUS
<1>1. Init => Presence!PresenceInit
    BY DEF Init, PresenceStage, Presence!PresenceInit
<1>2. TypeOK /\ [Next]_vars => [Presence!PresenceNext]_(Presence!presenceVars)
    BY PresenceStep
<1>3. Spec => []BrokerSafe
    BY NeverSendsOnClosed
<1>4. BrokerSafe => TypeOK
    BY DEF BrokerSafe
<1> QED BY <1>1, <1>2, <1>3, <1>4, PTL DEF Spec, ImplementsPresence, Presence!PresenceSpec

-----------------------------------------------------------------------------
(* The event stream implements EventFeed: channel, forwarder and handler   *)
(* together are an ordered lossy feed.                                     *)

Event == 1..MaxEvents

\* No event on its way to a connection, or arrived there, is newer than m.
NoneAfter(c, m) ==
    /\ \A i \in 1..Len(chan[c]) : chan[c][i] <= m
    /\ held[c] <= m
    /\ \A i \in 1..Len(got[c]) : got[c][i] <= m

\* A connection that the publisher has still to visit has not seen the latest
\* event: the publisher visits it once.
Heard ==
    \A c \in Conns : NoneAfter(c, IF c \in pub.pending THEN latest - 1 ELSE latest)

-----------------------------------------------------------------------------
(* Sequences.                                                              *)

LEMMA EventsAreNumbers ==
    ASSUME NEW s \in Seq(Event)
    PROVE  \A i \in 1..Len(s) : s[i] \in Event /\ s[i] \in Nat
<1> TAKE i \in 1..Len(s)
<1>1. s[i] \in Event
    BY ElementOfSeq
<1> QED BY <1>1, BrokerAssumption DEF Event

LEMMA Single ==
    ASSUME NEW S, NEW h \in S
    PROVE  <<h>> \in Seq(S) /\ Len(<<h>>) = 1 /\ <<h>>[1] = h
OBVIOUS

LEMMA Cons ==
    ASSUME NEW S, NEW h \in S, NEW s \in Seq(S)
    PROVE  /\ <<h>> \o s \in Seq(S)
           /\ Len(<<h>> \o s) = Len(s) + 1 /\ Len(s) \in Nat
           /\ (<<h>> \o s)[1] = h
           /\ \A i \in 1..Len(s) : (<<h>> \o s)[i + 1] = s[i]
           /\ <<h>> \o s # <<>>
<1>1. <<h>> \in Seq(S) /\ Len(<<h>>) = 1 /\ <<h>>[1] = h /\ Len(s) \in Nat
    BY Single, LenProperties
<1>2. /\ <<h>> \o s \in Seq(S)
      /\ Len(<<h>> \o s) = Len(<<h>>) + Len(s)
      /\ \A i \in 1..Len(<<h>>) + Len(s) :
            (<<h>> \o s)[i] = IF i <= Len(<<h>>) THEN <<h>>[i] ELSE s[i - Len(<<h>>)]
    BY <1>1, ConcatProperties
<1>3. \A i \in 1..Len(s) : (<<h>> \o s)[i + 1] = s[i]
    BY <1>1, <1>2
<1>4. <<h>> \o s # <<>>
    BY <1>1, <1>2
<1> QED BY <1>1, <1>2, <1>3, <1>4

LEMMA HeadTailOfCons ==
    ASSUME NEW S, NEW h \in S, NEW s \in Seq(S)
    PROVE  Head(<<h>> \o s) = h /\ Tail(<<h>> \o s) = s
<1>1. /\ <<h>> \o s \in Seq(S) /\ <<h>> \o s # <<>>
      /\ Len(<<h>> \o s) = Len(s) + 1 /\ Len(s) \in Nat
      /\ (<<h>> \o s)[1] = h
      /\ \A i \in 1..Len(s) : (<<h>> \o s)[i + 1] = s[i]
    BY Cons
<1> DEFINE q == <<h>> \o s
<1> HIDE DEF q
<1>2. q \in Seq(S) /\ q # <<>>
    BY <1>1 DEF q
<1>3. /\ Head(q) = q[1] /\ Tail(q) \in Seq(S) /\ Len(Tail(q)) = Len(q) - 1
      /\ \A i \in 1..Len(Tail(q)) : Tail(q)[i] = q[i + 1]
    BY <1>2, Dequeued
<1>4. Len(Tail(q)) = Len(s) /\ \A i \in 1..Len(Tail(q)) : Tail(q)[i] = s[i]
    BY <1>1, <1>3 DEF q
<1>5. Tail(q) = s
    BY <1>3, <1>4, SeqEqual
<1>6. Head(q) = h
    BY <1>1, <1>3 DEF q
<1> QED BY <1>5, <1>6 DEF q

LEMMA ConsOfHeadTail ==
    ASSUME NEW S, NEW s \in Seq(S), s # <<>>
    PROVE  <<Head(s)>> \o Tail(s) = s
<1>1. /\ Head(s) = s[1] /\ Head(s) \in S
      /\ Tail(s) \in Seq(S) /\ Len(Tail(s)) = Len(s) - 1
      /\ Len(s) \in Nat \ {0}
      /\ \A i \in 1..Len(Tail(s)) : Tail(s)[i] = s[i + 1]
    BY Dequeued
<1> DEFINE h == Head(s)
           r == Tail(s)
           q == <<h>> \o r
<1>2. h \in S /\ r \in Seq(S)
    BY <1>1
<1> HIDE DEF h, r
<1>3. /\ q \in Seq(S) /\ Len(q) = Len(r) + 1 /\ q[1] = h
      /\ \A i \in 1..Len(r) : q[i + 1] = r[i]
    BY <1>2, Cons
<1> HIDE DEF q
<1>4. Len(q) = Len(s)
    BY <1>1, <1>3 DEF r
<1>5. ASSUME NEW i \in 1..Len(q)
      PROVE  q[i] = s[i]
    <2>1. CASE i = 1
        BY <1>1, <1>3, <2>1 DEF h
    <2>2. CASE i # 1
        <3>1. i - 1 \in 1..Len(r) /\ (i - 1) + 1 = i
            BY <1>1, <1>4, <2>2 DEF r
        <3>2. q[(i - 1) + 1] = r[i - 1] /\ r[i - 1] = s[(i - 1) + 1]
            BY <1>1, <1>3, <3>1 DEF r
        <3> QED BY <3>1, <3>2
    <2> QED BY <2>1, <2>2
<1>6. q = s
    BY <1>3, <1>4, <1>5, SeqEqual
<1> QED BY <1>6 DEF q, h, r

LEMMA AppendToCons ==
    ASSUME NEW S, NEW h \in S, NEW s \in Seq(S), NEW e \in S
    PROVE  <<h>> \o Append(s, e) = Append(<<h>> \o s, e)
<1>1. <<h>> \in Seq(S) /\ <<e>> \in Seq(S) /\ <<h>> \o s \in Seq(S)
    BY Single, Cons
<1>2. Append(s, e) = s \o <<e>>
    BY AppendIsConcat
<1>3. (<<h>> \o s) \o <<e>> = <<h>> \o (s \o <<e>>)
    BY <1>1, ConcatAssociative
<1>4. Append(<<h>> \o s, e) = (<<h>> \o s) \o <<e>>
    BY <1>1, AppendIsConcat
<1> QED BY <1>2, <1>3, <1>4

-----------------------------------------------------------------------------
(* Heard is preserved.                                                     *)

LEMMA HeardStays ==
    ASSUME Heard, UNCHANGED <<chan, held, got, latest, pub>>
    PROVE  Heard'
BY DEF Heard, NoneAfter

LEMMA HeardLock ==
    ASSUME IInv, Heard, PublishLock
    PROVE  Heard'
<1>1. TypeOK /\ latest \in Nat /\ latest' = latest + 1
    BY DEF IInv, TypeOK, PublishLock
<1>2. pub.pending = {}
    BY DEF IInv, Visiting, PublishLock
<1>3. UNCHANGED <<chan, held, got>>
    BY DEF PublishLock
<1> SUFFICES ASSUME NEW c \in Conns
             PROVE  NoneAfter(c, IF c \in pub.pending THEN latest - 1 ELSE latest)'
    BY DEF Heard
<1>4. NoneAfter(c, latest)
    BY <1>2 DEF Heard
<1>5. /\ chan[c] \in Seq(Event) /\ got[c] \in Seq(Event) /\ held[c] \in Nat
    BY <1>1 DEF TypeOK, Event
<1>6. /\ \A i \in 1..Len(chan[c]) : chan[c][i] \in Nat
      /\ \A i \in 1..Len(got[c]) : got[c][i] \in Nat
    BY <1>5, EventsAreNumbers
<1>7. /\ \A i \in 1..Len(chan'[c]) : chan'[c][i] <= latest
      /\ held'[c] <= latest
      /\ \A i \in 1..Len(got'[c]) : got'[c][i] <= latest
      /\ \A i \in 1..Len(chan'[c]) : chan'[c][i] \in Nat
      /\ \A i \in 1..Len(got'[c]) : got'[c][i] \in Nat
      /\ held'[c] \in Nat
    BY <1>3, <1>4, <1>5, <1>6 DEF NoneAfter
<1>8. CASE c \in pub'.pending
    <2>1. latest' - 1 = latest
        BY <1>1
    <2> QED BY <1>7, <1>8, <2>1 DEF NoneAfter
<1>9. CASE c \notin pub'.pending
    BY <1>1, <1>7, <1>9 DEF NoneAfter
<1> QED BY <1>8, <1>9

LEMMA HeardSend ==
    ASSUME IInv, Heard, NEW c \in Conns, PublishSend(c)
    PROVE  Heard'
<1>1. /\ TypeOK /\ latest \in Event /\ c \in pub.pending
      /\ UNCHANGED <<held, got, latest>>
    BY DEF IInv, TypeOK, Visiting, PublishSend, Event
<1>2. pub'.pending = pub.pending \ {c}
    BY <1>1 DEF TypeOK, PublishSend
<1>3. /\ chan[c] \in Seq(Event) /\ got[c] \in Seq(Event) /\ held[c] \in Nat
    BY <1>1 DEF TypeOK, Event
<1>4. /\ \A i \in 1..Len(chan[c]) : chan[c][i] \in Nat
      /\ \A i \in 1..Len(got[c]) : got[c][i] \in Nat
    BY <1>3, EventsAreNumbers
<1>5. NoneAfter(c, latest - 1)
    BY <1>1 DEF Heard
<1>6. /\ \A i \in 1..Len(chan[c]) : chan[c][i] <= latest
      /\ held[c] <= latest
      /\ \A i \in 1..Len(got[c]) : got[c][i] <= latest
    BY <1>1, <1>3, <1>4, <1>5 DEF NoneAfter, Event
<1>7. chan'[c] = chan[c] \/ chan'[c] = Append(chan[c], latest)
    BY <1>1 DEF PublishSend, TypeOK
<1>8. \A i \in 1..Len(chan'[c]) : chan'[c][i] <= latest
    <2>1. CASE chan'[c] = chan[c]
        BY <1>6, <2>1
    <2>2. CASE chan'[c] = Append(chan[c], latest)
        <3> DEFINE q == Append(chan[c], latest)
        <3>1. /\ Len(q) = Len(chan[c]) + 1 /\ Len(chan[c]) \in Nat
              /\ \A i \in 1..Len(chan[c]) : q[i] = chan[c][i]
              /\ q[Len(chan[c]) + 1] = latest
            BY <1>1, <1>3, AppendProperties, LenProperties
        <3> HIDE DEF q
        <3>2. latest <= latest
            BY <1>1 DEF Event
        <3>3. \A i \in 1..Len(q) : q[i] <= latest
            BY <1>6, <3>1, <3>2
        <3> QED BY <2>2, <3>3 DEF q
    <2> QED BY <1>7, <2>1, <2>2
<1>9. NoneAfter(c, latest)'
    BY <1>1, <1>6, <1>8 DEF NoneAfter
<1>10. ASSUME NEW d \in Conns \ {c}
       PROVE  NoneAfter(d, IF d \in pub.pending THEN latest - 1 ELSE latest)'
    <2>1. chan'[d] = chan[d]
        BY <1>1 DEF PublishSend, TypeOK
    <2> QED BY <1>1, <1>2, <2>1 DEF Heard, NoneAfter
<1>11. NoneAfter(c, IF c \in pub.pending THEN latest - 1 ELSE latest)'
    BY <1>2, <1>9
<1> QED BY <1>10, <1>11 DEF Heard

LEMMA HeardUnlock ==
    ASSUME IInv, Heard, PublishUnlock
    PROVE  Heard'
<1>1. pub'.pending = pub.pending /\ UNCHANGED <<chan, held, got, latest>>
    BY DEF PublishUnlock, IInv, TypeOK
<1> QED BY <1>1 DEF Heard, NoneAfter

LEMMA HeardReceive ==
    ASSUME IInv, Heard, NEW c \in Conns, Receive(c)
    PROVE  Heard'
<1> DEFINE m == IF c \in pub.pending THEN latest - 1 ELSE latest
<1>1. TypeOK /\ UNCHANGED <<got, latest, pub>>
    BY DEF IInv, Receive
<1>2. chan[c] \in Seq(Event) /\ chan[c] # <<>>
    BY <1>1 DEF TypeOK, Event, Receive
<1>3. /\ chan'[c] = Tail(chan[c]) /\ held'[c] = Head(chan[c])
      /\ \A d \in Conns \ {c} : chan'[d] = chan[d] /\ held'[d] = held[d]
    BY <1>1 DEF Receive, TypeOK
<1>4. /\ held'[c] = chan[c][1]
      /\ Len(chan'[c]) = Len(chan[c]) - 1 /\ Len(chan[c]) \in Nat \ {0}
      /\ \A i \in 1..Len(chan'[c]) : chan'[c][i] = chan[c][i + 1]
    BY <1>2, <1>3, Dequeued
<1>5. NoneAfter(c, m)
    BY DEF Heard
<1> HIDE DEF m
<1>6. NoneAfter(c, m)'
    <2>0. m' = m
        BY <1>1 DEF m
    <2>1. held'[c] <= m
        BY <1>4, <1>5 DEF NoneAfter
    <2>2. \A i \in 1..Len(chan'[c]) : chan'[c][i] <= m
        BY <1>4, <1>5 DEF NoneAfter
    <2> QED BY <1>1, <1>5, <2>0, <2>1, <2>2 DEF NoneAfter
<1>7. ASSUME NEW d \in Conns \ {c}
      PROVE  NoneAfter(d, IF d \in pub.pending THEN latest - 1 ELSE latest)'
    BY <1>1, <1>3 DEF Heard, NoneAfter
<1> QED BY <1>6, <1>7 DEF Heard, m

LEMMA HeardDeliver ==
    ASSUME IInv, Heard, NEW c \in Conns, Deliver(c)
    PROVE  Heard'
<1> DEFINE m == IF c \in pub.pending THEN latest - 1 ELSE latest
<1>1. TypeOK /\ UNCHANGED <<chan, latest, pub>>
    BY DEF IInv, Deliver
<1>2. got[c] \in Seq(Event) /\ held[c] \in Event
    BY <1>1 DEF IInv, Forwarding, TypeOK, Event, Deliver
<1>3. /\ got'[c] = Append(got[c], held[c]) /\ held'[c] = 0
      /\ \A d \in Conns \ {c} : got'[d] = got[d] /\ held'[d] = held[d]
    BY <1>1 DEF Deliver, TypeOK
<1>4. /\ Len(got'[c]) = Len(got[c]) + 1 /\ Len(got[c]) \in Nat
      /\ \A i \in 1..Len(got[c]) : got'[c][i] = got[c][i]
      /\ got'[c][Len(got[c]) + 1] = held[c]
    BY <1>2, <1>3, AppendProperties, LenProperties
<1>5. NoneAfter(c, m) /\ m \in Int
    BY <1>1 DEF Heard, TypeOK
<1> HIDE DEF m
<1>6. NoneAfter(c, m)'
    <2>0. m' = m
        BY <1>1 DEF m
    <2>1. \A i \in 1..Len(got'[c]) : got'[c][i] <= m
        BY <1>4, <1>5 DEF NoneAfter
    <2>2. held'[c] <= m
        BY <1>2, <1>3, <1>5 DEF NoneAfter, Event
    <2> QED BY <1>1, <1>5, <2>0, <2>1, <2>2 DEF NoneAfter
<1>7. ASSUME NEW d \in Conns \ {c}
      PROVE  NoneAfter(d, IF d \in pub.pending THEN latest - 1 ELSE latest)'
    BY <1>1, <1>3 DEF Heard, NoneAfter
<1> QED BY <1>6, <1>7 DEF Heard, m

LEMMA HeardStep ==
    ASSUME IInv, Heard, [Next]_vars
    PROVE  Heard'
<1>1. CASE Publisher
    BY <1>1, HeardLock, HeardSend, HeardUnlock DEF Publisher, IInv, TypeOK, PublishSend
<1>2. CASE TakeToken \/ UNCHANGED vars
    BY <1>2, HeardStays DEF TakeToken, vars
<1>3. ASSUME NEW c \in Conns,
             Register(c) \/ CountIn(c) \/ PokeIn(c) \/ WriteFails(c)
                 \/ HandlerReturns(c) \/ Unregister(c) \/ Leaving(c) \/ ContextDone(c)
      PROVE  Heard'
    BY <1>3, HeardStays DEF Register, CountIn, PokeIn, WriteFails, HandlerReturns,
        Unregister, Leaving, CountOut, PokeOut, CloseChan, ContextDone
<1>4. ASSUME NEW c \in Conns, Forwarder(c) \/ Deliver(c)
      PROVE  Heard'
    BY <1>4, HeardReceive, HeardDeliver, HeardStays DEF Forwarder, ForwarderReturns
<1> QED BY <1>1, <1>2, <1>3, <1>4 DEF Next

LEMMA HeardInit == ASSUME Init PROVE Heard
<1>1. \A c \in Conns : NoneAfter(c, 0)
    BY DEF Init, NoneAfter
<1> QED BY <1>1 DEF Init, Heard

-----------------------------------------------------------------------------
(* Steps of the broker are steps of the feed.                              *)

PhaseOf(stop) ==
    CASE stop = "off" -> "new"
      [] stop \in {"registered", "counted", "stream"} -> "open"
      [] OTHER -> "closed"

LEMMA Phases ==
    /\ PhaseOf("off") = "new"
    /\ PhaseOf("registered") = "open" /\ PhaseOf("counted") = "open"
    /\ PhaseOf("stream") = "open"
    /\ PhaseOf("cancel") = "closed" /\ PhaseOf("unregistered") = "closed"
    /\ PhaseOf("uncounted") = "closed" /\ PhaseOf("poked") = "closed"
    /\ PhaseOf("gone") = "closed"
BY DEF PhaseOf

QueueOf(phase, f, h, s) ==
    IF phase # "open" THEN <<>> ELSE IF f = "send" THEN <<h>> \o s ELSE s

\* The refinement mapping, one connection at a time.
LEMMA Mapping ==
    /\ FeedPhase = [c \in Conns |-> PhaseOf(conn[c])]
    /\ FeedQueue = [c \in Conns |-> QueueOf(FeedPhase[c], fwd[c], held[c], chan[c])]
<1>1. FeedPhase = [c \in Conns |-> PhaseOf(conn[c])]
    BY DEF FeedPhase, PhaseOf
<1>2. FeedQueue = [c \in Conns |-> QueueOf(FeedPhase[c], fwd[c], held[c], chan[c])]
    BY DEF FeedQueue, QueueOf
<1> QED BY <1>1, <1>2

\* A step that touches one connection is told by what it does to that one.
LEMMA FeedFrame ==
    ASSUME NEW c \in Conns,
           \A d \in Conns \ {c} :
               /\ conn'[d] = conn[d] /\ fwd'[d] = fwd[d]
               /\ held'[d] = held[d] /\ chan'[d] = chan[d]
    PROVE  /\ FeedPhase' = [FeedPhase EXCEPT ![c] = FeedPhase'[c]]
           /\ FeedQueue' = [FeedQueue EXCEPT ![c] = FeedQueue'[c]]
           /\ FeedPhase[c] = PhaseOf(conn[c]) /\ FeedPhase'[c] = PhaseOf(conn'[c])
           /\ FeedQueue[c] = QueueOf(FeedPhase[c], fwd[c], held[c], chan[c])
           /\ FeedQueue'[c] = QueueOf(FeedPhase'[c], fwd'[c], held'[c], chan'[c])
<1>1. /\ FeedPhase = [d \in Conns |-> PhaseOf(conn[d])]
      /\ FeedPhase' = [d \in Conns |-> PhaseOf(conn'[d])]
    BY DEF FeedPhase, PhaseOf
<1>2. /\ FeedQueue = [d \in Conns |-> QueueOf(FeedPhase[d], fwd[d], held[d], chan[d])]
      /\ FeedQueue' = [d \in Conns |-> QueueOf(FeedPhase'[d], fwd'[d], held'[d], chan'[d])]
    BY DEF FeedQueue, QueueOf
<1>3. FeedPhase' = [FeedPhase EXCEPT ![c] = FeedPhase'[c]]
    BY <1>1
<1>4. \A d \in Conns \ {c} : FeedPhase'[d] = FeedPhase[d]
    BY <1>1
<1>5. FeedQueue' = [FeedQueue EXCEPT ![c] = FeedQueue'[c]]
    BY <1>2, <1>4
<1> QED BY <1>1, <1>2, <1>3, <1>5

LEMMA FeedStutters ==
    ASSUME NEW c \in Conns,
           \A d \in Conns \ {c} :
               /\ conn'[d] = conn[d] /\ fwd'[d] = fwd[d]
               /\ held'[d] = held[d] /\ chan'[d] = chan[d],
           FeedPhase'[c] = FeedPhase[c], FeedQueue'[c] = FeedQueue[c],
           UNCHANGED <<latest, wants, got>>
    PROVE  UNCHANGED Feed!vars
<1>1. /\ FeedPhase' = [FeedPhase EXCEPT ![c] = FeedPhase'[c]]
      /\ FeedQueue' = [FeedQueue EXCEPT ![c] = FeedQueue'[c]]
    BY FeedFrame
<1>2. FeedPhase' = FeedPhase /\ FeedQueue' = FeedQueue
    BY <1>1, Mapping
<1> QED BY <1>2 DEF Feed!vars

LEMMA FeedRegister ==
    ASSUME IInv, NEW c \in Conns, Register(c)
    PROVE  Feed!Open(c)
<1>1. /\ conn[c] = "off" /\ conn'[c] = "registered"
      /\ \A d \in Conns \ {c} : conn'[d] = conn[d]
      /\ UNCHANGED <<latest, fwd, held, chan, got>>
    BY MoveCounts DEF Register, Stops, IInv
<1>2. fwd[c] = "off" /\ chan[c] = <<>>
    BY <1>1 DEF IInv, Forwarding
<1>3. /\ FeedPhase' = [FeedPhase EXCEPT ![c] = FeedPhase'[c]]
      /\ FeedQueue' = [FeedQueue EXCEPT ![c] = FeedQueue'[c]]
      /\ FeedPhase[c] = "new" /\ FeedPhase'[c] = "open"
      /\ FeedQueue[c] = <<>> /\ FeedQueue'[c] = <<>>
    <2>1. /\ FeedPhase' = [FeedPhase EXCEPT ![c] = FeedPhase'[c]]
          /\ FeedQueue' = [FeedQueue EXCEPT ![c] = FeedQueue'[c]]
          /\ FeedPhase[c] = PhaseOf(conn[c]) /\ FeedPhase'[c] = PhaseOf(conn'[c])
          /\ FeedQueue[c] = QueueOf(FeedPhase[c], fwd[c], held[c], chan[c])
          /\ FeedQueue'[c] = QueueOf(FeedPhase'[c], fwd'[c], held'[c], chan'[c])
        BY <1>1, FeedFrame
    <2>2. FeedPhase[c] = "new" /\ FeedPhase'[c] = "open"
        BY <1>1, <2>1, Phases
    <2> QED BY <1>1, <1>2, <2>1, <2>2 DEF QueueOf
<1>4. FeedQueue' = FeedQueue
    BY <1>3, Mapping
<1>5. \E T \in SUBSET Topics : wants' = [wants EXCEPT ![c] = T]
    BY BrokerAssumption DEF Register
<1> QED BY <1>1, <1>3, <1>4, <1>5 DEF Feed!Open

LEMMA FeedClose ==
    ASSUME IInv, NEW c \in Conns, WriteFails(c) \/ HandlerReturns(c)
    PROVE  Feed!Close(c)
<1>1. Move(c, "stream", "cancel") /\ UNCHANGED <<latest, wants, fwd, held, chan, got>>
    BY DEF WriteFails, HandlerReturns
<1>2. /\ conn[c] = "stream" /\ conn'[c] = "cancel"
      /\ \A d \in Conns \ {c} : conn'[d] = conn[d]
    BY <1>1, MoveCounts DEF Stops, IInv
<1>3. /\ FeedPhase' = [FeedPhase EXCEPT ![c] = FeedPhase'[c]]
      /\ FeedQueue' = [FeedQueue EXCEPT ![c] = FeedQueue'[c]]
      /\ FeedPhase[c] = "open" /\ FeedPhase'[c] = "closed" /\ FeedQueue'[c] = <<>>
    <2>1. /\ FeedPhase' = [FeedPhase EXCEPT ![c] = FeedPhase'[c]]
          /\ FeedQueue' = [FeedQueue EXCEPT ![c] = FeedQueue'[c]]
          /\ FeedPhase[c] = PhaseOf(conn[c]) /\ FeedPhase'[c] = PhaseOf(conn'[c])
          /\ FeedQueue[c] = QueueOf(FeedPhase[c], fwd[c], held[c], chan[c])
          /\ FeedQueue'[c] = QueueOf(FeedPhase'[c], fwd'[c], held'[c], chan'[c])
        BY <1>1, <1>2, FeedFrame
    <2>2. FeedPhase[c] = "open" /\ FeedPhase'[c] = "closed"
        BY <1>1, <1>2, <2>1, Phases
    <2> QED BY <1>1, <1>2, <2>1, <2>2 DEF QueueOf
<1> QED BY <1>1, <1>3 DEF Feed!Close

\* Counting and poking, and all that happens after the handler has returned,
\* is not the feed's business.
LEMMA FeedMoves ==
    ASSUME IInv, NEW c \in Conns,
           CountIn(c) \/ PokeIn(c) \/ Unregister(c) \/ Leaving(c)
    PROVE  UNCHANGED Feed!vars
<1>1. UNCHANGED <<latest, wants, held, chan, got>>
    BY DEF CountIn, PokeIn, Unregister, Leaving, CountOut, PokeOut, CloseChan
<1>2. /\ \A d \in Conns \ {c} : conn'[d] = conn[d]
      /\ \/ PhaseOf(conn[c]) = "open" /\ PhaseOf(conn'[c]) = "open"
         \/ PhaseOf(conn[c]) = "closed" /\ PhaseOf(conn'[c]) = "closed"
    BY MoveCounts, Phases DEF CountIn, PokeIn, Unregister, Leaving, CountOut, PokeOut,
        CloseChan, Stops, IInv
<1>3. /\ \A d \in Conns \ {c} : fwd'[d] = fwd[d]
      /\ fwd'[c] = fwd[c] \/ (fwd[c] # "send" /\ fwd'[c] # "send")
    <2>1. CASE PokeIn(c)
        <3>1. /\ fwd' = [fwd EXCEPT ![c] = "recv"]
              /\ fwd \in [Conns -> {"off", "recv", "send", "done"}]
            BY <2>1 DEF PokeIn, IInv, TypeOK
        <3>2. fwd[c] = "off"
            BY <2>1 DEF PokeIn, Move, IInv, Forwarding
        <3> QED BY <3>1, <3>2
    <2>2. CASE ~PokeIn(c)
        BY <2>2 DEF CountIn, Unregister, Leaving, CountOut, PokeOut, CloseChan
    <2> QED BY <2>1, <2>2
<1>4. FeedPhase'[c] = FeedPhase[c] /\ FeedQueue'[c] = FeedQueue[c]
    <2>1. /\ FeedPhase[c] = PhaseOf(conn[c]) /\ FeedPhase'[c] = PhaseOf(conn'[c])
          /\ FeedQueue[c] = QueueOf(FeedPhase[c], fwd[c], held[c], chan[c])
          /\ FeedQueue'[c] = QueueOf(FeedPhase'[c], fwd'[c], held'[c], chan'[c])
        BY <1>1, <1>2, <1>3, FeedFrame
    <2> QED BY <1>1, <1>2, <1>3, <2>1 DEF QueueOf
<1> QED BY <1>1, <1>2, <1>3, <1>4, FeedStutters

LEMMA FeedForwarder ==
    ASSUME IInv, NEW c \in Conns, Forwarder(c)
    PROVE  UNCHANGED Feed!vars
<1>1. TypeOK /\ UNCHANGED <<conn, latest, wants, got>>
    BY DEF IInv, Forwarder, Receive, ForwarderReturns
<1>2. \A d \in Conns \ {c} : fwd'[d] = fwd[d] /\ held'[d] = held[d] /\ chan'[d] = chan[d]
    BY <1>1 DEF Forwarder, Receive, ForwarderReturns, TypeOK
<1>3. QueueOf("open", fwd'[c], held'[c], chan'[c]) = QueueOf("open", fwd[c], held[c], chan[c])
    <2>1. CASE Receive(c)
        <3>1. /\ chan[c] \in Seq(Event) /\ chan[c] # <<>> /\ fwd[c] = "recv"
              /\ chan'[c] = Tail(chan[c]) /\ held'[c] = Head(chan[c]) /\ fwd'[c] = "send"
            BY <1>1, <2>1 DEF Receive, TypeOK, Event
        <3>2. <<Head(chan[c])>> \o Tail(chan[c]) = chan[c]
            BY <3>1, ConsOfHeadTail
        <3> QED BY <3>1, <3>2 DEF QueueOf
    <2>2. CASE ForwarderReturns(c)
        <3>1. fwd[c] = "recv" /\ fwd'[c] = "done" /\ chan' = chan
            BY <1>1, <2>2 DEF ForwarderReturns, TypeOK
        <3> QED BY <3>1 DEF QueueOf
    <2> QED BY <2>1, <2>2 DEF Forwarder
<1>4. FeedPhase'[c] = FeedPhase[c] /\ FeedQueue'[c] = FeedQueue[c]
    <2>1. /\ FeedPhase[c] = PhaseOf(conn[c]) /\ FeedPhase'[c] = PhaseOf(conn'[c])
          /\ FeedQueue[c] = QueueOf(FeedPhase[c], fwd[c], held[c], chan[c])
          /\ FeedQueue'[c] = QueueOf(FeedPhase'[c], fwd'[c], held'[c], chan'[c])
        BY <1>1, <1>2, FeedFrame
    <2>2. FeedPhase'[c] = FeedPhase[c]
        BY <1>1, <2>1
    <2>3. CASE FeedPhase[c] = "open"
        BY <1>3, <2>1, <2>2, <2>3
    <2>4. CASE FeedPhase[c] # "open"
        BY <2>1, <2>2, <2>4 DEF QueueOf
    <2> QED BY <2>2, <2>3, <2>4
<1> QED BY <1>1, <1>2, <1>4, FeedStutters

LEMMA FeedDeliver ==
    ASSUME IInv, NEW c \in Conns, Deliver(c)
    PROVE  Feed!Deliver(c)
<1>1. /\ TypeOK /\ UNCHANGED <<conn, latest, wants, chan>>
      /\ conn[c] = "stream" /\ fwd[c] = "send" /\ fwd'[c] = "recv"
      /\ \A d \in Conns \ {c} : fwd'[d] = fwd[d] /\ held'[d] = held[d]
    BY DEF Deliver, IInv, TypeOK
<1>2. held[c] \in Event /\ chan[c] \in Seq(Event)
    BY <1>1 DEF IInv, Forwarding, TypeOK, Event
<1>3. /\ FeedPhase' = [FeedPhase EXCEPT ![c] = FeedPhase'[c]]
      /\ FeedQueue' = [FeedQueue EXCEPT ![c] = FeedQueue'[c]]
      /\ FeedPhase[c] = "open" /\ FeedPhase'[c] = "open"
      /\ FeedQueue[c] = <<held[c]>> \o chan[c] /\ FeedQueue'[c] = chan[c]
    <2>1. /\ FeedPhase' = [FeedPhase EXCEPT ![c] = FeedPhase'[c]]
          /\ FeedQueue' = [FeedQueue EXCEPT ![c] = FeedQueue'[c]]
          /\ FeedPhase[c] = PhaseOf(conn[c]) /\ FeedPhase'[c] = PhaseOf(conn'[c])
          /\ FeedQueue[c] = QueueOf(FeedPhase[c], fwd[c], held[c], chan[c])
          /\ FeedQueue'[c] = QueueOf(FeedPhase'[c], fwd'[c], held'[c], chan'[c])
        BY <1>1, FeedFrame
    <2>2. FeedPhase[c] = "open" /\ FeedPhase'[c] = "open"
        BY <1>1, <2>1, Phases
    <2> QED BY <1>1, <2>1, <2>2 DEF QueueOf
<1>4. /\ FeedQueue[c] # <<>>
      /\ Head(FeedQueue[c]) = held[c] /\ Tail(FeedQueue[c]) = chan[c]
    BY <1>2, <1>3, Cons, HeadTailOfCons
<1>5. got' = [got EXCEPT ![c] = Append(got[c], held[c])]
    BY DEF Deliver
<1>6. FeedPhase' = FeedPhase
    BY <1>3, Mapping
<1> QED BY <1>1, <1>3, <1>4, <1>5, <1>6 DEF Feed!Deliver

\* What the publisher sends is new to the connection.
LEMMA FeedSend ==
    ASSUME IInv, Heard, NEW c \in Conns, PublishSend(c)
    PROVE  Feed!Offer(c) \/ UNCHANGED Feed!vars
<1>1. /\ TypeOK /\ latest \in Event /\ c \in pub.pending
      /\ TopicOf(latest) \in wants[c]
      /\ UNCHANGED <<conn, wants, fwd, held, got, latest>>
    BY DEF IInv, TypeOK, Visiting, PublishSend, Event
<1>2. \A d \in Conns \ {c} : chan'[d] = chan[d]
    BY <1>1 DEF PublishSend, TypeOK
<1>3. chan'[c] = chan[c] \/ chan'[c] = Append(chan[c], latest)
    BY <1>1 DEF PublishSend, TypeOK
<1>4. /\ FeedPhase' = [FeedPhase EXCEPT ![c] = FeedPhase'[c]]
      /\ FeedQueue' = [FeedQueue EXCEPT ![c] = FeedQueue'[c]]
      /\ FeedPhase[c] = PhaseOf(conn[c]) /\ FeedPhase'[c] = PhaseOf(conn'[c])
      /\ FeedQueue[c] = QueueOf(FeedPhase[c], fwd[c], held[c], chan[c])
      /\ FeedQueue'[c] = QueueOf(FeedPhase'[c], fwd'[c], held'[c], chan'[c])
    BY <1>1, <1>2, FeedFrame
<1>5. FeedPhase'[c] = FeedPhase[c]
    BY <1>1, <1>4
<1>6. CASE chan'[c] = chan[c] \/ FeedPhase[c] # "open"
    <2>1. FeedQueue'[c] = FeedQueue[c]
        BY <1>1, <1>4, <1>5, <1>6 DEF QueueOf
    <2> QED BY <1>1, <1>2, <1>5, <2>1, FeedStutters
<1>7. CASE chan'[c] = Append(chan[c], latest) /\ FeedPhase[c] = "open"
    <2>1. chan[c] \in Seq(Event) /\ got[c] \in Seq(Event)
        BY <1>1 DEF TypeOK, Event
    <2>2. NoneAfter(c, latest - 1)
        BY <1>1 DEF Heard
    <2>3. fwd[c] = "send" => held[c] \in Event
        BY <1>1 DEF IInv, Forwarding, TypeOK, Event
    <2>4. FeedQueue'[c] = Append(FeedQueue[c], latest)
        <3>1. CASE fwd[c] = "send"
            <4>1. <<held[c]>> \o Append(chan[c], latest) = Append(<<held[c]>> \o chan[c], latest)
                BY <1>1, <2>1, <2>3, <3>1, AppendToCons
            <4> QED BY <1>1, <1>4, <1>5, <1>7, <3>1, <4>1 DEF QueueOf
        <3>2. CASE fwd[c] # "send"
            BY <1>1, <1>4, <1>5, <1>7, <3>2 DEF QueueOf
        <3> QED BY <3>1, <3>2
    <2>5. FeedQueue' = [FeedQueue EXCEPT ![c] = Append(FeedQueue[c], latest)]
        BY <1>4, <2>4
    <2>6. FeedPhase' = FeedPhase
        BY <1>4, <1>5, Mapping
    <2>7. \A i \in 1..Len(FeedQueue[c]) : FeedQueue[c][i] < latest
        <3>1. \A i \in 1..Len(chan[c]) : chan[c][i] < latest
            <4>1. latest \in Nat /\ \A i \in 1..Len(chan[c]) : chan[c][i] \in Nat
                BY <1>1, <2>1, EventsAreNumbers DEF Event
            <4>2. \A i \in 1..Len(chan[c]) : chan[c][i] <= latest - 1
                BY <2>2 DEF NoneAfter
            <4> QED BY <4>1, <4>2
        <3>2. CASE fwd[c] = "send"
            <4>1. held[c] < latest
                BY <1>1, <2>2, <2>3, <3>2 DEF NoneAfter, Event
            <4>2. FeedQueue[c] = <<held[c]>> \o chan[c]
                BY <1>4, <1>7, <3>2 DEF QueueOf
            <4>3. /\ Len(FeedQueue[c]) = Len(chan[c]) + 1 /\ Len(chan[c]) \in Nat
                  /\ FeedQueue[c][1] = held[c]
                  /\ \A i \in 1..Len(chan[c]) : FeedQueue[c][i + 1] = chan[c][i]
                BY <2>1, <2>3, <3>2, <4>2, Cons
            <4> SUFFICES ASSUME NEW i \in 1..Len(FeedQueue[c])
                         PROVE  FeedQueue[c][i] < latest
                OBVIOUS
            <4>4. CASE i = 1
                BY <4>1, <4>3, <4>4
            <4>5. CASE i # 1
                <5>1. i - 1 \in 1..Len(chan[c]) /\ (i - 1) + 1 = i
                    BY <4>3, <4>5
                <5>2. FeedQueue[c][(i - 1) + 1] = chan[c][i - 1]
                    BY <4>3, <5>1
                <5> QED BY <3>1, <5>1, <5>2
            <4> QED BY <4>4, <4>5
        <3>3. CASE fwd[c] # "send"
            <4>1. FeedQueue[c] = chan[c]
                BY <1>4, <1>7, <3>3 DEF QueueOf
            <4> QED BY <3>1, <4>1
        <3> QED BY <3>2, <3>3
    <2>8. \A i \in 1..Len(got[c]) : got[c][i] < latest
        BY <1>1, <2>1, <2>2, EventsAreNumbers DEF NoneAfter, Event
    <2>9. \A e \in Feed!Elements(FeedQueue[c]) \cup Feed!Elements(got[c]) : e < latest
        BY <2>7, <2>8 DEF Feed!Elements
    <2>10. Feed!Offer(c)
        BY <1>1, <1>7, <2>5, <2>6, <2>9 DEF Feed!Offer
    <2> QED BY <2>10
<1> QED BY <1>3, <1>6, <1>7

LEMMA FeedStep ==
    ASSUME IInv, Heard, [Next]_vars
    PROVE  [Feed!Next]_(Feed!vars)
<1>1. ASSUME UNCHANGED <<conn, latest, wants, fwd, held, chan, got>>
      PROVE  UNCHANGED Feed!vars
    BY <1>1 DEF FeedPhase, FeedQueue, Feed!vars
<1>2. CASE PublishLock
    <2>1. latest' = latest + 1 /\ UNCHANGED <<conn, wants, fwd, held, chan, got>>
        BY <1>2 DEF PublishLock
    <2>2. UNCHANGED <<FeedPhase, FeedQueue>>
        BY <2>1 DEF FeedPhase, FeedQueue
    <2> QED BY <2>1, <2>2 DEF Feed!Happen, Feed!Next
<1>3. CASE TakeToken \/ PublishUnlock \/ UNCHANGED vars
    BY <1>1, <1>3 DEF TakeToken, PublishUnlock, vars
<1>4. ASSUME NEW c \in Conns, PublishSend(c)
      PROVE  [Feed!Next]_(Feed!vars)
    BY <1>4, FeedSend DEF Feed!Next
<1>5. ASSUME NEW c \in Conns,
             Register(c) \/ WriteFails(c) \/ HandlerReturns(c) \/ Deliver(c)
      PROVE  Feed!Next
    BY <1>5, FeedRegister, FeedClose, FeedDeliver DEF Feed!Next
<1>6. ASSUME NEW c \in Conns,
             CountIn(c) \/ PokeIn(c) \/ Unregister(c) \/ Leaving(c)
                 \/ Forwarder(c) \/ ContextDone(c)
      PROVE  UNCHANGED Feed!vars
    BY <1>1, <1>6, FeedMoves, FeedForwarder DEF ContextDone
<1> QED BY <1>2, <1>3, <1>4, <1>5, <1>6 DEF Next, Publisher

LEMMA FeedInit == ASSUME Init PROVE Feed!Init
<1>1. FeedPhase = [c \in Conns |-> "new"]
    BY DEF Init, FeedPhase
<1>2. FeedQueue = [c \in Conns |-> <<>>]
    BY <1>1 DEF FeedQueue
<1> QED BY <1>1, <1>2 DEF Init, Feed!Init

\* No subscriber is sent an event twice, late, out of order or of a topic it
\* did not ask for (Broker.Publish, Service.Subscribe, Handler.Events), for any
\* connections, capacity and number of events; events may be missed.
THEOREM BrokerIsFeed == IsFiniteSet(Conns) => (Spec => ImplementsFeed)
<1> SUFFICES ASSUME IsFiniteSet(Conns)
             PROVE  Spec => ImplementsFeed
    OBVIOUS
<1>1. Spec => []IInv
    BY Invariance
<1>2. Init => Heard
    BY HeardInit
<1>3. IInv /\ Heard /\ [Next]_vars => Heard'
    BY HeardStep
<1>4. Init => Feed!Init
    BY FeedInit
<1>5. IInv /\ Heard /\ [Next]_vars => [Feed!Next]_(Feed!vars)
    BY FeedStep
<1> QED BY <1>1, <1>2, <1>3, <1>4, <1>5, PTL DEF Spec, ImplementsFeed, Feed!Spec
=============================================================================
