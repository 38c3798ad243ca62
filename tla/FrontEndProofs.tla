--------------------------- MODULE FrontEndProofs ---------------------------
(***************************************************************************)
(* Proofs about the four parts of FrontEnd: the event client of a tab for   *)
(* any number of hooks and topics, the health view for any set of nodes,    *)
(* any bound on ages and any queue, the dialog of a node for any addresses, *)
(* passwords and Pi-holes and any finite set of clicks, and the pages for   *)
(* any number of effects.  Each part has an inductive invariant of its own; *)
(* the last section carries the results over to PartsSpec.                  *)
(***************************************************************************)
EXTENDS FrontEnd, Sequences, FiniteSetTheorems, TLAPS

-----------------------------------------------------------------------------
(* The event client of a tab.                                              *)

\* What the client believes of its source is what the hooks want, whichever
\* way the source came about.
Belief ==
    /\ attachedTopics = TopicsOf(mounted)
    /\ mounted # {} => es.asked = TopicsOf(mounted)

\* A timer that outlives the last hook is remembered before it fires.
Outlives == mounted = {} /\ timer = "pending" => leftover

TabInv == SseSafe /\ Belief /\ Outlives

-----------------------------------------------------------------------------
\* A new connection serves the topics it is made for.
LEMMA ConnectServes ==
    ASSUME SseAssumption, NEW hooks \in SUBSET Hooks,
           Connect(TopicsOf(hooks))
    PROVE  /\ es' \in [state : States, asked : SUBSET Topics,
                       listeners : [Topics -> 0..1]]
           /\ es'.state = "connecting" /\ es'.asked = TopicsOf(hooks)
           /\ \A t \in Topics :
                es'.listeners[t] = IF t \in TopicsOf(hooks) THEN 1 ELSE 0
           /\ attachedTopics' = TopicsOf(hooks)
           /\ attachedTopics' \subseteq Topics
<1>1. TopicsOf(hooks) \subseteq Topics
    BY DEF SseAssumption, TopicsOf
<1> QED BY <1>1 DEF Connect, States

\* Some topic is wanted exactly when some hook is mounted.
LEMMA TopicsOfHooks ==
    ASSUME SseAssumption, NEW hooks \in SUBSET Hooks
    PROVE  /\ TopicsOf(hooks) \subseteq Topics
           /\ hooks # {} => TopicsOf(hooks) # {} /\ Sent(TopicsOf(hooks)) = TopicsOf(hooks)
           /\ hooks = {} => TopicsOf(hooks) = {}
BY DEF SseAssumption, TopicsOf, Sent

\* The connection changes its state and nothing else.
LEMMA BecomesKeeps ==
    ASSUME TypeOK, NEW s \in States, Becomes(s)
    PROVE  /\ es' \in [state : States, asked : SUBSET Topics,
                       listeners : [Topics -> 0..1]]
           /\ es'.state = s /\ es'.asked = es.asked /\ es'.listeners = es.listeners
BY DEF TypeOK, Becomes

\* Without a source there is nothing to serve.
LEMMA NoSourceType ==
    /\ NoSource \in [state : States, asked : SUBSET Topics, listeners : [Topics -> 0..1]]
    /\ NoSource.state = "none"
BY DEF NoSource, NoListeners, States

LEMMA InitInv ==
    ASSUME Init
    PROVE  TabInv
<1>1. TypeOK
    BY NoSourceType DEF Init, TypeOK
<1>2. WantedTopicsServed /\ Belief
    BY DEF Init, WantedTopicsServed, Belief, TopicsOf
<1>3. StrayOnlyByTimer /\ Outlives
    BY NoSourceType DEF Init, StrayOnlyByTimer, Outlives
<1> QED BY <1>1, <1>2, <1>3 DEF TabInv, SseSafe

-----------------------------------------------------------------------------
LEMMA SubscribeInv ==
    ASSUME SseAssumption, TabInv, NEW h \in Hooks, Subscribe(h)
    PROVE  TabInv'
<1>1. /\ mounted' \in SUBSET Hooks /\ mounted' # {}
      /\ leftover' = FALSE /\ timer' \in {"null", "pending"}
    BY DEF Subscribe, TabInv, SseSafe, TypeOK
<1>2. CASE TopicOf[h] \in TopicsOf(mounted)
    <2>1. TopicsOf(mounted') = TopicsOf(mounted) /\ mounted # {}
        BY <1>2 DEF Subscribe, TopicsOf
    <2>2. es' = es /\ attachedTopics' = attachedTopics
        BY <1>2 DEF Subscribe, Attach, TabInv, Belief, TopicsOf
    <2>3. TypeOK' /\ WantedTopicsServed' /\ StrayOnlyByTimer' /\ Belief' /\ Outlives'
        BY <1>1, <2>1, <2>2 DEF TabInv, SseSafe, TypeOK, WantedTopicsServed,
            StrayOnlyByTimer, Belief, Outlives
    <2> QED BY <2>3 DEF TabInv, SseSafe
<1>3. CASE TopicOf[h] \notin TopicsOf(mounted)
    <2>1. Connect(TopicsOf(mounted'))
        BY <1>3 DEF Subscribe
    <2>2. TypeOK' /\ WantedTopicsServed' /\ StrayOnlyByTimer' /\ Belief' /\ Outlives'
        BY <1>1, <2>1, ConnectServes, TopicsOfHooks DEF TypeOK, WantedTopicsServed,
            StrayOnlyByTimer, Belief, Outlives
    <2> QED BY <2>2 DEF TabInv, SseSafe
<1> QED BY <1>2, <1>3

LEMMA UnsubscribeInv ==
    ASSUME SseAssumption, TabInv, NEW h \in Hooks, Unsubscribe(h)
    PROVE  TabInv'
<1>1. /\ mounted' \in SUBSET Hooks /\ mounted # {}
      /\ leftover' = (mounted' = {} /\ timer = "pending")
      /\ timer' = timer /\ timer \in {"null", "pending"}
    BY DEF Unsubscribe, TabInv, SseSafe, TypeOK
<1>2. CASE TopicsOf(mounted') = TopicsOf(mounted) /\ UNCHANGED <<es, attachedTopics>>
    <2>1. mounted' # {}
        BY <1>1, <1>2, TopicsOfHooks DEF TabInv, SseSafe, TypeOK
    <2>2. TypeOK' /\ WantedTopicsServed' /\ StrayOnlyByTimer' /\ Belief' /\ Outlives'
        BY <1>1, <1>2, <2>1 DEF TabInv, SseSafe, TypeOK, WantedTopicsServed,
            StrayOnlyByTimer, Belief, Outlives
    <2> QED BY <2>2 DEF TabInv, SseSafe
<1>3. CASE mounted' = {} /\ es' = NoSource /\ attachedTopics' = {}
    <2>1. timer' = "pending" => leftover'
        BY <1>1, <1>3
    <2>2. TypeOK'
        BY <1>1, <1>3, NoSourceType DEF TypeOK
    <2>3. WantedTopicsServed' /\ Belief'
        BY <1>3 DEF WantedTopicsServed, Belief, TopicsOf
    <2>4. StrayOnlyByTimer' /\ Outlives'
        BY <1>3, <2>1, NoSourceType DEF StrayOnlyByTimer, Outlives
    <2> QED BY <2>2, <2>3, <2>4 DEF TabInv, SseSafe
<1>4. CASE mounted' # {} /\ Connect(TopicsOf(mounted'))
    <2>1. TypeOK' /\ WantedTopicsServed' /\ StrayOnlyByTimer' /\ Belief' /\ Outlives'
        BY <1>1, <1>4, ConnectServes, TopicsOfHooks DEF TypeOK, WantedTopicsServed,
            StrayOnlyByTimer, Belief, Outlives
    <2> QED BY <2>1 DEF TabInv, SseSafe
<1> QED BY <1>2, <1>3, <1>4 DEF Unsubscribe

\* Whatever the network does to a source, it asks for what it asked for.
LEMMA ConnectionInv ==
    ASSUME SseAssumption, TabInv, NEW s \in States \ {"none"}, Becomes(s),
           es.state # "none",
           UNCHANGED <<mounted, attachedTopics, leftover>>,
           timer' = timer \/ timer' = "pending"
    PROVE  TabInv'
<1>1. /\ es' \in [state : States, asked : SUBSET Topics, listeners : [Topics -> 0..1]]
      /\ es'.state = s /\ es'.asked = es.asked /\ es'.listeners = es.listeners
    BY BecomesKeeps DEF TabInv, SseSafe
<1>2. TypeOK' /\ WantedTopicsServed' /\ StrayOnlyByTimer' /\ Belief' /\ Outlives'
    BY <1>1 DEF TabInv, SseSafe, TypeOK, WantedTopicsServed, StrayOnlyByTimer, Belief,
        Outlives
<1> QED BY <1>2 DEF TabInv, SseSafe

LEMMA TimerInv ==
    ASSUME SseAssumption, TabInv, TimerFires
    PROVE  TabInv'
<1>1. /\ mounted \in SUBSET Hooks /\ mounted' = mounted /\ leftover' = leftover
      /\ timer = "pending" /\ timer' = "null" /\ leftover \in BOOLEAN
      /\ Connect(TopicsOf(mounted))
    BY DEF TimerFires, Fired, TabInv, SseSafe, TypeOK
<1>2. TypeOK' /\ WantedTopicsServed'
    BY <1>1, ConnectServes, TopicsOfHooks DEF TypeOK, WantedTopicsServed
<1>3. StrayOnlyByTimer' /\ Belief' /\ Outlives'
    BY <1>1, ConnectServes DEF TabInv, StrayOnlyByTimer, Belief, Outlives
<1> QED BY <1>2, <1>3 DEF TabInv, SseSafe

LEMMA StepInv ==
    ASSUME SseAssumption, TabInv, [Next]_vars
    PROVE  TabInv'
<1>1. CASE \E h \in Hooks : Subscribe(h) \/ Unsubscribe(h)
    BY <1>1, SubscribeInv, UnsubscribeInv
<1>2. CASE Opens
    BY <1>2, ConnectionInv DEF Opens, States
<1>3. CASE Refused
    BY <1>3, ConnectionInv DEF Refused, OnError, States
<1>4. CASE Breaks
    BY <1>4, ConnectionInv DEF Breaks, OnError, States
<1>5. CASE BrowserRetries
    BY <1>5, ConnectionInv DEF BrowserRetries, States
<1>6. CASE TimerFires
    BY <1>6, TimerInv
<1>7. CASE UNCHANGED vars
    BY <1>7 DEF vars, TabInv, SseSafe, TypeOK, WantedTopicsServed, StrayOnlyByTimer,
        Belief, Outlives
<1> QED BY <1>1, <1>2, <1>3, <1>4, <1>5, <1>6, <1>7 DEF Next

-----------------------------------------------------------------------------
\* Every tab's connection carries the topics its hooks want, once each, and a
\* connection nobody wants comes from a timer left over (lib/sse/client.ts),
\* for any hooks and any topics.
THEOREM TabServed == SseAssumption => (Spec => []SseSafe)
<1> SUFFICES ASSUME SseAssumption
             PROVE  Spec => []SseSafe
    OBVIOUS
<1>1. Init => TabInv
    BY InitInv
<1>2. TabInv /\ [Next]_vars => TabInv'
    BY StepInv
<1>3. TabInv => SseSafe
    BY DEF TabInv
<1> QED BY <1>1, <1>2, <1>3, PTL DEF Spec

-----------------------------------------------------------------------------
(* The health view.                                                        *)

\* An event carries a summary or a list.
Events == [summary : Page!Ages, list : {None}, lost : {{}}]
            \cup [summary : {None}, list : Page!Lists, lost : SUBSET Nodes]

\* b may follow a: nothing older comes after it.
Follows(a, b) == a # None /\ b # None => b <= a
ListFollows(l, m) == l # None /\ m # None => \A n \in Nodes : Follows(l[n], m[n])

\* A list of one sweep: the members in it that the sweep did not lose have
\* results of the same age.
OneSweep(l, x) == \A m, n \in members \ x : None \in {l[m], l[n]} \/ l[m] = l[n]

SweepType == [pc : {"idle", "call", "write", "list"},
              todo : SUBSET Nodes, lost : SUBSET Nodes]

\* Nothing is known of a node whose id was not handed out.
OnlyKnown(l) == \A n \in Nodes \ known : l[n] = None

\* What is shown or queued of the list came from one sweep, which lost x, no later than the
\* results there are now.
Settled(l, x) == l # None => OneSweep(l, x) /\ OnlyKnown(l) /\ ListFollows(l, nodeHealth)

\* A member has the result of the last sweep, or will get one from this sweep,
\* or has none yet, or lost its result to a panic.
Fresh(n) ==
    \/ nodeHealth[n] = None
    \/ sweep.pc = "call" /\ n \in sweep.todo
    \/ sweep.pc = "write" /\ n \in sweep.todo
    \/ sweep.pc # "call" /\ (nodeHealth[n] = 0 \/ n \in sweep.lost)

\* nodeHealth and the results still to write are about ids handed out.
Members ==
    /\ \A n \in members : Fresh(n)
    /\ OnlyKnown(nodeHealth)
    /\ sweep.todo \subseteq known

\* Events wait in the order of the sweeps they report.
QueueInOrder ==
    /\ \A i \in DOMAIN queue : Settled(queue[i].list, queue[i].lost)
    /\ \A i, j \in DOMAIN queue : i < j =>
        /\ Follows(queue[i].summary, queue[j].summary)
        /\ ListFollows(queue[i].list, queue[j].list)

\* What an event brought to the page is no newer than the events that wait.
ViewBeforeQueue ==
    /\ "summary" \notin view.got =>
        \A i \in DOMAIN queue : Follows(view.summary, queue[i].summary)
    /\ "list" \notin view.got =>
        /\ Settled(view.list, view.lost)
        /\ \A i \in DOMAIN queue : ListFollows(view.list, queue[i].list)

PageInv == Page!TypeOK /\ Members /\ QueueInOrder /\ ViewBeforeQueue

LEMMA PageConstants ==
    /\ MaxAge \in Nat \ {0} /\ Cap \in Nat \ {0}
    /\ None \notin Page!Ages /\ None \notin Page!Lists
BY FrontEndAssumption DEF Page!ViewAssumption

\* Everything becomes older by one sweep at the same time, which keeps the order.
LEMMA OlderAge ==
    ASSUME NEW a \in Page!Ages \cup {None}, NEW b \in Page!Ages \cup {None}
    PROVE  /\ Page!Older(a) \in Page!Ages \cup {None}
           /\ Page!Older(a) = None <=> a = None
           /\ Follows(a, b) => Follows(Page!Older(a), Page!Older(b))
BY PageConstants DEF Page!Ages, Page!Older, Follows

LEMMA OlderLists ==
    ASSUME NEW l \in Page!Lists
    PROVE  /\ Page!OlderList(l) \in Page!Lists
           /\ l # None /\ Page!OlderList(l) # None
           /\ \A n \in Nodes : Page!OlderList(l)[n] = Page!Older(l[n])
BY PageConstants, OlderAge DEF Page!Lists, Page!OlderList

LEMMA OlderFollows ==
    ASSUME NEW l \in Page!Lists \cup {None}, NEW m \in Page!Lists \cup {None}, ListFollows(l, m)
    PROVE  ListFollows(Page!OlderList(l), Page!OlderList(m))
<1>1. CASE l = None \/ m = None
  BY <1>1 DEF ListFollows, Page!OlderList
<1>2. CASE l # None /\ m # None
  <2>1. l \in Page!Lists /\ m \in Page!Lists
    BY <1>2
  <2>2. SUFFICES ASSUME NEW n \in Nodes PROVE Follows(Page!OlderList(l)[n], Page!OlderList(m)[n])
    BY DEF ListFollows
  <2>3. l[n] \in Page!Ages \cup {None} /\ m[n] \in Page!Ages \cup {None} /\ Follows(l[n], m[n])
    BY <1>2, <2>1 DEF Page!Lists, ListFollows
  <2> QED
    BY <2>1, <2>3, OlderLists, OlderAge
<1> QED
  BY <1>1, <1>2

LEMMA OlderEvents ==
    ASSUME NEW e \in Events
    PROVE  /\ Page!OlderEvent(e) \in Events
           /\ Page!OlderEvent(e).summary = Page!Older(e.summary)
           /\ Page!OlderEvent(e).list = Page!OlderList(e.list)
           /\ Page!OlderEvent(e).lost = Page!Apart(Page!OlderList(e.list), e.lost)
           /\ e.summary \in Page!Ages \cup {None}
           /\ e.list \in Page!Lists \cup {None}
<1>1. CASE e \in [summary : Page!Ages, list : {None}, lost : {{}}]
  <2>1. Page!OlderEvent(e) = [summary |-> Page!Older(e.summary), list |-> None, lost |-> {}]
    BY <1>1 DEF Page!OlderEvent, Page!OlderList, Page!Apart
  <2>2. Page!Older(e.summary) \in Page!Ages
    BY <1>1, OlderAge, PageConstants
  <2> QED
    BY <1>1, <2>1, <2>2 DEF Events, Page!OlderList, Page!Apart
<1>2. CASE e \in [summary : {None}, list : Page!Lists, lost : SUBSET Nodes]
  <2>1. Page!OlderEvent(e) = [summary |-> None, list |-> Page!OlderList(e.list),
                             lost |-> Page!Apart(Page!OlderList(e.list), e.lost)]
    BY <1>2 DEF Page!OlderEvent, Page!Older
  <2>2. /\ Page!OlderList(e.list) \in Page!Lists
        /\ Page!Apart(Page!OlderList(e.list), e.lost) \in SUBSET Nodes
    BY <1>2, OlderLists DEF Page!Apart
  <2> QED
    BY <1>2, <2>1, <2>2 DEF Events, Page!Older
<1> QED
  BY <1>1, <1>2 DEF Events

\* What the type says of an event that waits.
LEMMA Queued ==
    ASSUME Page!TypeOK, NEW i \in DOMAIN queue
    PROVE  /\ queue[i] \in Events
           /\ queue[i].summary \in Page!Ages \cup {None}
           /\ queue[i].list \in Page!Lists \cup {None}
           /\ queue[i].list = None => queue[i].summary \in Page!Ages
           /\ queue[i].list # None => queue[i].summary = None
           /\ queue[i].lost \in SUBSET Nodes
<1>1. queue[i] \in Events
  BY DEF Page!TypeOK, Events
<1> QED
  BY <1>1, PageConstants DEF Events

LEMMA TypeInit == Page!ViewAssumption /\ Page!Init => Page!TypeOK
<1> SUFFICES ASSUME Page!Init PROVE Page!TypeOK
  OBVIOUS
<1>1. Page!Empty \in Page!Lists
  BY DEF Page!Empty, Page!Lists
<1>2. summary \in Page!Ages
  BY PageConstants DEF Page!Init, Page!Ages
<1>3. Page!NoGet \in [pc : {"off", "asked", "settled"}, summary : Page!Ages \cup {None},
                nodes : {"unread", "reading"}, left : SUBSET Nodes, list : Page!Lists]
  BY <1>1 DEF Page!NoGet
<1>4. Page!NoView \in [summary : Page!Ages \cup {None}, list : Page!Lists \cup {None},
                 lost : SUBSET Nodes, got : SUBSET {"summary", "list"}]
  BY DEF Page!NoView
<1>5. sweep \in SweepType
  BY DEF Page!Init, Page!NoSweep, SweepType
<1>6. queue \in Seq(Events) /\ Len(queue) <= Cap
  BY PageConstants DEF Page!Init
<1> QED
  BY <1>1, <1>2, <1>3, <1>4, <1>5, <1>6 DEF Page!Init, Page!TypeOK, Events, SweepType

\* The invariant holds at first, every step keeps it, and it gives the property.
LEMMA PageInvInit == Page!Init => PageInv
<1> SUFFICES ASSUME Page!Init PROVE PageInv
  OBVIOUS
<1>1. Page!TypeOK
  BY TypeInit, FrontEndAssumption
<1>2. Members
  BY DEF Page!Init, Members, Fresh, Page!At, Page!NoSweep, Page!Empty, OnlyKnown
<1>3. QueueInOrder
  BY DEF Page!Init, QueueInOrder
<1>4. ViewBeforeQueue
  BY DEF Page!Init, ViewBeforeQueue, Page!NoView, Settled
<1> QED
  BY <1>1, <1>2, <1>3, <1>4 DEF PageInv

\* A step that leaves the queue, the view and what they are compared with alone.
LEMMA SameView ==
    ASSUME PageInv, UNCHANGED <<members, known, nodeHealth, queue, view>>
    PROVE  QueueInOrder' /\ ViewBeforeQueue'
BY DEF PageInv, QueueInOrder, ViewBeforeQueue, Settled, OneSweep, OnlyKnown, ListFollows,
       Follows

GetType == [pc : {"off", "asked", "settled"}, summary : Page!Ages \cup {None},
            nodes : {"unread", "reading"}, left : SUBSET Nodes, list : Page!Lists]
ViewType == [summary : Page!Ages \cup {None}, list : Page!Lists \cup {None},
             lost : SUBSET Nodes, got : SUBSET {"summary", "list"}]

LEMMA ByType ==
    Page!TypeOK <=> /\ members \subseteq known /\ known \subseteq Nodes
                    /\ nodeHealth \in Page!Lists /\ summary \in Page!Ages
                    /\ sweep \in SweepType
                    /\ connected \in BOOLEAN
                    /\ queue \in Seq(Events) /\ Len(queue) <= Cap
                    /\ get \in GetType /\ view \in ViewType
BY DEF Page!TypeOK, Events, SweepType, GetType, ViewType

LEMMA NothingYet ==
    /\ Page!Empty \in Page!Lists /\ Page!NoGet \in GetType /\ Page!NoView \in ViewType
    /\ Page!NoSweep \in SweepType
    /\ MaxAge \in Page!Ages /\ 0 \in Page!Ages
    /\ <<>> \in Seq(Events) /\ Len(<<>>) <= Cap
<1>1. Page!Empty \in Page!Lists
  BY DEF Page!Empty, Page!Lists
<1>2. MaxAge \in Page!Ages /\ 0 \in Page!Ages
  BY PageConstants DEF Page!Ages
<1>3. <<>> \in Seq(Events) /\ Len(<<>>) <= Cap
  BY PageConstants
<1> QED
  BY <1>1, <1>2, <1>3 DEF Page!NoGet, GetType, Page!NoView, ViewType, Page!NoSweep, SweepType

\* The GETs change nothing but what they have read.
LEMMA GetKeepsType ==
    ASSUME Page!TypeOK, UNCHANGED <<members, known, Page!server, connected, queue, view>>,
           \/ Page!Mount \/ Page!ReadSummary \/ Page!TakeMap \/ Page!GetFails
           \/ \E n \in Nodes : Page!RangeMap(n)
    PROVE  Page!TypeOK'
<1>1. get' \in GetType
  <2>0. get \in GetType /\ nodeHealth \in Page!Lists /\ summary \in Page!Ages
    BY ByType
  <2>1. CASE Page!Mount
    BY <2>1, NothingYet DEF Page!Mount, Page!NoGet, GetType
  <2>2. CASE Page!ReadSummary
    BY <2>0, <2>2 DEF Page!ReadSummary, GetType
  <2>3. CASE Page!TakeMap
    <3>1. get' = [[get EXCEPT !.nodes = "reading"] EXCEPT
                    !.left = {n \in Nodes : nodeHealth[n] # None}]
      BY <2>3 DEF Page!TakeMap
    <3> QED
      BY <2>0, <3>1 DEF GetType
  <2>4. CASE Page!GetFails
    BY <2>4, NothingYet DEF Page!GetFails, Page!NoGet, GetType
  <2>5. ASSUME NEW n \in Nodes, Page!RangeMap(n) PROVE get' \in GetType
    <3>1. get' = [[get EXCEPT !.left = get.left \ {n}] EXCEPT
                    !.list = [get.list EXCEPT ![n] = nodeHealth[n]]]
      BY <2>0, <2>5 DEF Page!RangeMap, GetType
    <3>2. [get.list EXCEPT ![n] = nodeHealth[n]] \in Page!Lists
      BY <2>0 DEF GetType, Page!Lists
    <3> QED
      BY <2>0, <3>1, <3>2 DEF GetType
  <2> QED
    BY <2>1, <2>2, <2>3, <2>4, <2>5
<1> QED
  BY <1>1 DEF Page!TypeOK, GetType, Page!server

LEMMA GetsKeep ==
    ASSUME PageInv, \/ Page!Mount \/ Page!ReadSummary \/ Page!TakeMap \/ Page!GetFails
                    \/ \E n \in Nodes : Page!RangeMap(n)
    PROVE  PageInv'
<1>1. UNCHANGED <<members, known, Page!server, connected, queue, view>>
  BY DEF Page!Mount, Page!ReadSummary, Page!TakeMap, Page!GetFails, Page!RangeMap
<1>2. Page!TypeOK'
  BY <1>1, GetKeepsType DEF PageInv
<1>3. Members'
  BY <1>1 DEF PageInv, Members, Fresh, OnlyKnown, Page!At, Page!server
<1> QED
  BY <1>1, <1>2, <1>3, SameView DEF PageInv, Page!server

LEMMA StartKeeps ==
    ASSUME PageInv, Page!StartSweep PROVE PageInv'
<1>1. Page!TypeOK'
  BY DEF PageInv, Page!TypeOK, Page!StartSweep, Page!tab
<1>2. Members'
  BY DEF PageInv, Page!TypeOK, Members, Fresh, OnlyKnown, Page!At, Page!StartSweep
<1> QED
  BY <1>1, <1>2, SameView DEF PageInv, Page!StartSweep, Page!tab

LEMMA ConnectedKeeps ==
    ASSUME PageInv, Page!Connected PROVE PageInv'
<1>1. Page!TypeOK'
  BY DEF PageInv, Page!TypeOK, Page!Connected, Page!server
<1>2. Members'
  BY DEF PageInv, Members, Fresh, OnlyKnown, Page!At, Page!Connected, Page!server
<1> QED
  BY <1>1, <1>2, SameView DEF PageInv, Page!Connected, Page!server

LEMMA ShowAnswersKeeps ==
    ASSUME PageInv, Page!ShowAnswers PROVE PageInv'
<1>0. get \in GetType
  BY DEF PageInv, Page!TypeOK, GetType
<1>1. view' \in ViewType
  BY <1>0 DEF Page!ShowAnswers, GetType, ViewType
<1>2. get' \in GetType
  BY NothingYet DEF Page!ShowAnswers, Page!NoGet, GetType
<1>3. Page!TypeOK'
  BY <1>1, <1>2 DEF PageInv, Page!TypeOK, Page!ShowAnswers, GetType, ViewType, Page!server
<1>4. Members'
  BY DEF PageInv, Members, Fresh, OnlyKnown, Page!At, Page!ShowAnswers, Page!server
<1>5. QueueInOrder'
  BY DEF PageInv, QueueInOrder, Settled, OneSweep, OnlyKnown, ListFollows, Follows,
         Page!ShowAnswers, Page!server
<1>6. ViewBeforeQueue'
  BY DEF ViewBeforeQueue, Page!ShowAnswers
<1> QED
  BY <1>3, <1>4, <1>5, <1>6 DEF PageInv

\* The stream ends: nothing waits any more.
LEMMA DisconnectedKeeps ==
    ASSUME PageInv, Page!Disconnected PROVE PageInv'
<1>1. Page!TypeOK'
  <2>1. queue' \in Seq(Events) /\ Len(queue') <= Cap
    BY NothingYet DEF Page!Disconnected
  <2> QED
    BY <2>1 DEF PageInv, Page!TypeOK, Events, Page!Disconnected, Page!server
<1>2. Members'
  BY DEF PageInv, Members, Fresh, OnlyKnown, Page!At, Page!Disconnected, Page!server
<1>3. QueueInOrder'
  BY DEF QueueInOrder, Page!Disconnected
<1>4. ViewBeforeQueue'
  BY DEF PageInv, ViewBeforeQueue, Settled, OneSweep, OnlyKnown, ListFollows, Follows,
         Page!Disconnected, Page!server
<1> QED
  BY <1>1, <1>2, <1>3, <1>4 DEF PageInv

LEMMA UnmountKeeps ==
    ASSUME PageInv, Page!Unmount PROVE PageInv'
<1>1. Page!TypeOK'
  <2>1. queue' \in Seq(Events) /\ Len(queue') <= Cap
    BY NothingYet DEF Page!Unmount
  <2> QED
    BY <2>1, NothingYet DEF PageInv, Page!TypeOK, Events, GetType, ViewType,
                            Page!Unmount, Page!server
<1>2. Members'
  BY DEF PageInv, Members, Fresh, OnlyKnown, Page!At, Page!Unmount, Page!server
<1>3. QueueInOrder'
  BY DEF QueueInOrder, Page!Unmount
<1>4. ViewBeforeQueue'
  BY DEF ViewBeforeQueue, Settled, Page!Unmount, Page!NoView
<1> QED
  BY <1>1, <1>2, <1>3, <1>4 DEF PageInv

LEMMA MapFaultKeeps ==
    ASSUME PageInv, Page!MapFault PROVE PageInv'
<1>0. [Page!NoGet EXCEPT !.pc = "settled"] \in GetType
  BY NothingYet DEF Page!NoGet, GetType
<1>1. Page!TypeOK'
  <2>1. queue' \in Seq(Events) /\ Len(queue') <= Cap
    BY NothingYet DEF Page!MapFault
  <2> QED
    BY <1>0, <2>1, NothingYet DEF PageInv, Page!TypeOK, Events, SweepType, GetType, Page!MapFault
<1>2. Members'
  BY DEF PageInv, Page!TypeOK, Members, Fresh, OnlyKnown, Page!At, Page!MapFault,
         Page!NoSweep, Page!Empty
<1>3. QueueInOrder'
  BY DEF QueueInOrder, Page!MapFault
<1>4. ViewBeforeQueue'
  BY DEF PageInv, Page!TypeOK, ViewBeforeQueue, Settled, OneSweep, OnlyKnown,
         ListFollows, Follows,
         Page!MapFault, Page!Empty
<1> QED
  BY <1>1, <1>2, <1>3, <1>4 DEF PageInv

\* Members and node ids come and go; a new one is in no list yet.
LEMMA SettledMembers ==
    ASSUME NEW l, NEW x, Settled(l, x), OnlyKnown(nodeHealth), members \subseteq known, known \subseteq Nodes,
           Page!AddNode \/ Page!RemoveNode
    PROVE  Settled(l, x)'
<1>1. SUFFICES ASSUME l # None
               PROVE  /\ OneSweep(l, x)' /\ OnlyKnown(l)' /\ ListFollows(l, nodeHealth)'
  BY DEF Settled
<1>2. ListFollows(l, nodeHealth)'
  BY DEF Settled, ListFollows, Follows, Page!AddNode, Page!RemoveNode, Page!server
<1>3. OnlyKnown(l)'
  BY <1>1 DEF Settled, OnlyKnown, Page!AddNode, Page!RemoveNode
<1>4. OneSweep(l, x)'
  BY <1>1 DEF Settled, OneSweep, OnlyKnown, Page!AddNode, Page!RemoveNode
<1> QED
  BY <1>2, <1>3, <1>4

LEMMA NodesKeep ==
    ASSUME PageInv, Page!AddNode \/ Page!RemoveNode PROVE PageInv'
<1>1. Page!TypeOK'
  BY DEF PageInv, Page!TypeOK, Page!AddNode, Page!RemoveNode, Page!server, Page!tab
<1>2. Members'
  <2>1. UNCHANGED <<nodeHealth, sweep>> /\ known \subseteq known'
    BY DEF Page!AddNode, Page!RemoveNode, Page!server
  <2>2. ASSUME NEW n \in members' PROVE Fresh(n)'
    <3>1. n \in members \/ n \in Nodes \ known
      BY DEF Page!AddNode, Page!RemoveNode
    <3>2. CASE n \in members
      BY <3>2, <2>1 DEF PageInv, Members, Fresh, Page!At
    <3>3. CASE n \in Nodes \ known
      <4>1. nodeHealth[n] = None
        BY <3>3 DEF PageInv, Members, OnlyKnown
      <4> QED
        BY <4>1, <2>1 DEF PageInv, Page!TypeOK, Fresh, Page!At
    <3> QED
      BY <3>1, <3>2, <3>3
  <2> QED
    BY <2>1, <2>2 DEF PageInv, Members, OnlyKnown
<1>3. UNCHANGED <<nodeHealth, queue, view>>
  BY DEF Page!AddNode, Page!RemoveNode, Page!server, Page!tab
<1>4. \A l, x : Settled(l, x) => Settled(l, x)'
  BY SettledMembers DEF PageInv, Page!TypeOK, Members
<1>5. QueueInOrder'
  BY <1>3, <1>4 DEF PageInv, QueueInOrder, ListFollows, Follows, Settled
<1>6. ViewBeforeQueue'
  BY <1>3, <1>4 DEF PageInv, ViewBeforeQueue, ListFollows, Follows, Settled
<1> QED
  BY <1>1, <1>2, <1>5, <1>6 DEF PageInv

\* A node that its age does not tell apart from the others need not be excepted.
LEMMA ApartSuffices ==
    ASSUME NEW M \in SUBSET Nodes, NEW l, NEW x,
           \A m, n \in M \ x : None \in {l[m], l[n]} \/ l[m] = l[n]
    PROVE  \A m, n \in M \ Page!Apart(l, x) : None \in {l[m], l[n]} \/ l[m] = l[n]
<1>1. SUFFICES ASSUME NEW m \in M \ Page!Apart(l, x), NEW n \in M \ Page!Apart(l, x)
               PROVE  None \in {l[m], l[n]} \/ l[m] = l[n]
  OBVIOUS
<1>2. CASE m \in x \/ n \in x
  BY <1>2 DEF Page!Apart
<1>3. CASE m \notin x /\ n \notin x
  BY <1>3
<1> QED
  BY <1>2, <1>3

\* All that is known becomes one sweep older, and stays in order.
LEMMA SettledOlder ==
    ASSUME Page!TypeOK, Page!BeginWrite, NEW l \in Page!Lists \cup {None}, NEW x, Settled(l, x)
    PROVE  Settled(Page!OlderList(l), Page!Apart(Page!OlderList(l), x))'
<1>1. CASE l = None
  BY <1>1 DEF Settled, Page!OlderList
<1>2. CASE l # None
  <2>0. l \in Page!Lists
    BY <1>2
  <2>1. \A n \in Nodes : l[n] \in Page!Ages \cup {None} /\ Page!OlderList(l)[n] = Page!Older(l[n])
    BY <2>0, OlderLists DEF Page!Lists
  <2>2. members' = members /\ known' = known /\ nodeHealth' = Page!OlderList(nodeHealth)
        /\ members \subseteq Nodes
    BY DEF Page!BeginWrite, Page!TypeOK
  <2>3. OneSweep(Page!OlderList(l), x)'
    <3>1. SUFFICES ASSUME NEW m \in members \ x, NEW n \in members \ x
                   PROVE  \/ None \in {Page!OlderList(l)[m], Page!OlderList(l)[n]}
                          \/ Page!OlderList(l)[m] = Page!OlderList(l)[n]
      BY <2>2 DEF OneSweep
    <3>2. None \in {l[m], l[n]} \/ l[m] = l[n]
      BY <1>2 DEF Settled, OneSweep
    <3> QED
      BY <2>1, <2>2, <3>2, OlderAge
  <2>4. OneSweep(Page!OlderList(l), Page!Apart(Page!OlderList(l), x))'
    BY <2>2, <2>3, ApartSuffices DEF OneSweep
  <2>5. OnlyKnown(Page!OlderList(l))'
    <3>1. SUFFICES ASSUME NEW n \in Nodes, n \notin known
                   PROVE  Page!OlderList(l)[n] = None
      BY <2>2 DEF OnlyKnown
    <3>2. l[n] = None
      BY <1>2, <3>1 DEF Settled, OnlyKnown
    <3> QED
      BY <2>1, <3>2, OlderAge
  <2>6. ListFollows(Page!OlderList(l), Page!OlderList(nodeHealth))
    BY <1>2, OlderFollows DEF Settled, Page!TypeOK
  <2>7. ListFollows(Page!OlderList(l), nodeHealth)'
    BY <2>2, <2>6 DEF ListFollows, Follows
  <2> QED
    BY <2>4, <2>5, <2>7 DEF Settled
<1> QED
  BY <1>1, <1>2

\* A new sweep writes its first result: everything else ages.
LEMMA BeginWriteKeeps ==
    ASSUME PageInv, Page!BeginWrite PROVE PageInv'
<1> USE DEF PageInv
<1>0. /\ members' = members /\ known' = known /\ connected' = connected
      /\ nodeHealth' = Page!OlderList(nodeHealth) /\ summary' = Page!Older(summary)
      /\ sweep.pc = "call" /\ sweep' \in SweepType /\ sweep'.pc = "write"
      /\ \A n \in sweep.todo :
            n \in sweep'.todo \/ n \in sweep'.lost \/ nodeHealth[n] = None
      /\ sweep'.todo \subseteq sweep.todo
      /\ queue' = [i \in DOMAIN queue |-> Page!OlderEvent(queue[i])]
  BY DEF Page!BeginWrite, Page!At, Page!TypeOK, SweepType
<1>1. /\ queue' \in Seq(Events) /\ DOMAIN queue' = DOMAIN queue /\ Len(queue') <= Cap
      /\ \A i \in DOMAIN queue : /\ queue'[i].summary = Page!Older(queue[i].summary)
                                 /\ queue'[i].list = Page!OlderList(queue[i].list)
                                 /\ queue'[i].lost = Page!Apart(queue'[i].list, queue[i].lost)
  <2>1. DOMAIN queue = 1..Len(queue) /\ Len(queue) \in Nat /\ Len(queue) <= Cap
    BY DEF Page!TypeOK
  <2>2. \A i \in DOMAIN queue : /\ Page!OlderEvent(queue[i]) \in Events
                               /\ Page!OlderEvent(queue[i]).summary = Page!Older(queue[i].summary)
                               /\ Page!OlderEvent(queue[i]).list = Page!OlderList(queue[i].list)
                               /\ Page!OlderEvent(queue[i]).lost =
                                    Page!Apart(Page!OlderList(queue[i].list), queue[i].lost)
    BY Queued, OlderEvents
  <2>3. queue' \in Seq(Events)
    BY <1>0, <2>1, <2>2
  <2>4. Len(queue') = Len(queue)
    BY <1>0, <2>1, <2>3
  <2> QED
    BY <1>0, <2>1, <2>2, <2>3, <2>4
<1>2. /\ view' \in ViewType
      /\ view'.summary = Page!Older(view.summary)
      /\ view'.list = Page!OlderList(view.list)
      /\ view'.got = view.got /\ view'.lost = Page!Apart(view'.list, view.lost)
  <2>1. view \in ViewType
    BY DEF Page!TypeOK, ViewType
  <2>2. view' = [[[view EXCEPT !.summary = Page!Older(view.summary)] EXCEPT
                    !.list = Page!OlderList(view.list)] EXCEPT
                    !.lost = Page!Apart(Page!OlderList(view.list), view.lost)]
    BY <2>1 DEF Page!BeginWrite, ViewType
  <2>3. /\ Page!Older(view.summary) \in Page!Ages \cup {None}
        /\ Page!OlderList(view.list) \in Page!Lists \cup {None}
        /\ Page!Apart(Page!OlderList(view.list), view.lost) \in SUBSET Nodes
    BY <2>1, OlderAge, OlderLists DEF ViewType, Page!OlderList, Page!Apart
  <2> QED
    BY <2>1, <2>2, <2>3 DEF ViewType
<1>3. get' \in GetType
  <2>1. get \in GetType
    BY DEF Page!TypeOK, GetType
  <2>2. get' = [[get EXCEPT !.summary = Page!Older(get.summary)] EXCEPT
                  !.list = Page!OlderList(get.list)]
    BY <2>1 DEF Page!BeginWrite, GetType
  <2>3. Page!Older(get.summary) \in Page!Ages \cup {None} /\ Page!OlderList(get.list) \in Page!Lists
    BY <2>1, OlderAge, OlderLists DEF GetType
  <2> QED
    BY <2>1, <2>2, <2>3 DEF GetType
<1>4. Page!TypeOK'
  <2>1. Page!OlderList(nodeHealth) \in Page!Lists /\ Page!Older(summary) \in Page!Ages
    BY OlderLists, OlderAge, PageConstants DEF Page!TypeOK
  <2> QED
    BY <1>0, <1>1, <1>2, <1>3, <2>1 DEF Page!TypeOK, Events, SweepType, GetType, ViewType
<1>5. Members'
  <2>1. /\ \A n \in Nodes : nodeHealth'[n] = Page!Older(nodeHealth[n])
        /\ members \subseteq Nodes
        /\ \A n \in Nodes : nodeHealth[n] = None => Page!Older(nodeHealth[n]) = None
    BY <1>0, OlderLists DEF Page!TypeOK, Page!Older
  <2>2. ASSUME NEW n \in members PROVE Fresh(n)'
    BY <1>0, <2>1 DEF Members, Fresh, Page!At
  <2> QED
    BY <1>0, <2>1, <2>2 DEF Members, OnlyKnown
<1>6. QueueInOrder'
  <2>1. ASSUME NEW i \in DOMAIN queue PROVE Settled(queue[i].list, queue[i].lost)'
    <3>1. PICK l \in Page!Lists \cup {None} : l = queue[i].list
      BY Queued
    <3>2. PICK x, y : x = queue[i].lost /\ y = Page!Apart(Page!OlderList(l), x)
      OBVIOUS
    <3>3. Settled(Page!OlderList(l), y)'
      BY <3>1, <3>2, SettledOlder DEF QueueInOrder
    <3> QED
      BY <1>1, <3>1, <3>2, <3>3 DEF Settled, OneSweep, OnlyKnown, ListFollows
  <2>2. ASSUME NEW i \in DOMAIN queue, NEW j \in DOMAIN queue, i < j
        PROVE  /\ Follows(queue'[i].summary, queue'[j].summary)
               /\ ListFollows(queue'[i].list, queue'[j].list)
    <3>1. /\ queue[i].summary \in Page!Ages \cup {None}
          /\ queue[j].summary \in Page!Ages \cup {None}
          /\ queue[i].list \in Page!Lists \cup {None}
          /\ queue[j].list \in Page!Lists \cup {None}
      BY Queued
    <3>2. /\ Follows(queue[i].summary, queue[j].summary)
          /\ ListFollows(queue[i].list, queue[j].list)
      BY <2>2 DEF QueueInOrder
    <3> QED
      BY <1>1, <3>1, <3>2, OlderAge, OlderFollows
  <2> QED
    BY <1>1, <2>1, <2>2 DEF QueueInOrder, ListFollows, Follows
<1>7. ViewBeforeQueue'
  <2>1. view.summary \in Page!Ages \cup {None} /\ view.list \in Page!Lists \cup {None}
    BY DEF Page!TypeOK
  <2>2. ASSUME "summary" \notin view.got, NEW i \in DOMAIN queue
        PROVE  Follows(view'.summary, queue'[i].summary)
    <3>1. queue[i].summary \in Page!Ages \cup {None} /\ Follows(view.summary, queue[i].summary)
      BY <2>2, Queued DEF ViewBeforeQueue
    <3> QED
      BY <1>1, <1>2, <2>1, <3>1, OlderAge
  <2>3. ASSUME "list" \notin view.got PROVE Settled(view.list, view.lost)'
    <3>1. PICK l \in Page!Lists \cup {None} : l = view.list
      BY <2>1
    <3>2. PICK x, y : x = view.lost /\ y = Page!Apart(Page!OlderList(l), x)
      OBVIOUS
    <3>3. Settled(Page!OlderList(l), y)'
      BY <2>3, <3>1, <3>2, SettledOlder DEF ViewBeforeQueue
    <3> QED
      BY <1>2, <3>1, <3>2, <3>3 DEF Settled, OneSweep, OnlyKnown, ListFollows
  <2>4. ASSUME "list" \notin view.got, NEW i \in DOMAIN queue
        PROVE  ListFollows(view'.list, queue'[i].list)
    <3>1. queue[i].list \in Page!Lists \cup {None} /\ ListFollows(view.list, queue[i].list)
      BY <2>4, Queued DEF ViewBeforeQueue
    <3> QED
      BY <1>1, <1>2, <2>1, <3>1, OlderFollows
  <2> QED
    BY <1>1, <1>2, <2>2, <2>3, <2>4 DEF ViewBeforeQueue, ListFollows, Follows
<1> QED
  BY <1>4, <1>5, <1>6, <1>7

\* A result that is written is newer than any that was listed.
LEMMA SettledWritten ==
    ASSUME Page!TypeOK, NEW n \in Nodes, Page!WriteResult(n),
           NEW l \in Page!Lists \cup {None}, NEW x, Settled(l, x)
    PROVE  Settled(l, x)'
<1>1. SUFFICES ASSUME l # None
               PROVE  OneSweep(l, x)' /\ OnlyKnown(l)' /\ ListFollows(l, nodeHealth)'
  BY DEF Settled
<1>2. OneSweep(l, x)' /\ OnlyKnown(l)'
  BY <1>1 DEF Settled, OneSweep, OnlyKnown, Page!WriteResult
<1>3. ASSUME NEW m \in Nodes PROVE Follows(l[m], nodeHealth'[m])
  <2>1. l[m] \in Page!Ages \cup {None} /\ Follows(l[m], nodeHealth[m])
    <3>1. l \in Page!Lists /\ ListFollows(l, nodeHealth) /\ nodeHealth # None
      BY <1>1, PageConstants DEF Settled, Page!TypeOK
    <3> QED
      BY <1>1, <3>1 DEF Page!Lists, ListFollows
  <2>2. nodeHealth'[m] = 0 \/ nodeHealth'[m] = nodeHealth[m]
    BY DEF Page!WriteResult, Page!Write, Page!TypeOK, Page!Lists
  <2>3. CASE nodeHealth'[m] = 0
    BY <2>1, <2>3, PageConstants DEF Follows, Page!Ages
  <2> QED
    BY <2>1, <2>2, <2>3
<1> QED
  BY <1>2, <1>3 DEF ListFollows

LEMMA WriteResultKeeps ==
    ASSUME PageInv, NEW n \in Nodes, Page!WriteResult(n) PROVE PageInv'
<1> USE DEF PageInv
<1>0. /\ nodeHealth' = [nodeHealth EXCEPT ![n] = 0] /\ nodeHealth \in Page!Lists
      /\ sweep.pc = "write" /\ sweep'.pc = "write" /\ n \in sweep.todo
      /\ sweep'.todo = sweep.todo \ {n} /\ sweep'.lost = sweep.lost
  BY DEF Page!WriteResult, Page!Write, Page!At, Page!TypeOK
<1>1. Page!TypeOK'
  <2>1. [nodeHealth EXCEPT ![n] = 0] \in Page!Lists
    BY <1>0, NothingYet DEF Page!Lists
  <2> QED
    BY <1>0, <2>1 DEF Page!TypeOK, Page!WriteResult, Page!tab
<1>2. Members'
  <2>1. \A m \in Nodes : nodeHealth'[m] = IF m = n THEN 0 ELSE nodeHealth[m]
    BY <1>0 DEF Page!Lists
  <2> QED
    BY <1>0, <2>1 DEF Page!TypeOK, Members, Fresh, Page!At, OnlyKnown, Page!WriteResult
<1>3. \A x : \A l \in Page!Lists \cup {None} : Settled(l, x) => Settled(l, x)'
  BY SettledWritten
<1>4. UNCHANGED <<queue, view>> /\ view.list \in Page!Lists \cup {None}
  BY DEF Page!WriteResult, Page!tab, Page!TypeOK
<1>5. QueueInOrder'
  BY <1>3, <1>4, Queued DEF QueueInOrder, ListFollows, Follows
<1>6. ViewBeforeQueue'
  BY <1>3, <1>4, Queued DEF ViewBeforeQueue, ListFollows, Follows
<1> QED
  BY <1>1, <1>2, <1>5, <1>6

\* What an event that is published must satisfy to keep the queue in order.
LEMMA PublishKeeps ==
    ASSUME Page!TypeOK, QueueInOrder, ViewBeforeQueue, NEW e \in Events, Page!Publish(e),
           UNCHANGED <<members, known, nodeHealth, view>>,
           Settled(e.list, e.lost),
           \A a \in Page!Ages \cup {None} : Follows(a, e.summary),
           \A x : \A l \in Page!Lists \cup {None} : Settled(l, x) => ListFollows(l, e.list)
    PROVE  /\ queue' \in Seq(Events) /\ Len(queue') <= Cap
           /\ QueueInOrder' /\ ViewBeforeQueue'
<1>0. queue \in Seq(Events) /\ Len(queue) \in Nat /\ Len(queue) <= Cap
  BY DEF Page!TypeOK, Events
<1>1. CASE queue' = queue
  BY <1>0, <1>1, PageConstants DEF QueueInOrder, ViewBeforeQueue, Settled, OneSweep,
                                   OnlyKnown,
                 ListFollows, Follows
<1>2. CASE queue' = Append(queue, e) /\ Len(queue) < Cap
  <2>1. /\ queue' \in Seq(Events) /\ Len(queue') = Len(queue) + 1
        /\ DOMAIN queue' = DOMAIN queue \cup {Len(queue) + 1}
        /\ \A i \in DOMAIN queue : queue'[i] = queue[i] /\ i < Len(queue) + 1
        /\ queue'[Len(queue) + 1] = e /\ Len(queue) + 1 \notin DOMAIN queue
    BY <1>0, <1>2
  <2>2. Len(queue') <= Cap
    BY <1>0, <1>2, <2>1, PageConstants
  <2>3. \A l, x : Settled(l, x)' <=> Settled(l, x)
    BY DEF Settled, OneSweep, OnlyKnown, ListFollows
  <2>4. QueueInOrder'
    <3>1. ASSUME NEW i \in DOMAIN queue' PROVE Settled(queue[i].list, queue[i].lost)'
      <4>1. PICK l, x : l = queue'[i].list /\ x = queue'[i].lost
        OBVIOUS
      <4>2. Settled(l, x)
        BY <2>1, <4>1 DEF QueueInOrder
      <4> QED
        BY <2>3, <4>1, <4>2 DEF Settled, OneSweep, OnlyKnown, ListFollows
    <3>2. ASSUME NEW i \in DOMAIN queue', NEW j \in DOMAIN queue', i < j
          PROVE  /\ Follows(queue'[i].summary, queue'[j].summary)
                 /\ ListFollows(queue'[i].list, queue'[j].list)
      <4>1. i \in DOMAIN queue
        BY <1>0, <2>1, <3>2
      <4>2. CASE j \in DOMAIN queue
        BY <2>1, <3>2, <4>1, <4>2 DEF QueueInOrder
      <4>3. CASE j = Len(queue) + 1
        BY <2>1, <4>1, <4>3, Queued DEF QueueInOrder
      <4> QED
        BY <2>1, <4>2, <4>3
    <3> QED
      BY <3>1, <3>2 DEF QueueInOrder, ListFollows, Follows
  <2>5. ViewBeforeQueue'
    <3>0. view' = view /\ view.summary \in Page!Ages \cup {None} /\ view.list \in Page!Lists \cup {None}
      BY DEF Page!TypeOK
    <3>1. ASSUME "summary" \notin view.got, NEW i \in DOMAIN queue'
          PROVE  Follows(view.summary, queue'[i].summary)
      BY <2>1, <3>0, <3>1 DEF ViewBeforeQueue
    <3>2. ASSUME "list" \notin view.got
          PROVE  /\ Settled(view.list, view.lost)'
                 /\ \A i \in DOMAIN queue' : ListFollows(view.list, queue'[i].list)
      BY <2>1, <2>3, <3>0, <3>2 DEF ViewBeforeQueue
    <3> QED
      BY <3>0, <3>1, <3>2 DEF ViewBeforeQueue, ListFollows, Follows
  <2> QED
    BY <2>1, <2>2, <2>4, <2>5
<1> QED
  BY <1>1, <1>2 DEF Page!Publish, Page!Room

LEMMA PublishSummaryKeeps ==
    ASSUME PageInv, Page!PublishSummary PROVE PageInv'
<1> USE DEF PageInv
<1> DEFINE e == [summary |-> 0, list |-> None, lost |-> {}]
<1>1. e \in Events /\ e.list = None /\ e.summary = 0
  BY NothingYet DEF Events
<1>2. Page!Publish(e) /\ UNCHANGED <<members, known, nodeHealth, view>>
  BY DEF Page!PublishSummary
<1>3. \A a \in Page!Ages \cup {None} : Follows(a, e.summary)
  BY <1>1, PageConstants DEF Follows, Page!Ages
<1>4. /\ queue' \in Seq(Events) /\ Len(queue') <= Cap
      /\ QueueInOrder' /\ ViewBeforeQueue'
  <2> HIDE DEF e
  <2> QED
    BY <1>1, <1>2, <1>3, PublishKeeps DEF Settled, ListFollows
<1>5. Page!TypeOK'
  BY <1>4, NothingYet DEF Page!TypeOK, Page!PublishSummary, Events
<1>6. Members'
  BY DEF Page!TypeOK, Members, Fresh, Page!At, OnlyKnown, Page!PublishSummary
<1> QED
  BY <1>4, <1>5, <1>6

LEMMA PublishListKeeps ==
    ASSUME PageInv, Page!PublishList PROVE PageInv'
<1> USE DEF PageInv
<1> DEFINE e == [summary |-> None, list |-> nodeHealth, lost |-> sweep.lost]
<1>1. e \in Events /\ e.list = nodeHealth /\ e.summary = None /\ e.lost = sweep.lost
  BY DEF Events, Page!TypeOK
<1>2. Page!Publish(e) /\ UNCHANGED <<members, known, nodeHealth, view>>
  BY DEF Page!PublishList
<1>3. \A a \in Page!Ages \cup {None} : Follows(a, e.summary)
  BY <1>1 DEF Follows
<1>4. Settled(nodeHealth, sweep.lost)
  <2>1. OneSweep(nodeHealth, sweep.lost)
    BY DEF Page!PublishList, Page!At, Members, Fresh, OneSweep
  <2>2. ListFollows(nodeHealth, nodeHealth)
    BY DEF ListFollows, Follows, Page!TypeOK, Page!Lists, Page!Ages
  <2> QED
    BY <2>1, <2>2 DEF Settled, Members
<1>5. \A x : \A l \in Page!Lists \cup {None} : Settled(l, x) => ListFollows(l, nodeHealth)
  BY DEF Settled, ListFollows
<1>6. /\ queue' \in Seq(Events) /\ Len(queue') <= Cap
      /\ QueueInOrder' /\ ViewBeforeQueue'
  <2> HIDE DEF e
  <2> QED
    BY <1>1, <1>2, <1>3, <1>4, <1>5, PublishKeeps
<1>7. Page!TypeOK'
  BY <1>6, NothingYet DEF Page!TypeOK, Page!PublishList, Events
<1>8. Members'
  BY DEF Page!TypeOK, Members, Fresh, Page!At, OnlyKnown, Page!PublishList, Page!NoSweep
<1> QED
  BY <1>6, <1>7, <1>8

\* The first event leaves the queue.
LEMMA Delivered ==
    ASSUME Page!TypeOK, Page!Deliver
    PROVE  /\ 1 \in DOMAIN queue
           /\ queue' \in Seq(Events) /\ Len(queue') <= Cap
           /\ \A i \in DOMAIN queue' : /\ i + 1 \in DOMAIN queue /\ 1 < i + 1
                                       /\ queue'[i] = queue[i + 1]
<1>0. queue \in Seq(Events) /\ Len(queue) \in Nat \ {0} /\ Len(queue) <= Cap
  BY DEF Page!TypeOK, Events, Page!Deliver
<1>1. queue' = [i \in 1..(Len(queue) - 1) |-> queue[i + 1]]
  <2>1. ASSUME NEW i \in 1..(Len(queue) - 1) PROVE ~(i < Page!NextEvent)
    BY <1>0 DEF Page!NextEvent
  <2> QED
    BY <2>1 DEF Page!Deliver
<1>2. ASSUME NEW i \in 1..(Len(queue) - 1) PROVE queue[i + 1] \in Events
  BY <1>0
<1>3. queue' \in Seq(Events) /\ Len(queue') = Len(queue) - 1
  BY <1>0, <1>1, <1>2
<1> QED
  BY <1>0, <1>1, <1>3, PageConstants

LEMMA DeliverKeeps ==
    ASSUME PageInv, Page!Deliver PROVE PageInv'
<1> USE DEF PageInv
<1>0. /\ UNCHANGED <<members, known, nodeHealth, summary, sweep, connected, get>>
      /\ view \in ViewType
  BY DEF Page!Deliver, Page!server, Page!TypeOK, ViewType
<1>1. view' = Page!Show(queue[1])
  BY DEF Page!Deliver, Page!NextEvent
<1>2. \/ /\ view'.summary = queue[1].summary /\ view'.list = view.list
         /\ view'.got = view.got \ {"summary"} /\ view'.lost = view.lost
      \/ /\ view'.summary = view.summary /\ view'.list = queue[1].list
         /\ view'.got = view.got \ {"list"} /\ view'.lost = queue[1].lost
  <2>1. CASE queue[1].list = None
    <3>1. view' = [[view EXCEPT !.summary = queue[1].summary] EXCEPT
                     !.got = view.got \ {"summary"}]
      BY <1>0, <1>1, <2>1 DEF Page!Show, ViewType
    <3> QED
      BY <1>0, <3>1 DEF ViewType
  <2>2. CASE queue[1].list # None
    <3>1. view' = [[[view EXCEPT !.list = queue[1].list] EXCEPT
                     !.lost = queue[1].lost] EXCEPT !.got = view.got \ {"list"}]
      BY <1>0, <1>1, <2>2 DEF Page!Show, ViewType
    <3> QED
      BY <1>0, <3>1 DEF ViewType
  <2> QED
    BY <2>1, <2>2
<1>3. view' \in ViewType
  <2>1. /\ queue[1].summary \in Page!Ages \cup {None} /\ queue[1].list \in Page!Lists \cup {None}
        /\ queue[1].lost \in SUBSET Nodes
    BY Queued, Delivered
  <2>2. CASE queue[1].list = None
    BY <1>0, <1>1, <2>1, <2>2 DEF Page!Show, ViewType
  <2>3. CASE queue[1].list # None
    BY <1>0, <1>1, <2>1, <2>3 DEF Page!Show, ViewType
  <2> QED
    BY <2>2, <2>3
<1>4. Page!TypeOK'
  BY <1>0, <1>3, Delivered DEF Page!TypeOK, Events, GetType, ViewType
<1>5. Members'
  BY <1>0 DEF Members, Fresh, Page!At, OnlyKnown
<1>6. \A l, x : Settled(l, x)' <=> Settled(l, x)
  BY <1>0 DEF Settled, OneSweep, OnlyKnown, ListFollows
<1>7. QueueInOrder'
  <2>1. ASSUME NEW i \in DOMAIN queue' PROVE Settled(queue[i].list, queue[i].lost)'
    <3>1. PICK l, x : l = queue'[i].list /\ x = queue'[i].lost
      OBVIOUS
    <3>2. Settled(l, x)
      BY <3>1, Delivered DEF QueueInOrder
    <3>3. Settled(l, x)'
      BY <1>6, <3>2
    <3> QED
      BY <3>1, <3>3 DEF Settled, OneSweep, OnlyKnown, ListFollows
  <2>2. ASSUME NEW i \in DOMAIN queue', NEW j \in DOMAIN queue', i < j
        PROVE  /\ Follows(queue'[i].summary, queue'[j].summary)
               /\ ListFollows(queue'[i].list, queue'[j].list)
    <3>1. i \in Nat /\ j \in Nat
      BY Delivered
    <3>2. i + 1 < j + 1
      BY <2>2, <3>1
    <3> QED
      BY <3>2, Delivered DEF QueueInOrder
  <2> QED
    BY <2>1, <2>2 DEF QueueInOrder, ListFollows, Follows
<1>8. ViewBeforeQueue'
  <2>1. ASSUME "summary" \notin view'.got, NEW i \in DOMAIN queue'
        PROVE  Follows(view'.summary, queue'[i].summary)
    <3>1. /\ i + 1 \in DOMAIN queue /\ 1 < i + 1 /\ 1 \in DOMAIN queue
          /\ queue'[i] = queue[i + 1]
      BY Delivered
    <3>2. Follows(queue[1].summary, queue[i + 1].summary)
      BY <3>1 DEF QueueInOrder
    <3>3. "summary" \notin view.got => Follows(view.summary, queue[i + 1].summary)
      BY <3>1 DEF ViewBeforeQueue
    <3> QED
      BY <1>2, <2>1, <3>1, <3>2, <3>3
  <2>2. ASSUME "list" \notin view'.got PROVE Settled(view.list, view.lost)'
    <3>1. PICK l, x : l = view'.list /\ x = view'.lost
      OBVIOUS
    <3>2. Settled(l, x)
      BY <1>2, <2>2, <3>1, Delivered DEF QueueInOrder, ViewBeforeQueue
    <3>3. Settled(l, x)'
      BY <1>6, <3>2
    <3> QED
      BY <3>1, <3>3 DEF Settled, OneSweep, OnlyKnown, ListFollows
  <2>3. ASSUME "list" \notin view'.got, NEW i \in DOMAIN queue'
        PROVE  ListFollows(view'.list, queue'[i].list)
    <3>1. /\ i + 1 \in DOMAIN queue /\ 1 < i + 1 /\ 1 \in DOMAIN queue
          /\ queue'[i] = queue[i + 1]
      BY Delivered
    <3>2. ListFollows(queue[1].list, queue[i + 1].list)
      BY <3>1 DEF QueueInOrder
    <3>3. "list" \notin view.got => ListFollows(view.list, queue[i + 1].list)
      BY <3>1 DEF ViewBeforeQueue
    <3> QED
      BY <1>2, <2>3, <3>1, <3>2, <3>3
  <2> QED
    BY <2>1, <2>2, <2>3 DEF ViewBeforeQueue, ListFollows, Follows
<1> QED
  BY <1>4, <1>5, <1>7, <1>8

LEMMA Stutter ==
    ASSUME PageInv, UNCHANGED Page!vars PROVE PageInv'
<1>1. Page!TypeOK' /\ Members'
  BY DEF PageInv, Page!TypeOK, Members, Fresh, OnlyKnown, Page!At, Page!vars,
         Page!server, Page!tab
<1> QED
  BY <1>1, SameView DEF PageInv, Page!vars, Page!server, Page!tab

LEMMA PageInvNext == PageInv /\ [Page!Next]_(Page!vars) => PageInv'
<1> SUFFICES ASSUME PageInv, [Page!Next]_(Page!vars) PROVE PageInv'
  OBVIOUS
<1>1. CASE Page!Next
  BY <1>1, StartKeeps, BeginWriteKeeps, PublishSummaryKeeps, PublishListKeeps,
     WriteResultKeeps,
     GetsKeep, UnmountKeeps, ShowAnswersKeeps, ConnectedKeeps, DisconnectedKeeps,
     DeliverKeeps,
     NodesKeep, MapFaultKeeps DEF Page!Next, Page!SweepStep
<1>2. CASE UNCHANGED Page!vars
  BY <1>2, Stutter
<1> QED
  BY <1>1, <1>2

LEMMA PageInvGives == PageInv => Page!HealthSafe
<1> SUFFICES ASSUME PageInv PROVE Page!HealthSafe
  OBVIOUS
<1>1. Page!OldResultsOfRemovedNodes
  BY DEF PageInv, Members, Fresh, Page!At, Page!OldResultsOfRemovedNodes
<1>2. Page!MixedOnlyByGet
  BY DEF PageInv, ViewBeforeQueue, Settled, OneSweep, Page!MixedOnlyByGet
<1> QED
  BY <1>1, <1>2 DEF PageInv, Page!HealthSafe

\* What the action property says of one step.
PageGoesOn ==
    \/ Page!BeginWrite \/ Page!ShowAnswers
    \/ /\ "summary" \in view.got \/ ~Page!OlderThan(view.summary, view'.summary)
       /\ \/ "list" \in view.got \/ view.list = None \/ view'.list = None
          \/ \A n \in Nodes : ~Page!OlderThan(view.list[n], view'.list[n])

\* A step that leaves the view alone or empties it.
LEMMA StaysFollows ==
    ASSUME Page!TypeOK, view' = view \/ view' = Page!NoView PROVE PageGoesOn
<1>1. CASE view' = Page!NoView
  BY <1>1 DEF Page!NoView, PageGoesOn, Page!OlderThan
<1>2. CASE view' = view
  <2>1. view.summary \in Page!Ages \cup {None} /\ view.list \in Page!Lists \cup {None}
    BY DEF Page!TypeOK
  <2>2. ~Page!OlderThan(view.summary, view'.summary)
    BY <1>2, <2>1 DEF Page!OlderThan, Page!Ages
  <2>3. ASSUME view.list # None, NEW n \in Nodes
        PROVE  ~Page!OlderThan(view.list[n], view'.list[n])
    BY <1>2, <2>1, <2>3 DEF Page!Lists, Page!OlderThan, Page!Ages
  <2> QED
    BY <2>2, <2>3 DEF PageGoesOn
<1> QED
  BY <1>1, <1>2

\* An event replaces what a GET brought or what an older event did.
LEMMA DeliverFollows ==
    ASSUME PageInv, Page!Deliver PROVE PageGoesOn
<1>0. /\ 1 \in DOMAIN queue /\ queue[1].summary \in Page!Ages \cup {None}
      /\ queue[1].list \in Page!Lists \cup {None} /\ view \in ViewType
      /\ view' = Page!Show(queue[1])
  BY Delivered, Queued DEF PageInv, Page!TypeOK, ViewType, Page!Deliver, Page!NextEvent
<1>1. CASE queue[1].list = None
  <2>1. view' = [[view EXCEPT !.summary = queue[1].summary] EXCEPT
                   !.got = view.got \ {"summary"}]
    BY <1>0, <1>1 DEF Page!Show, ViewType
  <2>2. view'.summary = queue[1].summary /\ view'.list = view.list
    BY <1>0, <2>1 DEF ViewType
  <2>3. "summary" \in view.got \/ ~Page!OlderThan(view.summary, view'.summary)
    BY <1>0, <2>2 DEF PageInv, ViewBeforeQueue, Follows, Page!OlderThan, Page!Ages,
                      ViewType
  <2>4. ASSUME view.list # None, NEW n \in Nodes
        PROVE  ~Page!OlderThan(view.list[n], view'.list[n])
    BY <1>0, <2>2, <2>4 DEF ViewType, Page!Lists, Page!OlderThan, Page!Ages
  <2> QED
    BY <2>3, <2>4 DEF PageGoesOn
<1>2. CASE queue[1].list # None
  <2>1. view' = [[[view EXCEPT !.list = queue[1].list] EXCEPT
                   !.lost = queue[1].lost] EXCEPT !.got = view.got \ {"list"}]
    BY <1>0, <1>2 DEF Page!Show, ViewType
  <2>2. view'.summary = view.summary /\ view'.list = queue[1].list
    BY <1>0, <2>1 DEF ViewType
  <2>3. ~Page!OlderThan(view.summary, view'.summary)
    BY <1>0, <2>2 DEF Page!OlderThan, Page!Ages, ViewType
  <2>4. ASSUME "list" \notin view.got, view.list # None, NEW n \in Nodes
        PROVE  ~Page!OlderThan(view.list[n], view'.list[n])
    <3>1. Follows(view.list[n], view'.list[n])
      BY <1>0, <1>2, <2>2, <2>4 DEF PageInv, ViewBeforeQueue, ListFollows
    <3>2. view.list[n] \in Page!Ages \cup {None} /\ view'.list[n] \in Page!Ages \cup {None}
      BY <1>0, <1>2, <2>2, <2>4 DEF ViewType, Page!Lists
    <3> QED
      BY <3>1, <3>2 DEF Follows, Page!OlderThan, Page!Ages
  <2> QED
    BY <2>3, <2>4 DEF PageGoesOn
<1> QED
  BY <1>1, <1>2

\* The steps that may show something older are the new sweep, by which
\* everything ages, and the answers of the first GETs.
LEMMA StepGoesOn == PageInv /\ [Page!Next]_(Page!vars) => PageGoesOn
<1> SUFFICES ASSUME PageInv, [Page!Next]_(Page!vars) PROVE PageGoesOn
  OBVIOUS
<1>1. \/ Page!BeginWrite \/ Page!ShowAnswers \/ Page!Deliver \/ view' = view \/ view' = Page!NoView
  BY DEF Page!Next, Page!SweepStep, Page!StartSweep, Page!PublishSummary,
         Page!PublishList, Page!WriteResult, Page!Mount, Page!Unmount,
         Page!ReadSummary, Page!TakeMap, Page!GetFails, Page!RangeMap, Page!Connected,
         Page!Disconnected, Page!AddNode, Page!RemoveNode,
         Page!MapFault, Page!vars, Page!tab
<1> QED
  BY <1>1, DeliverFollows, StaysFollows DEF PageGoesOn, PageInv

\* Between sweeps every member has the result of the last sweep, or none, or one
\* that a panic of its worker kept that sweep from replacing; and what the page
\* shows of other members mixes sweeps only where a GET read the map while the
\* loop wrote to it (healthservice/service.go, client.go, useClusterHealth.ts).
THEOREM ViewSafe == Page!Spec => []Page!HealthSafe
BY PageInvInit, PageInvNext, PageInvGives, PTL DEF Page!Spec

\* What the page shows goes back to an older sweep only by the answer of one of
\* its first GETs (useClusterHealth.ts).
THEOREM ViewGoesOn == Page!Spec => Page!GoesBackOnlyAtFirstGet
<1>1. PageInv /\ [Page!Next]_(Page!vars) => [PageGoesOn]_(Page!vars)
  BY StepGoesOn
<1> QED
  BY <1>1, PageInvInit, PageInvNext, PTL DEF Page!Spec, Page!GoesBackOnlyAtFirstGet,
     PageGoesOn

-----------------------------------------------------------------------------
(* The dialog of a node.                                                   *)

\* The dialog's name for IsFiniteSet means the same.
LEMMA SameFinite == \A S : Dialog!IsFiniteSet(S) <=> IsFiniteSet(S)
BY DEF Dialog!IsFiniteSet, IsFiniteSet

\* What a save of these fields asks for, or a test before it tries.
Result(stored, original, fields) ==
    IF original = None THEN Dialog!Config(Dialog!Parse(fields.url), fields.password)
    ELSE Dialog!Merge(stored, original, fields)

\* The Pi-hole accepts that.
Works(stored, original, fields) ==
    LET c == Result(stored, original, fields)
    IN <<c.address, c.password>> \in Accepts

IsOpen == form.mode # "closed"

\* The flags of the form are true of its history.
FormOK ==
    /\ ~IsOpen => form = Dialog!Closed
    /\ form.mode = "edit" <=> form.original # None
    /\ form.lastOK => passed # None /\ Dialog!Key(passed) = form.lastKey
    /\ form.allowSaveAnyway => failed

\* A click under way belongs to the node the open dialog was opened for.
RunsOK ==
    \A c \in Dialog!Clicks : run[c].at # "idle" =>
        /\ run[c].original \in Addresses \cup {None}
        /\ run[c].fields.url # Dialog!NoText
        /\ IsOpen => run[c].original = form.original
        /\ run[c].at \in {"node", "secret"} => run[c].original # None
        /\ run[c].at = "saving" => run[c].basis \in {"tested", "blanks", "untested"}

\* The records have their fields.
Shape ==
    /\ DOMAIN form = {"mode", "original", "fields", "lastKey", "lastOK", "allowSaveAnyway"}
    /\ DOMAIN run = Dialog!Clicks
    /\ \A c \in Dialog!Clicks : DOMAIN run[c] = {"at", "fields", "original", "cfg", "basis"}

\* Nobody has changed the node since the dialog was opened.
Undisturbed == others = 0 /\ saved = "nothing"

\* How far the test of a click has come, and what it tested.
RunWorks(c) ==
    /\ run[c].at = "secret" => run[c].cfg.address = row.address
    /\ run[c].at = "login" /\ run[c].original # None =>
            run[c].cfg = Dialog!Merge(row, run[c].original, run[c].fields)
    /\ run[c].at \in {"logout", "ok"} => Works(row, run[c].original, run[c].fields)
    /\ run[c].at = "saving" /\ run[c].basis = "tested" =>
            Works(row, run[c].original, run[c].fields)

\* As long as nobody has changed the node, a passed test means that a save of
\* what was tested works.
TestsTrue ==
    Undisturbed =>
        /\ \A c \in Dialog!Clicks : RunWorks(c)
        /\ IsOpen /\ passed # None => Works(row, form.original, passed)

LoggingOut == {c \in Dialog!Clicks : run[c].at = "logout"}

\* Every session open at a Pi-hole is one that its test will close, or one that
\* a lost answer left there.
SessionsCounted ==
    /\ Cardinality(LoggingOut) <= open
    /\ open <= faults + Cardinality(LoggingOut)

DialogInv ==
    /\ Dialog!TypeOK /\ Shape /\ FormOK /\ RunsOK /\ Dialog!SavedAfterTest
    /\ TestsTrue /\ Dialog!TestedNodeWorks
    /\ SessionsCounted

LEMMA DialogConstants ==
    /\ \A a \in Addresses : a.scheme \in {"http", "https"} /\ a.port \in Nat
    /\ \A a \in Addresses : a = [scheme |-> a.scheme, host |-> a.host, port |-> a.port]
    /\ Blank \in Passwords /\ Trim \in [Passwords -> Passwords]
    /\ \A p \in Passwords : Trim[Trim[p]] = Trim[p]
    /\ Contents \subseteq Addresses \X Passwords
    /\ Accepts \subseteq Addresses \X Passwords
    /\ IsFiniteSet(Saves) /\ "test" \notin Saves
    /\ None \notin Addresses /\ None \notin Dialog!AnyFields /\ MaxTroubles \in Nat
BY FrontEndAssumption, SameFinite DEF Dialog!FormAssumption

\* What parsePiholeUrl makes of a text.
LEMMA PartsOfParse ==
    ASSUME NEW t
    PROVE  \E scheme, host, port :
             /\ Dialog!Parse(t) = [scheme |-> scheme, host |-> host, port |-> port]
             /\ scheme \in {"http", "https"}
             /\ t.prefix \in {"", "http://", "https://"} => host = t.host
             /\ t.prefix \in {"http", "https"} => host = <<t.prefix, t.host[2]>>
             /\ t.port = None => port \in Nat
             /\ t.port # None => port = t.port
<1>1. PICK scheme : scheme = IF t.prefix = "https://" THEN "https" ELSE "http"
  OBVIOUS
<1>2. PICK host : host = IF t.prefix \in {"http://", "https://"} \/ t.prefix = ""
                         THEN t.host ELSE <<t.prefix, t.host[2]>>
  OBVIOUS
<1>3. PICK port : port = IF t.port = None THEN Dialog!DefaultPort(scheme) ELSE t.port
  OBVIOUS
<1>4. Dialog!Parse(t) = [scheme |-> scheme, host |-> host, port |-> port]
  BY <1>1, <1>2, <1>3 DEF Dialog!Parse
<1>5. t.port = None => port \in Nat
  BY <1>3 DEF Dialog!DefaultPort
<1>6. scheme \in {"http", "https"}
  BY <1>1
<1>7. t.prefix \in {"", "http://", "https://"} => host = t.host
  BY <1>2
<1>8. t.prefix \in {"http", "https"} => host = <<t.prefix, t.host[2]>>
  BY <1>2
<1>9. t.port # None => port = t.port
  BY <1>3
<1> QED
  BY <1>4, <1>5, <1>6, <1>7, <1>8, <1>9

\* Whatever the form may show is parsed to an address, with a host that was
\* typed or one made of a scheme and a host.
LEMMA ParsedFields ==
    ASSUME NEW f \in Dialog!AnyFields, f.url # Dialog!NoText
    PROVE  Dialog!Parse(f.url) \in Dialog!AnyAddress /\ f.password \in Passwords
<1>0. PICK scheme, host, port :
        /\ Dialog!Parse(f.url) = [scheme |-> scheme, host |-> host, port |-> port]
        /\ scheme \in {"http", "https"}
        /\ f.url.prefix \in {"", "http://", "https://"} => host = f.url.host
        /\ f.url.prefix \in {"http", "https"} => host = <<f.url.prefix, f.url.host[2]>>
        /\ f.url.port = None => port \in Nat
        /\ f.url.port # None => port = f.url.port
  BY PartsOfParse
<1>a. /\ Dialog!Parse(f.url) = [scheme |-> scheme, host |-> host, port |-> port]
      /\ scheme \in {"http", "https"}
  BY <1>0
<1>1. CASE f \in Dialog!Inputs
  <2>1. PICK c \in Contents : f = Dialog!Fields(Dialog!Typed(c[1]), c[2])
    BY <1>1 DEF Dialog!Inputs
  <2>2. c[1] \in Addresses /\ c[2] \in Passwords
    BY DialogConstants
  <2>3. /\ f.url.prefix \in {"http://", "https://"} /\ f.url.host = c[1].host
        /\ f.url.port = c[1].port /\ f.password = c[2]
    BY <2>1 DEF Dialog!Fields, Dialog!Typed, Dialog!Text
  <2>4. c[1].port \in Nat /\ c[1].host \in Dialog!Hosts
    BY <2>2, DialogConstants DEF Dialog!Hosts
  <2>5. host \in Dialog!Hosts
    BY <1>0, <2>3, <2>4
  <2>6. port \in Nat
    BY <1>0, <2>3, <2>4
  <2> QED
    BY <1>a, <2>2, <2>3, <2>5, <2>6 DEF Dialog!AnyAddress
<1>2. ASSUME NEW a \in Addresses, NEW p \in Passwords, f = Dialog!Fields(Dialog!Format(a), p)
      PROVE  Dialog!Parse(f.url) \in Dialog!AnyAddress /\ f.password \in Passwords
  <2>1. /\ f.url.prefix \in {"", "http", "https"} /\ f.url.host = a.host
        /\ f.url.port \in {None, a.port} /\ f.password = p
    BY <1>2, DialogConstants DEF Dialog!Fields, Dialog!Format, Dialog!Text
  <2>2. a.port \in Nat /\ a.host \in Dialog!Hosts
    BY DialogConstants DEF Dialog!Hosts
  <2>3. host \in Dialog!Hosts \cup {<<"http", h[2]>> : h \in Dialog!Hosts}
                     \cup {<<"https", h[2]>> : h \in Dialog!Hosts}
    BY <1>0, <2>1, <2>2
  <2>4. port \in Nat
    BY <1>0, <2>1, <2>2
  <2> QED
    <3>1. [scheme |-> scheme, host |-> host, port |-> port] \in Dialog!AnyAddress
      BY <1>a, <2>3, <2>4 DEF Dialog!AnyAddress
    <3> QED
      BY <1>a, <2>1, <3>1
<1> QED
  BY <1>1, <1>2 DEF Dialog!AnyFields, Dialog!Fields

\* What a patch makes of a stored node is a node.
LEMMA Merged ==
    ASSUME NEW stored \in [address : Dialog!AnyAddress, password : Passwords],
           NEW original, NEW f \in Dialog!AnyFields, f.url # Dialog!NoText
    PROVE  Dialog!Merge(stored, original, f) \in [address : Dialog!AnyAddress, password : Passwords]
<1>1. Dialog!Parse(f.url) \in Dialog!AnyAddress /\ f.password \in Passwords
  BY ParsedFields
<1>2. stored.address \in Dialog!AnyAddress /\ stored.password \in Passwords
  OBVIOUS
<1> QED
  BY <1>1, <1>2 DEF Dialog!Merge, Dialog!Config, Dialog!AnyAddress

\* A test is of what a save would store, as long as nobody changes the row.
LEMMA MergeOfRow ==
    ASSUME NEW a, NEW stored, NEW original, NEW f, a = stored.address
    PROVE  Dialog!Merge(Dialog!Config(a, stored.password), original, f)
             = Dialog!Merge(stored, original, f)
<1>1. Dialog!Config(a, stored.password).address = stored.address
      /\ Dialog!Config(a, stored.password).password = stored.password
  BY DEF Dialog!Config
<1> QED
  BY <1>1 DEF Dialog!Merge

\* What the store makes of a node's password.
RowsType == [address : Dialog!AnyAddress, password : {p \in Passwords : Trim[p] = p}]

LEMMA StoredTyped ==
    ASSUME NEW node \in [address : Dialog!AnyAddress, password : Passwords]
    PROVE  Dialog!Stored(node) \in RowsType
<1>1. Dialog!Stored(node) = [address |-> node.address, password |-> Trim[node.password]]
  BY DEF Dialog!Stored
<1>2. node.address \in Dialog!AnyAddress /\ node.password \in Passwords
  OBVIOUS
<1>3. Trim[node.password] \in {p \in Passwords : Trim[p] = p}
  BY <1>2, DialogConstants
<1> QED
  BY <1>1, <1>2, <1>3 DEF RowsType

\* The node of a configuration that a Pi-hole accepts.
LEMMA AddressTyped ==
    ASSUME NEW c \in Accepts
    PROVE  /\ c[1] \in Addresses /\ c[2] \in Passwords
           /\ Dialog!Config(c[1], c[2]) \in [address : Dialog!AnyAddress, password : Passwords]
           /\ Dialog!Stored(Dialog!Config(c[1], c[2])) \in RowsType
<1>1. c[1] \in Addresses /\ c[2] \in Passwords
  BY DialogConstants
<1>2. c[1].host \in Dialog!Hosts
  BY <1>1 DEF Dialog!Hosts
<1>3. c[1] \in Dialog!AnyAddress
  BY <1>1, <1>2, DialogConstants DEF Dialog!AnyAddress
<1>4. Dialog!Config(c[1], c[2]) \in [address : Dialog!AnyAddress, password : Passwords]
  BY <1>1, <1>3 DEF Dialog!Config
<1> QED
  BY <1>1, <1>4, StoredTyped

\* TypeOK, part by part.
RowType == row = None \/ row \in RowsType
FormType ==
    /\ form.mode \in {"closed", "create", "edit"} /\ form.fields \in Dialog!AnyFields
    /\ form.original \in Addresses \cup {None}
RunTypes ==
    \A c \in Dialog!Clicks :
        /\ run[c].at \in {"idle", "node", "secret", "login", "logout", "ok", "error", "saving"}
        /\ run[c].fields \in Dialog!AnyFields
HistoryType ==
    /\ passed = None \/ passed \in Dialog!AnyFields
    /\ failed \in BOOLEAN
    /\ saved \in {"nothing", "tested", "trimmed", "blanks", "untested", "again"}
CountersType ==
    /\ open \in Nat /\ others \in 0..MaxTroubles /\ faults \in 0..MaxTroubles

LEMMA TypeParts ==
    Dialog!TypeOK <=> RowType /\ FormType /\ RunTypes /\ HistoryType /\ CountersType
BY DEF Dialog!TypeOK, RowType, RowsType, FormType, RunTypes, HistoryType, CountersType

LEMMA TypePartsNext ==
    (Dialog!TypeOK <=> RowType /\ FormType /\ RunTypes /\ HistoryType /\ CountersType)'
BY TypeParts, PTL

\* The invariant holds at first.
LEMMA DialogInvInit == Dialog!Init => DialogInv
<1> SUFFICES ASSUME Dialog!Init PROVE DialogInv
  OBVIOUS
<1>1. \A c \in Dialog!Clicks : run[c] = Dialog!NoRun /\ run[c].at = "idle"
                       /\ run[c].fields = Dialog!Fields(Dialog!NoText, Blank)
  BY DEF Dialog!Init, Dialog!NoRun
<1>2. row = None \/ row \in RowsType
  BY AddressTyped DEF Dialog!Init, Dialog!Rows
<1>3. Dialog!TypeOK
  <2>1. Dialog!Fields(Dialog!NoText, Blank) \in Dialog!AnyFields
    BY DEF Dialog!AnyFields
  <2>2. FormType
    BY <2>1 DEF Dialog!Init, Dialog!Closed, FormType
  <2>3. RunTypes
    BY <1>1, <2>1 DEF RunTypes
  <2>4. HistoryType
    BY DEF Dialog!Init, HistoryType
  <2>5. CountersType
    BY DialogConstants DEF Dialog!Init, CountersType
  <2> QED
    BY <1>2, <2>2, <2>3, <2>4, <2>5, TypeParts DEF RowType
<1>4. FormOK
  BY DEF Dialog!Init, FormOK, IsOpen, Dialog!Closed
<1>8. Shape
  BY DEF Dialog!Init, Shape, Dialog!Closed, Dialog!NoRun
<1>5. RunsOK /\ Dialog!SavedAfterTest /\ TestsTrue
  BY <1>1 DEF Dialog!Init, RunsOK, Dialog!SavedAfterTest, TestsTrue, RunWorks, IsOpen,
              Dialog!Closed, Dialog!Clicks
<1>6. Dialog!TestedNodeWorks
  BY DEF Dialog!Init, Dialog!TestedNodeWorks
<1>7. SessionsCounted
  <2>1. LoggingOut = {}
    BY <1>1 DEF LoggingOut
  <2> QED
    BY <2>1, FS_EmptySet DEF Dialog!Init, SessionsCounted
<1> QED
  BY <1>3, <1>4, <1>5, <1>6, <1>7, <1>8 DEF DialogInv

AtValues == {"idle", "node", "secret", "login", "logout", "ok", "error", "saving"}

\* What has to be shown of a click that moves on while the form and the row stay.
LEMMA OneRun ==
    ASSUME DialogInv, NEW c \in Dialog!Clicks, DOMAIN run' = Dialog!Clicks,
           \A d \in Dialog!Clicks \ {c} : run'[d] = run[d],
           DOMAIN run'[c] = {"at", "fields", "original", "cfg", "basis"},
           UNCHANGED <<row, form, passed, failed, saved, others>>,
           run'[c].at \in AtValues, run'[c].fields \in Dialog!AnyFields,
           run'[c].at # "idle" =>
                /\ run'[c].original \in Addresses \cup {None}
                /\ run'[c].fields.url # Dialog!NoText
                /\ IsOpen => run'[c].original = form.original
                /\ run'[c].at \in {"node", "secret"} => run'[c].original # None,
           run'[c].at = "saving" =>
                /\ run'[c].basis \in {"tested", "blanks", "untested"}
                /\ \/ failed
                   \/ run'[c].basis = "tested"
                   \/ run'[c].basis = "blanks" /\ run'[c].original # None,
           Undisturbed => RunWorks(c)'
    PROVE  /\ RowType' /\ FormType' /\ RunTypes' /\ HistoryType'
           /\ Shape' /\ FormOK' /\ RunsOK' /\ Dialog!SavedAfterTest' /\ TestsTrue'
           /\ Dialog!TestedNodeWorks'
<1> USE DEF DialogInv
<1>1. RowType' /\ FormType' /\ HistoryType'
  BY TypeParts DEF RowType, FormType, HistoryType
<1>2. RunTypes'
  BY TypeParts DEF RunTypes, AtValues
<1>3. Shape'
  BY DEF Shape
<1>4. FormOK' /\ Dialog!TestedNodeWorks'
  BY DEF FormOK, IsOpen, Dialog!TestedNodeWorks
<1>5. RunsOK'
  BY DEF RunsOK, IsOpen
<1>6. Dialog!SavedAfterTest'
  <2>1. ASSUME NEW d \in Saves, run'[d].at = "saving"
        PROVE  \/ failed
               \/ run'[d].basis = "tested"
               \/ run'[d].basis = "blanks" /\ run'[d].original # None
    <3>1. CASE d = c
      BY <2>1, <3>1
    <3>2. CASE d # c
      <4>1. d \in Dialog!Clicks \ {c}
        BY <3>2 DEF Dialog!Clicks
      <4>2. run'[d] = run[d]
        BY <4>1
      <4> QED
        BY <2>1, <4>2 DEF Dialog!SavedAfterTest
    <3> QED
      BY <3>1, <3>2
  <2> QED
    BY <2>1 DEF Dialog!SavedAfterTest
<1>7. TestsTrue'
  <2>1. ASSUME Undisturbed, NEW d \in Dialog!Clicks PROVE RunWorks(d)'
    <3>1. CASE d = c
      BY <2>1, <3>1
    <3>2. CASE d # c
      BY <2>1, <3>2 DEF TestsTrue, RunWorks
    <3> QED
      BY <3>1, <3>2
  <2> QED
    BY <2>1 DEF TestsTrue, Undisturbed, IsOpen
<1> QED
  BY <1>1, <1>2, <1>3, <1>4, <1>5, <1>6, <1>7

\* A step that opens and closes no session.
LEMMA CountKept ==
    ASSUME DialogInv, UNCHANGED <<open, faults>>, others' \in 0..MaxTroubles,
           \A d \in Dialog!Clicks : run'[d].at = "logout" <=> run[d].at = "logout"
    PROVE  CountersType' /\ SessionsCounted'
<1>1. LoggingOut' = LoggingOut
  BY DEF LoggingOut
<1>2. CountersType'
  BY TypeParts DEF DialogInv, CountersType
<1> QED
  BY <1>1, <1>2 DEF DialogInv, SessionsCounted

LEMMA Together ==
    ASSUME RowType', FormType', RunTypes', HistoryType', CountersType', Shape', FormOK', RunsOK',
           Dialog!SavedAfterTest', TestsTrue', Dialog!TestedNodeWorks', SessionsCounted'
    PROVE  DialogInv'
BY TypePartsNext DEF DialogInv

LEMMA OpenDialogKeeps ==
    ASSUME DialogInv, Dialog!OpenDialog PROVE DialogInv'
<1> USE DEF DialogInv
<1>0. /\ \A c \in Dialog!Clicks : run[c].at = "idle"
      /\ UNCHANGED <<row, run, open, faults>>
      /\ passed' = None /\ failed' = FALSE /\ saved' = "nothing" /\ others' = 0
  BY DEF Dialog!OpenDialog
<1>1. /\ form'.mode \in {"create", "edit"} /\ form'.original \in Addresses \cup {None}
      /\ form'.lastOK = FALSE /\ form'.allowSaveAnyway = FALSE
      /\ (form'.mode = "edit" <=> form'.original # None)
      /\ form'.fields \in Dialog!AnyFields
  <2>0. Dialog!Fields(Dialog!NoText, Blank) \in Dialog!AnyFields
    BY DEF Dialog!AnyFields
  <2>1. CASE row = None
    <3>1. form' = [mode |-> "create", original |-> None, fields |-> Dialog!Fields(Dialog!NoText, Blank),
                   lastKey |-> None, lastOK |-> FALSE, allowSaveAnyway |-> FALSE]
      BY <2>1 DEF Dialog!OpenDialog, Dialog!Closed
    <3> QED
      BY <2>0, <3>1
  <2>2. CASE row # None
    <3>1. row.address \in Addresses
      BY <2>2 DEF Dialog!OpenDialog
    <3>2. form' = [Dialog!Closed EXCEPT !.mode = "edit", !.original = row.address,
                                 !.fields.url = Dialog!Format(row.address)]
      BY <2>2 DEF Dialog!OpenDialog
    <3>3. form' = [mode |-> "edit", original |-> row.address,
                   fields |-> [Dialog!Fields(Dialog!NoText, Blank)
                                 EXCEPT !.url = Dialog!Format(row.address)],
                   lastKey |-> None, lastOK |-> FALSE, allowSaveAnyway |-> FALSE]
      BY <3>2 DEF Dialog!Closed
    <3>4. [Dialog!Fields(Dialog!NoText, Blank) EXCEPT !.url = Dialog!Format(row.address)]
            = Dialog!Fields(Dialog!Format(row.address), Blank)
      BY DEF Dialog!Fields
    <3>5. Dialog!Fields(Dialog!Format(row.address), Blank) \in Dialog!AnyFields
      BY <3>1, DialogConstants DEF Dialog!AnyFields
    <3> QED
      BY <3>1, <3>3, <3>4, <3>5, DialogConstants
  <2> QED
    BY <2>1, <2>2
<1>2. Shape'
  <2>1. DOMAIN form' = DOMAIN Dialog!Closed
    BY DEF Dialog!OpenDialog
  <2> QED
    BY <1>0, <2>1 DEF Shape, Dialog!Closed
<1>3. RowType' /\ FormType' /\ RunTypes'
  BY <1>0, <1>1, TypeParts DEF RowType, FormType, RunTypes
<1>4. HistoryType'
  BY <1>0 DEF HistoryType
<1>5. FormOK'
  BY <1>1 DEF FormOK, IsOpen
<1>6. RunsOK' /\ Dialog!SavedAfterTest' /\ TestsTrue'
  BY <1>0 DEF RunsOK, Dialog!SavedAfterTest, TestsTrue, RunWorks, Dialog!Clicks
<1>7. Dialog!TestedNodeWorks'
  BY <1>0 DEF Dialog!TestedNodeWorks
<1>8. CountersType' /\ SessionsCounted'
  BY <1>0, DialogConstants, CountKept
<1> QED
  BY <1>2, <1>3, <1>4, <1>5, <1>6, <1>7, <1>8, Together

LEMMA CancelKeeps ==
    ASSUME DialogInv, Dialog!Cancel PROVE DialogInv'
<1> USE DEF DialogInv
<1>0. /\ UNCHANGED <<row, run, open, others, faults, passed, failed, saved>>
      /\ form' = Dialog!Closed /\ IsOpen
  BY DEF Dialog!Cancel, Dialog!Still, IsOpen
<1>1. Shape'
  BY <1>0 DEF Shape, Dialog!Closed
<1>2. /\ Dialog!Closed.fields \in Dialog!AnyFields
      /\ Dialog!Closed.mode = "closed" /\ Dialog!Closed.original = None
      /\ Dialog!Closed.lastOK = FALSE /\ Dialog!Closed.allowSaveAnyway = FALSE
  BY DEF Dialog!Closed, Dialog!AnyFields
<1>3. RowType' /\ FormType' /\ RunTypes' /\ HistoryType'
  BY <1>0, <1>2, TypeParts DEF RowType, FormType, RunTypes, HistoryType
<1>4. FormOK'
  BY <1>0, <1>2 DEF FormOK, IsOpen
<1>5. RunsOK' /\ Dialog!SavedAfterTest' /\ TestsTrue' /\ Dialog!TestedNodeWorks'
  BY <1>0, <1>2 DEF RunsOK, Dialog!SavedAfterTest, TestsTrue, RunWorks, Undisturbed,
                    Dialog!TestedNodeWorks, IsOpen
<1>6. CountersType' /\ SessionsCounted'
  BY <1>0, CountKept, TypeParts DEF CountersType
<1> QED
  BY <1>1, <1>3, <1>4, <1>5, <1>6, Together

LEMMA TypeKeeps ==
    ASSUME DialogInv, Dialog!Type PROVE DialogInv'
<1> USE DEF DialogInv
<1>0. /\ UNCHANGED <<row, run, open, others, faults, passed, failed, saved>>
      /\ IsOpen
  BY DEF Dialog!Type, Dialog!Still, IsOpen
<1>1. PICK f \in Dialog!AnyFields : form' = [form EXCEPT !.fields = f]
  <2>1. ASSUME form.mode = "edit", NEW p \in Passwords
        PROVE  Dialog!Fields(Dialog!Format(form.original), p) \in Dialog!AnyFields
    BY <2>1, TypeParts DEF FormOK, FormType, Dialog!AnyFields
  <2> QED
    BY <2>1 DEF Dialog!Type, Dialog!AnyFields
<1>2. Shape' /\ form'.fields = f /\ form'.mode = form.mode /\ form'.original = form.original
      /\ form'.lastKey = form.lastKey /\ form'.lastOK = form.lastOK
      /\ form'.allowSaveAnyway = form.allowSaveAnyway
  BY <1>0, <1>1 DEF Shape
<1>3. RowType' /\ FormType' /\ RunTypes' /\ HistoryType'
  BY <1>0, <1>2, TypeParts DEF RowType, FormType, RunTypes, HistoryType
<1>4. FormOK'
  BY <1>0, <1>2 DEF FormOK, IsOpen
<1>5. RunsOK' /\ Dialog!SavedAfterTest' /\ TestsTrue' /\ Dialog!TestedNodeWorks'
  BY <1>0, <1>2 DEF RunsOK, Dialog!SavedAfterTest, TestsTrue, RunWorks, Undisturbed,
                    Dialog!TestedNodeWorks, IsOpen
<1>6. CountersType' /\ SessionsCounted'
  BY <1>0, CountKept, TypeParts DEF CountersType
<1> QED
  BY <1>2, <1>3, <1>4, <1>5, <1>6, Together

\* What a click on Test or Save starts, and what it takes along.
LEMMA Starts ==
    ASSUME DialogInv, NEW c \in Dialog!Clicks, NEW at \in {Dialog!TestPoint, "saving"},
           IsOpen, Dialog!Filled, run[c].at = "idle", Dialog!Start(c, at),
           at = "saving" => c \in Saves /\ (Dialog!NeedsRetest => form.allowSaveAnyway),
           UNCHANGED <<row, form, open, passed, failed, saved, others, faults>>
    PROVE  DialogInv'
<1> USE DEF DialogInv
<1> DEFINE basis == IF at = "saving" THEN Dialog!Basis ELSE None
<1>1. run' = [run EXCEPT ![c] = [at |-> at, fields |-> form.fields, original |-> form.original,
                                 cfg |-> None, basis |-> basis]]
  BY DEF Dialog!Start
<1> HIDE DEF basis
<1>2. DOMAIN run = Dialog!Clicks
  BY DEF Shape
<1>3. /\ DOMAIN run' = Dialog!Clicks /\ \A d \in Dialog!Clicks \ {c} : run'[d] = run[d]
      /\ run'[c] = [at |-> at, fields |-> form.fields, original |-> form.original,
                   cfg |-> None, basis |-> basis]
  BY <1>1, <1>2
<1>4. /\ DOMAIN run'[c] = {"at", "fields", "original", "cfg", "basis"}
      /\ run'[c].at = at /\ run'[c].fields = form.fields
      /\ run'[c].original = form.original
      /\ run'[c].cfg = None /\ run'[c].basis = basis
  BY <1>3
<1>5. /\ form.fields \in Dialog!AnyFields /\ form.fields.url # Dialog!NoText
      /\ form.original \in Addresses \cup {None}
  BY TypeParts DEF FormType, Dialog!Filled
<1>6. at \in {"login", "node", "saving"} /\ (at = "node" => form.original # None)
  BY TypeParts DEF Dialog!TestPoint, FormOK, FormType, IsOpen
<1>7. at = "saving" =>
        /\ basis \in {"tested", "blanks", "untested"}
        /\ basis = "tested" => passed # None /\ passed = form.fields
        /\ failed \/ basis = "tested" \/ (basis = "blanks" /\ form.original # None)
  <2>1. at = "saving" => basis = Dialog!Basis
    BY DEF basis
  <2>2. /\ Dialog!Basis \in {"tested", "blanks", "untested"}
        /\ Dialog!Basis = "tested" => passed # None /\ passed = form.fields
    BY DEF Dialog!Basis
  <2>3. ASSUME at = "saving", ~failed
        PROVE  Dialog!Basis \in {"tested", "blanks"} /\ form.original # None
    <3>1. ~form.allowSaveAnyway
      BY <2>3 DEF FormOK
    <3>2. form.mode # "create" /\ Dialog!Key(form.fields) = form.lastKey /\ form.lastOK
      BY <2>3, <3>1 DEF Dialog!NeedsRetest
    <3>3. passed # None /\ Dialog!Key(passed) = Dialog!Key(form.fields)
      BY <3>2 DEF FormOK
    <3> QED
      BY <3>2, <3>3, TypeParts DEF Dialog!Basis, FormOK, FormType, IsOpen
  <2>4. CASE at # "saving"
    BY <2>4
  <2>5. CASE at = "saving"
    BY <2>1, <2>2, <2>3, <2>5
  <2> QED
    BY <2>4, <2>5
<1>8. Undisturbed => RunWorks(c)'
  <2>1. Undisturbed /\ at = "saving" /\ basis = "tested" => Works(row, form.original, form.fields)
    BY <1>7 DEF TestsTrue
  <2>2. at = "login" => form.original = None
    BY <1>6, TypeParts DEF Dialog!TestPoint, FormOK, FormType, IsOpen
  <2> QED
    BY <1>4, <1>6, <2>1, <2>2 DEF RunWorks
<1>9. /\ RowType' /\ FormType' /\ RunTypes' /\ HistoryType'
      /\ Shape' /\ FormOK' /\ RunsOK' /\ Dialog!SavedAfterTest' /\ TestsTrue'
      /\ Dialog!TestedNodeWorks'
  BY <1>3, <1>4, <1>5, <1>6, <1>7, <1>8, OneRun DEF AtValues
<1>10. CountersType' /\ SessionsCounted'
  BY <1>3, <1>4, <1>6, CountKept, TypeParts DEF CountersType
<1> QED
  BY <1>9, <1>10, Together

LEMMA ClickTestKeeps ==
    ASSUME DialogInv, Dialog!ClickTest PROVE DialogInv'
<1>1. /\ "test" \in Dialog!Clicks /\ Dialog!TestPoint \in {Dialog!TestPoint, "saving"}
      /\ Dialog!TestPoint # "saving"
      /\ IsOpen /\ Dialog!Filled /\ run["test"].at = "idle"
      /\ Dialog!Start("test", Dialog!TestPoint)
      /\ UNCHANGED <<row, form, open, passed, failed, saved, others, faults>>
  BY DEF Dialog!ClickTest, Dialog!Still, Dialog!Clicks, IsOpen, Dialog!TestPoint
<1> QED
  BY <1>1, Starts

LEMMA ClickSaveKeeps ==
    ASSUME DialogInv, NEW c \in Saves, Dialog!ClickSave(c) PROVE DialogInv'
<1>1. PICK at : at = IF Dialog!NeedsRetest /\ ~form.allowSaveAnyway
                      THEN Dialog!TestPoint ELSE "saving"
  OBVIOUS
<1>2. Dialog!TestPoint # "saving"
  BY DEF Dialog!TestPoint
<1>3. /\ c \in Dialog!Clicks /\ at \in {Dialog!TestPoint, "saving"}
      /\ IsOpen /\ Dialog!Filled /\ run[c].at = "idle" /\ Dialog!Start(c, at)
      /\ at = "saving" => c \in Saves /\ (Dialog!NeedsRetest => form.allowSaveAnyway)
      /\ UNCHANGED <<row, form, open, passed, failed, saved, others, faults>>
  BY <1>1, <1>2 DEF Dialog!ClickSave, Dialog!Still, Dialog!Clicks, IsOpen
<1> QED
  BY <1>3, Starts

LEMMA Active ==
    ASSUME DialogInv, NEW c \in Dialog!Clicks, run[c].at # "idle"
    PROVE  /\ run[c].original \in Addresses \cup {None} /\ run[c].fields \in Dialog!AnyFields
           /\ run[c].fields.url # Dialog!NoText
           /\ IsOpen => run[c].original = form.original
           /\ run[c].at \in {"node", "secret"} => run[c].original # None
           /\ run[c].at = "saving" => run[c].basis \in {"tested", "blanks", "untested"}
BY TypeParts DEF DialogInv, RunsOK, RunTypes

\* The test's client is replaced; the click keeps what it took from the form.
LEMMA Moved ==
    ASSUME Shape, NEW c \in Dialog!Clicks, NEW at, NEW cfg,
           run' = [run EXCEPT ![c].at = at, ![c].cfg = cfg]
    PROVE  /\ DOMAIN run' = Dialog!Clicks /\ \A d \in Dialog!Clicks \ {c} : run'[d] = run[d]
           /\ DOMAIN run'[c] = {"at", "fields", "original", "cfg", "basis"}
           /\ run'[c].at = at /\ run'[c].cfg = cfg /\ run'[c].fields = run[c].fields
           /\ run'[c].original = run[c].original /\ run'[c].basis = run[c].basis
BY DEF Shape

LEMMA ReadNodeKeeps ==
    ASSUME DialogInv, NEW c \in Dialog!Clicks, Dialog!ReadNode(c) PROVE DialogInv'
<1>1. /\ run[c].at = "node"
      /\ run' = [run EXCEPT ![c].at = "secret", ![c].cfg = Dialog!Config(row.address, Blank)]
      /\ UNCHANGED <<row, form, open, passed, failed, saved, others, faults>>
  BY DEF Dialog!ReadNode, Dialog!Still
<1>2. /\ DOMAIN run' = Dialog!Clicks /\ \A d \in Dialog!Clicks \ {c} : run'[d] = run[d]
      /\ DOMAIN run'[c] = {"at", "fields", "original", "cfg", "basis"}
      /\ run'[c].at = "secret" /\ run'[c].cfg = Dialog!Config(row.address, Blank)
      /\ run'[c].fields = run[c].fields
      /\ run'[c].original = run[c].original /\ run'[c].basis = run[c].basis
  BY <1>1, Moved DEF DialogInv
<1>3. run'[c].cfg.address = row.address
  BY <1>2 DEF Dialog!Config
<1>4. RunWorks(c)'
  BY <1>1, <1>2, <1>3 DEF RunWorks
<1>5. /\ RowType' /\ FormType' /\ RunTypes' /\ HistoryType'
      /\ Shape' /\ FormOK' /\ RunsOK' /\ Dialog!SavedAfterTest' /\ TestsTrue'
      /\ Dialog!TestedNodeWorks'
  BY <1>1, <1>2, <1>4, OneRun, Active DEF AtValues
<1>6. CountersType' /\ SessionsCounted'
  BY <1>1, <1>2, CountKept, TypeParts DEF DialogInv, CountersType
<1> QED
  BY <1>5, <1>6, Together

LEMMA ReadSecretKeeps ==
    ASSUME DialogInv, NEW c \in Dialog!Clicks, Dialog!ReadSecret(c) PROVE DialogInv'
<1> DEFINE merged == Dialog!Merge(Dialog!Config(run[c].cfg.address, row.password),
                                  run[c].original, run[c].fields)
<1>1. /\ run[c].at = "secret" /\ run' = [run EXCEPT ![c].at = "login", ![c].cfg = merged]
      /\ UNCHANGED <<row, form, open, passed, failed, saved, others, faults>>
  BY DEF Dialog!ReadSecret, Dialog!Still
<1>2. Undisturbed => merged = Dialog!Merge(row, run[c].original, run[c].fields)
  BY <1>1, MergeOfRow DEF DialogInv, TestsTrue, RunWorks
<1> HIDE DEF merged
<1>3. /\ DOMAIN run' = Dialog!Clicks /\ \A d \in Dialog!Clicks \ {c} : run'[d] = run[d]
      /\ DOMAIN run'[c] = {"at", "fields", "original", "cfg", "basis"}
      /\ run'[c].at = "login" /\ run'[c].cfg = merged /\ run'[c].fields = run[c].fields
      /\ run'[c].original = run[c].original /\ run'[c].basis = run[c].basis
  BY <1>1, Moved DEF DialogInv
<1>4. Undisturbed => RunWorks(c)'
  BY <1>1, <1>2, <1>3 DEF RunWorks
<1>5. /\ RowType' /\ FormType' /\ RunTypes' /\ HistoryType'
      /\ Shape' /\ FormOK' /\ RunsOK' /\ Dialog!SavedAfterTest' /\ TestsTrue'
      /\ Dialog!TestedNodeWorks'
  BY <1>1, <1>3, <1>4, OneRun, Active DEF AtValues
<1>6. CountersType' /\ SessionsCounted'
  BY <1>1, <1>3, CountKept, TypeParts DEF DialogInv, CountersType
<1> QED
  BY <1>5, <1>6, Together

\* What is tested is what a save would store.
LEMMA TestedIsResult ==
    ASSUME DialogInv, Undisturbed, NEW c \in Dialog!Clicks, run[c].at = "login"
    PROVE  Dialog!Accepted(c) <=> Works(row, run[c].original, run[c].fields)
<1>1. Dialog!Tested(c) = Result(row, run[c].original, run[c].fields)
  <2>1. CASE run[c].original = None
    BY <2>1 DEF Dialog!Tested, Result
  <2>2. CASE run[c].original # None
    BY <2>2 DEF Dialog!Tested, Result, DialogInv, TestsTrue, RunWorks
  <2> QED
    BY <2>1, <2>2
<1> QED
  BY <1>1 DEF Dialog!Accepted, Works

\* A step of a test from login to logout or to an error, and on to ok.
LEMMA DialogGoesOn ==
    ASSUME DialogInv, NEW c \in Dialog!Clicks, NEW at \in {"logout", "error", "ok"}, Dialog!Goes(c, at),
           run[c].at # "idle",
           UNCHANGED <<row, form, passed, failed, saved, others>>,
           Undisturbed /\ at \in {"logout", "ok"} => Works(row, run[c].original, run[c].fields)
    PROVE  /\ RowType' /\ FormType' /\ RunTypes' /\ HistoryType'
           /\ Shape' /\ FormOK' /\ RunsOK' /\ Dialog!SavedAfterTest' /\ TestsTrue'
           /\ Dialog!TestedNodeWorks'
           /\ \A d \in Dialog!Clicks \ {c} : run'[d] = run[d]
           /\ run'[c].at = at
<1>1. run' = [run EXCEPT ![c].at = at, ![c].cfg = None]
  BY DEF Dialog!Goes
<1>2. /\ DOMAIN run' = Dialog!Clicks /\ \A d \in Dialog!Clicks \ {c} : run'[d] = run[d]
      /\ DOMAIN run'[c] = {"at", "fields", "original", "cfg", "basis"}
      /\ run'[c].at = at /\ run'[c].cfg = None /\ run'[c].fields = run[c].fields
      /\ run'[c].original = run[c].original /\ run'[c].basis = run[c].basis
  BY <1>1, Moved DEF DialogInv
<1>3. Undisturbed => RunWorks(c)'
  BY <1>2 DEF RunWorks
<1> QED
  BY <1>2, <1>3, OneRun, Active DEF AtValues

LEMMA FiniteClicks == IsFiniteSet(Dialog!Clicks)
<1>1. IsFiniteSet({"test"})
  BY FS_Singleton
<1> QED
  BY <1>1, DialogConstants, FS_Union DEF Dialog!Clicks

LEMMA LoggingOutFinite ==
    IsFiniteSet(LoggingOut) /\ Cardinality(LoggingOut) \in Nat
BY FiniteClicks, FS_Subset, FS_CardinalityType DEF LoggingOut

LEMMA LoggingOutFiniteNext ==
    (IsFiniteSet(LoggingOut) /\ Cardinality(LoggingOut) \in Nat)'
BY LoggingOutFinite, PTL

LEMMA LoginAcceptedKeeps ==
    ASSUME DialogInv, NEW c \in Dialog!Clicks, Dialog!LoginAccepted(c) PROVE DialogInv'
<1>0. /\ run[c].at = "login" /\ Dialog!Accepted(c) /\ open' = open + 1
      /\ UNCHANGED <<row, form, others, passed, failed, saved>>
  BY DEF Dialog!LoginAccepted
<1>1. open \in Nat /\ others \in 0..MaxTroubles /\ faults \in 0..MaxTroubles
      /\ Cardinality(LoggingOut) <= open /\ open <= faults + Cardinality(LoggingOut)
  BY TypeParts DEF DialogInv, CountersType, SessionsCounted
<1>2. CASE Dialog!Goes(c, "logout") /\ UNCHANGED faults
  <2>1. /\ RowType' /\ FormType' /\ RunTypes' /\ HistoryType'
        /\ Shape' /\ FormOK' /\ RunsOK' /\ Dialog!SavedAfterTest' /\ TestsTrue'
        /\ Dialog!TestedNodeWorks'
        /\ \A d \in Dialog!Clicks \ {c} : run'[d] = run[d]
        /\ run'[c].at = "logout"
    BY <1>0, <1>2, DialogGoesOn, TestedIsResult
  <2>2. LoggingOut' = LoggingOut \cup {c} /\ c \notin LoggingOut
    BY <1>0, <2>1 DEF LoggingOut
  <2>3. Cardinality(LoggingOut') = Cardinality(LoggingOut) + 1
    BY <2>2, LoggingOutFinite, FS_AddElement
  <2>4. CountersType' /\ SessionsCounted'
    BY <1>0, <1>1, <1>2, <2>3, LoggingOutFinite, DialogConstants DEF CountersType,
       SessionsCounted
  <2> QED
    BY <2>1, <2>4, Together
<1>3. CASE Dialog!Goes(c, "error") /\ others + faults < MaxTroubles /\ faults' = faults + 1
  <2>1. /\ RowType' /\ FormType' /\ RunTypes' /\ HistoryType'
        /\ Shape' /\ FormOK' /\ RunsOK' /\ Dialog!SavedAfterTest' /\ TestsTrue'
        /\ Dialog!TestedNodeWorks'
        /\ \A d \in Dialog!Clicks \ {c} : run'[d] = run[d]
        /\ run'[c].at = "error"
    BY <1>0, <1>3, DialogGoesOn
  <2>2. LoggingOut' = LoggingOut
    BY <1>0, <2>1 DEF LoggingOut
  <2>3. CountersType' /\ SessionsCounted'
    BY <1>0, <1>1, <1>3, <2>2, LoggingOutFinite, DialogConstants DEF CountersType,
       SessionsCounted
  <2> QED
    BY <2>1, <2>3, Together
<1> QED
  BY <1>2, <1>3 DEF Dialog!LoginAccepted

LEMMA LoginFailsKeeps ==
    ASSUME DialogInv, NEW c \in Dialog!Clicks, Dialog!LoginFails(c) PROVE DialogInv'
<1>0. /\ run[c].at = "login" /\ (~Dialog!Accepted(c) \/ others + faults < MaxTroubles)
      /\ faults' = (IF Dialog!Accepted(c) THEN faults + 1 ELSE faults)
      /\ Dialog!Goes(c, "error")
      /\ UNCHANGED <<row, form, open, others, passed, failed, saved>>
  BY DEF Dialog!LoginFails
<1>1. open \in Nat /\ others \in 0..MaxTroubles /\ faults \in 0..MaxTroubles
      /\ Cardinality(LoggingOut) <= open /\ open <= faults + Cardinality(LoggingOut)
  BY TypeParts DEF DialogInv, CountersType, SessionsCounted
<1>2. faults' \in {faults, faults + 1} /\ faults' \in 0..MaxTroubles
  <2>1. CASE Dialog!Accepted(c)
    BY <1>0, <1>1, <2>1, DialogConstants
  <2>2. CASE ~Dialog!Accepted(c)
    BY <1>0, <1>1, <2>2
  <2> QED
    BY <2>1, <2>2
<1>3. /\ RowType' /\ FormType' /\ RunTypes' /\ HistoryType'
      /\ Shape' /\ FormOK' /\ RunsOK' /\ Dialog!SavedAfterTest' /\ TestsTrue'
      /\ Dialog!TestedNodeWorks'
      /\ \A d \in Dialog!Clicks \ {c} : run'[d] = run[d]
      /\ run'[c].at = "error"
  BY <1>0, DialogGoesOn
<1>4. LoggingOut' = LoggingOut
  BY <1>0, <1>3 DEF LoggingOut
<1>5. CountersType' /\ SessionsCounted'
  BY <1>0, <1>1, <1>2, <1>4, LoggingOutFinite DEF CountersType, SessionsCounted
<1> QED
  BY <1>3, <1>5, Together

LEMMA DialogLogoutKeeps ==
    ASSUME DialogInv, NEW c \in Dialog!Clicks, Dialog!Logout(c) PROVE DialogInv'
<1>0. /\ run[c].at = "logout" /\ Dialog!Goes(c, "ok")
      /\ UNCHANGED <<row, form, others, passed, failed, saved>>
      /\ \/ open' = open - 1 /\ UNCHANGED faults
         \/ others + faults < MaxTroubles /\ faults' = faults + 1 /\ UNCHANGED open
  BY DEF Dialog!Logout, Dialog!ClosedByLogout
<1>1. open \in Nat /\ others \in 0..MaxTroubles /\ faults \in 0..MaxTroubles
      /\ Cardinality(LoggingOut) <= open /\ open <= faults + Cardinality(LoggingOut)
  BY TypeParts DEF DialogInv, CountersType, SessionsCounted
<1>2. Undisturbed => Works(row, run[c].original, run[c].fields)
  BY <1>0 DEF DialogInv, TestsTrue, RunWorks
<1>3. /\ RowType' /\ FormType' /\ RunTypes' /\ HistoryType'
      /\ Shape' /\ FormOK' /\ RunsOK' /\ Dialog!SavedAfterTest' /\ TestsTrue'
      /\ Dialog!TestedNodeWorks'
      /\ \A d \in Dialog!Clicks \ {c} : run'[d] = run[d]
      /\ run'[c].at = "ok"
  BY <1>0, <1>2, DialogGoesOn
<1>4. LoggingOut' = LoggingOut \ {c} /\ c \in LoggingOut
  BY <1>0, <1>3 DEF LoggingOut
<1>5. Cardinality(LoggingOut') = Cardinality(LoggingOut) - 1
  BY <1>4, LoggingOutFinite, FS_RemoveElement
<1>6. Cardinality(LoggingOut') \in Nat
  BY LoggingOutFiniteNext
<1>7. CountersType' /\ SessionsCounted'
  BY <1>0, <1>1, <1>5, <1>6, LoggingOutFinite, DialogConstants DEF CountersType,
     SessionsCounted
<1> QED
  BY <1>3, <1>7, Together

\* A click that is over, with the form open as it was or closed.
LEMMA Ends ==
    ASSUME DialogInv, NEW c \in Dialog!Clicks, run' = [run EXCEPT ![c] = Dialog!NoRun],
           IsOpen' => IsOpen /\ form'.original = form.original,
           failed => failed'
    PROVE  /\ RunTypes' /\ RunsOK' /\ Dialog!SavedAfterTest'
           /\ DOMAIN run' = Dialog!Clicks
           /\ \A d \in Dialog!Clicks : DOMAIN run'[d] = {"at", "fields", "original", "cfg", "basis"}
           /\ run'[c].at = "idle" /\ \A d \in Dialog!Clicks \ {c} : run'[d] = run[d]
           /\ Undisturbed /\ row' = row => \A d \in Dialog!Clicks : RunWorks(d)'
<1> USE DEF DialogInv
<1>1. /\ DOMAIN run' = Dialog!Clicks /\ run'[c] = Dialog!NoRun
      /\ \A d \in Dialog!Clicks \ {c} : run'[d] = run[d]
  BY DEF Shape
<1>2. /\ run'[c].at = "idle" /\ run'[c].fields \in Dialog!AnyFields
      /\ DOMAIN run'[c] = {"at", "fields", "original", "cfg", "basis"}
  BY <1>1 DEF Dialog!NoRun, Dialog!AnyFields
<1>3. \A d \in Dialog!Clicks : DOMAIN run'[d] = {"at", "fields", "original", "cfg", "basis"}
  BY <1>1, <1>2 DEF Shape
<1>4. RunTypes'
  BY <1>1, <1>2, TypeParts DEF RunTypes
<1>5. RunsOK'
  BY <1>1, <1>2 DEF RunsOK
<1>6. Dialog!SavedAfterTest'
  <2>1. \A d \in Saves : run'[d].at = "saving" => d \in Dialog!Clicks \ {c} /\ run'[d] = run[d]
    BY <1>1, <1>2 DEF Dialog!Clicks
  <2> QED
    BY <2>1 DEF Dialog!SavedAfterTest
<1>7. ASSUME Undisturbed, row' = row, NEW d \in Dialog!Clicks PROVE RunWorks(d)'
  <2>1. CASE d = c
    BY <1>2, <2>1 DEF RunWorks
  <2>2. CASE d # c
    <3>1. run'[d] = run[d]
      BY <1>1, <2>2
    <3> QED
      BY <1>7, <3>1 DEF TestsTrue, RunWorks
  <2> QED
    BY <2>1, <2>2
<1> QED
  BY <1>1, <1>2, <1>3, <1>4, <1>5, <1>6, <1>7

LEMMA SaveFailsKeeps ==
    ASSUME DialogInv, NEW c \in Saves, Dialog!SaveFails(c) PROVE DialogInv'
<1> USE DEF DialogInv
<1>0. /\ c \in Dialog!Clicks /\ run[c].at = "saving" /\ run' = [run EXCEPT ![c] = Dialog!NoRun]
      /\ UNCHANGED <<row, form, open, passed, failed, saved, others, faults>>
  BY DEF Dialog!SaveFails, Dialog!Still, Dialog!Clicks
<1>1. /\ RunTypes' /\ RunsOK' /\ Dialog!SavedAfterTest' /\ DOMAIN run' = Dialog!Clicks
      /\ \A d \in Dialog!Clicks : DOMAIN run'[d] = {"at", "fields", "original", "cfg", "basis"}
      /\ run'[c].at = "idle" /\ \A d \in Dialog!Clicks \ {c} : run'[d] = run[d]
      /\ Undisturbed => \A d \in Dialog!Clicks : RunWorks(d)'
  BY <1>0, Ends DEF IsOpen
<1>2. Shape' /\ FormOK' /\ Dialog!TestedNodeWorks'
  BY <1>0, <1>1 DEF Shape, FormOK, IsOpen, Dialog!TestedNodeWorks
<1>3. RowType' /\ FormType' /\ HistoryType'
  BY <1>0, TypeParts DEF RowType, FormType, HistoryType
<1>4. TestsTrue'
  BY <1>0, <1>1 DEF TestsTrue, Undisturbed, IsOpen
<1>5. CountersType' /\ SessionsCounted'
  BY <1>0, <1>1, CountKept, TypeParts DEF CountersType
<1> QED
  BY <1>1, <1>2, <1>3, <1>4, <1>5, Together

\* What the form remembers of a test.
LEMMA Remembers ==
    ASSUME DialogInv, NEW key, NEW ok \in BOOLEAN, NEW anyway \in BOOLEAN,
           form' = Dialog!InForm([form EXCEPT !.lastKey = key, !.lastOK = ok, !.allowSaveAnyway = anyway])
    PROVE  /\ IsOpen' = IsOpen /\ form'.mode = form.mode /\ form'.original = form.original
           /\ form'.fields = form.fields /\ DOMAIN form' = DOMAIN form
           /\ IsOpen => form'.lastKey = key /\ form'.lastOK = ok /\ form'.allowSaveAnyway = anyway
           /\ ~IsOpen => form' = Dialog!Closed
<1>1. CASE IsOpen
  <2>1. form' = [form EXCEPT !.lastKey = key, !.lastOK = ok, !.allowSaveAnyway = anyway]
    BY <1>1 DEF Dialog!InForm, IsOpen
  <2>2. /\ form'.mode = form.mode /\ form'.original = form.original
        /\ form'.fields = form.fields /\ DOMAIN form' = DOMAIN form
        /\ form'.lastKey = key /\ form'.lastOK = ok /\ form'.allowSaveAnyway = anyway
    BY <2>1 DEF DialogInv, Shape
  <2> QED
    BY <1>1, <2>2 DEF IsOpen
<1>2. CASE ~IsOpen
  BY <1>2 DEF Dialog!InForm, IsOpen, DialogInv, FormOK
<1> QED
  BY <1>1, <1>2

LEMMA TestErrsKeeps ==
    ASSUME DialogInv, NEW c \in Dialog!Clicks, Dialog!TestErrs(c) PROVE DialogInv'
<1> USE DEF DialogInv
<1>0. /\ run[c].at = "error" /\ run' = [run EXCEPT ![c] = Dialog!NoRun] /\ failed' = TRUE
      /\ form' = Dialog!InForm([form EXCEPT !.lastKey = Dialog!Key(run[c].fields), !.lastOK = FALSE,
                                     !.allowSaveAnyway = TRUE])
      /\ UNCHANGED <<row, open, passed, saved, others, faults>>
  BY DEF Dialog!TestErrs, Dialog!Still
<1>1. /\ IsOpen' = IsOpen /\ form'.mode = form.mode /\ form'.original = form.original
      /\ form'.fields = form.fields /\ DOMAIN form' = DOMAIN form
      /\ IsOpen => form'.lastOK = FALSE
      /\ ~IsOpen => form' = Dialog!Closed
  BY <1>0, Remembers
<1>2. /\ RunTypes' /\ RunsOK' /\ Dialog!SavedAfterTest' /\ DOMAIN run' = Dialog!Clicks
      /\ \A d \in Dialog!Clicks : DOMAIN run'[d] = {"at", "fields", "original", "cfg", "basis"}
      /\ run'[c].at = "idle" /\ \A d \in Dialog!Clicks \ {c} : run'[d] = run[d]
      /\ Undisturbed => \A d \in Dialog!Clicks : RunWorks(d)'
  BY <1>0, <1>1, Ends
<1>3. Shape' /\ Dialog!TestedNodeWorks'
  BY <1>0, <1>1, <1>2 DEF Shape, Dialog!TestedNodeWorks
<1>4. FormOK'
  <2>1. ~form'.lastOK
    BY <1>1 DEF Dialog!Closed
  <2> QED
    BY <1>0, <1>1, <2>1 DEF FormOK
<1>5. RowType' /\ FormType' /\ HistoryType'
  BY <1>0, <1>1, TypeParts DEF RowType, FormType, HistoryType
<1>6. TestsTrue'
  BY <1>0, <1>1, <1>2 DEF TestsTrue, Undisturbed
<1>7. CountersType' /\ SessionsCounted'
  BY <1>0, <1>2, CountKept, TypeParts DEF CountersType
<1> QED
  BY <1>2, <1>3, <1>4, <1>5, <1>6, <1>7, Together

LEMMA TestPassesKeeps ==
    ASSUME DialogInv, NEW c \in Dialog!Clicks, Dialog!TestPasses(c) PROVE DialogInv'
<1> USE DEF DialogInv
<1>0. /\ run[c].at = "ok" /\ passed' = run[c].fields
      /\ form' = Dialog!InForm([form EXCEPT !.lastKey = Dialog!Key(run[c].fields), !.lastOK = TRUE,
                                     !.allowSaveAnyway = (c # "test" /\ @)])
      /\ UNCHANGED <<row, open, failed, saved, others, faults>>
  BY DEF Dialog!TestPasses, Dialog!Still
<1>1. /\ IsOpen' = IsOpen /\ form'.mode = form.mode /\ form'.original = form.original
      /\ form'.fields = form.fields /\ DOMAIN form' = DOMAIN form
      /\ IsOpen => form'.lastKey = Dialog!Key(run[c].fields) /\ form'.lastOK = TRUE
      /\ IsOpen /\ form'.allowSaveAnyway => form.allowSaveAnyway
      /\ ~IsOpen => form' = Dialog!Closed
  <2> DEFINE anyway == c # "test" /\ form.allowSaveAnyway
  <2>1. form' = Dialog!InForm([form EXCEPT !.lastKey = Dialog!Key(run[c].fields), !.lastOK = TRUE,
                                    !.allowSaveAnyway = anyway])
    BY <1>0
  <2>2. anyway \in BOOLEAN /\ (anyway => form.allowSaveAnyway)
    OBVIOUS
  <2> HIDE DEF anyway
  <2>3. CASE anyway = TRUE
    BY <2>1, <2>2, <2>3, Remembers
  <2>4. CASE anyway = FALSE
    <3>1. form' = Dialog!InForm([form EXCEPT !.lastKey = Dialog!Key(run[c].fields), !.lastOK = TRUE,
                                      !.allowSaveAnyway = FALSE])
      BY <2>1, <2>4
    <3> QED
      BY <3>1, Remembers
  <2> QED
    BY <2>2, <2>3, <2>4
<1>b. /\ run[c].fields \in Dialog!AnyFields /\ run[c].original \in Addresses \cup {None}
      /\ run[c].fields.url # Dialog!NoText
      /\ IsOpen => run[c].original = form.original
  BY <1>0, Active
<1>c. Undisturbed => Works(row, run[c].original, run[c].fields)
  BY <1>0 DEF TestsTrue, RunWorks
<1>2. /\ RunTypes' /\ RunsOK' /\ Dialog!SavedAfterTest' /\ DOMAIN run' = Dialog!Clicks
      /\ \A d \in Dialog!Clicks : DOMAIN run'[d] = {"at", "fields", "original", "cfg", "basis"}
      /\ run'[c].at \in {"idle", "saving"} /\ \A d \in Dialog!Clicks \ {c} : run'[d] = run[d]
      /\ Undisturbed => \A d \in Dialog!Clicks : RunWorks(d)'
  <2>1. CASE c = "test"
    <3>1. run' = [run EXCEPT ![c] = Dialog!NoRun]
      BY <2>1 DEF Dialog!TestPasses
    <3> QED
      BY <1>0, <1>1, <3>1, Ends
  <2>2. CASE c # "test"
    <3>1. run' = [run EXCEPT ![c] = [@ EXCEPT !.at = "saving", !.basis = "tested"]]
      BY <2>2 DEF Dialog!TestPasses
    <3>2. /\ DOMAIN run' = Dialog!Clicks /\ \A d \in Dialog!Clicks \ {c} : run'[d] = run[d]
          /\ run'[c] = [run[c] EXCEPT !.at = "saving", !.basis = "tested"]
      BY <3>1 DEF Shape
    <3>3. /\ run'[c].at = "saving" /\ run'[c].basis = "tested"
          /\ run'[c].fields = run[c].fields
          /\ run'[c].original = run[c].original
          /\ DOMAIN run'[c] = {"at", "fields", "original", "cfg", "basis"}
      BY <3>2 DEF Shape
    <3>4. RunTypes'
      <4>1. ASSUME NEW d \in Dialog!Clicks
            PROVE  run'[d].at \in AtValues /\ run'[d].fields \in Dialog!AnyFields
        <5>1. CASE d = c
          BY <1>b, <3>3, <5>1 DEF AtValues
        <5>2. CASE d # c
          BY <3>2, <5>2, TypeParts DEF RunTypes, AtValues
        <5> QED
          BY <5>1, <5>2
      <4> QED
        BY <4>1 DEF RunTypes, AtValues
    <3>5. RunsOK'
      <4>1. ASSUME NEW d \in Dialog!Clicks, run'[d].at # "idle"
            PROVE  /\ run'[d].original \in Addresses \cup {None}
                   /\ run'[d].fields.url # Dialog!NoText
                   /\ IsOpen => run'[d].original = form.original
                   /\ run'[d].at \in {"node", "secret"} => run'[d].original # None
                   /\ run'[d].at = "saving" => run'[d].basis \in {"tested", "blanks", "untested"}
        <5>1. CASE d = c
          BY <1>b, <3>3, <5>1
        <5>2. CASE d # c
          <6>1. run'[d] = run[d]
            BY <3>2, <5>2
          <6> QED
            BY <4>1, <6>1 DEF RunsOK
        <5> QED
          BY <5>1, <5>2
      <4> QED
        BY <1>1, <4>1 DEF RunsOK
    <3>6. Dialog!SavedAfterTest'
      <4>1. ASSUME NEW d \in Saves, run'[d].at = "saving"
            PROVE  \/ failed \/ run'[d].basis = "tested"
                   \/ (run'[d].basis = "blanks" /\ run'[d].original # None)
        <5>1. d = c \/ run'[d] = run[d]
          BY <3>2 DEF Dialog!Clicks
        <5> QED
          BY <3>3, <4>1, <5>1 DEF Dialog!SavedAfterTest
      <4> QED
        BY <1>0, <4>1 DEF Dialog!SavedAfterTest
    <3>7. ASSUME Undisturbed, NEW d \in Dialog!Clicks PROVE RunWorks(d)'
      <4>1. CASE d = c
        BY <1>0, <1>c, <3>3, <3>7, <4>1 DEF RunWorks
      <4>2. CASE d # c
        <5>1. run'[d] = run[d]
          BY <3>2, <4>2
        <5> QED
          BY <1>0, <3>7, <5>1 DEF TestsTrue, RunWorks
      <4> QED
        BY <4>1, <4>2
    <3>8. ASSUME NEW d \in Dialog!Clicks
          PROVE  DOMAIN run'[d] = {"at", "fields", "original", "cfg", "basis"}
      <4>1. CASE d = c
        BY <3>3, <4>1
      <4>2. CASE d # c
        <5>1. run'[d] = run[d]
          BY <3>2, <4>2
        <5> QED
          BY <5>1 DEF Shape
      <4> QED
        BY <4>1, <4>2
    <3> QED
      BY <3>2, <3>3, <3>4, <3>5, <3>6, <3>7, <3>8
  <2> QED
    BY <2>1, <2>2
<1>3. Shape' /\ Dialog!TestedNodeWorks'
  BY <1>0, <1>1, <1>2 DEF Shape, Dialog!TestedNodeWorks
<1>4. FormOK'
  <2>1. passed' # None
    BY <1>0, <1>b, DialogConstants
  <2>2. form'.lastOK => IsOpen /\ form'.lastKey = Dialog!Key(passed')
    BY <1>0, <1>1 DEF Dialog!Closed
  <2>3. form'.allowSaveAnyway => failed'
    BY <1>0, <1>1 DEF Dialog!Closed, FormOK
  <2>4. form'.mode = "edit" <=> form'.original # None
    BY <1>1 DEF FormOK
  <2> QED
    BY <1>1, <2>1, <2>2, <2>3, <2>4 DEF FormOK, Dialog!Key
<1>5. RowType' /\ FormType' /\ HistoryType'
  BY <1>0, <1>1, <1>b, TypeParts DEF RowType, FormType, HistoryType
<1>6. TestsTrue'
  <2>1. Undisturbed /\ IsOpen => Works(row, form.original, run[c].fields)
    BY <1>b, <1>c
  <2>2. Undisturbed' <=> Undisturbed
    BY <1>0 DEF Undisturbed
  <2>3. Undisturbed /\ IsOpen => Works(row', form'.original, passed')
    BY <1>0, <1>1, <2>1
  <2> QED
    BY <1>1, <1>2, <2>2, <2>3 DEF TestsTrue
<1>7. CountersType' /\ SessionsCounted'
  BY <1>0, <1>2, CountKept, TypeParts DEF CountersType
<1> QED
  BY <1>2, <1>3, <1>4, <1>5, <1>6, <1>7, Together

LEMMA SaveServedKeeps ==
    ASSUME DialogInv, NEW c \in Saves, Dialog!SaveServed(c) PROVE DialogInv'
<1> USE DEF DialogInv
<1>0. /\ c \in Dialog!Clicks /\ run[c].at = "saving" /\ run' = [run EXCEPT ![c] = Dialog!NoRun]
      /\ (run[c].original = None) = (row = None) /\ form' = Dialog!Closed
      /\ saved' = Dialog!SavedBy(c) /\ row' = Dialog!Stored(Dialog!Sent(c))
      /\ Dialog!Sent(c) = Result(row, run[c].original, run[c].fields)
      /\ UNCHANGED <<open, others, faults, passed, failed>>
  BY DEF Dialog!SaveServed, Dialog!Sent, Dialog!Clicks, Result
<1>1. /\ Dialog!Closed.fields \in Dialog!AnyFields
      /\ Dialog!Closed.mode = "closed" /\ Dialog!Closed.original = None
      /\ Dialog!Closed.lastOK = FALSE /\ Dialog!Closed.allowSaveAnyway = FALSE
      /\ DOMAIN Dialog!Closed = {"mode", "original", "fields", "lastKey", "lastOK", "allowSaveAnyway"}
  BY DEF Dialog!Closed, Dialog!AnyFields
<1>2. ~IsOpen'
  BY <1>0, <1>1 DEF IsOpen
<1>3. /\ RunTypes' /\ RunsOK' /\ Dialog!SavedAfterTest' /\ DOMAIN run' = Dialog!Clicks
      /\ \A d \in Dialog!Clicks : DOMAIN run'[d] = {"at", "fields", "original", "cfg", "basis"}
      /\ run'[c].at = "idle" /\ \A d \in Dialog!Clicks \ {c} : run'[d] = run[d]
  BY <1>0, <1>2, Ends
<1>4. Shape'
  BY <1>0, <1>1, <1>3 DEF Shape
<1>5. saved' \in {"tested", "trimmed", "blanks", "untested", "again"}
  BY <1>0, Active DEF Dialog!SavedBy
<1>6. RowType'
  <2>1. run[c].fields \in Dialog!AnyFields /\ run[c].fields.url # Dialog!NoText
    BY <1>0, Active
  <2>2. CASE run[c].original = None
    <3>1. Dialog!Sent(c) = Dialog!Config(Dialog!Parse(run[c].fields.url), run[c].fields.password)
      BY <1>0, <2>2 DEF Result
    <3>2. Dialog!Sent(c) \in [address : Dialog!AnyAddress, password : Passwords]
      BY <2>1, <3>1, ParsedFields DEF Dialog!Config
    <3> QED
      BY <1>0, <3>2, StoredTyped DEF RowType
  <2>3. CASE run[c].original # None
    <3>1. Dialog!Sent(c) = Dialog!Merge(row, run[c].original, run[c].fields)
      BY <1>0, <2>3 DEF Result
    <3>2. row \in [address : Dialog!AnyAddress, password : Passwords]
      BY <1>0, <2>3, TypeParts DEF RowType, RowsType
    <3>3. Dialog!Sent(c) \in [address : Dialog!AnyAddress, password : Passwords]
      BY <2>1, <3>1, <3>2, Merged
    <3> QED
      BY <1>0, <3>3, StoredTyped DEF RowType
  <2> QED
    BY <2>2, <2>3
<1>7. FormType' /\ HistoryType'
  BY <1>0, <1>1, <1>5, TypeParts DEF FormType, HistoryType
<1>8. FormOK' /\ TestsTrue'
  BY <1>0, <1>1, <1>2, <1>5 DEF FormOK, TestsTrue, Undisturbed
<1>9. Dialog!TestedNodeWorks'
  <2>1. ASSUME saved' = "tested", others' = 0
        PROVE  <<row'.address, row'.password>> \in Accepts
    <3>1. Undisturbed /\ run[c].basis = "tested" /\ row' = Dialog!Sent(c)
      BY <1>0, <2>1, Active DEF Undisturbed, Dialog!SavedBy
    <3>2. Works(row, run[c].original, run[c].fields)
      BY <1>0, <3>1 DEF TestsTrue, RunWorks
    <3> QED
      BY <1>0, <3>1, <3>2 DEF Works
  <2> QED
    BY <2>1 DEF Dialog!TestedNodeWorks
<1>10. CountersType' /\ SessionsCounted'
  BY <1>0, <1>3, CountKept, TypeParts DEF CountersType
<1> QED
  BY <1>3, <1>4, <1>6, <1>7, <1>8, <1>9, <1>10, Together

LEMMA EditedByOtherKeeps ==
    ASSUME DialogInv, Dialog!EditedByOther PROVE DialogInv'
<1> USE DEF DialogInv
<1>0. /\ others + faults < MaxTroubles /\ others' = others + 1
      /\ UNCHANGED <<form, run, open, passed, failed, saved, faults>>
  BY DEF Dialog!EditedByOther
<1>1. others \in 0..MaxTroubles /\ faults \in 0..MaxTroubles
  BY TypeParts DEF CountersType
<1>2. others' \in 0..MaxTroubles /\ others' # 0
  BY <1>0, <1>1, DialogConstants
<1>3. RowType'
  BY AddressTyped DEF Dialog!EditedByOther, Dialog!Rows, RowType
<1>4. FormType' /\ RunTypes' /\ HistoryType' /\ Shape'
  BY <1>0, TypeParts DEF FormType, RunTypes, HistoryType, Shape
<1>5. FormOK' /\ RunsOK' /\ Dialog!SavedAfterTest'
  BY <1>0 DEF FormOK, RunsOK, Dialog!SavedAfterTest, IsOpen
<1>6. TestsTrue' /\ Dialog!TestedNodeWorks'
  BY <1>2 DEF TestsTrue, Undisturbed, Dialog!TestedNodeWorks
<1>7. CountersType' /\ SessionsCounted'
  BY <1>0, <1>2, CountKept
<1> QED
  BY <1>3, <1>4, <1>5, <1>6, <1>7, Together

\* Every step keeps the invariant.
LEMMA DialogInvNext == DialogInv /\ [Dialog!Next]_(Dialog!vars) => DialogInv'
<1> SUFFICES ASSUME DialogInv, [Dialog!Next]_(Dialog!vars) PROVE DialogInv'
  OBVIOUS
<1>1. CASE Dialog!OpenDialog
  BY <1>1, OpenDialogKeeps
<1>2. CASE Dialog!Cancel
  BY <1>2, CancelKeeps
<1>3. CASE Dialog!Type
  BY <1>3, TypeKeeps
<1>4. CASE Dialog!ClickTest
  BY <1>4, ClickTestKeeps
<1>5. CASE Dialog!EditedByOther
  BY <1>5, EditedByOtherKeeps
<1>6. ASSUME NEW c \in Saves,
             Dialog!ClickSave(c) \/ Dialog!SaveServed(c) \/ Dialog!SaveFails(c)
      PROVE  DialogInv'
  BY <1>6, ClickSaveKeeps, SaveServedKeeps, SaveFailsKeeps
<1>7. ASSUME NEW c \in Dialog!Clicks, Dialog!Testing(c) PROVE DialogInv'
  BY <1>7, ReadNodeKeeps, ReadSecretKeeps, LoginAcceptedKeeps, LoginFailsKeeps,
     DialogLogoutKeeps,
     TestPassesKeeps, TestErrsKeeps DEF Dialog!Testing
<1>8. CASE UNCHANGED Dialog!vars
  <2>1. UNCHANGED <<row, form, run, open, passed, failed, saved, others, faults>>
    BY <1>8 DEF Dialog!vars
  <2> QED
    BY <2>1 DEF DialogInv, Dialog!TypeOK, Shape, FormOK, RunsOK, Dialog!SavedAfterTest,
                TestsTrue, Dialog!TestedNodeWorks,
                SessionsCounted, IsOpen, Undisturbed, RunWorks, LoggingOut
<1> QED
  BY <1>1, <1>2, <1>3, <1>4, <1>5, <1>6, <1>7, <1>8 DEF Dialog!Next

LEMMA DialogInvGives == DialogInv => Dialog!FormSafe /\ Dialog!TestsLeaveNoSession
<1>1. DialogInv => Dialog!FormSafe
  BY DEF DialogInv, Dialog!FormSafe
<1>2. Dialog!Cardinality(LoggingOut) = Cardinality(LoggingOut)
  BY DEF Dialog!Cardinality, Cardinality
<1>3. DialogInv => open <= faults + Dialog!Cardinality(LoggingOut)
  BY <1>2 DEF DialogInv, SessionsCounted
<1> QED
  BY <1>1, <1>3 DEF LoggingOut, Dialog!TestsLeaveNoSession

\* A save that skipped the test followed a failed one, what was tested works once
\* it is saved unless the store had to trim its password, and tests leave sessions
\* only by lost answers, for any number of clicks that overlap (PiholeNodeForm.tsx,
\* piholeservice/service.go, store/pihole.go).
THEOREM DialogSafe == Dialog!Spec => [](Dialog!FormSafe /\ Dialog!TestsLeaveNoSession)
<1>1. Dialog!Spec => []DialogInv
  BY DialogInvInit, DialogInvNext, PTL DEF Dialog!Spec
<1> QED
  BY <1>1, DialogInvGives, PTL

-----------------------------------------------------------------------------
(* The pages of login and setup.                                           *)

\* A GET that was sent and whose answer has not been taken, and that answer.
Pending(g) == gets[g] # None
Got(g) == gets[g].status

\* The answers.
Users == [user : BOOLEAN]
Publics == [initialized : BOOLEAN]
Fulls == [status : Pages!Status]

GetsType(gs) ==
    /\ DOMAIN gs = Pages!Gets
    /\ gs["user"] \in {None, Asked} \cup Users
    /\ gs["rename"] \in {None, Asked} \cup Users
    /\ gs["public"] \in {None, Asked} \cup Publics
    /\ \A g \in Pages!FullGets : gs[g] \in {None, Asked} \cup Fulls

Typed ==
    /\ Pages!TypeOK
    /\ GetsType(gets)

\* A spinner waits for a GET that is under way.
Waits ==
    /\ loadingUser <=> Pending("user")
    /\ publicLoading => Pending("public")
    /\ setup => Pending("public")
    /\ fullLoading => \E g \in Pages!FullGets : Pending(g)

\* Before there is an account nobody is logged in and nothing is set up.
Server ==
    ~account =>
        /\ ~session /\ ~status.userCreated /\ status.pihole = "UNINITIALIZED"
        /\ full = None /\ \A g \in Pages!FullGets : ~Pages!Answered(g)

\* Without trouble, AuthContext holds whether the session is valid, or waits
\* for it.
UserTrue ==
    /\ user => session
    /\ ~Pending("user") => user = session
    /\ Pages!Answered("user") => gets["user"].user = session
    /\ Pages!Answered("rename") => session

\* Without trouble, InitStatusContext holds whether there is an account, or
\* waits for it.
PublicTrue ==
    /\ ~Pending("public") => public = account
    /\ Pages!Answered("public") => gets["public"].initialized = account

\* The setup only advances.
NoNewer(s) == Pages!Rank(s) < Pages!Rank(status) \/ s = status

\* Without trouble, no full status is ahead of the server, and that of the
\* server was seen, or is on its way, or can still be fetched.
FullTrue ==
    /\ full # None => NoNewer(full)
    /\ \A g \in Pages!FullGets : Pages!Answered(g) => NoNewer(Got(g))
    /\ seen <= Pages!Rank(status)
    /\ user => \/ seen = Pages!Rank(status)
               \/ \E g \in Pages!FullGets : gets[g] = Asked \/ (Pages!Answered(g) /\ Got(g) = status)
    /\ user /\ full = None => spoilt = "dropped" \/ \E g \in Pages!FullGets : Pending(g)

\* What the history says of the full status held.
Spoilt ==
    /\ spoilt = "dropped" => full = None
    /\ spoilt = "older" /\ full # None => Pages!Rank(full) < seen
    /\ spoilt = "no" /\ full # None => Pages!Rank(full) = seen

SetupInv ==
    /\ Typed /\ Waits /\ Server /\ Spoilt
    /\ ~trouble => UserTrue /\ PublicTrue /\ FullTrue

LEMMA GetNames ==
    /\ {"user", "public", "rename"} \subseteq Pages!Gets
    /\ Pages!FullGets \subseteq Pages!Gets
    /\ "update" \in Pages!FullGets /\ Effects \subseteq Pages!FullGets
    /\ Pages!FullGets \cap {"user", "public", "rename"} = {}
    /\ \A g \in Pages!Gets : g \in {"user", "public", "rename"} \/ g \in Pages!FullGets
    /\ "update" \notin Effects
BY FrontEndAssumption DEF Pages!PagesAssumption, Pages!Gets, Pages!FullGets

\* An answer is neither "undefined" nor "not answered yet".
LEMMA AnswersDiffer ==
    /\ None # Asked
    /\ \A x \in Users \cup Publics \cup Fulls \cup Pages!Status : x # None /\ x # Asked
<1>1. ASSUME NEW x \in Users \cup Publics PROVE x # None /\ x # Asked
  <2>1. \E b \in BOOLEAN : x \in {[user |-> b], [initialized |-> b]}
    BY <1>1 DEF Users, Publics
  <2> QED
    BY <2>1, FrontEndAssumption DEF Pages!PagesAssumption
<1>2. ASSUME NEW x \in Fulls \cup Pages!Status PROVE x # None /\ x # Asked
  BY <1>2, FrontEndAssumption DEF Pages!PagesAssumption, Fulls
<1> QED
  BY <1>1, <1>2, FrontEndAssumption DEF Pages!PagesAssumption

\* Typed, part by part.
Bools ==
    /\ account \in BOOLEAN /\ session \in BOOLEAN
    /\ user \in BOOLEAN /\ loadingUser \in BOOLEAN
    /\ public \in BOOLEAN /\ publicLoading \in BOOLEAN
    /\ fullLoading \in BOOLEAN /\ setup \in BOOLEAN /\ trouble \in BOOLEAN

Others ==
    /\ status \in Pages!Status /\ path \in Pages!Paths
    /\ full \in Pages!Status \cup {None}
    /\ seen \in 0..3 /\ spoilt \in {"no", "dropped", "older"}

LEMMA TypedParts == Typed <=> Bools /\ Others /\ GetsType(gets)
BY DEF Typed, Pages!TypeOK, Bools, Others, GetsType

LEMMA TypedPartsNext == (Typed <=> Bools /\ Others /\ GetsType(gets))'
BY TypedParts, PTL

LEMMA OneGetChanges ==
    ASSUME NEW gs, GetsType(gs), NEW g \in Pages!Gets, NEW a \in {None, Asked}
    PROVE  /\ GetsType([gs EXCEPT ![g] = a])
           /\ \A h \in Pages!Gets : [gs EXCEPT ![g] = a][h] = IF h = g THEN a ELSE gs[h]
<1>1. \A h \in Pages!Gets : [gs EXCEPT ![g] = a][h] = IF h = g THEN a ELSE gs[h]
  BY DEF GetsType
<1>2. DOMAIN [gs EXCEPT ![g] = a] = Pages!Gets
  BY DEF GetsType
<1> QED
  BY <1>1, <1>2, GetNames DEF GetsType

\* SetUser with a user asks for the full status, without one it drops it.
LEMMA SetUserTrue ==
    ASSUME NEW gs, GetsType(gs), Pages!SetUser(TRUE, gs)
    PROVE  /\ user' = TRUE /\ full' = full /\ fullLoading' = TRUE
           /\ GetsType(gets')
           /\ \E e \in Effects :
                /\ gs[e] = None /\ gets'[e] = Asked
                /\ \A h \in Pages!Gets \ {e} : gets'[h] = gs[h]
<1>1. user' = TRUE /\ full' = full /\ fullLoading' = TRUE
  BY DEF Pages!SetUser
<1>2. PICK e \in Effects : gs[e] = None /\ gets' = [gs EXCEPT ![e] = Asked]
  BY DEF Pages!SetUser
<1>3. e \in Pages!Gets
  BY GetNames
<1>4. GetsType(gets') /\ \A h \in Pages!Gets : gets'[h] = IF h = e THEN Asked ELSE gs[h]
  BY <1>2, <1>3, OneGetChanges, ZenonT(60)
<1> QED
  BY <1>1, <1>2, <1>3, <1>4

LEMMA SetUserFalse ==
    ASSUME NEW gs, Pages!SetUser(FALSE, gs)
    PROVE  user' = FALSE /\ full' = None /\ fullLoading' = fullLoading /\ gets' = gs
BY DEF Pages!SetUser

LEMMA AtLoadGets ==
    /\ DOMAIN Pages!AtLoad = Pages!Gets
    /\ Pages!AtLoad["user"] = Asked /\ Pages!AtLoad["public"] = Asked
    /\ Pages!AtLoad["rename"] = None
    /\ \A g \in Pages!FullGets : Pages!AtLoad[g] = None
BY GetNames DEF Pages!AtLoad, Pages!NoGet

\* What is so whenever a page is loaded.
JustLoaded ==
    /\ account \in BOOLEAN /\ status \in Pages!Status /\ session \in BOOLEAN
    /\ ~account => ~session /\ ~status.userCreated /\ status.pihole = "UNINITIALIZED"
    /\ path \in Pages!Paths
    /\ user = FALSE /\ loadingUser = TRUE /\ public = FALSE /\ publicLoading = TRUE
    /\ full = None /\ fullLoading = FALSE
    /\ gets = Pages!AtLoad
    /\ setup = FALSE /\ seen = 0 /\ spoilt = "no" /\ trouble = FALSE

LEMMA Loaded == JustLoaded => SetupInv
<1> SUFFICES ASSUME JustLoaded PROVE SetupInv
  OBVIOUS
<1>1. Typed
  <2>1. GetsType(gets)
    BY AtLoadGets DEF GetsType, JustLoaded
  <2>2. Bools
    BY DEF Bools, JustLoaded
  <2>3. Others
    BY DEF Others, JustLoaded
  <2> QED
    BY <2>1, <2>2, <2>3, TypedParts
<1>2. Waits
  BY AtLoadGets, AnswersDiffer DEF Waits, Pending, JustLoaded
<1>3. Server
  BY AtLoadGets DEF Server, Pages!Answered, JustLoaded
<1>4. Spoilt
  BY DEF Spoilt, JustLoaded
<1>5. UserTrue
  BY AtLoadGets, AnswersDiffer DEF UserTrue, Pending, Pages!Answered, JustLoaded
<1>6. PublicTrue
  BY AtLoadGets, AnswersDiffer DEF PublicTrue, Pending, Pages!Answered, JustLoaded
<1>7. FullTrue
  <2>1. \A g \in Pages!FullGets : ~Pages!Answered(g)
    BY AtLoadGets DEF Pages!Answered, JustLoaded
  <2>2. 0 <= Pages!Rank(status)
    BY DEF Pages!Rank, Pages!Status, Pages!PiholeStatus, JustLoaded
  <2> QED
    BY <2>1, <2>2 DEF FullTrue, JustLoaded
<1> QED
  BY <1>1, <1>2, <1>3, <1>4, <1>5, <1>6, <1>7 DEF SetupInv

\* The invariant holds at first.
LEMMA SetupInvInit == Pages!Init => SetupInv
<1> SUFFICES ASSUME Pages!Init PROVE SetupInv
  OBVIOUS
<1>1. account \in BOOLEAN /\ status \in Pages!Status /\ session = FALSE
      /\ (~account => ~status.userCreated /\ status.pihole = "UNINITIALIZED")
  BY DEF Pages!Init, Pages!Status
<1> QED
  BY <1>1, Loaded DEF Pages!Init, JustLoaded

LEMMA LoadedNext == JustLoaded' => SetupInv'
BY Loaded, PTL

LEMMA VisitKeeps ==
    ASSUME SetupInv, NEW p \in Pages!Paths, Pages!Visit(p) PROVE SetupInv'
<1>1. account' \in BOOLEAN /\ status' \in Pages!Status /\ session' \in BOOLEAN
      /\ (~account' => ~session' /\ ~status'.userCreated /\ status'.pihole = "UNINITIALIZED")
  BY DEF Pages!Visit, Pages!server, SetupInv, Typed, Pages!TypeOK, Server
<1>2. JustLoaded'
  BY <1>1 DEF JustLoaded, Pages!Visit, Pages!LoadedAt
<1> QED
  BY <1>2, LoadedNext

LEMMA GoesSomewhere == ASSUME NEW p \in Pages!Paths PROVE Pages!Goes(p) \in Pages!Paths
BY DEF Pages!Goes, Pages!Paths, Pages!Protected, Pages!UnprotectedRoute

\* Only the page changes.
LEMMA PathKeeps ==
    ASSUME SetupInv, path' \in Pages!Paths,
           UNCHANGED <<Pages!server, Pages!contexts, gets, setup, seen, spoilt, trouble>>
    PROVE  SetupInv'
<1> USE DEF SetupInv
<1>1. Typed'
  BY DEF Typed, Pages!TypeOK, GetsType, Pages!server, Pages!contexts
<1>2. Waits' /\ Server' /\ Spoilt'
  BY DEF Waits, Pending, Server, Pages!Answered, Spoilt, Pages!server, Pages!contexts
<1>3. ASSUME ~trouble PROVE UserTrue' /\ PublicTrue'
  BY <1>3 DEF UserTrue, PublicTrue, Pending, Pages!Answered, Pages!server, Pages!contexts
<1>4. ASSUME ~trouble PROVE FullTrue'
  BY <1>4 DEF FullTrue, NoNewer, Got, Pending, Pages!Answered, Pages!server,
              Pages!contexts
<1> QED
  BY <1>1, <1>2, <1>3, <1>4

LEMMA RedirectKeeps ==
    ASSUME SetupInv, Pages!Redirect PROVE SetupInv'
BY PathKeeps, GoesSomewhere DEF Pages!Redirect, SetupInv, Typed, Pages!TypeOK

\* A step that leaves alone what FullTrue speaks of.
LEMMA FullKept ==
    ASSUME FullTrue, status' = status, full' = full, seen' = seen, spoilt' = spoilt,
           user' => user,
           \A h \in Pages!FullGets : gets'[h] = gets[h]
    PROVE  FullTrue'
BY DEF FullTrue, NoNewer, Got, Pending, Pages!Answered

\* A step that asks for the full status once more.
LEMMA FullAsked ==
    ASSUME FullTrue, status' = status, full' = full, seen' = seen, spoilt' = spoilt,
           NEW e \in Pages!FullGets, gets'[e] = Asked,
           \A h \in Pages!FullGets \ {e} : gets'[h] = gets[h]
    PROVE  FullTrue'
<1>1. full' # None => NoNewer(full)'
  BY DEF FullTrue, NoNewer
<1>2. ASSUME NEW h \in Pages!FullGets, Pages!Answered(h)' PROVE NoNewer(Got(h))'
  <2>1. h # e /\ gets'[h] = gets[h]
    BY <1>2 DEF Pages!Answered
  <2> QED
    BY <1>2, <2>1 DEF FullTrue, NoNewer, Got, Pages!Answered
<1>3. seen' <= Pages!Rank(status')
  BY DEF FullTrue
<1>4. Pending(e)'
  BY AnswersDiffer DEF Pending
<1> QED
  BY <1>1, <1>2, <1>3, <1>4 DEF FullTrue

LEMMA ServeKeeps ==
    ASSUME SetupInv, NEW g \in Pages!Gets, Pages!Serve(g) PROVE SetupInv'
<1> USE DEF SetupInv
<1>0. /\ UNCHANGED <<Pages!server, path, Pages!contexts, setup, seen, spoilt, trouble>>
      /\ gets[g] = Asked /\ Pages!Allowed(g) /\ gets' = [gets EXCEPT ![g] = Pages!Answer(g)]
      /\ Bools /\ Others /\ GetsType(gets)
  BY TypedParts DEF Pages!Serve
<1>1. /\ g = "user" => Pages!Answer(g) = [user |-> session] /\ Pages!Answer(g) \in Users
      /\ g = "public" => Pages!Answer(g) = [initialized |-> account] /\ Pages!Answer(g) \in Publics
      /\ g = "rename" => Pages!Answer(g) = [user |-> TRUE] /\ Pages!Answer(g) \in Users
      /\ g \in Pages!FullGets => Pages!Answer(g) = [status |-> status] /\ Pages!Answer(g) \in Fulls
  BY <1>0, GetNames DEF Pages!Answer, Users, Publics, Fulls, Bools, Others
<1>2. /\ DOMAIN gets' = Pages!Gets /\ gets'[g] = Pages!Answer(g)
      /\ \A h \in Pages!Gets \ {g} : gets'[h] = gets[h]
  BY <1>0 DEF GetsType
<1>3. GetsType(gets)'
  BY <1>0, <1>1, <1>2, GetNames DEF GetsType
<1>4. Typed'
  BY <1>0, <1>3 DEF Typed, Pages!TypeOK, GetsType, Pages!server, Pages!contexts
<1>5. \A h \in Pages!Gets : Pending(h)' <=> Pending(h)
  BY <1>0, <1>1, <1>2, AnswersDiffer, GetNames DEF Pending
<1>6. Waits'
  BY <1>0, <1>5, GetNames DEF Waits, Pages!contexts
<1>7. Server'
  BY <1>0, <1>2, GetNames DEF Server, Pages!Answered, Pages!Allowed, Pages!server,
                              Pages!contexts
<1>8. Spoilt'
  BY <1>0 DEF Spoilt, Pages!contexts
<1>9. ASSUME ~trouble PROVE UserTrue'
  BY <1>0, <1>1, <1>2, <1>5, <1>9, GetNames DEF UserTrue, Pages!Answered, Pages!Allowed,
     Pages!server, Pages!contexts
<1>10. ASSUME ~trouble PROVE PublicTrue'
  BY <1>0, <1>1, <1>2, <1>5, <1>10, GetNames DEF PublicTrue, Pages!Answered,
     Pages!server, Pages!contexts
<1>11. ASSUME ~trouble PROVE FullTrue'
  <2>0. FullTrue /\ UNCHANGED <<status, full, seen, spoilt, user>>
    BY <1>0, <1>11 DEF Pages!server, Pages!contexts
  <2>1. full' # None => NoNewer(full)'
    BY <2>0 DEF FullTrue, NoNewer
  <2>2. ASSUME NEW h \in Pages!FullGets, Pages!Answered(h)' PROVE NoNewer(Got(h))'
    BY <1>1, <1>2, <2>0, <2>2, GetNames DEF FullTrue, NoNewer, Got, Pages!Answered
  <2>3. ASSUME NEW h \in Pages!FullGets, gets[h] = Asked \/ (Pages!Answered(h) /\ Got(h) = status)
        PROVE  gets'[h] = Asked \/ (Pages!Answered(h)' /\ Got(h)' = status')
    <3>1. CASE h = g
      BY <1>1, <1>2, <2>0, <3>1, AnswersDiffer DEF Got, Pages!Answered
    <3>2. CASE h # g
      BY <1>2, <2>0, <2>3, <3>2, GetNames DEF Got, Pages!Answered
    <3> QED
      BY <3>1, <3>2
  <2>4. user' => \/ seen' = Pages!Rank(status')
                 \/ \E h \in Pages!FullGets : gets'[h] = Asked \/ (Pages!Answered(h)' /\ Got(h)' = status')
    BY <2>0, <2>3 DEF FullTrue
  <2>5. user' /\ full' = None => spoilt' = "dropped" \/ \E h \in Pages!FullGets : Pending(h)'
    BY <1>5, <2>0, GetNames DEF FullTrue
  <2> QED
    BY <2>0, <2>1, <2>2, <2>4, <2>5 DEF FullTrue
<1> QED
  BY <1>0, <1>4, <1>6, <1>7, <1>8, <1>9, <1>10, <1>11

LEMMA LoginKeeps ==
    ASSUME SetupInv, Pages!Login PROVE SetupInv'
<1> USE DEF SetupInv
<1>0. /\ UNCHANGED <<account, status, path, loadingUser, public, publicLoading,
                     setup, seen, spoilt, trouble>>
      /\ ~loadingUser /\ account /\ session' = TRUE
      /\ Bools /\ Others /\ GetsType(gets)
  BY TypedParts DEF Pages!Login, Pages!Shows, Pages!Loading
<1>1. /\ user' = TRUE /\ full' = full /\ fullLoading' = TRUE /\ GetsType(gets')
      /\ \E e \in Effects :
            /\ gets[e] = None /\ gets'[e] = Asked
            /\ \A h \in Pages!Gets \ {e} : gets'[h] = gets[h]
  BY <1>0, SetUserTrue DEF Pages!Login
<1>2. PICK e \in Pages!FullGets :
            /\ gets[e] = None /\ gets'[e] = Asked
            /\ \A h \in Pages!Gets \ {e} : gets'[h] = gets[h]
  BY <1>1, GetNames
<1>3. UNCHANGED <<gets["user"], gets["public"], gets["rename"]>>
  BY <1>2, GetNames
<1>4. Typed'
  BY <1>0, <1>1 DEF Typed, Pages!TypeOK, GetsType, Bools, Others
<1>5. Waits'
  BY <1>0, <1>1, <1>2, <1>3, AnswersDiffer DEF Waits, Pending
<1>6. Server' /\ Spoilt'
  BY <1>0, <1>1 DEF Server, Spoilt
<1>7. ASSUME ~trouble PROVE UserTrue'
  BY <1>0, <1>1, <1>3, <1>7 DEF UserTrue, Waits, Pending, Pages!Answered
<1>8. ASSUME ~trouble PROVE PublicTrue'
  BY <1>0, <1>3, <1>8 DEF PublicTrue, Pending, Pages!Answered
<1>9. ASSUME ~trouble PROVE FullTrue'
  BY <1>0, <1>1, <1>2, <1>9, FullAsked, GetNames
<1> QED
  BY <1>0, <1>4, <1>5, <1>6, <1>7, <1>8, <1>9

LEMMA CreateUserKeeps ==
    ASSUME SetupInv, Pages!CreateUser PROVE SetupInv'
<1> USE DEF SetupInv
<1> DEFINE gs == [gets EXCEPT !["public"] = Asked]
<1>0. /\ UNCHANGED <<path, loadingUser, public, seen, spoilt, trouble>>
      /\ ~loadingUser /\ ~account /\ account' = TRUE /\ session' = TRUE
      /\ publicLoading' = TRUE /\ setup' = TRUE
      /\ status' = [status EXCEPT !.userCreated = TRUE]
      /\ Bools /\ Others /\ GetsType(gets)
  BY TypedParts DEF Pages!CreateUser, Pages!Shows, Pages!Loading
<1>1. GetsType(gs) /\ \A h \in Pages!Gets : gs[h] = IF h = "public" THEN Asked ELSE gets[h]
  BY <1>0, OneGetChanges, GetNames
<1>2. Pages!SetUser(TRUE, gs)
  BY DEF Pages!CreateUser
<1>3. /\ user' = TRUE /\ full' = full /\ fullLoading' = TRUE /\ GetsType(gets')
      /\ \E e \in Effects :
            /\ gs[e] = None /\ gets'[e] = Asked
            /\ \A h \in Pages!Gets \ {e} : gets'[h] = gs[h]
  <2> HIDE DEF gs
  <2> QED
    BY <1>1, <1>2, SetUserTrue
<1>4. PICK e \in Pages!FullGets :
            /\ gets[e] = None /\ gets'[e] = Asked
            /\ \A h \in Pages!FullGets \ {e} : gets'[h] = gets[h]
            /\ gets'["user"] = gets["user"] /\ gets'["rename"] = gets["rename"]
            /\ gets'["public"] = Asked
  <2>1. PICK e \in Effects :
            /\ gs[e] = None /\ gets'[e] = Asked
            /\ \A h \in Pages!Gets \ {e} : gets'[h] = gs[h]
    BY <1>3
  <2> HIDE DEF gs
  <2>2. \A h \in Pages!FullGets \ {e} : gets'[h] = gets[h]
    BY <1>1, <2>1, GetNames
  <2>3. gets'["user"] = gets["user"] /\ gets'["rename"] = gets["rename"]
        /\ gets'["public"] = Asked /\ gets[e] = None
    BY <1>1, <2>1, GetNames
  <2> QED
    BY <2>1, <2>2, <2>3, GetNames
<1>5. status' \in Pages!Status /\ Pages!Rank(status') = Pages!Rank(status) /\ full = None
      /\ \A g \in Pages!FullGets : ~Pages!Answered(g)
  BY <1>0 DEF Others, Pages!Status, Pages!Rank, Server
<1>6. Typed'
  BY <1>0, <1>3, <1>5 DEF Typed, Pages!TypeOK, GetsType, Bools, Others
<1>7. Waits'
  BY <1>0, <1>3, <1>4, AnswersDiffer DEF Waits, Pending
<1>8. Server' /\ Spoilt'
  BY <1>0, <1>3 DEF Server, Spoilt
<1>9. ASSUME ~trouble PROVE UserTrue'
  BY <1>0, <1>3, <1>4, <1>9 DEF UserTrue, Waits, Pending, Pages!Answered
<1>10. ASSUME ~trouble PROVE PublicTrue'
  BY <1>0, <1>4, <1>10, AnswersDiffer DEF PublicTrue, Pending, Pages!Answered
<1>11. ASSUME ~trouble PROVE FullTrue'
  <2>1. \A g \in Pages!FullGets : ~Pages!Answered(g)'
    BY <1>4, <1>5 DEF Pages!Answered
  <2>2. Pending(e)'
    BY <1>4, AnswersDiffer DEF Pending
  <2>3. seen' <= Pages!Rank(status')
    BY <1>0, <1>5, <1>11 DEF FullTrue
  <2> QED
    BY <1>3, <1>4, <1>5, <2>1, <2>2, <2>3 DEF FullTrue
<1> QED
  BY <1>0, <1>6, <1>7, <1>8, <1>9, <1>10, <1>11

LEMMA ElsewhereKeeps ==
    ASSUME SetupInv, Pages!CreateUserBreaks \/ Pages!Elsewhere PROVE SetupInv'
<1> USE DEF SetupInv
<1>0. /\ UNCHANGED <<path, Pages!contexts, gets, setup, seen, spoilt>> /\ trouble' = TRUE
      /\ account' \in BOOLEAN /\ session' \in BOOLEAN /\ status' \in Pages!Status
      /\ account' \/ (account' = account /\ status' = status /\ session' = FALSE)
  BY DEF Pages!CreateUserBreaks, Pages!Elsewhere, Typed, Pages!TypeOK, Pages!Status,
         Pages!PiholeStatus
<1>1. Typed'
  BY <1>0 DEF Typed, Pages!TypeOK, GetsType, Pages!contexts
<1>2. Waits' /\ Spoilt'
  BY <1>0 DEF Waits, Pending, Spoilt, Pages!contexts
<1>3. Server'
  BY <1>0 DEF Server, Pages!Answered, Pages!contexts
<1> QED
  BY <1>0, <1>1, <1>2, <1>3

LEMMA FinishSetupKeeps ==
    ASSUME SetupInv, NEW new \in {"ADDED", "SKIPPED"}, Pages!FinishSetup(new) PROVE SetupInv'
<1> USE DEF SetupInv
<1>0. /\ UNCHANGED <<account, session, path, user, loadingUser, public,
                     publicLoading, full, setup, seen, spoilt, trouble>>
      /\ session /\ status.pihole # new /\ ~(status.pihole = "ADDED" /\ new = "SKIPPED")
      /\ gets["update"] = None /\ status' = [status EXCEPT !.pihole = new]
      /\ gets' = [gets EXCEPT !["update"] = Asked] /\ fullLoading' = TRUE
      /\ Bools /\ Others /\ GetsType(gets)
  BY TypedParts DEF Pages!FinishSetup
<1>1. /\ GetsType(gets')
      /\ \A h \in Pages!Gets : gets'[h] = IF h = "update" THEN Asked ELSE gets[h]
  <2>1. "update" \in Pages!Gets
    BY GetNames
  <2> QED
    BY <1>0, <2>1, OneGetChanges
<1>2. /\ gets'["update"] = Asked
      /\ UNCHANGED <<gets["user"], gets["public"], gets["rename"]>>
  BY <1>1, GetNames
<1>3. status' \in Pages!Status /\ Pages!Rank(status) < Pages!Rank(status')
  BY <1>0 DEF Others, Pages!Status, Pages!PiholeStatus, Pages!Rank
<1>4. Typed'
  BY <1>0, <1>1, <1>3 DEF Typed, Pages!TypeOK, GetsType, Bools, Others
<1>5. Waits'
  BY <1>0, <1>2, AnswersDiffer, GetNames DEF Waits, Pending
<1>6. Server' /\ Spoilt'
  BY <1>0 DEF Server, Spoilt
<1>7. ASSUME ~trouble PROVE UserTrue' /\ PublicTrue'
  BY <1>0, <1>2, <1>7 DEF UserTrue, PublicTrue, Pending, Pages!Answered
<1>8. ASSUME ~trouble PROVE FullTrue'
  <2>0. \A s \in Pages!Status : Pages!Rank(s) \in 1..3
    BY DEF Pages!Status, Pages!PiholeStatus, Pages!Rank
  <2>1. \A s \in Pages!Status : NoNewer(s) => Pages!Rank(s) < Pages!Rank(status')
    BY <1>0, <1>3, <2>0 DEF NoNewer, Others
  <2>2. full' # None => NoNewer(full)'
    BY <1>0, <1>8, <2>1 DEF FullTrue, NoNewer, Others
  <2>3. ASSUME NEW h \in Pages!FullGets, Pages!Answered(h)' PROVE NoNewer(Got(h))'
    <3>1. h # "update" /\ gets'[h] = gets[h]
      BY <1>1, <2>3, GetNames DEF Pages!Answered
    <3>2. Got(h) \in Pages!Status /\ NoNewer(Got(h))
      BY <1>0, <1>8, <2>3, <3>1 DEF GetsType, Pages!Answered, Fulls, Got, FullTrue
    <3> QED
      BY <2>1, <3>1, <3>2 DEF NoNewer, Got
  <2>4. seen' <= Pages!Rank(status')
    BY <1>0, <1>3, <1>8, <2>0 DEF FullTrue, Others
  <2>5. Pending("update")'
    BY <1>2, AnswersDiffer DEF Pending
  <2> QED
    BY <1>2, <2>2, <2>3, <2>4, <2>5, GetNames DEF FullTrue
<1> QED
  BY <1>0, <1>4, <1>5, <1>6, <1>7, <1>8

LEMMA RenameKeeps ==
    ASSUME SetupInv, Pages!Rename PROVE SetupInv'
<1> USE DEF SetupInv
<1>0. /\ UNCHANGED <<Pages!server, path, Pages!contexts, setup, seen, spoilt, trouble>>
      /\ gets' = [gets EXCEPT !["rename"] = Asked] /\ GetsType(gets)
  BY TypedParts DEF Pages!Rename
<1>1. /\ GetsType(gets')
      /\ \A h \in Pages!Gets : gets'[h] = IF h = "rename" THEN Asked ELSE gets[h]
  BY <1>0, OneGetChanges, GetNames, ZenonT(60)
<1>2. /\ gets'["rename"] = Asked
      /\ UNCHANGED <<gets["user"], gets["public"]>>
      /\ \A h \in Pages!FullGets : gets'[h] = gets[h]
  BY <1>1, GetNames
<1>3. Typed'
  BY <1>0, <1>1 DEF Typed, Pages!TypeOK, GetsType, Pages!server, Pages!contexts
<1>4. Waits' /\ Spoilt'
  BY <1>0, <1>2 DEF Waits, Pending, Spoilt, Pages!contexts
<1>5. Server'
  BY <1>0, <1>2 DEF Server, Pages!Answered, Pages!server, Pages!contexts
<1>6. ASSUME ~trouble PROVE UserTrue' /\ PublicTrue'
  BY <1>0, <1>2, <1>6 DEF UserTrue, PublicTrue, Pending, Pages!Answered, Pages!server,
                          Pages!contexts
<1>7. ASSUME ~trouble PROVE FullTrue'
  BY <1>0, <1>2, <1>7, FullKept DEF Pages!server, Pages!contexts
<1> QED
  BY <1>0, <1>3, <1>4, <1>5, <1>6, <1>7

LEMMA SetupLogoutKeeps ==
    ASSUME SetupInv, Pages!Logout PROVE SetupInv'
<1> USE DEF SetupInv
<1>0. /\ UNCHANGED <<account, status, path, loadingUser, public, publicLoading,
                     setup, seen, spoilt, gets, fullLoading>>
      /\ session' = FALSE /\ user' = FALSE /\ full' = (IF user THEN None ELSE full)
      /\ trouble' = (trouble \/ Pages!Answered("user") \/ Pages!Answered("rename"))
      /\ Bools /\ Others /\ GetsType(gets)
  BY TypedParts, SetUserFalse DEF Pages!Logout, Bools
<1>1. Typed'
  <2>1. full' \in Pages!Status \cup {None}
    BY <1>0 DEF Others
  <2>2. trouble' \in BOOLEAN
    BY <1>0 DEF Bools
  <2>3. Bools'
    BY <1>0, <2>2 DEF Bools
  <2>4. Others' /\ GetsType(gets)'
    BY <1>0, <2>1 DEF Others, GetsType
  <2> QED
    BY <2>3, <2>4, TypedPartsNext
<1>2. Waits' /\ Server' /\ Spoilt'
  BY <1>0 DEF Waits, Pending, Server, Pages!Answered, Spoilt
<1>3. ASSUME ~trouble' PROVE UserTrue' /\ PublicTrue'
  BY <1>0, <1>3 DEF UserTrue, PublicTrue, Pending, Pages!Answered
<1>4. ASSUME ~trouble' PROVE FullTrue'
  BY <1>0, <1>4 DEF FullTrue, NoNewer, Got, Pending, Pages!Answered
<1> QED
  BY <1>1, <1>2, <1>3, <1>4

\* An answer that arrived is taken out.
LEMMA Taken ==
    ASSUME GetsType(gets), NEW g \in Pages!Gets
    PROVE  /\ GetsType(Pages!Without(g)) /\ Pages!Without(g)[g] = None
           /\ \A h \in Pages!Gets \ {g} : Pages!Without(g)[h] = gets[h]
<1>1. /\ GetsType([gets EXCEPT ![g] = None])
      /\ \A h \in Pages!Gets : [gets EXCEPT ![g] = None][h] = IF h = g THEN None ELSE gets[h]
  BY OneGetChanges
<1> QED
  BY <1>1 DEF Pages!Without

LEMMA GotRenameKeeps ==
    ASSUME SetupInv, Pages!GotRename PROVE SetupInv'
<1> USE DEF SetupInv
<1>0. /\ UNCHANGED <<Pages!server, path, loadingUser, public, publicLoading, setup,
                     seen, spoilt, trouble>>
      /\ Pages!Answered("rename") /\ Pages!SetUser(TRUE, Pages!Without("rename"))
      /\ Bools /\ Others /\ GetsType(gets)
  BY TypedParts DEF Pages!GotRename
<1>1. PICK gs : gs = Pages!Without("rename")
  OBVIOUS
<1>2. /\ GetsType(gs) /\ gs["rename"] = None
      /\ \A h \in Pages!Gets \ {"rename"} : gs[h] = gets[h]
  BY <1>0, <1>1, Taken, GetNames
<1>3. /\ user' = TRUE /\ full' = full /\ fullLoading' = TRUE /\ GetsType(gets')
      /\ \E e \in Effects :
            /\ gs[e] = None /\ gets'[e] = Asked
            /\ \A h \in Pages!Gets \ {e} : gets'[h] = gs[h]
  BY <1>0, <1>1, <1>2, SetUserTrue
<1>4. PICK e \in Pages!FullGets :
            /\ gets'[e] = Asked
            /\ \A h \in Pages!FullGets \ {e} : gets'[h] = gets[h]
            /\ gets'["user"] = gets["user"] /\ gets'["public"] = gets["public"]
            /\ gets'["rename"] = None
  BY <1>2, <1>3, GetNames
<1>5. Typed'
  BY <1>0, <1>3 DEF Typed, Pages!TypeOK, GetsType, Bools, Others, Pages!server
<1>6. Waits'
  BY <1>0, <1>3, <1>4, AnswersDiffer DEF Waits, Pending
<1>7. Server' /\ Spoilt'
  BY <1>0, <1>3, <1>4 DEF Server, Spoilt, Pages!Answered, Pages!server
<1>8. ASSUME ~trouble PROVE UserTrue' /\ PublicTrue'
  <2>1. session
    BY <1>0, <1>8 DEF UserTrue
  <2> QED
    BY <1>0, <1>3, <1>4, <1>8, <2>1 DEF UserTrue, PublicTrue, Pending, Pages!Answered,
                                        Pages!server, Bools
<1>9. ASSUME ~trouble PROVE FullTrue'
  BY <1>0, <1>3, <1>4, <1>9, FullAsked DEF Pages!server
<1> QED
  BY <1>0, <1>5, <1>6, <1>7, <1>8, <1>9

\* The user arrives, or is found to be undefined (GotUser, and a "user" that fails).
LEMMA UserArrivesKeeps ==
    ASSUME SetupInv, NEW u \in BOOLEAN, Pages!UserArrives(u), gets["user"] # None,
           UNCHANGED <<Pages!server, path, public, publicLoading, setup, seen, spoilt>>,
           trouble' \in BOOLEAN, trouble => trouble', ~trouble' => u = session
    PROVE  SetupInv'
<1> USE DEF SetupInv
<1>0. /\ loadingUser' = FALSE /\ Bools /\ Others /\ GetsType(gets)
  BY TypedParts DEF Pages!UserArrives
<1>1. PICK gs : gs = Pages!Without("user")
  OBVIOUS
<1>2. /\ GetsType(gs) /\ gs["user"] = None
      /\ \A h \in Pages!Gets \ {"user"} : gs[h] = gets[h]
  BY <1>0, <1>1, Taken, GetNames
<1>3. gs["public"] = gets["public"] /\ gs["rename"] = gets["rename"]
      /\ \A h \in Pages!FullGets : gs[h] = gets[h]
  BY <1>2, GetNames
<1>4. CASE u
  <2>1. Pages!SetUser(TRUE, gs)
    BY <1>1, <1>4 DEF Pages!UserArrives, Pages!SetUser
  <2>2. /\ user' = TRUE /\ full' = full /\ fullLoading' = TRUE /\ GetsType(gets')
        /\ \E e \in Effects :
              /\ gs[e] = None /\ gets'[e] = Asked
              /\ \A h \in Pages!Gets \ {e} : gets'[h] = gs[h]
    BY <1>2, <2>1, SetUserTrue
  <2>3. PICK e \in Pages!FullGets :
              /\ gets'[e] = Asked
              /\ \A h \in Pages!FullGets \ {e} : gets'[h] = gets[h]
              /\ gets'["rename"] = gets["rename"] /\ gets'["public"] = gets["public"]
              /\ gets'["user"] = None
    BY <1>2, <1>3, <2>2, GetNames
  <2>4. Typed'
    BY <1>0, <2>2 DEF Typed, Pages!TypeOK, GetsType, Bools, Others, Pages!server
  <2>5. Waits'
    BY <1>0, <2>2, <2>3, AnswersDiffer DEF Waits, Pending
  <2>6. Server' /\ Spoilt'
    BY <1>0, <2>2, <2>3 DEF Server, Spoilt, Pages!Answered, Pages!server
  <2>7. ASSUME ~trouble' PROVE UserTrue' /\ PublicTrue'
    <3>1. session
      BY <1>4, <2>7
    <3> QED
      BY <1>0, <2>2, <2>3, <2>7, <3>1 DEF UserTrue, PublicTrue, Pending, Pages!Answered,
                                          Pages!server, Bools
  <2>8. ASSUME ~trouble' PROVE FullTrue'
    BY <1>0, <2>2, <2>3, <2>8, FullAsked DEF Pages!server
  <2> QED
    BY <1>0, <2>4, <2>5, <2>6, <2>7, <2>8
<1>5. CASE ~u
  <2>1. user' = FALSE /\ gets' = gs /\ fullLoading' = fullLoading /\ full' \in {None, full}
    BY <1>0, <1>1, <1>5, SetUserFalse DEF Pages!UserArrives, Pages!SetUser, Bools
  <2>2. Typed'
    <3>1. Bools'
      BY <1>0, <2>1 DEF Bools, Pages!server
    <3>2. Others' /\ GetsType(gets)'
      BY <1>0, <1>2, <2>1 DEF Others, GetsType, Pages!server
    <3> QED
      BY <3>1, <3>2, TypedPartsNext
  <2>3. Waits'
    BY <1>0, <1>2, <1>3, <2>1 DEF Waits, Pending
  <2>4. Server' /\ Spoilt'
    BY <1>0, <1>3, <2>1 DEF Server, Spoilt, Pages!Answered, Pages!server
  <2>5. ASSUME ~trouble' PROVE UserTrue' /\ PublicTrue'
    <3>1. ~session
      BY <1>0, <1>5, <2>5 DEF Bools
    <3> QED
      BY <1>0, <1>2, <1>3, <2>1, <2>5, <3>1 DEF UserTrue, PublicTrue, Pending,
         Pages!Answered, Pages!server, Bools
  <2>6. ASSUME ~trouble' PROVE FullTrue'
    BY <1>0, <1>3, <2>1, <2>6 DEF FullTrue, NoNewer, Got, Pending, Pages!Answered,
                                  Pages!server
  <2> QED
    BY <2>2, <2>3, <2>4, <2>5, <2>6
<1> QED
  BY <1>4, <1>5

LEMMA GotUserKeeps ==
    ASSUME SetupInv, Pages!GotUser PROVE SetupInv'
<1> USE DEF SetupInv
<1>1. /\ Pages!Answered("user") /\ Pages!UserArrives(gets["user"].user)
      /\ UNCHANGED <<Pages!server, path, public, publicLoading, setup, seen, spoilt, trouble>>
      /\ Bools /\ GetsType(gets)
  BY TypedParts DEF Pages!GotUser
<1>2. gets["user"].user \in BOOLEAN /\ gets["user"] # None
  BY <1>1 DEF Pages!Answered, GetsType, Users
<1>3. ~trouble' => gets["user"].user = session
  BY <1>1 DEF UserTrue
<1> QED
  BY <1>1, <1>2, <1>3, UserArrivesKeeps DEF Bools

LEMMA FailsKeeps ==
    ASSUME SetupInv, NEW g \in Pages!Gets, Pages!Fails(g) PROVE SetupInv'
<1> USE DEF SetupInv
<1>0. /\ UNCHANGED <<Pages!server, path, public, seen, spoilt>>
      /\ gets[g] = Asked /\ gets[g] # None /\ trouble' = (trouble \/ session \/ g = "public")
      /\ Bools /\ Others /\ GetsType(gets)
  BY TypedParts, AnswersDiffer DEF Pages!Fails
<1>1. CASE g = "user"
  <2>1. Pages!UserArrives(FALSE) /\ publicLoading' = publicLoading /\ setup' = setup
    BY <1>0, <1>1 DEF Pages!Fails, Bools
  <2>2. ~trouble' => FALSE = session
    BY <1>0 DEF Bools
  <2>3. trouble' \in BOOLEAN /\ (trouble => trouble')
    BY <1>0 DEF Bools
  <2> QED
    BY <1>0, <1>1, <2>1, <2>2, <2>3, UserArrivesKeeps
<1>2. CASE g # "user"
  <2>1. /\ gets' = Pages!Without(g) /\ UNCHANGED <<user, loadingUser, full>>
        /\ fullLoading' = (fullLoading /\ g \notin Pages!FullGets)
        /\ publicLoading' = (publicLoading /\ g # "public")
        /\ setup' = (setup /\ g # "public")
    BY <1>2 DEF Pages!Fails
  <2>2. PICK gs : gs = gets'
    OBVIOUS
  <2>3. GetsType(gs) /\ gs[g] = None /\ \A h \in Pages!Gets \ {g} : gs[h] = gets[h]
    BY <1>0, <2>1, <2>2, Taken
  <2>4. Typed'
    <3>1. Bools'
      BY <1>0, <2>1 DEF Bools, Pages!server
    <3>2. Others' /\ GetsType(gets)'
      BY <1>0, <2>1, <2>2, <2>3 DEF Others, Pages!server
    <3> QED
      BY <3>1, <3>2, TypedPartsNext
  <2>5. Waits'
    BY <1>0, <1>2, <2>1, <2>2, <2>3, GetNames DEF Waits, Pending
  <2>6. Server' /\ Spoilt'
    BY <1>0, <2>1, <2>2, <2>3, GetNames DEF Server, Spoilt, Pages!Answered, Pages!server
  <2>7. ASSUME ~trouble' PROVE UserTrue' /\ PublicTrue'
    <3>1. ~trouble /\ ~session /\ g # "public"
      BY <1>0, <2>7
    <3> QED
      BY <1>0, <1>2, <2>1, <2>2, <2>3, <3>1, GetNames
         DEF UserTrue, PublicTrue, Pending, Pages!Answered, Pages!server
  <2>8. ASSUME ~trouble' PROVE FullTrue'
    <3>1. ~trouble /\ ~user /\ ~user'
      BY <1>0, <2>1, <2>8 DEF UserTrue
    <3>2. \A h \in Pages!FullGets : Pages!Answered(h)' => Pages!Answered(h) /\ gets'[h] = gets[h]
      BY <2>2, <2>3, GetNames DEF Pages!Answered
    <3> QED
      BY <1>0, <2>1, <3>1, <3>2 DEF FullTrue, NoNewer, Got, Pages!server
  <2> QED
    BY <1>0, <2>4, <2>5, <2>6, <2>7, <2>8
<1> QED
  BY <1>1, <1>2

LEMMA GotPublicKeeps ==
    ASSUME SetupInv, Pages!GotPublic PROVE SetupInv'
<1> USE DEF SetupInv
<1>0. /\ UNCHANGED <<Pages!server, path, user, loadingUser, fullLoading, seen, trouble>>
      /\ Pages!Answered("public") /\ public' = gets["public"].initialized
      /\ publicLoading' = FALSE
      /\ gets' = Pages!Without("public") /\ setup' = FALSE
      /\ \/ full' = full /\ spoilt' = spoilt
         \/ full' = None /\ full = None /\ spoilt' = spoilt
         \/ full' = None /\ spoilt' = "dropped"
      /\ Bools /\ Others /\ GetsType(gets)
  BY TypedParts DEF Pages!GotPublic
<1>1. PICK gs : gs = gets'
  OBVIOUS
<1>2. /\ GetsType(gs) /\ gs["public"] = None
      /\ \A h \in Pages!Gets \ {"public"} : gs[h] = gets[h]
  BY <1>0, <1>1, Taken, GetNames
<1>3. gs["user"] = gets["user"] /\ gs["rename"] = gets["rename"]
      /\ \A h \in Pages!FullGets : gs[h] = gets[h]
  BY <1>2, GetNames
<1>4. gets["public"].initialized \in BOOLEAN
  BY <1>0 DEF Pages!Answered, GetsType, Publics
<1>5. Typed'
  <2>1. Bools'
    BY <1>0, <1>4 DEF Bools, Pages!server
  <2>2. Others' /\ GetsType(gets)'
    BY <1>0, <1>1, <1>2 DEF Others, Pages!server
  <2> QED
    BY <2>1, <2>2, TypedPartsNext
<1>6. Waits'
  BY <1>0, <1>1, <1>3 DEF Waits, Pending
<1>7. Server'
  BY <1>0, <1>1, <1>3 DEF Server, Pages!Answered, Pages!server
<1>8. Spoilt'
  BY <1>0 DEF Spoilt
<1>9. ASSUME ~trouble PROVE UserTrue' /\ PublicTrue'
  <2>1. PublicTrue'
    BY <1>0, <1>1, <1>2, <1>9 DEF PublicTrue, Pending, Pages!Answered, Pages!server
  <2>2. UserTrue'
    BY <1>0, <1>1, <1>3, <1>9 DEF UserTrue, Pending, Pages!Answered, Pages!server
  <2> QED
    BY <2>1, <2>2
<1>10. ASSUME ~trouble PROVE FullTrue'
  <2>1. CASE full' = full /\ spoilt' = spoilt
    BY <1>0, <1>1, <1>3, <1>10, <2>1, FullKept DEF Pages!server
  <2>2. CASE full' = None /\ spoilt' = "dropped"
    BY <1>0, <1>1, <1>3, <1>10, <2>2 DEF FullTrue, NoNewer, Got, Pending, Pages!Answered,
                                         Pages!server
  <2> QED
    BY <1>0, <2>1, <2>2
<1> QED
  BY <1>0, <1>5, <1>6, <1>7, <1>8, <1>9, <1>10

LEMMA GotFullKeeps ==
    ASSUME SetupInv, NEW g \in Pages!FullGets, Pages!GotFull(g) PROVE SetupInv'
<1> USE DEF SetupInv
<1>0. /\ UNCHANGED <<Pages!server, path, user, loadingUser, public, publicLoading, setup, trouble>>
      /\ Pages!Answered(g) /\ full' = Got(g) /\ fullLoading' = FALSE
      /\ gets' = Pages!Without(g)
      /\ \/ Pages!Rank(Got(g)) < seen /\ spoilt' = "older" /\ seen' = seen
         \/ ~(Pages!Rank(Got(g)) < seen) /\ spoilt' = "no" /\ seen' = Pages!Rank(Got(g))
      /\ Bools /\ Others /\ GetsType(gets) /\ g \in Pages!Gets
  BY TypedParts, GetNames DEF Pages!GotFull, Got
<1>1. PICK gs : gs = gets'
  OBVIOUS
<1>2. /\ GetsType(gs) /\ gs[g] = None
      /\ \A h \in Pages!Gets \ {g} : gs[h] = gets[h]
  BY <1>0, <1>1, Taken
<1>3. /\ gs["user"] = gets["user"] /\ gs["rename"] = gets["rename"]
      /\ gs["public"] = gets["public"]
      /\ \A h \in Pages!FullGets \ {g} : gs[h] = gets[h]
  BY <1>2, GetNames
<1>4. Got(g) \in Pages!Status /\ Got(g) # None /\ \A s \in Pages!Status : Pages!Rank(s) \in 1..3
  BY <1>0, AnswersDiffer DEF Pages!Answered, GetsType, Fulls, Got, Pages!Status,
                             Pages!PiholeStatus, Pages!Rank
<1>5. Typed'
  <2>1. Bools'
    BY <1>0 DEF Bools, Pages!server
  <2>2. Others' /\ GetsType(gets)'
    BY <1>0, <1>1, <1>2, <1>4 DEF Others, Pages!server
  <2> QED
    BY <2>1, <2>2, TypedPartsNext
<1>6. Waits'
  BY <1>0, <1>1, <1>3 DEF Waits, Pending
<1>7. Server'
  BY <1>0, <1>1, <1>3, <1>4 DEF Server, Pages!Answered, Pages!server
<1>8. Spoilt'
  BY <1>0, <1>4 DEF Spoilt
<1>9. ASSUME ~trouble PROVE UserTrue' /\ PublicTrue'
  BY <1>0, <1>1, <1>3, <1>9 DEF UserTrue, PublicTrue, Pending, Pages!Answered,
                                Pages!server
<1>10. ASSUME ~trouble PROVE FullTrue'
  <2>1. NoNewer(Got(g)) /\ status \in Pages!Status
    BY <1>0, <1>10 DEF FullTrue, Others
  <2>2. NoNewer(full)'
    BY <1>0, <2>1 DEF NoNewer, Pages!server
  <2>3. ASSUME NEW h \in Pages!FullGets, Pages!Answered(h)' PROVE NoNewer(Got(h))'
    <3>1. h # g /\ gets'[h] = gets[h]
      BY <1>1, <1>2, <1>3, <2>3 DEF Pages!Answered
    <3> QED
      BY <1>0, <1>10, <2>3, <3>1 DEF FullTrue, NoNewer, Got, Pages!Answered, Pages!server
  <2>4. seen' <= Pages!Rank(status')
    BY <1>0, <1>4, <1>10, <2>1 DEF FullTrue, NoNewer, Pages!server
  <2>5. ASSUME user'
        PROVE  \/ seen' = Pages!Rank(status')
               \/ \E h \in Pages!FullGets : gets'[h] = Asked \/ (Pages!Answered(h) /\ Got(h) = status)'
    <3>1. CASE seen = Pages!Rank(status)
      BY <1>0, <1>4, <2>1, <2>4, <3>1 DEF Pages!server, Others
    <3>2. ASSUME NEW h \in Pages!FullGets, gets[h] = Asked \/ (Pages!Answered(h) /\ Got(h) = status)
          PROVE  \/ seen' = Pages!Rank(status')
                 \/ \E k \in Pages!FullGets : gets'[k] = Asked \/ (Pages!Answered(k) /\ Got(k) = status)'
      <4>1. CASE h = g
        <5>1. Got(g) = status
          BY <1>0, <3>2, <4>1 DEF Pages!Answered
        <5> QED
          BY <1>0, <1>4, <1>10, <2>4, <5>1 DEF FullTrue, Pages!server, Others
      <4>2. CASE h # g
        BY <1>0, <1>1, <1>3, <3>2, <4>2 DEF Pages!Answered, Got, Pages!server
      <4> QED
        BY <4>1, <4>2
    <3> QED
      BY <1>0, <1>10, <2>5, <3>1, <3>2 DEF FullTrue
  <2> QED
    BY <1>0, <1>4, <2>2, <2>3, <2>4, <2>5 DEF FullTrue
<1> QED
  BY <1>0, <1>5, <1>6, <1>7, <1>8, <1>9, <1>10

\* Every step keeps the invariant.
LEMMA SetupInvNext == SetupInv /\ [Pages!Next]_(Pages!vars) => SetupInv'
<1> SUFFICES ASSUME SetupInv, [Pages!Next]_(Pages!vars) PROVE SetupInv'
  OBVIOUS
<1>1. CASE Pages!Next
  BY <1>1, RedirectKeeps, ServeKeeps, FailsKeeps, GotUserKeeps, GotPublicKeeps,
     GotFullKeeps,
     GotRenameKeeps, LoginKeeps, CreateUserKeeps, ElsewhereKeeps, FinishSetupKeeps,
     SetupLogoutKeeps,
     RenameKeeps, VisitKeeps DEF Pages!Next
<1>2. CASE UNCHANGED Pages!vars
  BY <1>2, PathKeeps DEF Pages!vars, SetupInv, Typed, Pages!TypeOK
<1> QED
  BY <1>1, <1>2

\* The routes never send the browser round in circles.
LEMMA NoLoop == Typed => Pages!NoRedirectLoop
<1> SUFFICES ASSUME Bools, NEW p \in Pages!Paths
             PROVE  Pages!Goes(Pages!Goes(Pages!Goes(p))) = Pages!Goes(Pages!Goes(p))
  BY TypedParts DEF Pages!NoRedirectLoop
<1>1. Pages!Goes("/") \in {"/", "/login", "/setup/user"}
  BY DEF Pages!Goes, Pages!Protected
<1>2. Pages!Goes("/setup/piholes") \in {"/", "/setup/piholes", "/login", "/setup/user"}
  BY DEF Pages!Goes, Pages!Protected
<1> QED
  BY ZenonT(60) DEF Pages!Goes, Pages!Paths, Pages!Protected, Pages!UnprotectedRoute,
                  Pages!Loading

\* When everything is answered, the contexts hold what the server holds.
LEMMA QuietRight == SetupInv => Pages!RightPage
<1> SUFFICES ASSUME SetupInv, Pages!Quiet, ~trouble
             PROVE  /\ ~loadingUser /\ ~publicLoading /\ ~fullLoading /\ ~setup
                    /\ user = session /\ public = account
                    /\ user => CASE spoilt = "no" -> full = status
                                 [] spoilt = "dropped" -> full = None
                                 [] spoilt = "older" -> full # status
                    /\ CASE user -> path \in {"/", "/setup/piholes"}
                         [] ~user /\ account -> path = "/login"
                         [] ~user /\ ~account -> path = "/setup/user"
                    /\ path = "/setup/piholes" =>
                            spoilt # "no" \/ ~Pages!isFullyInitialized(status)
  BY DEF Pages!RightPage
<1>0. Bools /\ Others /\ Waits /\ Spoilt /\ UserTrue /\ PublicTrue /\ FullTrue
  BY TypedParts DEF SetupInv
<1>1. \A g \in Pages!Gets : ~Pending(g) /\ ~Pages!Answered(g) /\ gets[g] # Asked
  BY AnswersDiffer DEF Pages!Quiet, Pages!NoGet, Pending, Pages!Answered
<1>2. ~loadingUser /\ ~publicLoading /\ ~fullLoading /\ ~setup
  BY <1>0, <1>1, GetNames DEF Waits
<1>3. user = session /\ public = account
  BY <1>0, <1>1, GetNames DEF UserTrue, PublicTrue
<1>4. user /\ spoilt = "no" => full = status
  <2> SUFFICES ASSUME user, spoilt = "no" PROVE full = status
    OBVIOUS
  <2>1. full # None
    BY <1>0, <1>1, GetNames DEF FullTrue
  <2>2. Pages!Rank(full) = seen /\ seen = Pages!Rank(status) /\ NoNewer(full)
    BY <1>0, <1>1, <2>1, GetNames DEF FullTrue, Spoilt
  <2>3. Pages!Rank(status) \in 1..3
    BY <1>0 DEF Others, Pages!Status, Pages!PiholeStatus, Pages!Rank
  <2> QED
    BY <2>2, <2>3 DEF NoNewer
<1>5. spoilt = "dropped" => full = None
  BY <1>0 DEF Spoilt
<1>6. user /\ spoilt = "older" => full # status
  <2>1. Pages!Rank(status) \in 1..3 /\ status # None /\ seen \in 0..3
    BY <1>0, AnswersDiffer DEF Others, Pages!Status, Pages!PiholeStatus, Pages!Rank
  <2> QED
    BY <1>0, <2>1 DEF Spoilt, FullTrue
<1>7. ~Pages!Loading(path) /\ Pages!Goes(path) = path /\ path \in Pages!Paths
  BY <1>0, <1>2 DEF Pages!Quiet, Pages!Loading, Others
<1>8. /\ user => path \in {"/", "/setup/piholes"}
      /\ ~user /\ account => path = "/login"
      /\ ~user /\ ~account => path = "/setup/user"
      /\ path = "/setup/piholes" => user /\ ~Pages!isFullyInitialized(full)
  BY <1>0, <1>3, <1>7 DEF Pages!Goes, Pages!Paths, Pages!Protected,
                          Pages!UnprotectedRoute, Bools
<1>9. CASE user
  <2>1. (CASE spoilt = "no" -> full = status
           [] spoilt = "dropped" -> full = None
           [] spoilt = "older" -> full # status)
    BY <1>0, <1>4, <1>5, <1>6, <1>9 DEF Others
  <2>2. path = "/setup/piholes" => spoilt # "no" \/ ~Pages!isFullyInitialized(status)
    BY <1>4, <1>8
  <2> QED
    BY <1>2, <1>3, <1>8, <1>9, <2>1, <2>2
<1>10. CASE ~user
  BY <1>2, <1>3, <1>8, <1>10
<1> QED
  BY <1>9, <1>10

\* Whatever order the GETs are answered in, the browser ends up on the right
\* page, up to the two ways in which the full status is lost, and the routes
\* never loop (AuthProvider.tsx, InitializationStatusProvider.tsx, routes).
THEOREM PagesSafe == Pages!Spec => []Pages!SetupSafe
<1>1. SetupInv => Pages!SetupSafe
  BY NoLoop, QuietRight DEF SetupInv, Typed, Pages!SetupSafe
<1> QED
  BY <1>1, SetupInvInit, SetupInvNext, PTL DEF Pages!Spec

-----------------------------------------------------------------------------
(* Side by side.                                                           *)

\* A part that does not move stutters.
LEMMA SideBySide ==
    PartsSpec => Spec /\ Page!Spec /\ Dialog!Spec /\ Pages!Spec
<1>1. PartsInit => Init /\ Page!Init /\ Dialog!Init /\ Pages!Init
  BY DEF PartsInit
<1>2. [PartsNext]_allVars => [Next]_vars
  BY DEF PartsNext, allVars, tab, vars
<1>3. [PartsNext]_allVars => [Page!Next]_(Page!vars)
  BY DEF PartsNext, allVars, page, Page!vars, Page!server, Page!tab
<1>4. [PartsNext]_allVars => [Dialog!Next]_(Dialog!vars)
  BY DEF PartsNext, allVars, dialog, Dialog!vars
<1>5. [PartsNext]_allVars => [Pages!Next]_(Pages!vars)
  BY DEF PartsNext, allVars, pages, Pages!vars, Pages!server, Pages!contexts
<1> QED
  BY <1>1, <1>2, <1>3, <1>4, <1>5, PTL
     DEF PartsSpec, Spec, Page!Spec, Dialog!Spec, Pages!Spec

\* Between sweeps a member's result is the last sweep's, unless that one lost it
\* to a panic of its worker (Client.AuthStatus, forEachClient), and of the other
\* members only a GET that read during a sweep mixes two of them
\* (healthservice/service.go, useClusterHealth.ts).
THEOREM HealthStaysSafe == PartsSpec => []HealthSafe
<1>1. Page!HealthSafe => HealthSafe
  BY DEF HealthSafe
<1> QED
  BY <1>1, SideBySide, FrontEndAssumption, ViewSafe, PTL

\* What a page shows goes back only by the answers of its first GETs
\* (useClusterHealth.ts).
THEOREM FrontEndGoesOn == PartsSpec => GoesBackOnlyAtFirstGet
BY SideBySide, ViewGoesOn, PTL DEF GoesBackOnlyAtFirstGet

\* However many saves overlap, nothing is saved untested unless a test failed,
\* and what was tested works once it is saved, unless its password had blanks at
\* its ends, which the store does not keep (PiholeNodeForm.tsx, store/pihole.go).
THEOREM FormStaysSafe == PartsSpec => []FormSafe
<1>1. Dialog!FormSafe => FormSafe
  BY DEF FormSafe
<1> QED
  BY <1>1, SideBySide, FrontEndAssumption, DialogSafe, PTL

\* A connection test that has ended has left no session at a Pi-hole, but one per
\* answer that was lost (piholeservice/service.go).
THEOREM NoTestLeavesSession == PartsSpec => []TestsLeaveNoSession
<1>1. Dialog!TestsLeaveNoSession => TestsLeaveNoSession
  BY DEF TestsLeaveNoSession
<1> QED
  BY <1>1, SideBySide, FrontEndAssumption, DialogSafe, PTL

\* When all is answered the browser is on the right page, and the routes never
\* loop (AuthProvider.tsx, InitializationStatusProvider.tsx, routes).
THEOREM SetupStaysSafe == PartsSpec => []SetupSafe
<1>1. Pages!SetupSafe => SetupSafe
  BY DEF SetupSafe
<1> QED
  BY <1>1, SideBySide, FrontEndAssumption, PagesSafe, PTL
=============================================================================
