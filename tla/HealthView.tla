----------------------------- MODULE HealthView -----------------------------
(***************************************************************************)
(* What the health service knows of the nodes and what a browser tab shows  *)
(* of it.  A sweep writes one result per node into a map under the lock and *)
(* publishes the summary and the list.  A tab fills its view from two GETs  *)
(* when it is mounted and from events while it is connected; the GET of     *)
(* the list takes a reference to the map under the lock and reads it after. *)
(*                                                                         *)
(* A result, a summary and a list are told apart by their age alone: 0 for  *)
(* the sweep that wrote last, one more for each sweep since, and MaxAge for *)
(* anything older, so that sweeps need no bound.                            *)
(***************************************************************************)
EXTENDS Integers, Sequences, FiniteSets

CONSTANTS
    Nodes,          \* node ids, never handed out twice
    MaxAge,         \* ages are told apart up to this one
    Cap,            \* events waiting for one tab
    MayPanic,       \* nodes whose worker may panic: the address stored for them may
                    \* be one that makes no URL
    None            \* nothing there

Ages == 0..MaxAge
Lists == [Nodes -> Ages \cup {None}]

ViewAssumption ==
    /\ MaxAge \in Nat \ {0} /\ Cap \in Nat \ {0}
    /\ None \notin Ages \cup Lists
    /\ MayPanic \subseteq Nodes

VARIABLES
    members,        \* Cluster.clients
    known,          \* the node ids handed out so far
    nodeHealth,     \* Service.nodeHealth: the age of each node's result, or None
    summary,        \* Service.summary: its age, MaxAge for the zero value
    sweep,          \* sweepOnce: where it is, the results still to write, and (history)
                    \* the members that have none and keep an earlier one
    connected,      \* the tab's event stream is open at both ends
    queue,          \* events published to it and not delivered
    get,            \* the GETs of the mounted page and their answers
    view            \* what the page shows, and (history) what of it a GET brought and
                    \* which nodes kept an earlier result in its list

server == <<nodeHealth, summary, sweep>>
tab == <<connected, queue, get, view>>
vars == <<members, known, server, tab>>

Empty == [n \in Nodes |-> None]
NoSweep == [pc |-> "idle", todo |-> {}, lost |-> {}]
NoGet == [pc |-> "off", summary |-> None, nodes |-> "unread", left |-> {}, list |-> Empty]
NoView == [summary |-> None, list |-> None, lost |-> {}, got |-> {}]

Init ==
    /\ members \in SUBSET Nodes
    /\ known = members
    /\ nodeHealth = Empty
    /\ summary = MaxAge
    /\ sweep = NoSweep
    /\ connected = FALSE
    /\ queue = <<>>
    /\ get = NoGet
    /\ view = NoView

-----------------------------------------------------------------------------
(* A sweep.                                                                *)

\* s.mu is held from the first write to the last event.
Locked == sweep.pc \in {"write", "list"}

At(pc) == sweep.pc = pc

Older(a) == IF a = None \/ a = MaxAge THEN a ELSE a + 1
OlderList(l) == IF l = None THEN None ELSE [n \in Nodes |-> Older(l[n])]

\* History: of the nodes x, those whose results in the list l are still told
\* apart from those of others.
Apart(l, x) ==
    {n \in x : \E m \in Nodes : None \notin {l[m], l[n]} /\ l[m] # l[n]}

OlderEvent(e) ==
    [summary |-> Older(e.summary), list |-> OlderList(e.list),
     lost |-> Apart(OlderList(e.list), e.lost)]

\* Cluster.AuthStatus takes its snapshot of the members.
StartSweep ==
    /\ At("idle")
    /\ sweep' = [pc |-> "call", todo |-> members, lost |-> {}]
    /\ UNCHANGED <<members, known, nodeHealth, summary, tab>>

\* Every worker has ended, and the lock is taken; from here all that was known
\* before is one sweep older.  A node that answered or failed has a result.  A
\* worker that panicked leaves none: Client.AuthStatus goes on without a request
\* when the node's address makes no URL, as an edit may leave it or mend it.
BeginWrite ==
    /\ At("call")
    /\ \E lost \in SUBSET (sweep.todo \cap MayPanic) :
        sweep' = [pc |-> "write", todo |-> sweep.todo \ lost,
                  lost |-> {n \in lost : nodeHealth[n] # None}]
    /\ nodeHealth' = OlderList(nodeHealth)
    /\ summary' = Older(summary)
    /\ queue' = [i \in DOMAIN queue |-> OlderEvent(queue[i])]
    /\ get' = [get EXCEPT !.summary = Older(@), !.list = OlderList(@)]
    /\ view' = [view EXCEPT !.summary = Older(@), !.list = OlderList(@),
                            !.lost = Apart(OlderList(view.list), @)]
    /\ UNCHANGED <<members, known, connected>>

\* A node that failed is left out of the map.
WriteIfAnswered(n) == nodeHealth' \in {nodeHealth, [nodeHealth EXCEPT ![n] = 0]}

\* Answer or failure, a result of the sweep replaces the one before.
Write(n) == nodeHealth' = [nodeHealth EXCEPT ![n] = 0]

WriteResult(n) ==
    /\ At("write")
    /\ n \in sweep.todo
    /\ Write(n)
    /\ sweep' = [sweep EXCEPT !.todo = @ \ {n}]
    /\ UNCHANGED <<members, known, summary, tab>>

\* The broker's channel takes one event only.
RoomForOne == queue = <<>>

Room == Len(queue) < Cap

\* Broker.Publish, as far as this tab goes: dropped when it is full.
Publish(event) ==
    queue' = IF connected /\ Room THEN Append(queue, event) ELSE queue

\* recomputeLocked: the summary over the whole map, then the list of it.
PublishSummary ==
    /\ At("write") /\ sweep.todo = {}
    /\ sweep' = [sweep EXCEPT !.pc = "list"]
    /\ summary' = 0
    /\ Publish([summary |-> 0, list |-> None, lost |-> {}])
    /\ UNCHANGED <<members, known, nodeHealth, connected, get, view>>

PublishList ==
    /\ At("list")
    /\ sweep' = [sweep EXCEPT !.pc = "idle"]
    /\ Publish([summary |-> None, list |-> nodeHealth, lost |-> sweep.lost])
    /\ UNCHANGED <<members, known, nodeHealth, summary, connected, get, view>>

SweepStep ==
    \/ BeginWrite \/ PublishSummary \/ PublishList
    \/ \E n \in Nodes : WriteResult(n)

-----------------------------------------------------------------------------
(* The page.                                                               *)

\* useClusterHealth is mounted and sends both GETs at once.
Mount ==
    /\ get.pc = "off"
    /\ get' = [NoGet EXCEPT !.pc = "asked"]
    /\ UNCHANGED <<members, known, server, connected, queue, view>>

\* Unmounted: answers that are still to come are ignored.
Unmount ==
    /\ get.pc # "off"
    /\ get' = NoGet
    /\ view' = NoView
    /\ connected' = FALSE
    /\ queue' = <<>>
    /\ UNCHANGED <<members, known, server>>

\* GetSummary, under the read lock.
ReadSummary ==
    /\ get.pc = "asked" /\ get.summary = None
    /\ ~Locked
    /\ get' = [get EXCEPT !.summary = summary]
    /\ UNCHANGED <<members, known, server, connected, queue, view>>

\* GetNodeHealth returns the map itself, under the read lock.
TakeMap ==
    /\ get.pc = "asked" /\ get.nodes = "unread"
    /\ ~Locked
    /\ get' = [get EXCEPT !.nodes = "reading",
                          !.left = {n \in Nodes : nodeHealth[n] # None}]
    /\ UNCHANGED <<members, known, server, connected, queue, view>>

\* The handler ranges over it after the lock was released.
RangeMap(n) ==
    /\ get.pc = "asked" /\ n \in get.left
    /\ get' = [get EXCEPT !.left = @ \ {n}, !.list[n] = nodeHealth[n]]
    /\ UNCHANGED <<members, known, server, connected, queue, view>>

\* Both answers are there (Promise.all): they replace what the page shows.
ShowAnswers ==
    /\ get.pc = "asked" /\ get.summary # None
    /\ get.nodes = "reading" /\ get.left = {}
    /\ get' = [NoGet EXCEPT !.pc = "settled"]
    /\ view' = [summary |-> get.summary, list |-> get.list,
                lost |-> {}, got |-> {"summary", "list"}]
    /\ UNCHANGED <<members, known, server, connected, queue>>

\* Either GET fails: caught, and nothing is set.
GetFails ==
    /\ get.pc = "asked"
    /\ get' = [NoGet EXCEPT !.pc = "settled"]
    /\ UNCHANGED <<members, known, server, connected, queue, view>>

Connected ==
    /\ get.pc # "off" /\ ~connected
    /\ connected' = TRUE
    /\ UNCHANGED <<members, known, server, queue, get, view>>

Disconnected ==
    /\ connected
    /\ connected' = FALSE
    /\ queue' = <<>>
    /\ UNCHANGED <<members, known, server, get, view>>

\* Each event is delivered by a goroutine of its own.
NextEventAny == CHOOSE i \in DOMAIN queue : i = Len(queue)

NextEvent == 1

Show(e) ==
    IF e.list = None
    THEN [view EXCEPT !.summary = e.summary, !.got = @ \ {"summary"}]
    ELSE [view EXCEPT !.list = e.list, !.lost = e.lost, !.got = @ \ {"list"}]

Deliver ==
    /\ queue # <<>>
    /\ view' = Show(queue[NextEvent])
    /\ queue' = [i \in 1..(Len(queue) - 1) |->
                    IF i < NextEvent THEN queue[i] ELSE queue[i + 1]]
    /\ UNCHANGED <<members, known, server, connected, get>>

-----------------------------------------------------------------------------
(* The surroundings.                                                       *)

AddNode ==
    \E n \in Nodes \ known :
        /\ members' = members \cup {n}
        /\ known' = known \cup {n}
        /\ UNCHANGED <<server, tab>>

RemoveNode ==
    \E n \in members :
        /\ members' = members \ {n}
        /\ UNCHANGED <<known, server, tab>>

\* "concurrent map iteration and map write" ends the process, when the runtime
\* notices; it starts again with an empty map.
MapFault ==
    /\ At("write")
    /\ get.left # {}
    /\ nodeHealth' = Empty
    /\ summary' = MaxAge
    /\ sweep' = NoSweep
    /\ connected' = FALSE
    /\ queue' = <<>>
    /\ get' = [NoGet EXCEPT !.pc = "settled"]
    /\ UNCHANGED <<members, known, view>>

Next ==
    \/ StartSweep \/ SweepStep
    \/ Mount \/ Unmount \/ ReadSummary \/ TakeMap \/ ShowAnswers \/ GetFails
    \/ \E n \in Nodes : RangeMap(n)
    \/ Connected \/ Disconnected \/ Deliver
    \/ AddNode \/ RemoveNode \/ MapFault

Spec == Init /\ [][Next]_vars

\* Sweeps go on as long as someone is subscribed, node calls have a deadline,
\* and a tab that is connected takes its events.
Polls == connected /\ StartSweep
FairSpec == Spec /\ WF_vars(Polls) /\ WF_vars(SweepStep) /\ WF_vars(Deliver)

-----------------------------------------------------------------------------
(* Properties.                                                             *)

TypeOK ==
    /\ members \subseteq known /\ known \subseteq Nodes
    /\ nodeHealth \in Lists
    /\ summary \in Ages
    /\ sweep \in [pc : {"idle", "call", "write", "list"},
                  todo : SUBSET Nodes, lost : SUBSET Nodes]
    /\ connected \in BOOLEAN
    /\ queue \in Seq([summary : Ages, list : {None}, lost : {{}}]
                      \cup [summary : {None}, list : Lists, lost : SUBSET Nodes])
    /\ Len(queue) <= Cap
    /\ get \in [pc : {"off", "asked", "settled"}, summary : Ages \cup {None},
                nodes : {"unread", "reading"}, left : SUBSET Nodes, list : Lists]
    /\ view \in [summary : Ages \cup {None}, list : Lists \cup {None},
                 lost : SUBSET Nodes, got : SUBSET {"summary", "list"}]

\* Between sweeps, the result of a member is that of the last sweep, or it
\* joined after it, or the last sweep lost it to a panic: anything else that is
\* old, and is still counted in the totals and published for ever, belongs to
\* nodes that were removed.
OldResultsOfRemovedNodes ==
    At("idle") => \A n \in members : nodeHealth[n] \in {None, 0} \/ n \in sweep.lost

\* A list on the page that mixes the results of two sweeps, for nodes that are
\* still members, is one that a GET read while a sweep wrote, or the published
\* list of a sweep that lost one of the two.
MixedOnlyByGet ==
    view.list # None /\ "list" \notin view.got =>
        \A m, n \in members \ view.lost :
            None \in {view.list[m], view.list[n]} \/ view.list[m] = view.list[n]

HealthSafe == TypeOK /\ OldResultsOfRemovedNodes /\ MixedOnlyByGet

OlderThan(old, new) == old # None /\ new # None /\ new > old

\* What an event has brought is never replaced by something older, whatever is
\* dropped or reconnected, but by the answer to the page's own first GETs: that
\* one may come after newer events.
GoesBackOnlyAtFirstGet ==
    [][BeginWrite \/ ShowAnswers
       \/ /\ "summary" \in view.got \/ ~OlderThan(view.summary, view'.summary)
          /\ "list" \in view.got \/ view.list = None \/ view'.list = None
             \/ \A n \in Nodes : ~OlderThan(view.list[n], view'.list[n])]_vars

\* A page that stays mounted and keeps a connection comes to show a summary and
\* a list for good, even when its first GETs fail or the process died of them.
ViewFillsUp == <>[]connected => <>[](view.summary # None /\ view.list # None)
=============================================================================
