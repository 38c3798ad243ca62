------------------------------ MODULE QueryLog ------------------------------
(***************************************************************************)
(* Paging through the query logs of all Pi-holes: Cluster.FetchQueryLogs   *)
(* with the CursorManager.  A first request names filters; every page that *)
(* is not the last comes with a cluster cursor, a handle to a snapshot of  *)
(* one cursor per node; a request with that cursor asks every node for its *)
(* next page.  Each request fans out to the nodes that are members when it *)
(* starts, and any of them may fail, time out or panic.                    *)
(*                                                                         *)
(* A Pi-hole is external: its log is the positions 1..LogLen, a page is    *)
(* one entry, and the cursor it returns is the position to go on from,     *)
(* which is the one it was given when nothing is left.  The log does not   *)
(* grow during a search; length and start do not matter to the properties. *)
(***************************************************************************)
EXTENDS Integers, Sequences, FiniteSets

CONSTANTS
    Browsers,       \* each has at most one request under way
    Nodes,          \* node ids, never handed out twice
    Filters,        \* the filters a user may search with
    NoFilters,      \* the zero value of FetchQueryLogFilters
    LogLen,         \* entries in the log of each node
    Matches,        \* Matches[n][f]: the entries of n that filters f select
    None,           \* no node cursor
    MaxPages,       \* bound on the cursors created by users who follow one search
    MaxCursors,     \* bound on the cursors created by users who go back
    MaxFailures     \* bound on failing node requests

Positions == 1..(LogLen + 1)
Entries == 1..LogLen

ASSUME QueryLogAssumption ==
    /\ LogLen \in Nat /\ MaxFailures \in Nat
    /\ MaxPages \in Nat /\ MaxCursors \in Nat
    /\ NoFilters \notin Filters /\ None \notin Positions
    /\ Matches \in [Nodes -> [Filters \cup {NoFilters} -> SUBSET Entries]]
    /\ \A n \in Nodes : Matches[n][NoFilters] = Entries

VARIABLES
    oneSearch,  \* TRUE: a browser makes one search and follows it page by page
                \* FALSE: it also sends earlier cursors and starts new searches
    members,    \* Cluster.clients
    known,      \* the node ids handed out so far
    states,     \* every search state created, by cursor: params and node cursors
    live,       \* cursors still in CursorManager.searchStatesByCursor
    expired,    \* cursors 1..expired are past their expiration (the TTL is fixed)
    fetch,      \* the request each browser has under way
    reply,      \* the last response each browser got
    trail,      \* history, by cursor: the search it belongs to
    failures    \* number of failed node requests

vars == <<oneSearch, members, known, states, live, expired, fetch, reply, trail,
          failures>>

Cursors == 1..Len(states)
Bound == IF oneSearch THEN MaxPages ELSE MaxCursors
NoEntries == [n \in Nodes |-> {}]
NoCursors == [n \in Nodes |-> None]

\* History of a search up to some page: the filters the user asked for, the
\* entries delivered, the nodes that answered every request, the page number.
NewTrail(f) == [filters |-> f, got |-> NoEntries, steady |-> Nodes, page |-> 1]

IdleFetch == [running |-> FALSE, cursor |-> 0, filters |-> NoFilters,
              pending |-> {}, next |-> NoCursors, got |-> NoEntries,
              trail |-> NewTrail(NoFilters)]
NoReply == [kind |-> "none", cursor |-> 0, answered |-> {},
            trail |-> NewTrail(NoFilters)]

Init ==
    /\ oneSearch \in BOOLEAN
    /\ members \in SUBSET Nodes
    /\ known = members
    /\ states = <<>>
    /\ live = {}
    /\ expired = 0
    /\ fetch = [b \in Browsers |-> IdleFetch]
    /\ reply = [b \in Browsers |-> NoReply]
    /\ trail = <<>>
    /\ failures = 0

-----------------------------------------------------------------------------
(* The request to one node.                                                *)

\* searchState.GetPiholeCursor, None without a search state.
OldCursor(b, n) ==
    IF fetch[b].cursor = 0 THEN None ELSE states[fetch[b].cursor].at[n]

\* The query string: the filters and, if there is one, the node's cursor.
NodeQuery(f, c) == [filters |-> f, cursor |-> c]

NodeRequestFromStart(b, n) ==
    IF OldCursor(b, n) = None
    THEN NodeQuery(fetch[b].filters, None)
    ELSE NodeQuery(states[fetch[b].cursor].params, None)

\* A node with a cursor in the snapshot is asked with the filters of the
\* snapshot; any other node with the filters of this very request.
NodeRequest(b, n) ==
    IF OldCursor(b, n) = None
    THEN NodeQuery(fetch[b].filters, None)
    ELSE NodeQuery(states[fetch[b].cursor].params, OldCursor(b, n))

\* External: what a Pi-hole answers.
Page(n, q) ==
    LET from == IF q.cursor = None THEN 1 ELSE q.cursor
        hits == {p \in Matches[n][q.filters] : p >= from}
    IN IF hits = {} THEN [entries |-> {}, cursor |-> from]
       ELSE LET first == CHOOSE p \in hits : \A o \in hits : p <= o
            IN [entries |-> {first}, cursor |-> first + 1]

-----------------------------------------------------------------------------
(* FetchQueryLogs.                                                         *)

\* The request passes the cursor lookup and forEachClient takes its snapshot
\* of the members.
Begin(b, c, f, t) ==
    fetch' = [fetch EXCEPT ![b] =
                [running |-> TRUE, cursor |-> c, filters |-> f,
                 pending |-> members, next |-> NoCursors, got |-> NoEntries,
                 trail |-> t]]

\* A search starts: no cursor, filters from the query string.
FirstRequest(b) ==
    /\ ~fetch[b].running
    /\ oneSearch => reply[b].kind = "none"
    /\ \E f \in Filters : Begin(b, 0, f, NewTrail(f))
    /\ UNCHANGED <<oneSearch, members, known, states, live, expired, reply, trail, failures>>

LookupConsumes(c) ==
    /\ c > expired /\ c \in live
    /\ live' = live \ {c}

\* CursorManager.GetSearchState finds the cursor, which it leaves in place.
Lookup(c) ==
    /\ c > expired /\ c \in live
    /\ live' = live

\* The handler takes nothing but the cursor from the query string, so the
\* request itself has no filters.
NextPage(b, c) ==
    /\ ~fetch[b].running
    /\ Lookup(c)
    /\ Begin(b, c, NoFilters, trail[c])
    /\ UNCHANGED <<oneSearch, members, known, states, expired, reply, trail, failures>>

\* "cursor expired or not found"; an expired search state is dropped here and
\* nowhere else.
Rejected(b, c) ==
    /\ ~fetch[b].running
    /\ c <= expired \/ c \notin live
    /\ live' = live \ {c}
    /\ reply' = [reply EXCEPT ![b] = [NoReply EXCEPT !.kind = "error", !.cursor = c]]
    /\ UNCHANGED <<oneSearch, members, known, states, expired, fetch, trail, failures>>

\* A browser goes on with the cursor of its last page, or sends an earlier
\* cursor again (a reload, a retry, another tab).
PageRequest(b) ==
    \E c \in Cursors :
        /\ oneSearch => reply[b].kind = "page" /\ reply[b].cursor = c
        /\ NextPage(b, c) \/ Rejected(b, c)

\* A node answers: its entries go to the results, its cursor to
\* nextPiholeCursors.
NodeAnswers(b, n) ==
    /\ n \in fetch[b].pending
    /\ LET page == Page(n, NodeRequest(b, n))
       IN fetch' = [fetch EXCEPT ![b].pending = @ \ {n},
                                 ![b].next[n] = page.cursor,
                                 ![b].got[n] = page.entries]
    /\ UNCHANGED <<oneSearch, members, known, states, live, expired, reply, trail, failures>>

\* A node fails, times out or its worker panics: no cursor is saved for it.
NodeFails(b, n) ==
    /\ n \in fetch[b].pending
    /\ failures < MaxFailures
    /\ failures' = failures + 1
    /\ fetch' = [fetch EXCEPT ![b].pending = @ \ {n}]
    /\ UNCHANGED <<oneSearch, members, known, states, live, expired, reply, trail>>

ChangedEverywhere(b) ==
    \/ fetch[b].cursor = 0
    \/ \A n \in Nodes : fetch[b].next[n] # OldCursor(b, n)

ChangedIfAnswered(b) == \E n \in Nodes : fetch[b].next[n] # None

\* Did any node that answered return a cursor it was not asked with?
Changed(b) ==
    \/ fetch[b].cursor = 0
    \/ \E n \in Nodes : fetch[b].next[n] # None
                        /\ fetch[b].next[n] # OldCursor(b, n)

Answered(b) == {n \in Nodes : fetch[b].next[n] # None}

Extended(b) ==
    [fetch[b].trail EXCEPT
        !.got = [n \in Nodes |-> @[n] \cup fetch[b].got[n]],
        !.steady = @ \cap Answered(b),
        !.page = @ + 1]

Reply(b, kind, c) ==
    /\ reply' = [reply EXCEPT ![b] =
                    [kind |-> kind, cursor |-> c, answered |-> Answered(b),
                     trail |-> Extended(b)]]
    /\ fetch' = [fetch EXCEPT ![b] = IdleFetch]

\* What CreateCursor keeps: the filters of this request, whatever the filters
\* of the search state it continues.
Snapshot(b) == [params |-> fetch[b].filters, at |-> fetch[b].next]

\* All nodes are done and some cursor changed: CreateCursor.
FinishPage(b) ==
    /\ fetch[b].running /\ fetch[b].pending = {}
    /\ Changed(b)
    /\ Len(states) < Bound
    /\ states' = Append(states, Snapshot(b))
    /\ live' = live \cup {Len(states) + 1}
    /\ trail' = Append(trail, Extended(b))
    /\ Reply(b, "page", Len(states) + 1)
    /\ UNCHANGED <<oneSearch, members, known, expired, failures>>

\* All nodes are done and no cursor changed: EndOfResults.
FinishEnd(b) ==
    /\ fetch[b].running /\ fetch[b].pending = {}
    /\ ~Changed(b)
    /\ Reply(b, "end", fetch[b].cursor)
    /\ UNCHANGED <<oneSearch, members, known, states, live, expired, trail, failures>>

-----------------------------------------------------------------------------
(* The surroundings.                                                       *)

\* The oldest unexpired cursor reaches its expiration.
Expire ==
    /\ expired < Len(states)
    /\ expired' = expired + 1
    /\ UNCHANGED <<oneSearch, members, known, states, live, fetch, reply, trail, failures>>

\* Cluster.AddClient and Cluster.RemoveClient.
AddNode ==
    \E n \in Nodes \ known :
        /\ members' = members \cup {n}
        /\ known' = known \cup {n}
        /\ UNCHANGED <<oneSearch, states, live, expired, fetch, reply, trail, failures>>

RemoveNode ==
    \E n \in members :
        /\ members' = members \ {n}
        /\ UNCHANGED <<oneSearch, known, states, live, expired, fetch, reply, trail, failures>>

Work(b) ==
    \/ PageRequest(b)
    \/ \E n \in Nodes : NodeAnswers(b, n) \/ NodeFails(b, n)
    \/ FinishPage(b) \/ FinishEnd(b)

Next ==
    \/ \E b \in Browsers : FirstRequest(b) \/ Work(b)
    \/ Expire \/ AddNode \/ RemoveNode

Spec == Init /\ [][Next]_vars

\* A user who has started a search goes on to its end, and every node request
\* returns: forEachClient gives each a timeout.
FairSpec == Spec /\ \A b \in Browsers : WF_vars(Work(b))

-----------------------------------------------------------------------------
(* Properties.                                                             *)

AllFilters == Filters \cup {NoFilters}
NodeCursors == [Nodes -> Positions \cup {None}]
Trail == [filters : AllFilters, got : [Nodes -> SUBSET Entries],
          steady : SUBSET Nodes, page : Nat]
SearchState == [params : AllFilters, at : NodeCursors]
Fetch == [running : BOOLEAN, cursor : 0..Bound, filters : AllFilters,
          pending : SUBSET Nodes, next : NodeCursors,
          got : [Nodes -> SUBSET Entries], trail : Trail]
Response == [kind : {"none", "page", "end", "error"}, cursor : 0..Bound,
             answered : SUBSET Nodes, trail : Trail]

\* A node cursor handed to a node is always one within its log, and cluster
\* cursors name search states that were created.
TypeOK ==
    /\ oneSearch \in BOOLEAN
    /\ members \subseteq known /\ known \subseteq Nodes
    /\ states \in Seq(SearchState) /\ Len(states) <= Bound
    /\ live \subseteq Cursors /\ expired \in 0..Len(states)
    /\ fetch \in [Browsers -> Fetch]
    /\ reply \in [Browsers -> Response]
    /\ trail \in Seq(Trail) /\ Len(trail) = Len(states)
    /\ failures \in 0..MaxFailures
    /\ \A b \in Browsers : fetch[b].cursor \in Cursors \cup {0}
                           /\ reply[b].cursor \in Cursors \cup {0}

\* Nothing is skipped: when a search is reported to be at its end, every node
\* that answered the last request has delivered every entry that matches what
\* the user asked for, whatever failed, joined, left or was retried before.
NothingSkipped ==
    \A b \in Browsers : reply[b].kind = "end" =>
        \A n \in reply[b].answered :
            Matches[n][reply[b].trail.filters] \subseteq reply[b].trail.got[n]

\* Nothing is delivered twice: a node that answered every request of a search
\* never repeats an entry on a later page of it.
NoDuplicates ==
    \A b \in Browsers : \A n \in fetch[b].trail.steady :
        fetch[b].got[n] \cap fetch[b].trail.got[n] = {}

\* Cursors stay good: they name search states that were created and positions
\* within the logs, and none is used up before its expiration, so that it can
\* be sent again by a browser that lost the answer, or in another tab.
CursorsSafe ==
    /\ TypeOK
    /\ \A c \in Cursors : c > expired => c \in live

\* A user who keeps asking for the next page reaches the end of the search,
\* or is told that the cursor has expired.
SearchEnds ==
    \A b \in Browsers :
        oneSearch /\ reply[b].kind = "page" ~> reply[b].kind \in {"end", "error"}

\* "use either user-provided filters (no cursor) or cursor snapshot": every
\* page of a search shows only entries that match the filters the user gave,
\* even of the nodes that answer every request.
PagesFiltered ==
    \A b \in Browsers : \A n \in fetch[b].trail.steady :
        fetch[b].got[n] \subseteq Matches[n][fetch[b].trail.filters]
=============================================================================
