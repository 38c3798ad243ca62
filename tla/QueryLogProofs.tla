--------------------------- MODULE QueryLogProofs ---------------------------
(***************************************************************************)
(* Proofs about QueryLog for any browsers, nodes, filters and logs, and    *)
(* any numbers of cursors and failures.                                    *)
(***************************************************************************)
EXTENDS QueryLog, SequenceTheorems, WellFoundedInduction, TLAPS

MaybePosition == Positions \cup {None}

\* Everything that filters f select before a position has been delivered.
Covered(n, f, position, got) ==
    \A p \in Matches[n][f] : p < position => p \in got

Behind(position, got) == \A p \in got : p < position

\* The snapshot kept under a cursor and the history of its search: it asks
\* with the user's filters or with none, and no node's cursor is ahead of what
\* the user has got; for a node that never failed it is not behind either.
GoodSnapshot(state, t) ==
    /\ state.params \in {t.filters, NoFilters}
    /\ \A n \in Nodes : state.at[n] # None =>
        Covered(n, t.filters, state.at[n], t.got[n])
    /\ \A n \in t.steady : state.at[n] # None /\ Behind(state.at[n], t.got[n])

Snapshots == \A c \in Cursors : GoodSnapshot(states[c], trail[c])

\* The same of a request under way, with what it has collected so far.
Old(request, kept, n) ==
    IF request.cursor = 0 THEN None ELSE kept[request.cursor].at[n]

GoodRequest(request, kept, trails) ==
    /\ request.filters \in {request.trail.filters, NoFilters}
    /\ request.cursor # 0 => request.trail = trails[request.cursor]
    /\ request.cursor = 0 => request.trail.got = NoEntries
    /\ \A n \in Nodes :
        LET f == request.trail.filters
            all == request.trail.got[n] \cup request.got[n]
        IN  /\ request.next[n] = None => request.got[n] = {}
            /\ request.next[n] # None => Covered(n, f, request.next[n], all)
            /\ request.next[n] # None /\ request.next[n] = Old(request, kept, n)
                => Matches[n][f] \subseteq all
            /\ n \in request.trail.steady =>
                /\ request.next[n] # None => Behind(request.next[n], all)
                /\ request.got[n] \cap request.trail.got[n] = {}

Requests == \A b \in Browsers : GoodRequest(fetch[b], states, trail)

IInv == CursorsSafe /\ Snapshots /\ Requests /\ NothingSkipped

-----------------------------------------------------------------------------
(* The answer of one node.                                                 *)

LEMMA MatchesType ==
    /\ \A n \in Nodes, f \in AllFilters : Matches[n][f] \subseteq Entries
    /\ \A n \in Nodes, f \in AllFilters : Matches[n][f] \subseteq Matches[n][NoFilters]
    /\ Entries \subseteq Nat /\ Positions \subseteq Nat /\ LogLen \in Nat
    /\ None \notin Positions
BY QueryLogAssumption DEF Entries, Positions, AllFilters

LEMMA FirstExists ==
    ASSUME NEW S \in SUBSET Nat, S # {}
    PROVE  \E x \in S : \A y \in S : x <= y
<1> DEFINE R == OpToRel(<, Nat)
<1>1. IsWellFoundedOn(R, Nat)
    BY NatLessThanWellFounded
<1> HIDE DEF R
<1>2. \E x \in S : \A y \in S : ~(<<y, x>> \in R)
    BY <1>1, WFMin
<1>3. PICK x \in S : \A y \in S : ~(<<y, x>> \in R)
    BY <1>2
<1>4. \A y \in S : x <= y
    <2> TAKE y \in S
    <2>1. ~(<<y, x>> \in R)
        BY <1>3
    <2>2. ~(y < x)
        BY <2>1 DEF R, OpToRel
    <2> QED BY <2>2
<1> QED BY <1>4

LEMMA OneMore ==
    ASSUME NEW x \in Nat, NEW y \in Nat, x <= y
    PROVE  y + 1 # x /\ x <= y + 1 /\ y < y + 1
OBVIOUS

\* A page holds everything from the position it is asked for to its cursor, and
\* its cursor stands still only when nothing is left.
LEMMA PageCovers ==
    ASSUME NEW n \in Nodes, NEW f \in AllFilters, NEW g \in {f, NoFilters},
           NEW c \in MaybePosition,
           NEW page, page = Page(n, NodeQuery(g, c)),
           NEW from \in Positions, from = IF c = None THEN 1 ELSE c
    PROVE  /\ page.cursor \in Positions /\ page.entries \in SUBSET Entries
           /\ \A p \in Matches[n][f] :
                from <= p /\ p < page.cursor => p \in page.entries
           /\ page.cursor = from => \A p \in Matches[n][f] : p < from
           /\ \A p \in page.entries : from <= p /\ p < page.cursor
           /\ from <= page.cursor
<1> DEFINE hits == {p \in Matches[n][g] : p >= from}
<1>1. from \in Positions /\ from \in Nat /\ LogLen \in Nat
    BY MatchesType
<1>2. /\ hits \subseteq Entries /\ hits \in SUBSET Nat
      /\ Matches[n][f] \subseteq Matches[n][g] /\ Matches[n][f] \subseteq Nat
    BY MatchesType DEF AllFilters
<1>3. page = IF hits = {} THEN [entries |-> {}, cursor |-> from]
             ELSE LET first == CHOOSE p \in hits : \A o \in hits : p <= o
                  IN [entries |-> {first}, cursor |-> first + 1]
    BY DEF Page, NodeQuery
<1>4. \A p \in Matches[n][f] : p \in hits \/ p < from
    BY <1>1, <1>2
<1>5. CASE hits = {}
    <2>1. page.entries = {} /\ page.cursor = from
        BY <1>3, <1>5
    <2>2. \A p \in Matches[n][f] : p < from
        BY <1>4, <1>5
    <2>3. \A p \in Matches[n][f] : ~(from <= p)
        BY <1>1, <1>2, <2>2
    <2> QED BY <1>1, <2>1, <2>2, <2>3
<1>6. CASE hits # {}
    <2>1. \E p \in hits : \A o \in hits : p <= o
        BY <1>2, <1>6, FirstExists
    <2>2. PICK first \in hits : /\ \A o \in hits : first <= o
                                /\ page = [entries |-> {first}, cursor |-> first + 1]
        BY <1>3, <1>6, <2>1
    <2>3. page.entries = {first} /\ page.cursor = first + 1
        BY <2>2
    <2>4. from <= first
        BY <2>2, <1>1, <1>2
    <2> HIDE DEF hits
    <2>5. first \in 1..LogLen /\ first \in Nat
        BY <1>2 DEF Entries
    <2>6. /\ first + 1 \in Positions /\ first + 1 # from /\ from <= first + 1
          /\ first < first + 1
        <3>1. from \in Nat /\ LogLen \in Nat
            BY <1>1
        <3>2. first + 1 \in Positions
            BY <2>5, <3>1 DEF Positions
        <3> QED BY <2>4, <2>5, <3>1, <3>2, OneMore
    <2>7. \A p \in Matches[n][f] : from <= p /\ p < first + 1 => p = first
        <3> SUFFICES ASSUME NEW p \in Matches[n][f], from <= p, p < first + 1
                     PROVE  p = first
            OBVIOUS
        <3>1. p \in Nat
            BY <1>2
        <3>2. p \in hits
            BY <1>1, <1>4, <3>1
        <3>3. first <= p
            BY <2>2, <3>2
        <3> QED BY <2>5, <3>1, <3>3
    <2> QED BY <1>1, <2>3, <2>4, <2>5, <2>6, <2>7 DEF Entries
<1> QED BY <1>5, <1>6

-----------------------------------------------------------------------------
(* Well-formed requests.                                                   *)

Kept == \A c \in Cursors : c > expired => c \in live

LEMMA Unfold ==
    IInv <=> TypeOK /\ Kept /\ Snapshots /\ Requests /\ NothingSkipped
BY DEF IInv, CursorsSafe, Kept

LEMMA StateTypes ==
    ASSUME TypeOK, NEW c \in Cursors
    PROVE  /\ c \in Nat \ {0} /\ c \in 0..Bound
           /\ states[c] \in SearchState /\ trail[c] \in Trail
           /\ states[c].params \in AllFilters /\ trail[c].filters \in AllFilters
           /\ trail[c].steady \subseteq Nodes
           /\ \A n \in Nodes : states[c].at[n] \in MaybePosition
           /\ \A n \in Nodes : trail[c].got[n] \subseteq Entries
<1>1. c \in 1..Len(states) /\ Len(states) \in Nat /\ Len(trail) = Len(states)
    BY LenProperties DEF TypeOK, Cursors
<1>2. states[c] \in SearchState /\ trail[c] \in Trail
    BY <1>1, ElementOfSeq DEF TypeOK
<1>3. c \in Nat \ {0} /\ c \in 0..Bound
    <2>1. Len(states) <= Bound /\ Bound \in Nat
        BY QueryLogAssumption DEF TypeOK, Bound
    <2> QED BY <1>1, <2>1
<1>4. /\ states[c].params \in AllFilters /\ trail[c].filters \in AllFilters
      /\ trail[c].steady \subseteq Nodes
      /\ states[c].at \in NodeCursors /\ trail[c].got \in [Nodes -> SUBSET Entries]
    BY <1>2 DEF SearchState, Trail
<1> QED BY <1>2, <1>3, <1>4 DEF NodeCursors, MaybePosition

\* A request that starts: nothing collected yet.
LEMMA StartIsGood ==
    ASSUME NEW R, NEW kept, NEW trails,
           R.filters \in {R.trail.filters, NoFilters},
           R.cursor # 0 => R.trail = trails[R.cursor],
           R.cursor = 0 => R.trail.got = NoEntries,
           R.next = NoCursors, R.got = NoEntries
    PROVE  GoodRequest(R, kept, trails)
BY DEF GoodRequest, NoCursors, NoEntries

LEMMA IdleTypes ==
    /\ IdleFetch \in Fetch /\ IdleFetch.cursor = 0
    /\ NoReply \in Response /\ NoReply.cursor = 0 /\ NoReply.kind = "none"
    /\ NoCursors \in NodeCursors /\ NoEntries \in [Nodes -> SUBSET Entries]
    /\ \A f \in AllFilters : NewTrail(f) \in Trail
    /\ 0 \in 0..Bound /\ NoFilters \in AllFilters
<1>1. 0 \in 0..Bound
    BY QueryLogAssumption DEF Bound
<1>2. NoCursors \in NodeCursors /\ NoEntries \in [Nodes -> SUBSET Entries]
    BY DEF NoCursors, NoEntries, NodeCursors
<1>3. \A f \in AllFilters : NewTrail(f) \in Trail
    BY <1>2 DEF NewTrail, Trail
<1>4. NoFilters \in AllFilters
    BY DEF AllFilters
<1>5. IdleFetch \in Fetch /\ IdleFetch.cursor = 0
    BY <1>1, <1>2, <1>3, <1>4 DEF IdleFetch, Fetch
<1>6. NoReply \in Response /\ NoReply.cursor = 0 /\ NoReply.kind = "none"
    BY <1>1, <1>3, <1>4 DEF NoReply, Response
<1> QED BY <1>1, <1>2, <1>3, <1>4, <1>5, <1>6

LEMMA IdleIsGood ==
    ASSUME NEW kept, NEW trails
    PROVE  GoodRequest(IdleFetch, kept, trails)
<1>1. /\ IdleFetch.filters = IdleFetch.trail.filters /\ IdleFetch.cursor = 0
      /\ IdleFetch.trail.got = NoEntries
      /\ IdleFetch.next = NoCursors /\ IdleFetch.got = NoEntries
    BY DEF IdleFetch, NewTrail
<1> QED BY <1>1, StartIsGood

\* A request depends on the one snapshot it continues.
LEMMA GoodStays ==
    ASSUME NEW R, NEW kept, NEW trails, NEW kept2, NEW trails2,
           GoodRequest(R, kept, trails),
           R.cursor # 0 => kept2[R.cursor] = kept[R.cursor]
                           /\ trails2[R.cursor] = trails[R.cursor]
    PROVE  GoodRequest(R, kept2, trails2)
<1>1. \A n : Old(R, kept2, n) = Old(R, kept, n)
    BY DEF Old
<1> QED BY <1>1 DEF GoodRequest

LEMMA InitInv ==
    ASSUME Init
    PROVE  IInv
<1>1. /\ states = <<>> /\ trail = <<>> /\ Len(states) = 0 /\ Len(trail) = 0
      /\ states \in Seq(SearchState) /\ trail \in Seq(Trail)
    BY EmptySeq DEF Init
<1>2. Cursors = {} /\ Bound \in Nat
    BY <1>1, QueryLogAssumption DEF Cursors, Bound
<1>3. TypeOK
    <2>1. fetch \in [Browsers -> Fetch] /\ reply \in [Browsers -> Response]
        BY IdleTypes DEF Init
    <2>2. \A b \in Browsers : fetch[b].cursor = 0 /\ reply[b].cursor = 0
        BY IdleTypes DEF Init
    <2> QED BY <1>1, <1>2, <2>1, <2>2, QueryLogAssumption DEF Init, TypeOK
<1>4. Kept /\ Snapshots
    BY <1>2 DEF Kept, Snapshots
<1>5. Requests
    BY IdleIsGood DEF Init, Requests
<1>6. NothingSkipped
    BY IdleTypes DEF Init, NothingSkipped
<1> QED BY <1>3, <1>4, <1>5, <1>6, Unfold

-----------------------------------------------------------------------------
(* Steps that create no cursor.                                            *)

\* A step that changes one request and nothing a browser was told.
LEMMA RequestStep ==
    ASSUME IInv, NEW b \in Browsers, NEW R \in Fetch,
           fetch' = [fetch EXCEPT ![b] = R],
           R.cursor \in Cursors \cup {0},
           GoodRequest(R, states, trail),
           UNCHANGED <<oneSearch, members, known, states, live, expired, reply, trail>>,
           failures' \in 0..MaxFailures
    PROVE  IInv'
<1>1. TypeOK /\ Kept /\ Snapshots /\ Requests /\ NothingSkipped
    BY Unfold
<1>2. Cursors' = Cursors /\ Bound' = Bound
    BY DEF Cursors, Bound
<1>3. /\ fetch' \in [Browsers -> Fetch] /\ fetch'[b] = R
      /\ \A d \in Browsers \ {b} : fetch'[d] = fetch[d]
    BY <1>1 DEF TypeOK
<1>4. TypeOK'
    <2>1. fetch' \in [Browsers -> Fetch']
        BY <1>2, <1>3 DEF Fetch
    <2>2. reply' \in [Browsers -> Response']
        BY <1>1, <1>2 DEF TypeOK, Response
    <2>3. \A d \in Browsers : fetch'[d].cursor \in Cursors' \cup {0}
                              /\ reply'[d].cursor \in Cursors' \cup {0}
        BY <1>1, <1>2, <1>3 DEF TypeOK
    <2> QED BY <1>1, <1>2, <2>1, <2>2, <2>3 DEF TypeOK
<1>5. Kept' /\ Snapshots'
    BY <1>1, <1>2 DEF Kept, Snapshots
<1>6. Requests'
    BY <1>1, <1>3 DEF Requests
<1>7. NothingSkipped'
    BY <1>1 DEF NothingSkipped
<1>8. CursorsSafe'
    BY <1>4, <1>5 DEF CursorsSafe, Kept
<1> QED BY <1>5, <1>6, <1>7, <1>8 DEF IInv

LEMMA BeginInv ==
    ASSUME IInv, NEW b \in Browsers, NEW c \in Cursors \cup {0}, NEW f \in AllFilters,
           NEW t \in Trail, Begin(b, c, f, t),
           f \in {t.filters, NoFilters},
           c # 0 => t = trail[c],
           c = 0 => t.got = NoEntries,
           UNCHANGED <<oneSearch, members, known, states, live, expired, reply, trail, failures>>
    PROVE  IInv'
<1> DEFINE R == [running |-> TRUE, cursor |-> c, filters |-> f,
                 pending |-> members, next |-> NoCursors, got |-> NoEntries,
                 trail |-> t]
<1>1. TypeOK
    BY Unfold
<1>2. members \subseteq Nodes /\ c \in 0..Bound
    <2>1. members \subseteq Nodes
        BY <1>1 DEF TypeOK
    <2>2. c \in 0..Bound
        BY <1>1, StateTypes, IdleTypes
    <2> QED BY <2>1, <2>2
<1>3. R \in Fetch
    BY <1>2, IdleTypes DEF Fetch
<1>4. /\ R.filters = f /\ R.cursor = c /\ R.trail = t
      /\ R.next = NoCursors /\ R.got = NoEntries
    OBVIOUS
<1>5. fetch' = [fetch EXCEPT ![b] = R]
    BY DEF Begin
<1> HIDE DEF R
<1>6. GoodRequest(R, states, trail)
    BY <1>4, StartIsGood
<1>7. failures' \in 0..MaxFailures
    BY <1>1 DEF TypeOK
<1> QED BY <1>3, <1>4, <1>5, <1>6, <1>7, RequestStep

LEMMA FirstRequestInv ==
    ASSUME IInv, NEW b \in Browsers, FirstRequest(b)
    PROVE  IInv'
<1>1. PICK f \in Filters : Begin(b, 0, f, NewTrail(f))
    BY DEF FirstRequest
<1>2. f \in AllFilters /\ NewTrail(f) \in Trail
    BY IdleTypes DEF AllFilters
<1>3. NewTrail(f).filters = f /\ NewTrail(f).got = NoEntries
    BY DEF NewTrail
<1> QED BY <1>1, <1>2, <1>3, BeginInv DEF FirstRequest

LEMMA NextPageInv ==
    ASSUME IInv, NEW b \in Browsers, NEW c \in Cursors, NextPage(b, c)
    PROVE  IInv'
<1>1. c # 0 /\ trail[c] \in Trail /\ NoFilters \in AllFilters
    BY Unfold, StateTypes, IdleTypes
<1>2. Begin(b, c, NoFilters, trail[c])
      /\ UNCHANGED <<oneSearch, members, known, states, live, expired, reply, trail, failures>>
    BY DEF NextPage, Lookup
<1> QED BY <1>1, <1>2, BeginInv

LEMMA RejectedInv ==
    ASSUME IInv, NEW b \in Browsers, NEW c \in Cursors, Rejected(b, c)
    PROVE  IInv'
<1>1. TypeOK /\ Kept /\ Snapshots /\ Requests /\ NothingSkipped
    BY Unfold
<1>2. Cursors' = Cursors /\ Bound' = Bound
    BY DEF Rejected, Cursors, Bound
<1> DEFINE X == [NoReply EXCEPT !.kind = "error", !.cursor = c]
<1>3. c \in 0..Bound
    BY <1>1, StateTypes
<1>4. X \in Response /\ X.kind = "error" /\ X.cursor = c
    BY <1>3, IdleTypes DEF Response, NoReply
<1> HIDE DEF X
<1>5. reply' = [reply EXCEPT ![b] = X]
    BY DEF Rejected, X
<1>6. /\ reply' \in [Browsers -> Response] /\ reply'[b] = X
      /\ \A d \in Browsers \ {b} : reply'[d] = reply[d]
    BY <1>1, <1>4, <1>5 DEF TypeOK
<1>7. /\ UNCHANGED <<oneSearch, members, known, states, expired, fetch, trail, failures>>
      /\ live' = live \ {c}
      /\ c <= expired \/ c \notin live
    BY DEF Rejected
<1>8. TypeOK'
    <2>1. fetch' \in [Browsers -> Fetch']
        BY <1>1, <1>2, <1>7 DEF TypeOK, Fetch
    <2>2. reply' \in [Browsers -> Response']
        BY <1>2, <1>6 DEF Response
    <2>3. \A d \in Browsers : fetch'[d].cursor \in Cursors' \cup {0}
                              /\ reply'[d].cursor \in Cursors' \cup {0}
        BY <1>1, <1>2, <1>4, <1>6, <1>7 DEF TypeOK
    <2> QED BY <1>1, <1>2, <1>7, <2>1, <2>2, <2>3 DEF TypeOK
<1>9. Kept'
    <2> SUFFICES ASSUME NEW d \in Cursors, d > expired
                 PROVE  d \in live \ {c}
        BY <1>2, <1>7 DEF Kept
    <2>1. d \in live
        BY <1>1 DEF Kept
    <2>2. c \in Nat /\ d \in Nat /\ expired \in Nat
        BY <1>1, StateTypes DEF TypeOK
    <2>3. d # c
        BY <1>7, <2>1, <2>2
    <2> QED BY <2>1, <2>3
<1>10. Snapshots' /\ Requests'
    BY <1>1, <1>2, <1>7 DEF Snapshots, Requests
<1>11. NothingSkipped'
    BY <1>1, <1>4, <1>6 DEF NothingSkipped
<1>12. CursorsSafe'
    BY <1>8, <1>9 DEF CursorsSafe, Kept
<1> QED BY <1>10, <1>11, <1>12 DEF IInv

LEMMA SurroundingsInv ==
    ASSUME IInv, Expire \/ AddNode \/ RemoveNode \/ UNCHANGED vars
    PROVE  IInv'
<1>1. TypeOK /\ Kept /\ Snapshots /\ Requests /\ NothingSkipped
    BY Unfold
<1>2. UNCHANGED <<oneSearch, states, live, fetch, reply, trail, failures>>
    BY DEF Expire, AddNode, RemoveNode, vars
<1>3. Cursors' = Cursors /\ Bound' = Bound /\ Fetch' = Fetch /\ Response' = Response
    BY <1>2 DEF Cursors, Bound, Fetch, Response
<1>4. members' \subseteq known' /\ known' \subseteq Nodes
    BY <1>1 DEF TypeOK, Expire, AddNode, RemoveNode, vars
<1>5. expired' = expired \/ (expired' = expired + 1 /\ expired < Len(states))
    BY DEF Expire, AddNode, RemoveNode, vars
<1>6. expired' \in 0..Len(states) /\ expired \in Nat /\ expired' >= expired
    BY <1>1, <1>5, LenProperties DEF TypeOK
<1>7. TypeOK'
    BY <1>1, <1>2, <1>3, <1>4, <1>6 DEF TypeOK
<1>8. Kept'
    <2> SUFFICES ASSUME NEW d \in Cursors, d > expired'
                 PROVE  d \in live
        BY <1>2, <1>3 DEF Kept
    <2>1. d \in Nat /\ d > expired
        BY <1>1, <1>6, StateTypes
    <2> QED BY <1>1, <2>1 DEF Kept
<1>9. Snapshots' /\ Requests' /\ NothingSkipped'
    BY <1>1, <1>2, <1>3 DEF Snapshots, Requests, NothingSkipped
<1>10. CursorsSafe'
    BY <1>7, <1>8 DEF CursorsSafe, Kept
<1> QED BY <1>9, <1>10 DEF IInv

-----------------------------------------------------------------------------
(* A node answers or fails.                                                *)

LEMMA RequestTypes ==
    ASSUME TypeOK, NEW b \in Browsers
    PROVE  /\ fetch[b] \in Fetch
           /\ fetch[b].cursor \in Cursors \cup {0}
           /\ fetch[b].filters \in AllFilters /\ fetch[b].trail \in Trail
           /\ fetch[b].trail.filters \in AllFilters
           /\ fetch[b].trail.steady \subseteq Nodes
           /\ fetch[b].pending \subseteq Nodes
           /\ fetch[b].next \in NodeCursors
           /\ fetch[b].got \in [Nodes -> SUBSET Entries]
           /\ fetch[b].trail.got \in [Nodes -> SUBSET Entries]
<1>1. fetch[b] \in Fetch /\ fetch[b].cursor \in Cursors \cup {0}
    BY DEF TypeOK
<1>2. fetch[b].trail \in Trail
    BY <1>1 DEF Fetch
<1> QED BY <1>1, <1>2 DEF Fetch, Trail

LEMMA NodeFailsInv ==
    ASSUME IInv, NEW b \in Browsers, NEW n \in Nodes, NodeFails(b, n)
    PROVE  IInv'
<1> DEFINE R == [fetch[b] EXCEPT !.pending = @ \ {n}]
<1>1. TypeOK /\ GoodRequest(fetch[b], states, trail)
    BY Unfold DEF Requests
<1>2. /\ R \in Fetch /\ R.cursor = fetch[b].cursor /\ R.filters = fetch[b].filters
      /\ R.next = fetch[b].next /\ R.got = fetch[b].got /\ R.trail = fetch[b].trail
    BY <1>1, RequestTypes DEF Fetch
<1>3. fetch' = [fetch EXCEPT ![b] = R]
    BY DEF NodeFails
<1> HIDE DEF R
<1>4. GoodRequest(R, states, trail)
    BY <1>1, <1>2 DEF GoodRequest, Old
<1>5. failures' \in 0..MaxFailures
    BY <1>1, QueryLogAssumption DEF NodeFails, TypeOK
<1>6. R.cursor \in Cursors \cup {0}
    BY <1>1, <1>2, RequestTypes
<1> QED BY <1>2, <1>3, <1>4, <1>5, <1>6, RequestStep DEF NodeFails

\* What a request knows of a node when that node's page has come in.
LEMMA AnswerIsGood ==
    ASSUME IInv, NEW b \in Browsers, NEW n \in Nodes,
           NEW page, page = Page(n, NodeRequest(b, n)),
           NEW f, f = fetch[b].trail.filters,
           NEW all, all = fetch[b].trail.got[n] \cup page.entries
    PROVE  /\ page.cursor \in Positions /\ page.entries \in SUBSET Entries
           /\ Covered(n, f, page.cursor, all)
           /\ page.cursor = OldCursor(b, n) => Matches[n][f] \subseteq all
           /\ n \in fetch[b].trail.steady =>
                /\ Behind(page.cursor, all)
                /\ page.entries \cap fetch[b].trail.got[n] = {}
<1>1. /\ TypeOK /\ Snapshots /\ GoodRequest(fetch[b], states, trail)
      /\ f \in AllFilters /\ fetch[b].trail.got[n] \subseteq Entries
      /\ fetch[b].cursor \in Cursors \cup {0}
    BY Unfold, RequestTypes DEF Requests
<1>2. Matches[n][f] \subseteq Nat /\ Entries \subseteq Nat /\ Positions \subseteq Nat
    BY <1>1, MatchesType
<1>3. CASE OldCursor(b, n) = None
    <2>1. page = Page(n, NodeQuery(fetch[b].filters, None))
        BY <1>3 DEF NodeRequest
    <2>2. fetch[b].filters \in {f, NoFilters} /\ None \in MaybePosition /\ 1 \in Positions
        BY <1>1, MatchesType DEF GoodRequest, MaybePosition, Positions
    <2>3. /\ page.cursor \in Positions /\ page.entries \in SUBSET Entries
          /\ \A p \in Matches[n][f] :
                1 <= p /\ p < page.cursor => p \in page.entries
          /\ \A p \in page.entries : 1 <= p /\ p < page.cursor
          /\ 1 <= page.cursor
        BY <1>1, <2>1, <2>2, PageCovers
    <2>4. \A p \in Matches[n][f] : 1 <= p
        BY <1>1, MatchesType DEF Entries
    <2>5. Covered(n, f, page.cursor, all)
        BY <2>3, <2>4 DEF Covered
    <2>6. page.cursor # OldCursor(b, n)
        BY <1>3, <2>3, MatchesType
    <2>7. CASE n \in fetch[b].trail.steady
        <3>1. fetch[b].cursor = 0
            <4> SUFFICES ASSUME fetch[b].cursor # 0
                         PROVE  FALSE
                OBVIOUS
            <4>1. fetch[b].cursor \in Cursors /\ fetch[b].trail = trail[fetch[b].cursor]
                BY <1>1 DEF GoodRequest
            <4>2. states[fetch[b].cursor].at[n] # None
                BY <1>1, <2>7, <4>1 DEF Snapshots, GoodSnapshot
            <4> QED BY <1>3, <4>2 DEF OldCursor
        <3>2. fetch[b].trail.got[n] = {}
            BY <1>1, <3>1 DEF GoodRequest, NoEntries
        <3> QED BY <2>3, <2>5, <2>6, <3>2 DEF Behind
    <2> QED BY <2>3, <2>5, <2>6, <2>7
<1>4. CASE OldCursor(b, n) # None
    <2> DEFINE c == fetch[b].cursor
               old == states[c].at[n]
    <2>1. c \in Cursors /\ OldCursor(b, n) = old /\ old # None
        BY <1>1, <1>4 DEF OldCursor
    <2>2. /\ fetch[b].trail = trail[c] /\ GoodSnapshot(states[c], trail[c])
        BY <1>1, <2>1, StateTypes DEF GoodRequest, Snapshots
    <2>3. page = Page(n, NodeQuery(states[c].params, old))
        BY <1>4, <2>1 DEF NodeRequest
    <2>4. /\ states[c].params \in {f, NoFilters} /\ old \in MaybePosition /\ old \in Positions
          /\ Covered(n, f, old, fetch[b].trail.got[n])
          /\ n \in fetch[b].trail.steady => Behind(old, fetch[b].trail.got[n])
        <3>1. states[c].params \in {f, NoFilters}
            BY <2>2 DEF GoodSnapshot
        <3>2. old \in MaybePosition
            BY <1>1, <2>1, StateTypes
        <3>3. Covered(n, f, old, fetch[b].trail.got[n])
            BY <2>1, <2>2 DEF GoodSnapshot
        <3>4. n \in fetch[b].trail.steady => Behind(old, fetch[b].trail.got[n])
            BY <2>1, <2>2 DEF GoodSnapshot
        <3> QED BY <2>1, <3>1, <3>2, <3>3, <3>4 DEF MaybePosition
    <2> HIDE DEF old, c
    <2>5. /\ page.cursor \in Positions /\ page.entries \in SUBSET Entries
          /\ \A p \in Matches[n][f] :
                old <= p /\ p < page.cursor => p \in page.entries
          /\ page.cursor = old => \A p \in Matches[n][f] : p < old
          /\ \A p \in page.entries : old <= p /\ p < page.cursor
          /\ old <= page.cursor
        BY <1>1, <2>1, <2>3, <2>4, PageCovers
    <2>6. old \in Nat /\ page.cursor \in Nat
        BY <1>2, <2>4, <2>5
    <2>7. Covered(n, f, page.cursor, all)
        <3> SUFFICES ASSUME NEW p \in Matches[n][f], p < page.cursor
                     PROVE  p \in all
            BY DEF Covered
        <3>1. p \in Nat
            BY <1>2
        <3>2. CASE p < old
            BY <2>4, <3>2 DEF Covered
        <3>3. CASE old <= p
            BY <2>5, <3>3
        <3> QED BY <2>6, <3>1, <3>2, <3>3
    <2>8. page.cursor = OldCursor(b, n) => Matches[n][f] \subseteq all
        BY <2>1, <2>4, <2>5 DEF Covered
    <2>9. CASE n \in fetch[b].trail.steady
        <3>1. \A p \in fetch[b].trail.got[n] : p \in Nat /\ p < old
            BY <1>1, <1>2, <2>4, <2>9 DEF Behind
        <3>2. \A p \in page.entries : p \in Nat
            BY <1>2, <2>5
        <3>3. Behind(page.cursor, all)
            BY <2>5, <2>6, <3>1, <3>2 DEF Behind
        <3>4. page.entries \cap fetch[b].trail.got[n] = {}
            BY <2>5, <2>6, <3>1, <3>2
        <3> QED BY <2>5, <2>7, <2>8, <3>3, <3>4
    <2> QED BY <2>5, <2>7, <2>8, <2>9
<1> QED BY <1>3, <1>4

LEMMA NodeAnswersInv ==
    ASSUME IInv, NEW b \in Browsers, NEW n \in Nodes, NodeAnswers(b, n)
    PROVE  IInv'
<1> DEFINE page == Page(n, NodeRequest(b, n))
           R == [fetch[b] EXCEPT !.pending = @ \ {n}, !.next[n] = page.cursor,
                                 !.got[n] = page.entries]
           f == fetch[b].trail.filters
           all == fetch[b].trail.got[n] \cup page.entries
<1>1. TypeOK /\ GoodRequest(fetch[b], states, trail)
    BY Unfold DEF Requests
<1>2. /\ page.cursor \in Positions /\ page.entries \in SUBSET Entries
      /\ Covered(n, f, page.cursor, all)
      /\ page.cursor = OldCursor(b, n) => Matches[n][f] \subseteq all
      /\ n \in fetch[b].trail.steady =>
            /\ Behind(page.cursor, all)
            /\ page.entries \cap fetch[b].trail.got[n] = {}
    BY AnswerIsGood
<1>3. fetch' = [fetch EXCEPT ![b] = R]
    BY DEF NodeAnswers
<1> HIDE DEF page
<1>4. /\ R \in Fetch /\ R.cursor = fetch[b].cursor /\ R.filters = fetch[b].filters
      /\ R.trail = fetch[b].trail
      /\ R.next = [fetch[b].next EXCEPT ![n] = page.cursor]
      /\ R.got = [fetch[b].got EXCEPT ![n] = page.entries]
    BY <1>1, <1>2, RequestTypes DEF Fetch, NodeCursors
<1>5. /\ R.next[n] = page.cursor /\ R.got[n] = page.entries
      /\ \A m \in Nodes \ {n} : R.next[m] = fetch[b].next[m] /\ R.got[m] = fetch[b].got[m]
      /\ R.next[n] # None
    BY <1>1, <1>2, <1>4, RequestTypes, MatchesType DEF NodeCursors
<1> HIDE DEF R
<1>6. \A m \in Nodes : Old(R, states, m) = OldCursor(b, m)
                       /\ Old(fetch[b], states, m) = OldCursor(b, m)
    BY <1>4 DEF Old, OldCursor
<1>7. GoodRequest(R, states, trail)
    <2> DEFINE allOf(m) == R.trail.got[m] \cup R.got[m]
    <2>1. ASSUME NEW m \in Nodes
          PROVE  /\ R.next[m] = None => R.got[m] = {}
                 /\ R.next[m] # None => Covered(m, R.trail.filters, R.next[m], allOf(m))
                 /\ R.next[m] # None /\ R.next[m] = Old(R, states, m)
                        => Matches[m][R.trail.filters] \subseteq allOf(m)
                 /\ m \in R.trail.steady =>
                        /\ R.next[m] # None => Behind(R.next[m], allOf(m))
                        /\ R.got[m] \cap R.trail.got[m] = {}
        <3>1. CASE m = n
            BY <1>2, <1>4, <1>5, <1>6, <3>1
        <3>2. CASE m # n
            BY <1>1, <1>4, <1>5, <1>6, <3>2 DEF GoodRequest
        <3> QED BY <3>1, <3>2
    <2> QED BY <1>1, <1>4, <2>1 DEF GoodRequest
<1>8. failures' \in 0..MaxFailures
    BY <1>1 DEF NodeAnswers, TypeOK
<1>9. R.cursor \in Cursors \cup {0}
    BY <1>1, <1>4, RequestTypes
<1> QED BY <1>3, <1>4, <1>7, <1>8, <1>9, RequestStep DEF NodeAnswers

-----------------------------------------------------------------------------
(* All nodes are done.                                                     *)

LEMMA ExtendedType ==
    ASSUME TypeOK, NEW b \in Browsers
    PROVE  /\ Extended(b) \in Trail /\ Extended(b).filters = fetch[b].trail.filters
           /\ Extended(b).steady = fetch[b].trail.steady \cap Answered(b)
           /\ \A n \in Nodes :
                Extended(b).got[n] = fetch[b].trail.got[n] \cup fetch[b].got[n]
           /\ Answered(b) \subseteq Nodes
<1> DEFINE T == fetch[b].trail
           G == [n \in Nodes |-> T.got[n] \cup fetch[b].got[n]]
<1>1. /\ T \in Trail /\ fetch[b].got \in [Nodes -> SUBSET Entries]
    BY RequestTypes
<1>2. /\ T.filters \in AllFilters /\ T.got \in [Nodes -> SUBSET Entries]
      /\ T.steady \subseteq Nodes /\ T.page \in Nat
      /\ T = [filters |-> T.filters, got |-> T.got, steady |-> T.steady, page |-> T.page]
    BY <1>1 DEF Trail
<1>3. Answered(b) \subseteq Nodes
    BY DEF Answered
<1>4. G \in [Nodes -> SUBSET Entries]
    BY <1>1, <1>2
<1>5. Extended(b) = [T EXCEPT !.got = G, !.steady = T.steady \cap Answered(b),
                              !.page = T.page + 1]
    BY DEF Extended
<1> HIDE DEF T
<1>6. Extended(b) = [filters |-> T.filters, got |-> G,
                     steady |-> T.steady \cap Answered(b), page |-> T.page + 1]
    BY <1>2, <1>5
<1>7. Extended(b) \in Trail
    BY <1>2, <1>3, <1>4, <1>6 DEF Trail
<1> QED BY <1>3, <1>6, <1>7 DEF T

\* A snapshot is as good as the request it is taken of.
LEMMA SnapshotIsGood ==
    ASSUME IInv, NEW b \in Browsers
    PROVE  GoodSnapshot(Snapshot(b), Extended(b)) /\ Snapshot(b) \in SearchState
<1>1. TypeOK /\ GoodRequest(fetch[b], states, trail)
    BY Unfold DEF Requests
<1>2. /\ Snapshot(b).params = fetch[b].filters /\ Snapshot(b).at = fetch[b].next
      /\ Snapshot(b) \in SearchState
    BY <1>1, RequestTypes DEF Snapshot, SearchState
<1>3. /\ Extended(b).filters = fetch[b].trail.filters
      /\ Extended(b).steady = fetch[b].trail.steady \cap Answered(b)
      /\ \A n \in Nodes :
            Extended(b).got[n] = fetch[b].trail.got[n] \cup fetch[b].got[n]
      /\ Answered(b) \subseteq Nodes
    BY <1>1, ExtendedType
<1>4. Snapshot(b).params \in {Extended(b).filters, NoFilters}
    BY <1>1, <1>2, <1>3 DEF GoodRequest
<1>5. ASSUME NEW n \in Nodes, Snapshot(b).at[n] # None
      PROVE  Covered(n, Extended(b).filters, Snapshot(b).at[n], Extended(b).got[n])
    BY <1>1, <1>2, <1>3, <1>5 DEF GoodRequest
<1>6. ASSUME NEW n \in Extended(b).steady
      PROVE  Snapshot(b).at[n] # None /\ Behind(Snapshot(b).at[n], Extended(b).got[n])
    <2>1. n \in Nodes /\ n \in fetch[b].trail.steady /\ fetch[b].next[n] # None
        BY <1>3 DEF Answered
    <2> QED BY <1>1, <1>2, <1>3, <2>1 DEF GoodRequest
<1> QED BY <1>2, <1>4, <1>5, <1>6 DEF GoodSnapshot

LEMMA ReplyTypes ==
    ASSUME TypeOK, NEW b \in Browsers, NEW kind \in {"page", "end"}, NEW c \in 0..Bound,
           Reply(b, kind, c)
    PROVE  /\ reply' \in [Browsers -> Response] /\ fetch' \in [Browsers -> Fetch]
           /\ reply'[b].kind = kind /\ reply'[b].cursor = c
           /\ reply'[b].answered = Answered(b) /\ reply'[b].trail = Extended(b)
           /\ fetch'[b] = IdleFetch
           /\ \A d \in Browsers \ {b} : reply'[d] = reply[d] /\ fetch'[d] = fetch[d]
<1> DEFINE X == [kind |-> kind, cursor |-> c, answered |-> Answered(b),
                 trail |-> Extended(b)]
<1>1. X \in Response /\ X.kind = kind /\ X.cursor = c
      /\ X.answered = Answered(b) /\ X.trail = Extended(b)
    BY ExtendedType DEF Response
<1>2. reply' = [reply EXCEPT ![b] = X] /\ fetch' = [fetch EXCEPT ![b] = IdleFetch]
    BY DEF Reply
<1> HIDE DEF X
<1>3. IdleFetch \in Fetch
    BY IdleTypes
<1> QED BY <1>1, <1>2, <1>3 DEF TypeOK

LEMMA FinishPageInv ==
    ASSUME IInv, NEW b \in Browsers, FinishPage(b)
    PROVE  IInv'
<1> DEFINE k == Len(states) + 1
<1>1. TypeOK /\ Kept /\ Snapshots /\ Requests /\ NothingSkipped
    BY Unfold
<1>2. /\ states \in Seq(SearchState) /\ trail \in Seq(Trail)
      /\ Len(states) \in Nat /\ Len(trail) = Len(states) /\ Len(states) < Bound
      /\ Bound \in Nat
    BY <1>1, LenProperties, QueryLogAssumption DEF TypeOK, FinishPage, Bound
<1>3. /\ Snapshot(b) \in SearchState /\ Extended(b) \in Trail
      /\ GoodSnapshot(Snapshot(b), Extended(b))
    BY <1>1, SnapshotIsGood, ExtendedType
<1>4. states' = Append(states, Snapshot(b)) /\ trail' = Append(trail, Extended(b))
      /\ live' = live \cup {k} /\ Reply(b, "page", k)
      /\ UNCHANGED <<oneSearch, members, known, expired, failures>>
    BY DEF FinishPage
<1>5. /\ states' \in Seq(SearchState) /\ Len(states') = k
      /\ states'[k] = Snapshot(b) /\ \A i \in 1..Len(states) : states'[i] = states[i]
    BY <1>2, <1>3, <1>4, AppendProperties
<1>6. /\ trail' \in Seq(Trail) /\ Len(trail') = k
      /\ trail'[k] = Extended(b) /\ \A i \in 1..Len(states) : trail'[i] = trail[i]
    BY <1>2, <1>3, <1>4, AppendProperties
<1>7. k \in 0..Bound /\ k \in Nat
    BY <1>2
<1>8. /\ reply' \in [Browsers -> Response] /\ fetch' \in [Browsers -> Fetch]
      /\ reply'[b].kind = "page" /\ reply'[b].cursor = k /\ fetch'[b] = IdleFetch
      /\ \A d \in Browsers \ {b} : reply'[d] = reply[d] /\ fetch'[d] = fetch[d]
    BY <1>1, <1>4, <1>7, ReplyTypes
<1>9. Cursors = 1..Len(states) /\ Cursors' = 1..k /\ Cursors \subseteq Cursors'
      /\ k \in Cursors' /\ \A c \in Cursors' : c \in Cursors \/ c = k
    BY <1>2, <1>5 DEF Cursors
<1>10. Bound' = Bound /\ Fetch' = Fetch /\ Response' = Response
    BY <1>4 DEF Bound, Fetch, Response
<1> HIDE DEF k
<1>11. TypeOK'
    <2>1. \A d \in Browsers : fetch'[d].cursor \in Cursors' \cup {0}
                              /\ reply'[d].cursor \in Cursors' \cup {0}
        BY <1>1, <1>8, <1>9, IdleTypes DEF TypeOK
    <2>2. live' \subseteq Cursors'
        BY <1>1, <1>4, <1>9 DEF TypeOK
    <2>3. expired' \in 0..Len(states')
        <3>1. expired \in 0..Len(states) /\ Len(states) <= k
            BY <1>1, <1>2 DEF TypeOK, k
        <3> QED BY <1>2, <1>4, <1>5, <1>7, <3>1
    <2>4. Len(states') <= Bound' /\ Len(trail') = Len(states')
        BY <1>5, <1>6, <1>7, <1>10
    <2>5. /\ oneSearch' \in BOOLEAN /\ members' \subseteq known' /\ known' \subseteq Nodes
          /\ failures' \in 0..MaxFailures
        BY <1>1, <1>4 DEF TypeOK
    <2> QED BY <1>5, <1>6, <1>8, <1>10, <2>1, <2>2, <2>3, <2>4, <2>5 DEF TypeOK
<1>12. Kept'
    BY <1>1, <1>4, <1>9 DEF Kept
<1>13. Snapshots'
    <2> SUFFICES ASSUME NEW c \in Cursors'
                 PROVE  GoodSnapshot(states'[c], trail'[c])
        BY DEF Snapshots, GoodSnapshot
    <2>1. CASE c \in Cursors
        BY <1>1, <1>5, <1>6, <1>9, <2>1 DEF Snapshots
    <2>2. CASE c = k
        BY <1>3, <1>5, <1>6, <2>2
    <2> QED BY <1>9, <2>1, <2>2
<1>14. Requests'
    <2> SUFFICES ASSUME NEW d \in Browsers
                 PROVE  GoodRequest(fetch'[d], states', trail')
        BY DEF Requests
    <2>1. CASE d = b
        BY <1>8, <2>1, IdleIsGood
    <2>2. CASE d # b
        <3>1. fetch'[d] = fetch[d] /\ GoodRequest(fetch[d], states, trail)
            BY <1>1, <1>8, <2>2 DEF Requests
        <3>2. fetch[d].cursor # 0 => fetch[d].cursor \in Cursors
            BY <1>1, RequestTypes
        <3>3. fetch[d].cursor # 0 => states'[fetch[d].cursor] = states[fetch[d].cursor]
                                     /\ trail'[fetch[d].cursor] = trail[fetch[d].cursor]
            BY <1>5, <1>6, <1>9, <3>2
        <3> QED BY <3>1, <3>3, GoodStays
    <2> QED BY <2>1, <2>2
<1>15. NothingSkipped'
    BY <1>1, <1>8 DEF NothingSkipped
<1>16. CursorsSafe'
    BY <1>11, <1>12 DEF CursorsSafe, Kept
<1> QED BY <1>13, <1>14, <1>15, <1>16 DEF IInv

\* The end is reported when no answering node's cursor has moved: then each of
\* them has delivered all the user asked for.
LEMMA FinishEndInv ==
    ASSUME IInv, NEW b \in Browsers, FinishEnd(b)
    PROVE  IInv'
<1>1. TypeOK /\ Kept /\ Snapshots /\ Requests /\ NothingSkipped
    BY Unfold
<1>2. GoodRequest(fetch[b], states, trail)
    BY <1>1 DEF Requests
<1>3. fetch[b].cursor \in Cursors \cup {0} /\ fetch[b].cursor \in 0..Bound
    BY <1>1, RequestTypes, StateTypes, IdleTypes
<1>4. /\ ~Changed(b) /\ Reply(b, "end", fetch[b].cursor)
      /\ UNCHANGED <<oneSearch, members, known, states, live, expired, trail, failures>>
    BY DEF FinishEnd
<1>5. /\ reply' \in [Browsers -> Response] /\ fetch' \in [Browsers -> Fetch]
      /\ reply'[b].cursor = fetch[b].cursor
      /\ reply'[b].answered = Answered(b) /\ reply'[b].trail = Extended(b)
      /\ fetch'[b] = IdleFetch
      /\ \A d \in Browsers \ {b} : reply'[d] = reply[d] /\ fetch'[d] = fetch[d]
    BY <1>1, <1>3, <1>4, ReplyTypes
<1>6. /\ Extended(b).filters = fetch[b].trail.filters
      /\ \A n \in Nodes :
            Extended(b).got[n] = fetch[b].trail.got[n] \cup fetch[b].got[n]
    BY <1>1, ExtendedType
<1>7. ASSUME NEW n \in Answered(b)
      PROVE  Matches[n][Extended(b).filters] \subseteq Extended(b).got[n]
    <2>1. n \in Nodes /\ fetch[b].next[n] # None
        BY DEF Answered
    <2>2. fetch[b].next[n] = OldCursor(b, n)
        BY <1>4, <2>1 DEF Changed
    <2>3. Old(fetch[b], states, n) = OldCursor(b, n)
        BY DEF Old, OldCursor
    <2>4. fetch[b].next[n] = Old(fetch[b], states, n)
        BY <2>2, <2>3
    <2>5. Matches[n][fetch[b].trail.filters]
            \subseteq fetch[b].trail.got[n] \cup fetch[b].got[n]
        BY <1>2, <2>1, <2>4 DEF GoodRequest
    <2>6. Extended(b).got[n] = fetch[b].trail.got[n] \cup fetch[b].got[n]
        BY <1>6, <2>1
    <2> QED BY <1>6, <2>5, <2>6
<1>8. NothingSkipped'
    BY <1>1, <1>5, <1>7 DEF NothingSkipped
<1>9. Cursors' = Cursors /\ Bound' = Bound /\ Fetch' = Fetch /\ Response' = Response
    BY <1>4 DEF Cursors, Bound, Fetch, Response
<1>10. TypeOK'
    <2>1. \A d \in Browsers : fetch'[d].cursor \in Cursors' \cup {0}
                              /\ reply'[d].cursor \in Cursors' \cup {0}
        BY <1>1, <1>3, <1>5, <1>9, IdleTypes DEF TypeOK
    <2> QED BY <1>1, <1>4, <1>5, <1>9, <2>1 DEF TypeOK
<1>11. Kept' /\ Snapshots'
    BY <1>1, <1>4, <1>9 DEF Kept, Snapshots
<1>12. Requests'
    BY <1>1, <1>4, <1>5, IdleIsGood DEF Requests
<1>13. CursorsSafe'
    BY <1>10, <1>11 DEF CursorsSafe, Kept
<1> QED BY <1>8, <1>11, <1>12, <1>13 DEF IInv

-----------------------------------------------------------------------------
LEMMA StepInv ==
    ASSUME IInv, [Next]_vars
    PROVE  IInv'
<1>1. CASE Expire \/ AddNode \/ RemoveNode \/ UNCHANGED vars
    BY <1>1, SurroundingsInv
<1>2. ASSUME NEW b \in Browsers, FirstRequest(b)
      PROVE  IInv'
    BY <1>2, FirstRequestInv
<1>3. ASSUME NEW b \in Browsers, PageRequest(b)
      PROVE  IInv'
    BY <1>3, NextPageInv, RejectedInv DEF PageRequest
<1>4. ASSUME NEW b \in Browsers, NEW n \in Nodes, NodeAnswers(b, n) \/ NodeFails(b, n)
      PROVE  IInv'
    BY <1>4, NodeAnswersInv, NodeFailsInv
<1>5. ASSUME NEW b \in Browsers, FinishPage(b) \/ FinishEnd(b)
      PROVE  IInv'
    BY <1>5, FinishPageInv, FinishEndInv
<1> QED BY <1>1, <1>2, <1>3, <1>4, <1>5 DEF Next, Work

LEMMA Invariance == Spec => []IInv
<1>1. Init => IInv
    BY InitInv
<1>2. IInv /\ [Next]_vars => IInv'
    BY StepInv
<1> QED BY <1>1, <1>2, PTL DEF Spec

\* A cursor is well formed and stays usable until it expires
\* (CursorManager.CreateCursor, GetSearchState).
THEOREM CursorsStayGood == Spec => []CursorsSafe
<1>1. IInv => CursorsSafe
    BY DEF IInv
<1> QED BY <1>1, Invariance, PTL

\* EndOfResults is true: whatever nodes failed, joined or left and whatever
\* cursors were sent again, every node that answered the last request has
\* delivered all it has of what the user asked for (Cluster.FetchQueryLogs),
\* even though the filters are lost from the third page on.
THEOREM EndIsTrue == Spec => []NothingSkipped
<1>1. IInv => NothingSkipped
    BY DEF IInv
<1> QED BY <1>1, Invariance, PTL

\* A node that answered every request of a search repeats nothing.
THEOREM NothingRepeated == Spec => []NoDuplicates
<1>1. IInv => NoDuplicates
    <2> SUFFICES ASSUME IInv, NEW b \in Browsers, NEW n \in fetch[b].trail.steady
                 PROVE  fetch[b].got[n] \cap fetch[b].trail.got[n] = {}
        BY DEF NoDuplicates
    <2>1. GoodRequest(fetch[b], states, trail) /\ n \in Nodes
        BY Unfold, RequestTypes DEF Requests
    <2> QED BY <2>1 DEF GoodRequest
<1> QED BY <1>1, Invariance, PTL
=============================================================================
