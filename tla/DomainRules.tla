---------------------------- MODULE DomainRules ----------------------------
(***************************************************************************)
(* Domain rules on all Pi-holes: each request of the domain-rule API fans  *)
(* out to the nodes that are members when it starts, one worker per node,  *)
(* waits for all of them and reports the result of each.  A worker makes   *)
(* one call, of which no more is assumed than NodeCall promises.  Nothing  *)
(* coordinates two requests, and nothing is undone.                        *)
(*                                                                         *)
(* A Pi-hole is external: it holds a set of rules, adds one or answers an  *)
(* add with a list of errors that nothing here reads, and answers 404 to   *)
(* the removal of a rule it does not hold.  All start with the same rules, *)
(* as their operator has set them up.                                      *)
(***************************************************************************)
EXTENDS Integers, FiniteSets

CONSTANTS
    Requests,       \* requests to the API, each made once
    Nodes,          \* node ids, never handed out twice
    Rules

ASSUME DomainRulesAssumption ==
    IsFiniteSet(Requests) /\ IsFiniteSet(Nodes) /\ Rules # {}

VARIABLES
    members,        \* Cluster.clients
    known,          \* the node ids handed out so far
    rules,          \* the rules each Pi-hole holds
    request,        \* how far each request is, and what it asks for
    results,        \* the map a request builds: its entry for each node
    status, applied,\* the calls, as NodeCall has them
    troubled,       \* history: nodes that failed a call or took no rule of an add
    overlap         \* history: requests were under way at the same time

vars == <<members, known, rules, request, results, status, applied, troubled, overlap>>
calls == <<status, applied>>

Calls == Requests \X Nodes
Call == INSTANCE NodeCall

Ops == {"get", "add", "remove"}
NoRequest == [pc |-> "idle", op |-> "get", rule |-> CHOOSE d \in Rules : TRUE,
              targets |-> {}]

Running == {r \in Requests : request[r].pc = "running"}

Init ==
    /\ members \in SUBSET Nodes
    /\ known = members
    /\ \E held \in SUBSET Rules : rules = [n \in Nodes |-> held]
    /\ request = [r \in Requests |-> NoRequest]
    /\ results = [r \in Requests |-> [n \in Nodes |-> "none"]]
    /\ Call!Init
    /\ troubled = {}
    /\ overlap = FALSE

-----------------------------------------------------------------------------
(* The request.                                                            *)

\* The handler has parsed the request; forEachClient takes its snapshot.
Begin(r) ==
    /\ request[r].pc = "idle"
    /\ \E op \in Ops, d \in Rules :
        request' = [request EXCEPT ![r] =
                        [pc |-> "running", op |-> op, rule |-> d, targets |-> members]]
    /\ overlap' = (overlap \/ Running # {})
    /\ UNCHANGED <<members, known, rules, results, troubled>> /\ UNCHANGED calls

\* g.Go: a worker starts and calls the client.
StartWorker(r, n) ==
    /\ r \in Running /\ n \in request[r].targets
    /\ Call!Call(<<r, n>>)
    /\ UNCHANGED <<members, known, rules, request, results, troubled, overlap>>

\* External: the Pi-hole carries the request out, maybe after the worker has
\* given up on it.
Effect(r, n) ==
    CASE request[r].op = "get" -> rules[n]
      [] request[r].op = "add" -> rules[n] \cup {request[r].rule}
      [] request[r].op = "remove" -> rules[n] \ {request[r].rule}

Serve(r, n) ==
    /\ results[r][n] # "not found"
    /\ Call!Apply(<<r, n>>)
    /\ request[r].op = "remove" => request[r].rule \in rules[n]
    /\ rules' = [rules EXCEPT ![n] = Effect(r, n)]
    /\ UNCHANGED <<members, known, request, results, troubled, overlap>>

\* External: the Pi-hole answers the add with 201 and takes no rule: the reason
\* is in "processed.errors", which the worker passes on as a success.
TurnDown(r, n) ==
    /\ request[r].op = "add"
    /\ Call!Apply(<<r, n>>)
    /\ troubled' = troubled \cup {n}
    /\ UNCHANGED <<members, known, rules, request, results, overlap>>

Entry(r, n, entry) == results' = [results EXCEPT ![r][n] = entry]

Succeed(r, n) ==
    /\ Call!Succeed(<<r, n>>)
    /\ Entry(r, n, "success")
    /\ UNCHANGED <<members, known, rules, request, troubled, overlap>>

\* The Pi-hole does not hold the rule to be removed.
NotFound(r, n) ==
    /\ request[r].op = "remove" /\ request[r].rule \notin rules[n]
    /\ applied[<<r, n>>] = 0
    /\ Call!Fail(<<r, n>>)
    /\ Entry(r, n, "not found")
    /\ UNCHANGED <<members, known, rules, request, troubled, overlap>>

FailReportedAsSuccess(r, n) ==
    /\ Call!Fail(<<r, n>>)
    /\ Entry(r, n, "success")
    /\ troubled' = troubled \cup {n}
    /\ UNCHANGED <<members, known, rules, request, overlap>>

FailCancelsOthers(r, n) ==
    /\ status[<<r, n>>] = "running"
    /\ status' = [c \in Calls |-> IF c[1] = r /\ status[c] = "running" THEN "failed"
                                  ELSE status[c]]
    /\ results' = [results EXCEPT ![r] =
                    [m \in Nodes |-> IF status[<<r, m>>] = "running" THEN "failure" ELSE @[m]]]
    /\ troubled' = troubled \cup {n}
    /\ UNCHANGED <<members, known, rules, request, applied, overlap>>

\* The call fails or times out.  The worker itself returns no error, so the
\* errgroup does not cancel the others.
Fail(r, n) ==
    /\ Call!Fail(<<r, n>>)
    /\ Entry(r, n, "failure")
    /\ troubled' = troubled \cup {n}
    /\ UNCHANGED <<members, known, rules, request, overlap>>

CompleteOnFirst(r) == \E n \in Nodes : results[r][n] # "none"

CompleteOfMembers(r) == \A n \in members : results[r][n] # "none"

\* g.Wait: all workers have returned.
Complete(r) == \A n \in request[r].targets : results[r][n] # "none"

\* The handler answers with the map.
Respond(r) ==
    /\ r \in Running
    /\ Complete(r)
    /\ request' = [request EXCEPT ![r].pc = "done"]
    /\ UNCHANGED <<members, known, rules, results, troubled, overlap>> /\ UNCHANGED calls

-----------------------------------------------------------------------------
(* Cluster.AddClient and Cluster.RemoveClient.                             *)

AddNode ==
    \E n \in Nodes \ known :
        /\ members' = members \cup {n}
        /\ known' = known \cup {n}
        /\ UNCHANGED <<rules, request, results, troubled, overlap>> /\ UNCHANGED calls

RemoveNode ==
    \E n \in members :
        /\ members' = members \ {n}
        /\ UNCHANGED <<known, rules, request, results, troubled, overlap>> /\ UNCHANGED calls

Worker(r, n) == StartWorker(r, n) \/ Succeed(r, n) \/ NotFound(r, n) \/ Fail(r, n)

Next ==
    \/ \E r \in Requests :
        \/ Begin(r) \/ Respond(r)
        \/ \E n \in Nodes : Worker(r, n) \/ Serve(r, n) \/ TurnDown(r, n)
    \/ AddNode \/ RemoveNode

Spec == Init /\ [][Next]_vars

\* Goroutines run, and a call returns (PiholeClient's CallReturns).
FairSpec ==
    /\ Spec
    /\ \A r \in Requests : WF_vars(Respond(r) \/ \E n \in Nodes : Worker(r, n))

-----------------------------------------------------------------------------
(* Properties.                                                             *)

Entries == {"none", "success", "not found", "failure"}

\* The calls are as NodeCall has them and only targets of a request have an
\* entry in its results.
TypeOK ==
    /\ members \subseteq known /\ known \subseteq Nodes
    /\ rules \in [Nodes -> SUBSET Rules]
    /\ request \in [Requests -> [pc : {"idle", "running", "done"}, op : Ops,
                                 rule : Rules, targets : SUBSET Nodes]]
    /\ results \in [Requests -> [Nodes -> Entries]]
    /\ \A r \in Requests : \A n \in Nodes \ request[r].targets : results[r][n] = "none"
    /\ Call!TypeOK
    /\ troubled \subseteq Nodes
    /\ overlap \in BOOLEAN

\* The response is complete and true: it has an entry for every node that was
\* a member when the request began, "success" only where the Pi-hole itself has
\* answered this very request with a success.
ResponseTrue ==
    \A r \in Requests : request[r].pc = "done" =>
        \A n \in request[r].targets :
            /\ results[r][n] # "none"
            /\ results[r][n] = "success" => applied[<<r, n>>] = 1

\* One node's failure fails no other: a request fails at a node only if a call
\* to that very node has.
FailureIsolated ==
    \A r \in Requests, n \in Nodes : results[r][n] = "failure" => n \in troubled

\* Results belong to the targets of their request, and failures to their node.
RulesSafe == TypeOK /\ FailureIsolated

\* Nodes that took part in every request so far.
Veterans ==
    {n \in members : \A r \in Requests : request[r].pc # "idle" => n \in request[r].targets}

AtParity == \A m, n \in Veterans : rules[m] = rules[n]

\* One request at a time keeps the nodes in step, as long as no call fails and no
\* rule is turned down: when the response is there, no worker is still at it.
SequentialParity == Running = {} /\ ~overlap /\ troubled = {} => AtParity

\* Every request is answered, whatever joins, leaves or fails.
RequestReturns == \A r \in Requests : request[r].pc = "running" ~> request[r].pc = "done"

\* "atomic propagation of changes": when no request is under way, and each one
\* succeeded at every node without a rule turned down, the nodes hold the same
\* rules.
AtomicPropagation ==
    (/\ Running = {} /\ troubled = {}
     /\ \A r \in Requests : \A n \in request[r].targets : results[r][n] = "success")
        => AtParity
=============================================================================
