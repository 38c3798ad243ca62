------------------------- MODULE DomainRulesProofs -------------------------
(***************************************************************************)
(* The safety properties of DomainRules, and that its calls are calls as   *)
(* NodeCall has them, for all requests, nodes and rules.                   *)
(***************************************************************************)
EXTENDS DomainRules, TLAPS

(***************************************************************************)
(* The inductive invariant.                                                *)
(***************************************************************************)

\* A worker exists only for a target of a request that has begun, its entry in
\* the results tells how its call stands, and a request that is answered has an
\* entry for each of its targets.
WorkerOf(r, n) ==
    \/ status[<<r, n>>] = "idle" /\ results[r][n] = "none" /\ applied[<<r, n>>] = 0
    \/ /\ n \in request[r].targets
       /\ \/ status[<<r, n>>] = "running" /\ results[r][n] = "none"
          \/ /\ status[<<r, n>>] = "succeeded" /\ results[r][n] = "success"
             /\ applied[<<r, n>>] = 1
          \/ status[<<r, n>>] = "failed" /\ results[r][n] \in {"failure", "not found"}

Workers ==
    \A r \in Requests :
        /\ request[r].targets \subseteq known
        /\ request[r].pc = "idle" => request[r].targets = {}
        /\ request[r].pc = "done" => Complete(r)
        /\ \A n \in Nodes : WorkerOf(r, n)

\* Before the first request all nodes hold what their operator has set up.
AsSetUp ==
    (\A r \in Requests : request[r].pc = "idle") => \A m, n \in Nodes : rules[m] = rules[n]

OneAtATime == ~overlap => \A r, s \in Running : r = s

\* What the request asks for is so at the node.
Carried(r, n) ==
    /\ request[r].op = "add" => request[r].rule \in rules[n]
    /\ request[r].op = "remove" => request[r].rule \notin rules[n]

\* While a request runs alone, two nodes differ at most in the rule it is about,
\* and only if it has reached one of them and not the other.
InStep(r) ==
    /\ \A m, n \in Veterans, d \in Rules :
        \/ d \in rules[m] <=> d \in rules[n]
        \/ /\ d = request[r].rule /\ request[r].op # "get"
           /\ applied[<<r, m>>] # applied[<<r, n>>]
    /\ \A n \in Nodes :
        /\ applied[<<r, n>>] = 1 => Carried(r, n)
        /\ results[r][n] = "not found" => request[r].op = "remove" /\ Carried(r, n)

Parity ==
    ~overlap /\ troubled = {} =>
        /\ Running = {} => AtParity
        /\ \A r \in Running : InStep(r)

IInv == RulesSafe /\ Workers /\ AsSetUp /\ OneAtATime /\ Parity

-----------------------------------------------------------------------------
(* Init and the request.                                                   *)

LEMMA InitInv ==
    ASSUME Init
    PROVE  IInv
<1> USE DEF Init, NoRequest, Call!Init, Calls
<1>1. TypeOK
    <2>1. (CHOOSE d \in Rules : TRUE) \in Rules
        BY DomainRulesAssumption
    <2>2. request \in [Requests -> [pc : {"idle", "running", "done"}, op : Ops,
                                   rule : Rules, targets : SUBSET Nodes]]
        BY <2>1 DEF Ops
    <2>3. rules \in [Nodes -> SUBSET Rules]
        OBVIOUS
    <2>4. Call!TypeOK /\ results \in [Requests -> [Nodes -> Entries]]
        BY DEF Call!TypeOK, Entries
    <2> QED BY <2>2, <2>3, <2>4 DEF TypeOK
<1>2. FailureIsolated
    BY DEF FailureIsolated
<1>3. Workers
    BY DEF Workers, WorkerOf
<1>4. AsSetUp /\ OneAtATime
    BY DEF AsSetUp, OneAtATime, Running
<1>5. Parity
    BY DEF Parity, Running, AtParity, Veterans
<1> QED BY <1>1, <1>2, <1>3, <1>4, <1>5 DEF IInv, RulesSafe

LEMMA BeginInv ==
    ASSUME IInv, NEW r \in Requests, Begin(r)
    PROVE  IInv'
<1>0. TypeOK /\ FailureIsolated /\ Workers /\ AsSetUp /\ OneAtATime /\ Parity
    BY DEF IInv, RulesSafe
<1>1. PICK op \in Ops, d \in Rules :
        request' = [request EXCEPT ![r] =
                        [pc |-> "running", op |-> op, rule |-> d, targets |-> members]]
    BY DEF Begin
<1>2. /\ request'[r] = [pc |-> "running", op |-> op, rule |-> d, targets |-> members]
      /\ \A s \in Requests \ {r} : request'[s] = request[s]
    BY <1>0, <1>1 DEF TypeOK
<1>3. /\ request[r].pc = "idle"
      /\ UNCHANGED <<members, known, rules, results, troubled, status, applied>>
    BY DEF Begin, calls
<1>13. overlap' \in BOOLEAN /\ (~overlap' => ~overlap /\ Running = {})
    BY <1>0 DEF Begin, TypeOK
<1>4. \A n \in Nodes : /\ status[<<r, n>>] = "idle" /\ results[r][n] = "none"
                       /\ applied[<<r, n>>] = 0
    BY <1>0, <1>3 DEF Workers, WorkerOf
<1>5. members \subseteq known /\ members \subseteq Nodes
    BY <1>0 DEF TypeOK
<1>6. TypeOK'
    <2>1. request' \in [Requests -> [pc : {"idle", "running", "done"}, op : Ops,
                                    rule : Rules, targets : SUBSET Nodes]]
        BY <1>0, <1>1, <1>5 DEF TypeOK
    <2>2. ASSUME NEW s \in Requests, NEW n \in Nodes \ request'[s].targets
          PROVE  results[s][n] = "none"
        <3>1. CASE s = r
            BY <1>4, <3>1
        <3>2. CASE s # r
            BY <1>0, <1>2, <3>2 DEF TypeOK
        <3> QED BY <3>1, <3>2
    <2> QED BY <1>0, <1>3, <1>13, <2>1, <2>2 DEF TypeOK, Call!TypeOK, Calls
<1>7. FailureIsolated'
    BY <1>0, <1>3 DEF FailureIsolated
<1>8. Workers'
    <2>1. ASSUME NEW s \in Requests
          PROVE  /\ request'[s].targets \subseteq known
                 /\ request'[s].pc = "idle" => request'[s].targets = {}
                 /\ request'[s].pc = "done" => \A n \in request'[s].targets : results[s][n] # "none"
        <3>1. CASE s = r
            BY <1>2, <1>5, <3>1
        <3>2. CASE s # r
            BY <1>0, <1>2, <3>2 DEF Workers, Complete
        <3> QED BY <3>1, <3>2
    <2>2. ASSUME NEW s \in Requests, NEW n \in Nodes
          PROVE  WorkerOf(s, n)'
        <3>1. CASE s = r
            BY <1>3, <1>4, <3>1 DEF WorkerOf
        <3>2. CASE s # r
            <4>1. WorkerOf(s, n) /\ request'[s] = request[s]
                BY <1>0, <1>2, <3>2 DEF Workers
            <4> QED BY <1>3, <4>1 DEF WorkerOf
        <3> QED BY <3>1, <3>2
    <2> QED BY <1>3, <2>1, <2>2 DEF Workers, Complete
<1>9. AsSetUp'
    BY <1>2 DEF AsSetUp
<1>10. Running' = Running \cup {r}
    BY <1>2 DEF Running
<1>11. OneAtATime'
    BY <1>10, <1>13 DEF OneAtATime
<1>12. Parity'
    <2> SUFFICES ASSUME ~overlap', troubled = {}
                 PROVE  InStep(r)'
        BY <1>3, <1>10, <1>13 DEF Parity
    <2>1. Running = {} /\ AtParity
        BY <1>0, <1>3, <1>13 DEF Parity
    <2>2. Veterans' \subseteq Veterans /\ Veterans' \subseteq Nodes
        BY <1>2, <1>3, <1>5 DEF Veterans
    <2>3. \A m, n \in Veterans' : rules'[m] = rules'[n]
        BY <1>3, <2>1, <2>2 DEF AtParity
    <2>4. \A n \in Nodes : applied'[<<r, n>>] = 0 /\ results'[r][n] = "none"
        BY <1>3, <1>4
    <2>5. \A n \in Nodes : ~(applied'[<<r, n>>] = 1)
        BY <2>4
    <2>6. \A n \in Nodes : ~(results'[r][n] = "not found")
        BY <2>4
    <2> QED BY <2>3, <2>5, <2>6 DEF InStep
<1> QED BY <1>6, <1>7, <1>8, <1>9, <1>11, <1>12 DEF IInv, RulesSafe

LEMMA RespondInv ==
    ASSUME IInv, NEW r \in Requests, Respond(r)
    PROVE  IInv'
<1>0. TypeOK /\ FailureIsolated /\ Workers /\ AsSetUp /\ OneAtATime /\ Parity
    BY DEF IInv, RulesSafe
<1>1. /\ request[r].pc = "running" /\ r \in Running /\ Complete(r)
      /\ UNCHANGED <<members, known, rules, results, troubled, overlap, status, applied>>
    BY DEF Respond, Running, calls
<1>9. request' \in [Requests -> [pc : {"idle", "running", "done"}, op : Ops,
                                rule : Rules, targets : SUBSET Nodes]]
    BY <1>0 DEF Respond, TypeOK
<1>2. /\ request'[r].pc = "done" /\ request'[r].targets = request[r].targets
      /\ request'[r].op = request[r].op /\ request'[r].rule = request[r].rule
    BY <1>0 DEF Respond, TypeOK
<1>10. \A s \in Requests \ {r} : request'[s] = request[s]
    BY <1>0 DEF Respond, TypeOK
<1>11. \A s \in Requests : request'[s].targets = request[s].targets
    BY <1>2, <1>10
<1>3. TypeOK'
    <2>1. \A s \in Requests : \A n \in Nodes \ request'[s].targets : results[s][n] = "none"
        BY <1>0, <1>11 DEF TypeOK
    <2> QED BY <1>0, <1>1, <1>9, <2>1 DEF TypeOK, Call!TypeOK, Calls
<1>4. FailureIsolated'
    BY <1>0, <1>1 DEF FailureIsolated
<1>5. Workers'
    <2>1. ASSUME NEW s \in Requests
          PROVE  /\ request'[s].targets \subseteq known
                 /\ request'[s].pc = "idle" => request'[s].targets = {}
                 /\ request'[s].pc = "done" => \A n \in request'[s].targets : results[s][n] # "none"
        <3>1. CASE s = r
            BY <1>0, <1>1, <1>2, <3>1 DEF Workers, Complete
        <3>2. CASE s # r
            BY <1>0, <1>10, <3>2 DEF Workers, Complete
        <3> QED BY <3>1, <3>2
    <2>2. ASSUME NEW s \in Requests, NEW n \in Nodes
          PROVE  WorkerOf(s, n)'
        <3>1. WorkerOf(s, n)
            BY <1>0 DEF Workers
        <3>2. UNCHANGED <<results, status, applied>> /\ request'[s].targets = request[s].targets
            BY <1>1, <1>11
        <3> QED BY <3>1, <3>2 DEF WorkerOf
    <2> QED BY <1>1, <2>1, <2>2 DEF Workers, Complete
<1>6. Running' = Running \ {r}
    BY <1>2, <1>10 DEF Running
<1>7. AsSetUp' /\ OneAtATime'
    BY <1>0, <1>1, <1>2, <1>6 DEF AsSetUp, OneAtATime
<1>8. Parity'
    <2> SUFFICES ASSUME ~overlap, troubled = {}
                 PROVE  AtParity'
        BY <1>0, <1>1, <1>6 DEF Parity, OneAtATime
    <2>1. InStep(r)
        BY <1>0, <1>1 DEF Parity
    <2>2. Veterans' = Veterans /\ Veterans \subseteq request[r].targets
        <3>1. \A s \in Requests : request'[s].pc # "idle" <=> request[s].pc # "idle"
            BY <1>1, <1>2, <1>10
        <3> QED BY <1>1, <1>11, <3>1 DEF Veterans
    <2>3. Veterans \subseteq Nodes
        BY <1>0 DEF Veterans, TypeOK
    <2>4. ASSUME NEW n \in Veterans
          PROVE  /\ Carried(r, n)
                 /\ applied[<<r, n>>] \in 0..1
                 /\ applied[<<r, n>>] # 1 => request[r].op = "remove"
        <3>1. n \in Nodes /\ WorkerOf(r, n) /\ results[r][n] # "none"
            BY <1>0, <1>1, <2>2, <2>3 DEF Workers, Complete
        <3>2. results[r][n] # "failure"
            BY <1>0, <3>1 DEF FailureIsolated
        <3>3. applied[<<r, n>>] \in 0..1
            BY <1>0, <3>1 DEF TypeOK, Call!TypeOK, Calls
        <3> QED BY <2>1, <3>1, <3>2, <3>3 DEF WorkerOf, InStep
    <2>5. ASSUME NEW m \in Veterans, NEW n \in Veterans, NEW d \in Rules
          PROVE  d \in rules[m] <=> d \in rules[n]
        <3>1. \/ d \in rules[m] <=> d \in rules[n]
              \/ d = request[r].rule /\ applied[<<r, m>>] # applied[<<r, n>>]
            BY <2>1 DEF InStep
        <3> QED BY <2>4, <3>1 DEF Carried
    <2>6. \A n \in Veterans : rules[n] \subseteq Rules
        BY <1>0, <2>3 DEF TypeOK
    <2> QED BY <1>1, <2>2, <2>5, <2>6 DEF AtParity
<1> QED BY <1>3, <1>4, <1>5, <1>7, <1>8 DEF IInv, RulesSafe

-----------------------------------------------------------------------------
(* The workers.                                                            *)

\* A worker starts or returns: its call moves on and its entry is made.
LEMMA MoveInv ==
    ASSUME IInv, NEW r \in Requests, NEW n \in Nodes,
           NEW to \in {"running", "succeeded", "failed"}, NEW entry \in Entries,
           UNCHANGED <<members, known, rules, request, applied, overlap>>,
           status[<<r, n>>] \in {"idle", "running"},
           status' = [status EXCEPT ![<<r, n>>] = to],
           results' = [results EXCEPT ![r][n] = entry],
           troubled \subseteq troubled', troubled' \subseteq Nodes,
           n \in request[r].targets,
           WorkerOf(r, n)',
           entry = "failure" => n \in troubled',
           entry = "not found" => request[r].op = "remove" /\ Carried(r, n)
    PROVE  IInv'
<1>0. TypeOK /\ FailureIsolated /\ Workers /\ AsSetUp /\ OneAtATime /\ Parity
    BY DEF IInv, RulesSafe
<1>1. results \in [Requests -> [Nodes -> Entries]]
    BY <1>0 DEF TypeOK
<1>2. /\ results' \in [Requests -> [Nodes -> Entries]]
      /\ results'[r][n] = entry
    BY <1>1
<1>3. \A s \in Requests, m \in Nodes : s # r \/ m # n => results'[s][m] = results[s][m]
    BY <1>1
<1>4. \A s \in Requests, m \in Nodes :
        s # r \/ m # n => status'[<<s, m>>] = status[<<s, m>>]
    BY <1>0 DEF TypeOK, Call!TypeOK, Calls
<1>5. TypeOK'
    <2>1. Call!TypeOK'
        BY <1>0 DEF TypeOK, Call!TypeOK, Calls
    <2>2. ASSUME NEW s \in Requests, NEW m \in Nodes \ request[s].targets
          PROVE  results'[s][m] = "none"
        <3>1. results'[s][m] = results[s][m]
            BY <1>3
        <3> QED BY <1>0, <3>1 DEF TypeOK
    <2> QED BY <1>0, <1>2, <2>1, <2>2 DEF TypeOK
<1>6. FailureIsolated'
    BY <1>0, <1>2, <1>3 DEF FailureIsolated
<1>7. Workers'
    <2>1. ASSUME NEW s \in Requests, NEW m \in Nodes
          PROVE  WorkerOf(s, m)'
        <3>1. CASE s = r /\ m = n
            BY <3>1
        <3>2. CASE s # r \/ m # n
            <4>1. WorkerOf(s, m)
                BY <1>0 DEF Workers
            <4>2. results'[s][m] = results[s][m] /\ status'[<<s, m>>] = status[<<s, m>>]
                BY <1>3, <1>4, <3>2
            <4> QED BY <4>1, <4>2 DEF WorkerOf
        <3> QED BY <3>1, <3>2
    <2>2. ASSUME NEW s \in Requests, request[s].pc = "done"
          PROVE  Complete(s)'
        <3>1. Complete(s)
            BY <1>0, <2>2 DEF Workers
        <3>2. s # r
            <4>1. results[r][n] = "none"
                BY <1>0 DEF Workers, WorkerOf
            <4> QED BY <3>1, <4>1 DEF Complete
        <3>3. request[s].targets \subseteq Nodes
            BY <1>0 DEF TypeOK
        <3> QED BY <1>3, <3>1, <3>2, <3>3 DEF Complete
    <2> QED BY <1>0, <2>1, <2>2 DEF Workers
<1>8. UNCHANGED <<AsSetUp, OneAtATime, Veterans, AtParity, Running>>
    BY DEF AsSetUp, OneAtATime, Veterans, AtParity, Running
<1>9. Parity'
    <2> SUFFICES ASSUME ~overlap, troubled' = {}, NEW s \in Running, InStep(s)
                 PROVE  InStep(s)'
        BY <1>0, <1>8 DEF Parity
    <2>1. s \in Requests
        BY DEF Running
    <2>2. \A m \in Nodes : results'[s][m] = "not found" => request[s].op = "remove" /\ Carried(s, m)'
        BY <1>2, <1>3, <2>1 DEF InStep, Carried
    <2>3. \A m \in Nodes : applied'[<<s, m>>] = 1 => Carried(s, m)'
        BY DEF InStep, Carried
    <2>5. \A m, k \in Veterans, d \in Rules :
            \/ d \in rules'[m] <=> d \in rules'[k]
            \/ /\ d = request'[s].rule /\ request'[s].op # "get"
               /\ applied'[<<s, m>>] # applied'[<<s, k>>]
        BY DEF InStep
    <2> QED BY <1>8, <2>2, <2>3, <2>5 DEF InStep
<1> QED BY <1>0, <1>5, <1>6, <1>7, <1>8, <1>9 DEF IInv, RulesSafe

LEMMA WorkerInv ==
    ASSUME IInv, NEW r \in Requests, NEW n \in Nodes, Worker(r, n)
    PROVE  IInv'
<1>0. TypeOK /\ Workers
    BY DEF IInv, RulesSafe
<1>1. WorkerOf(r, n)
    BY <1>0 DEF Workers
<1>2. results \in [Requests -> [Nodes -> Entries]] /\ troubled \subseteq Nodes
    BY <1>0 DEF TypeOK
<1>3. <<r, n>> \in DOMAIN status /\ <<r, n>> \in Calls
    BY <1>0 DEF TypeOK, Call!TypeOK, Calls
<1> USE DEF Call!Move, Entry
<1>4. CASE StartWorker(r, n)
    <2>1. /\ status[<<r, n>>] = "idle" /\ results[r][n] = "none"
          /\ status' = [status EXCEPT ![<<r, n>>] = "running"]
          /\ n \in request[r].targets
          /\ UNCHANGED <<members, known, rules, request, applied, results, troubled, overlap>>
        BY <1>1, <1>4 DEF StartWorker, Call!Call, WorkerOf
    <2>2. results' = [results EXCEPT ![r][n] = "none"]
        BY <1>2, <2>1
    <2>3. WorkerOf(r, n)'
        BY <1>3, <2>1 DEF WorkerOf
    <2> QED BY <1>2, <2>1, <2>2, <2>3, MoveInv DEF Entries
<1>5. CASE Succeed(r, n)
    <2>1. /\ status[<<r, n>>] = "running" /\ applied[<<r, n>>] = 1
          /\ status' = [status EXCEPT ![<<r, n>>] = "succeeded"]
          /\ results' = [results EXCEPT ![r][n] = "success"]
          /\ UNCHANGED <<members, known, rules, request, applied, troubled, overlap>>
        BY <1>5 DEF Succeed, Call!Succeed
    <2>2. n \in request[r].targets
        BY <1>1, <2>1 DEF WorkerOf
    <2>3. WorkerOf(r, n)'
        BY <1>2, <1>3, <2>1, <2>2 DEF WorkerOf
    <2> QED BY <1>2, <2>1, <2>2, <2>3, MoveInv DEF Entries
<1>6. CASE NotFound(r, n)
    <2>1. /\ status[<<r, n>>] = "running"
          /\ status' = [status EXCEPT ![<<r, n>>] = "failed"]
          /\ results' = [results EXCEPT ![r][n] = "not found"]
          /\ request[r].op = "remove" /\ request[r].rule \notin rules[n]
          /\ UNCHANGED <<members, known, rules, request, applied, troubled, overlap>>
        BY <1>6 DEF NotFound, Call!Fail
    <2>2. n \in request[r].targets
        BY <1>1, <2>1 DEF WorkerOf
    <2>3. WorkerOf(r, n)'
        BY <1>2, <1>3, <2>1, <2>2 DEF WorkerOf
    <2> QED BY <1>2, <2>1, <2>2, <2>3, MoveInv DEF Entries, Carried
<1>7. CASE Fail(r, n)
    <2>1. /\ status[<<r, n>>] = "running"
          /\ status' = [status EXCEPT ![<<r, n>>] = "failed"]
          /\ results' = [results EXCEPT ![r][n] = "failure"]
          /\ troubled' = troubled \cup {n}
          /\ UNCHANGED <<members, known, rules, request, applied, overlap>>
        BY <1>7 DEF Fail, Call!Fail
    <2>2. n \in request[r].targets
        BY <1>1, <2>1 DEF WorkerOf
    <2>3. WorkerOf(r, n)'
        BY <1>2, <1>3, <2>1, <2>2 DEF WorkerOf
    <2> QED BY <1>2, <2>1, <2>2, <2>3, MoveInv DEF Entries
<1> QED BY <1>4, <1>5, <1>6, <1>7 DEF Worker

-----------------------------------------------------------------------------
(* The nodes.                                                              *)

\* A rule set changes in the one rule the request is about, if at all.
LEMMA EffectIsLocal ==
    ASSUME TypeOK, NEW r \in Requests, NEW n \in Nodes
    PROVE  /\ Effect(r, n) \subseteq Rules
           /\ request[r].op = "get" => Effect(r, n) = rules[n]
           /\ request[r].op = "add" => request[r].rule \in Effect(r, n)
           /\ request[r].op = "remove" => request[r].rule \notin Effect(r, n)
           /\ \A d \in Rules \ {request[r].rule} : d \in Effect(r, n) <=> d \in rules[n]
<1>1. request[r].op \in {"get", "add", "remove"} /\ request[r].rule \in Rules
    BY DEF TypeOK, Ops
<1>2. rules[n] \subseteq Rules
    BY DEF TypeOK
<1>3. CASE request[r].op = "get"
    BY <1>2, <1>3 DEF Effect
<1>4. CASE request[r].op = "add"
    BY <1>1, <1>2, <1>4 DEF Effect
<1>5. CASE request[r].op = "remove"
    BY <1>1, <1>2, <1>5 DEF Effect
<1> QED BY <1>1, <1>3, <1>4, <1>5

LEMMA ServeInv ==
    ASSUME IInv, NEW r \in Requests, NEW n \in Nodes, Serve(r, n)
    PROVE  IInv'
<1>0. TypeOK /\ FailureIsolated /\ Workers /\ AsSetUp /\ OneAtATime /\ Parity
    BY DEF IInv, RulesSafe
<1>1. /\ results[r][n] # "not found"
      /\ status[<<r, n>>] \in {"running", "failed"} /\ applied[<<r, n>>] = 0
    BY DEF Serve, Call!Apply
<1>2. UNCHANGED <<members, known, request, results, status, troubled, overlap>>
    BY DEF Serve, Call!Apply
<1>3. /\ applied' \in [Calls -> 0..1] /\ applied'[<<r, n>>] = 1
      /\ \A c \in Calls \ {<<r, n>>} : applied'[c] = applied[c]
    <2>1. applied \in [Calls -> 0..1] /\ <<r, n>> \in Calls
        BY <1>0 DEF TypeOK, Call!TypeOK, Calls
    <2>2. applied' = [applied EXCEPT ![<<r, n>>] = 1]
        BY DEF Serve, Call!Apply
    <2> QED BY <2>1, <2>2
<1>4. /\ rules' \in [Nodes -> SUBSET Rules] /\ rules'[n] = Effect(r, n)
      /\ \A m \in Nodes \ {n} : rules'[m] = rules[m]
    BY <1>0, EffectIsLocal DEF Serve, TypeOK
<1>5. n \in request[r].targets /\ request[r].pc # "idle"
    BY <1>0, <1>1 DEF Workers, WorkerOf
<1>6. TypeOK' /\ FailureIsolated'
    BY <1>0, <1>2, <1>3, <1>4 DEF TypeOK, Call!TypeOK, FailureIsolated
<1>7. Workers'
    <2>1. ASSUME NEW s \in Requests, NEW m \in Nodes
          PROVE  WorkerOf(s, m)'
        <3>1. WorkerOf(s, m)
            BY <1>0 DEF Workers
        <3>2. CASE <<s, m>> = <<r, n>>
            BY <1>1, <1>2, <3>1, <3>2 DEF WorkerOf
        <3>3. CASE <<s, m>> # <<r, n>>
            <4>1. applied'[<<s, m>>] = applied[<<s, m>>]
                BY <1>3, <3>3 DEF Calls
            <4> QED BY <1>2, <3>1, <4>1 DEF WorkerOf
        <3> QED BY <3>2, <3>3
    <2> QED BY <1>0, <1>2, <2>1 DEF Workers, Complete
<1>8. AsSetUp'
    BY <1>2, <1>5 DEF AsSetUp
<1>9. UNCHANGED <<Running, Veterans, OneAtATime>>
    BY <1>2 DEF Running, Veterans, OneAtATime
<1>10. ASSUME ~overlap, troubled = {}
       PROVE  r \in Running
    <2>1. results[r][n] # "failure"
        BY <1>0, <1>10 DEF FailureIsolated
    <2>2. results[r][n] = "none"
        BY <1>0, <1>1, <2>1 DEF Workers, WorkerOf
    <2>3. request[r].pc # "done"
        BY <1>0, <1>5, <2>2 DEF Workers, Complete
    <2>4. request[r].pc \in {"idle", "running", "done"}
        BY <1>0 DEF TypeOK
    <2> QED BY <1>5, <2>3, <2>4 DEF Running
<1>11. Parity'
    <2> SUFFICES ASSUME ~overlap, troubled = {}
                 PROVE  InStep(r)'
        BY <1>0, <1>2, <1>9, <1>10 DEF Parity, OneAtATime
    <2>1. InStep(r)
        BY <1>0, <1>10 DEF Parity
    <2>2. Veterans \subseteq Nodes
        BY <1>0 DEF Veterans, TypeOK
    <2>3. \A m \in Nodes : applied[<<r, m>>] \in 0..1 /\ applied'[<<r, m>>] \in 0..1
        BY <1>0, <1>3 DEF TypeOK, Call!TypeOK, Calls
    <2>4. \A m \in Nodes \ {n} : applied'[<<r, m>>] = applied[<<r, m>>]
        BY <1>3 DEF Calls
    <2>5. ASSUME NEW m \in Nodes, applied'[<<r, m>>] = 1
          PROVE  Carried(r, m)'
        <3>1. CASE m = n
            BY <1>0, <1>2, <1>4, <3>1, EffectIsLocal DEF Carried
        <3>2. CASE m # n
            BY <1>2, <1>4, <2>1, <2>4, <2>5, <3>2 DEF Carried, InStep
        <3> QED BY <3>1, <3>2
    <2>6. ASSUME NEW m \in Nodes, results[r][m] = "not found"
          PROVE  request[r].op = "remove" /\ Carried(r, m)'
        BY <1>1, <1>2, <1>4, <2>1, <2>6 DEF Carried, InStep
    <2>7. ASSUME NEW m \in Veterans, NEW k \in Veterans, NEW d \in Rules
          PROVE  \/ d \in rules'[m] <=> d \in rules'[k]
                 \/ /\ d = request[r].rule /\ request[r].op # "get"
                    /\ applied'[<<r, m>>] # applied'[<<r, k>>]
        <3>0. m \in Nodes /\ k \in Nodes
            BY <2>2
        <3>1. \/ d \in rules[m] <=> d \in rules[k]
              \/ /\ d = request[r].rule /\ request[r].op # "get"
                 /\ applied[<<r, m>>] # applied[<<r, k>>]
            BY <2>1 DEF InStep
        <3>2. CASE d # request[r].rule \/ request[r].op = "get"
            <4>1. \A l \in Nodes : d \in rules'[l] <=> d \in rules[l]
                BY <1>0, <1>4, <3>2, EffectIsLocal
            <4> QED BY <3>0, <3>1, <3>2, <4>1
        <3>3. CASE d = request[r].rule /\ request[r].op # "get"
            <4>1. CASE applied'[<<r, m>>] # applied'[<<r, k>>]
                BY <3>3, <4>1
            <4>2. CASE applied'[<<r, m>>] = 1 /\ applied'[<<r, k>>] = 1
                <5>1. Carried(r, m)' /\ Carried(r, k)'
                    BY <2>5, <3>0, <4>2
                <5>2. request[r].op \in {"add", "remove"}
                    BY <1>0, <3>3 DEF TypeOK, Ops
                <5> QED BY <1>2, <3>3, <5>1, <5>2 DEF Carried
            <4>3. CASE applied'[<<r, m>>] = 0 /\ applied'[<<r, k>>] = 0
                <5>1. m # n /\ k # n
                    BY <1>3, <4>3
                <5> QED BY <1>4, <2>4, <3>0, <3>1, <4>3, <5>1
            <4> QED BY <2>3, <3>0, <4>1, <4>2, <4>3
        <3> QED BY <3>2, <3>3, ZenonT(60)
    <2> QED BY <1>2, <1>9, <2>5, <2>6, <2>7, ZenonT(60) DEF InStep
<1> QED BY <1>0, <1>6, <1>7, <1>8, <1>9, <1>11 DEF IInv, RulesSafe

LEMMA TurnDownInv ==
    ASSUME IInv, NEW r \in Requests, NEW n \in Nodes, TurnDown(r, n)
    PROVE  IInv'
<1>0. TypeOK /\ FailureIsolated /\ Workers /\ AsSetUp /\ OneAtATime
    BY DEF IInv, RulesSafe
<1>1. status[<<r, n>>] \in {"running", "failed"} /\ applied[<<r, n>>] = 0
      /\ applied' = [applied EXCEPT ![<<r, n>>] = 1]
    BY DEF TurnDown, Call!Apply
<1>2. /\ UNCHANGED <<members, known, rules, request, results, status, overlap>>
      /\ troubled' = troubled \cup {n}
    BY DEF TurnDown, Call!Apply
<1>3. /\ applied' \in [Calls -> 0..1] /\ applied'[<<r, n>>] = 1
      /\ \A c \in Calls \ {<<r, n>>} : applied'[c] = applied[c]
    <2>1. applied \in [Calls -> 0..1] /\ <<r, n>> \in Calls
        BY <1>0 DEF TypeOK, Call!TypeOK, Calls
    <2> QED BY <1>1, <2>1
<1>4. TypeOK' /\ FailureIsolated'
    BY <1>0, <1>2, <1>3 DEF TypeOK, Call!TypeOK, FailureIsolated
<1>5. Workers'
    <2>1. ASSUME NEW s \in Requests, NEW m \in Nodes
          PROVE  WorkerOf(s, m)'
        <3>1. WorkerOf(s, m)
            BY <1>0 DEF Workers
        <3>2. CASE <<s, m>> = <<r, n>>
            BY <1>1, <1>2, <3>1, <3>2 DEF WorkerOf
        <3>3. CASE <<s, m>> # <<r, n>>
            <4>1. applied'[<<s, m>>] = applied[<<s, m>>]
                BY <1>3, <3>3 DEF Calls
            <4> QED BY <1>2, <3>1, <4>1 DEF WorkerOf
        <3> QED BY <3>2, <3>3
    <2> QED BY <1>0, <1>2, <2>1 DEF Workers, Complete
<1>6. AsSetUp' /\ OneAtATime'
    BY <1>0, <1>2 DEF AsSetUp, OneAtATime, Running
<1>7. Parity'
    BY <1>2 DEF Parity
<1> QED BY <1>4, <1>5, <1>6, <1>7 DEF IInv, RulesSafe

LEMMA MembersInv ==
    ASSUME IInv, AddNode \/ RemoveNode
    PROVE  IInv'
<1>0. TypeOK /\ FailureIsolated /\ Workers /\ AsSetUp /\ OneAtATime /\ Parity
    BY DEF IInv, RulesSafe
<1>1. UNCHANGED <<rules, request, results, status, applied, troubled, overlap>>
    BY DEF AddNode, RemoveNode, calls
<1>2. /\ members' \subseteq known' /\ known' \subseteq Nodes /\ known \subseteq known'
      /\ members' \subseteq members \cup (known' \ known)
    BY <1>0 DEF AddNode, RemoveNode, TypeOK
<1>3. TypeOK' /\ FailureIsolated' /\ AsSetUp' /\ OneAtATime'
    BY <1>0, <1>1, <1>2 DEF TypeOK, Call!TypeOK, FailureIsolated, AsSetUp, OneAtATime, Running
<1>4. Workers'
    <2>1. \A r \in Requests, n \in Nodes : WorkerOf(r, n)'
        BY <1>0, <1>1, ZenonT(60) DEF Workers, WorkerOf
    <2>2. \A r \in Requests : request[r].targets \subseteq known'
        BY <1>0, <1>2 DEF Workers
    <2>3. \A r \in Requests : request[r].pc = "done" => Complete(r)'
        BY <1>0, <1>1 DEF Workers, Complete
    <2> QED BY <1>0, <1>1, <2>1, <2>2, <2>3 DEF Workers
<1>5. CASE \A r \in Requests : request[r].pc = "idle"
    <2>1. Running' = {}
        BY <1>1, <1>5 DEF Running
    <2>2. \A m, n \in Nodes : rules[m] = rules[n]
        BY <1>0, <1>5 DEF AsSetUp
    <2>3. Veterans' \subseteq Nodes
        BY <1>2 DEF Veterans
    <2>4. AtParity'
        BY <1>1, <2>2, <2>3 DEF AtParity
    <2>5. Parity'
        BY <2>1, <2>4 DEF Parity
    <2> QED BY <1>3, <1>4, <2>5 DEF IInv, RulesSafe
<1>6. CASE \E r \in Requests : request[r].pc # "idle"
    <2>1. Veterans' \subseteq Veterans
        <3>1. \A r \in Requests : request[r].targets \subseteq known
            BY <1>0 DEF Workers
        <3> QED BY <1>1, <1>2, <1>6, <3>1 DEF Veterans
    <2>2. AtParity => AtParity'
        BY <1>1, <2>1 DEF AtParity
    <2>3. \A r \in Running : InStep(r) => InStep(r)'
        BY <1>1, <2>1, ZenonT(60) DEF InStep, Carried
    <2>4. Running' = Running
        BY <1>1 DEF Running
    <2>5. Parity'
        BY <1>0, <1>1, <2>2, <2>3, <2>4 DEF Parity
    <2> QED BY <1>3, <1>4, <2>5 DEF IInv, RulesSafe
<1> QED BY <1>5, <1>6

-----------------------------------------------------------------------------

LEMMA StepInv ==
    ASSUME IInv, [Next]_vars
    PROVE  IInv'
<1>1. CASE \E r \in Requests : Begin(r) \/ Respond(r)
    BY <1>1, BeginInv, RespondInv
<1>2. CASE \E r \in Requests, n \in Nodes : Worker(r, n) \/ Serve(r, n) \/ TurnDown(r, n)
    BY <1>2, WorkerInv, ServeInv, TurnDownInv
<1>3. CASE AddNode \/ RemoveNode
    BY <1>3, MembersInv
<1>4. CASE UNCHANGED vars
    <2>1. UNCHANGED <<members, known, rules, request, results, status, applied,
                      troubled, overlap>>
        BY <1>4 DEF vars
    <2>2. UNCHANGED <<TypeOK, FailureIsolated, Workers, AsSetUp, OneAtATime>>
        BY <2>1 DEF TypeOK, Call!TypeOK, FailureIsolated, Workers, WorkerOf, Complete,
                    AsSetUp, OneAtATime, Running
    <2>3. UNCHANGED Parity
        BY <2>1 DEF Parity, Running, Veterans, AtParity, InStep, Carried
    <2> QED BY <2>2, <2>3 DEF IInv, RulesSafe
<1> QED BY <1>1, <1>2, <1>3, <1>4 DEF Next

LEMMA Invariance == Spec => []IInv
<1> QED BY InitInv, StepInv, PTL DEF Spec

\* Whatever requests overlap, whatever joins, leaves or fails: a request has
\* results for its own targets only, and fails at a node only if a call to that
\* node has failed (forEachClient, whose workers return no error).
THEOREM FailuresStayApart == Spec => []RulesSafe
<1>1. IInv => RulesSafe
    BY DEF IInv
<1> QED BY <1>1, Invariance, PTL

\* The map a handler answers with has an entry for each node that was a member
\* when the request began, and "success" means that the Pi-hole has carried the
\* request out (AddDomainRule, RemoveDomainRule, GetDomainRules).
THEOREM ResponsesAreTrue == Spec => []ResponseTrue
<1>1. IInv => ResponseTrue
    <2> SUFFICES ASSUME IInv, NEW r \in Requests, request[r].pc = "done",
                        NEW n \in request[r].targets
                 PROVE  /\ results[r][n] # "none"
                        /\ results[r][n] = "success" => applied[<<r, n>>] = 1
        BY DEF ResponseTrue
    <2>1. n \in Nodes
        BY DEF IInv, RulesSafe, TypeOK
    <2>2. WorkerOf(r, n) /\ results[r][n] # "none"
        BY <2>1 DEF IInv, Workers, Complete
    <2> QED BY <2>2 DEF WorkerOf
<1> QED BY <1>1, Invariance, PTL

\* Requests that never overlap, and none of whose calls fails, leave the nodes
\* that took part in all of them with the same rules: the handlers need no
\* coordination beyond waiting for every worker.
THEOREM NodesStayInStep == Spec => []SequentialParity
<1>1. IInv => SequentialParity
    BY DEF IInv, Parity, SequentialParity
<1> QED BY <1>1, Invariance, PTL

\* The fan-out drives each call as NodeCall allows, which is what PiholeClient is
\* shown to implement: nothing more is assumed of a call.
THEOREM CallsAreNodeCalls == Spec => Call!Spec
<1>1. Init => Call!Init
    BY DEF Init
<1>2. ASSUME [Next]_vars
      PROVE  [Call!Next]_(Call!vars)
    <2>1. CASE \E r \in Requests : Begin(r) \/ Respond(r)
        BY <2>1 DEF Begin, Respond, calls, Call!vars
    <2>2. CASE \E r \in Requests, n \in Nodes :
                    Worker(r, n) \/ Serve(r, n) \/ TurnDown(r, n)
        BY <2>2 DEF Worker, Serve, TurnDown, StartWorker, Succeed, NotFound, Fail, Calls, Call!Next
    <2>3. CASE AddNode \/ RemoveNode
        BY <2>3 DEF AddNode, RemoveNode, calls, Call!vars
    <2>4. CASE UNCHANGED vars
        BY <2>4 DEF vars, Call!vars
    <2> QED BY <1>2, <2>1, <2>2, <2>3, <2>4 DEF Next
<1> QED BY <1>1, <1>2, PTL DEF Spec, Call!Spec
=============================================================================
