------------------------ MODULE PiholeRegistryProofs ------------------------
(***************************************************************************)
(* Proofs about PiholeRegistry for any number of request slots, any sets   *)
(* of field values and any bounds.                                         *)
(***************************************************************************)
EXTENDS PiholeRegistry, TLAPS

Busy(r) == req[r].pc # "idle"

\* The slots are consistent: which operations visit which steps, and how much
\* of the configuration has been read when.
Shape ==
    \A r \in Requests :
        /\ req[r].op = "none" <=> req[r].pc = "idle"
        /\ req[r].op = "remove" <=> req[r].pc \in {"has", "drop"}
        /\ Busy(r) => req[r].id \in Ids
        /\ req[r].pc = "secret" =>
            req[r].cfg.name \in Names /\ req[r].cfg.addr \in Addrs
        /\ req[r].pc = "install" => req[r].cfg \in Config

\* Nothing is known of an id that was never handed out, and nothing runs
\* while the server is down.
Fresh == \A i \in Ids : i > lastId => rows[i] = None /\ clients[i] = None
Down == ~up => clients = NoNodes /\ req = [r \in Requests |-> Idle]

\* The id of an add in flight belongs to that add, and has no client yet.
Adds ==
    \A r \in Requests : req[r].op = "add" =>
        /\ req[r].id \in 1..lastId
        /\ clients[req[r].id] = None
        /\ \A q \in Requests \ {r} : req[q].op = "add" => req[q].id # req[r].id

\* A row never comes back after its DELETE.
Removes ==
    \A r \in Requests : req[r].op = "remove" =>
        \/ rows[req[r].id] = None /\ req[r].id <= lastId
        \/ req[r].id \in premature

\* A request marked solo is the only one in flight on its node, and what it
\* read of the row is what the row still holds; on an undisturbed node every
\* request is solo.
Alone(r) == \A q \in Requests : Busy(q) /\ req[q].id = req[r].id => q = r
Solo ==
    \A r \in Requests : Busy(r) =>
        /\ req[r].id \notin disturbed => req[r].solo
        /\ req[r].solo => Alone(r)
SoloReads ==
    \A r \in Requests : Busy(r) /\ req[r].solo =>
        /\ req[r].op = "add" => rows[req[r].id] # None
        /\ req[r].op = "remove" => rows[req[r].id] = None
        /\ req[r].pc = "secret" =>
            /\ rows[req[r].id] # None
            /\ req[r].cfg.name = rows[req[r].id].name
            /\ req[r].cfg.addr = rows[req[r].id].addr
        /\ req[r].pc = "install" => req[r].cfg = rows[req[r].id]

\* An update of an undisturbed node finds both a row and a client, or neither.
SoloUpdates ==
    \A r \in Requests : req[r].op = "update" /\ req[r].id \notin disturbed =>
        (rows[req[r].id] = None <=> clients[req[r].id] = None)

Settled ==
    up => \A i \in Ids \ disturbed :
        (\A r \in Requests : Busy(r) => req[r].id # i) => clients[i] = rows[i]

Served ==
    up /\ faults = 0 =>
        \A i \in Ids \ premature : rows[i] # None =>
            \/ clients[i] # None
            \/ \E r \in Requests : req[r].op = "add" /\ req[r].id = i

\* The inductive invariant.
IInv ==
    /\ TypeOK /\ Shape /\ Fresh /\ Down
    /\ Adds /\ Removes
    /\ Solo /\ SoloReads /\ SoloUpdates
    /\ Settled /\ Served

-----------------------------------------------------------------------------
LEMMA PatchedType ==
    ASSUME NEW row \in Config, NEW params \in Partial
    PROVE  Patched(row, params) \in Config
BY DEF Patched, Config, Partial

LEMMA InitInv == Init => IInv
<1> SUFFICES ASSUME Init PROVE IInv
    OBVIOUS
<1> USE RegistryAssumption DEF Init
<1>1. Blank \in Partial /\ Idle \in Request
    BY DEF Blank, Partial, Idle, Request
<1>2. TypeOK
    BY <1>1 DEF TypeOK, NoNodes
<1>3. Shape /\ Fresh /\ Down /\ Adds /\ Removes
    BY DEF Shape, Busy, Fresh, Down, Adds, Removes, Idle, NoNodes, Ids
<1>4. Solo /\ SoloReads /\ SoloUpdates /\ Settled /\ Served
    BY DEF Solo, SoloReads, SoloUpdates, Settled, Served, Busy, Idle, NoNodes
<1>. QED BY <1>2, <1>3, <1>4 DEF IInv


-----------------------------------------------------------------------------
(* What the bookkeeping operators do to the slots.                         *)

LEMMA FinishFrame ==
    ASSUME TypeOK, NEW r \in Requests, Finish(r)
    PROVE  /\ req' \in [Requests -> Request]
           /\ req'[r] = Idle
           /\ \A q \in Requests : q # r => req'[q] = req[q]
BY RegistryAssumption DEF TypeOK, Finish, Idle, Request, Partial, Blank

LEMMA GotoFrame ==
    ASSUME TypeOK, NEW r \in Requests, NEW pc \in {"secret", "install", "drop"},
           NEW cfg \in Partial, Goto(r, pc, cfg)
    PROVE  /\ req' \in [Requests -> Request]
           /\ req'[r] = [op |-> req[r].op, pc |-> pc, id |-> req[r].id,
                         cfg |-> cfg, solo |-> req[r].solo]
           /\ \A q \in Requests : q # r => req'[q] = req[q]
<1>1. req' = [req EXCEPT ![r] = [req[r] EXCEPT !.pc = pc, !.cfg = cfg]]
    BY DEF TypeOK, Goto, Request
<1>. QED BY <1>1 DEF TypeOK, Request

LEMMA BeginFrame ==
    ASSUME TypeOK, NEW r \in Requests, NEW op \in {"add", "update", "remove"},
           NEW pc \in {"select", "has"}, NEW i \in Ids, Begin(r, op, pc, i)
    PROVE  /\ up /\ req[r].pc = "idle"
           /\ req' \in [Requests -> Request]
           /\ req'[r].op = op /\ req'[r].pc = pc /\ req'[r].id = i
           /\ req'[r].solo <=> InFlight(i) = {}
           /\ \A q \in Requests : q # r =>
                /\ req'[q].op = req[q].op /\ req'[q].pc = req[q].pc
                /\ req'[q].id = req[q].id /\ req'[q].cfg = req[q].cfg
                /\ q \in InFlight(i) => ~req'[q].solo
                /\ q \notin InFlight(i) => (req'[q].solo <=> req[q].solo)
           /\ disturbed' = IF InFlight(i) = {} THEN disturbed
                                               ELSE disturbed \cup {i}
<1>1. Blank \in Partial
    BY DEF Blank, Partial
<1>2. i \in 0..MaxId
    BY RegistryAssumption DEF Ids
<1>3. [op |-> op, pc |-> pc, id |-> i, cfg |-> Blank, solo |-> InFlight(i) = {}]
        \in Request
    BY <1>1, <1>2 DEF Request
<1>4. \A q \in Requests : [req[q] EXCEPT !.solo = FALSE] \in Request
    BY DEF TypeOK, Request
<1>. QED BY <1>3, <1>4 DEF TypeOK, Begin, Request

-----------------------------------------------------------------------------
(* The last step of a request, whatever it leaves in the cluster.          *)

LEMMA EndStep ==
    ASSUME IInv, NEW r \in Requests, Busy(r), Finish(r),
           UNCHANGED <<rows, lastId, up, premature>>,
           NEW c \in Config \cup {None},
           clients' = [clients EXCEPT ![req[r].id] = c],
           up,
           c # None => req[r].op = "add" \/ clients[req[r].id] # None,
           faults' \in 0..MaxFaults, faults' = 0 => faults = 0,
           \/ disturbed' = disturbed
           \/ disturbed' = disturbed \cup {req[r].id}
           \/ req[r].solo /\ disturbed' = disturbed \ {req[r].id},
           req[r].id \notin disturbed' => c = rows[req[r].id],
           \/ c # None \/ rows[req[r].id] = None \/ faults' # 0
           \/ req[r].id \in premature
           \/ \E q \in Requests :
                q # r /\ req[q].op = "add" /\ req[q].id = req[r].id
    PROVE  IInv'
<1> USE DEF IInv
<1>1. /\ req' \in [Requests -> Request]
      /\ req'[r] = Idle
      /\ \A q \in Requests : q # r => req'[q] = req[q]
    BY FinishFrame
<1>2. req[r].id \in Ids /\ req[r] \in Request
    BY DEF Shape, TypeOK
<1>3. /\ clients' \in [Ids -> Config \cup {None}]
      /\ clients'[req[r].id] = c
      /\ \A i \in Ids : i # req[r].id => clients'[i] = clients[i]
    BY <1>2 DEF TypeOK
<1>4. Idle.op = "none" /\ Idle.pc = "idle"
    BY DEF Idle
<1>5. TypeOK'
    BY <1>1, <1>2, <1>3 DEF TypeOK
<1>6. Shape'
    BY <1>1, <1>4 DEF Shape, Busy
<1>7. Fresh'
    BY <1>2, <1>3, RegistryAssumption DEF Fresh, Adds, TypeOK, Ids
<1>8. Down'
    BY DEF Down
<1>9. Adds'
    BY <1>1, <1>2, <1>3, <1>4 DEF Adds, Shape, Busy
<1>10. Removes'
    BY <1>1, <1>4 DEF Removes
<1>11. Solo'
    BY <1>1, <1>4 DEF Solo, Busy, Alone
<1>12. SoloReads'
    BY <1>1, <1>4 DEF SoloReads, Busy
<1>13. SoloUpdates'
    BY <1>1, <1>2, <1>3, <1>4 DEF SoloUpdates, Solo, Alone, Busy, Shape
<1>14. Settled'
    BY <1>1, <1>2, <1>3, <1>4 DEF Settled, Solo, Alone, Busy, Shape, TypeOK
<1>15. Served'
    BY <1>1, <1>2, <1>3, <1>4 DEF Served, Adds, Busy, Shape, TypeOK
<1>. QED
    BY <1>5, <1>6, <1>7, <1>8, <1>9, <1>10, <1>11, <1>12, <1>13, <1>14, <1>15

(* A step in the middle of a request, which changes its slot only.         *)

LEMMA MiddleStep ==
    ASSUME IInv, NEW r \in Requests, Busy(r),
           NEW pc \in {"secret", "install", "drop"}, NEW cfg \in Partial,
           Goto(r, pc, cfg),
           UNCHANGED <<rows, lastId, clients, up, faults, disturbed, premature>>,
           up,
           pc = "drop" <=> req[r].op = "remove",
           pc = "secret" => /\ rows[req[r].id] # None
                            /\ cfg.name = rows[req[r].id].name
                            /\ cfg.addr = rows[req[r].id].addr,
           pc = "install" => cfg \in Config
                            /\ (req[r].solo => cfg = rows[req[r].id])
    PROVE  IInv'
<1> USE DEF IInv
<1>1. /\ req' \in [Requests -> Request]
      /\ req'[r] = [op |-> req[r].op, pc |-> pc, id |-> req[r].id,
                    cfg |-> cfg, solo |-> req[r].solo]
      /\ \A q \in Requests : q # r => req'[q] = req[q]
    BY GotoFrame
<1>2. /\ req[r].id \in Ids /\ req[r] \in Request
      /\ rows[req[r].id] \in Config \cup {None}
    BY DEF Shape, TypeOK
<1>3. /\ req'[r].op = req[r].op /\ req'[r].pc = pc /\ req'[r].id = req[r].id
      /\ req'[r].cfg = cfg /\ req'[r].solo = req[r].solo
    BY <1>1
<1>4. pc # "idle" /\ req[r].op # "none"
    BY <1>2 DEF Shape, Busy
<1>5. TypeOK'
    BY <1>1 DEF TypeOK
<1>6. Shape'
    BY <1>1, <1>2, <1>3, <1>4 DEF Shape, Busy, Config
<1>7. Fresh' /\ Down'
    BY DEF Fresh, Down
<1>8. Adds'
    BY <1>1, <1>3 DEF Adds
<1>9. Removes'
    BY <1>1, <1>3 DEF Removes
<1>10. Solo'
    BY <1>1, <1>3, <1>4 DEF Solo, Busy, Alone
<1>11. SoloReads'
    BY <1>1, <1>3 DEF SoloReads, Busy
<1>12. SoloUpdates'
    BY <1>1, <1>3 DEF SoloUpdates
<1>13. Settled'
    BY <1>1, <1>3, <1>4 DEF Settled, Busy
<1>14. Served'
    BY <1>1, <1>3 DEF Served
<1>. QED
    BY <1>5, <1>6, <1>7, <1>8, <1>9, <1>10, <1>11, <1>12, <1>13, <1>14


(* The first statement of a request.                                       *)

LEMMA BeginStep ==
    ASSUME IInv, NEW r \in Requests, NEW op \in {"add", "update", "remove"},
           NEW pc \in {"select", "has"}, NEW i \in Ids, Begin(r, op, pc, i),
           NEW c \in Config \cup {None}, rows' = [rows EXCEPT ![i] = c],
           UNCHANGED <<clients, up, faults>>,
           lastId' \in 0..MaxId, lastId <= lastId',
           premature \subseteq premature', premature' \subseteq Ids,
           c # None => i <= lastId',
           pc = "has" <=> op = "remove",
           op = "add" => c # None /\ lastId < i,
           op = "update" => (c = None <=> rows[i] = None),
           op = "remove" => c = None /\ (i <= lastId \/ i \in premature')
    PROVE  IInv'
<1> USE DEF IInv
<1>0. /\ up /\ req[r].pc = "idle"
      /\ req' \in [Requests -> Request]
      /\ req'[r].op = op /\ req'[r].pc = pc /\ req'[r].id = i
      /\ req'[r].solo <=> InFlight(i) = {}
      /\ \A q \in Requests : q # r =>
            /\ req'[q].op = req[q].op /\ req'[q].pc = req[q].pc
            /\ req'[q].id = req[q].id /\ req'[q].cfg = req[q].cfg
            /\ q \in InFlight(i) => ~req'[q].solo
            /\ q \notin InFlight(i) => (req'[q].solo <=> req[q].solo)
      /\ disturbed' = IF InFlight(i) = {} THEN disturbed
                                          ELSE disturbed \cup {i}
  <2>1. /\ TypeOK /\ Begin(r, op, pc, i)
        /\ r \in Requests /\ i \in Ids
        /\ op \in {"add", "update", "remove"} /\ pc \in {"select", "has"}
      OBVIOUS
  <2>. QED BY ONLY <2>1, BeginFrame
<1>2. /\ rows' \in [Ids -> Config \cup {None}]
      /\ rows'[i] = c
      /\ \A j \in Ids : j # i => rows'[j] = rows[j]
    BY DEF TypeOK
<1>3. \A q \in Requests : q \in InFlight(i) <=> Busy(q) /\ req[q].id = i
    BY DEF InFlight, Busy
<1>4. InFlight(i) = {} <=> \A q \in Requests : Busy(q) => req[q].id # i
    BY DEF InFlight, Busy
<1>5. TypeOK'
    BY <1>0, <1>2 DEF TypeOK
<1>6. Shape'
    BY <1>0 DEF Shape, Busy
<1>7. Fresh'
    BY <1>2, RegistryAssumption DEF Fresh, TypeOK, Ids
<1>8. Down'
    BY <1>0 DEF Down
<1>9. Adds'
  <2>. /\ lastId \in Nat /\ lastId' \in Nat /\ lastId <= lastId'
       /\ i \in Nat /\ i >= 1 /\ clients' = clients
    BY RegistryAssumption DEF TypeOK, Ids
  <2>1. ASSUME NEW q \in Requests, q # r, req'[q].op = "add"
        PROVE  /\ req[q].op = "add" /\ req'[q].id = req[q].id
               /\ req[q].id \in 1..lastId /\ clients[req[q].id] = None
    BY <1>0, <2>1 DEF Adds
  <2>2. req'[r].op = "add" => /\ lastId < i /\ i <= lastId'
                              /\ clients[i] = None
    BY <1>0 DEF Fresh
  <2>3. ASSUME NEW q \in Requests, req'[q].op = "add"
        PROVE  req'[q].id \in 1..lastId' /\ clients'[req'[q].id] = None
    <3>1. CASE q = r
      BY <1>0, <2>2, <2>3, <3>1
    <3>2. CASE q # r
      BY <2>1, <2>3, <3>2
    <3>. QED BY <3>1, <3>2
  <2>4. ASSUME NEW q \in Requests, req'[q].op = "add", q # r, op = "add"
        PROVE  req'[q].id # i
    BY <1>0, <2>1, <2>2, <2>4
  <2>. QED BY <1>0, <2>1, <2>3, <2>4 DEF Adds
<1>10. Removes'
    <2>1. ASSUME NEW q \in Requests, q # r, req'[q].op = "remove"
          PROVE  \/ rows'[req'[q].id] = None /\ req'[q].id <= lastId'
                 \/ req'[q].id \in premature'
      <3>1. /\ req[q].op = "remove" /\ req'[q].id = req[q].id
            /\ req[q].id \in Ids
        BY <1>0, <2>1 DEF Shape, Busy
      <3>2. CASE req[q].id # i
        BY <3>1, <3>2, <1>2, RegistryAssumption DEF Removes, TypeOK, Ids
      <3>3. CASE req[q].id = i
        BY <3>1, <3>3, <1>2, RegistryAssumption DEF Removes, TypeOK, Ids
      <3>. QED BY <3>2, <3>3
    <2>2. req'[r].op = "remove" =>
            \/ rows'[req'[r].id] = None /\ req'[r].id <= lastId'
            \/ req'[r].id \in premature'
      BY <1>0, <1>2, RegistryAssumption DEF TypeOK, Ids
    <2>. QED BY <2>1, <2>2 DEF Removes
<1>11. Solo'
    BY <1>0, <1>3, <1>4 DEF Solo, Busy, Alone
<1>12. SoloReads'
    BY <1>0, <1>2, <1>3 DEF SoloReads, Busy, Shape
<1>13. SoloUpdates'
    BY <1>0, <1>2, <1>3, <1>4 DEF SoloUpdates, Settled, Busy, Shape
<1>14. Settled'
    BY <1>0, <1>2 DEF Settled, Busy, Shape
<1>15. Served'
    BY <1>0, <1>2, <1>3 DEF Served, Busy, Shape
<1>. QED
    BY <1>5, <1>6, <1>7, <1>8, <1>9, <1>10, <1>11, <1>12, <1>13, <1>14, <1>15

-----------------------------------------------------------------------------
LEMMA StepInv == IInv /\ [Next]_vars => IInv'
<1> SUFFICES ASSUME IInv, [Next]_vars PROVE IInv'
    OBVIOUS
<1> USE RegistryAssumption DEF IInv
<1>a. None \notin Config
    BY DEF Config
<1>b. /\ faults \in 0..MaxFaults /\ lastId \in 0..MaxId
      /\ premature \subseteq Ids
    BY DEF TypeOK
<1>0. ASSUME NEW r \in Requests, Busy(r)
      PROVE  /\ req[r].id \in Ids
             /\ rows[req[r].id] \in Config \cup {None}
             /\ clients[req[r].id] \in Config \cup {None}
             /\ clients = [clients EXCEPT ![req[r].id] = clients[req[r].id]]
    BY <1>0 DEF Shape, TypeOK
<1>1. ASSUME NEW r \in Requests, SelectRow(r) PROVE IInv'
  <2>1. Busy(r) /\ req[r].op # "remove" /\ up
    BY <1>1 DEF SelectRow, Busy, Shape
  <2>2. CASE rows[req[r].id] = None
    <3>1. req[r].id \notin disturbed => clients[req[r].id] = None
      BY <2>1, <2>2 DEF Solo, SoloReads, SoloUpdates, Shape, TypeOK, Request, Busy
    <3>. QED
      BY <1>0, <2>1, <2>2, <3>1, <1>1, EndStep, <1>a, <1>b DEF SelectRow
  <2>3. CASE rows[req[r].id] # None
    <3>. DEFINE cfg == [name |-> rows[req[r].id].name,
                        addr |-> rows[req[r].id].addr, pw |-> None]
    <3>1. cfg \in Partial
      BY <1>0, <2>1, <2>3 DEF Config, Partial
    <3>2. Goto(r, "secret", cfg)
      BY <1>1, <2>3 DEF SelectRow
    <3>. QED
      BY <2>1, <2>3, <3>1, <3>2, <1>1, MiddleStep DEF SelectRow
  <2>. QED BY <2>2, <2>3
<1>2. ASSUME NEW r \in Requests, SelectSecret(r) PROVE IInv'
  <2>1. Busy(r) /\ req[r].op # "remove" /\ up /\ req[r].pc = "secret"
    BY <1>2 DEF SelectSecret, Busy, Shape
  <2>2. CASE rows[req[r].id] = None
    <3>1. req[r].id \notin disturbed => clients[req[r].id] = None
      BY <2>1, <2>2 DEF Solo, SoloReads, SoloUpdates, Shape, TypeOK, Request, Busy
    <3>. QED
      BY <1>0, <2>1, <2>2, <3>1, <1>2, EndStep, <1>a, <1>b DEF SelectSecret
  <2>3. CASE rows[req[r].id] # None
    <3>. DEFINE cfg == WithSecret(req[r].cfg, rows[req[r].id])
    <3>1. /\ req[r].cfg \in Partial
          /\ req[r].cfg.name \in Names /\ req[r].cfg.addr \in Addrs
      BY <2>1 DEF TypeOK, Request, Shape
    <3>2. rows[req[r].id] \in Config
      BY <1>0, <2>1, <2>3
    <3>3. cfg = [name |-> req[r].cfg.name, addr |-> req[r].cfg.addr,
                 pw |-> rows[req[r].id].pw]
      BY <3>1 DEF WithSecret, Partial
    <3>4. cfg \in Config /\ cfg \in Partial
      BY <3>1, <3>2, <3>3 DEF Config, Partial
    <3>5. req[r].solo => cfg = rows[req[r].id]
      BY <2>1, <3>2, <3>3 DEF SoloReads, Config
    <3>6. Goto(r, "install", cfg)
      BY <1>2, <2>3 DEF SelectSecret
    <3>. HIDE DEF cfg
    <3>. QED
      BY <2>1, <3>4, <3>5, <3>6, <1>2, MiddleStep DEF SelectSecret
  <2>. QED BY <2>2, <2>3
<1>3. ASSUME NEW r \in Requests, ReadFails(r) PROVE IInv'
  <2>1. Busy(r) /\ up
    BY <1>3 DEF ReadFails, Busy
  <2>2. faults' \in 0..MaxFaults /\ faults' # 0
    BY <1>3 DEF ReadFails, TypeOK
  <2>. QED
    BY <1>0, <2>1, <2>2, <1>3, EndStep DEF ReadFails
<1>4. ASSUME NEW r \in Requests, AddClient(r) PROVE IInv'
  <2>1. /\ Busy(r) /\ req[r].op = "add" /\ req[r].pc = "install" /\ up
        /\ req[r].cfg \in Config /\ clients[req[r].id] = None
    BY <1>4 DEF AddClient, At, Busy, Shape, Adds
  <2>2. /\ Finish(r) /\ clients' = [clients EXCEPT ![req[r].id] = req[r].cfg]
        /\ disturbed' = IF req[r].solo THEN disturbed \ {req[r].id} ELSE disturbed
    BY <1>4, <2>1 DEF AddClient, Settle
  <2>3. req[r].id \notin disturbed' => req[r].cfg = rows[req[r].id]
    BY <2>1, <2>2 DEF Solo, SoloReads
  <2>. QED
    BY <2>1, <2>2, <2>3, <1>4, EndStep, <1>a, <1>b DEF AddClient
<1>5. ASSUME NEW r \in Requests, UpdateClient(r) PROVE IInv'
  <2>1. /\ Busy(r) /\ req[r].op = "update" /\ req[r].pc = "install" /\ up
        /\ req[r].cfg \in Config
    BY <1>5 DEF UpdateClient, At, Busy, Shape
  <2>2. CASE clients[req[r].id] # None
    <3>1. /\ Finish(r) /\ clients' = [clients EXCEPT ![req[r].id] = req[r].cfg]
          /\ disturbed' = IF req[r].solo THEN disturbed \ {req[r].id} ELSE disturbed
      BY <1>5, <2>2 DEF UpdateClient, Settle
    <3>2. req[r].id \notin disturbed' => req[r].cfg = rows[req[r].id]
      BY <2>1, <3>1 DEF Solo, SoloReads
    <3>. QED
      BY <2>1, <2>2, <3>1, <3>2, <1>5, EndStep, <1>a, <1>b DEF UpdateClient
  <2>3. CASE clients[req[r].id] = None
    <3>1. /\ Finish(r) /\ UNCHANGED <<clients, disturbed>>
      BY <1>5, <2>3 DEF UpdateClient
    <3>2. req[r].id \notin disturbed => rows[req[r].id] = None
      BY <2>1, <2>3 DEF SoloUpdates
    <3>3. \/ rows[req[r].id] = None \/ faults # 0
          \/ req[r].id \in premature
          \/ \E q \in Requests : q # r /\ req[q].op = "add" /\ req[q].id = req[r].id
      BY <1>0, <2>1, <2>3 DEF Served
    <3>. QED
      BY <1>0, <2>1, <2>3, <3>1, <3>2, <3>3, <1>5, EndStep, <1>a, <1>b DEF UpdateClient
  <2>. QED BY <2>2, <2>3
<1>6. ASSUME NEW r \in Requests, HasClient(r) PROVE IInv'
  <2>1. Busy(r) /\ req[r].op = "remove" /\ up
    BY <1>6 DEF HasClient, At, Busy
  <2>2. CASE clients[req[r].id] = None
    <3>1. /\ Finish(r) /\ UNCHANGED clients
          /\ disturbed' = IF req[r].solo THEN disturbed \ {req[r].id} ELSE disturbed
      BY <1>6, <2>2 DEF HasClient, Settle
    <3>2. req[r].id \notin disturbed' => rows[req[r].id] = None
      BY <2>1, <3>1 DEF Solo, SoloReads
    <3>3. rows[req[r].id] = None \/ req[r].id \in premature
      BY <2>1 DEF Removes
    <3>. QED
      BY <1>0, <2>1, <2>2, <3>1, <3>2, <3>3, <1>6, EndStep, <1>a, <1>b DEF HasClient
  <2>3. CASE clients[req[r].id] # None
    <3>1. Goto(r, "drop", Blank) /\ UNCHANGED disturbed /\ Blank \in Partial
      BY <1>6, <2>3 DEF HasClient, Blank, Partial
    <3>. QED
      BY <2>1, <3>1, <1>6, MiddleStep DEF HasClient
  <2>. QED BY <2>2, <2>3
<1>7. ASSUME NEW r \in Requests, RemoveClient(r) PROVE IInv'
  <2>1. Busy(r) /\ req[r].op = "remove" /\ up
    BY <1>7 DEF RemoveClient, At, Busy
  <2>2. /\ Finish(r) /\ clients' = [clients EXCEPT ![req[r].id] = None]
        /\ disturbed' = IF req[r].solo THEN disturbed \ {req[r].id} ELSE disturbed
    BY <1>7 DEF RemoveClient, Settle
  <2>3. req[r].id \notin disturbed' => rows[req[r].id] = None
    BY <2>1, <2>2 DEF Solo, SoloReads
  <2>4. rows[req[r].id] = None \/ req[r].id \in premature
    BY <2>1 DEF Removes
  <2>. QED
    BY <2>1, <2>2, <2>3, <2>4, <1>7, EndStep, <1>a, <1>b DEF RemoveClient
<1>8. ASSUME NEW r \in Requests, AddInsert(r) PROVE IInv'
  <2>1. PICK cfg \in Config :
            /\ lastId + 1 \in Ids
            /\ rows' = [rows EXCEPT ![lastId + 1] = cfg]
            /\ lastId' = lastId + 1
            /\ Begin(r, "add", "select", lastId + 1)
            /\ UNCHANGED <<clients, up, faults, premature>>
    BY <1>8 DEF AddInsert, NextId
  <2>2. /\ UNCHANGED <<clients, up, faults>>
        /\ lastId' \in 0..MaxId /\ lastId <= lastId' /\ lastId + 1 <= lastId'
        /\ lastId < lastId + 1
        /\ premature \subseteq premature' /\ premature' \subseteq Ids
        /\ cfg # None /\ cfg \in Config \cup {None}
    BY <2>1, <1>a, <1>b DEF Ids
  <2>. HIDE DEF IInv
  <2>. QED
    BY <2>1, <2>2, BeginStep
<1>9. ASSUME NEW r \in Requests, UpdateRow(r) PROVE IInv'
  <2>1. PICK i \in Ids, params \in Partial :
            /\ rows' = IF rows[i] = None THEN rows
                       ELSE [rows EXCEPT ![i] = Patched(rows[i], params)]
            /\ Begin(r, "update", "select", i)
            /\ UNCHANGED <<lastId, clients, up, faults, premature>>
    BY <1>9 DEF UpdateRow
  <2>. DEFINE c == IF rows[i] = None THEN None ELSE Patched(rows[i], params)
  <2>2. rows[i] \in Config \cup {None} /\ (rows[i] # None => i <= lastId)
    BY DEF TypeOK, Fresh, Ids
  <2>3. c \in Config \cup {None} /\ (c = None <=> rows[i] = None)
    BY <2>2, PatchedType DEF Config
  <2>4. rows' = [rows EXCEPT ![i] = c]
    BY <2>1 DEF TypeOK
  <2>5. /\ Begin(r, "update", "select", i)
        /\ UNCHANGED <<clients, up, faults>>
        /\ lastId' \in 0..MaxId /\ lastId <= lastId'
        /\ premature \subseteq premature' /\ premature' \subseteq Ids
        /\ c # None => i <= lastId'
    BY <2>1, <2>2, <2>3, <1>b
  <2>. HIDE DEF c, IInv
  <2>. QED
    BY <2>3, <2>4, <2>5, BeginStep
<1>10. ASSUME NEW r \in Requests, RemoveRow(r) PROVE IInv'
  <2>1. PICK i \in Ids :
            /\ rows' = [rows EXCEPT ![i] = None]
            /\ Begin(r, "remove", "has", i)
            /\ premature' = premature \cup ({i} \ 1..lastId)
            /\ UNCHANGED <<lastId, clients, up, faults>>
    BY <1>10 DEF RemoveRow
  <2>2. /\ premature \subseteq premature' /\ premature' \subseteq Ids
        /\ i <= lastId \/ i \in premature'
    BY <2>1 DEF TypeOK, Ids
  <2>3. /\ rows' = [rows EXCEPT ![i] = None]
        /\ Begin(r, "remove", "has", i)
        /\ UNCHANGED <<clients, up, faults>>
        /\ lastId' \in 0..MaxId /\ lastId <= lastId'
    BY <2>1, <1>b
  <2>. HIDE DEF IInv
  <2>. QED
    BY <2>2, <2>3, BeginStep
<1>11. ASSUME Crash PROVE IInv'
  <2>1. /\ \A r \in Requests : req'[r].op = "none" /\ req'[r].pc = "idle"
        /\ req' \in [Requests -> Request]
    BY <1>11 DEF Crash, Idle, Request, Partial, Blank
  <2>2. \A i \in Ids : clients'[i] = None
    BY <1>11 DEF Crash, NoNodes
  <2>3. (TypeOK /\ Fresh /\ Down)'
    BY <1>11, <2>1, <2>2 DEF Crash, TypeOK, NoNodes, Fresh, Down
  <2>4. (Shape /\ Adds /\ Removes /\ Solo /\ SoloReads /\ SoloUpdates)'
    BY <2>1 DEF Shape, Adds, Removes, Solo, SoloReads, SoloUpdates, Busy
  <2>5. Settled' /\ Served'
    BY <1>11 DEF Crash, Settled, Served
  <2>. QED BY <2>3, <2>4, <2>5
<1>12. ASSUME Restart \/ RestartEmpty PROVE IInv'
  <2>1. /\ ~up /\ clients = NoNodes
        /\ \A r \in Requests : req[r].op = "none" /\ req[r].pc = "idle"
        /\ UNCHANGED <<rows, lastId, req>>
    BY <1>12 DEF Restart, RestartEmpty, Down, Idle
  <2>2. (Shape /\ Adds /\ Removes /\ Solo /\ SoloReads /\ SoloUpdates)'
    BY <2>1 DEF Shape, Adds, Removes, Solo, SoloReads, SoloUpdates, Busy
  <2>3. TypeOK'
    <3>1. faults' \in 0..MaxFaults
      BY <1>12, <1>b DEF Restart, RestartEmpty
    <3>2. clients' \in [Ids -> Config \cup {None}] /\ up' \in BOOLEAN
      BY <1>12 DEF Restart, RestartEmpty, TypeOK
    <3>3. disturbed' \in SUBSET Ids /\ premature' \in SUBSET Ids
      BY <1>12 DEF Restart, RestartEmpty, TypeOK
    <3>. QED BY <2>1, <3>1, <3>2, <3>3 DEF TypeOK
  <2>5. Fresh' /\ Down'
    BY <1>12, <2>1 DEF Restart, RestartEmpty, Fresh, Down
  <2>4. Settled' /\ Served'
    BY <1>12, <2>1 DEF Restart, RestartEmpty, Settled, Served, TypeOK
  <2>. QED BY <2>2, <2>3, <2>4, <2>5
<1>13. CASE UNCHANGED vars
  BY <1>13 DEF vars, TypeOK, Shape, Busy, Fresh, Down, Adds, Removes, Solo,
               Alone, SoloReads, SoloUpdates, Settled, Served
<1>. QED
  BY <1>1, <1>2, <1>3, <1>4, <1>5, <1>6, <1>7, <1>8, <1>9, <1>10, <1>11,
     <1>12, <1>13 DEF Next

LEMMA Invariance == Spec => []IInv
BY InitInv, StepInv, PTL DEF Spec

-----------------------------------------------------------------------------
\* Every row and every client is complete: no client is ever given a
\* configuration with a field missing.
THEOREM TypeCorrect == Spec => []TypeOK
<1>1. IInv => TypeOK
    BY DEF IInv
<1>. QED BY <1>1, Invariance, PTL

\* Cluster.AddClient never finds the id of a new node taken.
THEOREM NoConflict == Spec => []AddNeverConflicts
<1>1. IInv => AddNeverConflicts
    BY DEF IInv, Adds, AddNeverConflicts, At
<1>. QED BY <1>1, Invariance, PTL

\* No interleaving and no crash makes the cluster lose a configured node,
\* unless a read failed or a DELETE named an id not yet handed out.
THEOREM NoNodeLost == Spec => []RowHasClient
<1>1. IInv => RowHasClient
    BY DEF IInv, Served, RowHasClient
<1>. QED BY <1>1, Invariance, PTL

\* A quiet node is served exactly as it is stored, unless requests on that
\* node overlapped or one was cut short and nothing has healed it since.
THEOREM ClusterAgrees == Spec => []Agreement
<1>1. IInv => Agreement
    BY DEF IInv, Settled, Agreement, InFlight, Busy
<1>. QED BY <1>1, Invariance, PTL
=============================================================================
