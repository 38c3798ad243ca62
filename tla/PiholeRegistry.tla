--------------------------- MODULE PiholeRegistry ---------------------------
(***************************************************************************)
(* The registry of Pi-hole nodes: the table "piholes" of the SQLite store  *)
(* and the map of live clients of the cluster, which piholeservice keeps   *)
(* in step without a transaction or a lock spanning both.  Every HTTP      *)
(* request runs its statements and its cluster calls one by one, so the    *)
(* steps of two requests interleave freely.  The server may crash between  *)
(* any two steps; on restart the cluster is rebuilt from the store.        *)
(*                                                                         *)
(* A row and a client carry the fields the service copies from one to the  *)
(* other: "addr" stands for scheme, host and port.  Field values are the   *)
(* stored ones, after the trimming the handlers and the store apply.       *)
(***************************************************************************)
EXTENDS Integers

CONSTANTS
    Requests,   \* slots for concurrent requests; a finished slot is reused
    Names, Addrs, Passwords,
    None,       \* an absent row, client or field
    MaxId,      \* bound on the row ids the store hands out
    MaxFaults   \* bound on failing store reads between two clean restarts

ASSUME RegistryAssumption ==
    /\ MaxId \in Nat
    /\ MaxFaults \in Nat
    /\ None \notin Names \cup Addrs \cup Passwords
    /\ None \notin [name : Names, addr : Addrs, pw : Passwords]

VARIABLES
    rows,       \* table piholes: id -> configuration, or None
    lastId,     \* sqlite_sequence: the highest id ever handed out
    clients,    \* Cluster.clients: id -> configuration of the client, or None
    up,         \* the process is running
    req,        \* the request in each slot
    faults,     \* failed reads since the cluster was last loaded in full
    disturbed,  \* history: ids on which requests overlapped or one failed
                \* half-way, and no request that ran alone has finished since
    premature   \* history: ids a DELETE named before they were handed out

vars == <<rows, lastId, clients, up, req, faults, disturbed, premature>>

-----------------------------------------------------------------------------
Ids == 1..MaxId
Config == [name : Names, addr : Addrs, pw : Passwords]
Partial == [name : Names \cup {None}, addr : Addrs \cup {None},
            pw : Passwords \cup {None}]
Blank == [name |-> None, addr |-> None, pw |-> None]
NoNodes == [i \in Ids |-> None]

Idle == [op |-> "none", pc |-> "idle", id |-> 0, cfg |-> Blank, solo |-> TRUE]

\* The requests in flight on node i.
InFlight(i) == {r \in Requests : req[r].pc # "idle" /\ req[r].id = i}

\* UNIQUE (name) and UNIQUE (host, port).
Unique(table) ==
    \A i, j \in Ids :
        i # j /\ table[i] # None /\ table[j] # None
            => table[i].name # table[j].name /\ table[i].addr # table[j].addr

\* UPDATE piholes SET: the fields the request gives, the others as they were.
Patched(row, params) ==
    [f \in {"name", "addr", "pw"} |->
        IF params[f] = None THEN row[f] ELSE params[f]]

NextIdReused == IF \E i \in Ids : rows[i] = None
                THEN CHOOSE i \in Ids : rows[i] = None
                ELSE MaxId + 1

\* INTEGER PRIMARY KEY AUTOINCREMENT: an id is never handed out again.
NextId == lastId + 1

Init ==
    /\ rows = NoNodes
    /\ lastId = 0
    /\ clients = NoNodes
    /\ up = TRUE
    /\ req = [r \in Requests |-> Idle]
    /\ faults = 0
    /\ disturbed = {}
    /\ premature = {}

-----------------------------------------------------------------------------
(* Bookkeeping shared by the steps of a request.                           *)

Begin(r, op, pc, i) ==
    /\ up
    /\ req[r].pc = "idle"
    /\ req' = [q \in Requests |->
                IF q = r
                THEN [op |-> op, pc |-> pc, id |-> i, cfg |-> Blank,
                      solo |-> InFlight(i) = {}]
                ELSE IF q \in InFlight(i)
                THEN [req[q] EXCEPT !.solo = FALSE]
                ELSE req[q]]
    /\ disturbed' = IF InFlight(i) = {} THEN disturbed
                                        ELSE disturbed \cup {i}

At(r, op, pc) == up /\ req[r].op = op /\ req[r].pc = pc

Goto(r, pc, cfg) == req' = [req EXCEPT ![r].pc = pc, ![r].cfg = cfg]

Finish(r) == req' = [req EXCEPT ![r] = Idle]

\* A request that ran alone to its end leaves its node settled.
Settle(r) ==
    /\ Finish(r)
    /\ disturbed' = IF req[r].solo THEN disturbed \ {req[r].id} ELSE disturbed

-----------------------------------------------------------------------------
(* Service.Add and Service.Update.  A statement that violates a UNIQUE     *)
(* constraint ends the request and changes nothing, as does any failure of *)
(* the first statement.                                                    *)

\* AddPiholeNode: the INSERT.
AddInsert(r) ==
    \E cfg \in Config :
        /\ NextId \in Ids
        /\ rows' = [rows EXCEPT ![NextId] = cfg]
        /\ Unique(rows')
        /\ lastId' = NextId
        /\ Begin(r, "add", "select", NextId)
        /\ UNCHANGED <<clients, up, faults, premature>>

\* UpdatePiholeNode: the UPDATE.  It is not an error that no row has this id.
UpdateRow(r) ==
    \E i \in Ids, params \in Partial \ {Blank} :
        /\ rows' = IF rows[i] = None THEN rows
                   ELSE [rows EXCEPT ![i] = Patched(@, params)]
        /\ Unique(rows')
        /\ Begin(r, "update", "select", i)
        /\ UNCHANGED <<lastId, clients, up, faults, premature>>

\* getPiholeRow at the end of AddPiholeNode and UpdatePiholeNode: a SELECT of
\* its own; a row that is gone is sql.ErrNoRows and ends the request.
SelectRow(r) ==
    /\ up
    /\ req[r].pc = "select"
    /\ LET row == rows[req[r].id] IN
        IF row = None THEN Finish(r)
        ELSE Goto(r, "secret", [name |-> row.name, addr |-> row.addr, pw |-> None])
    /\ UNCHANGED <<rows, lastId, clients, up, faults, disturbed, premature>>

WithoutSecret(cfg, row) == cfg

\* The ClientConfig is completed with the password of the row just read.
WithSecret(cfg, row) == [cfg EXCEPT !.pw = row.pw]

\* GetPiholeNodeSecret: a second SELECT of the same row.
SelectSecret(r) ==
    /\ up
    /\ req[r].pc = "secret"
    /\ LET row == rows[req[r].id] IN
        IF row = None THEN Finish(r)
        ELSE Goto(r, "install", WithSecret(req[r].cfg, row))
    /\ UNCHANGED <<rows, lastId, clients, up, faults, disturbed, premature>>

\* One of the two reads fails (I/O, decryption): the request ends although
\* its first statement is committed.
ReadFails(r) ==
    /\ up
    /\ req[r].pc \in {"select", "secret"}
    /\ faults < MaxFaults
    /\ faults' = faults + 1
    /\ disturbed' = disturbed \cup {req[r].id}
    /\ Finish(r)
    /\ UNCHANGED <<rows, lastId, clients, up, premature>>

\* Cluster.AddClient: "client id already exists" ends the request.
AddClient(r) ==
    /\ At(r, "add", "install")
    /\ IF clients[req[r].id] = None
       THEN /\ clients' = [clients EXCEPT ![req[r].id] = req[r].cfg]
            /\ Settle(r)
       ELSE /\ Finish(r)
            /\ UNCHANGED <<clients, disturbed, premature>>
    /\ UNCHANGED <<rows, lastId, up, faults, premature>>

UpdateClientKeepsPassword(r) ==
    /\ At(r, "update", "install")
    /\ IF clients[req[r].id] # None
       THEN /\ clients' = [clients EXCEPT ![req[r].id] =
                            [req[r].cfg EXCEPT !.pw = clients[req[r].id].pw]]
            /\ Settle(r)
       ELSE /\ Finish(r)
            /\ UNCHANGED <<clients, disturbed, premature>>
    /\ UNCHANGED <<rows, lastId, up, faults, premature>>

\* Cluster.UpdateClient: "client id not found" ends the request.
UpdateClient(r) ==
    /\ At(r, "update", "install")
    /\ IF clients[req[r].id] # None
       THEN /\ clients' = [clients EXCEPT ![req[r].id] = req[r].cfg]
            /\ Settle(r)
       ELSE /\ Finish(r)
            /\ UNCHANGED <<clients, disturbed, premature>>
    /\ UNCHANGED <<rows, lastId, up, faults, premature>>

-----------------------------------------------------------------------------
(* Service.Remove.                                                         *)

RemoveRowLater(r) ==
    \E i \in Ids :
        /\ Begin(r, "remove", "has", i)
        /\ premature' = premature \cup ({i} \ 1..lastId)
        /\ UNCHANGED <<rows, lastId, clients, up, faults>>

\* RemovePiholeNode: the DELETE.  The cluster is visited whether or not a
\* row was found.
RemoveRow(r) ==
    \E i \in Ids :
        /\ rows' = [rows EXCEPT ![i] = None]
        /\ Begin(r, "remove", "has", i)
        /\ premature' = premature \cup ({i} \ 1..lastId)
        /\ UNCHANGED <<lastId, clients, up, faults>>

\* Cluster.HasClient, under a read lock of its own.
HasClient(r) ==
    /\ At(r, "remove", "has")
    /\ IF clients[req[r].id] = None
       THEN Settle(r)
       ELSE /\ Goto(r, "drop", Blank)
            /\ UNCHANGED disturbed
    /\ UNCHANGED <<rows, lastId, clients, up, faults, premature>>

\* Cluster.RemoveClient.  Its only error, "client id not found", is swallowed.
RemoveClient(r) ==
    /\ At(r, "remove", "drop")
    /\ clients' = [clients EXCEPT ![req[r].id] = None]
    /\ Settle(r)
    /\ UNCHANGED <<rows, lastId, up, faults, premature>>

-----------------------------------------------------------------------------
(* Crash and restart.                                                      *)

Crash ==
    /\ up
    /\ up' = FALSE
    /\ clients' = NoNodes
    /\ req' = [r \in Requests |-> Idle]
    /\ UNCHANGED <<rows, lastId, faults, disturbed, premature>>

\* GetClients and NewCluster: one client per row.
Restart ==
    /\ ~up
    /\ up' = TRUE
    /\ clients' = rows
    /\ faults' = 0
    /\ disturbed' = {}
    /\ premature' = {}
    /\ UNCHANGED <<rows, lastId, req>>

\* GetClients fails on the secret of some node: app.New logs the error and
\* goes on with a nil map, that is with an empty cluster.
RestartEmpty ==
    /\ ~up
    /\ faults < MaxFaults
    /\ \E i \in Ids : rows[i] # None
    /\ up' = TRUE
    /\ faults' = faults + 1
    /\ disturbed' = Ids
    /\ UNCHANGED <<rows, lastId, clients, req, premature>>

Next ==
    \/ \E r \in Requests :
        \/ AddInsert(r) \/ UpdateRow(r) \/ RemoveRow(r)
        \/ SelectRow(r) \/ SelectSecret(r) \/ ReadFails(r)
        \/ AddClient(r) \/ UpdateClient(r)
        \/ HasClient(r) \/ RemoveClient(r)
    \/ Crash \/ Restart \/ RestartEmpty

Spec == Init /\ [][Next]_vars

-----------------------------------------------------------------------------
(* Properties.                                                             *)

Request ==
    [op : {"none", "add", "update", "remove"},
     pc : {"idle", "select", "secret", "install", "has", "drop"},
     id : 0..MaxId, cfg : Partial, solo : BOOLEAN]

\* Every row is complete and so is every client's configuration: no client is
\* ever created or updated with a field missing.
TypeOK ==
    /\ rows \in [Ids -> Config \cup {None}]
    /\ lastId \in 0..MaxId
    /\ clients \in [Ids -> Config \cup {None}]
    /\ up \in BOOLEAN
    /\ req \in [Requests -> Request]
    /\ faults \in 0..MaxFaults
    /\ disturbed \in SUBSET Ids
    /\ premature \in SUBSET Ids

\* Cluster.AddClient never reports "client id already exists" to a request
\* that adds a node, however many orphaned clients earlier races left behind.
AddNeverConflicts ==
    \A r \in Requests : At(r, "add", "install") => clients[req[r].id] = None

\* As long as no store read failed, a row always has a client, or the request
\* that inserted it is still on its way to install one: no interleaving of
\* adds, updates, removes and crashes makes the cluster lose a configured node.
\* The one way to lose it is a DELETE that named the id before it was handed
\* out and reached the cluster after the client was added.
RowHasClient ==
    up /\ faults = 0 =>
        \A i \in Ids \ premature : rows[i] # None =>
            \/ clients[i] # None
            \/ \E r \in Requests : req[r].op = "add" /\ req[r].id = i

\* A node with no request in flight is served with exactly the configuration
\* that is stored, or is in neither place, unless requests on that same node
\* overlapped or one was cut short: requests on other nodes never disturb it,
\* a restart heals everything and one later request that runs alone heals the
\* node it names (a second DELETE removes an orphaned client, for example).
Agreement ==
    up => \A i \in Ids \ disturbed : InFlight(i) = {} => clients[i] = rows[i]
=============================================================================
