------------------------------ MODULE Accounts ------------------------------
(***************************************************************************)
(* Accounts and first-run setup: the tables "users" and                    *)
(* "initialization_status", and the handlers that create the first user,   *)
(* log in and out, rename a user, change a password and record how far the *)
(* setup has come, over the login sessions of module Sessions.             *)
(*                                                                         *)
(* No transaction spans two statements, so the statements of concurrent    *)
(* requests interleave.  A request's input is chosen at the step that      *)
(* first looks at it.  A request that is refused (a bad body, a wrong      *)
(* password, an unknown or expired cookie, a validation error, a UNIQUE    *)
(* violation) or whose failing statement changed nothing leaves no trace   *)
(* but its free slot.                                                      *)
(***************************************************************************)
EXTENDS Sessions, FiniteSets

CONSTANTS
    Requests,           \* slots for concurrent requests; a slot is reused
    Texts,              \* character strings
    Names, Passwords,   \* the texts clients type
    FirstPasswords,     \* the passwords they type in the setup form
    Trim, Lower,        \* strings.TrimSpace and strings.ToLower
    None,
    MaxUpdates,         \* bound on renames, password and status changes
    MaxFaults           \* bound on failed statements and crashes

Statuses == {"UNINITIALIZED", "ADDED", "SKIPPED"}

\* Stored forms: what setup stores of a name, what an update stores of it,
\* and what is hashed of a password.
StoredNames == Names \cup {Lower[Trim[n]] : n \in Names}
Hashes == {Trim[p] : p \in Passwords \cup FirstPasswords}

ASSUME AccountsAssumption ==
    /\ IsFiniteSet(Requests)
    /\ MaxUpdates \in Nat
    /\ MaxFaults \in Nat
    /\ Names \subseteq Texts
    /\ Passwords \cup FirstPasswords \subseteq Texts
    /\ Trim \in [Texts -> Texts]
    /\ Lower \in [Texts -> Texts]

VARIABLES
    users,          \* table users, in order of id: [name, hash]
    typed,          \* history: the name and the password each user was last given,
                    \* as they were typed, and whether the name is from a rename
    userCreated,    \* initialization_status.user_created
    piholeStatus,   \* initialization_status.pihole_status
    req,            \* the request in each slot
    updates,        \* renames, password and status changes so far
    faults          \* failed statements and crashes so far

vars == <<backend, owner, stored, lapsed, doomed,
          users, typed, userCreated, piholeStatus, req, updates, faults>>
tableVars == <<users, typed, userCreated, piholeStatus>>

-----------------------------------------------------------------------------
(* A request is "at" the statement it runs next.  "user" is its user once  *)
(* known, "given" the input it still needs, "proof" the current password   *)
(* it gave, and "stale" (history) that what it read has since been written *)
(* by another request.                                                     *)

Idle == [at |-> "idle", user |-> 0, given |-> None, proof |-> None,
         stale |-> FALSE]
Doing(at, u) == [Idle EXCEPT !.at = at, !.user = u]

Given == Names \cup Passwords \cup Statuses \cup {None}

TypeOK ==
    /\ SessionsTypeOK
    /\ users \in Seq([name : StoredNames, hash : Hashes])
    /\ typed \in Seq([name : Names, renamed : BOOLEAN,
                     password : Passwords \cup FirstPasswords])
    /\ Len(typed) = Len(users)
    \* only setup requests that overlapped add rows, one each
    /\ Len(users) <= Cardinality(Requests)
    /\ userCreated \in BOOLEAN
    /\ piholeStatus \in Statuses
    /\ updates \in 0..MaxUpdates
    /\ faults \in 0..MaxFaults
    /\ \A r \in Requests :
        /\ req[r].at \in {"idle", "insert", "flag", "session",
                          "authorized", "name", "password", "status"}
        /\ req[r].user \in 0..Len(users)
        /\ req[r].given \in Given
        /\ req[r].proof \in Passwords \cup {None}
        /\ req[r].stale \in BOOLEAN
        \* only a request that reads before it writes can hold a stale read
        /\ req[r].stale => req[r].at \in {"insert", "password", "status"}
        \* a request past the lookup of its user has one
        /\ req[r].at \in {"flag", "session", "authorized", "name", "password"}
            => req[r].user \in DOMAIN users

Init ==
    /\ SessionsInit
    /\ users = <<>>
    /\ typed = <<>>
    /\ userCreated = FALSE
    /\ piholeStatus = "UNINITIALIZED"
    /\ req = [r \in Requests |-> Idle]
    /\ updates = 0
    /\ faults = 0

At(r, at) == req[r].at = at

Goto(r, next) == req' = [req EXCEPT ![r] = next]

\* r moves on and every request that has read what r writes turns stale: the
\* others at the same statement, about the same user if it is about a user.
GotoWriting(r, next) ==
    req' = [q \in Requests |->
                IF q = r THEN next
                ELSE IF req[q].at = req[r].at /\ req[q].user = req[r].user
                THEN [req[q] EXCEPT !.stale = TRUE]
                ELSE req[q]]

\* The bound on sessions counts those of the requests under way.
RoomForSession ==
    Cardinality({r \in Requests : req[r].at \in {"insert", "flag", "session"}})
        + Len(owner) < MaxSessions

-----------------------------------------------------------------------------
(* POST /setup/user: setupservice.CreateUser.                              *)

\* IsInitialized: go on only while the table is empty.
CheckInitialized(r) ==
    /\ At(r, "idle")
    /\ RoomForSession
    /\ users = <<>>
    /\ Goto(r, Doing("insert", 0))
    /\ UNCHANGED <<sessionVars, tableVars, updates, faults>>

SetupNameAsTyped(n) == n

\* What setup stores of the name typed.
SetupName(n) == Lower[Trim[n]]

AddUser(n, p) ==
    /\ users' = Append(users, [name |-> SetupName(n), hash |-> Trim[p]])
    /\ typed' = Append(typed, [name |-> n, renamed |-> FALSE, password |-> p])

\* The error of the INSERT taken for success.
InsertUserUnchecked(r) ==
    /\ At(r, "insert")
    /\ UNCHANGED <<sessionVars, userCreated, piholeStatus, updates, faults>>
    /\ \E n \in Names, p \in FirstPasswords :
        /\ IF \E u \in DOMAIN users : users[u].name = SetupName(n)
           THEN UNCHANGED <<users, typed>>
           ELSE AddUser(n, p)
        /\ GotoWriting(r, Doing("session", Len(users) + 1))

\* The INSERT; UNIQUE (username) may refuse it.
InsertUser(r) ==
    /\ At(r, "insert")
    /\ UNCHANGED <<sessionVars, userCreated, piholeStatus, updates, faults>>
    /\ \E n \in Names, p \in FirstPasswords :
        IF \E u \in DOMAIN users : users[u].name = SetupName(n)
        THEN Goto(r, Idle) /\ UNCHANGED <<users, typed>>
        ELSE /\ AddUser(n, p)
             /\ GotoWriting(r, Doing("flag", Len(users) + 1))

SetUserCreatedForgotten(r) ==
    /\ At(r, "flag")
    /\ Goto(r, Doing("session", req[r].user))
    /\ UNCHANGED <<sessionVars, tableVars, updates, faults>>

\* SetUserCreated(true).
SetUserCreated(r) ==
    /\ At(r, "flag")
    /\ userCreated' = TRUE
    /\ Goto(r, Doing("session", req[r].user))
    /\ UNCHANGED <<sessionVars, users, typed, piholeStatus, updates, faults>>

\* The last statement of CreateUser and of Login: the answer sets the cookie.
IssueSession(r) ==
    /\ At(r, "session")
    /\ CreateSession(req[r].user)
    /\ Goto(r, Idle)
    /\ UNCHANGED <<tableVars, updates, faults>>

-----------------------------------------------------------------------------
(* POST /login and POST /logout.                                           *)

\* ValidateUser: the name typed is put in lower case but not trimmed, the
\* password is compared with the hash as it was typed.
Matches(u, n, p) == users[u].name = Lower[n] /\ users[u].hash = p

ValidateUser(r) ==
    /\ At(r, "idle")
    /\ RoomForSession
    /\ \E n \in Names, p \in Passwords, u \in DOMAIN users :
        Matches(u, n, p) /\ Goto(r, Doing("session", u))
    /\ UNCHANGED <<sessionVars, tableVars, updates, faults>>

\* Logout reads the session only to log whose it is; a browser may hold any
\* cookie it was ever given.
Logout(r, s) ==
    /\ At(r, "idle")
    /\ s \in Issued
    /\ DestroySession(s)
    /\ UNCHANGED <<tableVars, req, updates, faults>>

-----------------------------------------------------------------------------
(* The private routes.                                                     *)

\* AuthMiddleware hands the request the owner of its session.
Authenticate(r, s) ==
    /\ At(r, "idle")
    /\ s \in Issued
    /\ Valid(s)
    /\ Goto(r, Doing("authorized", owner[s]))
    /\ UNCHANGED <<sessionVars, tableVars, updates, faults>>

\* A handler that writes none of these tables answers.
Answer(r) ==
    /\ At(r, "authorized")
    /\ Goto(r, Idle)
    /\ UNCHANGED <<sessionVars, tableVars, updates, faults>>

Update == updates < MaxUpdates /\ updates' = updates + 1

\* PATCH /user/{id}, of the request's own user: Patch reads the user and
\* refuses a name that is the current one.
ReadName(r) ==
    /\ At(r, "authorized")
    /\ Update
    /\ \E n \in Names :
        /\ Trim[n] # Trim[users[req[r].user].name]
        /\ Goto(r, [Doing("name", req[r].user) EXCEPT !.given = n])
    /\ UNCHANGED <<sessionVars, tableVars, faults>>

\* UpdateUser stores the name as it was typed, unless UNIQUE refuses it.
WriteName(r) ==
    /\ At(r, "name")
    /\ IF \E u \in DOMAIN users : u # req[r].user /\ users[u].name = req[r].given
       THEN Goto(r, Idle) /\ UNCHANGED <<users, typed>>
       ELSE /\ users' = [users EXCEPT ![req[r].user].name = req[r].given]
            /\ typed' = [typed EXCEPT ![req[r].user] =
                            [@ EXCEPT !.name = req[r].given, !.renamed = TRUE]]
            /\ Goto(r, Idle)
    /\ UNCHANGED <<sessionVars, userCreated, piholeStatus, updates, faults>>

\* POST /user/{id}/password: the current password must match the hash and
\* the new one must not.
MayReplace(hash, old, new) == old = hash /\ new # hash

ReadHash(r) ==
    /\ At(r, "authorized")
    /\ Update
    /\ \E old, new \in Passwords :
        /\ MayReplace(users[req[r].user].hash, old, new)
        /\ Goto(r, [Doing("password", req[r].user)
                        EXCEPT !.given = new, !.proof = old])
    /\ UNCHANGED <<sessionVars, tableVars, faults>>

WriteHash(r) ==
    /\ At(r, "password")
    /\ users' = [users EXCEPT ![req[r].user].hash = Trim[req[r].given]]
    /\ typed' = [typed EXCEPT ![req[r].user].password = req[r].given]
    /\ GotoWriting(r, Idle)
    /\ UNCHANGED <<sessionVars, userCreated, piholeStatus, updates, faults>>

\* PATCH /setup/status/pihole.
MaySetUnlessSame(current, new) == new # current /\ new # "UNINITIALIZED"

MaySet(current, new) ==
    /\ new # current
    /\ new # "UNINITIALIZED"
    /\ new = "SKIPPED" => current # "ADDED"

ReadStatus(r) ==
    /\ At(r, "authorized")
    /\ Update
    /\ \E new \in Statuses :
        /\ MaySet(piholeStatus, new)
        /\ Goto(r, [Idle EXCEPT !.at = "status", !.given = new])
    /\ UNCHANGED <<sessionVars, tableVars, faults>>

SetPiholeStatus(r) ==
    /\ At(r, "status")
    /\ piholeStatus' = req[r].given
    /\ GotoWriting(r, Idle)
    /\ UNCHANGED <<sessionVars, users, typed, userCreated, updates, faults>>

-----------------------------------------------------------------------------
(* Failures.                                                               *)

Fault == faults < MaxFaults /\ faults' = faults + 1

\* A statement fails and ends the request with an error.  An INSERT may have
\* been carried out when the SELECT that reads it back fails.
StatementFails(r) ==
    /\ Fault
    /\ ~At(r, "idle")
    /\ At(r, "session") => backend = "sqlite"
    /\ Goto(r, Idle)
    /\ UNCHANGED <<tableVars, updates>>
    /\ \/ UNCHANGED sessionVars
       \/ At(r, "session") /\ CreateSession(req[r].user)

PurgeFails(s) ==
    /\ Fault
    /\ PurgeSkip(s)
    /\ UNCHANGED <<tableVars, req, updates>>

\* The process dies and is started again.
Crash ==
    /\ Fault
    /\ req' = [r \in Requests |-> Idle]
    /\ SessionsRestart
    /\ UNCHANGED <<tableVars, updates>>

-----------------------------------------------------------------------------
Clock == Lapse /\ UNCHANGED <<tableVars, req, updates, faults>>

Purge ==
    /\ PurgeTick \/ \E s \in doomed : PurgeDelete(s)
    /\ UNCHANGED <<tableVars, req, updates, faults>>

RequestStep(r) ==
    \/ CheckInitialized(r) \/ InsertUser(r) \/ SetUserCreated(r)
    \/ IssueSession(r) \/ ValidateUser(r)
    \/ \E s \in Issued : Logout(r, s) \/ Authenticate(r, s)
    \/ Answer(r)
    \/ ReadName(r) \/ WriteName(r)
    \/ ReadHash(r) \/ WriteHash(r)
    \/ ReadStatus(r) \/ SetPiholeStatus(r)
    \/ StatementFails(r)

Next ==
    \/ \E r \in Requests : RequestStep(r)
    \/ Clock
    \/ Purge
    \/ \E s \in doomed : PurgeFails(s)
    \/ Crash

Spec == Init /\ [][Next]_vars

\* The purge loop runs on its own goroutine; nothing makes a client call.
FairSpec == Spec /\ WF_vars(Purge)

-----------------------------------------------------------------------------
(* Properties.                                                             *)

\* A session that no longer authenticates never does again, and one that
\* does is ended only by its expiry, by a logout that carries it or, in
\* memory, by a restart: whatever the purge, a failed statement and other
\* requests do meanwhile, nobody is logged out or back in (SessionManager).
SessionsEndForGood ==
    [][\A s \in Issued :
        /\ Valid(s)' => Valid(s) /\ owner'[s] = owner[s]
        /\ Valid(s) /\ ~Valid(s)' =>
            \/ s <= lapsed'
            \/ \E r \in Requests : Logout(r, s)
            \/ backend = "memory" /\ Crash]_vars

\* Every stored session is that of an account that exists, whatever crashed
\* or failed between the INSERT of the user and that of the session.
SessionHasUser == \A s \in stored : owner[s] \in DOMAIN users

\* Users and sessions are well formed, and no session outlives or precedes its
\* account.
AccountsSafe == TypeOK /\ SessionHasUser

\* Once there is an account the setup says so, but for the moment between
\* the two statements of CreateUser: only a failure between them leaves an
\* application that refuses a user as initialized and reports none created.
FlagFollowsUser ==
    /\ userCreated => users # <<>>
    /\ users # <<>> /\ ~userCreated =>
        faults > 0 \/ \E r \in Requests : At(r, "flag")

\* The rules the services check before they write hold at the write for
\* every request that no other one overtook in between: a user is created
\* only while there is none, a password replaced only against the current
\* one, and the status never goes back, nor from ADDED to SKIPPED.
Leaves(r, at) == At(r, at) /\ ~At(r, at)'

RulesHoldAtWrite ==
    [][\A r \in Requests : ~req[r].stale =>
        /\ Leaves(r, "insert") /\ users' # users => users = <<>>
        /\ Leaves(r, "password") /\ users' # users
            => req[r].proof = users[req[r].user].hash
        /\ Leaves(r, "status") /\ piholeStatus' # piholeStatus =>
            /\ piholeStatus' # "UNINITIALIZED"
            /\ piholeStatus # "ADDED"]_vars

\* Whoever types the name and the password an account was last given is let
\* into that account and into no other, but for what the code changes on the
\* way: a password is hashed without the blanks around it and compared with
\* them, so one with blanks never opens again (setup, UpdatePassword,
\* ValidateUser); setup strips those around a name, which the login keeps; and a
\* rename keeps capitals, which the login turns to lower case.
KeptAsTyped(t) ==
    /\ Trim[t.password] = t.password
    /\ IF t.renamed THEN Lower[t.name] = t.name ELSE Trim[t.name] = t.name

OpensAsGiven ==
    \A u, v \in DOMAIN users :
        KeptAsTyped(typed[u]) =>
            (Matches(v, typed[u].name, typed[u].password) <=> v = u)

\* Every expired session is at last deleted from the storage.
LapsedPurged == \A s \in 1..MaxSessions : s <= lapsed ~> s \notin stored
=============================================================================
