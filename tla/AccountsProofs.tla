--------------------------- MODULE AccountsProofs ---------------------------
(***************************************************************************)
(* Accounts, setup and login sessions, for any number of concurrent        *)
(* requests, sessions, failed statements and crashes.                      *)
(***************************************************************************)
EXTENDS Accounts, FiniteSetTheorems, SequenceTheorems, TLAPS

USE AccountsAssumption, SessionsAssumption

Rows == [name : StoredNames, hash : Hashes]
Slot == [at : {"idle", "insert", "flag", "session", "authorized", "name", "password",
               "status"},
         user : Nat, given : Given, proof : Passwords \cup {None}, stale : BOOLEAN]

(***************************************************************************)
(* What a request under way may rely on, given the tables: its user        *)
(* exists, its input is of the right kind, and what it has read still      *)
(* holds unless it is marked stale.                                        *)
(***************************************************************************)
Sound(q, table, status) ==
    /\ q \in Slot
    /\ q.user \in 0..Len(table)
    /\ q.stale => q.at \in {"insert", "password", "status"}
    /\ q.at \in {"flag", "session", "authorized", "name", "password"} => q.user \in 1..Len(table)
    /\ q.at \in {"insert", "status"} => q.user = 0
    /\ q.at = "insert" /\ ~q.stale => table = <<>>
    /\ q.at = "name" => q.given \in Names
    /\ q.at = "password" => q.given \in Passwords
    /\ q.at = "password" /\ ~q.stale => q.proof = table[q.user].hash
    /\ q.at = "status" => q.given \in Statuses \ {"UNINITIALIZED"}
    /\ q.at = "status" /\ ~q.stale /\ status = "ADDED" => q.given # "SKIPPED"

Slots ==
    /\ req = [r \in Requests |-> req[r]]
    /\ \A r \in Requests : Sound(req[r], users, piholeStatus)

Tables ==
    /\ users \in Seq(Rows)
    /\ userCreated \in BOOLEAN
    /\ piholeStatus \in Statuses
    /\ updates \in 0..MaxUpdates
    /\ faults \in 0..MaxFaults

\* Every request that will add a row or a session has its place reserved.
Inserting == {r \in Requests : req[r].at = "insert"}
Needing == {r \in Requests : req[r].at \in {"insert", "flag", "session"}}

Room ==
    /\ Len(users) + Cardinality(Inserting) <= Cardinality(Requests)
    /\ Cardinality(Needing) + Len(owner) <= MaxSessions

IInv ==
    /\ Tables /\ SessionsTypeOK /\ Slots /\ Room
    /\ SessionHasUser /\ FlagFollowsUser

-----------------------------------------------------------------------------
(* The values a slot takes.                                                *)

Pcs == {"idle", "insert", "flag", "session", "authorized", "name", "password", "status"}

LEMMA IdleValue ==
    /\ Idle \in Slot /\ Idle.at = "idle" /\ Idle.user = 0 /\ ~Idle.stale
    /\ Idle.proof = None
BY DEF Idle, Slot, Given

LEMMA DoingValue ==
    ASSUME NEW at \in Pcs, NEW u \in Nat
    PROVE  /\ Doing(at, u) \in Slot /\ Doing(at, u).at = at /\ Doing(at, u).user = u
           /\ ~Doing(at, u).stale
<1>1. Doing(at, u) \in Slot
    BY IdleValue DEF Doing, Slot, Pcs
<1> QED BY <1>1, IdleValue DEF Doing, Slot

LEMMA SoundIdle ==
    ASSUME NEW table \in Seq(Rows), NEW status
    PROVE  Sound(Idle, table, status) /\ Idle.at = "idle"
<1>1. Len(table) \in Nat
    OBVIOUS
<1> QED BY <1>1, IdleValue DEF Sound

LEMMA SoundDoing ==
    ASSUME NEW table \in Seq(Rows), NEW status, NEW u \in 1..Len(table),
           NEW at \in {"flag", "session", "authorized"}
    PROVE  Sound(Doing(at, u), table, status) /\ Doing(at, u).at = at
           /\ Doing(at, u).user = u
<1>1. Len(table) \in Nat /\ u \in Nat /\ at \in Pcs
    BY DEF Pcs
<1>2. /\ Doing(at, u) \in Slot /\ Doing(at, u).at = at /\ Doing(at, u).user = u
      /\ ~Doing(at, u).stale
    BY <1>1, DoingValue
<1> QED BY <1>1, <1>2 DEF Sound

\* r moves to q and the others stay as they are, or turn stale.
Moved(r, q) ==
    /\ req' = [s \in Requests |-> req'[s]]
    /\ req'[r] = q
    /\ \A s \in Requests \ {r} :
        \/ req'[s] = req[s]
        \/ /\ req'[s] = [req[s] EXCEPT !.stale = TRUE]
           /\ req[s].at = req[r].at /\ req[s].user = req[r].user

LEMMA MovedByGoto ==
    ASSUME Slots, NEW r \in Requests, NEW q, Goto(r, q)
    PROVE  Moved(r, q) /\ \A s \in Requests \ {r} : req'[s] = req[s]
BY DEF Slots, Goto, Moved

LEMMA MovedByWriting ==
    ASSUME Slots, NEW r \in Requests, NEW q, GotoWriting(r, q)
    PROVE  /\ Moved(r, q)
           /\ \A s \in Requests \ {r} :
                IF req[s].at = req[r].at /\ req[s].user = req[r].user
                THEN req'[s] = [req[s] EXCEPT !.stale = TRUE]
                ELSE req'[s] = req[s]
BY DEF Slots, GotoWriting, Moved

LEMMA OthersStay ==
    ASSUME Slots, NEW r \in Requests, NEW q, Moved(r, q)
    PROVE  \A s \in Requests \ {r} :
                /\ req'[s].at = req[s].at /\ req'[s].user = req[s].user
                /\ req'[s].given = req[s].given /\ req'[s].proof = req[s].proof
                /\ req'[s].stale = req[s].stale \/ req'[s].stale
                /\ req'[s] \in Slot
<1> SUFFICES ASSUME NEW s \in Requests \ {r}
             PROVE  /\ req'[s].at = req[s].at /\ req'[s].user = req[s].user
                    /\ req'[s].given = req[s].given /\ req'[s].proof = req[s].proof
                    /\ req'[s].stale = req[s].stale \/ req'[s].stale
                    /\ req'[s] \in Slot
    OBVIOUS
<1>1. req[s] \in Slot
    BY DEF Slots, Sound
<1>2. CASE req'[s] = req[s]
    BY <1>1, <1>2
<1>3. CASE req'[s] = [req[s] EXCEPT !.stale = TRUE]
    BY <1>1, <1>3 DEF Slot
<1> QED BY <1>2, <1>3 DEF Moved

-----------------------------------------------------------------------------
(* Reservations.                                                           *)

LEMMA Counting ==
    ASSUME Slots
    PROVE  /\ IsFiniteSet(Inserting) /\ IsFiniteSet(Needing)
           /\ Cardinality(Inserting) \in Nat /\ Cardinality(Needing) \in Nat
           /\ Cardinality(Requests) \in Nat
           /\ Cardinality(Inserting) <= Cardinality(Requests)
<1>1. Inserting \subseteq Requests /\ Needing \subseteq Requests
    BY DEF Inserting, Needing
<1>2. IsFiniteSet(Inserting) /\ IsFiniteSet(Needing)
    BY <1>1, FS_Subset
<1> QED BY <1>1, <1>2, FS_CardinalityType, FS_Subset

LEMMA Fewer ==
    ASSUME NEW S, NEW T, IsFiniteSet(S), T \subseteq S
    PROVE  /\ Cardinality(T) <= Cardinality(S) /\ Cardinality(T) \in Nat
           /\ Cardinality(S) \in Nat
           /\ \A x \in S \ T : Cardinality(T) + 1 <= Cardinality(S)
<1>1. IsFiniteSet(T) /\ Cardinality(T) <= Cardinality(S)
    BY FS_Subset
<1>2. Cardinality(T) \in Nat /\ Cardinality(S) \in Nat
    BY <1>1, FS_CardinalityType
<1>3. ASSUME NEW x \in S \ T
      PROVE  Cardinality(T) + 1 <= Cardinality(S)
    <2>1. T \cup {x} \subseteq S
        OBVIOUS
    <2>2. Cardinality(T \cup {x}) = Cardinality(T) + 1
        BY <1>1, <1>3, FS_AddElement
    <2>3. Cardinality(T \cup {x}) <= Cardinality(S)
        BY <2>1, FS_Subset
    <2> QED BY <2>2, <2>3
<1> QED BY <1>1, <1>2, <1>3

LEMMA OneMore ==
    ASSUME NEW S, NEW T, NEW x, IsFiniteSet(S), T \subseteq S \cup {x}
    PROVE  Cardinality(T) <= Cardinality(S) + 1 /\ Cardinality(T) \in Nat
<1>1. Cardinality(S) \in Nat
    BY FS_CardinalityType
<1>2. IsFiniteSet(S \cup {x}) /\ Cardinality(S \cup {x}) <= Cardinality(S) + 1
    <2>1. /\ IsFiniteSet(S \cup {x})
          /\ Cardinality(S \cup {x}) = IF x \in S THEN Cardinality(S) ELSE Cardinality(S) + 1
        BY FS_AddElement
    <2> QED BY <1>1, <2>1
<1>3. /\ Cardinality(T) <= Cardinality(S \cup {x}) /\ Cardinality(T) \in Nat
      /\ Cardinality(S \cup {x}) \in Nat
    BY <1>2, Fewer
<1> QED BY <1>1, <1>2, <1>3

\* Who needs room after r has moved.
LEMMA NeedsAfter ==
    ASSUME Slots, NEW r \in Requests, NEW q, Moved(r, q)
    PROVE  /\ Inserting' \subseteq Inserting \cup {r} /\ Needing' \subseteq Needing \cup {r}
           /\ q.at # "insert" => Inserting' \subseteq Inserting \ {r}
           /\ q.at \notin {"insert", "flag", "session"} => Needing' \subseteq Needing \ {r}
           /\ req[r].at \in {"insert", "flag", "session"} => Needing' \subseteq Needing
<1>1. \A t \in Requests \ {r} : req'[t].at = req[t].at
    BY OthersStay
<1>2. req'[r] = q
    BY DEF Moved
<1> QED BY <1>1, <1>2 DEF Inserting, Needing

\* A move that asks for no more room than the request has.
LEMMA RoomMove ==
    ASSUME IInv, NEW r \in Requests, NEW q, Moved(r, q), q.at # "insert",
           q.at \in {"flag", "session"} => req[r].at \in {"insert", "flag", "session"},
           Len(users') = Len(users), owner' = owner
    PROVE  Room'
<1>1. Slots /\ Room /\ Tables /\ SessionsTypeOK
    BY DEF IInv
<1>2. /\ Inserting' \subseteq Inserting /\ Needing' \subseteq Needing
    BY <1>1, NeedsAfter
<1>3. /\ Cardinality(Inserting') <= Cardinality(Inserting)
      /\ Cardinality(Inserting') \in Nat /\ Cardinality(Inserting) \in Nat
    BY <1>1, <1>2, Counting, Fewer
<1>4. /\ Cardinality(Needing') <= Cardinality(Needing)
      /\ Cardinality(Needing') \in Nat /\ Cardinality(Needing) \in Nat
    BY <1>1, <1>2, Counting, Fewer
<1>5. Len(users) \in Nat /\ Len(owner) \in Nat /\ Cardinality(Requests) \in Nat
    BY <1>1, Counting DEF Tables, SessionsTypeOK
<1> QED BY <1>1, <1>3, <1>4, <1>5 DEF Room

-----------------------------------------------------------------------------
(* Steps that change no table.                                             *)

LEMMA Parts ==
    ASSUME IInv
    PROVE  /\ Tables /\ SessionsTypeOK /\ Slots /\ Room /\ SessionHasUser /\ FlagFollowsUser
           /\ users \in Seq(Rows) /\ Len(users) \in Nat /\ DOMAIN users = 1..Len(users)
           /\ owner \in Seq(Nat) /\ Len(owner) \in Nat /\ Issued = 1..Len(owner)
           /\ lapsed \in 0..Len(owner)
           /\ faults \in Nat /\ faults \in 0..MaxFaults /\ updates \in 0..MaxUpdates
           /\ \A r \in Requests : Sound(req[r], users, piholeStatus) /\ req[r] \in Slot
BY DEF IInv, Tables, SessionsTypeOK, Issued, Slots, Sound

LEMMA QuietMove ==
    ASSUME IInv, NEW r \in Requests, NEW q, Goto(r, q), Sound(q, users, piholeStatus),
           UNCHANGED tableVars, UNCHANGED sessionVars,
           updates' \in 0..MaxUpdates, faults' \in 0..MaxFaults, faults' >= faults,
           req[r].at = "flag" => faults' > 0,
           Room'
    PROVE  IInv'
<1>1. Moved(r, q) /\ \A t \in Requests \ {r} : req'[t] = req[t]
    BY Parts, MovedByGoto
<1>2. UNCHANGED <<users, userCreated, piholeStatus, backend, owner, stored, lapsed, doomed>>
    BY DEF tableVars, sessionVars
<1>3. Tables' /\ SessionsTypeOK' /\ SessionHasUser'
    BY <1>2, Parts DEF Tables, SessionsTypeOK, SessionHasUser, Issued
<1>4. Slots'
    <2>1. \A t \in Requests : Sound(req'[t], users', piholeStatus')
        BY <1>1, <1>2, Parts DEF Moved
    <2> QED BY <1>1, <2>1 DEF Slots, Moved
<1>5. FlagFollowsUser'
    <2>1. faults > 0 => faults' > 0
        BY Parts
    <2>2. \A t \in Requests : At(t, "flag") => faults' > 0 \/ At(t, "flag")'
        BY <1>1 DEF At
    <2> QED BY <1>2, <2>1, <2>2, Parts DEF FlagFollowsUser
<1> QED BY <1>3, <1>4, <1>5 DEF IInv

\* Only sessions are ended, or time passes.
LEMMA SessionsMove ==
    ASSUME IInv, UNCHANGED <<users, userCreated, piholeStatus, req, updates, owner>>,
           faults' \in 0..MaxFaults, faults' >= faults,
           SessionsTypeOK', stored' \subseteq stored
    PROVE  IInv'
<1>1. Tables' /\ Slots' /\ Room'
    BY Parts DEF Tables, Slots, Room, Inserting, Needing
<1>2. SessionHasUser'
    BY Parts DEF SessionHasUser
<1>3. FlagFollowsUser'
    <2>1. faults > 0 => faults' > 0
        BY Parts
    <2> QED BY <2>1, Parts DEF FlagFollowsUser, At
<1> QED BY <1>1, <1>2, <1>3 DEF IInv

LEMMA FaultBound == ASSUME IInv, Fault PROVE faults' \in 0..MaxFaults /\ faults' > faults
                                            /\ faults' > 0
BY Parts DEF Fault

LEMMA UpdateBound == ASSUME IInv, Update PROVE updates' \in 0..MaxUpdates
BY Parts DEF Update

LEMMA SessionsInv ==
    ASSUME IInv,
           \/ \E r \in Requests : \E s \in Issued : Logout(r, s)
           \/ Clock \/ Purge \/ \E s \in doomed : PurgeFails(s)
    PROVE  IInv'
<1>0. /\ backend \in {"memory", "sqlite"} /\ owner \in Seq(Nat) /\ Len(owner) <= MaxSessions
      /\ stored \subseteq Issued /\ lapsed \in 0..Len(owner) /\ doomed \subseteq 1..lapsed
      /\ Len(owner) \in Nat
    BY Parts DEF SessionsTypeOK
<1>1. ASSUME NEW r \in Requests, NEW s \in Issued, Logout(r, s) PROVE IInv'
    <2>1. SessionsTypeOK' /\ stored' \subseteq stored /\ owner' = owner
        BY <1>0, <1>1 DEF Logout, DestroySession, SessionsTypeOK, Issued
    <2> QED BY <1>1, <2>1, Parts, SessionsMove DEF Logout, tableVars
<1>2. CASE Clock
    <2>1. SessionsTypeOK' /\ stored' \subseteq stored /\ owner' = owner
        BY <1>0, <1>2 DEF Clock, Lapse, SessionsTypeOK, Issued
    <2> QED BY <1>2, <2>1, Parts, SessionsMove DEF Clock, tableVars
<1>3. CASE Purge
    <2>1. CASE PurgeTick
        <3>1. doomed' \subseteq 1..lapsed
            <4>1. doomed' = {s \in stored : s <= lapsed}
                BY <2>1 DEF PurgeTick, ExpiredOf
            <4>2. lapsed \in Nat /\ \A s \in stored : s \in Nat /\ 1 <= s
                BY <1>0 DEF Issued
            <4> QED BY <4>1, <4>2
        <3> QED BY <1>0, <1>3, <2>1, <3>1, Parts, SessionsMove
                DEF Purge, PurgeTick, SessionsTypeOK, Issued, tableVars
    <2>2. ASSUME NEW s \in doomed, PurgeDelete(s) PROVE IInv'
        <3>1. SessionsTypeOK' /\ stored' \subseteq stored /\ owner' = owner
            BY <1>0, <2>2 DEF PurgeDelete, SessionsTypeOK, Issued
        <3> QED BY <1>3, <3>1, Parts, SessionsMove DEF Purge, tableVars
    <2> QED BY <1>3, <2>1, <2>2 DEF Purge
<1>4. ASSUME NEW s \in doomed, PurgeFails(s) PROVE IInv'
    <2>1. SessionsTypeOK' /\ stored' \subseteq stored /\ owner' = owner
        BY <1>0, <1>4 DEF PurgeFails, PurgeSkip, SessionsTypeOK, Issued
    <2>2. faults' \in 0..MaxFaults /\ faults' >= faults
        BY <1>4, FaultBound, Parts DEF PurgeFails
    <2> QED BY <1>4, <2>1, <2>2, SessionsMove DEF PurgeFails, tableVars
<1> QED BY <1>1, <1>2, <1>3, <1>4

-----------------------------------------------------------------------------
(* Requests that only move.                                                *)

LEMMA CheckInitializedInv ==
    ASSUME IInv, NEW r \in Requests, CheckInitialized(r)
    PROVE  IInv'
<1> DEFINE q == Doing("insert", 0)
<1>1. /\ At(r, "idle") /\ RoomForSession /\ users = <<>> /\ Goto(r, q)
      /\ UNCHANGED tableVars /\ UNCHANGED sessionVars /\ UNCHANGED <<updates, faults>>
    BY DEF CheckInitialized
<1>2. q \in Slot /\ q.at = "insert" /\ q.user = 0 /\ ~q.stale
    BY DoingValue DEF Pcs
<1>3. Sound(q, users, piholeStatus)
    BY <1>1, <1>2, Parts DEF Sound
<1> HIDE DEF q
<1>4. Moved(r, q) /\ Slots
    BY <1>1, MovedByGoto, Parts
<1>5. Len(users') = 0 /\ owner' = owner
    BY <1>1 DEF tableVars, sessionVars
<1>6. Room'
    <2>1. req' = [s \in Requests |-> req'[s]]
        BY <1>4 DEF Moved
    <2>2. Inserting' \subseteq Requests
        BY DEF Inserting
    <2>3. Cardinality(Inserting') <= Cardinality(Requests) /\ Cardinality(Inserting') \in Nat
          /\ Cardinality(Requests) \in Nat
        BY <2>2, Fewer
    <2>4. Cardinality(Needing') <= Cardinality(Needing) + 1 /\ Cardinality(Needing') \in Nat
        BY <1>4, NeedsAfter, Counting, OneMore
    <2>5. Cardinality(Needing) + Len(owner) < MaxSessions /\ Cardinality(Needing) \in Nat
          /\ Len(owner) \in Nat
        BY <1>1, <1>4, Counting, Parts DEF RoomForSession, At, Needing
    <2> QED BY <1>5, <2>3, <2>4, <2>5 DEF Room
<1> QED BY <1>1, <1>3, <1>6, Parts, QuietMove DEF At

LEMMA ValidateUserInv ==
    ASSUME IInv, NEW r \in Requests, ValidateUser(r)
    PROVE  IInv'
<1>1. PICK u \in DOMAIN users : Goto(r, Doing("session", u))
    BY DEF ValidateUser
<1>2. /\ At(r, "idle") /\ RoomForSession
      /\ UNCHANGED tableVars /\ UNCHANGED sessionVars /\ UNCHANGED <<updates, faults>>
    BY DEF ValidateUser
<1> DEFINE q == Doing("session", u)
<1>3. Sound(q, users, piholeStatus) /\ q.at = "session"
    <2>1. users \in Seq(Rows) /\ u \in 1..Len(users)
        BY Parts
    <2> QED BY <2>1, SoundDoing
<1> HIDE DEF q
<1>4. Moved(r, q) /\ Slots
    BY <1>1, MovedByGoto, Parts DEF q
<1>5. users' = users /\ owner' = owner
    BY <1>2 DEF tableVars, sessionVars
<1>6. Room'
    <2>1. Inserting' \subseteq Inserting
        BY <1>3, <1>4, NeedsAfter
    <2>2. Cardinality(Inserting') <= Cardinality(Inserting) /\ Cardinality(Inserting') \in Nat
          /\ Cardinality(Inserting) \in Nat
        BY <1>4, <2>1, Counting, Fewer
    <2>3. Cardinality(Needing') <= Cardinality(Needing) + 1 /\ Cardinality(Needing') \in Nat
        BY <1>4, NeedsAfter, Counting, OneMore
    <2>4. Cardinality(Needing) + Len(owner) < MaxSessions /\ Cardinality(Needing) \in Nat
          /\ Len(owner) \in Nat
        BY <1>2, <1>4, Counting, Parts DEF RoomForSession, At, Needing
    <2>5. Len(users) + Cardinality(Inserting) <= Cardinality(Requests)
          /\ Len(users) \in Nat /\ Cardinality(Requests) \in Nat
        BY <1>4, Parts, Counting DEF Room
    <2> QED BY <1>5, <2>2, <2>3, <2>4, <2>5 DEF Room
<1> QED BY <1>1, <1>2, <1>3, <1>6, Parts, QuietMove DEF At, q

\* A request moves on to a statement that adds no row and no session.
LEMMA PlainMove ==
    ASSUME IInv, NEW r \in Requests, NEW q, Goto(r, q), Sound(q, users, piholeStatus),
           q.at \notin {"insert", "flag", "session"}, req[r].at # "flag",
           UNCHANGED tableVars, UNCHANGED sessionVars, faults' = faults,
           updates' \in 0..MaxUpdates
    PROVE  IInv'
<1>1. Moved(r, q)
    BY Parts, MovedByGoto
<1>2. Room'
    <2>1. users' = users /\ owner' = owner
        BY DEF tableVars, sessionVars
    <2> QED BY <1>1, <2>1, RoomMove
<1> QED BY <1>2, Parts, QuietMove

LEMMA ReadersInv ==
    ASSUME IInv, NEW r \in Requests,
           \/ \E s \in Issued : Authenticate(r, s)
           \/ Answer(r) \/ ReadName(r) \/ ReadHash(r) \/ ReadStatus(r)
    PROVE  IInv'
<1>0. /\ users \in Seq(Rows) /\ Len(users) \in Nat /\ Sound(req[r], users, piholeStatus)
      /\ req[r].user \in Nat
    BY Parts DEF Slot
<1>1. ASSUME NEW s \in Issued, Authenticate(r, s) PROVE IInv'
    <2>1. owner[s] \in 1..Len(users)
        BY <1>1, Parts DEF Authenticate, Valid, SessionHasUser
    <2>2. /\ Sound(Doing("authorized", owner[s]), users, piholeStatus)
          /\ Doing("authorized", owner[s]).at = "authorized"
        BY <1>0, <2>1, SoundDoing
    <2> HIDE DEF Doing
    <2> QED BY <1>1, <2>2, Parts, PlainMove DEF Authenticate, At
<1>2. CASE Answer(r)
    <2>1. Sound(Idle, users, piholeStatus) /\ Idle.at = "idle"
        BY <1>0, SoundIdle
    <2> QED BY <1>2, <2>1, Parts, PlainMove DEF Answer, At
<1>3. CASE ReadName(r)
    <2>1. PICK n \in Names : Goto(r, [Doing("name", req[r].user) EXCEPT !.given = n])
        BY <1>3 DEF ReadName
    <2> DEFINE q == [Doing("name", req[r].user) EXCEPT !.given = n]
    <2>2. /\ Doing("name", req[r].user) \in Slot /\ ~Doing("name", req[r].user).stale
          /\ Doing("name", req[r].user).at = "name"
          /\ Doing("name", req[r].user).user = req[r].user
        BY <1>0, DoingValue DEF Pcs
    <2>3. q \in Slot /\ q.at = "name" /\ q.user = req[r].user /\ q.given = n /\ ~q.stale
        BY <2>2 DEF Slot, Given
    <2>4. req[r].at = "authorized" /\ req[r].user \in 1..Len(users)
        BY <1>0, <1>3 DEF ReadName, At, Sound
    <2> HIDE DEF q
    <2>5. Sound(q, users, piholeStatus)
        BY <2>3, <2>4 DEF Sound
    <2> QED BY <1>3, <2>1, <2>3, <2>4, <2>5, UpdateBound, PlainMove DEF ReadName, q
<1>4. CASE ReadHash(r)
    <2>1. PICK old \in Passwords, new \in Passwords :
            /\ MayReplace(users[req[r].user].hash, old, new)
            /\ Goto(r, [Doing("password", req[r].user) EXCEPT !.given = new, !.proof = old])
        BY <1>4 DEF ReadHash
    <2> DEFINE q == [Doing("password", req[r].user) EXCEPT !.given = new, !.proof = old]
    <2>2. /\ Doing("password", req[r].user) \in Slot /\ ~Doing("password", req[r].user).stale
          /\ Doing("password", req[r].user).at = "password"
          /\ Doing("password", req[r].user).user = req[r].user
        BY <1>0, DoingValue DEF Pcs
    <2>3. q \in Slot /\ q.at = "password" /\ q.user = req[r].user /\ q.given = new /\ ~q.stale
          /\ q.proof = old
        BY <2>2 DEF Slot, Given
    <2>4. req[r].at = "authorized" /\ req[r].user \in 1..Len(users)
        BY <1>0, <1>4 DEF ReadHash, At, Sound
    <2> HIDE DEF q
    <2>5. Sound(q, users, piholeStatus)
        BY <2>1, <2>3, <2>4 DEF Sound, MayReplace
    <2> QED BY <1>4, <2>1, <2>3, <2>4, <2>5, UpdateBound, PlainMove DEF ReadHash, q
<1>5. CASE ReadStatus(r)
    <2>1. PICK new \in Statuses : MaySet(piholeStatus, new)
                                  /\ Goto(r, [Idle EXCEPT !.at = "status", !.given = new])
        BY <1>5 DEF ReadStatus
    <2> DEFINE q == [Idle EXCEPT !.at = "status", !.given = new]
    <2>2. q \in Slot /\ q.at = "status" /\ q.user = 0 /\ q.given = new /\ ~q.stale
        BY IdleValue DEF Slot, Given
    <2> HIDE DEF q
    <2>3. Sound(q, users, piholeStatus)
        BY <1>0, <2>1, <2>2 DEF Sound, MaySet
    <2> QED BY <1>5, <2>1, <2>2, <2>3, UpdateBound, PlainMove DEF ReadStatus, At, q
<1> QED BY <1>1, <1>2, <1>3, <1>4, <1>5

-----------------------------------------------------------------------------
(* Writes.                                                                 *)

LEMMA IssueInv ==
    ASSUME IInv, NEW r \in Requests, At(r, "session"), CreateSession(req[r].user),
           Goto(r, Idle), UNCHANGED tableVars, updates' = updates,
           faults' \in 0..MaxFaults, faults' >= faults
    PROVE  IInv'
<1>1. /\ users' = users /\ userCreated' = userCreated /\ piholeStatus' = piholeStatus
      /\ owner' = Append(owner, req[r].user) /\ stored' = stored \cup {Len(owner) + 1}
      /\ UNCHANGED <<backend, lapsed, doomed>>
    BY DEF tableVars, CreateSession
<1>2. req[r].at = "session" /\ req[r].user \in 1..Len(users) /\ req[r].user \in Nat
    BY Parts DEF At, Sound, Slot
<1>3. Moved(r, Idle) /\ Idle.at = "idle" /\ \A t \in Requests \ {r} : req'[t] = req[t]
    BY Parts, MovedByGoto, IdleValue
<1>4. /\ owner' \in Seq(Nat) /\ Len(owner') = Len(owner) + 1
      /\ owner'[Len(owner) + 1] = req[r].user
      /\ \A s \in 1..Len(owner) : owner'[s] = owner[s]
    BY <1>1, <1>2, Parts
<1>5. Room'
    <2>1. Inserting' \subseteq Inserting /\ Needing' \subseteq Needing \ {r} /\ r \in Needing
        BY <1>2, <1>3, NeedsAfter, Parts DEF Needing
    <2>2. /\ Cardinality(Inserting') <= Cardinality(Inserting)
          /\ Cardinality(Inserting') \in Nat /\ Cardinality(Inserting) \in Nat
        BY <2>1, Parts, Counting, Fewer
    <2>3. /\ Cardinality(Needing') + 1 <= Cardinality(Needing)
          /\ Cardinality(Needing') \in Nat /\ Cardinality(Needing) \in Nat
        BY <2>1, Parts, Counting, Fewer
    <2>4. Cardinality(Requests) \in Nat
        BY Parts, Counting
    <2>5. /\ Len(users) + Cardinality(Inserting) <= Cardinality(Requests)
          /\ Cardinality(Needing) + Len(owner) <= MaxSessions
          /\ Len(users) \in Nat /\ Len(owner) \in Nat
        BY Parts DEF Room
    <2>6. Len(users) + Cardinality(Inserting') <= Cardinality(Requests)
        BY <2>2, <2>4, <2>5
    <2>7. Cardinality(Needing') + (Len(owner) + 1) <= MaxSessions
        BY <2>3, <2>5
    <2> QED BY <1>1, <1>4, <2>6, <2>7 DEF Room
<1>6. Tables'
    BY <1>1, Parts DEF Tables
<1>7. SessionsTypeOK'
    <2>1. Len(owner') <= MaxSessions
        <3>1. Cardinality(Needing') \in Nat
            <4>1. Needing' \subseteq Needing
                BY <1>2, <1>3, NeedsAfter, Parts
            <4> QED BY <4>1, Parts, Counting, Fewer
        <3> QED BY <1>4, <1>5, <3>1, Parts DEF Room
    <2>2. Issued' = 1..(Len(owner) + 1) /\ stored' \subseteq Issued'
        BY <1>1, <1>4, Parts DEF Issued, SessionsTypeOK
    <2> QED BY <1>1, <1>4, <2>1, <2>2, Parts DEF SessionsTypeOK
<1>8. SessionHasUser'
    <2>1. \A s \in stored' : (s \in 1..Len(owner) /\ s \in stored) \/ s = Len(owner) + 1
        BY <1>1, Parts DEF SessionsTypeOK
    <2> QED BY <1>1, <1>2, <1>4, <2>1, Parts DEF SessionHasUser
<1>9. Slots'
    <2>1. Sound(Idle, users, piholeStatus)
        BY Parts, SoundIdle
    <2> QED BY <1>1, <1>3, <2>1, Parts DEF Slots, Moved
<1>10. FlagFollowsUser'
    <2>1. faults > 0 => faults' > 0
        BY Parts
    <2>2. \A t \in Requests : At(t, "flag") => At(t, "flag")'
        BY <1>2, <1>3 DEF At
    <2> QED BY <1>1, <2>1, <2>2, Parts DEF FlagFollowsUser
<1> QED BY <1>5, <1>6, <1>7, <1>8, <1>9, <1>10 DEF IInv

LEMMA SetUserCreatedInv ==
    ASSUME IInv, NEW r \in Requests, SetUserCreated(r)
    PROVE  IInv'
<1>1. /\ req[r].at = "flag" /\ userCreated' = TRUE /\ Goto(r, Doing("session", req[r].user))
      /\ UNCHANGED sessionVars /\ UNCHANGED <<users, piholeStatus, updates, faults>>
    BY DEF SetUserCreated, At
<1>2. req[r].user \in 1..Len(users)
    BY <1>1, Parts DEF Sound
<1> DEFINE q == Doing("session", req[r].user)
<1>3. Sound(q, users, piholeStatus) /\ q.at = "session"
    <2>1. users \in Seq(Rows)
        BY Parts
    <2> QED BY <1>2, <2>1, SoundDoing
<1> HIDE DEF q
<1>4. Moved(r, q) /\ \A t \in Requests \ {r} : req'[t] = req[t]
    BY <1>1, Parts, MovedByGoto DEF q
<1>5. Room'
    <2>1. users' = users /\ owner' = owner
        BY <1>1 DEF sessionVars
    <2> QED BY <1>1, <1>3, <1>4, <2>1, RoomMove
<1>6. Slots'
    BY <1>1, <1>3, <1>4, Parts DEF Slots, Moved
<1>7. Tables' /\ SessionsTypeOK' /\ SessionHasUser'
    BY <1>1, Parts DEF Tables, SessionsTypeOK, SessionHasUser, Issued, sessionVars
<1>8. FlagFollowsUser'
    BY <1>1, <1>2, Parts DEF FlagFollowsUser
<1> QED BY <1>5, <1>6, <1>7, <1>8 DEF IInv

LEMMA InsertUserInv ==
    ASSUME IInv, NEW r \in Requests, InsertUser(r)
    PROVE  IInv'
<1>0. /\ req[r].at = "insert" /\ req[r].user = 0
      /\ UNCHANGED sessionVars /\ UNCHANGED <<userCreated, piholeStatus, updates, faults>>
    BY Parts DEF InsertUser, At, Sound
<1>1. PICK n \in Names, p \in FirstPasswords :
        IF \E u \in DOMAIN users : users[u].name = SetupName(n)
        THEN Goto(r, Idle) /\ UNCHANGED <<users, typed>>
        ELSE /\ users' = Append(users, [name |-> SetupName(n), hash |-> Trim[p]])
             /\ GotoWriting(r, Doing("flag", Len(users) + 1))
    BY DEF InsertUser, AddUser
<1>2. CASE Goto(r, Idle) /\ UNCHANGED <<users, typed>>
    <2>1. Sound(Idle, users, piholeStatus) /\ Idle.at = "idle"
        BY Parts, SoundIdle
    <2> QED BY <1>0, <1>2, <2>1, Parts, PlainMove DEF tableVars
<1>3. CASE /\ users' = Append(users, [name |-> SetupName(n), hash |-> Trim[p]])
           /\ GotoWriting(r, Doing("flag", Len(users) + 1))
    <2>1. [name |-> SetupName(n), hash |-> Trim[p]] \in Rows
        BY DEF Rows, SetupName, StoredNames, Hashes
    <2>2. /\ users' \in Seq(Rows) /\ Len(users') = Len(users) + 1
          /\ \A u \in 1..Len(users) : users'[u] = users[u]
          /\ Len(users') \in Nat /\ DOMAIN users' = 1..Len(users') /\ users' # <<>>
        <3> DEFINE row == [name |-> SetupName(n), hash |-> Trim[p]]
        <3>1. row \in Rows /\ users' = Append(users, row)
            BY <1>3, <2>1
        <3> HIDE DEF row
        <3>2. /\ users' \in Seq(Rows) /\ Len(users') = Len(users) + 1
              /\ \A u \in 1..Len(users) : users'[u] = users[u]
            BY <3>1, Parts
        <3> QED BY <3>2, Parts
    <2> DEFINE q == Doing("flag", Len(users) + 1)
    <2>3. Sound(q, users', piholeStatus') /\ q.at = "flag"
        <3>1. Len(users) + 1 \in 1..Len(users')
            BY <2>2, Parts
        <3> QED BY <2>2, <3>1, SoundDoing
    <2> HIDE DEF q
    <2>4. /\ Moved(r, q)
          /\ \A s \in Requests \ {r} :
                IF req[s].at = req[r].at /\ req[s].user = req[r].user
                THEN req'[s] = [req[s] EXCEPT !.stale = TRUE]
                ELSE req'[s] = req[s]
        BY <1>3, Parts, MovedByWriting DEF q
    <2>5. ASSUME NEW s \in Requests, s # r
          PROVE  Sound(req'[s], users', piholeStatus')
        <3>1. Sound(req[s], users, piholeStatus) /\ req[s] \in Slot
            BY Parts
        <3>2. CASE req[s].at = "insert"
            <4>1. req'[s] = [req[s] EXCEPT !.stale = TRUE]
                BY <1>0, <2>4, <2>5, <3>1, <3>2 DEF Sound
            <4>2. /\ req'[s] \in Slot /\ req'[s].at = "insert" /\ req'[s].user = 0
                  /\ req'[s].stale
                BY <3>1, <3>2, <4>1 DEF Slot, Sound
            <4> QED BY <2>2, <4>2 DEF Sound
        <3>3. CASE req[s].at # "insert"
            <4>1. req'[s] = req[s]
                BY <1>0, <2>4, <2>5, <3>3
            <4>2. req[s].user \in 0..Len(users')
                BY <2>2, <3>1, Parts DEF Sound
            <4>3. req[s].user \in 1..Len(users) =>
                    users'[req[s].user] = users[req[s].user]
                    /\ req[s].user \in 1..Len(users')
                BY <2>2, Parts
            <4> QED BY <1>0, <3>1, <3>3, <4>1, <4>2, <4>3 DEF Sound
        <3> QED BY <3>2, <3>3
    <2>6. Slots'
        BY <2>3, <2>4, <2>5 DEF Slots, Moved
    <2>7. Room'
        <3>1. /\ Inserting' \subseteq Inserting \ {r} /\ Needing' \subseteq Needing
              /\ r \in Inserting
            BY <1>0, <2>3, <2>4, NeedsAfter, Parts DEF Inserting
        <3>2. /\ Cardinality(Inserting') + 1 <= Cardinality(Inserting)
              /\ Cardinality(Inserting') \in Nat /\ Cardinality(Inserting) \in Nat
            BY <3>1, Parts, Counting, Fewer
        <3>3. /\ Cardinality(Needing') <= Cardinality(Needing)
              /\ Cardinality(Needing') \in Nat /\ Cardinality(Needing) \in Nat
            BY <3>1, Parts, Counting, Fewer
        <3>4. Cardinality(Requests) \in Nat /\ owner' = owner
            BY <1>0, Parts, Counting DEF sessionVars
        <3>5. /\ Len(users) + Cardinality(Inserting) <= Cardinality(Requests)
              /\ Cardinality(Needing) + Len(owner) <= MaxSessions
              /\ Len(users) \in Nat /\ Len(owner) \in Nat
            BY Parts DEF Room
        <3>6. (Len(users) + 1) + Cardinality(Inserting') <= Cardinality(Requests)
            BY <3>2, <3>4, <3>5
        <3>7. Cardinality(Needing') + Len(owner) <= MaxSessions
            BY <3>3, <3>5
        <3> QED BY <2>2, <3>4, <3>6, <3>7 DEF Room
    <2>8. Tables' /\ SessionsTypeOK'
        BY <1>0, <2>2, Parts DEF Tables, SessionsTypeOK, Issued, sessionVars
    <2>9. SessionHasUser'
        BY <1>0, <2>2, Parts DEF SessionHasUser, sessionVars
    <2>10. FlagFollowsUser'
        <3>1. At(r, "flag")'
            BY <2>3, <2>4 DEF At, Moved
        <3> QED BY <2>2, <3>1 DEF FlagFollowsUser
    <2> QED BY <2>6, <2>7, <2>8, <2>9, <2>10 DEF IInv
<1> QED BY <1>1, <1>2, <1>3

\* A write after which r is done and no row has come or gone.
LEMMA WriteInv ==
    ASSUME IInv, NEW r \in Requests, Moved(r, Idle), req[r].at # "flag",
           UNCHANGED sessionVars, UNCHANGED <<userCreated, updates, faults>>,
           users' \in Seq(Rows), Len(users') = Len(users), piholeStatus' \in Statuses,
           \A s \in Requests \ {r} : Sound(req'[s], users', piholeStatus')
    PROVE  IInv'
<1>1. Idle.at = "idle" /\ Sound(Idle, users', piholeStatus')
    BY SoundIdle
<1>2. owner' = owner
    BY DEF sessionVars
<1>3. Room'
    BY <1>1, <1>2, RoomMove
<1>4. Slots'
    BY <1>1 DEF Slots, Moved
<1>5. Tables' /\ SessionsTypeOK'
    BY Parts DEF Tables, SessionsTypeOK, Issued, sessionVars
<1>6. DOMAIN users' = DOMAIN users /\ (users = <<>> <=> users' = <<>>)
    BY Parts
<1>7. SessionHasUser'
    BY <1>6, Parts DEF SessionHasUser, sessionVars
<1>8. FlagFollowsUser'
    <2>1. \A t \in Requests : At(t, "flag") => At(t, "flag")'
        BY Parts, OthersStay DEF At
    <2> QED BY <1>6, <2>1, Parts DEF FlagFollowsUser
<1> QED BY <1>3, <1>4, <1>5, <1>7, <1>8 DEF IInv

LEMMA WriteNameInv ==
    ASSUME IInv, NEW r \in Requests, WriteName(r)
    PROVE  IInv'
<1>0. /\ req[r].at = "name" /\ req[r].user \in 1..Len(users) /\ req[r].given \in Names
      /\ UNCHANGED sessionVars /\ UNCHANGED <<userCreated, piholeStatus, updates, faults>>
      /\ Goto(r, Idle)
    BY Parts DEF WriteName, At, Sound
<1>1. CASE UNCHANGED <<users, typed>>
    <2>1. Sound(Idle, users, piholeStatus) /\ Idle.at = "idle"
        BY Parts, SoundIdle
    <2> QED BY <1>0, <1>1, <2>1, Parts, PlainMove DEF tableVars
<1>2. CASE users' = [users EXCEPT ![req[r].user].name = req[r].given]
    <2>1. users[req[r].user] \in Rows
        BY <1>0, Parts
    <2>2. [users[req[r].user] EXCEPT !.name = req[r].given] \in Rows
          /\ [users[req[r].user] EXCEPT !.name = req[r].given].hash = users[req[r].user].hash
        BY <1>0, <2>1 DEF Rows, StoredNames
    <2>3. /\ users' \in Seq(Rows) /\ Len(users') = Len(users)
          /\ \A u \in 1..Len(users) : users'[u].hash = users[u].hash
        BY <1>0, <1>2, <2>2, Parts
    <2>4. ASSUME NEW s \in Requests \ {r}
          PROVE  Sound(req'[s], users', piholeStatus')
        <3>1. req'[s] = req[s] /\ Sound(req[s], users, piholeStatus)
            BY <1>0, Parts, MovedByGoto
        <3>2. users = <<>> => users' = <<>>
            BY <2>3, Parts
        <3> QED BY <1>0, <2>3, <3>1, <3>2 DEF Sound
    <2>5. Moved(r, Idle)
        BY <1>0, Parts, MovedByGoto
    <2> QED BY <1>0, <2>3, <2>4, <2>5, Parts, WriteInv DEF Tables
<1> QED BY <1>1, <1>2 DEF WriteName

LEMMA WriteHashInv ==
    ASSUME IInv, NEW r \in Requests, WriteHash(r)
    PROVE  IInv'
<1>0. /\ req[r].at = "password" /\ req[r].user \in 1..Len(users) /\ req[r].given \in Passwords
      /\ UNCHANGED sessionVars /\ UNCHANGED <<userCreated, piholeStatus, updates, faults>>
      /\ GotoWriting(r, Idle)
      /\ users' = [users EXCEPT ![req[r].user].hash = Trim[req[r].given]]
    BY Parts DEF WriteHash, At, Sound
<1>1. users[req[r].user] \in Rows
    BY <1>0, Parts
<1>2. [users[req[r].user] EXCEPT !.hash = Trim[req[r].given]] \in Rows
    BY <1>0, <1>1 DEF Rows, Hashes
<1>3. /\ users' \in Seq(Rows) /\ Len(users') = Len(users)
      /\ \A u \in 1..Len(users) : u # req[r].user => users'[u] = users[u]
    BY <1>0, <1>2, Parts
<1>4. /\ Moved(r, Idle)
      /\ \A s \in Requests \ {r} :
            IF req[s].at = req[r].at /\ req[s].user = req[r].user
            THEN req'[s] = [req[s] EXCEPT !.stale = TRUE]
            ELSE req'[s] = req[s]
    BY <1>0, Parts, MovedByWriting
<1>5. ASSUME NEW s \in Requests \ {r}
      PROVE  Sound(req'[s], users', piholeStatus')
    <2>1. Sound(req[s], users, piholeStatus) /\ req[s] \in Slot
        BY Parts
    <2>2. users = <<>> => users' = <<>>
        BY <1>3, Parts
    <2>3. CASE req[s].at = "password" /\ req[s].user = req[r].user
        <3>1. req'[s] = [req[s] EXCEPT !.stale = TRUE]
            BY <1>0, <1>4, <2>3
        <3>2. /\ req'[s] \in Slot /\ req'[s].at = "password" /\ req'[s].user = req[s].user
              /\ req'[s].stale /\ req'[s].given = req[s].given
            BY <2>1, <2>3, <3>1 DEF Slot
        <3> QED BY <1>3, <2>1, <2>3, <3>2 DEF Sound
    <2>4. CASE ~(req[s].at = "password" /\ req[s].user = req[r].user)
        <3>1. req'[s] = req[s]
            BY <1>0, <1>4, <2>4
        <3>2. req[s].at = "password" => users'[req[s].user] = users[req[s].user]
            BY <1>3, <2>1, <2>4 DEF Sound
        <3> QED BY <1>0, <1>3, <2>1, <2>2, <3>1, <3>2 DEF Sound
    <2> QED BY <2>3, <2>4
<1> QED BY <1>0, <1>3, <1>4, <1>5, Parts, WriteInv DEF Tables

LEMMA SetPiholeStatusInv ==
    ASSUME IInv, NEW r \in Requests, SetPiholeStatus(r)
    PROVE  IInv'
<1>0. /\ req[r].at = "status" /\ req[r].user = 0
      /\ req[r].given \in Statuses \ {"UNINITIALIZED"}
      /\ UNCHANGED sessionVars /\ UNCHANGED <<users, userCreated, updates, faults>>
      /\ GotoWriting(r, Idle) /\ piholeStatus' = req[r].given
    BY Parts DEF SetPiholeStatus, At, Sound
<1>1. /\ Moved(r, Idle)
      /\ \A s \in Requests \ {r} :
            IF req[s].at = req[r].at /\ req[s].user = req[r].user
            THEN req'[s] = [req[s] EXCEPT !.stale = TRUE]
            ELSE req'[s] = req[s]
    BY <1>0, Parts, MovedByWriting
<1>2. ASSUME NEW s \in Requests \ {r}
      PROVE  Sound(req'[s], users', piholeStatus')
    <2>1. Sound(req[s], users, piholeStatus) /\ req[s] \in Slot
        BY Parts
    <2>2. CASE req[s].at = "status"
        <3>1. req'[s] = [req[s] EXCEPT !.stale = TRUE]
            BY <1>0, <1>1, <2>1, <2>2 DEF Sound
        <3>2. /\ req'[s] \in Slot /\ req'[s].at = "status" /\ req'[s].user = req[s].user
              /\ req'[s].stale /\ req'[s].given = req[s].given
            BY <2>1, <2>2, <3>1 DEF Slot
        <3> QED BY <1>0, <2>1, <2>2, <3>2 DEF Sound
    <2>3. CASE req[s].at # "status"
        <3>1. req'[s] = req[s]
            BY <1>0, <1>1, <2>3
        <3> QED BY <1>0, <2>1, <2>3, <3>1 DEF Sound
    <2> QED BY <2>2, <2>3
<1> QED BY <1>0, <1>1, <1>2, Parts, WriteInv

-----------------------------------------------------------------------------
(* Failures, and the invariant.                                            *)

LEMMA StatementFailsInv ==
    ASSUME IInv, NEW r \in Requests, StatementFails(r)
    PROVE  IInv'
<1>1. /\ Goto(r, Idle) /\ UNCHANGED tableVars /\ updates' = updates
      /\ faults' \in 0..MaxFaults /\ faults' >= faults /\ faults' > 0
    BY FaultBound, Parts DEF StatementFails
<1>2. CASE UNCHANGED sessionVars
    <2>1. Sound(Idle, users, piholeStatus) /\ Idle.at = "idle" /\ Moved(r, Idle)
        BY <1>1, Parts, SoundIdle, MovedByGoto
    <2>2. Room'
        <3>1. users' = users /\ owner' = owner
            BY <1>1, <1>2 DEF tableVars, sessionVars
        <3> QED BY <2>1, <3>1, RoomMove
    <2> QED BY <1>1, <1>2, <2>1, <2>2, Parts, QuietMove
<1>3. CASE At(r, "session") /\ CreateSession(req[r].user)
    BY <1>1, <1>3, IssueInv
<1> QED BY <1>2, <1>3 DEF StatementFails

LEMMA CrashInv ==
    ASSUME IInv, Crash
    PROVE  IInv'
<1>1. /\ req' = [r \in Requests |-> Idle] /\ UNCHANGED <<users, userCreated, piholeStatus>>
      /\ updates' = updates /\ faults' \in 0..MaxFaults /\ faults' > 0
      /\ UNCHANGED <<backend, owner, lapsed>> /\ doomed' = {} /\ stored' \subseteq stored
    BY FaultBound DEF Crash, SessionsRestart, tableVars
<1>2. Slots'
    <2>1. \A r \in Requests : Sound(req'[r], users', piholeStatus')
        BY <1>1, Parts, SoundIdle
    <2> QED BY <1>1, <2>1 DEF Slots
<1>3. Room'
    <2>1. Inserting' = {} /\ Needing' = {}
        BY <1>1, IdleValue DEF Inserting, Needing
    <2>2. Cardinality(Inserting') = 0 /\ Cardinality(Needing') = 0
        BY <2>1, FS_EmptySet
    <2>3. /\ Len(users) <= Cardinality(Requests) /\ Len(owner) <= MaxSessions
        <3>1. /\ Cardinality(Inserting) \in Nat /\ Cardinality(Needing) \in Nat
              /\ Cardinality(Requests) \in Nat
            BY Parts, Counting
        <3> QED BY <3>1, Parts DEF Room
    <2> QED BY <1>1, <2>2, <2>3, Parts DEF Room
<1>4. Tables' /\ SessionsTypeOK'
    BY <1>1, Parts DEF Tables, SessionsTypeOK, Issued
<1>5. SessionHasUser' /\ FlagFollowsUser'
    BY <1>1, Parts DEF SessionHasUser, FlagFollowsUser
<1> QED BY <1>2, <1>3, <1>4, <1>5 DEF IInv

LEMMA InitInv == Init => IInv
<1> SUFFICES ASSUME Init PROVE IInv
    OBVIOUS
<1>1. /\ users = <<>> /\ owner = <<>> /\ stored = {} /\ lapsed = 0 /\ doomed = {}
      /\ backend \in {"memory", "sqlite"} /\ userCreated = FALSE
      /\ piholeStatus = "UNINITIALIZED" /\ updates = 0 /\ faults = 0
      /\ req = [r \in Requests |-> Idle]
    BY DEF Init, SessionsInit
<1>2. users \in Seq(Rows) /\ Len(users) = 0 /\ owner \in Seq(Nat) /\ Len(owner) = 0
    BY <1>1
<1>3. Slots
    BY <1>1, <1>2, SoundIdle DEF Slots
<1>4. Room
    <2>1. Inserting = {} /\ Needing = {}
        BY <1>1, IdleValue DEF Inserting, Needing
    <2> QED BY <1>2, <2>1, FS_EmptySet, FS_CardinalityType DEF Room
<1>5. Tables /\ SessionsTypeOK
    <2>1. Tables
        <3>1. userCreated \in BOOLEAN
            BY <1>1
        <3>2. piholeStatus \in Statuses
            BY <1>1 DEF Statuses
        <3>3. updates \in 0..MaxUpdates /\ faults \in 0..MaxFaults
            BY <1>1
        <3> QED BY <1>2, <3>1, <3>2, <3>3 DEF Tables
    <2>2. SessionsTypeOK
        BY <1>1, <1>2 DEF SessionsTypeOK
    <2> QED BY <2>1, <2>2
<1>6. SessionHasUser /\ FlagFollowsUser
    BY <1>1 DEF SessionHasUser, FlagFollowsUser
<1> QED BY <1>3, <1>4, <1>5, <1>6 DEF IInv

LEMMA StepInv == IInv /\ [Next]_vars => IInv'
<1> SUFFICES ASSUME IInv, [Next]_vars PROVE IInv'
    OBVIOUS
<1>1. ASSUME NEW r \in Requests, RequestStep(r)
      PROVE  IInv'
    <2>1. CASE CheckInitialized(r) \/ InsertUser(r) \/ SetUserCreated(r) \/ ValidateUser(r)
        BY <2>1, CheckInitializedInv, InsertUserInv, SetUserCreatedInv, ValidateUserInv
    <2>2. CASE IssueSession(r)
        BY <2>2, IssueInv, Parts DEF IssueSession
    <2>3. CASE \E s \in Issued : Logout(r, s)
        BY <2>3, SessionsInv
    <2>4. CASE (\E s \in Issued : Authenticate(r, s))
               \/ Answer(r) \/ ReadName(r) \/ ReadHash(r) \/ ReadStatus(r)
        BY <2>4, ReadersInv
    <2>5. CASE WriteName(r) \/ WriteHash(r) \/ SetPiholeStatus(r) \/ StatementFails(r)
        BY <2>5, WriteNameInv, WriteHashInv, SetPiholeStatusInv, StatementFailsInv
    <2> QED BY <1>1, <2>1, <2>2, <2>3, <2>4, <2>5 DEF RequestStep
<1>2. CASE Clock \/ Purge \/ \E s \in doomed : PurgeFails(s)
    BY <1>2, SessionsInv
<1>3. CASE Crash
    BY <1>3, CrashInv
<1>4. CASE UNCHANGED vars
    <2>1. /\ UNCHANGED <<users, userCreated, piholeStatus, req, updates, owner>>
          /\ faults' = faults /\ stored' = stored
          /\ UNCHANGED <<backend, lapsed, doomed>>
        BY <1>4 DEF vars
    <2>2. SessionsTypeOK'
        BY <2>1, Parts DEF SessionsTypeOK, Issued
    <2>3. faults' \in 0..MaxFaults /\ faults' >= faults
        BY <2>1, Parts
    <2> QED BY <2>1, <2>2, <2>3, SessionsMove
<1> QED BY <1>1, <1>2, <1>3, <1>4 DEF Next

LEMMA Inductive == Spec => []IInv
BY InitInv, StepInv, PTL DEF Spec

-----------------------------------------------------------------------------
(* What the accounts were given.                                           *)

Inputs == [name : Names, renamed : BOOLEAN, password : Passwords \cup FirstPasswords]

\* The row stored for what was typed.
RowOf(t) == [name |-> IF t.renamed THEN t.name ELSE SetupName(t.name),
             hash |-> Trim[t.password]]

AsGiven ==
    /\ typed \in Seq(Inputs)
    /\ Len(typed) = Len(users)
    /\ \A u \in 1..Len(users) : users[u] = RowOf(typed[u])
    /\ \A u, v \in 1..Len(users) : users[u].name = users[v].name => u = v

LEMMA GivenAfterInsert ==
    ASSUME IInv, AsGiven, NEW n \in Names, NEW p \in FirstPasswords, AddUser(n, p),
           ~\E u \in DOMAIN users : users[u].name = SetupName(n)
    PROVE  AsGiven'
<1> DEFINE row == [name |-> SetupName(n), hash |-> Trim[p]]
           t == [name |-> n, renamed |-> FALSE, password |-> p]
<1>1. row \in Rows /\ t \in Inputs /\ row = RowOf(t) /\ row.name = SetupName(n)
    BY DEF Rows, SetupName, StoredNames, Hashes, Inputs, RowOf
<1>2. users' = Append(users, row) /\ typed' = Append(typed, t)
    BY DEF AddUser
<1> HIDE DEF row, t
<1>3. /\ Len(users') = Len(users) + 1 /\ users'[Len(users) + 1] = row
      /\ \A u \in 1..Len(users) : users'[u] = users[u]
    BY <1>1, <1>2, Parts
<1>4. /\ typed' \in Seq(Inputs) /\ Len(typed') = Len(users) + 1 /\ typed'[Len(users) + 1] = t
      /\ \A u \in 1..Len(users) : typed'[u] = typed[u]
    BY <1>1, <1>2, Parts DEF AsGiven
<1>5. \A u \in 1..Len(users') : u \in 1..Len(users) \/ u = Len(users) + 1
    BY <1>3, Parts
<1>6. \A u \in 1..Len(users') : users'[u] = RowOf(typed'[u])
    BY <1>1, <1>3, <1>4, <1>5 DEF AsGiven
<1>7. \A u, v \in 1..Len(users') : users'[u].name = users'[v].name => u = v
    BY <1>1, <1>3, <1>5, Parts DEF AsGiven
<1> QED BY <1>3, <1>4, <1>6, <1>7 DEF AsGiven

\* Row and input of account x are replaced, and no other one has the new name.
LEMMA GivenAfterUpdate ==
    ASSUME IInv, AsGiven, NEW x \in 1..Len(users), NEW t \in Inputs,
           users' = [users EXCEPT ![x] = RowOf(t)], typed' = [typed EXCEPT ![x] = t],
           \A u \in 1..Len(users) : u # x => users[u].name # RowOf(t).name
    PROVE  AsGiven'
<1>1. Len(users') = Len(users)
    BY Parts
<1>2. /\ users'[x] = RowOf(t) /\ \A u \in 1..Len(users) : u # x => users'[u] = users[u]
    BY Parts
<1>3. /\ typed' \in Seq(Inputs) /\ Len(typed') = Len(typed) /\ typed'[x] = t
      /\ \A u \in 1..Len(users) : u # x => typed'[u] = typed[u]
    BY DEF AsGiven
<1>4. \A u \in 1..Len(users) : users'[u] = RowOf(typed'[u])
    BY <1>2, <1>3 DEF AsGiven
<1>5. \A u, v \in 1..Len(users) : users'[u].name = users'[v].name => u = v
    BY <1>2 DEF AsGiven
<1> QED BY <1>1, <1>3, <1>4, <1>5 DEF AsGiven

LEMMA GivenAfterName ==
    ASSUME IInv, AsGiven, NEW r \in Requests, WriteName(r)
    PROVE  AsGiven'
<1>1. CASE UNCHANGED <<users, typed>>
    BY <1>1 DEF AsGiven
<1>2. CASE ~UNCHANGED <<users, typed>>
    <2> DEFINE x == req[r].user
               n == req[r].given
               t == [typed[x] EXCEPT !.name = n, !.renamed = TRUE]
    <2>1. x \in 1..Len(users) /\ n \in Names
        BY Parts DEF WriteName, At, Sound
    <2>2. /\ ~\E u \in DOMAIN users : u # x /\ users[u].name = n
          /\ users' = [users EXCEPT ![x].name = n] /\ typed' = [typed EXCEPT ![x] = t]
        BY <1>2 DEF WriteName
    <2>3. typed[x] \in Inputs /\ users[x] = RowOf(typed[x])
        BY <2>1 DEF AsGiven
    <2>4. t \in Inputs
        BY <2>1, <2>3 DEF Inputs
    <2>5. RowOf(t) = [users[x] EXCEPT !.name = n] /\ RowOf(t).name = n
        BY <2>3 DEF RowOf, Inputs
    <2>6. users' = [users EXCEPT ![x] = RowOf(t)]
        BY <2>2, <2>5
    <2>7. typed' = [typed EXCEPT ![x] = t]
        BY <2>2
    <2>8. \A u \in 1..Len(users) : u # x => users[u].name # RowOf(t).name
        BY <2>2, <2>5, Parts
    <2> HIDE DEF t
    <2> QED BY <2>1, <2>4, <2>6, <2>7, <2>8, GivenAfterUpdate
<1> QED BY <1>1, <1>2

LEMMA GivenAfterHash ==
    ASSUME IInv, AsGiven, NEW r \in Requests, WriteHash(r)
    PROVE  AsGiven'
<1> DEFINE x == req[r].user
           p == req[r].given
           t == [typed[x] EXCEPT !.password = p]
<1>1. x \in 1..Len(users) /\ p \in Passwords
    BY Parts DEF WriteHash, At, Sound
<1>2. users' = [users EXCEPT ![x].hash = Trim[p]] /\ typed' = [typed EXCEPT ![x].password = p]
    BY DEF WriteHash
<1>3. typed[x] \in Inputs /\ users[x] = RowOf(typed[x])
    BY <1>1 DEF AsGiven
<1>4. t \in Inputs
    BY <1>1, <1>3 DEF Inputs
<1>5. RowOf(t) = [users[x] EXCEPT !.hash = Trim[p]] /\ RowOf(t).name = users[x].name
    BY <1>3 DEF RowOf, Inputs
<1>6. users' = [users EXCEPT ![x] = RowOf(t)] /\ typed' = [typed EXCEPT ![x] = t]
    BY <1>2, <1>5
<1>7. \A u \in 1..Len(users) : u # x => users[u].name # RowOf(t).name
    BY <1>1, <1>5 DEF AsGiven
<1> HIDE DEF t
<1> QED BY <1>1, <1>4, <1>6, <1>7, GivenAfterUpdate

LEMMA GivenStep == IInv /\ AsGiven /\ [Next]_vars => AsGiven'
<1> SUFFICES ASSUME IInv, AsGiven, [Next]_vars PROVE AsGiven'
    OBVIOUS
<1>1. CASE UNCHANGED <<users, typed>>
    BY <1>1 DEF AsGiven
<1>2. ASSUME NEW r \in Requests, InsertUser(r) PROVE AsGiven'
    <2>1. PICK n \in Names, p \in FirstPasswords :
            IF \E u \in DOMAIN users : users[u].name = SetupName(n)
            THEN UNCHANGED <<users, typed>>
            ELSE AddUser(n, p)
        BY <1>2 DEF InsertUser
    <2> QED BY <1>1, <2>1, GivenAfterInsert
<1>3. \/ UNCHANGED <<users, typed>>
      \/ \E r \in Requests : InsertUser(r) \/ WriteName(r) \/ WriteHash(r)
    BY DEF Next, RequestStep, CheckInitialized, SetUserCreated, IssueSession, ValidateUser,
           Logout, Authenticate, Answer, ReadName, ReadHash, ReadStatus, SetPiholeStatus,
           StatementFails, Clock, Purge, PurgeFails, Crash, tableVars, vars
<1> QED BY <1>1, <1>2, <1>3, GivenAfterName, GivenAfterHash

LEMMA GivenInductive == Spec => []AsGiven
<1>1. Init => AsGiven
    BY DEF Init, AsGiven
<1> QED BY <1>1, Inductive, GivenStep, PTL DEF Spec

LEMMA GivenOpens == IInv /\ AsGiven => OpensAsGiven
<1> SUFFICES ASSUME IInv, AsGiven, NEW u \in DOMAIN users, NEW v \in DOMAIN users,
                    KeptAsTyped(typed[u])
             PROVE  Matches(v, typed[u].name, typed[u].password) <=> v = u
    BY DEF OpensAsGiven
<1>1. u \in 1..Len(users) /\ v \in 1..Len(users)
    BY Parts
<1>2. users[u] = RowOf(typed[u])
    BY <1>1 DEF AsGiven
<1>3. Matches(u, typed[u].name, typed[u].password)
    BY <1>2 DEF Matches, KeptAsTyped, RowOf, SetupName
<1> QED BY <1>1, <1>3 DEF AsGiven, Matches

-----------------------------------------------------------------------------
(* What follows from the invariant.                                        *)

LEMMA InvIsSafe == IInv /\ AsGiven => AccountsSafe
<1> SUFFICES ASSUME IInv, AsGiven PROVE AccountsSafe
    OBVIOUS
<1>1. Len(users) <= Cardinality(Requests)
    <2>1. Cardinality(Inserting) \in Nat /\ Cardinality(Requests) \in Nat
        BY Parts, Counting
    <2> QED BY <2>1, Parts DEF Room
<1>2. ASSUME NEW r \in Requests
      PROVE  /\ req[r].at \in Pcs /\ req[r].user \in 0..Len(users) /\ req[r].given \in Given
             /\ req[r].proof \in Passwords \cup {None} /\ req[r].stale \in BOOLEAN
             /\ req[r].stale => req[r].at \in {"insert", "password", "status"}
             /\ req[r].at \in {"flag", "session", "authorized", "name", "password"}
                    => req[r].user \in DOMAIN users
    BY Parts DEF Sound, Slot, Pcs
<1>3. users \in Seq([name : StoredNames, hash : Hashes])
    BY Parts DEF Rows
<1>4. TypeOK
    BY <1>1, <1>2, <1>3, Parts DEF TypeOK, Tables, Pcs, AsGiven, Inputs
<1> QED BY <1>4, Parts DEF AccountsSafe

\* While one request works, the others stay where they are.
LEMMA OneMoves ==
    ASSUME IInv, NEW q \in Requests, RequestStep(q)
    PROVE  \A r \in Requests \ {q} : req'[r].at = req[r].at
<1>1. CASE \E s \in Issued : Logout(q, s)
    BY <1>1 DEF Logout
<1>2. ASSUME NEW x, Moved(q, x)
      PROVE  \A r \in Requests \ {q} : req'[r].at = req[r].at
    BY <1>2, Parts, OthersStay
<1>3. ASSUME NEW x, Goto(q, x) \/ GotoWriting(q, x)
      PROVE  \A r \in Requests \ {q} : req'[r].at = req[r].at
    <2>1. Moved(q, x)
        BY <1>3, Parts, MovedByGoto, MovedByWriting
    <2> QED BY <1>2, <2>1
<1>4. CASE InsertUser(q)
    <2>1. \E x : Goto(q, x) \/ GotoWriting(q, x)
        BY <1>4 DEF InsertUser
    <2> QED BY <1>3, <2>1
<1>5. CASE ~(\E s \in Issued : Logout(q, s)) /\ ~InsertUser(q)
    <2>1. \E x : Goto(q, x) \/ GotoWriting(q, x)
        BY <1>5 DEF RequestStep, CheckInitialized, SetUserCreated, IssueSession, ValidateUser,
               Authenticate, Answer, ReadName, WriteName, ReadHash, WriteHash, ReadStatus,
               SetPiholeStatus, StatementFails
    <2> QED BY <1>3, <2>1
<1> QED BY <1>1, <1>4, <1>5

\* Only SetPiholeStatus writes the status.
LEMMA StatusWriter ==
    ASSUME [Next]_vars, piholeStatus' # piholeStatus
    PROVE  \E q \in Requests : SetPiholeStatus(q)
BY DEF Next, RequestStep, CheckInitialized, InsertUser, SetUserCreated, IssueSession,
       ValidateUser, Logout, Authenticate, Answer, ReadName, WriteName, ReadHash, WriteHash,
       ReadStatus, StatementFails, Clock, Purge, PurgeFails, Crash, tableVars, vars

RuleKept(r) ==
    ~req[r].stale =>
        /\ Leaves(r, "insert") /\ users' # users => users = <<>>
        /\ Leaves(r, "password") /\ users' # users
            => req[r].proof = users[req[r].user].hash
        /\ Leaves(r, "status") /\ piholeStatus' # piholeStatus =>
            /\ piholeStatus' # "UNINITIALIZED"
            /\ piholeStatus # "ADDED"

LEMMA RulesStep ==
    ASSUME IInv, [Next]_vars, NEW r \in Requests
    PROVE  RuleKept(r)
<1>1. Sound(req[r], users, piholeStatus)
    BY Parts
<1>2. ASSUME ~req[r].stale, Leaves(r, "status"), piholeStatus' # piholeStatus
      PROVE  piholeStatus' # "UNINITIALIZED" /\ piholeStatus # "ADDED"
    <2>1. PICK q \in Requests : SetPiholeStatus(q)
        BY <1>2, StatusWriter
    <2>2. q = r
        BY <1>2, <2>1, OneMoves DEF Leaves, At, RequestStep
    <2>3. piholeStatus' = req[r].given /\ req[r].at = "status"
        BY <2>1, <2>2 DEF SetPiholeStatus, At
    <2> QED BY <1>1, <1>2, <2>3 DEF Sound, Statuses
<1> QED BY <1>1, <1>2 DEF RuleKept, Sound, Leaves, At

EndsForGood(s) ==
    /\ Valid(s)' => Valid(s) /\ owner'[s] = owner[s]
    /\ Valid(s) /\ ~Valid(s)' =>
        \/ s <= lapsed'
        \/ \E r \in Requests : Logout(r, s)
        \/ backend = "memory" /\ Crash

LEMMA SessionsStep ==
    ASSUME IInv, [Next]_vars, NEW s \in Issued
    PROVE  EndsForGood(s)
<1>0. s \in 1..Len(owner) /\ s \in Nat /\ lapsed \in Nat /\ doomed \subseteq 1..lapsed
      /\ Len(owner) \in Nat
    BY Parts DEF SessionsTypeOK
<1>1. CASE UNCHANGED sessionVars
    BY <1>1 DEF sessionVars, EndsForGood, Valid
<1>2. ASSUME NEW u \in Nat, CreateSession(u) PROVE EndsForGood(s)
    <2>1. owner'[s] = owner[s]
        BY <1>0, <1>2, Parts DEF CreateSession
    <2>2. s \in stored' <=> s \in stored
        BY <1>0, <1>2 DEF CreateSession
    <2> QED BY <1>2, <2>1, <2>2 DEF CreateSession, EndsForGood, Valid
<1>3. ASSUME NEW r \in Requests, NEW x \in Issued, Logout(r, x) PROVE EndsForGood(s)
    <2>1. stored' = stored \ {x} /\ lapsed' = lapsed /\ owner' = owner
        BY <1>3 DEF Logout, DestroySession
    <2>2. CASE s = x
        BY <1>3, <2>1, <2>2 DEF EndsForGood, Valid
    <2>3. CASE s # x
        BY <2>1, <2>3 DEF EndsForGood, Valid
    <2> QED BY <2>2, <2>3
<1>4. CASE Lapse
    BY <1>0, <1>4 DEF Lapse, EndsForGood, Valid
<1>5. CASE PurgeTick
    BY <1>5 DEF PurgeTick, EndsForGood, Valid
<1>6. ASSUME NEW x \in doomed, PurgeDelete(x) \/ PurgeSkip(x) PROVE EndsForGood(s)
    <2>1. x <= lapsed /\ x \in Nat
        BY <1>0
    <2> QED BY <1>0, <1>6, <2>1 DEF PurgeDelete, PurgeSkip, EndsForGood, Valid
<1>7. CASE Crash
    BY <1>7 DEF Crash, SessionsRestart, EndsForGood, Valid
<1>8. ASSUME NEW r \in Requests, RequestStep(r) PROVE EndsForGood(s)
    <2>1. CASE \E x \in Issued : Logout(r, x)
        BY <1>3, <2>1
    <2>2. CASE CreateSession(req[r].user)
        <3>1. req[r].user \in Nat
            BY Parts DEF Slot
        <3> QED BY <1>2, <2>2, <3>1
    <2>3. CASE ~(\E x \in Issued : Logout(r, x)) /\ ~CreateSession(req[r].user)
        <3>1. UNCHANGED sessionVars
            BY <1>8, <2>3 DEF RequestStep, CheckInitialized, InsertUser, SetUserCreated,
                IssueSession, ValidateUser, Authenticate, Answer, ReadName, WriteName,
                ReadHash, WriteHash, ReadStatus, SetPiholeStatus, StatementFails
        <3> QED BY <1>1, <3>1
    <2> QED BY <2>1, <2>2, <2>3
<1>9. CASE UNCHANGED vars
    BY <1>1, <1>9 DEF vars, sessionVars
<1> QED BY <1>4, <1>5, <1>6, <1>7, <1>8, <1>9 DEF Next, Clock, Purge, PurgeFails

-----------------------------------------------------------------------------

\* Accounts are well formed (UserStore, SessionStorage): every stored session
\* is that of an account that exists, and overlapping setup requests add one
\* row each at most, whatever fails between the INSERT of the user and that of
\* its session.
THEOREM SessionsHaveUsers == Spec => []AccountsSafe
BY Inductive, GivenInductive, InvIsSafe, PTL

\* CreateUser: once there is an account the setup says so, unless one of its
\* statements is just being run or has failed.
THEOREM SetupNoticesUser == Spec => []FlagFollowsUser
<1>1. IInv => FlagFollowsUser
    BY DEF IInv
<1> QED BY <1>1, Inductive, PTL

\* What the services check before they write (IsInitialized, UpdatePassword,
\* SetPiholeStatus) still holds at the write of every request that no other
\* one overtook.
THEOREM ChecksHoldAtWrite == Spec => RulesHoldAtWrite
<1>1. IInv /\ [Next]_vars => [\A r \in Requests : RuleKept(r)]_vars
    BY RulesStep
<1> QED BY <1>1, Inductive, PTL DEF Spec, RulesHoldAtWrite, RuleKept

\* SessionManager: nobody is logged out but by expiry, a logout or, with the
\* sessions in memory, a restart, and nobody is logged back in.
THEOREM NobodyComesBack == Spec => SessionsEndForGood
<1>1. IInv /\ [Next]_vars => [\A s \in Issued : EndsForGood(s)]_vars
    BY SessionsStep
<1> QED BY <1>1, Inductive, PTL DEF Spec, SessionsEndForGood, EndsForGood

\* CreateUser, UpdateUser, UpdatePassword and ValidateUser: the name and the
\* password an account was last given open it and no other, unless one of them
\* has blanks at an end, which are not treated alike where it is stored and
\* where it is compared, or the name is a rename's and has capitals.
THEOREM OpensWithWhatWasGiven == Spec => []OpensAsGiven
BY Inductive, GivenInductive, GivenOpens, PTL

=============================================================================
