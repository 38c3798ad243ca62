------------------------------ MODULE Sessions ------------------------------
(***************************************************************************)
(* Login sessions: the SessionManager over its memory or its SQLite        *)
(* storage, and the loop that purges expired sessions.                     *)
(*                                                                         *)
(* A session id is 32 random bytes, so an id is never issued twice:        *)
(* sessions are numbered in the order they are created.  They all have the *)
(* same TTL and are never extended, so they expire in that order, and      *)
(* "lapsed" says how far the clock has come.  Both storages hold one lock  *)
(* over each call, so a storage call is one step.                          *)
(***************************************************************************)
EXTENDS Integers, Sequences

CONSTANT MaxSessions    \* bound on the sessions ever created

ASSUME SessionsAssumption == MaxSessions \in Nat

VARIABLES
    backend,    \* "memory" or "sqlite": the configured storage
    owner,      \* owner[s] is the user session s was created for
    stored,     \* the sessions in the storage
    lapsed,     \* sessions 1..lapsed are past their ExpiresAt
    doomed      \* the expired sessions a running purge has yet to delete

sessionVars == <<backend, owner, stored, lapsed, doomed>>

Issued == 1..Len(owner)

SessionsInit ==
    /\ backend \in {"memory", "sqlite"}
    /\ owner = <<>>
    /\ stored = {}
    /\ lapsed = 0
    /\ doomed = {}

SessionsTypeOK ==
    /\ backend \in {"memory", "sqlite"}
    /\ owner \in Seq(Nat)
    /\ Len(owner) <= MaxSessions
    /\ stored \subseteq Issued
    /\ lapsed \in 0..Len(owner)
    /\ doomed \subseteq 1..lapsed

-----------------------------------------------------------------------------
\* GetUserId finds an owner: the session is stored and has not expired.
Valid(s) == s \in stored /\ s > lapsed

\* CreateSession for user u.
CreateSession(u) ==
    /\ owner' = Append(owner, u)
    /\ stored' = stored \cup {Len(owner) + 1}
    /\ UNCHANGED <<backend, lapsed, doomed>>

\* DestroySession: deleting a session that is not stored is no error.
DestroySession(s) ==
    /\ stored' = stored \ {s}
    /\ UNCHANGED <<backend, owner, lapsed, doomed>>

\* The clock passes the ExpiresAt of the oldest session that has not lapsed.
Lapse ==
    /\ lapsed < Len(owner)
    /\ lapsed' = lapsed + 1
    /\ UNCHANGED <<backend, owner, stored, doomed>>

ExpiredOfReversed(all) == {s \in all : s > lapsed}

ExpiredOfLatest(all) == all \cap {lapsed}

\* The sessions of a list whose ExpiresAt the clock has passed.
ExpiredOf(all) == {s \in all : s <= lapsed}

\* The ticker of the purge loop: read the clock, then every stored session.
\* A session that lapses between the two reads waits for the next tick.
PurgeTick ==
    /\ doomed = {}
    /\ doomed' = ExpiredOf(stored)
    /\ UNCHANGED <<backend, owner, stored, lapsed>>

\* The purge deletes the expired sessions it read, one call each.
PurgeDelete(s) ==
    /\ s \in doomed
    /\ doomed' = doomed \ {s}
    /\ stored' = stored \ {s}
    /\ UNCHANGED <<backend, owner, lapsed>>

\* A failing delete is logged and the purge goes on to the next session.
PurgeSkip(s) ==
    /\ backend = "sqlite"
    /\ s \in doomed
    /\ doomed' = doomed \ {s}
    /\ UNCHANGED <<backend, owner, stored, lapsed>>

\* A new process: sessions in memory are gone, rows of the database stay.
SessionsRestart ==
    /\ stored' = IF backend = "memory" THEN {} ELSE stored
    /\ doomed' = {}
    /\ UNCHANGED <<backend, owner, lapsed>>
=============================================================================
