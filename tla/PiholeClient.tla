---------------------------- MODULE PiholeClient ----------------------------
(***************************************************************************)
(* The client of one Pi-hole: a session id it obtains with a login and     *)
(* shares among all calls, and calls that each check the session, log in   *)
(* if they must, send their request and send it once more when the         *)
(* Pi-hole refuses it.  Session and configuration have a mutex each, held  *)
(* for single reads and writes only, so calls interleave everywhere else,  *)
(* and with UpdateClient.                                                  *)
(*                                                                         *)
(* Pi-holes are external.  One accepts a password, which is its own, and   *)
(* requests with a session it has open.  It may drop any session at any    *)
(* time (a restart, an eviction).  It lets a session expire only after the *)
(* client counts it as expired and the calls that found it usable are      *)
(* over: the client's leeway is 5 s, forEachClient gives a call 3 s.       *)
(* The calls here are commands (AddDomainRule, RemoveDomainRule); reads    *)
(* take the same way through doRequest.  Logout is left out: of a client   *)
(* in the cluster no code calls it.                                        *)
(***************************************************************************)
EXTENDS Integers

CONSTANTS
    Calls,          \* calls of the client's methods, each made once
    Hosts,          \* Pi-holes; the password of one is named like it
    First,          \* the Pi-hole the client is made for
    None,           \* no address, no password
    MaxDrops,       \* bound on the sessions dropped
    MaxUpdates      \* bound on the updates

ASSUME ClientAssumption ==
    /\ First \in Hosts /\ None \notin Hosts
    /\ MaxDrops \in Nat /\ MaxUpdates \in Nat

VARIABLES
    cfg,            \* Client.cfg: address and password
    session,        \* Client.session: SID, 0 for none, and whether ValidUntil
                    \* is more than the leeway ahead
    call,           \* the locals of each call, and how far it is
    wire,           \* the HTTP exchange of each call
    open,           \* sessions each Pi-hole has open
    issued,         \* number of sessions opened so far
    applied,        \* history: how often each command took effect
    drops,          \* number of sessions dropped
    updates         \* number of updates

vars == <<cfg, session, call, wire, open, issued, applied, drops, updates>>
external == <<open, issued, applied, drops>>

Configs == [addr : Hosts, password : Hosts]
NoSession == [sid |-> 0, usable |-> FALSE]
At(pc) == [pc |-> pc, addr |-> None, sid |-> 0, password |-> None, again |-> FALSE]
Silence == [state |-> "none", addr |-> None, sid |-> 0, password |-> None]

Init ==
    /\ cfg = [addr |-> First, password |-> First]
    /\ session = NoSession
    /\ call = [c \in Calls |-> At("idle")]
    /\ wire = [c \in Calls |-> Silence]
    /\ open = [h \in Hosts |-> {}]
    /\ issued = 0
    /\ applied = [c \in Calls |-> 0]
    /\ drops = 0
    /\ updates = 0

Goto(c, from, to) == call[c].pc = from /\ call' = [call EXCEPT ![c].pc = to]
Waiting(c) == call[c].pc \in {"auth", "wait"}

-----------------------------------------------------------------------------
(* The call.                                                               *)

\* The method builds its URL from the configuration and calls doRequest.
Start(c) ==
    /\ call[c].pc = "idle"
    /\ call' = [call EXCEPT ![c].pc = "ensure", ![c].addr = cfg.addr]
    /\ UNCHANGED <<cfg, session, wire, updates>> /\ UNCHANGED external

UsableUntilRefused == session.sid # 0

\* ensureSession: there is an SID and ValidUntil is beyond the leeway.
Usable == session.sid # 0 /\ session.usable

UseSession(c) ==
    /\ call[c].pc = "ensure"
    /\ Usable
    /\ call' = [call EXCEPT ![c].pc = "send", ![c].sid = session.sid]
    /\ UNCHANGED <<cfg, session, wire, updates>> /\ UNCHANGED external

\* Login, first critical section: the password.
ReadPassword(c) ==
    /\ call[c].pc = "ensure"
    /\ ~Usable
    /\ call' = [call EXCEPT ![c].pc = "login", ![c].password = cfg.password]
    /\ UNCHANGED <<cfg, session, wire, updates>> /\ UNCHANGED external

\* Login, second critical section: the address; then the POST.
SendLogin(c) ==
    /\ Goto(c, "login", "auth")
    /\ wire' = [wire EXCEPT ![c] = [state |-> "login", addr |-> cfg.addr, sid |-> 0,
                                    password |-> call[c].password]]
    /\ UNCHANGED <<cfg, session, updates>> /\ UNCHANGED external

\* The answer to the login brings a valid session, which Login stores, ...
StoreSession(c) ==
    /\ Goto(c, "auth", "reread")
    /\ wire[c].state = "session" /\ wire[c].sid # 0
    /\ session' = [sid |-> wire[c].sid, usable |-> TRUE]
    /\ wire' = [wire EXCEPT ![c] = Silence]
    /\ UNCHANGED <<cfg, updates>> /\ UNCHANGED external

\* ... and ensureSession reads what is stored by then.
RereadSession(c) ==
    /\ call[c].pc = "reread"
    /\ call' = [call EXCEPT ![c].pc = "send", ![c].sid = session.sid]
    /\ UNCHANGED <<cfg, session, wire, updates>> /\ UNCHANGED external

Send(c) ==
    /\ Goto(c, "send", "wait")
    /\ wire' = [wire EXCEPT ![c] =
                    [state |-> "request", addr |-> call[c].addr, sid |-> call[c].sid,
                     password |-> None]]
    /\ UNCHANGED <<cfg, session, updates>> /\ UNCHANGED external

Return(c, outcome) ==
    /\ call' = [call EXCEPT ![c] = At(outcome)]
    /\ UNCHANGED <<cfg, session, updates>> /\ UNCHANGED external

\* The status the method expects.
Succeed(c) ==
    /\ call[c].pc = "wait" /\ wire[c].state = "done"
    /\ wire' = [wire EXCEPT ![c] = Silence]
    /\ Return(c, "ok")

MayRetryAlways(c) == TRUE

\* doRequest sends a request at most twice.
MayRetry(c) == ~call[c].again

\* 401 or 403: through ensureSession once more, which keeps a usable session.
Retry(c) ==
    /\ call[c].pc = "wait" /\ wire[c].state = "refused"
    /\ MayRetry(c)
    /\ wire' = [wire EXCEPT ![c] = Silence]
    /\ call' = [call EXCEPT ![c].pc = "ensure", ![c].sid = 0,
                             ![c].password = None, ![c].again = TRUE]
    /\ UNCHANGED <<cfg, session, updates>> /\ UNCHANGED external

\* Any other answer, a refused login or an invalid session, the second refusal.
Fail(c) ==
    /\ Waiting(c)
    /\ \/ wire[c].state = "error"
       \/ wire[c].state = "session" /\ wire[c].sid = 0
       \/ wire[c].state = "refused" /\ (call[c].pc = "auth" \/ ~MayRetry(c))
    /\ wire' = [wire EXCEPT ![c] = Silence]
    /\ Return(c, "failed")

GiveUpRetries(c) ==
    /\ Waiting(c) /\ wire[c].state \in {"login", "request"}
    /\ UNCHANGED <<cfg, session, wire, updates>> /\ UNCHANGED external
    /\ call' = [call EXCEPT ![c].pc = IF MayRetry(c) THEN "ensure" ELSE "failed",
                             ![c].again = TRUE]

\* No answer in time, or a broken connection: what was sent stays on the wire,
\* and the Pi-hole may still handle it.
GiveUp(c) ==
    /\ Waiting(c) /\ wire[c].state \in {"login", "request"}
    /\ UNCHANGED wire
    /\ Return(c, "failed")

-----------------------------------------------------------------------------
(* Client.Update, the clock, and the Pi-holes.                             *)

\* An update to another Pi-hole, with its password.  The session is kept.
Update ==
    /\ updates < MaxUpdates
    /\ \E h \in Hosts \ {cfg.addr} : cfg' = [addr |-> h, password |-> h]
    /\ updates' = updates + 1
    /\ UNCHANGED <<session, call, wire>> /\ UNCHANGED external

\* ValidUntil comes within the leeway.
Lapse ==
    /\ session.usable
    /\ session' = [session EXCEPT !.usable = FALSE]
    /\ UNCHANGED <<cfg, call, wire, updates>> /\ UNCHANGED external

\* An answer reaches the call, unless the call has given up.
Answer(c, state, sid) ==
    wire' = [wire EXCEPT ![c] =
                IF Waiting(c) THEN [@ EXCEPT !.state = state, !.sid = sid] ELSE Silence]

\* A Pi-hole handles a login, maybe one that no one waits for any more.
ServeLogin(c) ==
    /\ wire[c].state = "login"
    /\ LET h == wire[c].addr
       IN IF wire[c].password = h
          THEN /\ issued' = issued + 1
               /\ open' = [open EXCEPT ![h] = @ \cup {issued + 1}]
               /\ Answer(c, "session", issued + 1)
          ELSE /\ Answer(c, "refused", 0)
               /\ UNCHANGED <<open, issued>>
    /\ UNCHANGED <<cfg, session, call, applied, drops, updates>>

\* A Pi-hole handles a request.
ServeRequest(c) ==
    /\ wire[c].state = "request"
    /\ IF wire[c].sid \in open[wire[c].addr]
       THEN /\ applied' = [applied EXCEPT ![c] = @ + 1]
            /\ Answer(c, "done", 0)
       ELSE /\ Answer(c, "refused", 0)
            /\ UNCHANGED applied
    /\ UNCHANGED <<cfg, session, call, open, issued, drops, updates>>

\* ... or has a problem of its own; "session" without an SID is an answer to a
\* login that holds no valid session.
ServeError(c) ==
    /\ \E answer \in {"error", "session"} :
        /\ \/ wire[c].state = "login"
           \/ wire[c].state = "request" /\ answer = "error"
        /\ Answer(c, answer, 0)
    /\ UNCHANGED <<cfg, session, call, updates>> /\ UNCHANGED external

Drop ==
    /\ drops < MaxDrops
    /\ \E h \in Hosts : \E s \in open[h] : open' = [open EXCEPT ![h] = @ \ {s}]
    /\ drops' = drops + 1
    /\ UNCHANGED <<cfg, session, call, wire, issued, applied, updates>>

\* Sessions that are not due to expire: the client counts it as usable, or a
\* call under way has it, or had it stored after it began.
InUse(s) ==
    \/ session.sid = s /\ session.usable
    \/ \E c \in Calls :
        \/ call[c].pc \in {"send", "wait"} /\ call[c].sid = s
        \/ call[c].pc = "auth" /\ wire[c].sid = s
        \/ call[c].pc = "reread" /\ session.sid = s

\* The stored session expires; of another one nobody would notice.
Expire ==
    /\ ~InUse(session.sid)
    /\ \E h \in Hosts :
        /\ session.sid \in open[h]
        /\ open' = [open EXCEPT ![h] = @ \ {session.sid}]
    /\ UNCHANGED <<cfg, session, call, wire, issued, applied, drops, updates>>

-----------------------------------------------------------------------------

Step(c) ==
    \/ UseSession(c) \/ ReadPassword(c) \/ SendLogin(c) \/ StoreSession(c)
    \/ RereadSession(c) \/ Send(c) \/ Succeed(c) \/ Retry(c) \/ Fail(c)

Environment ==
    \/ Update \/ Lapse \/ Drop \/ Expire
    \/ \E c \in Calls : ServeLogin(c) \/ ServeRequest(c) \/ ServeError(c)

Next ==
    \/ \E c \in Calls : Start(c) \/ Step(c) \/ GiveUp(c)
    \/ Environment

Spec == Init /\ [][Next]_vars

\* Goroutines run and requests time out; nothing is asked of the Pi-holes.
FairSpec == Spec /\ \A c \in Calls : WF_vars(Step(c) \/ GiveUp(c))

-----------------------------------------------------------------------------
(* Properties.                                                             *)

Sids == 0..issued

\* A session id is one a Pi-hole issued, and the session counts as usable only
\* when there is one.
TypeOK ==
    /\ cfg \in Configs
    /\ session \in [sid : Sids, usable : BOOLEAN]
    /\ session.usable => session.sid # 0
    /\ call \in [Calls -> [pc : {"idle", "ensure", "login", "auth", "reread", "send",
                                 "wait", "ok", "failed"},
                           addr : Hosts \cup {None}, sid : Sids,
                           password : Hosts \cup {None}, again : BOOLEAN]]
    /\ wire \in [Calls -> [state : {"none", "login", "session", "request", "done",
                                    "refused", "error"},
                           addr : Hosts \cup {None}, sid : Sids,
                           password : Hosts \cup {None}]]
    /\ open \in [Hosts -> SUBSET (1..issued)]
    /\ issued \in Nat
    /\ applied \in [Calls -> Nat]
    /\ drops \in 0..MaxDrops
    /\ updates \in 0..MaxUpdates

\* As long as no Pi-hole drops a session and the client is not updated, no
\* request is refused: sessions that calls share are shared correctly, whoever
\* logs in at the same time, and are renewed before they expire.
NoGroundlessRefusal ==
    drops = 0 /\ updates = 0 =>
        \A c \in Calls : wire[c].state = "refused" /\ Waiting(c) => call[c].pc = "auth"

\* The shared session is one that was issued and, undisturbed, never refused.
ClientSafe == TypeOK /\ NoGroundlessRefusal

\* Every call returns, whatever the Pi-hole answers, or if it does not.
CallReturns == \A c \in Calls : call[c].pc = "ensure" ~> call[c].pc \in {"ok", "failed"}

\* A call is what the cluster takes it to be: retries never make a command
\* take effect twice, and success is reported only when it took effect.
Status ==
    [c \in Calls |->
        CASE call[c].pc = "idle" -> "idle"
          [] call[c].pc = "ok" -> "succeeded"
          [] call[c].pc = "failed" -> "failed"
          [] OTHER -> "running"]

Node == INSTANCE NodeCall WITH status <- Status

ImplementsNodeCall == Node!Spec
=============================================================================
