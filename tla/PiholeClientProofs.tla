------------------------- MODULE PiholeClientProofs -------------------------
(***************************************************************************)
(* The client of one Pi-hole, for any number of calls, Pi-holes, dropped   *)
(* sessions and updates: an undisturbed client is never refused, and its   *)
(* calls implement NodeCall.                                               *)
(***************************************************************************)
EXTENDS PiholeClient, TLAPS

CallRecord ==
    [pc : {"idle", "ensure", "login", "auth", "reread", "send", "wait", "ok", "failed"},
     addr : Hosts \cup {None}, sid : Sids, password : Hosts \cup {None}, again : BOOLEAN]
WireRecord ==
    [state : {"none", "login", "session", "request", "done", "refused", "error"},
     addr : Hosts \cup {None}, sid : Sids, password : Hosts \cup {None}]

(***************************************************************************)
(* How a call, its exchange and the effect of its command go together.  A  *)
(* command that has taken effect is on its way to "ok", or its call has    *)
(* given up; whatever may still take effect has not done so.               *)
(***************************************************************************)
Stage(pc, state, times) ==
    \/ pc \in {"idle", "ensure", "login", "reread", "send"} /\ state = "none" /\ times = 0
    \/ pc = "auth" /\ state \in {"login", "session", "refused", "error"} /\ times = 0
    \/ pc = "wait" /\ state \in {"request", "refused", "error"} /\ times = 0
    \/ pc = "wait" /\ state = "done" /\ times = 1
    \/ pc = "ok" /\ state = "none" /\ times = 1
    \/ pc = "failed" /\ state \in {"none", "login"} /\ times \in {0, 1}
    \/ pc = "failed" /\ state = "request" /\ times = 0

Stages == \A c \in Calls : Stage(call[c].pc, wire[c].state, applied[c])

\* All the session ids anyone is about to send are open at the one Pi-hole.
Undisturbed ==
    /\ cfg.addr = First
    /\ session.usable => session.sid \in open[First]
    /\ \A c \in Calls :
        /\ call[c].pc \in {"ensure", "login", "auth", "reread", "send", "wait"}
            => call[c].addr = First
        /\ call[c].pc = "reread" => session.sid \in open[First]
        /\ call[c].pc \in {"send", "wait"} => call[c].sid \in open[First]
        /\ call[c].pc = "auth" /\ wire[c].state = "login" => wire[c].addr = First
        /\ call[c].pc = "auth" /\ wire[c].state = "session" /\ wire[c].sid # 0
            => wire[c].sid \in open[First]
        /\ call[c].pc = "wait" /\ wire[c].state = "request"
            => wire[c].addr = First /\ wire[c].sid = call[c].sid
        /\ call[c].pc = "wait" => wire[c].state # "refused"

IInv == TypeOK /\ Stages /\ (drops = 0 /\ updates = 0 => Undisturbed)

USE ClientAssumption

-----------------------------------------------------------------------------
(* What each step does to the stages.                                      *)

LEMMA CallTypes ==
    ASSUME TypeOK, NEW c \in Calls
    PROVE  /\ call[c] \in CallRecord /\ wire[c] \in WireRecord
           /\ call \in [Calls -> CallRecord] /\ wire \in [Calls -> WireRecord]
           /\ call[c].sid \in Sids /\ wire[c].sid \in Sids /\ session.sid \in Sids
           /\ issued \in Nat
BY DEF TypeOK, CallRecord, WireRecord

\* A step of one call leaves the stages of the others alone.
LEMMA OneStage ==
    ASSUME Stages, NEW c \in Calls,
           \A d \in Calls \ {c} : call'[d].pc = call[d].pc
                                  /\ wire'[d].state = wire[d].state
                                  /\ applied'[d] = applied[d],
           Stage(call'[c].pc, wire'[c].state, applied'[c])
    PROVE  Stages'
BY DEF Stages

Silent(c) == call[c].pc \in {"idle", "ensure", "login", "reread", "send"}

LEMMA StageFacts ==
    ASSUME Stages, NEW c \in Calls
    PROVE  /\ applied[c] \in {0, 1}
           /\ Silent(c) => wire[c].state = "none" /\ applied[c] = 0
           /\ call[c].pc = "auth" => applied[c] = 0
                /\ wire[c].state \in {"login", "session", "refused", "error"}
           /\ call[c].pc = "wait" =>
                wire[c].state \in {"request", "done", "refused", "error"}
           /\ wire[c].state = "request" => applied[c] = 0 /\ call[c].pc \in {"wait", "failed"}
           /\ wire[c].state = "login" => call[c].pc \in {"auth", "failed"}
           /\ wire[c].state = "done" => applied[c] = 1
           /\ call[c].pc = "wait" /\ wire[c].state # "done" => applied[c] = 0
BY DEF Stages, Stage, Silent

-----------------------------------------------------------------------------
(* The type invariant.                                                     *)

LEMMA AnswerType ==
    ASSUME TypeOK, NEW c \in Calls, NEW state, NEW sid, Answer(c, state, sid),
           state \in {"session", "done", "refused", "error"}, sid \in Sids'
    PROVE  /\ wire' \in [Calls -> [state : {"none", "login", "session", "request", "done",
                                            "refused", "error"},
                                   addr : Hosts \cup {None}, sid : Sids \cup Sids',
                                   password : Hosts \cup {None}]]
           /\ wire'[c] = IF Waiting(c) THEN [wire[c] EXCEPT !.state = state, !.sid = sid]
                         ELSE Silence
           /\ Waiting(c) => wire'[c].state = state /\ wire'[c].sid = sid
                            /\ wire'[c].addr = wire[c].addr
           /\ ~Waiting(c) => wire'[c].state = "none"
           /\ \A d \in Calls \ {c} : wire'[d] = wire[d]
<1>1. wire[c] \in WireRecord /\ wire \in [Calls -> WireRecord]
    BY CallTypes
<1>2. wire'[c] = IF Waiting(c) THEN [wire[c] EXCEPT !.state = state, !.sid = sid]
                 ELSE Silence
    BY <1>1 DEF Answer
<1>3. 0 \in Sids
    BY DEF Sids, TypeOK
<1> QED BY <1>1, <1>2, <1>3 DEF Answer, Silence, WireRecord

LEMMA TypeInit == Init => TypeOK
BY DEF Init, TypeOK, At, Silence, NoSession, Configs, Sids

\* The Pi-holes stay as they are.
LEMMA LocalType ==
    ASSUME TypeOK, UNCHANGED external,
           call' \in [Calls -> CallRecord], wire' \in [Calls -> WireRecord],
           session' \in [sid : Sids, usable : BOOLEAN],
           session'.usable => session'.sid # 0,
           cfg' \in Configs, updates' \in 0..MaxUpdates
    PROVE  TypeOK'
BY DEF TypeOK, external, CallRecord, WireRecord, Sids

LEMMA CallFields ==
    ASSUME TypeOK, NEW c \in Calls
    PROVE  /\ call[c].addr \in Hosts \cup {None} /\ call[c].password \in Hosts \cup {None}
           /\ wire[c].addr \in Hosts \cup {None} /\ 0 \in Sids
           /\ cfg.addr \in Hosts /\ cfg.password \in Hosts
           /\ Silence \in WireRecord /\ At("ok") \in CallRecord /\ At("failed") \in CallRecord
BY CallTypes DEF CallRecord, WireRecord, TypeOK, Configs, Sids, Silence, At

LEMMA TypeStep == TypeOK /\ [Next]_vars => TypeOK'
<1> SUFFICES ASSUME TypeOK, [Next]_vars PROVE TypeOK'
    OBVIOUS
<1>0. /\ call \in [Calls -> CallRecord] /\ wire \in [Calls -> WireRecord]
      /\ session \in [sid : Sids, usable : BOOLEAN] /\ session.sid \in Sids
      /\ session.usable => session.sid # 0
      /\ cfg \in Configs /\ updates \in 0..MaxUpdates
    BY DEF TypeOK, CallRecord, WireRecord
<1>1. ASSUME NEW c \in Calls, Start(c) PROVE TypeOK'
    <2>1. call' \in [Calls -> CallRecord]
        <3>1. call[c] \in CallRecord /\ cfg.addr \in Hosts \cup {None}
            BY <1>0, CallFields
        <3>2. call' = [call EXCEPT ![c] = [call[c] EXCEPT !.pc = "ensure", !.addr = cfg.addr]]
            BY <1>0, <1>1, <3>1 DEF Start
        <3>3. [call[c] EXCEPT !.pc = "ensure", !.addr = cfg.addr] \in CallRecord
            BY <3>1 DEF CallRecord
        <3> QED BY <1>0, <3>2, <3>3
    <2> QED BY <1>0, <1>1, <2>1, LocalType DEF Start
<1>2. ASSUME NEW c \in Calls, UseSession(c) \/ ReadPassword(c) \/ RereadSession(c)
      PROVE  TypeOK'
    <2>1. call' \in [Calls -> CallRecord]
        BY <1>0, <1>2, CallFields DEF UseSession, ReadPassword, RereadSession, CallRecord
    <2> QED BY <1>0, <1>2, <2>1, LocalType DEF UseSession, ReadPassword, RereadSession
<1>3. ASSUME NEW c \in Calls, SendLogin(c) \/ Send(c) PROVE TypeOK'
    <2>1. call' \in [Calls -> CallRecord]
        <3>1. call[c] \in CallRecord
            BY <1>0
        <3>2. /\ [call[c] EXCEPT !.pc = "auth"] \in CallRecord
              /\ [call[c] EXCEPT !.pc = "wait"] \in CallRecord
            BY <3>1 DEF CallRecord
        <3> QED BY <1>0, <1>3, <3>2 DEF SendLogin, Send, Goto
    <2>2. call[c].sid \in Sids
        BY CallTypes
    <2>3. wire' \in [Calls -> WireRecord]
        BY <1>0, <1>3, <2>2, CallFields DEF SendLogin, Send, WireRecord
    <2> QED BY <1>0, <1>3, <2>1, <2>3, LocalType DEF SendLogin, Send
<1>4. ASSUME NEW c \in Calls, StoreSession(c) PROVE TypeOK'
    <2>1. call' \in [Calls -> CallRecord]
        BY <1>0, <1>4 DEF StoreSession, Goto, CallRecord
    <2>2. wire' \in [Calls -> WireRecord]
        BY <1>0, <1>4, CallFields DEF StoreSession
    <2>3. session' \in [sid : Sids, usable : BOOLEAN] /\ session'.sid # 0
        BY <1>4, CallTypes DEF StoreSession
    <2> QED BY <1>0, <1>4, <2>1, <2>2, <2>3, LocalType DEF StoreSession
<1>5. ASSUME NEW c \in Calls, Succeed(c) \/ Fail(c) \/ GiveUp(c) PROVE TypeOK'
    <2>1. call' \in [Calls -> CallRecord] /\ wire' \in [Calls -> WireRecord]
        BY <1>0, <1>5, CallFields DEF Succeed, Fail, GiveUp, Return
    <2> QED BY <1>0, <1>5, <2>1, LocalType DEF Succeed, Fail, GiveUp, Return
<1>6. ASSUME NEW c \in Calls, Retry(c) PROVE TypeOK'
    <2>1. call' \in [Calls -> CallRecord]
        <3>1. call[c] \in CallRecord
            BY <1>0
        <3>2. [call[c] EXCEPT !.pc = "ensure", !.sid = 0, !.password = None, !.again = TRUE]
                \in CallRecord
            BY <3>1, CallFields DEF CallRecord
        <3>3. call' = [call EXCEPT ![c] = [call[c] EXCEPT !.pc = "ensure", !.sid = 0,
                                                  !.password = None, !.again = TRUE]]
            BY <1>0, <1>6, <3>1 DEF Retry
        <3> QED BY <1>0, <3>2, <3>3
    <2>2. wire' \in [Calls -> WireRecord]
        BY <1>0, <1>6, CallFields DEF Retry
    <2> QED BY <1>0, <1>6, <2>1, <2>2, LocalType DEF Retry
<1>7. ASSUME Update PROVE TypeOK'
    <2>1. cfg' \in Configs
        BY <1>7 DEF Update, Configs
    <2>2. updates' \in 0..MaxUpdates
        BY <1>0, <1>7 DEF Update
    <2> QED BY <1>0, <1>7, <2>1, <2>2, LocalType DEF Update
<1>8. ASSUME Lapse PROVE TypeOK'
    <2>1. session' \in [sid : Sids, usable : BOOLEAN] /\ ~session'.usable
        BY <1>0, <1>8 DEF Lapse
    <2> QED BY <1>0, <1>8, <2>1, LocalType DEF Lapse
<1> USE DEF Sids
<1>9. ASSUME NEW c \in Calls, ServeLogin(c) PROVE TypeOK'
    <2> DEFINE h == wire[c].addr
    <2>1. CASE wire[c].password = h
        <3>1. issued' = issued + 1 /\ open' = [open EXCEPT ![h] = @ \cup {issued + 1}]
              /\ Answer(c, "session", issued + 1)
            BY <1>9, <2>1 DEF ServeLogin
        <3>2. issued' \in Nat /\ Sids \subseteq Sids' /\ issued + 1 \in Sids'
              /\ Sids \cup Sids' = Sids' /\ 1..issued \subseteq 1..issued'
              /\ issued + 1 \in 1..issued'
            BY <3>1 DEF TypeOK
        <3>3. wire' \in [Calls -> WireRecord]'
            BY <3>1, <3>2, AnswerType DEF WireRecord
        <3>4. open' \in [Hosts -> SUBSET (1..issued')]
            BY <3>1, <3>2 DEF TypeOK
        <3>5. UNCHANGED <<cfg, session, call, applied, drops, updates>>
            BY <1>9 DEF ServeLogin
        <3>6. session \in [sid : Sids', usable : BOOLEAN] /\ call \in [Calls -> CallRecord]'
            BY <3>2, <3>5, CallTypes DEF TypeOK, CallRecord
        <3> QED BY <3>2, <3>3, <3>4, <3>5, <3>6 DEF TypeOK, CallRecord, WireRecord
    <2>2. CASE wire[c].password # h
        <3>1. UNCHANGED <<open, issued, cfg, session, call, applied, drops, updates>>
              /\ Answer(c, "refused", 0) /\ 0 \in Sids'
            BY <1>9, <2>2 DEF ServeLogin, TypeOK
        <3>2. wire' \in [Calls -> WireRecord]
            BY <3>1, AnswerType DEF WireRecord
        <3> QED BY <3>1, <3>2 DEF TypeOK, WireRecord
    <2> QED BY <2>1, <2>2
<1>10. ASSUME NEW c \in Calls, ServeRequest(c) PROVE TypeOK'
    <2>1. UNCHANGED <<open, issued, cfg, session, call, drops, updates>>
          /\ (Answer(c, "refused", 0) \/ Answer(c, "done", 0)) /\ 0 \in Sids'
        BY <1>10 DEF ServeRequest, TypeOK
    <2>2. wire' \in [Calls -> WireRecord]
        BY <2>1, AnswerType DEF WireRecord
    <2>3. applied' \in [Calls -> Nat]
        BY <1>10 DEF ServeRequest, TypeOK
    <2> QED BY <2>1, <2>2, <2>3 DEF TypeOK, WireRecord
<1>11. ASSUME NEW c \in Calls, ServeError(c) PROVE TypeOK'
    <2>1. UNCHANGED <<open, issued, cfg, session, call, drops, updates, applied>>
          /\ (Answer(c, "error", 0) \/ Answer(c, "session", 0)) /\ 0 \in Sids'
        BY <1>11 DEF ServeError, TypeOK, external
    <2>2. wire' \in [Calls -> WireRecord]
        BY <2>1, AnswerType DEF WireRecord
    <2> QED BY <2>1, <2>2 DEF TypeOK, WireRecord
<1>12. ASSUME Drop \/ Expire PROVE TypeOK'
    <2>1. open' \in [Hosts -> SUBSET (1..issued)]
        BY <1>12 DEF Drop, Expire, TypeOK
    <2>2. drops' \in 0..MaxDrops
        BY <1>12 DEF Drop, Expire, TypeOK
    <2> QED BY <1>12, <2>1, <2>2 DEF Drop, Expire, TypeOK
<1>13. CASE UNCHANGED vars
    BY <1>13 DEF TypeOK, vars
<1> QED BY <1>1, <1>2, <1>3, <1>4, <1>5, <1>6, <1>7, <1>8, <1>9, <1>10, <1>11, <1>12,
           <1>13 DEF Next, Step, Environment

-----------------------------------------------------------------------------
(* Every step moves one call by one stage at most.                         *)

Name(pc) == IF pc = "idle" THEN "idle" ELSE IF pc = "ok" THEN "succeeded"
            ELSE IF pc = "failed" THEN "failed" ELSE "running"

Others(c) ==
    /\ \A d \in Calls \ {c} : call'[d] = call[d] /\ wire'[d] = wire[d]
    /\ applied' \in [Calls -> Nat]
    /\ \A d \in Calls \ {c} : applied'[d] = applied[d]

\* What a caller and the node see of a step of call c.
Seen(c) ==
    LET was == Name(call[c].pc)
        is == Name(call'[c].pc)
    IN \/ is = was /\ applied'[c] = applied[c]
       \/ was = "idle" /\ is = "running" /\ applied'[c] = applied[c]
       \/ was = "running" /\ is = "succeeded" /\ applied[c] = 1 /\ applied'[c] = 1
       \/ was = "running" /\ is = "failed" /\ applied'[c] = applied[c]
       \/ was = is /\ was \in {"running", "failed"} /\ applied[c] = 0 /\ applied'[c] = 1

Moves(c) ==
    /\ Others(c)
    /\ Stage(call'[c].pc, wire'[c].state, applied'[c])
    /\ Seen(c)

\* A call runs on, and nothing takes effect at the node.
LEMMA RunsOn ==
    ASSUME TypeOK, NEW c \in Calls, UNCHANGED applied,
           \A d \in Calls \ {c} : call'[d] = call[d] /\ wire'[d] = wire[d],
           Name(call[c].pc) = Name(call'[c].pc),
           Stage(call'[c].pc, wire'[c].state, applied[c])
    PROVE  Moves(c)
BY DEF Moves, Others, Seen, TypeOK

LEMMA CallMoves ==
    ASSUME TypeOK, Stages, NEW c \in Calls, Start(c) \/ Step(c) \/ GiveUp(c)
    PROVE  Moves(c)
<1>0. /\ call \in [Calls -> CallRecord] /\ wire \in [Calls -> WireRecord]
      /\ call[c] \in CallRecord /\ wire[c] \in WireRecord
      /\ applied \in [Calls -> Nat] /\ applied[c] \in {0, 1}
    BY CallTypes, StageFacts DEF TypeOK
<1>1. CASE Start(c)
    <2>1. call[c].pc = "idle" /\ call'[c].pc = "ensure" /\ wire'[c].state = "none"
          /\ applied'[c] = 0 /\ applied[c] = 0 /\ Others(c)
        BY <1>0, <1>1, StageFacts DEF Start, external, Silent, Others, CallRecord
    <2> QED BY <2>1 DEF Moves, Seen, Stage, Name
<1>2. CASE UseSession(c) \/ ReadPassword(c) \/ RereadSession(c)
    <2>1. /\ UNCHANGED <<applied, wire>> /\ Silent(c)
          /\ \A d \in Calls \ {c} : call'[d] = call[d]
          /\ call[c].pc \in {"ensure", "reread"} /\ call'[c].pc \in {"send", "login"}
        <3>1. CASE UseSession(c)
            BY <1>0, <3>1 DEF UseSession, external, Silent, CallRecord
        <3>2. CASE ReadPassword(c)
            BY <1>0, <3>2 DEF ReadPassword, external, Silent, CallRecord
        <3>3. CASE RereadSession(c)
            BY <1>0, <3>3 DEF RereadSession, external, Silent, CallRecord
        <3> QED BY <1>2, <3>1, <3>2, <3>3
    <2>2. wire[c].state = "none" /\ applied[c] = 0
        BY <2>1, StageFacts
    <2> QED BY <2>1, <2>2, RunsOn DEF Name, Stage
<1>3. CASE SendLogin(c) \/ Send(c)
    <2>1. /\ UNCHANGED applied /\ Silent(c)
          /\ \A d \in Calls \ {c} : call'[d] = call[d] /\ wire'[d] = wire[d]
          /\ call[c].pc \in {"login", "send"}
          /\ \/ call'[c].pc = "auth" /\ wire'[c].state = "login"
             \/ call'[c].pc = "wait" /\ wire'[c].state = "request"
        BY <1>0, <1>3 DEF SendLogin, Send, Goto, external, Silent, CallRecord
    <2>2. applied[c] = 0
        BY <2>1, StageFacts
    <2> QED BY <2>1, <2>2, RunsOn DEF Name, Stage
<1>4. CASE StoreSession(c)
    <2>1. /\ UNCHANGED applied
          /\ \A d \in Calls \ {c} : call'[d] = call[d] /\ wire'[d] = wire[d]
          /\ call[c].pc = "auth" /\ call'[c].pc = "reread" /\ wire'[c].state = "none"
        BY <1>0, <1>4 DEF StoreSession, Goto, external, Silence, CallRecord
    <2>2. applied[c] = 0
        BY <2>1, StageFacts
    <2> QED BY <2>1, <2>2, RunsOn DEF Name, Stage
<1>5. CASE Retry(c)
    <2>1. /\ UNCHANGED applied
          /\ \A d \in Calls \ {c} : call'[d] = call[d] /\ wire'[d] = wire[d]
          /\ call[c].pc = "wait" /\ wire[c].state = "refused"
          /\ call'[c].pc = "ensure" /\ wire'[c].state = "none"
        BY <1>0, <1>5 DEF Retry, external, Silence, CallRecord
    <2>2. applied[c] = 0
        BY <2>1, StageFacts
    <2> QED BY <2>1, <2>2, RunsOn DEF Name, Stage
<1>6. CASE Succeed(c)
    <2>1. /\ UNCHANGED applied
          /\ \A d \in Calls \ {c} : call'[d] = call[d] /\ wire'[d] = wire[d]
          /\ call[c].pc = "wait" /\ wire[c].state = "done"
          /\ call'[c].pc = "ok" /\ wire'[c].state = "none"
        BY <1>0, <1>6 DEF Succeed, Return, external, Silence, At
    <2>2. applied[c] = 1
        BY <2>1, StageFacts
    <2> QED BY <1>0, <2>1, <2>2 DEF Moves, Others, Seen, Stage, Name
<1>7. CASE Fail(c) \/ GiveUp(c)
    <2>1. /\ UNCHANGED applied
          /\ \A d \in Calls \ {c} : call'[d] = call[d] /\ wire'[d] = wire[d]
          /\ call[c].pc \in {"auth", "wait"} /\ call'[c].pc = "failed"
          /\ \/ wire'[c].state = "none"
             \/ wire'[c].state = wire[c].state /\ wire[c].state \in {"login", "request"}
        <3>1. CASE Fail(c)
            BY <1>0, <3>1 DEF Fail, Return, Waiting, external, Silence, At
        <3>2. CASE GiveUp(c)
            BY <1>0, <3>2 DEF GiveUp, Return, Waiting, external, At
        <3> QED BY <1>7, <3>1, <3>2
    <2>2. wire[c].state = "request" => applied[c] = 0
        BY StageFacts
    <2>3. Stage("failed", wire'[c].state, applied[c])
        BY <1>0, <2>1, <2>2 DEF Stage
    <2> QED BY <1>0, <2>1, <2>3 DEF Moves, Others, Seen, Name
<1> QED BY <1>1, <1>2, <1>3, <1>4, <1>5, <1>6, <1>7 DEF Step

LEMMA ServeMoves ==
    ASSUME TypeOK, Stages, NEW c \in Calls,
           ServeLogin(c) \/ ServeRequest(c) \/ ServeError(c)
    PROVE  Moves(c)
<1>0. /\ applied \in [Calls -> Nat] /\ applied[c] \in {0, 1} /\ 0 \in Sids'
      /\ issued + 1 \in 0..(issued + 1)
    <2>1. issued' = issued \/ issued' = issued + 1
        BY DEF ServeLogin, ServeRequest, ServeError, external
    <2> QED BY <2>1, StageFacts DEF TypeOK, Sids
<1>1. UNCHANGED call
    BY DEF ServeLogin, ServeRequest, ServeError
<1>2. ASSUME NEW state \in {"session", "done", "refused", "error"}, NEW sid \in Sids',
             Answer(c, state, sid)
      PROVE  /\ \A d \in Calls \ {c} : wire'[d] = wire[d]
             /\ Waiting(c) => wire'[c].state = state
             /\ ~Waiting(c) => wire'[c].state = "none"
    BY <1>2, AnswerType
<1>3. CASE ServeLogin(c)
    <2>1. wire[c].state = "login" /\ UNCHANGED applied
        BY <1>3 DEF ServeLogin
    <2>2. \/ Answer(c, "session", issued + 1) /\ issued + 1 \in Sids'
          \/ Answer(c, "refused", 0)
        BY <1>0, <1>3 DEF ServeLogin, Sids
    <2>3. /\ \A d \in Calls \ {c} : wire'[d] = wire[d]
          /\ Waiting(c) => wire'[c].state \in {"session", "refused"}
          /\ ~Waiting(c) => wire'[c].state = "none"
        BY <1>0, <1>2, <2>2
    <2>4. \/ call[c].pc = "auth" /\ applied[c] = 0
          \/ call[c].pc = "failed"
        BY <2>1, StageFacts
    <2>5. Stage(call[c].pc, wire'[c].state, applied[c])
        BY <1>0, <2>3, <2>4 DEF Stage, Waiting
    <2> QED BY <1>1, <2>1, <2>3, <2>5, RunsOn
<1>4. CASE ServeError(c)
    <2>1. wire[c].state \in {"login", "request"} /\ UNCHANGED applied
          /\ \/ wire[c].state = "login" /\ Answer(c, "session", 0)
             \/ Answer(c, "error", 0)
        BY <1>4 DEF ServeError, external
    <2>2. /\ \A d \in Calls \ {c} : wire'[d] = wire[d]
          /\ Waiting(c) => \/ wire'[c].state = "error"
                           \/ wire[c].state = "login" /\ wire'[c].state = "session"
          /\ ~Waiting(c) => wire'[c].state = "none"
        BY <1>0, <1>2, <2>1
    <2>3. \/ call[c].pc \in {"auth", "wait"} /\ applied[c] = 0
          \/ call[c].pc = "failed"
        BY <2>1, StageFacts
    <2>4. wire[c].state = "login" => call[c].pc # "wait"
        BY StageFacts
    <2>5. Stage(call[c].pc, wire'[c].state, applied[c])
        BY <1>0, <2>2, <2>3, <2>4 DEF Stage, Waiting
    <2> QED BY <1>1, <2>1, <2>2, <2>5, RunsOn
<1>5. CASE ServeRequest(c)
    <2>1. wire[c].state = "request" /\ applied[c] = 0 /\ call[c].pc \in {"wait", "failed"}
        BY <1>5, StageFacts DEF ServeRequest
    <2>2. CASE Answer(c, "done", 0) /\ applied' = [applied EXCEPT ![c] = @ + 1]
        <3>1. /\ \A d \in Calls \ {c} : wire'[d] = wire[d]
              /\ Waiting(c) => wire'[c].state = "done"
              /\ ~Waiting(c) => wire'[c].state = "none"
            BY <1>0, <1>2, <2>2
        <3>2. applied'[c] = 1 /\ Others(c)
            BY <1>0, <1>1, <2>1, <2>2, <3>1 DEF Others
        <3>3. Stage(call[c].pc, wire'[c].state, 1)
            BY <2>1, <3>1 DEF Stage, Waiting
        <3>4. Seen(c)
            BY <1>1, <2>1, <3>2 DEF Seen, Name
        <3> QED BY <1>1, <3>2, <3>3, <3>4 DEF Moves
    <2>3. CASE Answer(c, "refused", 0) /\ UNCHANGED applied
        <3>1. /\ \A d \in Calls \ {c} : wire'[d] = wire[d]
              /\ Waiting(c) => wire'[c].state = "refused"
              /\ ~Waiting(c) => wire'[c].state = "none"
            BY <1>0, <1>2, <2>3
        <3>2. Stage(call[c].pc, wire'[c].state, applied[c])
            BY <2>1, <3>1 DEF Stage, Waiting
        <3> QED BY <1>1, <2>3, <3>1, <3>2, RunsOn
    <2> QED BY <1>5, <2>2, <2>3 DEF ServeRequest
<1> QED BY <1>3, <1>4, <1>5

LEMMA NextMoves ==
    ASSUME TypeOK, Stages, [Next]_vars
    PROVE  UNCHANGED <<call, wire, applied>> \/ \E c \in Calls : Moves(c)
<1>1. ASSUME NEW c \in Calls, Start(c) \/ Step(c) \/ GiveUp(c)
      PROVE  \E d \in Calls : Moves(d)
    BY <1>1, CallMoves
<1>2. ASSUME NEW c \in Calls, ServeLogin(c) \/ ServeRequest(c) \/ ServeError(c)
      PROVE  \E d \in Calls : Moves(d)
    BY <1>2, ServeMoves
<1>3. CASE Update \/ Lapse \/ Drop \/ Expire
    BY <1>3 DEF Update, Lapse, Drop, Expire, external
<1>4. CASE UNCHANGED vars
    BY <1>4 DEF vars
<1> QED BY <1>1, <1>2, <1>3, <1>4 DEF Next, Environment

LEMMA StagesKept ==
    ASSUME TypeOK, Stages, [Next]_vars
    PROVE  Stages'
<1>1. CASE UNCHANGED <<call, wire, applied>>
    BY <1>1 DEF Stages
<1>2. ASSUME NEW c \in Calls, Moves(c)
      PROVE  Stages'
    BY <1>2, OneStage DEF Moves, Others
<1> QED BY <1>1, <1>2, NextMoves

-----------------------------------------------------------------------------
(* The refinement of NodeCall.                                             *)

LEMMA StatusIsName == Status = [c \in Calls |-> Name(call[c].pc)]
BY DEF Status, Name

LEMMA MappedInit ==
    ASSUME Init
    PROVE  Node!Init
<1>1. \A c \in Calls : Name(call[c].pc) = "idle"
    BY DEF Init, At, Name
<1> QED BY <1>1, StatusIsName DEF Init, Node!Init

LEMMA MappedStep ==
    ASSUME TypeOK, Stages, [Next]_vars
    PROVE  [Node!Next]_<<Status, applied>>
<1>1. CASE UNCHANGED <<call, wire, applied>>
    BY <1>1 DEF Status
<1>2. ASSUME NEW c \in Calls, Moves(c)
      PROVE  [Node!Next]_<<Status, applied>>
    <2> DEFINE is == Name(call'[c].pc)
    <2>1. Status = [d \in Calls |-> Name(call[d].pc)]
          /\ Status' = [d \in Calls |-> Name(call'[d].pc)]
        BY DEF Status, Name
    <2>2. Status' = [Status EXCEPT ![c] = is]
        BY <1>2, <2>1 DEF Moves, Others
    <2>3. applied \in [Calls -> Nat] /\ applied' = [applied EXCEPT ![c] = applied'[c]]
        BY <1>2 DEF Moves, Others, TypeOK
    <2>4. Status[c] = Name(call[c].pc)
        BY <2>1
    <2>5. applied'[c] = applied[c] => applied' = applied
        BY <2>3
    <2>6. is = Status[c] => Status' = Status
        BY <2>1, <2>2
    <2> HIDE DEF is
    <2>7. \/ is = Status[c] /\ applied'[c] = applied[c]
          \/ Status[c] = "idle" /\ is = "running" /\ applied'[c] = applied[c]
          \/ Status[c] = "running" /\ is = "succeeded" /\ applied[c] = 1 /\ applied'[c] = 1
          \/ Status[c] = "running" /\ is = "failed" /\ applied'[c] = applied[c]
          \/ Status[c] = is /\ is \in {"running", "failed"} /\ applied[c] = 0 /\ applied'[c] = 1
        BY <1>2, <2>4 DEF Moves, Seen, is
    <2>8. \/ UNCHANGED <<Status, applied>>
          \/ Node!Call(c) \/ Node!Succeed(c) \/ Node!Fail(c) \/ Node!Apply(c)
        BY <2>2, <2>3, <2>5, <2>6, <2>7
           DEF Node!Call, Node!Succeed, Node!Fail, Node!Apply, Node!Move
    <2> QED BY <2>8 DEF Node!Next
<1> QED BY <1>1, <1>2, NextMoves

-----------------------------------------------------------------------------
(* The undisturbed client.                                                 *)

\* One call's part of Undisturbed.
Calm(c) ==
    /\ call[c].pc \in {"ensure", "login", "auth", "reread", "send", "wait"}
        => call[c].addr = First
    /\ call[c].pc = "reread" => session.sid \in open[First]
    /\ call[c].pc \in {"send", "wait"} => call[c].sid \in open[First]
    /\ call[c].pc = "auth" /\ wire[c].state = "login" => wire[c].addr = First
    /\ call[c].pc = "auth" /\ wire[c].state = "session" /\ wire[c].sid # 0
        => wire[c].sid \in open[First]
    /\ call[c].pc = "wait" /\ wire[c].state = "request"
        => wire[c].addr = First /\ wire[c].sid = call[c].sid
    /\ call[c].pc = "wait" => wire[c].state # "refused"

LEMMA CalmAll ==
    Undisturbed <=> /\ cfg.addr = First
                    /\ session.usable => session.sid \in open[First]
                    /\ \A c \in Calls : Calm(c)
BY DEF Undisturbed, Calm

\* A step that touches one call only, and neither sessions nor addresses.
LEMMA CalmOthers ==
    ASSUME Undisturbed, NEW c \in Calls, UNCHANGED <<cfg, session>>,
           open[First] \subseteq open'[First],
           \A d \in Calls \ {c} : call'[d] = call[d] /\ wire'[d] = wire[d],
           Calm(c)'
    PROVE  Undisturbed'
<1>1. ASSUME NEW d \in Calls, d # c
      PROVE  Calm(d)'
    <2>1. Calm(d) /\ call'[d] = call[d] /\ wire'[d] = wire[d]
        BY <1>1, CalmAll
    <2> QED BY <2>1 DEF Calm
<1> QED BY <1>1, CalmAll DEF Undisturbed, Calm

LEMMA CallCalm ==
    ASSUME TypeOK, Stages, Undisturbed, NEW c \in Calls,
           Start(c) \/ Step(c) \/ GiveUp(c)
    PROVE  Undisturbed'
<1>0. /\ call \in [Calls -> CallRecord] /\ wire \in [Calls -> WireRecord]
      /\ call[c] \in CallRecord /\ wire[c] \in WireRecord
      /\ Calm(c) /\ cfg.addr = First
      /\ session.usable => session.sid \in open[First]
    BY CallTypes, CalmAll
<1>1. CASE Start(c)
    <2>1. /\ call'[c].pc = "ensure" /\ call'[c].addr = First
          /\ \A d \in Calls \ {c} : call'[d] = call[d]
        BY <1>0, <1>1 DEF Start, CallRecord
    <2>2. Calm(c)'
        BY <2>1 DEF Calm
    <2> QED BY <1>1, <2>1, <2>2, CalmOthers DEF Start, external
<1>2. CASE UseSession(c)
    <2>1. /\ call'[c].pc = "send" /\ call'[c].sid = session.sid
          /\ call'[c].addr = call[c].addr /\ call[c].pc = "ensure" /\ session.usable
          /\ \A d \in Calls \ {c} : call'[d] = call[d]
        BY <1>0, <1>2 DEF UseSession, Usable, CallRecord
    <2>2. Calm(c)'
        BY <1>0, <1>2, <2>1 DEF Calm, UseSession, external
    <2> QED BY <1>2, <2>1, <2>2, CalmOthers DEF UseSession, external
<1>3. CASE ReadPassword(c)
    <2>1. /\ call'[c].pc = "login" /\ call'[c].addr = call[c].addr /\ call[c].pc = "ensure"
          /\ \A d \in Calls \ {c} : call'[d] = call[d]
        BY <1>0, <1>3 DEF ReadPassword, CallRecord
    <2>2. Calm(c)'
        BY <1>0, <2>1 DEF Calm
    <2> QED BY <1>3, <2>1, <2>2, CalmOthers DEF ReadPassword, external
<1>4. CASE SendLogin(c)
    <2>1. /\ call'[c].pc = "auth" /\ call'[c].addr = call[c].addr /\ call[c].pc = "login"
          /\ wire'[c].state = "login" /\ wire'[c].addr = First
          /\ \A d \in Calls \ {c} : call'[d] = call[d] /\ wire'[d] = wire[d]
        BY <1>0, <1>4 DEF SendLogin, Goto, CallRecord
    <2>2. Calm(c)'
        BY <1>0, <2>1 DEF Calm
    <2> QED BY <1>4, <2>1, <2>2, CalmOthers DEF SendLogin, external
<1>5. CASE StoreSession(c)
    <2>1. /\ call'[c].pc = "reread" /\ call'[c].addr = call[c].addr /\ call[c].pc = "auth"
          /\ wire[c].state = "session" /\ wire[c].sid # 0
          /\ session' = [sid |-> wire[c].sid, usable |-> TRUE]
          /\ \A d \in Calls \ {c} : call'[d] = call[d] /\ wire'[d] = wire[d]
          /\ UNCHANGED <<cfg, open>>
        BY <1>0, <1>5 DEF StoreSession, Goto, CallRecord, external
    <2>2. session'.sid \in open'[First]
        BY <1>0, <2>1 DEF Calm
    <2>3. Calm(c)'
        BY <1>0, <2>1, <2>2 DEF Calm
    <2>4. ASSUME NEW d \in Calls, d # c
          PROVE  Calm(d)'
        <3>1. Calm(d) /\ call'[d] = call[d] /\ wire'[d] = wire[d]
            BY <2>1, <2>4, CalmAll
        <3> QED BY <2>1, <2>2, <3>1 DEF Calm
    <2> QED BY <1>0, <2>1, <2>2, <2>3, <2>4, CalmAll DEF Undisturbed, Calm
<1>6. CASE RereadSession(c)
    <2>1. /\ call'[c].pc = "send" /\ call'[c].sid = session.sid
          /\ call'[c].addr = call[c].addr /\ call[c].pc = "reread"
          /\ \A d \in Calls \ {c} : call'[d] = call[d]
        BY <1>0, <1>6 DEF RereadSession, CallRecord
    <2>2. Calm(c)'
        BY <1>0, <1>6, <2>1 DEF Calm, RereadSession, external
    <2> QED BY <1>6, <2>1, <2>2, CalmOthers DEF RereadSession, external
<1>7. CASE Send(c)
    <2>1. /\ call'[c].pc = "wait" /\ call'[c].sid = call[c].sid /\ call[c].pc = "send"
          /\ call'[c].addr = call[c].addr
          /\ wire'[c].state = "request" /\ wire'[c].addr = call[c].addr
          /\ wire'[c].sid = call[c].sid
          /\ \A d \in Calls \ {c} : call'[d] = call[d] /\ wire'[d] = wire[d]
          /\ UNCHANGED <<cfg, session, open>>
        BY <1>0, <1>7 DEF Send, Goto, CallRecord, external
    <2>2. Calm(c)'
        BY <1>0, <2>1 DEF Calm
    <2> QED BY <2>1, <2>2, CalmOthers
<1>8. CASE Retry(c)
    <2>1. call[c].pc = "wait" /\ wire[c].state = "refused"
        BY <1>8 DEF Retry
    <2> QED BY <1>0, <2>1 DEF Calm
<1>9. CASE Succeed(c) \/ Fail(c) \/ GiveUp(c)
    <2>1. /\ call'[c].pc \in {"ok", "failed"}
          /\ \A d \in Calls \ {c} : call'[d] = call[d] /\ wire'[d] = wire[d]
          /\ UNCHANGED <<cfg, session, open>>
        BY <1>0, <1>9 DEF Succeed, Fail, GiveUp, Return, external, At
    <2>2. Calm(c)'
        BY <2>1 DEF Calm
    <2> QED BY <2>1, <2>2, CalmOthers
<1> QED BY <1>1, <1>2, <1>3, <1>4, <1>5, <1>6, <1>7, <1>8, <1>9 DEF Step

LEMMA ServeCalm ==
    ASSUME TypeOK, Stages, Undisturbed, NEW c \in Calls,
           ServeLogin(c) \/ ServeRequest(c) \/ ServeError(c)
    PROVE  Undisturbed'
<1>0. /\ Calm(c) /\ 0 \in Sids' /\ call[c] \in CallRecord /\ wire[c] \in WireRecord
      /\ issued \in Nat /\ UNCHANGED <<cfg, session, call>>
      /\ open \in [Hosts -> SUBSET (1..issued)]
    <2>1. issued' = issued \/ issued' = issued + 1
        BY DEF ServeLogin, ServeRequest, ServeError, external
    <2>2. UNCHANGED <<cfg, session, call>>
        BY DEF ServeLogin, ServeRequest, ServeError
    <2> QED BY <2>1, <2>2, CallTypes, CalmAll DEF TypeOK, Sids
<1>1. ASSUME NEW state \in {"session", "done", "refused", "error"}, NEW sid \in Sids',
             Answer(c, state, sid)
      PROVE  /\ \A d \in Calls \ {c} : wire'[d] = wire[d]
             /\ Waiting(c) => wire'[c].state = state /\ wire'[c].sid = sid
             /\ ~Waiting(c) => wire'[c].state = "none"
    BY <1>1, AnswerType
<1>2. CASE ServeLogin(c)
    <2>1. wire[c].state = "login"
        BY <1>2 DEF ServeLogin
    <2>2. call[c].pc \in {"auth", "failed"} /\ (call[c].pc = "auth" => wire[c].addr = First)
        BY <1>0, <2>1, StageFacts DEF Calm
    <2>3. CASE wire[c].password = wire[c].addr
        <3>1. /\ Answer(c, "session", issued + 1) /\ issued' = issued + 1
              /\ open' = [open EXCEPT ![wire[c].addr] = @ \cup {issued + 1}]
            BY <1>2, <2>3 DEF ServeLogin
        <3>2. issued + 1 \in Sids'
            BY <1>0, <3>1 DEF Sids
        <3>3. /\ \A d \in Calls \ {c} : wire'[d] = wire[d]
              /\ Waiting(c) => wire'[c].state = "session" /\ wire'[c].sid = issued + 1
              /\ ~Waiting(c) => wire'[c].state = "none"
            BY <1>1, <3>1, <3>2
        <3>4. open[First] \subseteq open'[First]
              /\ (wire[c].addr = First => issued + 1 \in open'[First])
            BY <1>0, <3>1
        <3>5. Calm(c)'
            BY <1>0, <2>2, <3>3, <3>4 DEF Calm, Waiting
        <3> QED BY <1>0, <3>3, <3>4, <3>5, CalmOthers
    <2>4. CASE wire[c].password # wire[c].addr
        <3>1. Answer(c, "refused", 0) /\ open' = open
            BY <1>2, <2>4 DEF ServeLogin
        <3>2. /\ \A d \in Calls \ {c} : wire'[d] = wire[d]
              /\ wire'[c].state \in {"refused", "none"}
            BY <1>0, <1>1, <3>1
        <3>3. Calm(c)'
            BY <1>0, <2>2, <3>1, <3>2 DEF Calm
        <3> QED BY <1>0, <3>1, <3>2, <3>3, CalmOthers
    <2> QED BY <2>3, <2>4
<1>3. CASE ServeRequest(c)
    <2>1. wire[c].state = "request" /\ open' = open
        BY <1>3 DEF ServeRequest
    <2>2. call[c].pc \in {"wait", "failed"}
        BY <2>1, StageFacts
    <2>3. \/ Answer(c, "done", 0)
          \/ Answer(c, "refused", 0) /\ wire[c].sid \notin open[wire[c].addr]
        BY <1>3 DEF ServeRequest
    <2>4. call[c].pc = "wait" => wire[c].sid \in open[wire[c].addr]
        BY <1>0, <2>1 DEF Calm
    <2>5. /\ \A d \in Calls \ {c} : wire'[d] = wire[d]
          /\ call[c].pc = "wait" => wire'[c].state = "done"
        BY <1>0, <1>1, <2>3, <2>4 DEF Waiting
    <2>6. Calm(c)'
        BY <1>0, <2>1, <2>2, <2>5 DEF Calm
    <2> QED BY <1>0, <2>1, <2>5, <2>6, CalmOthers
<1>4. CASE ServeError(c)
    <2>1. /\ wire[c].state \in {"login", "request"} /\ open' = open
          /\ \/ wire[c].state = "login" /\ Answer(c, "session", 0)
             \/ Answer(c, "error", 0)
        BY <1>4 DEF ServeError, external
    <2>2. call[c].pc \in {"auth", "wait", "failed"}
        BY <2>1, StageFacts
    <2>3. /\ \A d \in Calls \ {c} : wire'[d] = wire[d]
          /\ Waiting(c) => wire'[c].state \in {"error", "session"} /\ wire'[c].sid = 0
        BY <1>0, <1>1, <2>1
    <2>4. Calm(c)'
        BY <1>0, <2>1, <2>2, <2>3 DEF Calm, Waiting
    <2> QED BY <1>0, <2>1, <2>3, <2>4, CalmOthers
<1> QED BY <1>2, <1>3, <1>4

\* A session expires only when nobody is about to use it.
LEMMA ExpireCalm ==
    ASSUME TypeOK, Stages, Undisturbed, Expire
    PROVE  Undisturbed'
<1>1. UNCHANGED <<cfg, session, call, wire>> /\ ~InUse(session.sid)
    BY DEF Expire
<1>2. \A s \in open[First] : s # session.sid => s \in open'[First]
    BY DEF Expire, TypeOK
<1>3. ~session.usable
    BY <1>1 DEF InUse
<1>4. ASSUME NEW c \in Calls
      PROVE  Calm(c)'
    <2>1. Calm(c)
        BY CalmAll
    <2>2. /\ ~(call[c].pc \in {"send", "wait"} /\ call[c].sid = session.sid)
          /\ ~(call[c].pc = "auth" /\ wire[c].sid = session.sid)
          /\ call[c].pc # "reread"
        BY <1>1 DEF InUse
    <2> QED BY <1>1, <1>2, <2>1, <2>2 DEF Calm
<1> QED BY <1>1, <1>3, <1>4, CalmAll DEF Undisturbed, Calm

LEMMA UndisturbedStep ==
    ASSUME IInv, [Next]_vars, drops' = 0, updates' = 0
    PROVE  Undisturbed'
<1>1. CASE drops = 0 /\ updates = 0
    <2>0. TypeOK /\ Stages /\ Undisturbed
        BY <1>1 DEF IInv
    <2>1. ASSUME NEW c \in Calls, Start(c) \/ Step(c) \/ GiveUp(c)
          PROVE  Undisturbed'
        BY <2>0, <2>1, CallCalm
    <2>2. ASSUME NEW c \in Calls, ServeLogin(c) \/ ServeRequest(c) \/ ServeError(c)
          PROVE  Undisturbed'
        BY <2>0, <2>2, ServeCalm
    <2>3. CASE Update \/ Drop
        BY <1>1, <2>3 DEF Update, Drop
    <2>4. CASE Lapse
        <3>1. session'.sid = session.sid /\ ~session'.usable
              /\ UNCHANGED <<cfg, call, wire, open>>
            BY <2>0, <2>4 DEF Lapse, external, TypeOK
        <3> QED BY <2>0, <3>1 DEF Undisturbed
    <2>5. CASE Expire
        BY <2>0, <2>5, ExpireCalm
    <2>6. CASE UNCHANGED vars
        BY <2>0, <2>6 DEF Undisturbed, vars
    <2> QED BY <2>1, <2>2, <2>3, <2>4, <2>5, <2>6 DEF Next, Environment
<1>2. CASE ~(drops = 0 /\ updates = 0)
    <2>1. drops \in Nat /\ updates \in Nat
        BY DEF IInv, TypeOK
    <2>2. /\ drops' = drops \/ drops' = drops + 1
          /\ updates' = updates \/ updates' = updates + 1
        BY DEF Next, Step, Environment, Start, GiveUp, UseSession, ReadPassword, SendLogin,
               StoreSession, RereadSession, Send, Succeed, Retry, Fail, Return, Update,
               Lapse, Drop, Expire, ServeLogin, ServeRequest, ServeError, external, vars
    <2> QED BY <1>2, <2>1, <2>2
<1> QED BY <1>1, <1>2

-----------------------------------------------------------------------------

LEMMA Inductive == Spec => []IInv
<1>1. Init => IInv
    <2> SUFFICES ASSUME Init PROVE Stages /\ Undisturbed
        BY TypeInit DEF IInv
    <2>1. \A c \in Calls : call[c].pc = "idle" /\ wire[c].state = "none" /\ applied[c] = 0
        BY DEF Init, At, Silence
    <2>2. cfg.addr = First /\ ~session.usable
        BY DEF Init, NoSession
    <2> QED BY <2>1, <2>2 DEF Stages, Stage, Undisturbed
<1>2. IInv /\ [Next]_vars => IInv'
    BY TypeStep, StagesKept, UndisturbedStep DEF IInv
<1> QED BY <1>1, <1>2, PTL DEF Spec

\* The session that calls share (ensureSession, Login) is always one a Pi-hole
\* issued, and while no Pi-hole drops a session and the client is not updated,
\* no request is refused for it, however many calls log in at the same time.
THEOREM NeverRefusedUndisturbed == Spec => []ClientSafe
<1>1. IInv => ClientSafe
    BY DEF IInv, ClientSafe, NoGroundlessRefusal, Undisturbed, Waiting
<1> QED BY <1>1, Inductive, PTL

\* A call implements NodeCall (doRequest with its one retry): its command takes
\* effect at most once, success is reported only after it did, and a call that
\* failed may have taken effect or may still do so.
THEOREM ClientIsNodeCall == Spec => ImplementsNodeCall
<1>1. Init => Node!Init
    BY MappedInit
<1>2. IInv /\ [Next]_vars => [Node!Next]_<<Status, applied>>
    BY MappedStep DEF IInv
<1> QED BY <1>1, <1>2, Inductive, PTL DEF Spec, ImplementsNodeCall, Node!Spec, Node!vars

=============================================================================
