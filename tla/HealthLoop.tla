----------------------------- MODULE HealthLoop -----------------------------
(***************************************************************************)
(* The polling loop of the health service.  It sweeps all nodes once when  *)
(* it starts, then idles until someone subscribes, sweeps on every tick    *)
(* while someone does, and pauses again a grace period after the last      *)
(* subscriber has left.  It reads the subscriber count and takes pokes in  *)
(* separate steps, with the subscribers moving in between.                 *)
(***************************************************************************)
EXTENDS Presence

VARIABLES
    grace,          \* configuration: is GracePeriodSeconds > 0?
    pc,             \* where the loop is
    done,           \* the context is cancelled: the server shuts down
    stale           \* history: a poke ended the last grace period although
                    \* no one was there, and no one has subscribed since

vars == <<stage, n, token, grace, pc, done, stale>>

Points == {"boot", "check", "idle", "recheck", "sweep", "run", "tick",
           "changed", "grace", "graceCheck", "stopped"}

Init ==
    /\ PresenceInit
    /\ grace \in BOOLEAN
    /\ pc = "boot"
    /\ done = FALSE
    /\ stale = FALSE

-----------------------------------------------------------------------------
(* The subscribers.                                                        *)

Join(c) ==
    /\ CountIn(c)
    /\ stale' = FALSE
    /\ UNCHANGED <<grace, pc, done>>

Pokes(c) ==
    /\ PokeIn(c) \/ PokeOut(c)
    /\ UNCHANGED <<grace, pc, done, stale>>

Leave(c) ==
    /\ CountOut(c)
    /\ UNCHANGED <<grace, pc, done, stale>>

-----------------------------------------------------------------------------
(* The loop.                                                               *)

Goto(from, to) ==
    /\ pc = from
    /\ pc' = to
    /\ UNCHANGED <<stage, n, token, grace, done, stale>>

\* Start: the sweep before the loop.
BootSweep == Goto("boot", "check")

\* "Idle state when no subscribers".
Check == Goto("check", IF n = 0 THEN "idle" ELSE "sweep")

Wake ==
    /\ pc = "idle"
    /\ TakeToken
    /\ pc' = "recheck"
    /\ UNCHANGED <<grace, done, stale>>

Recheck == Goto("recheck", IF n = 0 THEN "check" ELSE "sweep")

\* The sweep that starts an active period, and its new ticker.
Sweep == Goto("sweep", "run")

\* A tick is received: the sweep it starts is the step TickSweep.
Tick == Goto("run", "tick")
TickSweep == Goto("tick", "run")

TakeChange ==
    /\ pc = "run"
    /\ TakeToken
    /\ pc' = "changed"
    /\ UNCHANGED <<grace, done, stale>>

AfterChangeKeepsRunning == IF n = 0 /\ grace THEN "grace" ELSE "run"

\* The count is read again after the poke was taken.
AfterChange == IF n # 0 THEN "run" ELSE IF grace THEN "grace" ELSE "check"

Changed == Goto("changed", AfterChange)

\* The grace timer fires.
GraceOver == Goto("grace", "graceCheck")

AfterGraceKeepsRunning == "run"

AfterGrace == IF n = 0 THEN "check" ELSE "run"

GraceCheck == Goto("graceCheck", AfterGrace)

\* "Subscribers came back during grace period": any poke ends the grace
\* period, and the count is not looked at.
Resume ==
    /\ pc = "grace"
    /\ TakeToken
    /\ pc' = "run"
    /\ stale' = (n = 0)
    /\ UNCHANGED <<grace, done>>

StopPointsNotIdle == {"run", "grace"}

\* Where the loop listens to ctx.Done().
StopPoints == {"idle", "run", "grace"}

Stop ==
    /\ done
    /\ pc \in StopPoints
    /\ pc' = "stopped"
    /\ UNCHANGED <<stage, n, token, grace, done, stale>>

Shutdown ==
    /\ ~done
    /\ done' = TRUE
    /\ UNCHANGED <<stage, n, token, grace, pc, stale>>

\* Steps that do not wait for anything.
Proceed == BootSweep \/ Check \/ Recheck \/ Sweep \/ TickSweep \/ Changed \/ GraceCheck

Next ==
    \/ \E c \in Conns : Join(c) \/ Leave(c) \/ Pokes(c)
    \/ Proceed \/ Wake \/ Tick \/ TakeChange \/ GraceOver \/ Resume
    \/ Stop \/ Shutdown

Spec == Init /\ [][Next]_vars

\* The loop's goroutine runs, its timers fire, and a select with several ready
\* cases picks one at random, so that a case that is ready again and again is
\* picked in the end.  A goroutine that has counted goes on to its poke.
Fairness ==
    /\ WF_vars(Proceed) /\ WF_vars(GraceOver)
    /\ SF_vars(Wake) /\ SF_vars(Tick) /\ SF_vars(TakeChange) /\ SF_vars(Resume)
    /\ SF_vars(Stop)
    /\ \A c \in Conns : WF_vars(Pokes(c))

FairSpec == Spec /\ Fairness

-----------------------------------------------------------------------------
(* Properties.                                                             *)

\* The channel never holds more than one token and the loop is at a point of
\* the code.
TypeOK ==
    /\ PresenceTypeOK
    /\ grace \in BOOLEAN
    /\ pc \in Points
    /\ done \in BOOLEAN
    /\ stale \in BOOLEAN

\* No wake-up is lost: while the loop idles and someone is counted, a token is
\* waiting for it or a subscriber is still to poke.
NoLostWakeup ==
    pc = "idle" /\ n > 0 => token = 1 \/ \E c \in Conns : stage[c] = "joining"

\* Polling for nobody is always about to be noticed, by a token or a poke to
\* come, unless a poke ended a grace period when no one had come back: that is
\* the one way the loop polls on without subscribers.
DesertedOnlyByStale ==
    pc \in {"sweep", "run", "tick"} /\ n = 0 /\ ~stale
        => token = 1 \/ Poking # {}

\* The loop, the counter and the tokens agree in every interleaving of the
\* loop's reads with the two steps of each subscriber.
LoopSafe == TypeOK /\ NoLostWakeup /\ DesertedOnlyByStale

\* Whoever subscribes and stays sees a sweep, unless the server shuts down.
Served ==
    \A c \in Conns :
        stage[c] = "here" ~> pc \in {"sweep", "tick"} \/ stage[c] # "here" \/ done

\* The loop ends after the context is cancelled, wherever it is.
Stops == done ~> pc = "stopped"

\* "the number of seconds after the last subscriber disconnects before we pause
\* the polling loop": once all have left for good, the loop pauses.
PausesWhenDeserted ==
    <>[](n = 0) => <>[](pc \in {"idle", "stopped"})

\* Without a grace period that is so.
PausesWithoutGrace == ~grace => PausesWhenDeserted
=============================================================================
