----------------------------- MODULE Lifecycle -----------------------------
(***************************************************************************)
(* How the process ends.  The main goroutine waits for the context, which  *)
(* the first SIGINT or SIGTERM cancels, and then gives the open requests   *)
(* five seconds.  The HTTP server listens in a goroutine of its own, and   *)
(* nothing tells the main goroutine when it fails.  The health loop and    *)
(* the purge loop stop with the context too (see HealthLoop, Accounts).    *)
(***************************************************************************)
CONSTANT Requests

VARIABLES
    ctx,            \* is the context cancelled?
    listener,       \* "serving", "failed" to listen, or "closed"
    open,           \* requests being handled; an event stream may take 30 s
    main,           \* "waiting" for ctx, "draining", "clean" or "forced" exit
    limit           \* the five seconds have passed

vars == <<ctx, listener, open, main, limit>>

Exited == main \in {"clean", "forced"}

Init ==
    /\ ctx = FALSE
    /\ listener = "serving"
    /\ open = {}
    /\ main = "waiting"
    /\ limit = FALSE

Begin(r) ==
    /\ listener = "serving" /\ ~Exited
    /\ r \notin open /\ open' = open \cup {r}
    /\ UNCHANGED <<ctx, listener, main, limit>>

End(r) ==
    /\ ~Exited
    /\ r \in open /\ open' = open \ {r}
    /\ UNCHANGED <<ctx, listener, main, limit>>

\* ListenAndServe returns an error, which is logged: the process stays up.
ListenFails ==
    /\ listener = "serving" /\ ~Exited
    /\ listener' = "failed"
    /\ UNCHANGED <<ctx, open, main, limit>>

\* Only the first signal is received; later ones wait in sigCh for ever.
Signal ==
    /\ ~ctx /\ ctx' = TRUE
    /\ UNCHANGED <<listener, open, main, limit>>

\* Shutdown is called: it closes the listener and starts the five seconds.
StartShutdown ==
    /\ main = "waiting" /\ ctx
    /\ main' = "draining"
    /\ listener' = IF listener = "serving" THEN "closed" ELSE listener
    /\ UNCHANGED <<ctx, open, limit>>

\* Shutdown finds no open request, and RunE returns nil.
Drained ==
    /\ main = "draining" /\ open = {}
    /\ main' = "clean"
    /\ UNCHANGED <<ctx, listener, open, limit>>

LimitPasses ==
    /\ main = "draining" /\ ~limit
    /\ limit' = TRUE
    /\ UNCHANGED <<ctx, listener, open, main>>

\* Shutdown under a context that never ends.
GiveUpNever == FALSE /\ UNCHANGED vars

\* Shutdown returns the deadline's error and so does RunE; the process ends and
\* with it the requests still open.
GiveUp ==
    /\ main = "draining" /\ limit
    /\ main' = "forced"
    /\ UNCHANGED <<ctx, listener, open, limit>>

Next ==
    \/ \E r \in Requests : Begin(r) \/ End(r)
    \/ ListenFails \/ Signal
    \/ StartShutdown \/ Drained \/ LimitPasses \/ GiveUp

Spec == Init /\ [][Next]_vars

\* The main goroutine runs and its timer fires; no request has to end.
Main == StartShutdown \/ Drained \/ GiveUp
FairSpec == Spec /\ WF_vars(Main) /\ WF_vars(LimitPasses)

-----------------------------------------------------------------------------
(* Properties.                                                             *)

TypeOK ==
    /\ ctx \in BOOLEAN /\ limit \in BOOLEAN
    /\ listener \in {"serving", "failed", "closed"}
    /\ open \subseteq Requests
    /\ main \in {"waiting", "draining", "clean", "forced"}

\* After the first signal the process ends, whatever its requests do and even
\* if it never listened, and it ends for no other reason; an exit reported as
\* clean has cut no request off (StartAndServe).
ShutdownEnds ==
    /\ ctx ~> Exited
    /\ [](TypeOK /\ (Exited => ctx) /\ (main = "clean" => open = {}))
=============================================================================
