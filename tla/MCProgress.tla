----------------------------- MODULE MCProgress -----------------------------
(***************************************************************************)
(* The liveness of five components in one run: the polling loop, which     *)
(* this module extends, and four it instantiates.  They are checked side   *)
(* by side, not composed: a behaviour chooses one part and only that part  *)
(* ever moves, so what the run shows of a part is what a run of its own    *)
(* would show.                                                             *)
(***************************************************************************)
EXTENDS HealthLoop

CONSTANTS
    Streams,        \* the broker's connections
    Requests,       \* open when the server shuts down
    t1, t2, h1, h2, h3,     \* the tab's topics and hooks
    Nodes, None

VARIABLES part,
    conn, wants, subs, chan, closed, cancelled, fwd, held, got, latest, pub,
    ctx, listener, open, main, limit,
    mounted, es, attachedTopics, timer, leftover,
    members, known, nodeHealth, summary, sweep, connected, queue, get, view

counters == <<n, token>>
loop == <<stage, grace, pc, done, stale>>
broker == <<conn, wants, subs, chan, closed, cancelled, fwd, held, got, latest, pub>>
process == <<ctx, listener, open, main, limit>>
tab == <<mounted, es, attachedTopics, timer, leftover>>
page == <<members, known, nodeHealth, summary, sweep, connected, queue, get, view>>
allVars == <<part, counters, loop, broker, process, tab, page>>

MCTopicOf == [h \in {h1, h2, h3} |-> IF h = h3 THEN t2 ELSE t1]

\* The loop and the broker have the counter and the tokens in common, as in the code.
Broker == INSTANCE Broker WITH
    Conns <- Streams, TopicSets <- SUBSET {"health_summary", "node_health"},
    Cap <- 1, MaxEvents <- 2
Process == INSTANCE Lifecycle
Tab == INSTANCE SseClient WITH Topics <- {t1, t2}, Hooks <- {h1, h2, h3},
                               TopicOf <- MCTopicOf
Page == INSTANCE HealthView WITH MaxAge <- 1, Cap <- 2, MayPanic <- {}

ASSUME Tab!SseAssumption /\ Page!ViewAssumption

PartsInit ==
    /\ part \in {"loop", "broker", "process", "tab", "page"}
    /\ Init /\ Broker!Init /\ Process!Init /\ Tab!Init /\ Page!Init
    /\ part # "loop" => grace
    /\ part # "page" => members = {}

InLoop(A) == part = "loop" /\ A /\ UNCHANGED <<part, broker, process, tab, page>>
InBroker(A) == part = "broker" /\ A /\ UNCHANGED <<part, loop, process, tab, page>>
InProcess(A) ==
    part = "process" /\ A /\ UNCHANGED <<part, counters, loop, broker, tab, page>>
InTab(A) ==
    part = "tab" /\ A /\ UNCHANGED <<part, counters, loop, broker, process, page>>
InPage(A) ==
    part = "page" /\ A /\ UNCHANGED <<part, counters, loop, broker, process, tab>>

PartsNext ==
    \/ InLoop(Next) \/ InBroker(Broker!Next) \/ InProcess(Process!Next)
    \/ InTab(Tab!Next) \/ InPage(Page!Next)

\* The fairness each module states, of the part that moves.
PartsFairness ==
    /\ WF_allVars(InLoop(Proceed)) /\ WF_allVars(InLoop(GraceOver))
    /\ SF_allVars(InLoop(Wake)) /\ SF_allVars(InLoop(Tick))
    /\ SF_allVars(InLoop(TakeChange)) /\ SF_allVars(InLoop(Resume))
    /\ SF_allVars(InLoop(Stop))
    /\ \A c \in Conns : WF_allVars(InLoop(Pokes(c)))
    /\ WF_allVars(InBroker(Broker!Publisher))
    /\ \A c \in Streams :
        /\ WF_allVars(InBroker(Broker!CountIn(c))) /\ WF_allVars(InBroker(Broker!PokeIn(c)))
        /\ WF_allVars(InBroker(Broker!ContextDone(c)))
        /\ SF_allVars(InBroker(Broker!HandlerReturns(c)))
        /\ SF_allVars(InBroker(Broker!Unregister(c)))
        /\ WF_allVars(InBroker(Broker!Leaving(c))) /\ WF_allVars(InBroker(Broker!Forwarder(c)))
    /\ WF_allVars(InProcess(Process!Main)) /\ WF_allVars(InProcess(Process!LimitPasses))
    /\ WF_allVars(InTab(Tab!TimerFires))
    /\ WF_allVars(InPage(Page!Polls)) /\ WF_allVars(InPage(Page!SweepStep))
    /\ WF_allVars(InPage(Page!Deliver))

PartsSpec == PartsInit /\ [][PartsNext]_allVars /\ PartsFairness

\* The properties of the four modules instantiated, by their names.
ConnectionsEnd == Broker!ConnectionsEnd
ForwarderEnds == Broker!ForwarderEnds
ShutdownEnds == Process!ShutdownEnds
Reconnects == Tab!Reconnects
ViewFillsUp == Page!ViewFillsUp
=============================================================================
