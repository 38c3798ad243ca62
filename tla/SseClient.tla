------------------------------ MODULE SseClient ------------------------------
(***************************************************************************)
(* The event client of a browser tab: one EventSource shared by all hooks  *)
(* that subscribe to a topic.  A new topic, or the end of one, replaces the *)
(* connection by one that asks for the topics now wanted.  When a           *)
(* connection fails, the browser retries it by itself after the 3 s the     *)
(* server asked for, and the client replaces it after 4 s; the client's     *)
(* timer is cleared by nothing.                                             *)
(*                                                                         *)
(* The browser runs one callback at a time, so each is one step.  Network  *)
(* and server are external: they accept, refuse, fail or end a connection  *)
(* as they like; the router ends every one after 30 s.                     *)
(***************************************************************************)
EXTENDS Integers, FiniteSets

CONSTANTS
    Topics,         \* event types
    Hooks,          \* mounted components call useSSE, each for one topic
    TopicOf         \* the topic of each hook

SseAssumption == TopicOf \in [Hooks -> Topics]

VARIABLES
    mounted,        \* the hooks subscribed: handlers holds exactly these
    es,             \* the EventSource: state, the topics in its URL, and the
                    \* number of listeners it has for each topic
    attachedTopics, \* what the client believes of es's listeners
    timer,          \* reconnectTimer: null, pending, or an id that has fired
    leftover        \* history: the timer was pending when the last hook left

vars == <<mounted, es, attachedTopics, timer, leftover>>

\* "retrying": the browser will connect again; "closed": it has given up.
States == {"none", "connecting", "open", "retrying", "closed"}
NoListeners == [t \in Topics |-> 0]
NoSource == [state |-> "none", asked |-> {}, listeners |-> NoListeners]

\* handlers.keys()
TopicsOf(hooks) == {TopicOf[h] : h \in hooks}

Init ==
    /\ mounted = {}
    /\ es = NoSource
    /\ attachedTopics = {}
    /\ timer = "null"
    /\ leftover = FALSE

-----------------------------------------------------------------------------

\* attachedTopics keeps the topics of the connection that is replaced.
ConnectRemembering(topics) ==
    /\ es' = [state |-> "connecting", asked |-> topics,
              listeners |-> [t \in Topics |->
                                IF t \in topics \ attachedTopics THEN 1 ELSE 0]]
    /\ attachedTopics' = topics

\* connect: the old source, if any, is closed and loses its handlers; the new
\* one asks for the topics and gets a listener for each.
Connect(topics) ==
    /\ es' = [state |-> "connecting", asked |-> topics,
              listeners |-> [t \in Topics |-> IF t \in topics THEN 1 ELSE 0]]
    /\ attachedTopics' = topics

\* attachTopicListener, unless there is one already.
Attach(t) ==
    /\ es' = IF t \in attachedTopics THEN es
             ELSE [es EXCEPT !.listeners[t] = @ + 1]
    /\ attachedTopics' = attachedTopics \cup {t}

Subscribe(h) ==
    /\ h \notin mounted
    /\ mounted' = mounted \cup {h}
    /\ IF TopicOf[h] \in TopicsOf(mounted)
       THEN Attach(TopicOf[h])
       ELSE Connect(TopicsOf(mounted'))
    /\ leftover' = FALSE
    /\ UNCHANGED timer

\* The function subscribe returns: the last handler of a topic takes the topic
\* with it, the last topic the connection.
Unsubscribe(h) ==
    /\ h \in mounted
    /\ mounted' = mounted \ {h}
    /\ \/ /\ TopicsOf(mounted') = TopicsOf(mounted)
          /\ UNCHANGED <<es, attachedTopics>>
       \/ /\ mounted' = {}
          /\ es' = NoSource
          /\ attachedTopics' = {}
       \/ /\ mounted' # {} /\ TopicsOf(mounted') # TopicsOf(mounted)
          /\ Connect(TopicsOf(mounted'))
    /\ leftover' = (mounted' = {} /\ timer = "pending")
    /\ UNCHANGED timer

-----------------------------------------------------------------------------
(* The connection.                                                         *)

Becomes(state) == es' = [es EXCEPT !.state = state]

\* onerror: one timer at a time.
OnError ==
    /\ timer' = IF timer = "null" THEN "pending" ELSE timer
    /\ UNCHANGED <<mounted, attachedTopics, leftover>>

Opens ==
    /\ es.state = "connecting"
    /\ Becomes("open")
    /\ UNCHANGED <<mounted, attachedTopics, timer, leftover>>

\* An answer other than a stream (no session, server error) is final for the
\* EventSource.
Refused ==
    /\ es.state = "connecting"
    /\ Becomes("closed")
    /\ OnError

\* The network fails, or the stream ends.
Breaks ==
    /\ es.state \in {"connecting", "open"}
    /\ Becomes("retrying")
    /\ OnError

BrowserRetries ==
    /\ es.state = "retrying"
    /\ Becomes("connecting")
    /\ UNCHANGED <<mounted, attachedTopics, timer, leftover>>

\* The timer has fired and its id is still in reconnectTimer.
FiredKept == "fired"

\* reconnectTimer = null, before connect.
Fired == "null"

TimerFires ==
    /\ timer = "pending"
    /\ timer' = Fired
    /\ Connect(TopicsOf(mounted))
    /\ UNCHANGED <<mounted, leftover>>

Next ==
    \/ \E h \in Hooks : Subscribe(h) \/ Unsubscribe(h)
    \/ Opens \/ Refused \/ Breaks \/ BrowserRetries \/ TimerFires

Spec == Init /\ [][Next]_vars

\* A timer that is pending fires; a browser's own retry is not relied upon.
FairSpec == Spec /\ WF_vars(TimerFires)

-----------------------------------------------------------------------------
(* Properties.                                                             *)

\* parseTopics: the server sends everything to whoever asks for nothing.
Sent(topics) == IF topics = {} THEN Topics ELSE topics

TypeOK ==
    /\ mounted \subseteq Hooks
    /\ es \in [state : States, asked : SUBSET Topics, listeners : [Topics -> 0..1]]
    /\ attachedTopics \subseteq Topics
    /\ timer \in {"null", "pending"}
    /\ leftover \in BOOLEAN

\* As long as a hook is mounted, the connection asks for the wanted topics and
\* nothing else, and every event of them reaches the hooks exactly once,
\* through whatever sequence of mounts, failures and timers it came about.
WantedTopicsServed ==
    mounted # {} =>
        /\ es.state # "none"
        /\ Sent(es.asked) = TopicsOf(mounted)
        /\ \A t \in Topics :
            es.listeners[t] = IF t \in TopicsOf(mounted) THEN 1 ELSE 0

\* A connection that nobody in the tab wants, and which keeps the server
\* polling, comes only from a timer that was pending when the last hook left.
StrayOnlyByTimer == mounted = {} /\ es.state # "none" => leftover

SseSafe == TypeOK /\ WantedTopicsServed /\ StrayOnlyByTimer

\* The client never gives up: as long as a hook is mounted, a connection that
\* was lost or refused is attempted again, however often that happens.
Reconnects ==
    mounted # {} /\ es.state \in {"retrying", "closed"}
        ~> mounted = {} \/ es.state \in {"connecting", "open"}
=============================================================================
