-------------------------- MODULE HealthLoopProofs --------------------------
(***************************************************************************)
(* Proofs about HealthLoop for any finite set of connections.              *)
(***************************************************************************)
EXTENDS HealthLoop, FiniteSetTheorems, TLAPS

Counted == {c \in Conns : stage[c] \in {"joining", "here"}}

\* The counter counts the connections between their two atomic additions.
CounterExact == n = Cardinality(Counted)

IInv == LoopSafe /\ CounterExact

-----------------------------------------------------------------------------
LEMMA CountedFinite ==
    ASSUME IsFiniteSet(Conns)
    PROVE  IsFiniteSet(Counted) /\ Cardinality(Counted) \in Nat
<1>1. Counted \in SUBSET Conns
    BY DEF Counted
<1>2. IsFiniteSet(Counted)
    BY <1>1, FS_Subset
<1> QED BY <1>2, FS_CardinalityType

LEMMA InitInv ==
    ASSUME Init
    PROVE  IInv
<1>1. Counted = {}
    BY DEF Init, PresenceInit, Counted
<1>2. CounterExact
    BY <1>1, FS_EmptySet DEF Init, PresenceInit, CounterExact
<1>3. TypeOK
    <2>1. PresenceTypeOK
        BY DEF Init, PresenceInit, PresenceTypeOK, Stages
    <2> QED BY <2>1 DEF Init, TypeOK, Points
<1>4. NoLostWakeup /\ DesertedOnlyByStale
    BY DEF Init, NoLostWakeup, DesertedOnlyByStale
<1> QED BY <1>2, <1>3, <1>4 DEF IInv, LoopSafe

-----------------------------------------------------------------------------
(* The subscribers.                                                        *)

LEMMA JoinInv ==
    ASSUME IsFiniteSet(Conns), IInv, NEW c \in Conns, Join(c)
    PROVE  IInv'
<1> USE DEF Join, CountIn
<1>1. TypeOK /\ n = Cardinality(Counted)
    BY DEF IInv, LoopSafe, CounterExact
<1>2. TypeOK'
    <2>1. PresenceTypeOK'
        BY <1>1 DEF TypeOK, PresenceTypeOK, Stages
    <2> QED BY <1>1, <2>1 DEF TypeOK
<1>3. Counted' = Counted \cup {c} /\ c \notin Counted
    BY <1>1 DEF Counted, TypeOK, PresenceTypeOK
<1>4. CounterExact'
    BY <1>1, <1>3, CountedFinite, FS_AddElement DEF CounterExact
<1>5. n' # 0 /\ stage'[c] = "joining"
    BY <1>1 DEF TypeOK, PresenceTypeOK
<1>6. NoLostWakeup' /\ DesertedOnlyByStale'
    BY <1>5 DEF NoLostWakeup, DesertedOnlyByStale
<1> QED BY <1>2, <1>4, <1>6 DEF IInv, LoopSafe

LEMMA LeaveInv ==
    ASSUME IsFiniteSet(Conns), IInv, NEW c \in Conns, Leave(c)
    PROVE  IInv'
<1> USE DEF Leave, CountOut
<1>1. TypeOK /\ n = Cardinality(Counted)
    BY DEF IInv, LoopSafe, CounterExact
<1>2. Counted' = Counted \ {c} /\ c \in Counted
    BY <1>1 DEF Counted, TypeOK, PresenceTypeOK
<1>3. Cardinality(Counted') = n - 1 /\ Cardinality(Counted') \in Nat
    <2>1. IsFiniteSet(Counted)
        BY CountedFinite
    <2>2. IsFiniteSet(Counted \ {c}) /\ Cardinality(Counted \ {c}) = n - 1
        BY <1>1, <1>2, <2>1, FS_RemoveElement
    <2> QED BY <1>2, <2>2, FS_CardinalityType
<1>4. CounterExact'
    BY <1>3 DEF CounterExact
<1>5. n' \in Nat
    BY <1>3
<1>6. TypeOK'
    BY <1>1, <1>5 DEF TypeOK, PresenceTypeOK, Stages
<1>7. c \in Poking'
    BY <1>1 DEF Poking, TypeOK, PresenceTypeOK
<1>8. DesertedOnlyByStale'
    BY <1>7 DEF DesertedOnlyByStale
<1>9. NoLostWakeup'
    BY <1>1, <1>5 DEF IInv, LoopSafe, NoLostWakeup, TypeOK, PresenceTypeOK
<1> QED BY <1>4, <1>6, <1>8, <1>9 DEF IInv, LoopSafe

LEMMA PokesInv ==
    ASSUME IInv, NEW c \in Conns, Pokes(c)
    PROVE  IInv'
<1> USE DEF Pokes, PokeIn, PokeOut, Poked
<1>1. TypeOK /\ n = Cardinality(Counted)
    BY DEF IInv, LoopSafe, CounterExact
<1>2. Counted' = Counted
    BY <1>1 DEF Counted, TypeOK, PresenceTypeOK
<1>3. CounterExact'
    BY <1>1, <1>2 DEF CounterExact
<1>4. TypeOK'
    BY <1>1 DEF TypeOK, PresenceTypeOK, Stages
<1>5. NoLostWakeup' /\ DesertedOnlyByStale'
    BY DEF NoLostWakeup, DesertedOnlyByStale
<1> QED BY <1>3, <1>4, <1>5 DEF IInv, LoopSafe

-----------------------------------------------------------------------------
(* The loop.                                                               *)

\* A step of the loop moves no connection: it is enough to look at the loop.
LEMMA LoopStepInv ==
    ASSUME IInv, UNCHANGED <<stage, n>>, TypeOK',
           NoLostWakeup', DesertedOnlyByStale'
    PROVE  IInv'
<1>1. Counted' = Counted
    BY DEF Counted
<1> QED BY <1>1 DEF IInv, LoopSafe, CounterExact

\* A step that takes no token: the loop idles only over an empty counter, and
\* begins to poll only over one that is not.
LEMMA GotoInv ==
    ASSUME IInv, NEW from, NEW to \in Points, Goto(from, to),
           to = "idle" => n = 0,
           to \in {"sweep", "run", "tick"} => n # 0 \/ from \in {"sweep", "run", "tick"}
    PROVE  IInv'
<1>1. TypeOK'
    BY DEF Goto, IInv, LoopSafe, TypeOK, PresenceTypeOK
<1>2. NoLostWakeup'
    BY DEF Goto, IInv, LoopSafe, NoLostWakeup, TypeOK, PresenceTypeOK
<1>3. Poking' = Poking
    BY DEF Goto, Poking
<1>4. DesertedOnlyByStale'
    BY <1>3 DEF Goto, IInv, LoopSafe, DesertedOnlyByStale
<1>5. UNCHANGED <<stage, n>>
    BY DEF Goto
<1> QED BY <1>1, <1>2, <1>4, <1>5, LoopStepInv

LEMMA ProceedInv ==
    ASSUME IInv, Proceed
    PROVE  IInv'
<1>0. n \in Nat
    BY DEF IInv, LoopSafe, TypeOK, PresenceTypeOK
<1>1. CASE BootSweep
    BY <1>1, GotoInv DEF BootSweep, Points
<1>2. CASE Check
    <2>1. CASE n = 0
        BY <1>2, <2>1, GotoInv DEF Check, Points
    <2>2. CASE n # 0
        BY <1>2, <2>2, GotoInv DEF Check, Points
    <2> QED BY <2>1, <2>2
<1>3. CASE Recheck
    <2>1. CASE n = 0
        BY <1>3, <2>1, GotoInv DEF Recheck, Points
    <2>2. CASE n # 0
        BY <1>3, <2>2, GotoInv DEF Recheck, Points
    <2> QED BY <2>1, <2>2
<1>4. CASE Sweep
    BY <1>4, GotoInv DEF Sweep, Points
<1>5. CASE TickSweep
    BY <1>5, GotoInv DEF TickSweep, Points
<1>6. CASE Changed
    <2>1. /\ AfterChange \in Points /\ AfterChange # "idle"
          /\ AfterChange \in {"sweep", "run", "tick"} => n # 0
        BY DEF AfterChange, Points
    <2> QED BY <1>6, <2>1, GotoInv DEF Changed
<1>7. CASE GraceCheck
    <2>1. /\ AfterGrace \in Points /\ AfterGrace # "idle"
          /\ AfterGrace \in {"sweep", "run", "tick"} => n # 0
        BY DEF AfterGrace, Points
    <2> QED BY <1>7, <2>1, GotoInv DEF GraceCheck
<1> QED BY <1>1, <1>2, <1>3, <1>4, <1>5, <1>6, <1>7 DEF Proceed

\* The loop leaves where it is when it takes a token.
LEMMA TakesTokenInv ==
    ASSUME IInv, Wake \/ TakeChange \/ Resume
    PROVE  IInv'
<1> USE DEF TakeToken
<1>1. TypeOK'
    <2>1. TypeOK
        BY DEF IInv, LoopSafe
    <2>2. PresenceTypeOK'
        BY <2>1 DEF Wake, TakeChange, Resume, TypeOK, PresenceTypeOK
    <2>3. pc' \in Points /\ grace' \in BOOLEAN /\ done' \in BOOLEAN
        BY <2>1 DEF Wake, TakeChange, Resume, TypeOK, Points
    <2>4. stale' \in BOOLEAN
        BY <2>1 DEF Wake, TakeChange, Resume, TypeOK
    <2> QED BY <2>2, <2>3, <2>4 DEF TypeOK
<1>2. NoLostWakeup'
    BY DEF Wake, TakeChange, Resume, NoLostWakeup
<1>3. DesertedOnlyByStale'
    BY DEF Wake, TakeChange, Resume, DesertedOnlyByStale
<1>4. UNCHANGED <<stage, n>>
    BY DEF Wake, TakeChange, Resume
<1> QED BY <1>1, <1>2, <1>3, <1>4, LoopStepInv

LEMMA EndInv ==
    ASSUME IInv, Stop \/ Shutdown
    PROVE  IInv'
<1>1. TypeOK'
    BY DEF Stop, Shutdown, IInv, LoopSafe, TypeOK, PresenceTypeOK, Points
<1>2. NoLostWakeup'
    BY DEF Stop, Shutdown, IInv, LoopSafe, NoLostWakeup
<1>3. DesertedOnlyByStale'
    BY DEF Stop, Shutdown, IInv, LoopSafe, DesertedOnlyByStale, Poking
<1>4. UNCHANGED <<stage, n>>
    BY DEF Stop, Shutdown
<1> QED BY <1>1, <1>2, <1>3, <1>4, LoopStepInv

LEMMA StepInv ==
    ASSUME IsFiniteSet(Conns), IInv, [Next]_vars
    PROVE  IInv'
<1>1. CASE \E c \in Conns : Join(c) \/ Leave(c) \/ Pokes(c)
    BY <1>1, JoinInv, LeaveInv, PokesInv
<1>2. CASE Proceed
    BY <1>2, ProceedInv
<1>3. CASE Wake \/ TakeChange \/ Resume
    BY <1>3, TakesTokenInv
<1>4. CASE Tick
    BY <1>4, GotoInv DEF Tick, Points
<1>5. CASE GraceOver
    BY <1>5, GotoInv DEF GraceOver, Points
<1>6. CASE Stop \/ Shutdown
    BY <1>6, EndInv
<1>7. CASE UNCHANGED vars
    <2>1. TypeOK' /\ NoLostWakeup' /\ DesertedOnlyByStale' /\ UNCHANGED <<stage, n>>
        BY <1>7 DEF vars, IInv, LoopSafe, TypeOK, PresenceTypeOK, NoLostWakeup,
            DesertedOnlyByStale, Poking
    <2> QED BY <2>1, LoopStepInv
<1> QED BY <1>1, <1>2, <1>3, <1>4, <1>5, <1>6, <1>7 DEF Next

-----------------------------------------------------------------------------
\* The loop never idles over an unnoticed subscriber and polls for nobody only
\* because of a stale poke (Service.Start), for any number of connections.
THEOREM LoopNoticesSubscribers == IsFiniteSet(Conns) => (Spec => []LoopSafe)
<1> SUFFICES ASSUME IsFiniteSet(Conns)
             PROVE  Spec => []LoopSafe
    OBVIOUS
<1>1. Init => IInv
    BY InitInv
<1>2. IInv /\ [Next]_vars => IInv'
    BY StepInv
<1>3. IInv => LoopSafe
    BY DEF IInv
<1> QED BY <1>1, <1>2, <1>3, PTL DEF Spec
=============================================================================
