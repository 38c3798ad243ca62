------------------------------ MODULE NodeCall ------------------------------
(***************************************************************************)
(* What a call of a Pi-hole client's method promises its caller, for a     *)
(* command that changes the node: the command takes effect at most once;   *)
(* success is reported only after it did; a failed call may have taken     *)
(* effect all the same, or may still do so after it was reported failed.   *)
(***************************************************************************)
EXTENDS Integers

CONSTANT Calls

VARIABLES
    status,         \* what the caller knows of each call
    applied         \* how often the command has taken effect at the node

vars == <<status, applied>>

Init ==
    /\ status = [c \in Calls |-> "idle"]
    /\ applied = [c \in Calls |-> 0]

Move(c, from, to) == status[c] = from /\ status' = [status EXCEPT ![c] = to]

Call(c) == Move(c, "idle", "running") /\ UNCHANGED applied

Apply(c) ==
    /\ status[c] \in {"running", "failed"}
    /\ applied[c] = 0
    /\ applied' = [applied EXCEPT ![c] = 1]
    /\ UNCHANGED status

Succeed(c) ==
    /\ Move(c, "running", "succeeded")
    /\ applied[c] = 1
    /\ UNCHANGED applied

Fail(c) == Move(c, "running", "failed") /\ UNCHANGED applied

Next == \E c \in Calls : Call(c) \/ Apply(c) \/ Succeed(c) \/ Fail(c)

Spec == Init /\ [][Next]_vars

-----------------------------------------------------------------------------

TypeOK ==
    /\ status \in [Calls -> {"idle", "running", "succeeded", "failed"}]
    /\ applied \in [Calls -> 0..1]
=============================================================================
