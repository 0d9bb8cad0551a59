-------------------------- MODULE RemoteOperation --------------------------
(***************************************************************************)
(* What the caller of a plugin operation on a container may rely on: it is *)
(* carried out at most once, it was if the call succeeds, and a call that  *)
(* fails leaves it open whether it was.                                    *)
(***************************************************************************)
EXTENDS Naturals

CONSTANT Calls

VARIABLES
    status,  \* [Calls -> {"none", "called", "succeeded", "failed"}]
    times    \* [Calls -> Nat]: how often the operation was carried out

vars == <<status, times>>

Init == status = [c \in Calls |-> "none"] /\ times = [c \in Calls |-> 0]

Call(c) ==
    /\ status[c] # "called"
    /\ status' = [status EXCEPT ![c] = "called"]
    /\ times' = [times EXCEPT ![c] = 0]

CarryOut(c) ==
    /\ status[c] = "called" /\ times[c] = 0
    /\ times' = [times EXCEPT ![c] = 1]
    /\ UNCHANGED status

Succeed(c) ==
    /\ status[c] = "called" /\ times[c] = 1
    /\ status' = [status EXCEPT ![c] = "succeeded"]
    /\ UNCHANGED times

Fail(c) ==
    /\ status[c] = "called"
    /\ status' = [status EXCEPT ![c] = "failed"]
    /\ UNCHANGED times

Next == \E c \in Calls : Call(c) \/ CarryOut(c) \/ Succeed(c) \/ Fail(c)

Spec == Init /\ [][Next]_vars
=============================================================================
