--------------------------- MODULE MonitorThread ---------------------------
(***************************************************************************)
(* What the service promises of the threads of one VM, whoever looks: the  *)
(* registry knows at most one of them, a thread runs from its start until  *)
(* it returns - which takes a stop request - or dies, a stop request is    *)
(* never taken back, and a thread that got one returns.                    *)
(*                                                                         *)
(* Module DockerMonitor is the main loop's side of this promise, module    *)
(* MonitoredVM the threads' side; each implements this module.             *)
(***************************************************************************)
EXTENDS FiniteSets

CONSTANTS Instances, NoInstance

VARIABLES
    current,  \* the instance in the registry, or NoInstance
    alive,    \* the instances that run
    stopreq   \* those asked to stop

vars == <<current, alive, stopreq>>

Init == current = NoInstance /\ alive = {} /\ stopreq = {}

(* A new thread, only when the registry has none. *)
Start ==
    /\ current = NoInstance
    /\ \E i \in Instances \ alive :
          current' = i /\ alive' = alive \cup {i}
    /\ stopreq' = stopreq

(* The thread in the registry is asked to stop and leaves the registry. *)
Stop ==
    /\ current # NoInstance
    /\ current' = NoInstance
    /\ stopreq' = stopreq \cup (alive \cap {current})
    /\ alive' = alive

(* The same at shutdown, where the registry stays as it is. *)
TearDown ==
    /\ stopreq' = stopreq \cup (alive \cap {current})
    /\ UNCHANGED <<current, alive>>

Ends(i) ==
    /\ alive' = alive \ {i}
    /\ stopreq' = stopreq \ {i}
    /\ current' = current

Returns(i) == i \in alive \cap stopreq /\ Ends(i)
Dies(i) == i \in alive /\ Ends(i)

(* The process ends. *)
Vanish == current' = NoInstance /\ alive' = {} /\ stopreq' = {}

Next ==
    \/ Start
    \/ Stop
    \/ TearDown
    \/ \E i \in Instances : Returns(i) \/ Dies(i)
    \/ Vanish

Spec == Init /\ [][Next]_vars

Fairness == \A i \in Instances : WF_vars(Returns(i))

FairSpec == Spec /\ Fairness

=============================================================================
