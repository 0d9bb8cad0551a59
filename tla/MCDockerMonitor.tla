-------------------------- MODULE MCDockerMonitor --------------------------
(***************************************************************************)
(* Small instances of DockerMonitor.                                       *)
(***************************************************************************)
EXTENDS DockerMonitor

CONSTANTS h1, h2

(* A VM that is to be monitored when this host is h1. *)
Wanted ==
    [registration |-> "True", power_state |-> "Running", resident_on |-> h1,
     guest_metrics |-> "metrics", is_control_domain |-> FALSE, tls |-> TRUE]

Halted == [Wanted EXCEPT !.power_state = "Halted", !.resident_on = NULLREF,
                         !.guest_metrics = NULLREF]

OnOrOff == {Wanted, Halted}

(* The life of a VM: also deregistered, and on the other host.             *)
Life == {Wanted, Halted,
         [Wanted EXCEPT !.registration = "absent", !.tls = FALSE],
         [Wanted EXCEPT !.resident_on = h2, !.tls = FALSE]}
=============================================================================
