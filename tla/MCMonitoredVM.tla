--------------------------- MODULE MCMonitoredVM ---------------------------
(***************************************************************************)
(* Small instances of MonitoredVM.                                         *)
(***************************************************************************)
EXTENDS MonitoredVM

(* Calls that do not register, so that the registration only goes.         *)
Calls == {"deregister", "mark", "pause"}

(* Everything that may go wrong but a Docker that answers with a failure.  *)
Failures == {"xapi", "unexpected", "crash"}
=============================================================================
