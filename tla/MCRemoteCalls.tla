--------------------------- MODULE MCRemoteCalls ---------------------------
(***************************************************************************)
(* A small instance of RemoteCalls: one call of the plugin or one script   *)
(* at a time, and two that only connect, and so meet at the host key.      *)
(***************************************************************************)
EXTENDS RemoteCalls, TLC

OneOrTwo == [o \in Ops |-> IF o = "monitor" THEN 2 ELSE 1]
TwoOrOne == [o \in Ops |-> IF o = "plugin" THEN 2 ELSE 1]
=============================================================================
