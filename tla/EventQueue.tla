----------------------------- MODULE EventQueue -----------------------------
(***************************************************************************)
(* What the stream of Docker's events promises to handle_docker_event: the *)
(* events that Docker sent after the subscription, each once and in their  *)
(* order, until the stream ends.  It may end before the last of them.      *)
(***************************************************************************)
EXTENDS Naturals, Sequences

CONSTANT Messages

VARIABLES sent, delivered, ended

vars == <<sent, delivered, ended>>

Init == sent = <<>> /\ delivered = <<>> /\ ended = FALSE

Send(m) ==
    /\ sent' = Append(sent, m)
    /\ UNCHANGED <<delivered, ended>>

Deliver ==
    /\ ~ended /\ Len(delivered) < Len(sent)
    /\ delivered' = Append(delivered, sent[Len(delivered) + 1])
    /\ UNCHANGED <<sent, ended>>

End ==
    /\ ~ended /\ ended' = TRUE
    /\ UNCHANGED <<sent, delivered>>

Next == (\E m \in Messages : Send(m)) \/ Deliver \/ End

Spec == Init /\ [][Next]_vars
=============================================================================
