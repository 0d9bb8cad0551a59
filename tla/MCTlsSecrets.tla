---------------------------- MODULE MCTlsSecrets ----------------------------
(***************************************************************************)
(* Small instances of TlsSecrets.                                          *)
(***************************************************************************)
EXTENDS TlsSecrets

CONSTANTS a, b

(* One VM and one more, its clone; connections are made to one of them.    *)
Pair == {a, b}
One == {a}

(* Calls fail and monitors restart at any time; nobody touches a VM while  *)
(* it is given new secrets, and some monitor saw the last of each VM.      *)
Failures == {"xapi", "crash"}
=============================================================================
