--------------------------- MODULE MCEventStream ---------------------------
(***************************************************************************)
(* A small instance of EventStream: a flat event, one with an object in    *)
(* it, which is larger than a chunk, and two with a brace in a string.     *)
(***************************************************************************)
EXTENDS EventStream

CONSTANTS flat, nested, opening, closing

Events ==
    (flat :> <<"{", "text", "}">>) @@ (nested :> <<"{", "{", "}", "}">>) @@
    (opening :> <<"{", "q{", "}">>) @@ (closing :> <<"{", "q}", "text", "}">>)
=============================================================================
