----------------------------- MODULE MCVmDisks -----------------------------
(***************************************************************************)
(* A small instance of VmDisks.                                            *)
(***************************************************************************)
EXTENDS VmDisks, TLC

Symmetry ==
    UNION {Permutations(Calls), Permutations(Pairs), Permutations(Vdis \ {Data, Iso}),
           Permutations(Vbds \ {DataVbd})}
=============================================================================
