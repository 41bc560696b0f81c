--------------------------- MODULE MCBlockWriter ----------------------------
(***************************************************************************)
(* Instances of BlockWriter for TLC.                                       *)
(***************************************************************************)
EXTENDS BlockWriter, TLC

CONSTANTS r1, r2

TwoProcs == {r1, r2}

Symmetry == Permutations(Procs)
=============================================================================
