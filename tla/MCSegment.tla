----------------------------- MODULE MCSegment ------------------------------
(***************************************************************************)
(* Instances of Segment for TLC.                                           *)
(***************************************************************************)
EXTENDS Segment, TLC

CONSTANTS r1, r2, r3

ThreeProcs == {r1, r2, r3}

Symmetry == Permutations(Procs)
=============================================================================
