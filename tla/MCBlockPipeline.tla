-------------------------- MODULE MCBlockPipeline ---------------------------
(***************************************************************************)
(* Instances of BlockPipeline for TLC.                                     *)
(***************************************************************************)
EXTENDS BlockPipeline, TLC

CONSTANTS r1, r2

TwoProcs == {r1, r2}
=============================================================================
