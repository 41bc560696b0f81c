--------------------------- MODULE MCReceiverLoop ---------------------------
(***************************************************************************)
(* Instances of ReceiverLoop for TLC.                                      *)
(***************************************************************************)
EXTENDS ReceiverLoop, TLC

CONSTANTS a, b

OneSession == {a}
TwoSessions == {a, b}

Symmetry == Permutations(Sessions)
=============================================================================
