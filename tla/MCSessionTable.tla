--------------------------- MODULE MCSessionTable ---------------------------
(***************************************************************************)
(* Instances of SessionTable for TLC.                                      *)
(***************************************************************************)
EXTENDS SessionTable, TLC

CONSTANTS r1, r2, r3, a, b, s1, s2

TwoProcs == {r1, r2}
ThreeProcs == {r1, r2, r3}
TwoSessions == {a, b}
OneSlot == {s1}
TwoSlots == {s1, s2}

Symmetry == Permutations(Procs) \cup Permutations(Sessions)
=============================================================================
