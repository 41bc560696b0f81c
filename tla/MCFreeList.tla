----------------------------- MODULE MCFreeList -----------------------------
(***************************************************************************)
(* Instances of FreeList for TLC.                                          *)
(***************************************************************************)
EXTENDS FreeList

CONSTANTS r1, r2

TwoProcs == {r1, r2}

\* FREE_LIST_END is one more than the last index; a zero payload reads as the
\* index of slot 0, the most misleading one.
End == SlotCount
ZeroPayload == {0}
=============================================================================
