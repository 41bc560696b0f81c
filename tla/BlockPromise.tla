---------------------------- MODULE BlockPromise ----------------------------
(***************************************************************************)
(* What the receiver group promises session_manager about one block: once  *)
(* k different symbols have been collected somebody decodes it, its bytes  *)
(* are durable before it is called complete, and it is reported at most    *)
(* once, and only then.                                                    *)
(***************************************************************************)
EXTENDS Integers, FiniteSets

CONSTANTS Symbols, \* symbol ids of the block
          K        \* symbols needed to decode

VARIABLES collected, \* symbols registered by any receiver
          stage,     \* how far the block is
          reports    \* BlockDecoded messages sent for it

blockVars == <<collected, stage, reports>>

BlockInit == /\ collected = {}
             /\ stage = "collecting"
             /\ reports = 0

\* Symbols may go on arriving whatever the stage is.
Collect == /\ \E s \in Symbols \ collected : collected' = collected \cup {s}
           /\ UNCHANGED <<stage, reports>>

Decode == /\ stage = "collecting"
          /\ Cardinality(collected) >= K
          /\ stage' = "decoding"
          /\ UNCHANGED <<collected, reports>>

MakeDurable == /\ stage = "decoding"
               /\ stage' = "durable"
               /\ UNCHANGED <<collected, reports>>

Finish == /\ stage = "durable"
          /\ stage' = "complete"
          /\ UNCHANGED <<collected, reports>>

Report == /\ stage = "complete"
          /\ reports = 0
          /\ reports' = 1
          /\ UNCHANGED <<collected, stage>>

BlockNext == Collect \/ Decode \/ MakeDurable \/ Finish \/ Report

BlockSpec == BlockInit /\ [][BlockNext]_blockVars
=============================================================================
