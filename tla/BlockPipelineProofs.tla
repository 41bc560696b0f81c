------------------------ MODULE BlockPipelineProofs -------------------------
(***************************************************************************)
(* What TLAPS proves of one block filled by every receiver at once, for    *)
(* any number of receivers, symbols, slots and deaths: one decodes, the    *)
(* count follows the mask, and the group keeps the promise of              *)
(* BlockPromise.                                                           *)
(*                                                                         *)
(* What depends on the links is proved of behaviours in which no decoder   *)
(* has gathered a symbol by its bit before its link (~hasty).  That can    *)
(* happen (the run Block_link), and the decoder then reads, and may free,  *)
(* a slot that is not the symbol's; nothing else can do either.            *)
(***************************************************************************)
EXTENDS BlockPipeline, FiniteSetTheorems, TLAPS

-----------------------------------------------------------------------------
(* The inductive invariant. *)

\* What a process has in hand at each point of handle_data_packet().
InHandTyped ==
  \A p \in Procs :
    /\ pc[p] # "idle" => sym[p] \in Symbols
    /\ pc[p] \in {"register", "link", "count"} => slot[p] \in Slots
    /\ pc[p] = "clear" => at[p] \in Symbols
    /\ pc[p] \in Decoding \cup {"claim"} => seen >= K

\* The latch goes PENDING, CLAIMED, COMPLETE with its one decoder, and the block
\* is durable before it is COMPLETE.
ClaimedOnce ==
  /\ OneDecoder
  /\ decoded # "COMPLETE" => reports = 0
  /\ decoded = "PENDING" => ~durable
  /\ decoded = "COMPLETE" => durable
  /\ \A p \in Procs : pc[p] = "complete" => durable

\* The links the release loop has still to free name slots.
LinksLeft ==
  \A s \in Symbols : slotIdx[s] = SlotFree =>
    /\ decoded = "COMPLETE"
    /\ \A p \in Procs : pc[p] \in {"release", "clear"} => s < at[p]

Registering == {p \in Procs : pc[p] \in {"link", "count"}}

\* TypeOK in two parts: the locals of handle_data_packet(), and what outlives it.
LocalsTyped ==
  /\ pc \in [Procs -> Labels]
  /\ sym \in [Procs -> Symbols \cup {None}]
  /\ slot \in [Procs -> Slots \cup {None}]
  /\ at \in [Procs -> 0 .. N]
  /\ got \in [Procs -> SUBSET Symbols]
  /\ ptr \in [Procs -> [Symbols -> Slots \cup {SlotFree, None}]]

SharedTyped ==
  /\ present \in SUBSET Symbols
  /\ slotIdx \in [Symbols -> Slots \cup {SlotFree}]
  /\ seen \in 0 .. N
  /\ decoded \in {"PENDING", "CLAIMED", "COMPLETE"}
  /\ free \in SUBSET Slots
  /\ content \in [Slots -> Symbols \cup {None}]
  /\ file \in {"empty", "right", "wrong"}
  /\ durable \in BOOLEAN
  /\ reports \in Nat
  /\ crashes \in 0 .. MaxCrashes
  /\ won \in [Symbols -> Slots \cup {None}]
  /\ misfreed \in BOOLEAN
  /\ hasty \in BOOLEAN

IInv == TypeOK /\ InHandTyped /\ ClaimedOnce /\ LinksLeft /\ SeenCountsPresent /\ ThresholdNoticed

-----------------------------------------------------------------------------
(* Lemmas *)

\* Sets of symbols and of processes are finite.
LEMMA SymbolSets ==
  ASSUME NEW S \in SUBSET Symbols
  PROVE  /\ IsFiniteSet(S)
         /\ Cardinality(S) \in 0 .. N
         /\ Cardinality(S) = N => S = Symbols
<1>1. IsFiniteSet(Symbols) /\ Cardinality(Symbols) = N
  <2>1. /\ IsFiniteSet(0 .. N - 1)
        /\ Cardinality(0 .. N - 1) = IF 0 > N - 1 THEN 0 ELSE (N - 1) - 0 + 1
    BY FS_Interval, BlockAssumption
  <2> QED BY <2>1, BlockAssumption DEF Symbols
<1>2. /\ IsFiniteSet(S)
      /\ Cardinality(S) <= Cardinality(Symbols)
      /\ Cardinality(S) = Cardinality(Symbols) => S = Symbols
  BY <1>1, FS_Subset
<1>3. Cardinality(S) \in Nat
  BY <1>2, FS_CardinalityType
<1> QED BY <1>1, <1>2, <1>3, BlockAssumption

\* The receivers between their bit and their count are finitely many, so they can be counted.
LEMMA RegisteringSet ==
  /\ IsFiniteSet(Registering)
  /\ Cardinality(Registering) \in Nat
  /\ \A p \in Registering : Cardinality(Registering) >= 1
<1>1. IsFiniteSet(Registering)
  BY BlockAssumption, FS_Subset DEF Registering
<1>2. Cardinality(Registering) \in Nat
  BY <1>1, FS_CardinalityType
<1>3. Cardinality(Registering) = 0 <=> Registering = {}
  BY <1>1, FS_EmptySet
<1> QED BY <1>1, <1>2, <1>3

\* Steps that neither begin nor end a registration.
LEMMA SameCounts ==
  ASSUME SeenCountsPresent, Registering' = Registering, UNCHANGED <<present, seen, crashes>>
  PROVE  SeenCountsPresent'
BY DEF SeenCountsPresent, Registering

\* A return leaves every local with its type.
LEMMA ReturnTyped ==
  ASSUME LocalsTyped, NEW p \in Procs, Return(p) PROVE LocalsTyped'
<1>1. pc' \in [Procs -> Labels] /\ sym' \in [Procs -> Symbols \cup {None}]
  BY DEF Return, Goto, LocalsTyped, Labels
<1>2. slot' \in [Procs -> Slots \cup {None}] /\ at' \in [Procs -> 0 .. N]
  BY BlockAssumption DEF Return, LocalsTyped
<1>3. got' \in [Procs -> SUBSET Symbols]
  BY DEF Return, LocalsTyped
<1>4. ptr' \in [Procs -> [Symbols -> Slots \cup {SlotFree, None}]]
  <2>1. [s \in Symbols |-> None] \in [Symbols -> Slots \cup {SlotFree, None}]
    OBVIOUS
  <2> QED BY <2>1 DEF Return, LocalsTyped
<1> QED BY <1>1, <1>2, <1>3, <1>4 DEF LocalsTyped

-----------------------------------------------------------------------------
(* One lemma per action: each keeps the invariant. *)

\* A packet arrives.
LEMMA ReceiveInv == ASSUME IInv, NEW p \in Procs, Receive(p) PROVE IInv'
<1> USE BlockAssumption DEF IInv, Receive
<1>1. LocalsTyped /\ SharedTyped
  BY DEF TypeOK, LocalsTyped, SharedTyped
<1>2. LocalsTyped'
  BY <1>1 DEF LocalsTyped, InHandTyped, Goto, Labels, Decoding, SlotFree, Symbols
<1>3. SeenCountsPresent'
  <2>1. Registering' = Registering
    BY <1>1 DEF LocalsTyped, Registering, Goto
  <2> QED BY <2>1, SameCounts DEF entry
<1>4. SharedTyped'
  BY <1>1 DEF SharedTyped, InHandTyped, entry, arena, disk, SlotFree
<1>5. InHandTyped'
  BY <1>1 DEF LocalsTyped, SharedTyped, InHandTyped, Symbols, Decoding, Goto, entry
<1>6. ClaimedOnce'
  BY <1>1 DEF LocalsTyped, SharedTyped, ClaimedOnce, OneDecoder, Decoding, Goto, entry,
              disk
<1>7. LinksLeft'
  BY <1>1 DEF LocalsTyped, SharedTyped, LinksLeft, ClaimedOnce, OneDecoder, Decoding,
              Goto, entry
<1>8. ThresholdNoticed'
  BY <1>1 DEF LocalsTyped, SharedTyped, ThresholdNoticed, Goto, entry
<1>9. TypeOK'
  BY <1>2, <1>4 DEF TypeOK, LocalsTyped, SharedTyped
<1> QED BY <1>3, <1>5, <1>6, <1>7, <1>8, <1>9

\* The look at the mask.
LEMMA CheckPresentInv == ASSUME IInv, NEW p \in Procs, CheckPresent(p) PROVE IInv'
<1> USE BlockAssumption DEF IInv, CheckPresent
<1>1. LocalsTyped /\ SharedTyped
  BY DEF TypeOK, LocalsTyped, SharedTyped
<1>2. LocalsTyped'
  <2>1. CASE Return(p)
    BY <1>1, <2>1, ReturnTyped
  <2>2. CASE ~Return(p)
    BY <1>1, <2>2 DEF LocalsTyped, Goto, locals, Labels, Decoding
  <2> QED BY <2>1, <2>2
<1>3. SeenCountsPresent'
  <2>1. Registering' = Registering
    BY <1>1 DEF LocalsTyped, Registering, Goto, Return
  <2> QED BY <2>1, SameCounts DEF entry
<1>4. SharedTyped'
  BY <1>1 DEF SharedTyped, InHandTyped, entry, arena, disk, SlotFree
<1>5. InHandTyped'
  BY <1>1 DEF LocalsTyped, SharedTyped, InHandTyped, Symbols, Decoding, Goto, Return,
              entry, locals
<1>6. ClaimedOnce'
  <2>1. pc[p] \notin Decoding /\ pc'[p] \notin Decoding
    BY <1>1 DEF LocalsTyped, Decoding, Goto, Return
  <2>2. \A q \in Procs \ {p} : pc'[q] = pc[q]
    BY <1>1 DEF LocalsTyped, Goto, Return
  <2> QED BY <2>1, <2>2 DEF ClaimedOnce, OneDecoder, Decoding, entry, disk
<1>7. LinksLeft'
  BY <1>1 DEF LocalsTyped, SharedTyped, LinksLeft, ClaimedOnce, OneDecoder, Decoding,
              Goto, Return, entry, locals
<1>8. ThresholdNoticed'
  BY <1>1 DEF LocalsTyped, SharedTyped, ThresholdNoticed, Goto, Return, entry
<1>9. TypeOK'
  BY <1>2, <1>4 DEF TypeOK, LocalsTyped, SharedTyped
<1> QED BY <1>3, <1>5, <1>6, <1>7, <1>8, <1>9

\* alloc_slot() and the copy of the payload.
LEMMA AllocSlotInv == ASSUME IInv, NEW p \in Procs, AllocSlot(p) PROVE IInv'
<1> USE BlockAssumption DEF IInv, AllocSlot
<1>1. LocalsTyped /\ SharedTyped
  BY DEF TypeOK, LocalsTyped, SharedTyped
<1>2. LocalsTyped'
  <2>1. slot' \in [Procs -> Slots \cup {None}]
    BY <1>1 DEF LocalsTyped, SharedTyped
  <2> QED BY <1>1, <2>1 DEF LocalsTyped, Goto, Labels
<1>3. SeenCountsPresent'
  <2>1. Registering' = Registering
    BY <1>1 DEF LocalsTyped, Registering, Goto
  <2> QED BY <2>1, SameCounts DEF entry
<1>4. SharedTyped'
  BY <1>1 DEF SharedTyped, InHandTyped, entry, disk, SlotFree
<1>5. InHandTyped'
  BY <1>1 DEF LocalsTyped, SharedTyped, InHandTyped, Symbols, Decoding, Goto, entry
<1>6. ClaimedOnce'
  BY <1>1 DEF LocalsTyped, SharedTyped, ClaimedOnce, OneDecoder, Decoding, Goto, entry,
              disk
<1>7. LinksLeft'
  BY <1>1 DEF LocalsTyped, SharedTyped, LinksLeft, ClaimedOnce, OneDecoder, Decoding,
              Goto, entry
<1>8. ThresholdNoticed'
  BY <1>1 DEF LocalsTyped, SharedTyped, ThresholdNoticed, Goto, entry
<1>9. TypeOK'
  BY <1>2, <1>4 DEF TypeOK, LocalsTyped, SharedTyped
<1> QED BY <1>3, <1>5, <1>6, <1>7, <1>8, <1>9

\* The drop of a packet there is no slot for.
LEMMA ArenaExhaustedInv == ASSUME IInv, NEW p \in Procs, ArenaExhausted(p) PROVE IInv'
<1> USE BlockAssumption DEF IInv, ArenaExhausted
<1>1. LocalsTyped /\ SharedTyped
  BY DEF TypeOK, LocalsTyped, SharedTyped
<1>2. LocalsTyped'
  BY <1>1, ReturnTyped
<1>3. SeenCountsPresent'
  <2>1. Registering' = Registering
    BY <1>1 DEF LocalsTyped, Registering, Goto, Return
  <2> QED BY <2>1, SameCounts DEF entry
<1>4. SharedTyped'
  BY <1>1 DEF SharedTyped, InHandTyped, entry, arena, disk, SlotFree
<1>5. InHandTyped'
  BY <1>1 DEF LocalsTyped, SharedTyped, InHandTyped, Symbols, Decoding, Goto, Return,
              entry
<1>6. ClaimedOnce'
  BY <1>1 DEF LocalsTyped, SharedTyped, ClaimedOnce, OneDecoder, Decoding, Goto, Return,
              entry, disk
<1>7. LinksLeft'
  BY <1>1 DEF LocalsTyped, SharedTyped, LinksLeft, ClaimedOnce, OneDecoder, Decoding,
              Goto, Return, entry
<1>8. ThresholdNoticed'
  BY <1>1 DEF LocalsTyped, SharedTyped, ThresholdNoticed, Goto, Return, entry
<1>9. TypeOK'
  BY <1>2, <1>4 DEF TypeOK, LocalsTyped, SharedTyped
<1> QED BY <1>3, <1>5, <1>6, <1>7, <1>8, <1>9

\* The CAS that wins the symbol.
LEMMA RegisterBitInv == ASSUME IInv, NEW p \in Procs, RegisterBit(p) PROVE IInv'
<1> USE BlockAssumption DEF IInv, RegisterBit
<1>1. LocalsTyped /\ SharedTyped
  BY DEF TypeOK, LocalsTyped, SharedTyped
<1>2. LocalsTyped'
  BY <1>1 DEF LocalsTyped, InHandTyped, Goto, locals, Labels, Decoding, SlotFree,
              Symbols
<1>3. SeenCountsPresent'
  <2>1. Registering' = Registering \cup {p} /\ p \notin Registering
    BY <1>1 DEF LocalsTyped, Registering, Goto
  <2>2. Cardinality(Registering') = Cardinality(Registering) + 1
    BY <2>1, RegisteringSet, FS_AddElement
  <2>3. Cardinality(present') = Cardinality(present) + 1
    BY <1>1, SymbolSets, FS_AddElement DEF SharedTyped
  <2> QED BY <1>1, <2>2, <2>3, RegisteringSet, SymbolSets
          DEF SeenCountsPresent, Registering, SharedTyped
<1>4. SharedTyped'
  BY <1>1 DEF SharedTyped, InHandTyped, arena, disk, SlotFree
<1>5. InHandTyped'
  BY <1>1 DEF LocalsTyped, SharedTyped, InHandTyped, Symbols, Decoding, Goto, locals
<1>6. ClaimedOnce'
  BY <1>1 DEF LocalsTyped, SharedTyped, ClaimedOnce, OneDecoder, Decoding, Goto, disk
<1>7. LinksLeft'
  BY <1>1 DEF LocalsTyped, SharedTyped, LinksLeft, ClaimedOnce, OneDecoder, Decoding,
              Goto, locals
<1>8. ThresholdNoticed'
  BY <1>1 DEF LocalsTyped, SharedTyped, ThresholdNoticed, Goto
<1>9. TypeOK'
  BY <1>2, <1>4 DEF TypeOK, LocalsTyped, SharedTyped
<1> QED BY <1>3, <1>5, <1>6, <1>7, <1>8, <1>9

\* The slot of a duplicate goes back.
LEMMA RegisterDuplicateInv == ASSUME IInv, NEW p \in Procs, RegisterDuplicate(p) PROVE IInv'
<1> USE BlockAssumption DEF IInv, RegisterDuplicate
<1>1. LocalsTyped /\ SharedTyped
  BY DEF TypeOK, LocalsTyped, SharedTyped
<1>2. LocalsTyped'
  BY <1>1, ReturnTyped
<1>3. SeenCountsPresent'
  <2>1. Registering' = Registering
    BY <1>1 DEF LocalsTyped, Registering, Goto, Return
  <2> QED BY <2>1, SameCounts DEF entry
<1>4. SharedTyped'
  BY <1>1 DEF SharedTyped, InHandTyped, entry, disk, FreeSlot, SlotFree
<1>5. InHandTyped'
  BY <1>1 DEF LocalsTyped, SharedTyped, InHandTyped, Symbols, Decoding, Goto, Return,
              entry
<1>6. ClaimedOnce'
  BY <1>1 DEF LocalsTyped, SharedTyped, ClaimedOnce, OneDecoder, Decoding, Goto, Return,
              entry, disk
<1>7. LinksLeft'
  BY <1>1 DEF LocalsTyped, SharedTyped, LinksLeft, ClaimedOnce, OneDecoder, Decoding,
              Goto, Return, entry
<1>8. ThresholdNoticed'
  BY <1>1 DEF LocalsTyped, SharedTyped, ThresholdNoticed, Goto, Return, entry
<1>9. TypeOK'
  BY <1>2, <1>4 DEF TypeOK, LocalsTyped, SharedTyped
<1> QED BY <1>3, <1>5, <1>6, <1>7, <1>8, <1>9

\* The link is written.
LEMMA RegisterLinkInv == ASSUME IInv, NEW p \in Procs, RegisterLink(p) PROVE IInv'
<1> USE BlockAssumption DEF IInv, RegisterLink
<1>1. LocalsTyped /\ SharedTyped
  BY DEF TypeOK, LocalsTyped, SharedTyped
<1>2. LocalsTyped'
  BY <1>1 DEF LocalsTyped, InHandTyped, Goto, locals, Labels, Decoding, SlotFree,
              Symbols
<1>3. SeenCountsPresent'
  <2>1. Registering' = Registering
    BY <1>1 DEF LocalsTyped, Registering, Goto
  <2> QED BY <2>1, SameCounts
<1>4. SharedTyped'
  BY <1>1 DEF SharedTyped, InHandTyped, arena, disk, SlotFree
<1>5. InHandTyped'
  BY <1>1 DEF LocalsTyped, SharedTyped, InHandTyped, Symbols, Decoding, Goto, locals
<1>6. ClaimedOnce'
  BY <1>1 DEF LocalsTyped, SharedTyped, ClaimedOnce, OneDecoder, Decoding, Goto, disk
<1>7. LinksLeft'
  <2>1. slotIdx' = [slotIdx EXCEPT ![sym[p]] = slot[p]] /\ slot[p] # SlotFree
    BY DEF InHandTyped, Slots, SlotFree
  <2>2. \A s \in Symbols : slotIdx'[s] = SlotFree => slotIdx[s] = SlotFree
    BY <1>1, <2>1 DEF SharedTyped
  <2> QED BY <1>1, <2>2 DEF LocalsTyped, LinksLeft, Goto, locals
<1>8. ThresholdNoticed'
  BY <1>1 DEF LocalsTyped, SharedTyped, ThresholdNoticed, Goto
<1>9. TypeOK'
  BY <1>2, <1>4 DEF TypeOK, LocalsTyped, SharedTyped
<1> QED BY <1>3, <1>5, <1>6, <1>7, <1>8, <1>9

\* seen goes up.
LEMMA RegisterCountInv == ASSUME IInv, NEW p \in Procs, RegisterCount(p) PROVE IInv'
<1> USE BlockAssumption DEF IInv, RegisterCount
<1>1. LocalsTyped /\ SharedTyped
  BY DEF TypeOK, LocalsTyped, SharedTyped
<1>2. LocalsTyped'
  BY <1>1 DEF LocalsTyped, InHandTyped, Goto, locals, Labels, Decoding, SlotFree,
              Symbols
<1>3. SeenCountsPresent'
  <2>1. Registering' = Registering \ {p} /\ p \in Registering
    BY <1>1 DEF LocalsTyped, Registering, Goto
  <2>2. Cardinality(Registering') = Cardinality(Registering) - 1
    BY <2>1, RegisteringSet, FS_RemoveElement
  <2> QED BY <1>1, <2>2, RegisteringSet, SymbolSets
          DEF SeenCountsPresent, Registering, SharedTyped
<1>4. SharedTyped'
  <2>1. seen + 1 \in 0 .. N
    <3>1. p \in Registering
      BY DEF Registering
    <3> QED BY <1>1, <3>1, RegisteringSet, SymbolSets
            DEF SeenCountsPresent, Registering, SharedTyped
  <2> QED BY <1>1, <2>1 DEF SharedTyped, arena, disk
<1>5. InHandTyped'
  BY <1>1 DEF LocalsTyped, SharedTyped, InHandTyped, Symbols, Decoding, Goto, locals
<1>6. ClaimedOnce'
  BY <1>1 DEF LocalsTyped, SharedTyped, ClaimedOnce, OneDecoder, Decoding, Goto, disk
<1>7. LinksLeft'
  BY <1>1 DEF LocalsTyped, SharedTyped, LinksLeft, ClaimedOnce, OneDecoder, Decoding,
              Goto, locals
<1>8. ThresholdNoticed'
  BY <1>1 DEF LocalsTyped, SharedTyped, ThresholdNoticed, Goto
<1>9. TypeOK'
  BY <1>2, <1>4 DEF TypeOK, LocalsTyped, SharedTyped
<1> QED BY <1>3, <1>5, <1>6, <1>7, <1>8, <1>9

\* The look at seen.
LEMMA CheckThresholdInv == ASSUME IInv, NEW p \in Procs, CheckThreshold(p) PROVE IInv'
<1> USE BlockAssumption DEF IInv, CheckThreshold
<1>1. LocalsTyped /\ SharedTyped
  BY DEF TypeOK, LocalsTyped, SharedTyped
<1>2. LocalsTyped'
  <2>1. CASE Return(p)
    BY <1>1, <2>1, ReturnTyped
  <2>2. CASE ~Return(p)
    BY <1>1, <2>2 DEF LocalsTyped, Goto, locals, Labels, Decoding
  <2> QED BY <2>1, <2>2
<1>3. SeenCountsPresent'
  <2>1. Registering' = Registering
    BY <1>1 DEF LocalsTyped, Registering, Goto, Return
  <2> QED BY <2>1, SameCounts DEF entry
<1>4. SharedTyped'
  BY <1>1 DEF SharedTyped, InHandTyped, entry, arena, disk, SlotFree
<1>5. InHandTyped'
  BY <1>1 DEF LocalsTyped, SharedTyped, InHandTyped, Symbols, Decoding, Goto, Return,
              entry, locals
<1>6. ClaimedOnce'
  <2>1. \A q \in Procs : /\ pc'[q] \in Decoding \cup {"complete"} => pc'[q] = pc[q]
                         /\ pc[q] \in Decoding => pc'[q] = pc[q]
    BY <1>1 DEF LocalsTyped, Decoding, Goto, Return
  <2> QED BY <1>1, <2>1 DEF ClaimedOnce, OneDecoder, Decoding, entry, disk
<1>7. LinksLeft'
  BY <1>1 DEF LocalsTyped, SharedTyped, LinksLeft, ClaimedOnce, OneDecoder, Decoding,
              Goto, Return, entry, locals
<1>8. ThresholdNoticed'
  BY <1>1 DEF LocalsTyped, SharedTyped, ThresholdNoticed, Goto, Return, entry
<1>9. TypeOK'
  BY <1>2, <1>4 DEF TypeOK, LocalsTyped, SharedTyped
<1> QED BY <1>3, <1>5, <1>6, <1>7, <1>8, <1>9

\* The CAS on the latch.
LEMMA TryClaimInv == ASSUME IInv, NEW p \in Procs, TryClaim(p) PROVE IInv'
<1> USE BlockAssumption DEF IInv, TryClaim
<1>1. LocalsTyped /\ SharedTyped
  BY DEF TypeOK, LocalsTyped, SharedTyped
<1>2. LocalsTyped'
  <2>1. CASE Return(p)
    BY <1>1, <2>1, ReturnTyped
  <2>2. CASE ~Return(p)
    BY <1>1, <2>2 DEF LocalsTyped, Goto, locals, Labels, Decoding
  <2> QED BY <2>1, <2>2
<1>3. SeenCountsPresent'
  <2>1. Registering' = Registering
    BY <1>1 DEF LocalsTyped, Registering, Goto, Return
  <2> QED BY <2>1, SameCounts
<1>4. SharedTyped'
  BY <1>1 DEF SharedTyped, InHandTyped, arena, disk, SlotFree
<1>5. InHandTyped'
  BY <1>1 DEF LocalsTyped, SharedTyped, InHandTyped, Symbols, Decoding, Goto, Return,
              locals
<1>6. ClaimedOnce'
  <2>1. CASE decoded = "PENDING"
    <3>1. \A q \in Procs : pc[q] \notin Decoding
      BY <2>1 DEF ClaimedOnce, OneDecoder
    <3> QED BY <1>1, <2>1, <3>1 DEF ClaimedOnce, OneDecoder, LocalsTyped, Decoding,
                                    Goto, disk
  <2>2. CASE decoded # "PENDING"
    BY <1>1, <2>2 DEF ClaimedOnce, OneDecoder, LocalsTyped, Decoding, Goto, Return, disk
  <2> QED BY <2>1, <2>2
<1>7. LinksLeft'
  BY <1>1 DEF LocalsTyped, SharedTyped, LinksLeft, ClaimedOnce, OneDecoder, Decoding,
              Goto, Return, locals
<1>8. ThresholdNoticed'
  BY <1>1 DEF LocalsTyped, SharedTyped, ThresholdNoticed, Goto, Return
<1>9. TypeOK'
  BY <1>2, <1>4 DEF TypeOK, LocalsTyped, SharedTyped
<1> QED BY <1>3, <1>5, <1>6, <1>7, <1>8, <1>9

\* One turn of the gather loop.
LEMMA GatherInv == ASSUME IInv, NEW p \in Procs, Gather(p) PROVE IInv'
<1> USE BlockAssumption DEF IInv, Gather
<1>1. LocalsTyped /\ SharedTyped
  BY DEF TypeOK, LocalsTyped, SharedTyped
<1>2. LocalsTyped'
  <2>1. at[p] \in Symbols /\ at' \in [Procs -> 0 .. N]
    BY <1>1 DEF LocalsTyped, Symbols
  <2>2. got' \in [Procs -> SUBSET Symbols]
    BY <1>1, <2>1 DEF LocalsTyped
  <2>3. [ptr[p] EXCEPT ![at[p]] = slotIdx[at[p]]] \in [Symbols -> Slots \cup {SlotFree, None}]
    BY <1>1, <2>1 DEF LocalsTyped, SharedTyped
  <2>4. ptr' \in [Procs -> [Symbols -> Slots \cup {SlotFree, None}]]
    BY <1>1, <2>3 DEF LocalsTyped
  <2> QED BY <1>1, <2>1, <2>2, <2>4 DEF LocalsTyped
<1>3. SeenCountsPresent'
  <2>1. Registering' = Registering
    BY <1>1 DEF LocalsTyped, Registering
  <2> QED BY <2>1, SameCounts DEF entry
<1>4. SharedTyped'
  BY <1>1 DEF SharedTyped, InHandTyped, entry, arena, disk, SlotFree
<1>5. InHandTyped'
  BY <1>1 DEF LocalsTyped, SharedTyped, InHandTyped, Symbols, Decoding, entry
<1>6. ClaimedOnce'
  BY <1>1 DEF LocalsTyped, SharedTyped, ClaimedOnce, OneDecoder, Decoding, entry, disk
<1>7. LinksLeft'
  BY <1>1 DEF LocalsTyped, SharedTyped, LinksLeft, ClaimedOnce, OneDecoder, Decoding,
              entry
<1>8. ThresholdNoticed'
  BY <1>1 DEF LocalsTyped, SharedTyped, ThresholdNoticed, entry
<1>9. TypeOK'
  BY <1>2, <1>4 DEF TypeOK, LocalsTyped, SharedTyped
<1> QED BY <1>3, <1>5, <1>6, <1>7, <1>8, <1>9

\* decode() and write_block().
LEMMA DecodeAndWriteInv == ASSUME IInv, NEW p \in Procs, DecodeAndWrite(p) PROVE IInv'
<1> USE BlockAssumption DEF IInv, DecodeAndWrite
<1>1. LocalsTyped /\ SharedTyped
  BY DEF TypeOK, LocalsTyped, SharedTyped
<1>2. LocalsTyped'
  BY <1>1 DEF LocalsTyped, InHandTyped, Goto, locals, Labels, Decoding, SlotFree,
              Symbols
<1>3. SeenCountsPresent'
  <2>1. Registering' = Registering
    BY <1>1 DEF LocalsTyped, Registering, Goto
  <2> QED BY <2>1, SameCounts DEF entry
<1>4. SharedTyped'
  BY <1>1 DEF SharedTyped, entry, arena, Bytes
<1>5. InHandTyped'
  BY <1>1 DEF LocalsTyped, SharedTyped, InHandTyped, Symbols, Decoding, Goto, entry,
              locals
<1>6. ClaimedOnce'
  BY <1>1 DEF LocalsTyped, SharedTyped, ClaimedOnce, OneDecoder, Decoding, Goto, entry
<1>7. LinksLeft'
  BY <1>1 DEF LocalsTyped, SharedTyped, LinksLeft, ClaimedOnce, OneDecoder, Decoding,
              Goto, entry, locals
<1>8. ThresholdNoticed'
  BY <1>1 DEF LocalsTyped, SharedTyped, ThresholdNoticed, Goto, entry
<1>9. TypeOK'
  BY <1>2, <1>4 DEF TypeOK, LocalsTyped, SharedTyped
<1> QED BY <1>3, <1>5, <1>6, <1>7, <1>8, <1>9

\* The decode or the write fails.
LEMMA DecodeFailsInv == ASSUME IInv, NEW p \in Procs, DecodeFails(p) PROVE IInv'
<1> USE BlockAssumption DEF IInv, DecodeFails
<1>1. LocalsTyped /\ SharedTyped
  BY DEF TypeOK, LocalsTyped, SharedTyped
<1>2. LocalsTyped'
  BY <1>1, ReturnTyped
<1>3. SeenCountsPresent'
  <2>1. Registering' = Registering
    BY <1>1 DEF LocalsTyped, Registering, Goto, Return
  <2> QED BY <2>1, SameCounts DEF entry
<1>4. SharedTyped'
  BY <1>1 DEF SharedTyped, InHandTyped, entry, arena, disk, SlotFree
<1>5. InHandTyped'
  BY <1>1 DEF LocalsTyped, SharedTyped, InHandTyped, Symbols, Decoding, Goto, Return,
              entry
<1>6. ClaimedOnce'
  BY <1>1 DEF LocalsTyped, SharedTyped, ClaimedOnce, OneDecoder, Decoding, Goto, Return,
              entry, disk
<1>7. LinksLeft'
  BY <1>1 DEF LocalsTyped, SharedTyped, LinksLeft, ClaimedOnce, OneDecoder, Decoding,
              Goto, Return, entry
<1>8. ThresholdNoticed'
  BY <1>1 DEF LocalsTyped, SharedTyped, ThresholdNoticed, Goto, Return, entry
<1>9. TypeOK'
  BY <1>2, <1>4 DEF TypeOK, LocalsTyped, SharedTyped
<1> QED BY <1>3, <1>5, <1>6, <1>7, <1>8, <1>9

\* flush_block().
LEMMA FlushBlockInv == ASSUME IInv, NEW p \in Procs, FlushBlock(p) PROVE IInv'
<1> USE BlockAssumption DEF IInv, FlushBlock
<1>1. LocalsTyped /\ SharedTyped
  BY DEF TypeOK, LocalsTyped, SharedTyped
<1>2. LocalsTyped'
  BY <1>1 DEF LocalsTyped, InHandTyped, Goto, locals, Labels, Decoding, SlotFree,
              Symbols
<1>3. SeenCountsPresent'
  <2>1. Registering' = Registering
    BY <1>1 DEF LocalsTyped, Registering, Goto
  <2> QED BY <2>1, SameCounts DEF entry
<1>4. SharedTyped'
  BY <1>1 DEF SharedTyped, InHandTyped, entry, arena, SlotFree
<1>5. InHandTyped'
  BY <1>1 DEF LocalsTyped, SharedTyped, InHandTyped, Symbols, Decoding, Goto, entry,
              locals
<1>6. ClaimedOnce'
  BY <1>1 DEF LocalsTyped, SharedTyped, ClaimedOnce, OneDecoder, Decoding, Goto, entry
<1>7. LinksLeft'
  BY <1>1 DEF LocalsTyped, SharedTyped, LinksLeft, ClaimedOnce, OneDecoder, Decoding,
              Goto, entry, locals
<1>8. ThresholdNoticed'
  BY <1>1 DEF LocalsTyped, SharedTyped, ThresholdNoticed, Goto, entry
<1>9. TypeOK'
  BY <1>2, <1>4 DEF TypeOK, LocalsTyped, SharedTyped
<1> QED BY <1>3, <1>5, <1>6, <1>7, <1>8, <1>9

\* flush_block() fails.
LEMMA FlushFailsInv == ASSUME IInv, NEW p \in Procs, FlushFails(p) PROVE IInv'
<1> USE BlockAssumption DEF IInv, FlushFails
<1>1. LocalsTyped /\ SharedTyped
  BY DEF TypeOK, LocalsTyped, SharedTyped
<1>2. LocalsTyped'
  BY <1>1, ReturnTyped
<1>3. SeenCountsPresent'
  <2>1. Registering' = Registering
    BY <1>1 DEF LocalsTyped, Registering, Goto, Return
  <2> QED BY <2>1, SameCounts DEF entry
<1>4. SharedTyped'
  BY <1>1 DEF SharedTyped, InHandTyped, entry, arena, disk, SlotFree
<1>5. InHandTyped'
  BY <1>1 DEF LocalsTyped, SharedTyped, InHandTyped, Symbols, Decoding, Goto, Return,
              entry
<1>6. ClaimedOnce'
  BY <1>1 DEF LocalsTyped, SharedTyped, ClaimedOnce, OneDecoder, Decoding, Goto, Return,
              entry, disk
<1>7. LinksLeft'
  BY <1>1 DEF LocalsTyped, SharedTyped, LinksLeft, ClaimedOnce, OneDecoder, Decoding,
              Goto, Return, entry
<1>8. ThresholdNoticed'
  BY <1>1 DEF LocalsTyped, SharedTyped, ThresholdNoticed, Goto, Return, entry
<1>9. TypeOK'
  BY <1>2, <1>4 DEF TypeOK, LocalsTyped, SharedTyped
<1> QED BY <1>3, <1>5, <1>6, <1>7, <1>8, <1>9

\* The latch becomes COMPLETE.
LEMMA MarkCompleteInv == ASSUME IInv, NEW p \in Procs, MarkComplete(p) PROVE IInv'
<1> USE BlockAssumption DEF IInv, MarkComplete
<1>1. LocalsTyped /\ SharedTyped
  BY DEF TypeOK, LocalsTyped, SharedTyped
<1>2. LocalsTyped'
  BY <1>1 DEF LocalsTyped, InHandTyped, Goto, Labels, Decoding, SlotFree, Symbols
<1>3. SeenCountsPresent'
  <2>1. Registering' = Registering
    BY <1>1 DEF LocalsTyped, Registering, Goto
  <2> QED BY <2>1, SameCounts
<1>4. SharedTyped'
  BY <1>1 DEF SharedTyped, InHandTyped, arena, disk, SlotFree
<1>5. InHandTyped'
  BY <1>1 DEF LocalsTyped, SharedTyped, InHandTyped, Symbols, Decoding, Goto
<1>6. ClaimedOnce'
  BY <1>1 DEF LocalsTyped, SharedTyped, ClaimedOnce, OneDecoder, Decoding, Goto, disk
<1>7. LinksLeft'
  BY <1>1 DEF LocalsTyped, SharedTyped, LinksLeft, ClaimedOnce, OneDecoder, Decoding,
              Goto
<1>8. ThresholdNoticed'
  BY <1>1 DEF LocalsTyped, SharedTyped, ThresholdNoticed, Goto
<1>9. TypeOK'
  BY <1>2, <1>4 DEF TypeOK, LocalsTyped, SharedTyped
<1> QED BY <1>3, <1>5, <1>6, <1>7, <1>8, <1>9

\* free_slot() of the release loop.
LEMMA ReleaseSlotInv == ASSUME IInv, NEW p \in Procs, ReleaseSlot(p) PROVE IInv'
<1> USE BlockAssumption DEF IInv, ReleaseSlot
<1>1. LocalsTyped /\ SharedTyped
  BY DEF TypeOK, LocalsTyped, SharedTyped
<1>2. LocalsTyped'
  BY <1>1 DEF LocalsTyped, InHandTyped, Goto, locals, Labels, Decoding, SlotFree,
              Symbols
<1>3. SeenCountsPresent'
  <2>1. Registering' = Registering
    BY <1>1 DEF LocalsTyped, Registering, Goto
  <2> QED BY <2>1, SameCounts DEF entry
<1>4. SharedTyped'
  <2>1. slotIdx[at[p]] \in Slots
    BY <1>1 DEF LocalsTyped, SharedTyped, LinksLeft
  <2>2. free' \in SUBSET Slots /\ content' \in [Slots -> Symbols \cup {None}]
    BY <1>1, <2>1 DEF SharedTyped, FreeSlot
  <2>3. misfreed' \in BOOLEAN
    BY <1>1 DEF SharedTyped, FreeSlot
  <2> QED BY <1>1, <2>2, <2>3 DEF SharedTyped, entry, disk
<1>5. InHandTyped'
  BY <1>1 DEF LocalsTyped, SharedTyped, InHandTyped, Symbols, Decoding, Goto, entry,
              locals
<1>6. ClaimedOnce'
  BY <1>1 DEF LocalsTyped, SharedTyped, ClaimedOnce, OneDecoder, Decoding, Goto, entry,
              disk
<1>7. LinksLeft'
  BY <1>1 DEF LocalsTyped, SharedTyped, LinksLeft, ClaimedOnce, OneDecoder, Decoding,
              Goto, entry, locals
<1>8. ThresholdNoticed'
  BY <1>1 DEF LocalsTyped, SharedTyped, ThresholdNoticed, Goto, entry
<1>9. TypeOK'
  BY <1>2, <1>4 DEF TypeOK, LocalsTyped, SharedTyped
<1> QED BY <1>3, <1>5, <1>6, <1>7, <1>8, <1>9

\* clear_slot() of the release loop.
LEMMA ClearSlotInv == ASSUME IInv, NEW p \in Procs, ClearSlot(p) PROVE IInv'
<1> USE BlockAssumption DEF IInv, ClearSlot
<1>1. LocalsTyped /\ SharedTyped
  BY DEF TypeOK, LocalsTyped, SharedTyped
<1>2. LocalsTyped'
  BY <1>1 DEF LocalsTyped, InHandTyped, Goto, Labels, Decoding, SlotFree, Symbols
<1>3. SeenCountsPresent'
  <2>1. Registering' = Registering
    BY <1>1 DEF LocalsTyped, Registering, Goto
  <2> QED BY <2>1, SameCounts
<1>4. SharedTyped'
  BY <1>1 DEF SharedTyped, InHandTyped, arena, disk, SlotFree
<1>5. InHandTyped'
  BY <1>1 DEF LocalsTyped, SharedTyped, InHandTyped, Symbols, Decoding, Goto
<1>6. ClaimedOnce'
  BY <1>1 DEF LocalsTyped, SharedTyped, ClaimedOnce, OneDecoder, Decoding, Goto, disk
<1>7. LinksLeft'
  <2>1. \A q \in Procs \ {p} : pc'[q] \notin {"release", "clear"}
    BY <1>1 DEF LocalsTyped, ClaimedOnce, OneDecoder, Decoding, Goto
  <2>2. at'[p] = at[p] + 1 /\ at[p] \in Nat
    BY <1>1 DEF LocalsTyped
  <2>3. decoded = "COMPLETE"
    BY DEF ClaimedOnce, OneDecoder, Decoding
  <2>4. \A s \in Symbols : slotIdx'[s] = SlotFree => s \in Nat /\ (s = at[p] \/ s < at[p])
    BY <1>1 DEF SharedTyped, LinksLeft, Symbols
  <2> QED BY <2>1, <2>2, <2>3, <2>4 DEF LinksLeft
<1>8. ThresholdNoticed'
  BY <1>1 DEF LocalsTyped, SharedTyped, ThresholdNoticed, Goto
<1>9. TypeOK'
  BY <1>2, <1>4 DEF TypeOK, LocalsTyped, SharedTyped
<1> QED BY <1>3, <1>5, <1>6, <1>7, <1>8, <1>9

\* The release loop passes a symbol it does not have.
LEMMA ReleaseSkipInv == ASSUME IInv, NEW p \in Procs, ReleaseSkip(p) PROVE IInv'
<1> USE BlockAssumption DEF IInv, ReleaseSkip
<1>1. LocalsTyped /\ SharedTyped
  BY DEF TypeOK, LocalsTyped, SharedTyped
<1>2. LocalsTyped'
  BY <1>1 DEF LocalsTyped, InHandTyped, Labels, Decoding, SlotFree, Symbols
<1>3. SeenCountsPresent'
  <2>1. Registering' = Registering
    BY <1>1 DEF LocalsTyped, Registering
  <2> QED BY <2>1, SameCounts DEF entry
<1>4. SharedTyped'
  BY <1>1 DEF SharedTyped, InHandTyped, entry, arena, disk, SlotFree
<1>5. InHandTyped'
  BY <1>1 DEF LocalsTyped, SharedTyped, InHandTyped, Symbols, Decoding, entry
<1>6. ClaimedOnce'
  BY <1>1 DEF LocalsTyped, SharedTyped, ClaimedOnce, OneDecoder, Decoding, entry, disk
<1>7. LinksLeft'
  <2>1. \A q \in Procs \ {p} : pc'[q] \notin {"release", "clear"}
    BY <1>1 DEF LocalsTyped, ClaimedOnce, OneDecoder, Decoding
  <2>2. at'[p] = at[p] + 1 /\ at[p] \in Nat
    BY <1>1 DEF LocalsTyped
  <2>3. decoded = "COMPLETE"
    BY DEF ClaimedOnce, OneDecoder, Decoding
  <2>4. \A s \in Symbols : slotIdx'[s] = SlotFree => s \in Nat /\ (s = at[p] \/ s < at[p])
    BY <1>1 DEF SharedTyped, LinksLeft, entry, Symbols
  <2> QED BY <2>1, <2>2, <2>3, <2>4 DEF LinksLeft, entry
<1>8. ThresholdNoticed'
  BY <1>1 DEF LocalsTyped, SharedTyped, ThresholdNoticed, entry
<1>9. TypeOK'
  BY <1>2, <1>4 DEF TypeOK, LocalsTyped, SharedTyped
<1> QED BY <1>3, <1>5, <1>6, <1>7, <1>8, <1>9

\* BlockDecoded.
LEMMA ReportBlockInv == ASSUME IInv, NEW p \in Procs, ReportBlock(p) PROVE IInv'
<1> USE BlockAssumption DEF IInv, ReportBlock
<1>1. LocalsTyped /\ SharedTyped
  BY DEF TypeOK, LocalsTyped, SharedTyped
<1>2. LocalsTyped'
  BY <1>1, ReturnTyped
<1>3. SeenCountsPresent'
  <2>1. Registering' = Registering
    BY <1>1 DEF LocalsTyped, Registering, Goto, Return
  <2> QED BY <2>1, SameCounts DEF entry
<1>4. SharedTyped'
  BY <1>1 DEF SharedTyped, InHandTyped, entry, arena, disk, SlotFree
<1>5. InHandTyped'
  BY <1>1 DEF LocalsTyped, SharedTyped, InHandTyped, Symbols, Decoding, Goto, Return,
              entry
<1>6. ClaimedOnce'
  BY <1>1 DEF LocalsTyped, SharedTyped, ClaimedOnce, OneDecoder, Decoding, Goto, Return,
              entry, disk
<1>7. LinksLeft'
  BY <1>1 DEF LocalsTyped, SharedTyped, LinksLeft, ClaimedOnce, OneDecoder, Decoding,
              Goto, Return, entry
<1>8. ThresholdNoticed'
  BY <1>1 DEF LocalsTyped, SharedTyped, ThresholdNoticed, Goto, Return, entry
<1>9. TypeOK'
  BY <1>2, <1>4 DEF TypeOK, LocalsTyped, SharedTyped
<1> QED BY <1>3, <1>5, <1>6, <1>7, <1>8, <1>9

\* A process dies.
LEMMA CrashInv == ASSUME IInv, NEW p \in Procs, Crash(p) PROVE IInv'
<1> USE BlockAssumption DEF IInv, Crash
<1>1. LocalsTyped /\ SharedTyped
  BY DEF TypeOK, LocalsTyped, SharedTyped
<1>2. LocalsTyped'
  BY <1>1, ReturnTyped
<1>3. SeenCountsPresent'
  <2>1. Registering' = Registering \ {p}
    BY <1>1 DEF LocalsTyped, Registering, Return, Goto
  <2>2. Cardinality(Registering')
          = IF p \in Registering THEN Cardinality(Registering) - 1 ELSE Cardinality(Registering)
    BY <2>1, RegisteringSet, FS_RemoveElement
  <2> QED BY <1>1, <2>2, RegisteringSet, SymbolSets
          DEF entry, SeenCountsPresent, Registering, SharedTyped
<1>4. SharedTyped'
  BY <1>1 DEF SharedTyped, InHandTyped, entry, arena, disk, SlotFree
<1>5. InHandTyped'
  BY <1>1 DEF LocalsTyped, SharedTyped, InHandTyped, Symbols, Decoding, Goto, Return,
              entry
<1>6. ClaimedOnce'
  BY <1>1 DEF LocalsTyped, SharedTyped, ClaimedOnce, OneDecoder, Decoding, Goto, Return,
              entry, disk
<1>7. LinksLeft'
  BY <1>1 DEF LocalsTyped, SharedTyped, LinksLeft, ClaimedOnce, OneDecoder, Decoding,
              Goto, Return, entry
<1>8. ThresholdNoticed'
  BY <1>1 DEF LocalsTyped, SharedTyped, ThresholdNoticed, Goto, Return, entry
<1>9. TypeOK'
  BY <1>2, <1>4 DEF TypeOK, LocalsTyped, SharedTyped
<1> QED BY <1>3, <1>5, <1>6, <1>7, <1>8, <1>9

-----------------------------------------------------------------------------
(* The theorems. *)

\* A block table that open_session() has just zeroed has the invariant.
LEMMA InitInv == Init => IInv
<1> SUFFICES ASSUME Init PROVE IInv
  OBVIOUS
<1> USE BlockAssumption DEF Init
<1>1. TypeOK
  <2>1. LocalsTyped
    BY DEF LocalsTyped, Labels
  <2>2. SharedTyped
    <3>1. 0 \in Slots /\ 0 \in 0 .. N /\ 0 \in 0 .. MaxCrashes
      BY DEF Slots
    <3>2. /\ slotIdx \in [Symbols -> Slots \cup {SlotFree}]
          /\ content \in [Slots -> Symbols \cup {None}]
          /\ won \in [Symbols -> Slots \cup {None}]
      BY <3>1
    <3> QED BY <3>1, <3>2 DEF SharedTyped
  <2> QED BY <2>1, <2>2 DEF TypeOK, LocalsTyped, SharedTyped
<1>2. SeenCountsPresent
  <2>1. Registering = {}
    BY DEF Registering
  <2> QED BY <2>1, FS_EmptySet DEF SeenCountsPresent, Registering
<1>3. InHandTyped /\ ClaimedOnce /\ ThresholdNoticed
  BY DEF InHandTyped, ClaimedOnce, OneDecoder, ThresholdNoticed, Decoding
<1>4. LinksLeft
  BY DEF LinksLeft, SlotFree
<1> QED BY <1>1, <1>2, <1>3, <1>4 DEF IInv

\* Every step keeps the invariant.
LEMMA NextInv == IInv /\ [Next]_vars => IInv'
<1> SUFFICES ASSUME IInv, [Next]_vars PROVE IInv'
  OBVIOUS
<1>1. CASE UNCHANGED vars
  BY <1>1 DEF vars, IInv, TypeOK, InHandTyped, ClaimedOnce, OneDecoder, LinksLeft,
              SeenCountsPresent, ThresholdNoticed
<1>2. ASSUME NEW p \in Procs, DropComplete(p) PROVE IInv'
  BY <1>1, <1>2 DEF DropComplete
<1>3. ASSUME NEW p \in Procs, Receive(p) PROVE IInv'
  BY <1>3, ReceiveInv
<1>4. ASSUME NEW p \in Procs, CheckPresent(p) PROVE IInv'
  BY <1>4, CheckPresentInv
<1>5. ASSUME NEW p \in Procs, AllocSlot(p) PROVE IInv'
  BY <1>5, AllocSlotInv
<1>6. ASSUME NEW p \in Procs, ArenaExhausted(p) PROVE IInv'
  BY <1>6, ArenaExhaustedInv
<1>7. ASSUME NEW p \in Procs, RegisterBit(p) PROVE IInv'
  BY <1>7, RegisterBitInv
<1>8. ASSUME NEW p \in Procs, RegisterDuplicate(p) PROVE IInv'
  BY <1>8, RegisterDuplicateInv
<1>9. ASSUME NEW p \in Procs, RegisterLink(p) PROVE IInv'
  BY <1>9, RegisterLinkInv
<1>10. ASSUME NEW p \in Procs, RegisterCount(p) PROVE IInv'
  BY <1>10, RegisterCountInv
<1>11. ASSUME NEW p \in Procs, CheckThreshold(p) PROVE IInv'
  BY <1>11, CheckThresholdInv
<1>12. ASSUME NEW p \in Procs, TryClaim(p) PROVE IInv'
  BY <1>12, TryClaimInv
<1>13. ASSUME NEW p \in Procs, Gather(p) PROVE IInv'
  BY <1>13, GatherInv
<1>14. ASSUME NEW p \in Procs, DecodeAndWrite(p) PROVE IInv'
  BY <1>14, DecodeAndWriteInv
<1>15. ASSUME NEW p \in Procs, DecodeFails(p) PROVE IInv'
  BY <1>15, DecodeFailsInv
<1>16. ASSUME NEW p \in Procs, FlushBlock(p) PROVE IInv'
  BY <1>16, FlushBlockInv
<1>17. ASSUME NEW p \in Procs, FlushFails(p) PROVE IInv'
  BY <1>17, FlushFailsInv
<1>18. ASSUME NEW p \in Procs, MarkComplete(p) PROVE IInv'
  BY <1>18, MarkCompleteInv
<1>19. ASSUME NEW p \in Procs, ReleaseSlot(p) PROVE IInv'
  BY <1>19, ReleaseSlotInv
<1>20. ASSUME NEW p \in Procs, ClearSlot(p) PROVE IInv'
  BY <1>20, ClearSlotInv
<1>21. ASSUME NEW p \in Procs, ReleaseSkip(p) PROVE IInv'
  BY <1>21, ReleaseSkipInv
<1>22. ASSUME NEW p \in Procs, ReportBlock(p) PROVE IInv'
  BY <1>22, ReportBlockInv
<1>23. ASSUME NEW p \in Procs, Crash(p) PROVE IInv'
  BY <1>23, CrashInv
<1> QED BY <1>1, <1>2, <1>3, <1>4, <1>5, <1>6, <1>7, <1>8, <1>9, <1>10,
           <1>11, <1>12, <1>13, <1>14, <1>15, <1>16, <1>17, <1>18, <1>19,
           <1>20, <1>21, <1>22, <1>23
        DEF Next, Handle, Register, Decode

\* The invariant holds in every state of every behaviour.
LEMMA SpecInv == Spec => []IInv
BY InitInv, NextInv, PTL DEF Spec

\* Every local and every shared word of the block keeps its type; in particular
\* seen, which is only ever incremented, never passes the number of symbols.
THEOREM BlockTypeCorrect == Spec => []TypeOK
BY SpecInv, PTL DEF IInv

\* However many receivers cross the threshold together, one decodes, and the latch
\* names it for as long as it does.
THEOREM DecodedByOne == Spec => []OneDecoder
BY SpecInv, PTL DEF IInv, ClaimedOnce

\* The count follows the mask: it is behind by the registrations under way and by
\* at most one for every death.
THEOREM CountFollowsMask == Spec => []SeenCountsPresent
BY SpecInv, PTL DEF IInv

\* While nobody has died, the k-th registration is noticed by somebody.
THEOREM ThresholdNotMissed == Spec => []ThresholdNoticed
BY SpecInv, PTL DEF IInv

-----------------------------------------------------------------------------
(* The promise to session_manager. *)

\* What the promise sees of a step.
View == <<present, decoded, durable, reports>>

\* A step that leaves what the promise sees alone is a stutter of it.
LEMMA PromiseStutter ==
  ASSUME UNCHANGED View PROVE UNCHANGED Promise!blockVars
BY DEF View, Promise!blockVars

\* A zeroed block table is a block of which nothing is collected.
LEMMA PromiseInit == Init => Promise!BlockInit
BY DEF Init, Promise!BlockInit

\* Each step of a receiver is a step of the promise or one it does not see.
LEMMA PromiseStep == IInv /\ [Next]_vars => [Promise!BlockNext]_(Promise!blockVars)
<1> SUFFICES ASSUME IInv, [Next]_vars PROVE [Promise!BlockNext]_(Promise!blockVars)
  OBVIOUS
<1> USE DEF IInv, Promise!BlockNext
<1>1. ASSUME NEW p \in Procs, RegisterBit(p) PROVE Promise!Collect
  <2>1. sym[p] \in Symbols \ present
    BY <1>1 DEF RegisterBit, InHandTyped
  <2> QED BY <1>1, <2>1 DEF RegisterBit, Promise!Collect, disk
<1>2. ASSUME NEW p \in Procs, TryClaim(p)
      PROVE  Promise!Decode \/ UNCHANGED View
  <2>1. CASE decoded = "PENDING"
    <3>1. Cardinality(present) >= K
      <4>1. seen >= K
        BY <1>2 DEF TryClaim, InHandTyped
      <4>2. Cardinality(present) \in Nat
        BY SymbolSets DEF TypeOK
      <4>3. Cardinality(present) >= seen
        BY <4>2, RegisteringSet DEF TypeOK, SeenCountsPresent, Registering
      <4> QED BY <4>1, <4>2, <4>3, BlockAssumption DEF TypeOK
    <3>2. durable = FALSE
      BY <2>1 DEF ClaimedOnce, TypeOK
    <3>3. decoded' = "CLAIMED" /\ durable' = durable /\ UNCHANGED <<present, reports>>
      BY <1>2, <2>1 DEF TryClaim, disk
    <3>4. Promise!Cardinality(present) = Cardinality(present)
      BY DEF Promise!Cardinality, Cardinality
    <3> QED BY <2>1, <3>1, <3>2, <3>3, <3>4 DEF Promise!Decode
  <2>2. CASE decoded # "PENDING"
    BY <1>2, <2>2 DEF TryClaim, View, disk
  <2> QED BY <2>1, <2>2
<1>3. ASSUME NEW p \in Procs, FlushBlock(p)
      PROVE  Promise!MakeDurable \/ UNCHANGED View
  <2>1. decoded = "CLAIMED"
    BY <1>3 DEF FlushBlock, ClaimedOnce, OneDecoder, Decoding
  <2>2. durable' = TRUE /\ UNCHANGED <<present, decoded, reports>>
    BY <1>3 DEF FlushBlock, entry
  <2>3. CASE durable
    BY <2>2, <2>3 DEF View, TypeOK
  <2>4. CASE ~durable
    BY <2>1, <2>2, <2>4 DEF Promise!MakeDurable
  <2> QED BY <2>3, <2>4
<1>4. ASSUME NEW p \in Procs, MarkComplete(p) PROVE Promise!Finish
  <2>1. durable
    BY <1>4 DEF MarkComplete, ClaimedOnce
  <2> QED BY <1>4, <2>1 DEF MarkComplete, Promise!Finish, disk
<1>5. ASSUME NEW p \in Procs, ReportBlock(p)
      PROVE  Promise!Report \/ UNCHANGED View
  <2>1. decoded = "COMPLETE" /\ reports = 0
    BY <1>5 DEF ReportBlock, ClaimedOnce, OneDecoder, Decoding
  <2>2. /\ reports' \in {reports, reports + 1}
        /\ UNCHANGED <<present, decoded, durable>>
    BY <1>5 DEF ReportBlock, entry, disk
  <2>3. CASE reports' = reports
    BY <2>2, <2>3 DEF View
  <2>4. CASE reports' = reports + 1
    BY <2>1, <2>2, <2>4 DEF Promise!Report
  <2> QED BY <2>2, <2>3, <2>4
<1>6. ASSUME NEW p \in Procs,
             \/ DropComplete(p) \/ Receive(p) \/ CheckPresent(p) \/ AllocSlot(p)
             \/ ArenaExhausted(p) \/ RegisterDuplicate(p) \/ RegisterLink(p)
             \/ RegisterCount(p) \/ CheckThreshold(p) \/ Gather(p) \/ DecodeAndWrite(p)
             \/ DecodeFails(p) \/ FlushFails(p) \/ ReleaseSlot(p) \/ ClearSlot(p)
             \/ ReleaseSkip(p) \/ Crash(p)
      PROVE  UNCHANGED View
  BY <1>6 DEF DropComplete, Receive, CheckPresent, AllocSlot, ArenaExhausted,
              RegisterDuplicate, RegisterLink, RegisterCount, CheckThreshold, Gather,
              DecodeAndWrite, DecodeFails, FlushFails, ReleaseSlot, ClearSlot,
              ReleaseSkip, Crash, View, vars, entry, arena, disk
<1>7. CASE UNCHANGED vars
  BY <1>7, PromiseStutter DEF vars, View
<1>8. ASSUME NEW p \in Procs, DropComplete(p) \/ Receive(p) \/ Handle(p) \/ Crash(p)
      PROVE  Promise!BlockNext \/ UNCHANGED View
  BY <1>1, <1>2, <1>3, <1>4, <1>5, <1>6, <1>8 DEF Handle, Register, Decode
<1> QED BY <1>7, <1>8, PromiseStutter DEF Next

\* The group of receivers keeps the promise: a block is decoded once it has k
\* symbols, is durable before it is complete, and is reported at most once and
\* only then.
THEOREM BlockKeepsPromise == Spec => KeepsPromise
<1>1. Init => Promise!BlockInit
  BY PromiseInit
<1>2. IInv /\ [Next]_vars => [Promise!BlockNext]_(Promise!blockVars)
  BY PromiseStep
<1> QED BY <1>1, <1>2, SpecInv, PTL DEF Spec, KeepsPromise, Promise!BlockSpec

-----------------------------------------------------------------------------
(* Where the slots are and what the file holds, as long as no decoder has      *)
(* gathered a symbol by its bit alone (~hasty), with any number of parity      *)
(* symbols: registrations may overlap the decode and the release loop.         *)

\* The registrations between their bit and their link.
Linking == {p \in Procs : pc[p] = "link"}

Registers ==
  /\ \A p \in Linking : sym[p] \in present /\ won[sym[p]] = slot[p]
  /\ \A p, q \in Linking : sym[p] = sym[q] => p = q

\* A link is cleared by the release loop only, and that only for symbols whose
\* registration had stored it.
ClearedLinks ==
  \A s \in Symbols : slotIdx[s] = SlotFree => s \in present \ Unlinked

\* The decoder has each symbol by its own slot, and until it clears them the links
\* of those symbols stay what they were.
Gathers ==
  \A p \in Procs :
    /\ pc[p] \notin Decoding => at[p] = 0 /\ got[p] = {}
    /\ got[p] \subseteq present \ Unlinked
    /\ \A s \in got[p] : slotIdx[s] = SlotFree \/ slotIdx[s] = won[s]
    /\ pc[p] = "gather" => \A s \in got[p] : ptr[p][s] = won[s]
    /\ pc[p] = "clear" => at[p] \in got[p]

\* The symbols that keep the slot of their registration: all that are linked or
\* about to be, up to the step of the release loop that frees the slot.  What a
\* dead release loop leaves is not looked at: nobody frees it.
Tracked == \/ decoded # "COMPLETE"
           \/ crashes = 0
           \/ \E p \in Procs : pc[p] \in {"release", "clear"}

Held == {s \in present \ Released : Tracked /\ slotIdx[s] # SlotFree}
Carrying == {p \in Procs : pc[p] = "register"}

\* The slots of held symbols and of packets in hand are not free, are different,
\* and hold their symbols.
SlotsTaken ==
  /\ \A s \in Held : won[s] \in Slots \ free /\ content[won[s]] = s
  /\ \A s, t \in Held : won[s] = won[t] => s = t
  /\ \A p \in Carrying : slot[p] \notin free /\ content[slot[p]] = sym[p]
  /\ \A p \in Carrying : \A s \in Held : won[s] # slot[p]
  /\ \A p, q \in Carrying : slot[p] = slot[q] => p = q

\* While nobody has died, every slot has its place and every link its state.
AllAccounted ==
  crashes = 0 =>
    /\ \A x \in Slots : \/ x \in free
                        \/ \E p \in Carrying : slot[p] = x
                        \/ \E s \in Held : won[s] = x
    /\ \A s \in Held : slotIdx[s] = won[s] \/ s \in Unlinked

\* Only held slots are freed, and what is written is the sender's block.
RightBytes ==
  /\ ~misfreed
  /\ decoded = "COMPLETE" => file = "right"
  /\ \A p \in Procs : pc[p] \in {"flush", "complete", "release", "clear"} => file = "right"

TidyInv == Registers /\ ClearedLinks /\ Gathers /\ SlotsTaken /\ AllAccounted /\ RightBytes

-----------------------------------------------------------------------------
(* Lemmas about it *)

\* A step of p leaves the other processes where they are.
OthersStay(p) ==
  \A q \in Procs \ {p} : /\ pc'[q] = pc[q] /\ sym'[q] = sym[q] /\ slot'[q] = slot[q]
                         /\ at'[q] = at[q] /\ got'[q] = got[q] /\ ptr'[q] = ptr[q]

\* Where a process has a slot or a link in hand.
Busy == {"register", "link", "clear"}

\* A step of a process that has none in hand, before and after, disturbs no slot.
LEMMA FrameStep ==
  ASSUME TidyInv, NEW p \in Procs, OthersStay(p), pc[p] \notin Busy, pc'[p] \notin Busy,
         UNCHANGED <<present, slotIdx, free, content, crashes, won>>, Tracked' => Tracked
  PROVE  Registers' /\ ClearedLinks' /\ SlotsTaken' /\ AllAccounted'
<1> USE DEF TidyInv, OthersStay, Busy
<1>1. /\ Linking' = Linking /\ \A q \in Linking : sym'[q] = sym[q] /\ slot'[q] = slot[q]
      /\ Carrying' = Carrying /\ \A q \in Carrying : sym'[q] = sym[q] /\ slot'[q] = slot[q]
  BY DEF Linking, Carrying
<1>2. Unlinked' = Unlinked /\ Released' = Released
  <2>1. \A q \in Procs : pc'[q] = "link" <=> pc[q] = "link"
    OBVIOUS
  <2>2. \A q \in Procs : pc'[q] = "clear" <=> pc[q] = "clear"
    OBVIOUS
  <2>3. Unlinked' = Unlinked
    BY <2>1 DEF Unlinked
  <2>4. Released' = Released
    BY <2>2 DEF Released
  <2> QED BY <2>3, <2>4
<1>3. Held' \subseteq Held
  BY <1>2 DEF Held
<1>4. crashes = 0 => Held' = Held
  BY <1>2 DEF Held, Tracked
<1>5. Registers'
  BY <1>1 DEF Registers
<1>6. ClearedLinks'
  BY <1>2 DEF ClearedLinks
<1>7. SlotsTaken'
  BY <1>1, <1>3 DEF SlotsTaken
<1>8. AllAccounted'
  BY <1>1, <1>2, <1>4 DEF AllAccounted
<1> QED BY <1>5, <1>6, <1>7, <1>8

\* A step of a process that does not decode leaves the decoder's symbols alone.
LEMMA GathersFrame ==
  ASSUME Gathers, NEW p \in Procs, OthersStay(p),
         pc'[p] \notin Decoding, at'[p] = 0, got'[p] = {},
         UNCHANGED <<present, slotIdx, won>>, Unlinked' \subseteq Unlinked
  PROVE  Gathers'
BY DEF Gathers, OthersStay, Decoding

\* The links of the symbols a decoder has gathered name their slots until the
\* release loop, and those slots hold the symbols.
LEMMA GatheredHeld ==
  ASSUME IInv, TidyInv, NEW p \in Procs, pc[p] \in {"gather", "flush", "complete"},
         NEW s \in got[p]
  PROVE  slotIdx[s] = won[s] /\ s \in Held
<1>1. /\ decoded = "CLAIMED" /\ \A q \in Procs : pc[q] # "clear"
  BY DEF IInv, ClaimedOnce, OneDecoder, Decoding
<1>2. s \in present \ Unlinked /\ s \in Symbols
  BY DEF TidyInv, Gathers, IInv, TypeOK
<1>3. slotIdx[s] # SlotFree
  BY <1>1, <1>2 DEF IInv, LinksLeft
<1>4. Released = {}
  BY <1>1 DEF Released
<1> QED BY <1>1, <1>2, <1>3, <1>4 DEF TidyInv, Gathers, Held, Tracked

\* A packet arrives.
LEMMA ReceiveTidy ==
  ASSUME IInv, TidyInv, NEW p \in Procs, Receive(p) PROVE TidyInv'
<1> USE BlockAssumption DEF TidyInv, Receive
<1>1. LocalsTyped /\ SharedTyped
  BY DEF IInv, TypeOK, LocalsTyped, SharedTyped
<1>2. OthersStay(p) /\ pc[p] \notin Busy /\ pc'[p] \notin Busy \cup Decoding
  BY <1>1 DEF LocalsTyped, OthersStay, Busy, Decoding, Goto
<1>3. at[p] = 0 /\ got[p] = {} /\ Unlinked' = Unlinked
  <2>1. at[p] = 0 /\ got[p] = {}
    BY <1>1 DEF LocalsTyped, Gathers, Decoding
  <2>2. \A q \in Procs : (pc'[q] = "link" <=> pc[q] = "link") /\ (pc[q] = "link" => sym'[q] = sym[q])
    BY <1>2 DEF OthersStay, Busy
  <2> QED BY <2>1, <2>2 DEF Unlinked
<1>4. at'[p] = 0 /\ got'[p] = {}
  BY <1>1, <1>3 DEF LocalsTyped, Goto
<1>5. Tracked' => Tracked
  BY <1>2 DEF OthersStay, Tracked, Decoding, entry
<1>6. Registers' /\ ClearedLinks' /\ SlotsTaken' /\ AllAccounted'
  BY <1>2, <1>5, FrameStep DEF entry, arena
<1>7. Gathers'
  BY <1>2, <1>3, <1>4, GathersFrame DEF entry
<1>8. RightBytes'
  BY <1>1, <1>2 DEF LocalsTyped, RightBytes, OthersStay, Decoding, entry, disk
<1> QED BY <1>6, <1>7, <1>8

\* The look at the mask.
LEMMA CheckPresentTidy ==
  ASSUME IInv, TidyInv, NEW p \in Procs, CheckPresent(p) PROVE TidyInv'
<1> USE BlockAssumption DEF TidyInv, CheckPresent
<1>1. LocalsTyped /\ SharedTyped
  BY DEF IInv, TypeOK, LocalsTyped, SharedTyped
<1>2. OthersStay(p) /\ pc[p] \notin Busy /\ pc'[p] \notin Busy \cup Decoding
  BY <1>1 DEF LocalsTyped, OthersStay, Busy, Decoding, Goto, Return, locals
<1>3. at[p] = 0 /\ got[p] = {} /\ Unlinked' = Unlinked
  <2>1. at[p] = 0 /\ got[p] = {}
    BY <1>1 DEF LocalsTyped, Gathers, Decoding
  <2>2. \A q \in Procs : (pc'[q] = "link" <=> pc[q] = "link") /\ (pc[q] = "link" => sym'[q] = sym[q])
    BY <1>2 DEF OthersStay, Busy
  <2> QED BY <2>1, <2>2 DEF Unlinked
<1>4. at'[p] = 0 /\ got'[p] = {}
  BY <1>1, <1>3 DEF LocalsTyped, Goto, Return, locals
<1>5. Tracked' => Tracked
  BY <1>2 DEF OthersStay, Tracked, Decoding, entry
<1>6. Registers' /\ ClearedLinks' /\ SlotsTaken' /\ AllAccounted'
  BY <1>2, <1>5, FrameStep DEF entry, arena
<1>7. Gathers'
  BY <1>2, <1>3, <1>4, GathersFrame DEF entry
<1>8. RightBytes'
  BY <1>1, <1>2 DEF LocalsTyped, RightBytes, OthersStay, Decoding, entry, disk
<1> QED BY <1>6, <1>7, <1>8

\* The drop of a packet there is no slot for.
LEMMA ArenaExhaustedTidy ==
  ASSUME IInv, TidyInv, NEW p \in Procs, ArenaExhausted(p) PROVE TidyInv'
<1> USE BlockAssumption DEF TidyInv, ArenaExhausted
<1>1. LocalsTyped /\ SharedTyped
  BY DEF IInv, TypeOK, LocalsTyped, SharedTyped
<1>2. OthersStay(p) /\ pc[p] \notin Busy /\ pc'[p] \notin Busy \cup Decoding
  BY <1>1 DEF LocalsTyped, OthersStay, Busy, Decoding, Goto, Return
<1>3. at[p] = 0 /\ got[p] = {} /\ Unlinked' = Unlinked
  <2>1. at[p] = 0 /\ got[p] = {}
    BY <1>1 DEF LocalsTyped, Gathers, Decoding
  <2>2. \A q \in Procs : (pc'[q] = "link" <=> pc[q] = "link") /\ (pc[q] = "link" => sym'[q] = sym[q])
    BY <1>2 DEF OthersStay, Busy
  <2> QED BY <2>1, <2>2 DEF Unlinked
<1>4. at'[p] = 0 /\ got'[p] = {}
  BY <1>1, <1>3 DEF LocalsTyped, Goto, Return
<1>5. Tracked' => Tracked
  BY <1>2 DEF OthersStay, Tracked, Decoding, entry
<1>6. Registers' /\ ClearedLinks' /\ SlotsTaken' /\ AllAccounted'
  BY <1>2, <1>5, FrameStep DEF entry, arena
<1>7. Gathers'
  BY <1>2, <1>3, <1>4, GathersFrame DEF entry
<1>8. RightBytes'
  BY <1>1, <1>2 DEF LocalsTyped, RightBytes, OthersStay, Decoding, entry, disk
<1> QED BY <1>6, <1>7, <1>8

\* seen goes up.
LEMMA RegisterCountTidy ==
  ASSUME IInv, TidyInv, NEW p \in Procs, RegisterCount(p) PROVE TidyInv'
<1> USE BlockAssumption DEF TidyInv, RegisterCount
<1>1. LocalsTyped /\ SharedTyped
  BY DEF IInv, TypeOK, LocalsTyped, SharedTyped
<1>2. OthersStay(p) /\ pc[p] \notin Busy /\ pc'[p] \notin Busy \cup Decoding
  BY <1>1 DEF LocalsTyped, OthersStay, Busy, Decoding, Goto, locals
<1>3. at[p] = 0 /\ got[p] = {} /\ Unlinked' = Unlinked
  <2>1. at[p] = 0 /\ got[p] = {}
    BY <1>1 DEF LocalsTyped, Gathers, Decoding
  <2>2. \A q \in Procs : (pc'[q] = "link" <=> pc[q] = "link") /\ (pc[q] = "link" => sym'[q] = sym[q])
    BY <1>2 DEF OthersStay, Busy
  <2> QED BY <2>1, <2>2 DEF Unlinked
<1>4. at'[p] = 0 /\ got'[p] = {}
  BY <1>1, <1>3 DEF LocalsTyped, Goto, locals
<1>5. Tracked' => Tracked
  BY <1>2 DEF OthersStay, Tracked, Decoding, entry
<1>6. Registers' /\ ClearedLinks' /\ SlotsTaken' /\ AllAccounted'
  BY <1>2, <1>5, FrameStep DEF entry, arena
<1>7. Gathers'
  BY <1>2, <1>3, <1>4, GathersFrame DEF entry
<1>8. RightBytes'
  BY <1>1, <1>2 DEF LocalsTyped, RightBytes, OthersStay, Decoding, entry, disk
<1> QED BY <1>6, <1>7, <1>8

\* The look at seen.
LEMMA CheckThresholdTidy ==
  ASSUME IInv, TidyInv, NEW p \in Procs, CheckThreshold(p) PROVE TidyInv'
<1> USE BlockAssumption DEF TidyInv, CheckThreshold
<1>1. LocalsTyped /\ SharedTyped
  BY DEF IInv, TypeOK, LocalsTyped, SharedTyped
<1>2. OthersStay(p) /\ pc[p] \notin Busy /\ pc'[p] \notin Busy \cup Decoding
  BY <1>1 DEF LocalsTyped, OthersStay, Busy, Decoding, Goto, Return, locals
<1>3. at[p] = 0 /\ got[p] = {} /\ Unlinked' = Unlinked
  <2>1. at[p] = 0 /\ got[p] = {}
    BY <1>1 DEF LocalsTyped, Gathers, Decoding
  <2>2. \A q \in Procs : (pc'[q] = "link" <=> pc[q] = "link") /\ (pc[q] = "link" => sym'[q] = sym[q])
    BY <1>2 DEF OthersStay, Busy
  <2> QED BY <2>1, <2>2 DEF Unlinked
<1>4. at'[p] = 0 /\ got'[p] = {}
  BY <1>1, <1>3 DEF LocalsTyped, Goto, Return, locals
<1>5. Tracked' => Tracked
  BY <1>2 DEF OthersStay, Tracked, Decoding, entry
<1>6. Registers' /\ ClearedLinks' /\ SlotsTaken' /\ AllAccounted'
  BY <1>2, <1>5, FrameStep DEF entry, arena
<1>7. Gathers'
  BY <1>2, <1>3, <1>4, GathersFrame DEF entry
<1>8. RightBytes'
  BY <1>1, <1>2 DEF LocalsTyped, RightBytes, OthersStay, Decoding, entry, disk
<1> QED BY <1>6, <1>7, <1>8

\* alloc_slot() and the copy of the payload.
LEMMA AllocSlotTidy ==
  ASSUME IInv, TidyInv, NEW p \in Procs, AllocSlot(p) PROVE TidyInv'
<1> USE BlockAssumption DEF TidyInv, AllocSlot
<1>1. LocalsTyped /\ SharedTyped
  BY DEF IInv, TypeOK, LocalsTyped, SharedTyped
<1>2. OthersStay(p) /\ pc' = [pc EXCEPT ![p] = "register"] /\ slot'[p] \in free
  BY <1>1 DEF LocalsTyped, OthersStay, Goto
<1>3. /\ Unlinked' = Unlinked /\ Released' = Released /\ (Tracked' <=> Tracked)
      /\ Linking' = Linking /\ Carrying' = Carrying \cup {p} /\ p \notin Carrying
  BY <1>1, <1>2 DEF LocalsTyped, Unlinked, Released, Tracked, Linking, Carrying, entry
<1>4. Held' = Held
  BY <1>3 DEF Held, entry
<1>5. Registers' /\ ClearedLinks'
  BY <1>1, <1>2, <1>3 DEF LocalsTyped, Registers, ClearedLinks, Linking, entry
<1>6. Gathers'
  BY <1>1, <1>2, <1>3 DEF LocalsTyped, Gathers, Decoding, entry
<1>7. SlotsTaken'
  BY <1>1, <1>3, <1>4 DEF LocalsTyped, SharedTyped, SlotsTaken, Carrying, Goto, entry
<1>8. AllAccounted'
  BY <1>1, <1>3, <1>4 DEF LocalsTyped, SharedTyped, AllAccounted, Carrying, Goto, entry
<1>9. RightBytes'
  BY <1>1, <1>2 DEF LocalsTyped, RightBytes, entry, disk
<1> QED BY <1>5, <1>6, <1>7, <1>8, <1>9

\* The CAS that wins the symbol, at any time: the block may be decoding or done.
LEMMA RegisterBitTidy ==
  ASSUME IInv, TidyInv, NEW p \in Procs, RegisterBit(p) PROVE TidyInv'
<1> USE BlockAssumption DEF TidyInv, RegisterBit
<1>1. LocalsTyped /\ SharedTyped
  BY DEF IInv, TypeOK, LocalsTyped, SharedTyped
<1>2. sym[p] \in Symbols \ present /\ slot[p] \in Slots /\ slotIdx[sym[p]] # SlotFree
  BY <1>1 DEF IInv, InHandTyped, ClearedLinks
<1>3. OthersStay(p) /\ pc' = [pc EXCEPT ![p] = "link"] /\ UNCHANGED <<sym, slot, got, at, ptr>>
  BY <1>1 DEF LocalsTyped, OthersStay, Goto, locals
<1>4. /\ Linking' = Linking \cup {p} /\ p \notin Linking
      /\ Carrying' = Carrying \ {p} /\ p \in Carrying
      /\ Released' = Released /\ (Tracked' <=> Tracked)
  BY <1>1, <1>3 DEF LocalsTyped, Linking, Carrying, Released, Tracked
<1>5. Unlinked' = Unlinked \cup {sym[p]}
  BY <1>1, <1>3 DEF LocalsTyped, Unlinked
<1>6. sym[p] \notin Released /\ sym[p] \notin Unlinked
  BY <1>2 DEF Released, Unlinked, Gathers, Registers, Linking
<1>7. /\ won'[sym[p]] = slot[p] /\ \A s \in Symbols \ {sym[p]} : won'[s] = won[s]
      /\ present' = present \cup {sym[p]}
  BY <1>1, <1>2 DEF SharedTyped
<1>8. /\ \A s \in Held' : s = sym[p] \/ s \in Held
      /\ crashes = 0 => Held' = Held \cup {sym[p]}
      /\ Held \subseteq Symbols \ {sym[p]}
  BY <1>1, <1>2, <1>4, <1>6, <1>7 DEF Held, Tracked, SharedTyped
<1>9. Registers'
  BY <1>1, <1>2, <1>3, <1>4, <1>7 DEF SharedTyped, Registers, Linking
<1>10. ClearedLinks'
  BY <1>2, <1>5, <1>7 DEF ClearedLinks
<1>11. Gathers'
  <2>1. \A q \in Procs : got[q] \subseteq Symbols \ {sym[p]}
    BY <1>1, <1>2 DEF Gathers, SharedTyped
  <2>2. \A q \in Procs : pc'[q] = pc[q] \/ (q = p /\ pc[q] = "register" /\ pc'[q] = "link")
    BY <1>1, <1>3 DEF LocalsTyped
  <2> QED BY <1>3, <1>5, <1>7, <2>1, <2>2 DEF Gathers, Decoding
<1>12. SlotsTaken'
  <2> USE <1>1, <1>3, <1>4, <1>7, <1>8 DEF SlotsTaken, SharedTyped, arena
  <2>1. \A s \in Held' : won'[s] \in Slots \ free' /\ content'[won'[s]] = s
    BY <1>2
  <2>2. \A s, t \in Held' : won'[s] = won'[t] => s = t
    OBVIOUS
  <2>3. /\ \A q \in Carrying' : slot'[q] \notin free' /\ content'[slot'[q]] = sym'[q]
        /\ \A q \in Carrying' : \A s \in Held' : won'[s] # slot'[q]
        /\ \A q, r \in Carrying' : slot'[q] = slot'[r] => q = r
    OBVIOUS
  <2> QED BY <2>1, <2>2, <2>3
<1>13. AllAccounted'
  <2> SUFFICES ASSUME crashes = 0
               PROVE  /\ \A x \in Slots : \/ x \in free
                                          \/ \E q \in Carrying' : slot[q] = x
                                          \/ \E s \in Held' : won'[s] = x
                      /\ \A s \in Held' : slotIdx[s] = won'[s] \/ s \in Unlinked'
    BY <1>3 DEF AllAccounted, arena
  <2>1. ASSUME NEW x \in Slots
        PROVE  x \in free \/ (\E q \in Carrying' : slot[q] = x) \/ \E s \in Held' : won'[s] = x
    <3>1. CASE x = slot[p]
      BY <3>1, <1>7, <1>8
    <3>2. CASE x # slot[p]
      BY <3>2, <1>4, <1>7, <1>8 DEF AllAccounted
    <3> QED BY <3>1, <3>2
  <2>2. \A s \in Held' : slotIdx[s] = won'[s] \/ s \in Unlinked'
    BY <1>5, <1>7, <1>8 DEF AllAccounted
  <2> QED BY <2>1, <2>2
<1>14. RightBytes'
  BY <1>1, <1>3 DEF LocalsTyped, RightBytes, disk
<1> QED BY <1>9, <1>10, <1>11, <1>12, <1>13, <1>14

\* The slot of a duplicate goes back.
LEMMA RegisterDuplicateTidy ==
  ASSUME IInv, TidyInv, NEW p \in Procs, RegisterDuplicate(p) PROVE TidyInv'
<1> USE BlockAssumption DEF TidyInv, RegisterDuplicate
<1>1. LocalsTyped /\ SharedTyped
  BY DEF IInv, TypeOK, LocalsTyped, SharedTyped
<1>2. OthersStay(p) /\ pc' = [pc EXCEPT ![p] = "idle"]
  BY <1>1 DEF LocalsTyped, OthersStay, Return, Goto
<1>3. /\ Unlinked' = Unlinked /\ Released' = Released /\ (Tracked' <=> Tracked)
      /\ Linking' = Linking /\ Carrying' = Carrying \ {p} /\ p \in Carrying
  BY <1>1, <1>2 DEF LocalsTyped, Unlinked, Released, Tracked, Linking, Carrying, entry,
                    Return
<1>4. Held' = Held
  BY <1>3 DEF Held, entry
<1>5. Registers' /\ ClearedLinks'
  BY <1>1, <1>2, <1>3 DEF LocalsTyped, Registers, ClearedLinks, Linking, entry, OthersStay
<1>6. Gathers'
  BY <1>1, <1>2, <1>3, GathersFrame DEF LocalsTyped, Decoding, entry, Return
<1>7. SlotsTaken'
  BY <1>1, <1>2, <1>3, <1>4 DEF LocalsTyped, SharedTyped, SlotsTaken, OthersStay,
                                Carrying, FreeSlot
<1>8. AllAccounted'
  <2>1. free' = free \cup {slot[p]} /\ UNCHANGED <<won, slotIdx, crashes>>
    BY DEF FreeSlot, entry
  <2>2. \A q \in Carrying : q = p \/ (q \in Carrying' /\ slot'[q] = slot[q])
    BY <1>2, <1>3 DEF OthersStay, Carrying
  <2>3. crashes = 0 => \A x \in Slots : x \in free' \/ (\E q \in Carrying' : slot'[q] = x)
                                        \/ \E s \in Held : won[s] = x
    BY <2>1, <2>2 DEF AllAccounted
  <2> QED BY <1>3, <1>4, <2>1, <2>3 DEF AllAccounted
<1>9. RightBytes'
  BY <1>1, <1>2 DEF LocalsTyped, RightBytes, FreeSlot, entry, disk
<1> QED BY <1>5, <1>6, <1>7, <1>8, <1>9

\* The link is written; nobody has gathered it.
LEMMA RegisterLinkTidy ==
  ASSUME IInv, TidyInv, NEW p \in Procs, RegisterLink(p) PROVE TidyInv'
<1> USE BlockAssumption DEF TidyInv, RegisterLink
<1>1. LocalsTyped /\ SharedTyped
  BY DEF IInv, TypeOK, LocalsTyped, SharedTyped
<1>2. OthersStay(p) /\ pc' = [pc EXCEPT ![p] = "count"] /\ UNCHANGED <<sym, slot, got, at, ptr>>
  BY <1>1 DEF LocalsTyped, OthersStay, Goto, locals
<1>3. /\ Linking' = Linking \ {p} /\ p \in Linking /\ Carrying' = Carrying
      /\ Released' = Released /\ (Tracked' <=> Tracked)
  BY <1>1, <1>2 DEF LocalsTyped, Released, Tracked, Linking, Carrying
<1>4. sym[p] \in present /\ sym[p] \in Symbols /\ won[sym[p]] = slot[p] /\ slot[p] \in Slots
  BY <1>1, <1>3 DEF Registers, SharedTyped, IInv, InHandTyped, Linking
<1>5. Unlinked' = Unlinked \ {sym[p]} /\ sym[p] \in Unlinked
  <2>1. \A q \in Procs \ {p} : pc[q] = "link" => sym[q] # sym[p]
    BY <1>3 DEF Registers, Linking
  <2> QED BY <1>1, <1>2, <2>1 DEF LocalsTyped, Unlinked
<1>6. /\ slotIdx'[sym[p]] = slot[p] /\ slot[p] # SlotFree /\ slotIdx[sym[p]] # SlotFree
      /\ \A s \in Symbols \ {sym[p]} : slotIdx'[s] = slotIdx[s]
  BY <1>1, <1>4, <1>5 DEF SharedTyped, ClearedLinks, Slots, SlotFree
<1>7. Held' = Held
  BY <1>1, <1>3, <1>6 DEF Held, SharedTyped
<1>8. Registers'
  BY <1>2, <1>3 DEF Registers
<1>9. ClearedLinks'
  BY <1>5, <1>6 DEF ClearedLinks
<1>10. Gathers'
  <2>1. \A q \in Procs : got[q] \subseteq Symbols \ {sym[p]}
    BY <1>1, <1>5 DEF Gathers, SharedTyped
  <2>2. \A q \in Procs : pc'[q] = pc[q] \/ (q = p /\ pc[q] = "link" /\ pc'[q] = "count")
    BY <1>1, <1>2 DEF LocalsTyped
  <2> QED BY <1>2, <1>5, <1>6, <2>1, <2>2 DEF Gathers, Decoding
<1>11. SlotsTaken'
  BY <1>2, <1>3, <1>7 DEF SlotsTaken, arena
<1>12. AllAccounted'
  <2>1. crashes = 0 => \A s \in Held : slotIdx'[s] = won[s] \/ s \in Unlinked'
    BY <1>1, <1>4, <1>5, <1>6 DEF AllAccounted, Held, SharedTyped
  <2> QED BY <1>2, <1>3, <1>7, <2>1 DEF AllAccounted, arena
<1>13. RightBytes'
  BY <1>1, <1>2 DEF LocalsTyped, RightBytes, disk
<1> QED BY <1>8, <1>9, <1>10, <1>11, <1>12, <1>13

\* The CAS on the latch.
LEMMA TryClaimTidy ==
  ASSUME IInv, TidyInv, NEW p \in Procs, TryClaim(p) PROVE TidyInv'
<1> USE BlockAssumption DEF TidyInv, TryClaim
<1>1. LocalsTyped /\ SharedTyped
  BY DEF IInv, TypeOK, LocalsTyped, SharedTyped
<1>2. OthersStay(p) /\ pc[p] \notin Busy \cup Decoding /\ pc'[p] \in {"gather", "idle"}
  BY <1>1 DEF LocalsTyped, OthersStay, Busy, Decoding, Goto, Return, locals
<1>3. at'[p] = 0 /\ got'[p] = {}
  BY <1>1, <1>2 DEF LocalsTyped, Gathers, Return, locals
<1>4. Unlinked' = Unlinked
  BY <1>1, <1>2 DEF Unlinked, OthersStay, Busy
<1>5. Tracked' => Tracked
  BY <1>2 DEF Tracked, OthersStay
<1>6. Registers' /\ ClearedLinks' /\ SlotsTaken' /\ AllAccounted'
  BY <1>2, <1>5, FrameStep DEF Busy, arena
<1>7. Gathers'
  BY <1>2, <1>3, <1>4 DEF Gathers, OthersStay, Decoding
<1>8. RightBytes'
  BY <1>1, <1>2 DEF LocalsTyped, RightBytes, OthersStay, disk
<1> QED BY <1>6, <1>7, <1>8

\* One turn of the gather loop, at a symbol whose link is stored.
LEMMA GatherTidy ==
  ASSUME IInv, TidyInv, NEW p \in Procs, Gather(p), ~hasty' PROVE TidyInv'
<1> USE BlockAssumption DEF TidyInv, Gather
<1>1. LocalsTyped /\ SharedTyped
  BY DEF IInv, TypeOK, LocalsTyped, SharedTyped
<1>2. OthersStay(p) /\ pc'[p] = "gather"
  BY <1>1 DEF LocalsTyped, OthersStay
<1>3. Unlinked' = Unlinked /\ (Tracked' <=> Tracked)
  BY DEF Unlinked, Tracked, entry
<1>4. Registers' /\ ClearedLinks' /\ SlotsTaken' /\ AllAccounted'
  BY <1>2, <1>3, FrameStep DEF Busy, entry, arena
<1>5. Gathers'
  <2>1. at[p] \in Symbols
    BY <1>1 DEF LocalsTyped, Symbols
  <2>2. CASE at[p] \notin present
    <3>1. got' = got /\ ptr' = ptr
      BY <2>2
    <3> QED BY <1>2, <1>3, <3>1 DEF Gathers, Decoding, OthersStay, entry
  <2>3. CASE at[p] \in present
    <3>1. at[p] \in present \ Unlinked /\ slotIdx[at[p]] = won[at[p]]
      BY <2>3 DEF LinkStored
    <3>2. got'[p] = got[p] \cup {at[p]} /\ ptr' = [ptr EXCEPT ![p][at[p]] = won[at[p]]]
      BY <1>1, <2>3, <3>1 DEF LocalsTyped
    <3>3. ptr'[p][at[p]] = won[at[p]] /\ \A s \in Symbols \ {at[p]} : ptr'[p][s] = ptr[p][s]
      BY <1>1, <2>1, <3>2 DEF LocalsTyped
    <3>4. \A s \in got'[p] : ptr'[p][s] = won[s]
      BY <1>1, <3>2, <3>3 DEF Gathers, LocalsTyped
    <3>5. got'[p] \subseteq present \ Unlinked
      BY <3>1, <3>2 DEF Gathers
    <3>6. \A s \in got'[p] : slotIdx[s] = SlotFree \/ slotIdx[s] = won[s]
      BY <3>1, <3>2 DEF Gathers
    <3> QED BY <1>2, <1>3, <3>4, <3>5, <3>6 DEF Gathers, Decoding, OthersStay, entry
  <2> QED BY <2>2, <2>3
<1>6. RightBytes'
  BY <1>1 DEF LocalsTyped, SharedTyped, RightBytes, entry, disk
<1> QED BY <1>4, <1>5, <1>6

\* decode() and write_block().
LEMMA DecodeAndWriteTidy ==
  ASSUME IInv, TidyInv, NEW p \in Procs, DecodeAndWrite(p) PROVE TidyInv'
<1> USE BlockAssumption DEF TidyInv, DecodeAndWrite
<1>1. LocalsTyped /\ SharedTyped
  BY DEF IInv, TypeOK, LocalsTyped, SharedTyped
<1>2. OthersStay(p) /\ pc'[p] = "flush" /\ UNCHANGED <<got, at, ptr>>
  BY <1>1 DEF LocalsTyped, OthersStay, Goto, locals
<1>3. Unlinked' = Unlinked /\ (Tracked' => Tracked)
  BY <1>1, <1>2 DEF LocalsTyped, Unlinked, Tracked, OthersStay, entry, locals
<1>4. Registers' /\ ClearedLinks' /\ SlotsTaken' /\ AllAccounted'
  BY <1>2, <1>3, FrameStep DEF Busy, entry, arena
<1>5. Gathers'
  BY <1>2, <1>3 DEF Gathers, Decoding, OthersStay, entry
<1>6. RightBytes'
  <2>1. \A s \in got[p] : content[ptr[p][s]] = s
    BY GatheredHeld DEF Gathers, SlotsTaken
  <2>2. file' = "right"
    BY <2>1 DEF Bytes, Chosen
  <2> QED BY <1>1, <2>2 DEF LocalsTyped, RightBytes, Goto, entry
<1> QED BY <1>4, <1>5, <1>6

\* The decode or the write fails: the block keeps its links.
LEMMA DecodeFailsTidy ==
  ASSUME IInv, TidyInv, NEW p \in Procs, DecodeFails(p) PROVE TidyInv'
<1> USE BlockAssumption DEF TidyInv, DecodeFails
<1>1. LocalsTyped /\ SharedTyped
  BY DEF IInv, TypeOK, LocalsTyped, SharedTyped
<1>2. OthersStay(p) /\ pc[p] \notin Busy /\ pc'[p] = "idle" /\ at'[p] = 0 /\ got'[p] = {}
  BY <1>1 DEF LocalsTyped, OthersStay, Busy, Goto, Return
<1>3. Unlinked' = Unlinked /\ (Tracked' => Tracked)
  BY <1>1, <1>2 DEF Unlinked, Tracked, OthersStay, Busy, entry
<1>4. Registers' /\ ClearedLinks' /\ SlotsTaken' /\ AllAccounted'
  BY <1>2, <1>3, FrameStep DEF Busy, entry, arena
<1>5. Gathers'
  BY <1>2, <1>3, GathersFrame DEF Decoding, entry
<1>6. RightBytes'
  BY <1>1, <1>2 DEF LocalsTyped, RightBytes, OthersStay, entry, disk
<1> QED BY <1>4, <1>5, <1>6

\* flush_block().
LEMMA FlushBlockTidy ==
  ASSUME IInv, TidyInv, NEW p \in Procs, FlushBlock(p) PROVE TidyInv'
<1> USE BlockAssumption DEF TidyInv, FlushBlock
<1>1. LocalsTyped /\ SharedTyped
  BY DEF IInv, TypeOK, LocalsTyped, SharedTyped
<1>2. OthersStay(p) /\ pc[p] \in Decoding \ Busy /\ pc'[p] = "complete" /\ UNCHANGED <<got, ptr>>
  BY <1>1 DEF LocalsTyped, OthersStay, Busy, Decoding, Goto, locals
<1>3. Unlinked' = Unlinked /\ (Tracked' => Tracked)
  BY <1>1, <1>2 DEF LocalsTyped, Unlinked, Tracked, OthersStay, Busy, IInv, ClaimedOnce,
                    OneDecoder, Decoding, entry
<1>4. Registers' /\ ClearedLinks' /\ SlotsTaken' /\ AllAccounted'
  BY <1>2, <1>3, FrameStep DEF Busy, entry, arena
<1>5. Gathers'
  BY <1>2, <1>3 DEF Gathers, Decoding, OthersStay, entry
<1>6. RightBytes'
  BY <1>1, <1>2 DEF LocalsTyped, RightBytes, OthersStay, entry, disk
<1> QED BY <1>4, <1>5, <1>6

\* flush_block() fails.
LEMMA FlushFailsTidy ==
  ASSUME IInv, TidyInv, NEW p \in Procs, FlushFails(p) PROVE TidyInv'
<1> USE BlockAssumption DEF TidyInv, FlushFails
<1>1. LocalsTyped /\ SharedTyped
  BY DEF IInv, TypeOK, LocalsTyped, SharedTyped
<1>2. OthersStay(p) /\ pc[p] \notin Busy /\ pc'[p] = "idle" /\ at'[p] = 0 /\ got'[p] = {}
  BY <1>1 DEF LocalsTyped, OthersStay, Busy, Goto, Return
<1>3. Unlinked' = Unlinked /\ (Tracked' => Tracked)
  BY <1>1, <1>2 DEF Unlinked, Tracked, OthersStay, Busy, entry
<1>4. Registers' /\ ClearedLinks' /\ SlotsTaken' /\ AllAccounted'
  BY <1>2, <1>3, FrameStep DEF Busy, entry, arena
<1>5. Gathers'
  BY <1>2, <1>3, GathersFrame DEF Decoding, entry
<1>6. RightBytes'
  BY <1>1, <1>2 DEF LocalsTyped, RightBytes, OthersStay, entry, disk
<1> QED BY <1>4, <1>5, <1>6

\* The latch becomes COMPLETE.
LEMMA MarkCompleteTidy ==
  ASSUME IInv, TidyInv, NEW p \in Procs, MarkComplete(p) PROVE TidyInv'
<1> USE BlockAssumption DEF TidyInv, MarkComplete
<1>1. LocalsTyped /\ SharedTyped
  BY DEF IInv, TypeOK, LocalsTyped, SharedTyped
<1>2. OthersStay(p) /\ pc[p] \in Decoding \ Busy /\ pc'[p] = "release" /\ UNCHANGED <<got, ptr>>
  BY <1>1 DEF LocalsTyped, OthersStay, Busy, Decoding, Goto
<1>3. Unlinked' = Unlinked /\ (Tracked' => Tracked)
  BY <1>1, <1>2 DEF LocalsTyped, Unlinked, Tracked, OthersStay, Busy, IInv, ClaimedOnce,
                    OneDecoder, Decoding, entry
<1>4. Registers' /\ ClearedLinks' /\ SlotsTaken' /\ AllAccounted'
  BY <1>2, <1>3, FrameStep DEF Busy, entry, arena
<1>5. Gathers'
  BY <1>2, <1>3 DEF Gathers, Decoding, OthersStay, entry
<1>6. RightBytes'
  BY <1>1, <1>2 DEF LocalsTyped, RightBytes, OthersStay, entry, disk
<1> QED BY <1>4, <1>5, <1>6

\* free_slot() of the release loop: the slot is the symbol's own.
LEMMA ReleaseSlotTidy ==
  ASSUME IInv, TidyInv, NEW p \in Procs, ReleaseSlot(p) PROVE TidyInv'
<1> USE BlockAssumption DEF TidyInv, ReleaseSlot
<1>1. LocalsTyped /\ SharedTyped
  BY DEF IInv, TypeOK, LocalsTyped, SharedTyped
<1>2. /\ OthersStay(p) /\ pc' = [pc EXCEPT ![p] = "clear"]
      /\ UNCHANGED <<sym, slot, got, at, ptr, present, slotIdx, decoded>>
      /\ at[p] \in Symbols
  BY <1>1 DEF LocalsTyped, OthersStay, Goto, locals, entry
<1>3. \A q \in Procs : pc[q] # "clear"
  BY DEF IInv, ClaimedOnce, OneDecoder, Decoding
<1>4. Released = {} /\ Released' = {at[p]}
  BY <1>1, <1>2, <1>3 DEF Released, LocalsTyped
<1>5. slotIdx[at[p]] # SlotFree
  BY <1>1, <1>2 DEF IInv, LinksLeft, LocalsTyped, Symbols
<1>6. slotIdx[at[p]] = won[at[p]] /\ at[p] \in Held
  BY <1>4, <1>5 DEF Gathers, Held, Tracked
<1>7. /\ Linking' = Linking /\ Carrying' = Carrying /\ Unlinked' = Unlinked
      /\ Tracked /\ Tracked'
  BY <1>1, <1>2 DEF LocalsTyped, Linking, Carrying, Unlinked, Tracked
<1>8. Held' = Held \ {at[p]}
  BY <1>2, <1>4, <1>7 DEF Held
<1>9. free' = free \cup {won[at[p]]} /\ content' = [content EXCEPT ![won[at[p]]] = None]
  BY <1>6 DEF FreeSlot
<1>10. Registers' /\ ClearedLinks'
  BY <1>2, <1>7 DEF Registers, ClearedLinks
<1>11. Gathers'
  BY <1>2, <1>7 DEF Gathers, Decoding, OthersStay
<1>12. SlotsTaken'
  <2>1. \A s \in Held' : s \in Held /\ won[s] # won[at[p]]
    BY <1>6, <1>8 DEF SlotsTaken
  <2>2. \A q \in Carrying : slot[q] # won[at[p]] /\ slot[q] \in Slots
    BY <1>6 DEF SlotsTaken, Carrying, IInv, InHandTyped
  <2> QED BY <1>1, <1>2, <1>7, <1>9, <2>1, <2>2 DEF SharedTyped, SlotsTaken
<1>13. AllAccounted'
  BY <1>2, <1>7, <1>8, <1>9 DEF AllAccounted
<1>14. RightBytes'
  <2>1. ~misfreed'
    BY <1>6 DEF RightBytes, FreeSlot
  <2> QED BY <1>1, <1>2, <2>1 DEF LocalsTyped, RightBytes, OthersStay, disk
<1> QED BY <1>10, <1>11, <1>12, <1>13, <1>14

\* clear_slot() of the release loop.
LEMMA ClearSlotTidy ==
  ASSUME IInv, TidyInv, NEW p \in Procs, ClearSlot(p) PROVE TidyInv'
<1> USE BlockAssumption DEF TidyInv, ClearSlot
<1>1. LocalsTyped /\ SharedTyped
  BY DEF IInv, TypeOK, LocalsTyped, SharedTyped
<1>2. /\ OthersStay(p) /\ pc' = [pc EXCEPT ![p] = "release"]
      /\ UNCHANGED <<sym, slot, got, ptr, present, decoded, crashes>>
      /\ at[p] \in got[p] /\ at[p] \in Symbols
  BY <1>1 DEF LocalsTyped, OthersStay, Goto, Gathers
<1>3. \A q \in Procs \ {p} : pc[q] # "clear"
  BY DEF IInv, ClaimedOnce, OneDecoder, Decoding
<1>4. Released = {at[p]} /\ Released' = {}
  BY <1>1, <1>2, <1>3 DEF Released, LocalsTyped
<1>5. /\ Linking' = Linking /\ Carrying' = Carrying /\ Unlinked' = Unlinked
      /\ Tracked /\ Tracked'
  BY <1>1, <1>2 DEF LocalsTyped, Linking, Carrying, Unlinked, Tracked
<1>6. slotIdx'[at[p]] = SlotFree /\ \A s \in Symbols \ {at[p]} : slotIdx'[s] = slotIdx[s]
  BY <1>1, <1>2 DEF SharedTyped
<1>7. Held' = Held /\ at[p] \notin Held /\ Held \subseteq Symbols
  BY <1>1, <1>2, <1>4, <1>5, <1>6 DEF Held, SharedTyped
<1>8. Registers'
  BY <1>2, <1>5 DEF Registers
<1>9. ClearedLinks'
  BY <1>2, <1>5, <1>6 DEF ClearedLinks, Gathers
<1>10. Gathers'
  <2>1. \A q \in Procs : \A s \in got[q] : slotIdx'[s] = SlotFree \/ slotIdx'[s] = won[s]
    BY <1>1, <1>6 DEF Gathers, LocalsTyped
  <2>2. \A q \in Procs : got'[q] = got[q] /\ ptr'[q] = ptr[q]
    BY <1>2
  <2>3. \A q \in Procs \ {p} : pc'[q] = pc[q] /\ at'[q] = at[q]
    BY <1>2 DEF OthersStay
  <2>4. pc'[p] = "release"
    BY <1>1, <1>2 DEF LocalsTyped
  <2> QED BY <1>2, <1>5, <2>1, <2>2, <2>3, <2>4 DEF Gathers, Decoding
<1>11. SlotsTaken'
  BY <1>2, <1>5, <1>7 DEF SlotsTaken, arena
<1>12. AllAccounted'
  BY <1>2, <1>5, <1>6, <1>7 DEF AllAccounted, arena
<1>13. RightBytes'
  BY <1>1, <1>2 DEF LocalsTyped, RightBytes, OthersStay, disk
<1> QED BY <1>8, <1>9, <1>10, <1>11, <1>12, <1>13

\* The release loop passes a symbol it does not have.
LEMMA ReleaseSkipTidy ==
  ASSUME IInv, TidyInv, NEW p \in Procs, ReleaseSkip(p) PROVE TidyInv'
<1> USE BlockAssumption DEF TidyInv, ReleaseSkip
<1>1. LocalsTyped /\ SharedTyped
  BY DEF IInv, TypeOK, LocalsTyped, SharedTyped
<1>2. OthersStay(p) /\ pc[p] \in Decoding \ Busy /\ pc'[p] = "release" /\ UNCHANGED <<got, ptr>>
  BY <1>1 DEF LocalsTyped, OthersStay, Busy, Decoding, Goto
<1>3. Unlinked' = Unlinked /\ (Tracked' => Tracked)
  BY <1>1, <1>2 DEF LocalsTyped, Unlinked, Tracked, OthersStay, Busy, IInv, ClaimedOnce,
                    OneDecoder, Decoding, entry
<1>4. Registers' /\ ClearedLinks' /\ SlotsTaken' /\ AllAccounted'
  BY <1>2, <1>3, FrameStep DEF Busy, entry, arena
<1>5. Gathers'
  BY <1>2, <1>3 DEF Gathers, Decoding, OthersStay, entry
<1>6. RightBytes'
  BY <1>1, <1>2 DEF LocalsTyped, RightBytes, OthersStay, entry, disk
<1> QED BY <1>4, <1>5, <1>6

\* BlockDecoded.
LEMMA ReportBlockTidy ==
  ASSUME IInv, TidyInv, NEW p \in Procs, ReportBlock(p) PROVE TidyInv'
<1> USE BlockAssumption DEF TidyInv, ReportBlock
<1>1. LocalsTyped /\ SharedTyped
  BY DEF IInv, TypeOK, LocalsTyped, SharedTyped
<1>2. OthersStay(p) /\ pc[p] \notin Busy /\ pc'[p] = "idle" /\ at'[p] = 0 /\ got'[p] = {}
  BY <1>1 DEF LocalsTyped, OthersStay, Busy, Goto, Return
<1>3. Unlinked' = Unlinked /\ (Tracked' => Tracked)
  BY <1>1, <1>2 DEF Unlinked, Tracked, OthersStay, Busy, entry
<1>4. Registers' /\ ClearedLinks' /\ SlotsTaken' /\ AllAccounted'
  BY <1>2, <1>3, FrameStep DEF Busy, entry, arena
<1>5. Gathers'
  BY <1>2, <1>3, GathersFrame DEF Decoding, entry
<1>6. RightBytes'
  BY <1>1, <1>2 DEF LocalsTyped, RightBytes, OthersStay, entry, disk
<1> QED BY <1>4, <1>5, <1>6

\* A process dies, with what it has in hand.
LEMMA CrashTidy ==
  ASSUME IInv, TidyInv, NEW p \in Procs, Crash(p) PROVE TidyInv'
<1> USE BlockAssumption DEF TidyInv, Crash
<1>1. LocalsTyped /\ SharedTyped
  BY DEF IInv, TypeOK, LocalsTyped, SharedTyped
<1>2. OthersStay(p) /\ pc' = [pc EXCEPT ![p] = "idle"] /\ crashes' # 0
  BY <1>1 DEF LocalsTyped, SharedTyped, OthersStay, Return, Goto
<1>3. /\ Linking' = Linking \ {p} /\ Carrying' = Carrying \ {p}
      /\ Unlinked' \subseteq Unlinked
  BY <1>1, <1>2 DEF LocalsTyped, OthersStay, Linking, Carrying, Unlinked
<1>4. Held' \subseteq Held
  <2> SUFFICES ASSUME NEW s \in Held' PROVE s \in Held
    OBVIOUS
  <2>1. s \in present /\ slotIdx[s] # SlotFree /\ Tracked'
    BY DEF Held, entry
  <2>2. Tracked
    BY <1>1, <1>2, <2>1 DEF Tracked, LocalsTyped, entry
  <2>3. s \notin Released
    <3> SUFFICES ASSUME NEW q \in Procs, pc[q] = "clear", at[q] = s PROVE FALSE
      BY DEF Released
    <3>1. decoded = "COMPLETE" /\ \A r \in Procs \ {q} : pc[r] \notin {"release", "clear"}
      BY DEF IInv, ClaimedOnce, OneDecoder, Decoding
    <3>2. q # p
      BY <1>1, <1>2, <2>1, <3>1 DEF Tracked, LocalsTyped, entry
    <3>3. s \in Released'
      BY <1>2, <3>2 DEF Released, OthersStay
    <3> QED BY <3>3 DEF Held
  <2> QED BY <2>1, <2>2, <2>3 DEF Held
<1>5. Registers'
  BY <1>2, <1>3 DEF Registers, OthersStay, Linking, entry
<1>6. ClearedLinks'
  BY <1>3 DEF ClearedLinks, entry
<1>7. Gathers'
  BY <1>1, <1>2, <1>3, GathersFrame DEF LocalsTyped, Decoding, Return, entry
<1>8. SlotsTaken'
  BY <1>2, <1>3, <1>4 DEF SlotsTaken, OthersStay, Carrying, arena
<1>9. AllAccounted' /\ RightBytes'
  BY <1>1, <1>2 DEF LocalsTyped, AllAccounted, RightBytes, OthersStay, entry, disk
<1> QED BY <1>5, <1>6, <1>7, <1>8, <1>9

\* At the start nothing is registered and every slot is in the arena.
LEMMA TidyInit == Init => TidyInv
<1> SUFFICES ASSUME Init PROVE TidyInv
  OBVIOUS
<1> USE DEF Init
<1>1. Linking = {} /\ Held = {} /\ Carrying = {}
  BY DEF Linking, Held, Carrying
<1>2. Registers /\ SlotsTaken /\ AllAccounted
  BY <1>1 DEF Registers, SlotsTaken, AllAccounted
<1>3. ClearedLinks
  BY BlockAssumption DEF ClearedLinks, SlotFree
<1>4. Gathers /\ RightBytes
  BY DEF Gathers, RightBytes
<1> QED BY <1>2, <1>3, <1>4 DEF TidyInv

\* Every step keeps it, as long as no symbol is gathered by its bit alone.
LEMMA TidyNext == ASSUME IInv, TidyInv, [Next]_vars, ~hasty' PROVE TidyInv'
<1>1. CASE UNCHANGED vars
  BY <1>1 DEF vars, TidyInv, Registers, Linking, ClearedLinks, Unlinked, Gathers, Tracked,
              SlotsTaken, Held, Released, Carrying, AllAccounted, RightBytes
<1>2. ASSUME NEW p \in Procs, DropComplete(p) PROVE TidyInv'
  BY <1>1, <1>2 DEF DropComplete
<1>3. ASSUME NEW p \in Procs, Receive(p) PROVE TidyInv'
  BY <1>3, ReceiveTidy
<1>4. ASSUME NEW p \in Procs, CheckPresent(p) PROVE TidyInv'
  BY <1>4, CheckPresentTidy
<1>5. ASSUME NEW p \in Procs, AllocSlot(p) PROVE TidyInv'
  BY <1>5, AllocSlotTidy
<1>6. ASSUME NEW p \in Procs, ArenaExhausted(p) PROVE TidyInv'
  BY <1>6, ArenaExhaustedTidy
<1>7. ASSUME NEW p \in Procs, RegisterBit(p) PROVE TidyInv'
  BY <1>7, RegisterBitTidy
<1>8. ASSUME NEW p \in Procs, RegisterDuplicate(p) PROVE TidyInv'
  BY <1>8, RegisterDuplicateTidy
<1>9. ASSUME NEW p \in Procs, RegisterLink(p) PROVE TidyInv'
  BY <1>9, RegisterLinkTidy
<1>10. ASSUME NEW p \in Procs, RegisterCount(p) PROVE TidyInv'
  BY <1>10, RegisterCountTidy
<1>11. ASSUME NEW p \in Procs, CheckThreshold(p) PROVE TidyInv'
  BY <1>11, CheckThresholdTidy
<1>12. ASSUME NEW p \in Procs, TryClaim(p) PROVE TidyInv'
  BY <1>12, TryClaimTidy
<1>13. ASSUME NEW p \in Procs, Gather(p) PROVE TidyInv'
  BY <1>13, GatherTidy
<1>14. ASSUME NEW p \in Procs, DecodeAndWrite(p) PROVE TidyInv'
  BY <1>14, DecodeAndWriteTidy
<1>15. ASSUME NEW p \in Procs, DecodeFails(p) PROVE TidyInv'
  BY <1>15, DecodeFailsTidy
<1>16. ASSUME NEW p \in Procs, FlushBlock(p) PROVE TidyInv'
  BY <1>16, FlushBlockTidy
<1>17. ASSUME NEW p \in Procs, FlushFails(p) PROVE TidyInv'
  BY <1>17, FlushFailsTidy
<1>18. ASSUME NEW p \in Procs, MarkComplete(p) PROVE TidyInv'
  BY <1>18, MarkCompleteTidy
<1>19. ASSUME NEW p \in Procs, ReleaseSlot(p) PROVE TidyInv'
  BY <1>19, ReleaseSlotTidy
<1>20. ASSUME NEW p \in Procs, ClearSlot(p) PROVE TidyInv'
  BY <1>20, ClearSlotTidy
<1>21. ASSUME NEW p \in Procs, ReleaseSkip(p) PROVE TidyInv'
  BY <1>21, ReleaseSkipTidy
<1>22. ASSUME NEW p \in Procs, ReportBlock(p) PROVE TidyInv'
  BY <1>22, ReportBlockTidy
<1>23. ASSUME NEW p \in Procs, Crash(p) PROVE TidyInv'
  BY <1>23, CrashTidy
<1> QED BY <1>1, <1>2, <1>3, <1>4, <1>5, <1>6, <1>7, <1>8, <1>9, <1>10, <1>11,
           <1>12, <1>13, <1>14, <1>15, <1>16, <1>17, <1>18, <1>19, <1>20, <1>21,
           <1>22, <1>23
        DEF Next, Handle, Register, Decode

\* No step takes haste back.
LEMMA HastyStays == hasty /\ [Next]_vars => hasty'
BY DEF Next, Handle, Register, Decode, DropComplete, Receive, CheckPresent, AllocSlot,
       ArenaExhausted, RegisterBit, RegisterDuplicate, RegisterLink, RegisterCount,
       CheckThreshold, TryClaim, Gather, DecodeAndWrite, DecodeFails, FlushBlock,
       FlushFails, MarkComplete, ReleaseSlot, ClearSlot, ReleaseSkip, ReportBlock, Crash,
       vars

LEMMA TidySpec == Spec => [](IInv /\ (hasty \/ TidyInv))
<1>1. Init => IInv /\ (hasty \/ TidyInv)
  BY InitInv, TidyInit
<1>2. IInv /\ (hasty \/ TidyInv) /\ [Next]_vars => (IInv /\ (hasty \/ TidyInv))'
  <2>1. IInv /\ TidyInv /\ [Next]_vars /\ ~hasty' => TidyInv'
    BY TidyNext
  <2> QED BY <2>1, NextInv, HastyStays
<1> QED BY <1>1, <1>2, PTL DEF Spec

\* The links that are current are those of the held symbols, each by its winner.
LEMMA StoredAre ==
  ASSUME IInv, TidyInv, crashes = 0
  PROVE  /\ Stored = Held \ Unlinked
         /\ \A t \in Stored : slotIdx[t] = won[t]
         /\ Unlinked \subseteq Held
<1> USE DEF TidyInv
<1>1. Stored = Held \ Unlinked
  BY DEF Stored, Held, Tracked
<1>2. \A t \in Stored : slotIdx[t] = won[t]
  BY <1>1 DEF AllAccounted
<1>3. ASSUME NEW q \in Procs, pc[q] = "link" PROVE sym[q] \in Held
  <2>1. sym[q] \in present /\ sym[q] \in Symbols /\ sym[q] \in Unlinked
    BY <1>3 DEF Registers, Linking, Unlinked, IInv, TypeOK
  <2>2. slotIdx[sym[q]] # SlotFree
    BY <2>1 DEF ClearedLinks
  <2>3. sym[q] \notin Released
    BY <2>1 DEF Released, Gathers
  <2> QED BY <2>1, <2>2, <2>3 DEF Held, Tracked
<1> QED BY <1>1, <1>2, <1>3 DEF Unlinked

\* The parts of TidyInv together put each slot in exactly one place.
LEMMA TidySlots == ASSUME IInv, TidyInv PROVE SlotsInOnePlace
<1> USE DEF TidyInv
<1>1. ~misfreed
  BY DEF RightBytes
<1> SUFFICES ASSUME crashes = 0
             PROVE  /\ \A t, u \in Stored : slotIdx[t] = slotIdx[u] => t = u
                    /\ free \cap (InHand \cup Linked) = {}
                    /\ InHand \cap Linked = {}
                    /\ free \cup InHand \cup Linked = Slots
  BY <1>1 DEF SlotsInOnePlace
<1>2. Linked = {won[t] : t \in Held \ Unlinked}
  BY StoredAre DEF Linked
<1>3. InHand = {slot[q] : q \in Carrying} \cup {won[t] : t \in Unlinked}
  <2>1. \A q \in Procs : pc[q] = "link" => slot[q] = won[sym[q]]
    BY DEF Registers, Linking
  <2> QED BY <2>1 DEF InHand, Unlinked, Carrying
<1>4. \A t, u \in Stored : slotIdx[t] = slotIdx[u] => t = u
  BY StoredAre DEF SlotsTaken
<1>5. free \cap (InHand \cup Linked) = {}
  BY <1>2, <1>3, StoredAre DEF SlotsTaken
<1>6. InHand \cap Linked = {}
  BY <1>2, <1>3, StoredAre DEF SlotsTaken
<1>7. free \cup InHand \cup Linked \subseteq Slots
  <2>1. free \subseteq Slots /\ \A q \in Carrying : slot[q] \in Slots
    BY DEF IInv, TypeOK, InHandTyped, Carrying
  <2> QED BY <1>2, <1>3, <2>1, StoredAre DEF SlotsTaken
<1>8. \A x \in Slots : x \in free \cup InHand \cup Linked
  BY <1>2, <1>3 DEF AllAccounted
<1> QED BY <1>4, <1>5, <1>6, <1>7, <1>8

\* With any number of receivers and of parity symbols, registrations that overlap
\* the decode included: unless a decoder has gathered a symbol by its bit alone,
\* nothing is freed that is not held for it, and while nobody dies every slot of the
\* arena is in the free list, in a receiver's hand or linked from the table: one of
\* these and not two.
THEOREM SlotsStayInOnePlace == Spec => []SlotsInOnePlace
<1>1. hasty => SlotsInOnePlace
  BY DEF SlotsInOnePlace
<1>2. IInv /\ (hasty \/ TidyInv) => SlotsInOnePlace
  BY <1>1, TidySlots
<1> QED BY <1>2, TidySpec, PTL

\* A block that session_manager has been told of is in the file and flushed, and
\* unless its decoder gathered a symbol by its bit alone the bytes are the sender's.
THEOREM ReportedBytesOnDisk == Spec => []ReportedIsOnDisk
<1>1. IInv /\ (hasty \/ TidyInv) => ReportedIsOnDisk
  BY DEF IInv, ClaimedOnce, TypeOK, TidyInv, RightBytes, ReportedIsOnDisk
<1> QED BY <1>1, TidySpec, PTL
=============================================================================
