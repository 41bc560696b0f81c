--------------------------- MODULE BlockPipeline ----------------------------
(***************************************************************************)
(* One block of one open session, filled by every receiver process at once *)
(* (src/src/receiver/session_pipeline.cpp, handle_data_packet and          *)
(* decode_and_write_block, over BlockView in shm_manager.cpp).             *)
(*                                                                         *)
(* One action is one access to the block's entry in shared memory.  The    *)
(* slot arena is the pool of module SlotPool: alloc_slot and free_slot are *)
(* one step here.  Data is the symbol a slot holds; a freed slot holds     *)
(* none, because its first word is a link.                                 *)
(***************************************************************************)
EXTENDS Integers, FiniteSets

CONSTANTS Procs,      \* receiver processes that have the session open
          N,          \* symbols per block, ids 0 .. N-1
          K,          \* symbols that decode it
          SlotCount,  \* slots of the arena
          None,       \* no slot, no symbol
          DiskFails,  \* may write_block() or flush_block() fail?
          SendFails,  \* may UdsChannel::send() fail?
          MaxCrashes  \* bound: how many process deaths a behaviour has

ASSUME BlockAssumption == /\ N \in Nat \ {0}
                          /\ K \in 1 .. N
                          /\ SlotCount \in Nat \ {0}
                          /\ DiskFails \in BOOLEAN
                          /\ SendFails \in BOOLEAN
                          /\ MaxCrashes \in Nat
                          /\ None \notin Nat
                          /\ IsFiniteSet(Procs)

Symbols == 0 .. N - 1
Slots == 0 .. SlotCount - 1
SlotFree == SlotCount       \* SLOT_IDX_FREE: no slot has this index

VARIABLES present,  \* present_mask: the symbols whose bit is set
          slotIdx,  \* slot_idx[]: symbol -> slot
          seen,     \* seen
          decoded,  \* decoded: the latch
          free,     \* the slots of the free list
          content,  \* content[s]: the symbol whose bytes slot s holds
          file,     \* the block's bytes in the destination file
          durable,  \* have they been flushed?
          reports,  \* BlockDecoded messages sent for the block
          crashes,
          pc,       \* where each process is in handle_data_packet
          sym,      \* symbol_id of the packet in hand
          slot,     \* slot allocated for it
          at,       \* s, the index of the loops over the symbols
          got,      \* present[] of decode_and_write_block
          ptr,      \* symbols[] of decode_and_write_block, as slots
          won,      \* ghost: won[s] is the slot whose registration won s
          misfreed, \* ghost: free_slot() was called on a slot not held for it
          hasty     \* ghost: a symbol was gathered by its bit, before its link

entry == <<present, slotIdx, seen, decoded>>
arena == <<free, content>>
disk == <<file, durable>>
locals == <<sym, slot, at, got, ptr>>
vars == <<present, slotIdx, seen, decoded, free, content, file, durable, reports,
          crashes, pc, sym, slot, at, got, ptr, won, misfreed, hasty>>

\* open_session() zeroes the block table: every link names slot 0.
Init ==
  /\ present = {}
  /\ slotIdx = [s \in Symbols |-> 0]
  /\ seen = 0
  /\ decoded = "PENDING"
  /\ free = Slots
  /\ content = [s \in Slots |-> None]
  /\ file = "empty"
  /\ durable = FALSE
  /\ reports = 0
  /\ crashes = 0
  /\ pc = [p \in Procs |-> "idle"]
  /\ sym = [p \in Procs |-> None]
  /\ slot = [p \in Procs |-> None]
  /\ at = [p \in Procs |-> 0]
  /\ got = [p \in Procs |-> {}]
  /\ ptr = [p \in Procs |-> [s \in Symbols |-> None]]
  /\ won = [s \in Symbols |-> None]
  /\ misfreed = FALSE
  /\ hasty = FALSE

Goto(p, l) == pc' = [pc EXCEPT ![p] = l]

\* handle_data_packet() returns: its locals go out of scope.
Return(p) ==
  /\ Goto(p, "idle")
  /\ sym' = [sym EXCEPT ![p] = None]
  /\ slot' = [slot EXCEPT ![p] = None]
  /\ at' = [at EXCEPT ![p] = 0]
  /\ got' = [got EXCEPT ![p] = {}]
  /\ ptr' = [ptr EXCEPT ![p] = [s \in Symbols |-> None]]

\* free_slot(s): the caller must hold s; if it does not, the list is corrupt.
FreeSlot(s, held) ==
  /\ free' = free \cup {s}
  /\ content' = [content EXCEPT ![s] = None]
  /\ misfreed' = (misfreed \/ ~held)

-----------------------------------------------------------------------------
(* A packet for symbol s: the checks of handle_data_packet() *)

\* Any receiver may get any symbol, again and in any order.
DropComplete(p) ==
  /\ pc[p] = "idle"
  /\ decoded = "COMPLETE"
  /\ UNCHANGED vars

Receive(p) ==
  /\ pc[p] = "idle"
  /\ decoded # "COMPLETE"
  /\ \E s \in Symbols : sym' = [sym EXCEPT ![p] = s]
  /\ Goto(p, "present")
  /\ UNCHANGED <<entry, arena, disk, reports, crashes, slot, at, got, ptr, won,
                 misfreed, hasty>>

CheckPresent(p) ==
  /\ pc[p] = "present"
  /\ IF sym[p] \in present THEN Return(p) ELSE Goto(p, "alloc") /\ UNCHANGED locals
  /\ UNCHANGED <<entry, arena, disk, reports, crashes, won, misfreed, hasty>>

\* alloc_slot(), and the copy of the payload into a slot nobody else can see.
AllocSlot(p) ==
  /\ pc[p] = "alloc"
  /\ \E s \in free :
       /\ free' = free \ {s}
       /\ slot' = [slot EXCEPT ![p] = s]
       /\ content' = [content EXCEPT ![s] = sym[p]]
  /\ Goto(p, "register")
  /\ UNCHANGED <<entry, disk, reports, crashes, sym, at, got, ptr, won, misfreed,
                 hasty>>

\* The packet is dropped; nobody sends it again.
ArenaExhausted(p) ==
  /\ pc[p] = "alloc"
  /\ free = {}
  /\ Return(p)
  /\ UNCHANGED <<entry, arena, disk, reports, crashes, won, misfreed, hasty>>

-----------------------------------------------------------------------------
(* register_symbol() *)

\* Seeded faults, here and below: the definition that follows with one bug that
\* a change of the code could bring in.  A run of its own shows it is noticed.
RegisterBit_NoTest(p) ==
  /\ pc[p] = "register"
  /\ present' = present \cup {sym[p]}
  /\ won' = [won EXCEPT ![sym[p]] = slot[p]]
  /\ Goto(p, "link")
  /\ UNCHANGED <<slotIdx, seen, decoded, arena, disk, reports, crashes, locals,
                 misfreed, hasty>>

\* The CAS on the word of the mask: who flips the bit has won the symbol.
RegisterBit(p) ==
  /\ pc[p] = "register"
  /\ sym[p] \notin present
  /\ present' = present \cup {sym[p]}
  /\ won' = [won EXCEPT ![sym[p]] = slot[p]]
  /\ Goto(p, "link")
  /\ UNCHANGED <<slotIdx, seen, decoded, arena, disk, reports, crashes, locals,
                 misfreed, hasty>>

RegisterDuplicate_KeepsSlot(p) ==
  /\ pc[p] = "register"
  /\ sym[p] \in present
  /\ Return(p)
  /\ UNCHANGED <<entry, arena, disk, reports, crashes, won, misfreed, hasty>>

RegisterDuplicate(p) ==
  /\ pc[p] = "register"
  /\ sym[p] \in present
  /\ FreeSlot(slot[p], TRUE)
  /\ Return(p)
  /\ UNCHANGED <<entry, disk, reports, crashes, won, hasty>>

RegisterLink(p) ==
  /\ pc[p] = "link"
  /\ slotIdx' = [slotIdx EXCEPT ![sym[p]] = slot[p]]
  /\ Goto(p, "count")
  /\ UNCHANGED <<present, seen, decoded, arena, disk, reports, crashes, locals,
                 won, misfreed, hasty>>

RegisterCount(p) ==
  /\ pc[p] = "count"
  /\ seen' = seen + 1
  /\ Goto(p, "threshold")
  /\ UNCHANGED <<present, slotIdx, decoded, arena, disk, reports, crashes, locals,
                 won, misfreed, hasty>>

-----------------------------------------------------------------------------
(* The threshold and the claim *)

CheckThreshold_OffByOne(p) ==
  /\ pc[p] = "threshold"
  /\ IF seen > K THEN Goto(p, "claim") /\ UNCHANGED locals ELSE Return(p)
  /\ UNCHANGED <<entry, arena, disk, reports, crashes, won, misfreed, hasty>>

CheckThreshold(p) ==
  /\ pc[p] = "threshold"
  /\ IF seen >= K THEN Goto(p, "claim") /\ UNCHANGED locals ELSE Return(p)
  /\ UNCHANGED <<entry, arena, disk, reports, crashes, won, misfreed, hasty>>

TryClaim_NotExclusive(p) ==
  /\ pc[p] = "claim"
  /\ IF decoded # "COMPLETE"
     THEN decoded' = "CLAIMED" /\ Goto(p, "gather") /\ UNCHANGED locals
     ELSE Return(p) /\ UNCHANGED decoded
  /\ UNCHANGED <<present, slotIdx, seen, arena, disk, reports, crashes, won,
                 misfreed, hasty>>

TryClaim(p) ==
  /\ pc[p] = "claim"
  /\ IF decoded = "PENDING"
     THEN decoded' = "CLAIMED" /\ Goto(p, "gather") /\ UNCHANGED locals
     ELSE Return(p) /\ UNCHANGED decoded
  /\ UNCHANGED <<present, slotIdx, seen, arena, disk, reports, crashes, won,
                 misfreed, hasty>>

-----------------------------------------------------------------------------
(* decode_and_write_block() *)

\* The symbols whose registration is between its bit and its link.
Unlinked == {sym[p] : p \in {q \in Procs : pc[q] = "link"}}

\* Whether the link of s is there for a reader that has seen its bit.
LinkStored(s) == s \notin Unlinked /\ slotIdx[s] = won[s]

Gather_OneTooMany(p) ==
  /\ pc[p] = "gather"
  /\ at[p] <= N
  /\ at' = [at EXCEPT ![p] = at[p] + 1]
  /\ IF at[p] \in present
     THEN /\ got' = [got EXCEPT ![p] = got[p] \cup {at[p]}]
          /\ ptr' = [ptr EXCEPT ![p][at[p]] = slotIdx[at[p]]]
          /\ hasty' = (hasty \/ ~LinkStored(at[p]))
     ELSE UNCHANGED <<got, ptr, hasty>>
  /\ UNCHANGED <<entry, arena, disk, reports, crashes, pc, sym, slot, won, misfreed>>

\* One turn of the gather loop: the bit, then the link.
Gather(p) ==
  /\ pc[p] = "gather"
  /\ at[p] < N
  /\ at' = [at EXCEPT ![p] = at[p] + 1]
  /\ IF at[p] \in present
     THEN /\ got' = [got EXCEPT ![p] = got[p] \cup {at[p]}]
          /\ ptr' = [ptr EXCEPT ![p][at[p]] = slotIdx[at[p]]]
          /\ hasty' = (hasty \/ ~LinkStored(at[p]))
     ELSE UNCHANGED <<got, ptr, hasty>>
  /\ UNCHANGED <<entry, arena, disk, reports, crashes, pc, sym, slot, won, misfreed>>

\* RsCodec::decode() takes the first K symbols that are there.
Chosen(p) == {s \in got[p] : Cardinality({t \in got[p] : t < s}) < K}
Bytes(p) == IF \A s \in Chosen(p) : content[ptr[p][s]] = s THEN "right" ELSE "wrong"

DecodeAndWrite_NoFlush(p) ==
  /\ pc[p] = "gather"
  /\ at[p] = N
  /\ Cardinality(got[p]) >= K
  /\ file' = Bytes(p)
  /\ Goto(p, "complete")
  /\ UNCHANGED <<entry, arena, durable, reports, crashes, locals, won, misfreed,
                 hasty>>

\* decode(), then write_block() into the mapped file.
DecodeAndWrite(p) ==
  /\ pc[p] = "gather"
  /\ at[p] = N
  /\ Cardinality(got[p]) >= K
  /\ file' = Bytes(p)
  /\ Goto(p, "flush")
  /\ UNCHANGED <<entry, arena, durable, reports, crashes, locals, won, misfreed,
                 hasty>>

\* decode() has too few symbols, or write_block() fails: RegisteredOnly is
\* returned and the block stays CLAIMED.
DecodeFails(p) ==
  /\ pc[p] = "gather"
  /\ at[p] = N
  /\ Cardinality(got[p]) < K \/ DiskFails
  /\ Return(p)
  /\ UNCHANGED <<entry, arena, disk, reports, crashes, won, misfreed, hasty>>

FlushBlock(p) ==
  /\ pc[p] = "flush"
  /\ durable' = TRUE
  /\ Goto(p, "complete")
  /\ UNCHANGED <<entry, arena, file, reports, crashes, locals, won, misfreed, hasty>>

FlushFails_Ignored(p) ==
  /\ pc[p] = "flush"
  /\ DiskFails
  /\ Goto(p, "complete")
  /\ UNCHANGED <<entry, arena, disk, reports, crashes, locals, won, misfreed, hasty>>

FlushFails(p) ==
  /\ pc[p] = "flush"
  /\ DiskFails
  /\ Return(p)
  /\ UNCHANGED <<entry, arena, disk, reports, crashes, won, misfreed, hasty>>

MarkComplete(p) ==
  /\ pc[p] = "complete"
  /\ decoded = "CLAIMED"
  /\ decoded' = "COMPLETE"
  /\ at' = [at EXCEPT ![p] = 0]
  /\ Goto(p, "release")
  /\ UNCHANGED <<present, slotIdx, seen, arena, disk, reports, crashes,
                 sym, slot, got, ptr, won, misfreed, hasty>>

\* One turn of the release loop, in two steps: free the slot the link names
\* now, then clear the link.
ReleaseSlot(p) ==
  /\ pc[p] = "release"
  /\ at[p] < N
  /\ at[p] \in got[p]
  /\ FreeSlot(slotIdx[at[p]], slotIdx[at[p]] = won[at[p]])
  /\ Goto(p, "clear")
  /\ UNCHANGED <<entry, disk, reports, crashes, locals, won, hasty>>

ClearSlot_KeepsLink(p) ==
  /\ pc[p] = "clear"
  /\ at' = [at EXCEPT ![p] = at[p] + 1]
  /\ Goto(p, "release")
  /\ UNCHANGED <<entry, arena, disk, reports, crashes, sym, slot, got, ptr, won,
                 misfreed, hasty>>

ClearSlot(p) ==
  /\ pc[p] = "clear"
  /\ slotIdx' = [slotIdx EXCEPT ![at[p]] = SlotFree]
  /\ at' = [at EXCEPT ![p] = at[p] + 1]
  /\ Goto(p, "release")
  /\ UNCHANGED <<present, seen, decoded, arena, disk, reports, crashes,
                 sym, slot, got, ptr, won, misfreed, hasty>>

ReleaseSkip(p) ==
  /\ pc[p] = "release"
  /\ at[p] < N
  /\ at[p] \notin got[p]
  /\ at' = [at EXCEPT ![p] = at[p] + 1]
  /\ UNCHANGED <<entry, arena, disk, reports, crashes, pc, sym, slot, got, ptr,
                 won, misfreed, hasty>>

\* BlockDecoded is returned and the main loop sends the message; a send that
\* fails is not looked at.
ReportBlock(p) ==
  /\ pc[p] = "release"
  /\ at[p] = N
  /\ reports' \in {reports + 1} \cup (IF SendFails THEN {reports} ELSE {})
  /\ Return(p)
  /\ UNCHANGED <<entry, arena, disk, crashes, won, misfreed, hasty>>

-----------------------------------------------------------------------------
\* A process dies; the supervisor's restart is a process that is idle.
Crash(p) ==
  /\ crashes < MaxCrashes
  /\ pc[p] # "idle"
  /\ crashes' = crashes + 1
  /\ Return(p)
  /\ UNCHANGED <<entry, arena, disk, reports, won, misfreed, hasty>>

Register(p) == \/ RegisterBit(p) \/ RegisterDuplicate(p)
               \/ RegisterLink(p) \/ RegisterCount(p)
Decode(p) == \/ Gather(p) \/ DecodeAndWrite(p) \/ DecodeFails(p) \/ FlushBlock(p)
             \/ FlushFails(p) \/ MarkComplete(p) \/ ReleaseSlot(p) \/ ClearSlot(p)
             \/ ReleaseSkip(p) \/ ReportBlock(p)
Handle(p) == \/ CheckPresent(p) \/ AllocSlot(p) \/ ArenaExhausted(p) \/ Register(p)
             \/ CheckThreshold(p) \/ TryClaim(p) \/ Decode(p)

Next == \E p \in Procs : DropComplete(p) \/ Receive(p) \/ Handle(p) \/ Crash(p)

Spec == Init /\ [][Next]_vars

\* A process that has a packet goes on handling it; no packet has to arrive.
FairSpec == Spec /\ \A p \in Procs : WF_vars(Handle(p))

-----------------------------------------------------------------------------
(* Properties *)

\* Where the claim's winner is.
Decoding == {"gather", "flush", "complete", "release", "clear"}

Labels == Decoding \cup {"idle", "present", "alloc", "register", "link", "count",
                         "threshold", "claim"}

TypeOK ==
  /\ present \in SUBSET Symbols
  /\ slotIdx \in [Symbols -> Slots \cup {SlotFree}]
  /\ seen \in 0 .. N
  /\ decoded \in {"PENDING", "CLAIMED", "COMPLETE"}
  /\ free \in SUBSET Slots
  /\ content \in [Slots -> Symbols \cup {None}]
  /\ file \in {"empty", "right", "wrong"}
  /\ durable \in BOOLEAN
  /\ reports \in Nat
  /\ crashes \in 0 .. MaxCrashes
  /\ pc \in [Procs -> Labels]
  /\ sym \in [Procs -> Symbols \cup {None}]
  /\ slot \in [Procs -> Slots \cup {None}]
  /\ at \in [Procs -> 0 .. N]
  /\ got \in [Procs -> SUBSET Symbols]
  /\ ptr \in [Procs -> [Symbols -> Slots \cup {SlotFree, None}]]
  /\ won \in [Symbols -> Slots \cup {None}]
  /\ misfreed \in BOOLEAN
  /\ hasty \in BOOLEAN

\* However many receivers cross the threshold together, one of them decodes,
\* and while it does the latch says so.
OneDecoder ==
  \A p \in Procs :
    pc[p] \in Decoding =>
      /\ decoded = IF pc[p] \in {"release", "clear"} THEN "COMPLETE" ELSE "CLAIMED"
      /\ reports = 0
      /\ \A q \in Procs \ {p} : pc[q] \notin Decoding

\* seen counts each symbol once: it is behind the mask by the registrations that
\* are between their CAS and their count, and by the dead ones.
SeenCountsPresent ==
  Cardinality(present) - seen - Cardinality({p \in Procs : pc[p] \in {"link", "count"}})
    \in 0 .. crashes

\* The threshold is never crossed with nobody to notice: while k symbols are
\* counted and no one has claimed the block, some process that will try is on
\* its way, unless it died.
ThresholdNoticed ==
  seen >= K /\ decoded = "PENDING" /\ crashes = 0
    => \E p \in Procs : pc[p] \in {"threshold", "claim"}

\* What the receivers do to each other's slots and bytes is right as long as no
\* decoder has gathered a symbol by its bit alone: that one race (run Block_link)
\* is the only way to lose either, with as many parity symbols as there are.

\* A block that has been reported is in the file and durable, and its bytes are
\* the sender's.
ReportedIsOnDisk == reports > 0 => durable /\ (~hasty => file = "right")

\* The symbols whose link is current: not one that is yet to be written, not one
\* whose slot has just been freed.
Released == {at[p] : p \in {q \in Procs : pc[q] = "clear"}}
Stored == {t \in present \ (Unlinked \cup Released) : slotIdx[t] # SlotFree}
Linked == {slotIdx[t] : t \in Stored}
InHand == {slot[p] : p \in {q \in Procs : pc[q] \in {"register", "link"}}}

\* Nothing is freed that is not held for it, whoever dies; and while nobody dies,
\* a slot is in the free list, in a process's hand or linked from the table, one
\* of these and not two: a symbol registered behind the decoder's back keeps its
\* slot, linked, for the purge.
SlotsInOnePlace ==
  ~hasty =>
    /\ ~misfreed
    /\ crashes = 0 =>
         /\ \A t, u \in Stored : slotIdx[t] = slotIdx[u] => t = u
         /\ free \cap (InHand \cup Linked) = {}
         /\ InHand \cap Linked = {}
         /\ free \cup InHand \cup Linked = Slots

\* A block that has its k symbols is completed and the slots of those it was decoded
\* from return to the arena, whoever races for it and whatever registers meanwhile.
\* What the code gives up is a block whose decoder failed with the claim, and whatever
\* a dying process had in hand.
Abandoned == /\ decoded = "CLAIMED"
             /\ \A p \in Procs : pc[p] \notin Decoding

Cleared == {s \in present : slotIdx[s] = SlotFree}

EventuallyDecoded ==
  (seen >= K) ~> \/ decoded = "COMPLETE" /\ Cardinality(Cleared) >= K
                 \/ Abandoned
                 \/ hasty
                 \/ crashes > 0

\* The group keeps the promise made to session_manager.
Promise == INSTANCE BlockPromise WITH
  collected <- present,
  stage <- CASE decoded = "PENDING" -> "collecting"
             [] decoded = "CLAIMED" -> IF durable THEN "durable" ELSE "decoding"
             [] decoded = "COMPLETE" -> "complete"

KeepsPromise == Promise!BlockSpec

\* The comment on BlockEntry::slot_idx: a reader that has observed the presence
\* bit sees the link that was written for it.
GatheredIsLinked ==
  \A p \in Procs : \A s \in got[p] : pc[p] = "gather" => ptr[p][s] = won[s]
=============================================================================
