------------------------- MODULE BlockWriterProofs --------------------------
(***************************************************************************)
(* What TLAPS proves of the destination file: whatever the page size, the  *)
(* block size and the file size are, a flushed block survives.             *)
(***************************************************************************)
EXTENDS BlockWriter, TLAPS

-----------------------------------------------------------------------------
(* The inductive invariant. *)

\* What a byte of the cache or of the disk may be.
OwnByte(v, i) == v # None => v = Original(i) /\ i < FileSize

\* Block b is whole in f, up to the end of the file.
Whole(f, b) == \A i \in Bytes : i < FileSize /\ i \div BlockBytes = b => f[i] = Original(i)

\* Writeback copies the cache over the disk at any time, and a power failure the
\* disk over the cache: a flushed block has to be whole in both.
FlushedInBoth == \A b \in flushed : Whole(cache, b) /\ Whole(disk, b)

\* A process that is about to flush a block has it whole in the cache.
WrittenInCache == \A p \in Procs : hand[p] # None => Whole(cache, hand[p])

OwnBytes == \A i \in Bytes : OwnByte(cache[i], i) /\ OwnByte(disk[i], i)

RefusedOutside == \A b \in refused : ~InRange(b)

IInv == TypeOK /\ FlushedInBoth /\ WrittenInCache /\ OwnBytes /\ RefusedOutside

-----------------------------------------------------------------------------
(* Lemmas about offsets *)

\* Division by a positive number.
LEMMA Division ==
  ASSUME NEW i \in Nat, NEW d \in Nat \ {0}
  PROVE  /\ i \div d \in Nat /\ i % d \in 0 .. d - 1
         /\ i = (i \div d) * d + (i % d)
OBVIOUS

\* Rounding down to a multiple of d.
LEMMA RoundDown ==
  ASSUME NEW i \in Nat, NEW d \in Nat \ {0}
  PROVE  (i \div d) * d \in Nat /\ (i \div d) * d <= i
<1> DEFINE q == i \div d
<1>1. q \in Nat /\ i % d \in Nat /\ i = q * d + (i % d)
  BY Division
<1> HIDE DEF q
<1>2. q * d \in Nat
  BY <1>1
<1> QED BY <1>1, <1>2 DEF q

\* Byte i is in block b when it is between b's offset and the next block's.
LEMMA BlockOfByte ==
  ASSUME NEW b \in Nat, NEW i \in Nat
  PROVE  /\ Off(b) <= i /\ i < Off(b) + BlockBytes <=> i \div BlockBytes = b
         /\ i \div BlockBytes = b => i - Off(b) = i % BlockBytes
<1> DEFINE q == i \div BlockBytes
           r == i % BlockBytes
<1>1. BlockBytes \in Nat \ {0}
  BY WriterAssumption
<1>2. q \in Nat /\ r \in 0 .. BlockBytes - 1 /\ i = q * BlockBytes + r
  BY <1>1, Division
<1> HIDE DEF q, r
<1>3. CASE q = b
  BY <1>1, <1>2, <1>3 DEF Off, q, r
<1>4. CASE q <= b - 1
  <2>1. q * BlockBytes + BlockBytes <= b * BlockBytes
    BY <1>1, <1>2, <1>4
  <2> QED BY <1>1, <1>2, <1>4, <2>1 DEF Off, q
<1>5. CASE q >= b + 1
  <2>1. q * BlockBytes >= b * BlockBytes + BlockBytes
    BY <1>1, <1>2, <1>5
  <2> QED BY <1>1, <1>2, <1>5, <2>1 DEF Off, q
<1> QED BY <1>2, <1>3, <1>4, <1>5

\* What write_block() overwrites: the bytes of the block that the file has.
LEMMA ClippedSpan ==
  ASSUME NEW b \in Nat, InRange(b), NEW i \in Nat
  PROVE  /\ i \in Span(Off(b), Clip(b)) <=> i \div BlockBytes = b /\ i < FileSize
         /\ i \in Span(Off(b), Clip(b)) => <<b, i - Off(b)>> = Original(i)
<1>1. Off(b) \in Nat /\ BlockBytes \in Nat \ {0} /\ FileSize \in Nat
  BY WriterAssumption DEF Off
<1>2. i \in Span(Off(b), Clip(b)) <=> Off(b) <= i /\ i < Off(b) + BlockBytes /\ i < FileSize
  BY <1>1 DEF Span, Clip, InRange
<1> QED BY <1>2, BlockOfByte DEF Original

\* The span that msync() is given, rounded down to a page, holds the block.
LEMMA AlignedCovers ==
  ASSUME NEW b \in Nat, NEW i \in Nat, i \in Span(Off(b), Clip(b))
  PROVE  i \in Span(AlignedOff(b), AlignedLen(b))
<1>1. /\ Off(b) \in Nat /\ BlockBytes \in Nat /\ FileSize \in Nat
      /\ PageSize \in Nat \ {0}
  BY WriterAssumption DEF Off
<1>2. AlignedOff(b) \in Nat /\ AlignedOff(b) <= Off(b)
  BY <1>1, RoundDown DEF AlignedOff
<1>3. Clip(b) \in Int
  BY <1>1 DEF Clip
<1> QED BY <1>1, <1>2, <1>3 DEF Span, AlignedLen

\* A sync gives the disk a byte of the cache or leaves it alone, and does the
\* former over its whole span.
LEMMA SyncBytes ==
  ASSUME NEW span, Sync(span)
  PROVE  /\ DOMAIN disk' = Bytes
         /\ \A i \in Bytes : disk'[i] \in {cache[i], disk[i]}
         /\ \A i \in Bytes : i \in span => disk'[i] = cache[i]
BY DEF Sync

-----------------------------------------------------------------------------
(* The steps *)

\* At the start nothing is written, mapped or flushed.
LEMMA InitInv == Init => IInv
<1> SUFFICES ASSUME Init PROVE IInv
  OBVIOUS
<1>1. TypeOK
  BY WriterAssumption DEF Init, TypeOK
<1> QED BY <1>1 DEF Init, IInv, FlushedInBoth, WrittenInCache, OwnBytes, OwnByte, RefusedOutside

\* open() and close() touch no byte.
LEMMA MapInv ==
  ASSUME IInv, NEW p \in Procs, Open(p) \/ Close(p) PROVE IInv'
<1>1. UNCHANGED <<hand, cache, disk, flushed, refused, losses>>
  BY DEF Open, Close
<1>2. TypeOK'
  BY <1>1 DEF IInv, TypeOK, Open, Close
<1> QED BY <1>1, <1>2 DEF IInv, FlushedInBoth, WrittenInCache, Whole, OwnBytes, RefusedOutside

\* A write changes the bytes of its own block to what they should be.
LEMMA WriteBlockInv ==
  ASSUME IInv, NEW p \in Procs, NEW b \in Blocks, WriteBlock(p, b) PROVE IInv'
<1> USE DEF IInv
<1>1. b \in Nat /\ InRange(b)
  BY WriterAssumption DEF Blocks, WriteBlock
<1>2. Bytes \subseteq Nat
  BY WriterAssumption DEF Bytes
<1>3. \A i \in Bytes :
        cache'[i] = IF i \div BlockBytes = b /\ i < FileSize THEN Original(i) ELSE cache[i]
  BY <1>1, <1>2, ClippedSpan DEF WriteBlock
<1>4. \A c : Whole(cache, c) => Whole(cache', c)
  BY <1>3 DEF Whole
<1>5. Whole(cache', b)
  BY <1>3 DEF Whole
<1>6. TypeOK'
  BY DEF TypeOK, WriteBlock
<1>7. FlushedInBoth'
  BY <1>4 DEF FlushedInBoth, Whole, WriteBlock
<1>8. WrittenInCache'
  <2> SUFFICES ASSUME NEW q \in Procs, hand'[q] # None PROVE Whole(cache', hand'[q])
    BY DEF WrittenInCache, Whole
  <2>1. hand'[q] = IF q = p THEN b ELSE hand[q]
    BY DEF WriteBlock, TypeOK
  <2> QED BY <1>4, <1>5, <2>1 DEF WrittenInCache
<1>9. OwnBytes'
  BY <1>3 DEF OwnBytes, OwnByte, WriteBlock
<1>10. RefusedOutside'
  BY DEF RefusedOutside, WriteBlock
<1> QED BY <1>6, <1>7, <1>8, <1>9, <1>10

\* Only a block past the end of the file is refused.
LEMMA WriteRefusedInv ==
  ASSUME IInv, NEW p \in Procs, NEW b \in Blocks, WriteRefused(p, b) PROVE IInv'
<1> USE DEF IInv, WriteRefused
<1>1. TypeOK'
  BY DEF TypeOK
<1>2. RefusedOutside'
  BY DEF RefusedOutside
<1> QED BY <1>1, <1>2 DEF FlushedInBoth, WrittenInCache, Whole, OwnBytes

\* A disk byte that a sync replaces is as good as the one it replaces.
LEMMA SyncInv ==
  ASSUME IInv, NEW span, Sync(span), UNCHANGED <<cache, flushed>>
  PROVE  FlushedInBoth' /\ OwnBytes'
<1>1. \A i \in Bytes : disk'[i] \in {cache[i], disk[i]}
  BY SyncBytes
<1> QED BY <1>1 DEF IInv, FlushedInBoth, Whole, OwnBytes, OwnByte

\* The block that was in hand is now whole on disk as well.
LEMMA FlushBlockInv ==
  ASSUME IInv, NEW p \in Procs, FlushBlock(p) PROVE IInv'
<1> USE DEF IInv
<1> DEFINE b == hand[p]
           span == Span(AlignedOff(b), AlignedLen(b))
<1>1. b \in Blocks /\ b # None /\ Sync(span)
  BY DEF FlushBlock, TypeOK
<1>2. b \in Nat /\ Bytes \subseteq Nat /\ FileSize \in Nat
  BY <1>1, WriterAssumption DEF Blocks, Bytes
<1>3. Whole(cache, b)
  BY <1>1 DEF WrittenInCache
<1>4. DOMAIN disk' = Bytes /\ \A i \in Bytes : disk'[i] \in {cache[i], disk[i]}
  BY <1>1, SyncBytes
<1>5. ASSUME NEW i \in Bytes, i < FileSize, i \div BlockBytes = b
      PROVE  disk'[i] = Original(i)
  <2>1. Off(b) <= i
    BY <1>2, <1>5, BlockOfByte
  <2>2. InRange(b)
    BY <1>2, <1>5, <2>1, WriterAssumption DEF InRange, Off
  <2>3. i \in Span(Off(b), Clip(b))
    BY <1>2, <1>5, <2>2, ClippedSpan
  <2>4. i \in span
    BY <1>2, <2>3, AlignedCovers
  <2>5. disk'[i] = cache[i]
    BY <1>1, <2>4, SyncBytes
  <2> QED BY <1>3, <1>5, <2>5 DEF Whole
<1> HIDE DEF b, span
<1>6. flushed' = flushed \cup {b} /\ UNCHANGED <<mapped, cache, refused, losses>>
  BY DEF FlushBlock, b
<1>7. \A q \in Procs : hand'[q] = IF q = p THEN None ELSE hand[q]
  BY DEF FlushBlock, TypeOK
<1>8. TypeOK'
  BY <1>1, <1>4, <1>6, <1>7 DEF TypeOK, FlushBlock
<1>9. FlushedInBoth'
  BY <1>3, <1>4, <1>5, <1>6 DEF FlushedInBoth, Whole
<1>10. WrittenInCache'
  BY <1>6, <1>7 DEF WrittenInCache, Whole
<1>11. OwnBytes'
  BY <1>4, <1>6 DEF OwnBytes, OwnByte
<1>12. RefusedOutside'
  BY <1>6 DEF RefusedOutside
<1> QED BY <1>8, <1>9, <1>10, <1>11, <1>12

\* A flush that fails confirms nothing.
LEMMA FlushFailsInv ==
  ASSUME IInv, NEW p \in Procs, FlushFails(p) PROVE IInv'
<1> USE DEF IInv, FlushFails
<1>1. TypeOK'
  BY DEF TypeOK
<1>2. WrittenInCache'
  BY DEF WrittenInCache, Whole, TypeOK
<1> QED BY <1>1, <1>2 DEF FlushedInBoth, Whole, OwnBytes, RefusedOutside

\* The kernel writes a page back.
LEMMA WritebackInv == IInv /\ Writeback => IInv'
<1> SUFFICES ASSUME IInv, NEW i \in Bytes, Sync({i}),
                    UNCHANGED <<mapped, hand, cache, flushed, refused, losses>>
             PROVE  IInv'
  BY DEF Writeback
<1>1. TypeOK'
  BY SyncBytes DEF IInv, TypeOK
<1>2. FlushedInBoth' /\ OwnBytes'
  BY SyncInv
<1> QED BY <1>1, <1>2 DEF IInv, WrittenInCache, Whole, RefusedOutside

\* A power failure takes the cache and the processes.
LEMMA PowerFailureInv == IInv /\ PowerFailure => IInv'
<1> SUFFICES ASSUME IInv, PowerFailure PROVE IInv'
  OBVIOUS
<1> USE DEF IInv, PowerFailure
<1>1. TypeOK'
  BY WriterAssumption DEF TypeOK
<1> QED BY <1>1 DEF FlushedInBoth, WrittenInCache, Whole, OwnBytes, RefusedOutside

\* Every step keeps the invariant.
LEMMA NextInv == IInv /\ [Next]_vars => IInv'
<1> SUFFICES ASSUME IInv, [Next]_vars PROVE IInv'
  OBVIOUS
<1>1. CASE UNCHANGED vars
  BY <1>1 DEF vars, IInv, TypeOK, FlushedInBoth, WrittenInCache, Whole, OwnBytes, RefusedOutside
<1> QED BY <1>1, MapInv, WriteBlockInv, WriteRefusedInv, FlushBlockInv, FlushFailsInv,
           WritebackInv, PowerFailureInv DEF Next

\* The invariant holds in every state of every behaviour.
LEMMA SpecInv == Spec => []IInv
BY InitInv, NextInv, PTL DEF Spec

\* A block in hand is always of a process that has the file mapped: nobody closes
\* the file between write_block() and flush_block().
THEOREM WriterTypeCorrect == Spec => []TypeOK
BY SpecInv, PTL DEF IInv

\* A block whose flush_block() returned true is on disk whole and stays so,
\* whatever the kernel and the other receivers do next.
THEOREM FlushedBlocksSurvive == Spec => []FlushedSurvives
<1>1. IInv => FlushedSurvives
  BY DEF IInv, FlushedInBoth, Whole, FlushedSurvives
<1> QED BY <1>1, SpecInv, PTL

\* No byte of the file is another block's or the padding of the last block, and
\* only a block that has no byte of the file is refused.
THEOREM OnlyOwnBytesWritten == Spec => []OnlyOwnBytes
<1>1. ASSUME IInv, NEW b \in refused, NEW i \in 0 .. FileSize - 1
      PROVE  i \div BlockBytes # b
  <2>1. b \in Nat /\ i \in Nat /\ i < FileSize /\ Off(b) >= FileSize
    BY <1>1, WriterAssumption DEF IInv, TypeOK, RefusedOutside, InRange, Blocks, Off
  <2>2. Off(b) \in Nat /\ FileSize \in Nat
    BY <2>1, WriterAssumption DEF Off
  <2> QED BY <2>1, <2>2, BlockOfByte
<1>2. IInv => OnlyOwnBytes
  BY <1>1 DEF IInv, OwnBytes, OwnByte, OnlyOwnBytes
<1> QED BY <1>2, SpecInv, PTL
=============================================================================
