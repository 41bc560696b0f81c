---------------------------- MODULE BlockWriter -----------------------------
(***************************************************************************)
(* The destination file of one session, mapped by every receiver that has  *)
(* the session open (src/src/receiver/block_writer.cpp).  A decoded block  *)
(* goes to its offset, clipped to the file; flush_block() makes its pages  *)
(* durable before the block is reported.                                   *)
(*                                                                         *)
(* The mappings are shared, so there is one page cache; the kernel writes  *)
(* a page back when it likes, and a power failure leaves what is on disk.  *)
(* Byte j of decoded block b is the pair <<b, j>>.                         *)
(***************************************************************************)
EXTENDS Integers, FiniteSets

CONSTANTS Procs,       \* receiver processes
          BlockBytes,  \* block_bytes_: k * symbol_bytes
          FileSize,    \* file_size of SessionOpen
          DiskSize,    \* size of the file that session_manager allocated
          PageSize,    \* sysconf(_SC_PAGESIZE)
          TotalBlocks, \* total_blocks of SessionOpen: ids 0 .. TotalBlocks-1
          None,        \* no block, a byte never written
          SyncFails,   \* may msync() fail?
          MaxLosses    \* bound: how many power failures a behaviour has

ASSUME WriterAssumption == /\ {BlockBytes, PageSize} \subseteq Nat \ {0}
                           /\ {FileSize, DiskSize, TotalBlocks, MaxLosses} \subseteq Nat
                           /\ SyncFails \in BOOLEAN

Blocks == 0 .. TotalBlocks - 1
Bytes == 0 .. DiskSize - 1

VARIABLES mapped,  \* processes whose open() mapped the file
          hand,    \* hand[p]: the block p has written and not yet flushed
          cache,   \* the file as its mappings show it
          disk,    \* the file as a power failure leaves it
          flushed, \* blocks whose flush_block() returned true
          refused, \* blocks write_block() refused
          losses

vars == <<mapped, hand, cache, disk, flushed, refused, losses>>

Init ==
  /\ mapped = {}
  /\ hand = [p \in Procs |-> None]
  /\ cache = [i \in Bytes |-> None]
  /\ disk = [i \in Bytes |-> None]
  /\ flushed = {}
  /\ refused = {}
  /\ losses = 0

\* open(): an allocated file that is too small is refused; an empty one is not
\* mapped, and every block is out of its range.
Open(p) ==
  /\ p \notin mapped
  /\ DiskSize >= FileSize
  /\ FileSize > 0
  /\ mapped' = mapped \cup {p}
  /\ UNCHANGED <<hand, cache, disk, flushed, refused, losses>>

\* close(), from purge_session().
Close(p) ==
  /\ p \in mapped
  /\ hand[p] = None
  /\ mapped' = mapped \ {p}
  /\ UNCHANGED <<hand, cache, disk, flushed, refused, losses>>

Off(b) == b * BlockBytes
InRange(b) == Off(b) < FileSize

\* Seeded faults, here and below: the definition that follows with one bug that
\* a change of the code could bring in.  A run of its own shows it is noticed.
Clip_Whole(b) == BlockBytes

\* min(block_bytes_, file_size_ - off): the last block is shorter.
Clip(b) == IF BlockBytes <= FileSize - Off(b) THEN BlockBytes ELSE FileSize - Off(b)

Span(from, len) == from .. from + len - 1

WriteBlock_MapNotChecked(p, b) ==
  /\ hand[p] = None
  /\ InRange(b)
  /\ cache' = [i \in Bytes |->
                 IF i \in Span(Off(b), Clip(b)) THEN <<b, i - Off(b)>> ELSE cache[i]]
  /\ hand' = [hand EXCEPT ![p] = b]
  /\ UNCHANGED <<mapped, disk, flushed, refused, losses>>

WriteBlock(p, b) ==
  /\ p \in mapped
  /\ hand[p] = None
  /\ InRange(b)
  /\ cache' = [i \in Bytes |->
                 IF i \in Span(Off(b), Clip(b)) THEN <<b, i - Off(b)>> ELSE cache[i]]
  /\ hand' = [hand EXCEPT ![p] = b]
  /\ UNCHANGED <<mapped, disk, flushed, refused, losses>>

WriteRefused(p, b) ==
  /\ p \in mapped
  /\ hand[p] = None
  /\ ~InRange(b)
  /\ refused' = refused \cup {b}
  /\ UNCHANGED <<mapped, hand, cache, disk, flushed, losses>>

\* msync() wants a page-aligned start: round it down, and extend the length.
AlignedOff(b) == (Off(b) \div PageSize) * PageSize
AlignedLen_NotExtended(b) == Clip(b)
AlignedLen(b) == Off(b) + Clip(b) - AlignedOff(b)

\* The pages that hold some byte of a span reach the disk.
Page(i) == i \div PageSize
Sync(span) ==
  disk' = [i \in Bytes |-> IF \E j \in span : Page(j) = Page(i) THEN cache[i] ELSE disk[i]]

FlushBlock(p) ==
  /\ hand[p] # None
  /\ Sync(Span(AlignedOff(hand[p]), AlignedLen(hand[p])))
  /\ flushed' = flushed \cup {hand[p]}
  /\ hand' = [hand EXCEPT ![p] = None]
  /\ UNCHANGED <<mapped, cache, refused, losses>>

FlushFails(p) ==
  /\ hand[p] # None
  /\ SyncFails
  /\ hand' = [hand EXCEPT ![p] = None]
  /\ UNCHANGED <<mapped, cache, disk, flushed, refused, losses>>

\* The kernel (external).
Writeback ==
  /\ \E i \in Bytes : Sync({i})
  /\ UNCHANGED <<mapped, hand, cache, flushed, refused, losses>>

PowerFailure ==
  /\ losses < MaxLosses
  /\ losses' = losses + 1
  /\ cache' = disk
  /\ mapped' = {}
  /\ hand' = [p \in Procs |-> None]
  /\ UNCHANGED <<disk, flushed, refused>>

Next == \/ \E p \in Procs : \/ Open(p) \/ Close(p) \/ FlushBlock(p) \/ FlushFails(p)
                            \/ \E b \in Blocks : WriteBlock(p, b) \/ WriteRefused(p, b)
        \/ Writeback \/ PowerFailure

Spec == Init /\ [][Next]_vars

-----------------------------------------------------------------------------
(* Properties *)

\* The byte the sender's file has at offset i.
Original(i) == <<i \div BlockBytes, i % BlockBytes>>

TypeOK ==
  /\ mapped \in SUBSET Procs
  /\ hand \in [Procs -> Blocks \cup {None}]
  /\ DOMAIN cache = Bytes
  /\ DOMAIN disk = Bytes
  /\ flushed \in SUBSET Blocks
  /\ refused \in SUBSET Blocks
  /\ losses \in 0 .. MaxLosses
  /\ \A p \in Procs : hand[p] # None => p \in mapped

\* A block whose flush has been confirmed is on disk whole, as the sender has it,
\* and stays so through other blocks' writes, writeback and power failures.
FlushedSurvives ==
  \A i \in Bytes : i < FileSize /\ i \div BlockBytes \in flushed => disk[i] = Original(i)

\* Every byte anybody wrote is the sender's byte for that offset, and the padding
\* of the last block never reaches the file; only blocks that have no byte of the
\* file are refused.
OnlyOwnBytes ==
  /\ \A i \in Bytes : cache[i] # None => cache[i] = Original(i) /\ i < FileSize
  /\ \A b \in refused : \A i \in 0 .. FileSize - 1 : i \div BlockBytes # b
=============================================================================
