--------------------------- MODULE SegmentLayout ----------------------------
(***************************************************************************)
(* Where everything is in the shared segment (src/src/receiver/            *)
(* shm_manager.hpp and shm_manager.cpp): the header, the session table, a  *)
(* block table and a bitmap for each session, the slot arena.  The header  *)
(* holds offsets, written once by the creator and used by all; the total   *)
(* size is computed apart from them, before there is a header.             *)
(***************************************************************************)
EXTENDS Integers

CONSTANTS ShmHeaderBytes,         \* sizeof(ShmHeader)
          SessionEntryBytes,      \* sizeof(SessionEntry)
          BlockEntryBytes,        \* sizeof(BlockEntry)
          SLOT_SIZE,
          MAX_SESSIONS,
          MAX_BLOCKS_PER_SESSION,
          ArenaBytes,             \* the argument of create()
          Range32                 \* 2^32: the values of a uint32_t

\* What is aligned fits into the uint32_t that ALIGN8() returns, and what lies in an
\* array has a size that keeps the next element aligned.
ASSUME LayoutAssumption ==
  /\ {ShmHeaderBytes, SessionEntryBytes, BlockEntryBytes, SLOT_SIZE, MAX_SESSIONS,
      MAX_BLOCKS_PER_SESSION, ArenaBytes, Range32} \subseteq Nat \ {0}
  /\ ShmHeaderBytes + MAX_SESSIONS * SessionEntryBytes + 7 < Range32
  /\ MAX_BLOCKS_PER_SESSION * BlockEntryBytes + 7 < Range32
  /\ BlockEntryBytes % 8 = 0 /\ SLOT_SIZE % 8 = 0

ALIGN8(v) == (8 * ((v + 7) \div 8)) % Range32

\* Seeded fault: the definition that follows with one bug that a change of the code
\* could bring in.  A run of its own shows it is noticed.
per_session_block_table_bytes_InEntries == ALIGN8(MAX_BLOCKS_PER_SESSION)
per_session_block_table_bytes == ALIGN8(MAX_BLOCKS_PER_SESSION * BlockEntryBytes)
per_session_bitmap_bytes == ALIGN8((MAX_BLOCKS_PER_SESSION + 7) \div 8)

per_session_stride == per_session_block_table_bytes + per_session_bitmap_bytes

compute_arena_offset ==
  ALIGN8(ShmHeaderBytes + MAX_SESSIONS * SessionEntryBytes)
    + MAX_SESSIONS * per_session_stride

compute_total_size == compute_arena_offset + ArenaBytes

\* The fields init_header() writes.
BlockRegion == ALIGN8(ShmHeaderBytes + MAX_SESSIONS * SessionEntryBytes)
ArenaStart == BlockRegion + MAX_SESSIONS * per_session_stride

init_header ==
  [slot_size |-> SLOT_SIZE,
   slot_count |-> (ArenaBytes \div SLOT_SIZE) % Range32,
   session_table_offset |-> ShmHeaderBytes,
   block_table_region_offset |-> BlockRegion,
   arena_offset |-> ArenaStart,
   total_size |-> ArenaStart + ArenaBytes]

offsets_valid(h) ==
  /\ h.session_table_offset < h.total_size
  /\ h.block_table_region_offset < h.total_size
  /\ h.arena_offset < h.total_size
  /\ h.arena_offset + h.slot_count * h.slot_size <= h.total_size

-----------------------------------------------------------------------------
(* What a process that trusts the header h reads and writes *)

session_entry(h, i) == h.session_table_offset + i * SessionEntryBytes

\* open_session() stores the offset of a session's table in its entry, and refuses more
\* than MAX_BLOCKS_PER_SESSION blocks.
block_table_offset(h, i) == h.block_table_region_offset + i * per_session_stride
block_entry(h, i, b) == block_table_offset(h, i) + b * BlockEntryBytes

slot_offset(h, s) == h.arena_offset + s * SLOT_SIZE

SessionIdx == 0 .. MAX_SESSIONS - 1
BlockIds == 0 .. MAX_BLOCKS_PER_SESSION - 1
SlotIdx(h) == 0 .. h.slot_count - 1

\* n bytes at x and m bytes at y do not overlap.
Apart(x, n, y, m) == x + n <= y \/ y + m <= x

\* No two things in the segment share a byte, and none of them ends behind its limit.
Separate(h, limit) ==
  /\ \A i \in SessionIdx : ShmHeaderBytes <= session_entry(h, i)
  /\ \A i, j \in SessionIdx :
       i # j => Apart(session_entry(h, i), SessionEntryBytes,
                      session_entry(h, j), SessionEntryBytes)
  /\ \A i, j \in SessionIdx, b \in BlockIds :
       session_entry(h, i) + SessionEntryBytes <= block_entry(h, j, b)
  /\ \A i, j \in SessionIdx, b, c \in BlockIds :
       i # j \/ b # c => Apart(block_entry(h, i, b), BlockEntryBytes,
                               block_entry(h, j, c), BlockEntryBytes)
  /\ \A i \in SessionIdx, b \in BlockIds, s \in SlotIdx(h) :
       block_entry(h, i, b) + BlockEntryBytes <= slot_offset(h, s)
  /\ \A s, t \in SlotIdx(h) :
       s # t => Apart(slot_offset(h, s), SLOT_SIZE, slot_offset(h, t), SLOT_SIZE)
  /\ \A i \in SessionIdx, b \in BlockIds :
       block_entry(h, i, b) + BlockEntryBytes <= limit
  /\ \A s \in SlotIdx(h) : slot_offset(h, s) + SLOT_SIZE <= limit

\* What is accessed as 64-bit words (the presence mask, a free slot's link) is aligned.
Aligned(h) ==
  /\ \A i \in SessionIdx, b \in BlockIds : block_entry(h, i, b) % 8 = 0
  /\ \A s \in SlotIdx(h) : slot_offset(h, s) % 8 = 0
=============================================================================
