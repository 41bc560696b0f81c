--------------------------- MODULE SegmentProofs ----------------------------
(***************************************************************************)
(* The safety of Segment, proved for every number of processes, attempts   *)
(* and deaths and for all sizes of what is in the segment.                 *)
(***************************************************************************)
EXTENDS Segment, FiniteSetTheorems, TLAPS

-----------------------------------------------------------------------------
(* The layout *)

\* Every size and count is a natural number, and none is zero.
LEMMA Positive ==
  /\ ShmHeaderBytes \in Nat /\ ShmHeaderBytes > 0
  /\ SessionEntryBytes \in Nat /\ SessionEntryBytes > 0
  /\ BlockEntryBytes \in Nat /\ BlockEntryBytes > 0
  /\ SLOT_SIZE \in Nat /\ SLOT_SIZE > 0
  /\ MAX_SESSIONS \in Nat /\ MAX_SESSIONS > 0
  /\ MAX_BLOCKS_PER_SESSION \in Nat /\ MAX_BLOCKS_PER_SESSION > 0
  /\ ArenaBytes \in Nat /\ ArenaBytes > 0
  /\ Range32 \in Nat /\ Range32 > 0
BY LayoutAssumption

\* Elements i and j of an array: the first ends where the second begins, or before.
LEMMA Elements ==
  ASSUME NEW i \in Nat, NEW j \in Nat, i < j, NEW s \in Nat
  PROVE  /\ i * s \in Nat
         /\ j * s \in Nat
         /\ i * s + s <= j * s
<1> DEFINE d == j - i - 1
<1>1. d \in Nat /\ j = i + 1 + d
  OBVIOUS
<1>2. j * s = i * s + s + d * s
  BY <1>1
<1>3. i * s \in Nat /\ d * s \in Nat
  BY <1>1
<1> QED
  BY <1>2, <1>3

\* Products of natural numbers are natural numbers.
LEMMA Product == ASSUME NEW i \in Nat, NEW s \in Nat PROVE i * s \in Nat
OBVIOUS

\* 8 divides its multiples.
LEMMA Eights == ASSUME NEW w \in Nat PROVE (8 * w) % 8 = 0
OBVIOUS

\* 8 divides every multiple of a number it divides.
LEMMA MultipleOf8 ==
  ASSUME NEW i \in Nat, NEW v \in Nat, v % 8 = 0
  PROVE  (i * v) % 8 = 0
<1>1. PICK q \in Nat : v = 8 * q
  <2>1. v = 8 * (v \div 8) /\ v \div 8 \in Nat
    OBVIOUS
  <2> QED BY <2>1
<1>2. i * v = 8 * (i * q) /\ i * q \in Nat
  BY <1>1
<1>3. (8 * (i * q)) % 8 = 0
  BY <1>2, Eights
<1> QED
  BY <1>2, <1>3

\* What a division leaves out is never negative.
LEMMA Quotient ==
  ASSUME NEW a \in Nat, NEW m \in Nat, m > 0
  PROVE  a \div m \in Nat /\ (a \div m) * m <= a
OBVIOUS

\* A remainder is at most the number, and is the number where it is below the modulus.
LEMMA SmallRest ==
  ASSUME NEW a \in Nat, NEW m \in Nat, m > 0
  PROVE  /\ a % m \in Nat
         /\ a % m <= a
         /\ a < m => a % m = a
OBVIOUS

\* ALIGN8() of what fits: the next multiple of 8.
LEMMA Align ==
  ASSUME NEW v \in Nat, v + 7 < Range32
  PROVE  ALIGN8(v) \in Nat /\ v <= ALIGN8(v) /\ ALIGN8(v) % 8 = 0
<1> DEFINE a == 8 * ((v + 7) \div 8)
<1>1. a \in Nat /\ v <= a /\ a <= v + 7 /\ a % 8 = 0
  OBVIOUS
<1>2. a % Range32 = a
  BY <1>1, Positive, SmallRest
<1> QED
  BY <1>1, <1>2 DEF ALIGN8

\* A session's stride holds its block table, and the regions follow one another.
LEMMA Regions ==
  /\ per_session_stride \in Nat
  /\ MAX_BLOCKS_PER_SESSION * BlockEntryBytes <= per_session_stride
  /\ per_session_stride % 8 = 0
  /\ BlockRegion \in Nat
  /\ ShmHeaderBytes + MAX_SESSIONS * SessionEntryBytes <= BlockRegion
  /\ BlockRegion % 8 = 0
  /\ ArenaStart \in Nat
  /\ ArenaStart = BlockRegion + MAX_SESSIONS * per_session_stride
  /\ ArenaStart % 8 = 0
<1> USE Positive
<1> DEFINE tableBytes == MAX_BLOCKS_PER_SESSION * BlockEntryBytes
           bitmap == (MAX_BLOCKS_PER_SESSION + 7) \div 8
           sessions == MAX_SESSIONS * SessionEntryBytes
<1>1. tableBytes \in Nat /\ sessions \in Nat
  BY Product
<1>2. tableBytes + 7 < Range32 /\ ShmHeaderBytes + sessions + 7 < Range32
  BY LayoutAssumption
<1>3. bitmap \in Nat /\ bitmap + 7 < Range32
  <2>1. MAX_BLOCKS_PER_SESSION <= tableBytes
    <3>1. MAX_BLOCKS_PER_SESSION * BlockEntryBytes
            = MAX_BLOCKS_PER_SESSION + MAX_BLOCKS_PER_SESSION * (BlockEntryBytes - 1)
      OBVIOUS
    <3>2. MAX_BLOCKS_PER_SESSION * (BlockEntryBytes - 1) \in Nat
      OBVIOUS
    <3> QED BY <3>1, <3>2
  <2>2. bitmap \in Nat /\ bitmap <= MAX_BLOCKS_PER_SESSION
    OBVIOUS
  <2> HIDE DEF bitmap, tableBytes
  <2> QED BY <1>1, <1>2, <2>1, <2>2
<1> HIDE DEF tableBytes, bitmap, sessions
<1>4. /\ ALIGN8(tableBytes) \in Nat
      /\ tableBytes <= ALIGN8(tableBytes)
      /\ ALIGN8(tableBytes) % 8 = 0
  BY <1>1, <1>2, Align
<1>5. ALIGN8(bitmap) \in Nat /\ ALIGN8(bitmap) % 8 = 0
  BY <1>3, Align
<1>6. /\ ALIGN8(ShmHeaderBytes + sessions) \in Nat
      /\ ShmHeaderBytes + sessions <= ALIGN8(ShmHeaderBytes + sessions)
      /\ ALIGN8(ShmHeaderBytes + sessions) % 8 = 0
  BY <1>1, <1>2, Align
<1>7. per_session_stride = ALIGN8(tableBytes) + ALIGN8(bitmap)
  BY DEF per_session_stride, per_session_block_table_bytes, per_session_bitmap_bytes,
         tableBytes, bitmap
<1>8. /\ per_session_stride \in Nat
      /\ tableBytes <= per_session_stride
      /\ per_session_stride % 8 = 0
  BY <1>1, <1>4, <1>5, <1>7
<1>9. /\ BlockRegion \in Nat
      /\ ShmHeaderBytes + sessions <= BlockRegion
      /\ BlockRegion % 8 = 0
  BY <1>6 DEF BlockRegion, sessions
<1>10. /\ MAX_SESSIONS * per_session_stride \in Nat
       /\ (MAX_SESSIONS * per_session_stride) % 8 = 0
  BY <1>8, Product, MultipleOf8
<1>11. ArenaStart = BlockRegion + MAX_SESSIONS * per_session_stride
  BY DEF ArenaStart
<1>12. ArenaStart \in Nat /\ ArenaStart % 8 = 0
  <2> DEFINE strides == MAX_SESSIONS * per_session_stride
  <2> HIDE DEF strides
  <2>1. strides \in Nat /\ strides % 8 = 0 /\ ArenaStart = BlockRegion + strides
    BY <1>10, <1>11 DEF strides
  <2> QED BY <1>9, <2>1
<1> QED
  BY <1>8, <1>9, <1>11, <1>12 DEF tableBytes, sessions

\* The slots lie in the arena.
LEMMA Slots ==
  /\ init_header.slot_count \in Nat
  /\ init_header.slot_count * SLOT_SIZE <= ArenaBytes
<1> DEFINE q == ArenaBytes \div SLOT_SIZE
           c == q % Range32
<1>1. q \in Nat /\ q * SLOT_SIZE <= ArenaBytes
  BY Positive, Quotient
<1> HIDE DEF q
<1>2. c \in Nat /\ c <= q
  BY <1>1, Positive, SmallRest
<1> HIDE DEF c
<1>3. c * SLOT_SIZE <= q * SLOT_SIZE
  <2>1. CASE c = q
    BY <2>1, <1>1, Positive, Product
  <2>2. CASE c < q
    <3>1. c * SLOT_SIZE \in Nat /\ q * SLOT_SIZE \in Nat
          /\ c * SLOT_SIZE + SLOT_SIZE <= q * SLOT_SIZE
      BY <2>2, <1>1, <1>2, Positive, Elements
    <3> QED BY <3>1, Positive
  <2> QED BY <1>1, <1>2, <2>1, <2>2
<1>4. init_header.slot_count = c
  BY DEF init_header, c, q
<1>5. c * SLOT_SIZE \in Nat /\ q * SLOT_SIZE \in Nat
  BY <1>1, <1>2, Positive, Product
<1> QED
  BY <1>1, <1>2, <1>3, <1>4, <1>5, Positive

\* The values of the header's fields, and of the size computed without a header.
LEMMA Fields ==
  /\ init_header.slot_size = SLOT_SIZE
  /\ init_header.session_table_offset = ShmHeaderBytes
  /\ init_header.block_table_region_offset = BlockRegion
  /\ init_header.arena_offset = ArenaStart
  /\ init_header.total_size = ArenaStart + ArenaBytes
  /\ compute_total_size = ArenaStart + ArenaBytes
BY DEF init_header, compute_total_size, compute_arena_offset, ArenaStart, BlockRegion

\* Where the entries of the session table are.
LEMMA SessionPlace ==
  ASSUME NEW i \in SessionIdx
  PROVE  /\ session_entry(init_header, i) \in Nat
         /\ session_entry(init_header, i) = ShmHeaderBytes + i * SessionEntryBytes
         /\ session_entry(init_header, i) + SessionEntryBytes <= BlockRegion
<1>1. i \in Nat /\ i < MAX_SESSIONS
  BY Positive DEF SessionIdx
<1>2. /\ i * SessionEntryBytes \in Nat
      /\ MAX_SESSIONS * SessionEntryBytes \in Nat
      /\ i * SessionEntryBytes + SessionEntryBytes <= MAX_SESSIONS * SessionEntryBytes
  BY <1>1, Elements, Positive
<1>3. session_entry(init_header, i) = ShmHeaderBytes + i * SessionEntryBytes
  BY Fields DEF session_entry
<1> DEFINE x == i * SessionEntryBytes
           end == MAX_SESSIONS * SessionEntryBytes
<1>4. /\ x \in Nat /\ end \in Nat /\ x + SessionEntryBytes <= end
      /\ session_entry(init_header, i) = ShmHeaderBytes + x
      /\ ShmHeaderBytes + end <= BlockRegion
  BY <1>2, <1>3, Regions
<1> HIDE DEF x, end
<1>5. /\ session_entry(init_header, i) \in Nat
      /\ session_entry(init_header, i) + SessionEntryBytes <= BlockRegion
  BY <1>4, Positive, Regions
<1> QED
  BY <1>3, <1>5

\* Where the entries of the block tables are: inside their session's stride.
LEMMA BlockPlace ==
  ASSUME NEW i \in SessionIdx, NEW b \in BlockIds
  PROVE  /\ block_table_offset(init_header, i) = BlockRegion + i * per_session_stride
         /\ block_table_offset(init_header, i) \in Nat
         /\ block_entry(init_header, i, b)
              = block_table_offset(init_header, i) + b * BlockEntryBytes
         /\ block_entry(init_header, i, b) \in Nat
         /\ BlockRegion <= block_table_offset(init_header, i)
         /\ block_table_offset(init_header, i) <= block_entry(init_header, i, b)
         /\ block_entry(init_header, i, b) + BlockEntryBytes
              <= block_table_offset(init_header, i) + per_session_stride
         /\ block_table_offset(init_header, i) + per_session_stride <= ArenaStart
         /\ block_entry(init_header, i, b) % 8 = 0
<1>1. /\ i \in Nat /\ i < MAX_SESSIONS
      /\ b \in Nat /\ b < MAX_BLOCKS_PER_SESSION
  BY Positive DEF SessionIdx, BlockIds
<1> DEFINE x == i * per_session_stride
           allStrides == MAX_SESSIONS * per_session_stride
           y == b * BlockEntryBytes
           tableBytes == MAX_BLOCKS_PER_SESSION * BlockEntryBytes
           table == block_table_offset(init_header, i)
           entry == block_entry(init_header, i, b)
<1>2. /\ x \in Nat /\ allStrides \in Nat
      /\ x + per_session_stride <= allStrides
  BY <1>1, Elements, Positive, Regions
<1>3. y \in Nat /\ tableBytes \in Nat /\ y + BlockEntryBytes <= tableBytes
  BY <1>1, Elements, Positive
<1>4. x % 8 = 0
  BY <1>1, MultipleOf8, Regions
<1>5. y % 8 = 0
  BY <1>1, MultipleOf8, Positive, LayoutAssumption
<1>6. table = BlockRegion + x /\ entry = table + y
  BY Fields DEF block_table_offset, block_entry
<1>7. tableBytes <= per_session_stride /\ ArenaStart = BlockRegion + allStrides
  BY Regions
<1> HIDE DEF x, y, allStrides, tableBytes, table, entry
<1>8. /\ table \in Nat /\ entry \in Nat
      /\ BlockRegion <= table /\ table <= entry
      /\ entry + BlockEntryBytes <= table + per_session_stride
      /\ table + per_session_stride <= ArenaStart
  BY <1>2, <1>3, <1>6, <1>7, Positive, Regions
<1>9. entry % 8 = 0
  BY <1>2, <1>3, <1>4, <1>5, <1>6, Regions
<1> QED
  BY <1>6, <1>8, <1>9 DEF x, y, table, entry

\* Where the slots are: inside the arena.
LEMMA SlotPlace ==
  ASSUME NEW s \in SlotIdx(init_header)
  PROVE  /\ slot_offset(init_header, s) = ArenaStart + s * SLOT_SIZE
         /\ slot_offset(init_header, s) \in Nat
         /\ ArenaStart <= slot_offset(init_header, s)
         /\ slot_offset(init_header, s) + SLOT_SIZE <= ArenaStart + ArenaBytes
         /\ slot_offset(init_header, s) % 8 = 0
<1> DEFINE c == init_header.slot_count
           x == s * SLOT_SIZE
           end == c * SLOT_SIZE
<1>1. c \in Nat /\ s \in Nat /\ s < c
  BY Slots DEF SlotIdx
<1>2. x \in Nat /\ end \in Nat /\ x + SLOT_SIZE <= end
  <2> HIDE DEF c
  <2> QED BY <1>1, Elements, Positive
<1>3. x % 8 = 0
  BY <1>1, MultipleOf8, Positive, LayoutAssumption
<1>4. slot_offset(init_header, s) = ArenaStart + x
  BY Fields DEF slot_offset
<1>5. end <= ArenaBytes
  BY Slots
<1> HIDE DEF c, x, end
<1> QED
  BY <1>2, <1>3, <1>4, <1>5, Positive, Regions DEF x

\* Different elements of one array do not overlap.
LEMMA ElementsApart ==
  ASSUME NEW i \in Nat, NEW j \in Nat, i # j, NEW s \in Nat, NEW base \in Nat
  PROVE  Apart(base + i * s, s, base + j * s, s)
<1>1. CASE i < j
  <2>1. i * s \in Nat /\ j * s \in Nat /\ i * s + s <= j * s
    BY <1>1, Elements
  <2> DEFINE x == i * s
             y == j * s
  <2>2. x \in Nat /\ y \in Nat /\ x + s <= y
    BY <2>1
  <2> HIDE DEF x, y
  <2>3. Apart(base + x, s, base + y, s)
    BY <2>2 DEF Apart
  <2> QED BY <2>3 DEF x, y
<1>2. CASE j < i
  <2>1. i * s \in Nat /\ j * s \in Nat /\ j * s + s <= i * s
    BY <1>2, Elements
  <2> DEFINE x == i * s
             y == j * s
  <2>2. x \in Nat /\ y \in Nat /\ y + s <= x
    BY <2>1
  <2> HIDE DEF x, y
  <2>3. Apart(base + x, s, base + y, s)
    BY <2>2 DEF Apart
  <2> QED BY <2>3 DEF x, y
<1> QED
  BY <1>1, <1>2

\* Two block entries, of one session or of two, share no byte.
LEMMA BlocksApart ==
  ASSUME NEW i \in SessionIdx, NEW j \in SessionIdx,
         NEW b \in BlockIds, NEW c \in BlockIds,
         i # j \/ b # c
  PROVE  Apart(block_entry(init_header, i, b), BlockEntryBytes,
               block_entry(init_header, j, c), BlockEntryBytes)
<1>1. CASE i = j
  <2>1. b \in Nat /\ c \in Nat /\ b # c
    BY <1>1 DEF BlockIds
  <2>2. block_entry(init_header, j, c)
          = block_table_offset(init_header, i) + c * BlockEntryBytes
    BY <1>1, BlockPlace
  <2>3. /\ block_table_offset(init_header, i) \in Nat
        /\ block_entry(init_header, i, b)
             = block_table_offset(init_header, i) + b * BlockEntryBytes
    BY BlockPlace
  <2>4. Apart(block_table_offset(init_header, i) + b * BlockEntryBytes, BlockEntryBytes,
              block_table_offset(init_header, i) + c * BlockEntryBytes, BlockEntryBytes)
    BY <2>1, <2>3, ElementsApart, Positive
  <2> QED
    BY <2>2, <2>3, <2>4
<1>2. CASE i # j
  <2>1. i \in Nat /\ j \in Nat
    BY Positive DEF SessionIdx
  <2>2. Apart(block_table_offset(init_header, i), per_session_stride,
              block_table_offset(init_header, j), per_session_stride)
    <3>1. per_session_stride \in Nat /\ BlockRegion \in Nat
      BY Regions
    <3>2. Apart(BlockRegion + i * per_session_stride, per_session_stride,
                BlockRegion + j * per_session_stride, per_session_stride)
      BY <1>2, <2>1, <3>1, ElementsApart
    <3>3. /\ block_table_offset(init_header, i) = BlockRegion + i * per_session_stride
          /\ block_table_offset(init_header, j) = BlockRegion + j * per_session_stride
      BY BlockPlace
    <3> QED BY <3>2, <3>3, Zenon
  <2>3. /\ block_table_offset(init_header, i) \in Nat
        /\ block_entry(init_header, i, b) \in Nat
        /\ block_table_offset(init_header, i) <= block_entry(init_header, i, b)
        /\ block_entry(init_header, i, b) + BlockEntryBytes
             <= block_table_offset(init_header, i) + per_session_stride
    BY BlockPlace
  <2>4. /\ block_table_offset(init_header, j) \in Nat
        /\ block_entry(init_header, j, c) \in Nat
        /\ block_table_offset(init_header, j) <= block_entry(init_header, j, c)
        /\ block_entry(init_header, j, c) + BlockEntryBytes
             <= block_table_offset(init_header, j) + per_session_stride
    BY BlockPlace
  <2> QED
    BY <2>2, <2>3, <2>4, Positive, Regions DEF Apart
<1> QED
  BY <1>1, <1>2

\* For every size of the header, the entries and the arena, the header that
\* init_header() writes gives every session entry, every block entry of every session
\* and every slot bytes of its own inside total_size, on the boundaries they need.
THEOREM LayoutIsSound ==
  Separate(init_header, init_header.total_size) /\ Aligned(init_header)
<1> DEFINE h == init_header
<1>1. h.total_size = ArenaStart + ArenaBytes
  BY Fields
<1>2. \A i \in SessionIdx : ShmHeaderBytes <= session_entry(h, i)
  <2> TAKE i \in SessionIdx
  <2>1. i * SessionEntryBytes \in Nat
    BY Product, Positive DEF SessionIdx
  <2> DEFINE x == i * SessionEntryBytes
  <2>2. x \in Nat /\ session_entry(h, i) = ShmHeaderBytes + x
    BY <2>1, SessionPlace
  <2> HIDE DEF x
  <2> QED BY <2>2, Positive
<1>3. \A i, j \in SessionIdx :
        i # j => Apart(session_entry(h, i), SessionEntryBytes,
                       session_entry(h, j), SessionEntryBytes)
  <2> SUFFICES ASSUME NEW i \in SessionIdx, NEW j \in SessionIdx, i # j
               PROVE  Apart(session_entry(h, i), SessionEntryBytes,
                            session_entry(h, j), SessionEntryBytes)
    OBVIOUS
  <2>1. i \in Nat /\ j \in Nat
    BY Positive DEF SessionIdx
  <2>2. Apart(ShmHeaderBytes + i * SessionEntryBytes, SessionEntryBytes,
              ShmHeaderBytes + j * SessionEntryBytes, SessionEntryBytes)
    BY <2>1, ElementsApart, Positive
  <2>3. /\ session_entry(h, i) = ShmHeaderBytes + i * SessionEntryBytes
        /\ session_entry(h, j) = ShmHeaderBytes + j * SessionEntryBytes
    BY SessionPlace
  <2> QED BY <2>2, <2>3, Zenon
<1>4. \A i, j \in SessionIdx, b \in BlockIds :
        session_entry(h, i) + SessionEntryBytes <= block_entry(h, j, b)
  BY SessionPlace, BlockPlace, Positive, Regions
<1>5. \A i, j \in SessionIdx, b, c \in BlockIds :
        i # j \/ b # c => Apart(block_entry(h, i, b), BlockEntryBytes,
                                block_entry(h, j, c), BlockEntryBytes)
  BY BlocksApart
<1>6. \A i \in SessionIdx, b \in BlockIds :
        block_entry(h, i, b) + BlockEntryBytes <= ArenaStart
  BY BlockPlace, Positive, Regions
<1>7. \A s \in SlotIdx(h) : /\ slot_offset(h, s) \in Nat
                            /\ ArenaStart <= slot_offset(h, s)
                            /\ slot_offset(h, s) + SLOT_SIZE <= ArenaStart + ArenaBytes
  BY SlotPlace
<1>8. \A i \in SessionIdx, b \in BlockIds, s \in SlotIdx(h) :
        block_entry(h, i, b) + BlockEntryBytes <= slot_offset(h, s)
  BY <1>6, <1>7, BlockPlace, Positive, Regions
<1>9. \A s, t \in SlotIdx(h) :
        s # t => Apart(slot_offset(h, s), SLOT_SIZE, slot_offset(h, t), SLOT_SIZE)
  <2> SUFFICES ASSUME NEW s \in SlotIdx(h), NEW t \in SlotIdx(h), s # t
               PROVE  Apart(slot_offset(h, s), SLOT_SIZE, slot_offset(h, t), SLOT_SIZE)
    OBVIOUS
  <2>1. s \in Nat /\ t \in Nat
    BY Slots DEF SlotIdx
  <2>2. SLOT_SIZE \in Nat /\ ArenaStart \in Nat
    BY Positive, Regions
  <2>3. Apart(ArenaStart + s * SLOT_SIZE, SLOT_SIZE, ArenaStart + t * SLOT_SIZE, SLOT_SIZE)
    BY <2>1, <2>2, ElementsApart
  <2>4. /\ slot_offset(h, s) = ArenaStart + s * SLOT_SIZE
        /\ slot_offset(h, t) = ArenaStart + t * SLOT_SIZE
    BY SlotPlace
  <2> QED BY <2>3, <2>4, Zenon
<1>10. \A i \in SessionIdx, b \in BlockIds :
         block_entry(h, i, b) + BlockEntryBytes <= h.total_size
  BY <1>1, <1>6, BlockPlace, Positive, Regions
<1>11. Separate(h, h.total_size)
  BY <1>1, <1>2, <1>3, <1>4, <1>5, <1>7, <1>8, <1>9, <1>10 DEF Separate
<1>12. Aligned(h)
  BY BlockPlace, SlotPlace DEF Aligned
<1> QED
  BY <1>11, <1>12

\* The size create() computes before there is a header is the size the header states,
\* and the header passes the checks that open() makes of it.
THEOREM OwnHeaderPasses ==
  init_header.total_size = compute_total_size /\ offsets_valid(init_header)
<1> DEFINE used == init_header.slot_count * SLOT_SIZE
<1>1. used \in Nat /\ used <= ArenaBytes
  BY Slots, Product, Positive
<1>2. init_header.slot_count * init_header.slot_size = used
  BY Fields
<1> HIDE DEF used
<1>3. MAX_SESSIONS * per_session_stride \in Nat /\ MAX_SESSIONS * SessionEntryBytes \in Nat
  BY Product, Positive, Regions
<1>4. ShmHeaderBytes <= BlockRegion /\ BlockRegion <= ArenaStart
  <2> DEFINE x == MAX_SESSIONS * per_session_stride
             y == MAX_SESSIONS * SessionEntryBytes
  <2>1. /\ x \in Nat /\ y \in Nat
        /\ ShmHeaderBytes + y <= BlockRegion /\ ArenaStart = BlockRegion + x
    BY <1>3, Regions
  <2> HIDE DEF x, y
  <2> QED BY <2>1, Positive, Regions
<1> QED
  BY <1>1, <1>2, <1>4, Fields, Positive, Regions DEF offsets_valid

-----------------------------------------------------------------------------
(* The inductive invariant *)

\* The name is created once; until then there is nothing.
Once ==
  /\ ~exists => size = 0 /\ written = {} /\ creators = {}
  /\ exists => \E p \in Procs : creators = {p}
  /\ \A p \in Procs : pc[p] \in Creating => exists /\ creators = {p}

\* What is mapped is all of a segment that has its size.
Mapped ==
  /\ \A p \in Procs : mapped[p] <= size
  /\ \A p \in Procs : pc[p] = "map" => size = compute_total_size
  /\ \A p \in Procs :
       pc[p] \in {"validate", "zero", "init", "attached"} => mapped[p] = compute_total_size

\* The header is written in order, by a process that is past its memset().
Ordered ==
  /\ \A part \in written : Before(part) \subseteq written
  /\ \A p \in Procs : pc[p] \in {"truncate", "map", "zero"} => written = {}
  /\ \A p \in Procs : pc[p] = "attached" => {"magic", "offsets", "total"} \subseteq written

IInv == TypeOK /\ Once /\ Mapped /\ Ordered

\* The segment has a size, and it is not zero.
LEMMA Total == compute_total_size \in Nat /\ compute_total_size > 0
BY Fields, Positive, Regions

\* A header that passes has its total_size, and so all that is written before it.
LEMMA Passes ==
  ASSUME TypeOK, Ordered, NEW bytes \in Nat, HeaderValid(bytes)
  PROVE  {"magic", "offsets", "total"} \subseteq written
<1>1. "total" \in written
  <2> SUFFICES ASSUME "total" \notin written PROVE FALSE
    OBVIOUS
  <2>1. Header.total_size = 0
    BY DEF Header, Stored
  <2>2. Header.session_table_offset = 0 \/ Header.session_table_offset = ShmHeaderBytes
    BY Fields DEF Header, Stored
  <2>3. Header.session_table_offset < Header.total_size
    BY DEF HeaderValid, offsets_valid
  <2> QED BY <2>1, <2>2, <2>3, Positive
<1>2. Before("total") \subseteq written
  BY <1>1 DEF Ordered
<1> QED
  BY <1>1, <1>2 DEF Before

\* At the start there is no segment.
LEMMA InitInv == Init => IInv
<1> SUFFICES ASSUME Init PROVE IInv
  OBVIOUS
<1>1. TypeOK
  <2>1. 1 \in 1 .. MaxAttempts /\ 0 \in 0 .. MaxCrashes
    BY SegmentAssumption
  <2>2. attempts \in [Procs -> 1 .. MaxAttempts] /\ crashes \in 0 .. MaxCrashes
    BY <2>1 DEF Init
  <2>3. mapped \in [Procs -> {0, compute_total_size}] /\ size \in {0, compute_total_size}
    BY DEF Init
  <2> QED
    BY <2>2, <2>3 DEF Init, TypeOK
<1>2. Once
  BY DEF Init, Once, Creating
<1>3. Mapped
  BY DEF Init, Mapped
<1>4. Ordered
  BY DEF Init, Ordered
<1> QED
  BY <1>1, <1>2, <1>3, <1>4 DEF IInv

\* Every step keeps the invariant.
LEMMA NextInv == IInv /\ [Next]_vars => IInv'
<1> SUFFICES ASSUME IInv, [Next]_vars PROVE IInv'
  OBVIOUS
<1> USE DEF IInv
<1>1. ASSUME NEW p \in Procs, OpenFails(p) PROVE IInv'
  BY <1>1 DEF OpenFails, Goto, TypeOK, Once, Mapped, Ordered, Creating
<1>2. ASSUME NEW p \in Procs, OpenMaps(p) PROVE IInv'
  <2>1. size = compute_total_size
    BY <1>2 DEF OpenMaps, TypeOK
  <2> QED
    BY <1>2, <2>1, Total DEF OpenMaps, Goto, TypeOK, Once, Mapped, Ordered, Creating
<1>3. ASSUME NEW p \in Procs, Validate(p) PROVE IInv'
  <2>1. CASE HeaderValid(mapped[p])
    <3>1. {"magic", "offsets", "total"} \subseteq written
      BY <2>1, Passes, Total DEF TypeOK
    <3> QED
      BY <1>3, <2>1, <3>1
      DEF Validate, Goto, TypeOK, Once, Mapped, Ordered, Creating
  <2>2. CASE ~HeaderValid(mapped[p])
    BY <1>3, <2>2, Total DEF Validate, Goto, TypeOK, Once, Mapped, Ordered, Creating
  <2> QED BY <2>1, <2>2
<1>4. ASSUME NEW p \in Procs, CreateLoses(p) PROVE IInv'
  BY <1>4 DEF CreateLoses, Goto, TypeOK, Once, Mapped, Ordered, Creating
<1>5. ASSUME NEW p \in Procs, CreateWins(p) PROVE IInv'
  BY <1>5 DEF CreateWins, Goto, TypeOK, Once, Mapped, Ordered, Creating
<1>6. ASSUME NEW p \in Procs, CreateFailure(p) PROVE IInv'
  BY <1>6 DEF CreateFailure, Goto, TypeOK, Once, Mapped, Ordered, Creating
<1>7. ASSUME NEW p \in Procs, Truncate(p) PROVE IInv'
  BY <1>7, Total DEF Truncate, Goto, TypeOK, Once, Mapped, Ordered, Creating
<1>8. ASSUME NEW p \in Procs, Map(p) PROVE IInv'
  BY <1>8, Total DEF Map, Goto, TypeOK, Once, Mapped, Ordered, Creating
<1>9. ASSUME NEW p \in Procs, Zero(p) PROVE IInv'
  BY <1>9 DEF Zero, Goto, TypeOK, Once, Mapped, Ordered, Creating
<1>10. ASSUME NEW p \in Procs, InitHeader(p) PROVE IInv'
  BY <1>10 DEF InitHeader, Goto, TypeOK, Once, Mapped, Ordered, Creating
<1>11. ASSUME NEW p \in Procs, Created(p) PROVE IInv'
  BY <1>11, Total DEF Created, Goto, TypeOK, Once, Mapped, Ordered, Creating, Parts
<1>12. ASSUME NEW p \in Procs, Retry(p) PROVE IInv'
  BY <1>12, SegmentAssumption DEF Retry, Goto, TypeOK, Once, Mapped, Ordered, Creating
<1>13. ASSUME NEW p \in Procs, Restart(p) PROVE IInv'
  BY <1>13 DEF Restart, Goto, TypeOK, Once, Mapped, Ordered, Creating
<1>14. ASSUME NEW p \in Procs, Crash(p) PROVE IInv'
  BY <1>14, SegmentAssumption, Total
  DEF Crash, Goto, TypeOK, Once, Mapped, Ordered, Creating
<1>15. CASE UNCHANGED vars
  BY <1>15 DEF vars, TypeOK, Once, Mapped, Ordered
<1> QED
  BY <1>1, <1>2, <1>3, <1>4, <1>5, <1>6, <1>7, <1>8, <1>9, <1>10, <1>11, <1>12, <1>13,
     <1>14, <1>15 DEF Next, AllAttached, Step, Attach, Create

\* The invariant holds always.
LEMMA Invariance == Spec => []IInv
BY InitInv, NextInv, PTL DEF Spec

-----------------------------------------------------------------------------
(* The theorems *)

\* Every variable of the segment's life keeps its type, however many processes there are.
THEOREM SegmentTypeCorrect == Spec => []TypeOK
BY Invariance, PTL DEF IInv

\* shm_open() with O_EXCL and no unlink: one creator ever, and nobody has attached
\* while it truncates, maps and zeroes.
THEOREM CreatedOnce == Spec => []OneCreator
<1>1. IInv => OneCreator
  <2> SUFFICES ASSUME IInv PROVE OneCreator
    OBVIOUS
  <2>1. Cardinality(creators) <= 1
    <3>1. CASE exists
      BY <3>1, FS_Singleton DEF IInv, Once
    <3>2. CASE ~exists
      BY <3>2, FS_EmptySet DEF IInv, Once
    <3> QED BY <3>1, <3>2
  <2>2. \A p \in Procs : pc[p] \in Creating => creators = {p}
    BY DEF IInv, Once
  <2>3. \A p, q \in Procs : pc[p] \in {"truncate", "map", "zero"} => pc[q] # "attached"
    BY DEF IInv, Ordered
  <2> QED
    BY <2>1, <2>2, <2>3 DEF OneCreator
<1> QED
  BY <1>1, Invariance, PTL

\* Nobody touches a byte that is not there: no process maps more than the segment has,
\* and the segment never shrinks under a mapping.
THEOREM NoMappingOutlivesItsBytes == Spec => []MappedIsBacked
<1>1. IInv => MappedIsBacked
  BY DEF IInv, Mapped, MappedIsBacked
<1> QED
  BY <1>1, Invariance, PTL

\* For all sizes: whatever an attached process computes from the header it found lies in
\* what it has mapped, aligned, and overlaps nothing else.
THEOREM AttachedRegionsFit == Spec => []RegionsFit
<1>1. IInv => RegionsFit
  <2> SUFFICES ASSUME IInv, NEW p \in Procs, pc[p] = "attached"
               PROVE  Separate(Header, mapped[p]) /\ Aligned(Header)
    BY DEF RegionsFit
  <2>1. mapped[p] = init_header.total_size
    BY OwnHeaderPasses DEF IInv, Mapped
  <2>2. {"magic", "offsets", "total"} \subseteq written
    BY DEF IInv, Ordered
  <2>3. Header = init_header
    BY <2>2 DEF Header, Stored, init_header
  <2> QED
    BY <2>1, <2>3, LayoutIsSound
<1> QED
  BY <1>1, Invariance, PTL
=============================================================================
