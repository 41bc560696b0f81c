# nexus receiver: TLA+ models, checks and proofs

The program is one *receiver process* (`src/src/receiver/main.cpp`). Up to three
of them run on a host. Each takes Reed-Solomon symbols from UDP, and together
they collect them in a shared-memory segment (`uniflow.rx`), decode each block
once and write it to the destination file. A separate program, session_manager,
talks to each receiver over a Unix socket: it announces sessions
(`SessionOpen`), ends them (`PurgeSession`) and is told of decoded blocks
(`BlockDecoded`). A supervisor restarts a receiver that dies.

Everything hard is in that sharing: there is no lock on the data path, every
receiver may be anywhere in a handler when another one moves, and any of them may
die and leave the segment as it was.

Paths below are relative to `src/src/receiver/` unless they say otherwise.

## Inventory

| Component | State it keeps | Operations | Interacts with | What makes it correct |
|---|---|---|---|---|
| **Slot arena and free list** (`shm_manager.cpp` 597-714) | `free_list_head` (index and generation in 64 bits), the link in the first word of each free slot, `used_slots`, `high_water_used` | `alloc_slot`, `free_slot`, `note_alloc`, counts | every receiver, lock-free; clients overwrite the link word with payload | no slot is given twice; the list is always the slots nobody holds; some call always gets through; the counters are the truth up to the calls under way |
| **Block table and decode pipeline** (`shm_manager.cpp` 99-184, `session_pipeline.cpp` 56-179) | per block: `present_mask`, `slot_idx[]`, `seen`, the `decoded` latch; the destination file | `handle_data_packet`, `register_symbol`, `try_claim_decode`, `decode_and_write_block`, `clear_slot` | the arena, the codec, the block writer; the main loop sends the report | each symbol counted once; one decoder; durable before reported; every slot comes back once |
| **Session table** (`shm_manager.cpp` 383-575, `session_pipeline.cpp` 9-54) | 8 entries with `state` (EMPTY, OPEN, CLOSING) and id, `session_open_lock`; per process, `sessions_` | `open_session`, `close_session`, `block_entry` | broadcasts from the manager reach all receivers at once; packets in flight use a remembered index | one entry per id; one sweeper per entry; each slot of a purged session freed once |
| **Segment lifecycle** (`shm_manager.cpp` 205-356, 727-847; `main.cpp` 46-72) | the name in `/dev/shm`, its size, the header with the offsets of everything | `create`, `open`, `init_header`, `map_and_validate`, `offsets_valid`, `open_or_create_shm`, the layout functions | all receivers at start; supervisor restarts | one creator; nobody maps more than there is; no two things share a byte; everybody gets in |
| **Receiver main loop** (`main.cpp` 128-341) | `early_sessions` (announced sessions and their buffered datagrams), the counters | poll, a batch of datagrams, one control message, heartbeat; Data, Manifest, SessionOpen, PurgeSession | UDP in, UDS both ways, the pipeline | early data is kept and replayed; a decode is reported; a manifest is announced once; the loop always gets to its heartbeat |
| **UDS channel** (`uds_channel.cpp`), **RxEnvelope** | the connection to the manager | `connect`, `send`, `receive`; build and parse | the manager, which may close it or be slow to read | a message is sent whole or refused; messages arrive in order |
| **UDP receiver** (`udp_receiver.cpp`) | 64 buffers, written over by every batch | `bind`, `receive_batch` | the network; the loop reads through pointers into the buffers | a datagram's length never reaches past what was received of it |
| **Wire prefix, CRC** (`src/src/common/`) and **frame dispatcher** | none | `build_frame`, `validate_frame_prefix`, the two checksums, `decode_frame` | protobuf | only a whole frame of the protocol is used; every other datagram has its counter |
| **Block writer** (`block_writer.cpp`) | the mapping of the destination file | `open`, `close`, `write_block`, `flush_block`, `flush` | the page cache and the disk, shared with the other receivers' mappings | a flushed block survives a power failure; no byte outside a block is written |
| **Reed-Solomon codec** (`rs_codec.cpp`) | the encode matrix | `decode` | ISA-L | any k symbols, the first k in index order, give the block back |
| **Command line**, **protocol hash** | none | parsed or generated once | | |

Hard behaviours, in short (all of them, with their lines, are the `hazards` of
`PROJECT.json`): ABA on the list head; a CAS that loses; a registration that is
visible in three separate steps (bit, link, count); two receivers crossing the
decode threshold at once; opens and purges handled by three processes in any
order; an entry index remembered across a purge; a segment seen before it is
complete; data that arrives before its session; reports on a socket that may
refuse them; deaths between any two of these steps; disk errors after a claim;
page-aligned flushes of unaligned blocks; datagrams that are damaged, cut off or of
another program, in buffers that still hold an older one; a flood of data while the
manager waits for a heartbeat.

## Modules

Component modules, one action per atomic step of the code. The locals of a C++
function that survive from one step to the next are functions of the process,
and `pc` says where each process is.

* **`SlotPool`**: abstract. What the arena promises: a slot is available,
  out, on its way to a caller or on its way back; alloc and free are single steps.
* **`FreeList`**: the Treiber stack. `head` is the unpacked 64-bit word, `node[s]`
  the first word of slot s, which is a link while s is free and whatever clients
  write (`WritePayload`) while it is not. `AllocLoad`, `AllocRead`, `AllocCas`,
  `AllocRetry` are the loop of `alloc_slot()`, `NoteUsed` and the `Hw...` actions
  `note_alloc()`, and `FreeLoad` to `FreeCount` are `free_slot()`. Memory is
  sequentially consistent: the acquire/release pairs on the head order everything
  the algorithm relies on (the relaxed load in `free_slot()` reads an index it
  only copies, and the CAS checks it), and the counters are single words.
  It instantiates `SlotPool` with a refinement mapping.
* **`FreeListProofs`**: the invariants of `FreeList`, the list's and the counters', proved.
* **`FreeListImplements`**: the proof that `FreeList` implements `SlotPool`.
* **`BlockPromise`**: abstract. A block collects symbols, is decoded once with at
  least K of them, made durable, finished, reported: in that order, each once.
* **`BlockPipeline`**: several receivers in `handle_data_packet()` on one block.
  The arena is a set here (`FreeList` and `SlotPool` justify that).
  `RegisterBit`, `RegisterLink` and `RegisterCount` are the three steps of
  `register_symbol()`; `Gather` to `ReleaseSkip` are `decode_and_write_block()`;
  a slot's content is the symbol whose bytes are in it, and a decode is `"right"`
  if the K chosen slots hold the symbols they were taken for. `hasty` is a history
  variable: it remembers that a decoder gathered a symbol by its bit before its link was
  there. It instantiates `BlockPromise`.
* **`BlockPipelineProofs`**: the safety of `BlockPipeline`, and the proof that it
  implements `BlockPromise`.
* **`SessionTable`**: the session table with a block in each entry, the manager
  and its broadcasts, and packets in flight. `open_session()` and `close_session()`
  step by step, the sweep symbol by symbol. The registration's link, count and claim
  are one step here (`BlockPipeline` has them apart). Slots carry their holder, so
  that a slot freed by somebody who does not hold it is noticed (`misfreed`). A decoder
  that fails leaves the block CLAIMED with its links (`DecodeFails`), as the three early
  returns of `decode_and_write_block()` do. `races` is a history variable with the races
  the behaviour has had; no action depends on it.
* **`SessionTableProofs`**: its safety, proved.
* **`SegmentLayout`**: the arithmetic of the offsets, from any sizes of header, entries,
  slots and arena: `ALIGN8()` with its conversion to 32 bits, the two computations of
  the arena's place (`compute_arena_offset()` and `init_header()`), and the addresses
  that `block_entry()` and `slot()` make of what is in the header.
* **`Segment`**: creation and attachment. `size` and the parts of the header are
  written in the code's order by the creator, and the others look at any time; a field
  reads as zero until its part is written, and `open()` checks what it reads. Each system
  call of `open()` and `create()` may fail.
* **`SegmentProofs`**: the safety of `Segment` and of the layout, proved.
* **`UdsChannel`**: the receiver's end of the connection to the manager: messages in
  order, a send that may be refused, a peer that closes. No behaviour of its own: the
  modules above compose its operators into their actions.
* **`ReceiverLoop`**: one process's main loop with `early_sessions`, over `UdsChannel`.
  `turn` says where in its turn the loop is; `Poll` picks how many datagrams wait, the
  actions with `NextDatagram` handle one each, those with `Message` the one control
  message of the turn. The loop is one thread, so a datagram or a message is a
  step, but the replay goes datagram by datagram. The other receivers appear as actions
  on the shared segment.
* **`ReceiverLoopProofs`**: its safety, proved.
* **`UdpReceiver`**: the buffers of `bind()` and `receive_batch()`, which writes over
  them and hands out pointers and lengths.
* **`Wire`**: a frame as a sequence of cells, one for each field of the prefix and the
  body; `validate_frame_prefix()` with its checks in the code's order, `decode_frame()`.
  Here two different inputs never have the same checksum.
* **`Crc`**: both checksums bit by bit, the CRC-32C also eight bytes at a time as the
  SSE 4.2 routine does it, and the polynomial division they are named after.
* **`RsCodec`**: the codec over a field of 2^`Width` elements, an element a set of bits.
* **`DataPath`**: composes the four: a sender's block is encoded, framed, damaged or not
  by the network, received into reused buffers, checked, counted, registered and
  decoded.
* **`DataPathProofs`**: its invariants, proved, and with them the checks of `Wire` for
  frames of any size in buffers of any size.
* **`BlockWriter`**: byte ranges. `cache` is the file as mappings see it, `disk` what
  a power failure leaves; `Writeback` is the kernel's own doing.
* **`BlockWriterProofs`**: its safety, proved.

`MC<Module>` declares the model values, small sets and symmetry for TLC; each
`.cfg` is one question. Definitions named `<Action>_<Fault>` are seeded
faults: an action as a plausible mistake would have it (a dropped guard, an
off-by-one, a lost step). No specification uses them. Put in place of the
definition they are named after, each makes a property of some run fail, which
shows that the property can notice that kind of mistake. The list is `mutants` in
`PROJECT.json`.

Composition is by refinement and by abstraction: `FreeList` implements `SlotPool`,
and the modules above use an arena that is a set of free slots; `BlockPipeline`
implements `BlockPromise`, and `ReceiverLoop` uses the promise (a crossing decodes
or fails) rather than the steps. `DataPath` and `ReceiverLoop` are two views of
one loop: the first has the bytes of a block and no control messages, the second has
datagrams that already passed (`OtherDatagram` stands for those that did not). External,
modelled from how this code uses them: session_manager, the supervisor, the page cache,
the network, ISA-L, protobuf's parser, and the other receivers of `ReceiverLoop` and
`DataPath`.

## What the runs check

State counts are distinct states, approximately. Every passing run finishes within
two minutes.

| Run | Bounds | Shows |
|---|---|---|
| `FreeList` | 2 processes, 2 slots, generation mod 4, spurious CAS failures, 1 death, fairness; 94k | `Exclusive`, `ChainIsAvail`, `Window`, `UsedCounts`, `HighWaterNotBehind`; `KeepsPool`: the list implements `SlotPool`, so in particular "exhausted" is only said at a moment when nothing is free; `LockFree`: while calls are under way, calls complete |
| `Block_parity` | 2 receivers, N=3, K=2, 3 slots, disk and send failures, 1 death, fairness; 230k | `OneDecoder`, `SeenCountsPresent`, `ThresholdNoticed`, `SlotsInOnePlace`, `ReportedIsOnDisk`; `KeepsPromise`: the pipeline implements `BlockPromise`; `EventuallyDecoded`: a block with K symbols gets decoded and their slots come back, unless its decoder failed or somebody died |
| `Session_wild` | 2 receivers, 2 sessions, 2 entries, N=K=1, 1 slot, 3 broadcasts, disk and writer failures, fairness; 370k | `OneEntryPerSession`, `OneSweeper`; `EventuallyHandled`: nobody is stuck behind the spinlock |
| `Session_slots` | 2 receivers, 2 sessions, 1 entry, N=2, K=1, 2 slots, 4 broadcasts, disk and writer failures; 9.2M (4 to 9 under symmetry) | `FreedOnce`, `NoSlotStranded`, `PurgedIsEmpty` |
| `Segment_start` | 3 processes, every call of `open()` and `create()` may fail, 3 attempts, 2 deaths, 3 sessions of 9 blocks, sizes that align nothing by themselves, fairness; 150k | `OneCreator`, `MappedIsBacked`; `RegionsFit`: what an attached process computes from the header is in its mapping and overlaps nothing; `EventuallyAttached`: everybody gets in, unless the creator left a dead segment |
| `Loop_early` | 1 session, N=3, K=2, batches and buffer of 2, 2 opens, 2 announcements, 1 late open, 1 restart, 1 end of the connection, failures of arena, open, disk and send, fairness; 750k | `NothingForgotten`, `DecodedIsReported`; `EarlyDataDecodes`: early data counts once the session opens; `HeartbeatGoesOn`: neither a flood of datagrams nor a closed connection keeps the loop from its heartbeat |
| `Writer_file` | 2 processes, blocks of 3 bytes, pages of 4, file of 7 in 9 allocated, 4 block ids, 1 power failure; 5k | `FlushedSurvives`, `OnlyOwnBytes` |
| `Path_end` | batches and 2 buffers of 7 cells, N=4, K=2 over a field of 4, 17 datagrams (whole, damaged in each checked field, cut off, too long, foreign), 3 received in any order and number; 420k | `OnlyWholeFramesOk`: exactly the whole frames are counted and used; `DecodedIsSent` |

`MCDataPath` also has what is checked of the pure algorithms, as assumptions TLC evaluates
with `Path_end`: both checksums on the vectors of `src/tests/vectors/crc_vectors.md` and
against polynomial division, the hardware routine against the software one for lengths of 0
to 17, every error of one or two bits in the header noticed (which is what lets `Wire`
treat the header's checksum as exact for them), and, for N=6, K=2 over a field of 8, that
every set of at least two symbols decodes every block and no smaller one any (`AnyKSymbolsDecode`).
`SentDecodes` says the same of the run's own block and field; it is the hypothesis of two
theorems of `DataPathProofs`.

Each module with variables of its own has its `TypeOK` in one of these runs. Four runs expect a violation.
Each states something a comment of the code says, which the code does not do; TLC's
trace is the evidence (`findings`):

| Run | Comment | What happens |
|---|---|---|
| `Block_link` | the link happens before any reader that saw the presence bit (`shm_manager.hpp` 320-322) | the bit is set first; a decoder on another receiver gathers a link not stored yet. With N > K this makes wrong bytes possible |
| `Session_stale` | `block_entry()` rejects the old generation (`shm_manager.hpp` 549-551) | it looks at `state` only (`shm_manager.cpp` 564): a receiver that has not handled a purge registers its packet in the entry's next session |
| `Segment_early` | a segment in the making is rejected by `open()` (`main.cpp` 51-53) | `total_size` is stored before the free list is built, and nothing written later is validated |
| `Loop_manifest` | a resent Manifest is not announced again (`main.cpp` 128-131) | replaying erases the record, so one resent after SessionOpen is |

Three more comments do not say what the code does, and have no run of their own:

* `create()` "Create a new SHM segment (or truncate an existing one)" (`shm_manager.hpp` 479).
  With `O_EXCL` it refuses the one that exists (`shm_manager.cpp` 221), as the comment there
  demands and `MappedIsBacked` needs: `CreateLoses` goes to the retry.
* `DECODE_COMPLETE` is "decoded + written; BlockDecoded sent" (`shm_manager.hpp` 406). The latch
  is set before the slots are released and before the message is sent (`session_pipeline.cpp`
  165, `main.cpp` 215), which may fail; `BlockPromise` has `Finish` before `Report`.
* The sweep is safe though packets that passed `block_entry()` before the purge register
  mid-sweep (`shm_manager.hpp` 553-556). It is, but for one of them that has its bit and not
  its link: the sweep then frees what the link was before (race `"swept"` below).

Some properties are stated with a condition, because without it the code does not
keep them. A reader should know which:

* `SlotsInOnePlace` and the bytes of `ReportedIsOnDisk` hold until a decoder gathers a symbol
  by its bit before its link is there (`hasty`), which is what `Block_link` shows. After
  that the decoder reads, and frees, a slot that is not the symbol's. Everything else
  that parity symbols bring is inside the condition: symbols that register during or after
  the gather, duplicates of them, a full arena, failing decoders. So is a death for what
  is about freeing and bytes; where a dead process's slots are, nobody knows.
* `FreedOnce`, `NoSlotStranded` and `PurgedIsEmpty` hold for every order of opens, purges and
  packets, less what four races do. Each race is an interleaving the code leaves open,
  and `races` remembers those a behaviour has had:

  | Race | What happens | After it may fail |
  |---|---|---|
  | `"gathered"` | a decoder gathers a symbol between its bit and its link (`session_pipeline.cpp` 149-152) | all three |
  | `"swept"` | the sweep of a purge finds such a symbol (`shm_manager.cpp` 543); only after `"late"` | all three |
  | `"torn"` | a purge and a decoder are at work on one entry: the sweep fits between `free_slot()` and `clear_slot()` (`session_pipeline.cpp` 173-174), or the table is zeroed under the decoder | all three |
  | `"late"` | a purge closes an entry that a packet has passed `block_entry()` for: its symbol may land behind the sweep or in the next session's table | `NoSlotStranded`, and the slots of `PurgedIsEmpty` |

  The first three can corrupt the free list; the last by itself only loses slots, the "bounded handful" of the
  comment at `shm_manager.hpp` 553-556. That the entries are all empty in the end needs no
  condition.
* `UsedCounts` says exactly how far `used_slots` is from the truth. A slot is on the list
  before `free_slot()` counts it out (`shm_manager.cpp` 663-667), so `used_slots` can
  pass `slot_count`, and `free_slot_count()` wraps at such a moment.
* `KeepsPromise` lets a complete block go unreported: the result of the send is ignored
  (`main.cpp` 215) and nothing repeats it.
* `DecodedIsReported` counts what `send()` refuses. A refused `ManifestSeen` is not
  repeated either (the entry that would stop a second one is made first, `main.cpp`
  236-240), and after the manager has closed the connection nothing reconnects:
  `poll()` returns at once on every turn, and only `HeartbeatGoesOn` and what is already
  open go on. If the kernel raises a signal for such a send, the process dies and is
  started again, which is `Restart`.
* An entry of `early_sessions` ends with the replay or with the PurgeSession that finds it
  (`main.cpp` 140-142, 294, 304). A Manifest that arrives after the PurgeSession makes one
  that waits for another; whether the manager sends it is its own affair.
* `Path_end` has exact checksums: what a checksum can miss, `DecodedIsSent` does not
  see. It has one block, and a second frame for the same symbol carries the same payload.
* `RegionsFit` rests on `LayoutAssumption`: what `ALIGN8()` returns fits 32 bits (8192
  entries of 1064 bytes do), and entries and slots are multiples of 8 bytes.
* `EventuallyAttached` and `EventuallyDecoded` name the failures the code does not
  recover from: `DeadSegment` and `Abandoned`. `EventuallyDecoded` says nothing of a block
  with a hasty decoder either.

### Why the bounds are enough

* **Generation mod 4.** The ABA pattern needs three changes of the head inside one
  window (pop, pop, push). A generation modulo 4 lets exactly three happen and no
  full turn: `NoFullTurn` keeps a window below `GenMod - 1` further changes, the
  assumption the code's own comment makes of 32 bits (lines 603-612). The
  wrap itself happens all the time.
* **Two or three processes.** Every race here is between a victim and one or two
  others; the third process is in the runs where "somebody else's somebody else"
  matters (segment). The free list has two in the run, any number in the proofs,
  and its ABA pattern needs one other process that makes three calls. Two slots are enough for ABA: a pop reads the
  first and its link to the second, both go, the first comes back.
* **N, K.** N > K, as in the program (255 and 200), is where registrations overlap a decode:
  N=3, K=2 in `Block_parity`, N=2, K=1 in `Session_slots`. K = 2 is where a threshold can be
  crossed together; one symbol more changes no interleaving, and the theorems are for all N
  and K. The slot of a symbol that registers behind the gather stays out until the purge, by
  design, which is why `EventuallyDecoded` speaks of K slots; what becomes of that one is in
  `NoSlotStranded` and `PurgedIsEmpty`.
* **One entry for two sessions** forces reuse; two entries let the scan skip one.
* **One session in the loop.** The loop is one thread and keeps sessions apart by key;
  what can go wrong is the order of data, messages and other receivers for one of them.
* **Batches of 2, buffers of 2.** A full batch, a partial one and none; a full buffer and
  one with room. A buffer of the pool is written over when a second batch comes, so three
  datagrams show a short one after a long one in the same place.
* **Sizes in `Segment_*`.** 20-byte headers and 7-byte entries need every `ALIGN8()`; an
  arena of 100 bytes is not a multiple of its 24-byte slots. For all other sizes there is
  `AttachedRegionsFit`.
* **Blocks of 3, pages of 4, a file of 7.** A block that starts inside a page and
  ends in the next, a page with two blocks, a short last block, and a byte behind
  `file_size` in its page.
* **Broadcasts, opens, restarts, deaths, power failures** are counted by
  `Max...` constants. They only bound how often the environment acts; the receivers'
  own steps are not counted. Where the broadcasts run out and nothing is in
  flight the system stops, so the `Session_*.cfg` files turn the deadlock check off. In all
  other runs it is on.
* **Symmetry** is over processes and sessions, which the specifications only
  compare, and only in runs without liveness properties.

### Fairness

Weak fairness of a process's *started* work: a thread that is inside a handler goes
on. No packet has to arrive, the manager has to send nothing, and no death has to
happen. `SessionTable` adds strong fairness for taking a control message, since
the loop in `main.cpp` looks at the control socket on every turn, after at most one
batch of packets (`main.cpp` 179-258), however many packets there are; `ReceiverLoop`,
where that turn is modelled, needs only weak fairness of the loop's own thread. `LockFree`
asks that each process in a call steps, as lock-freedom does, and strong fairness for a
CAS that could succeed: `compare_exchange_weak` may fail for no reason, but not for ever.
`Segment` has strong fairness for the two steps a process gets in by, the mapping in `open()`
and the `shm_open()` of `create()`: their calls may fail any number of times, but not at every
one of infinitely many attempts.
The liveness properties name what the code has no recovery for: a death or a disk
error after a claim, and a creator that fails half-way. A death with
`session_open_lock` held is left out of `SessionTable` altogether.

## What is proved

Every invariant the runs check is a theorem, and so are the two refinements. A run shows a
property for the bounds of its table row; the theorem for every value of the constants that
the named assumption allows. The assumptions say that sets of processes are finite where
they are counted, that numbers are natural numbers and the placeholders are none of the
values they stand for, and what the code fixes (`K \in 1 .. N`, sizes that are not zero);
TLC evaluates each of them in a run.

| Module | Theorems | Assumption |
|---|---|---|
| `FreeListProofs` | `TypeCorrect` (`TypeOK`), `NoDoubleAllocation` (`Exclusive`), `FreeListIntact` (`ChainIsAvail`), `WindowsSafe` (`Window`), `UsedIsRight` (`UsedCounts`), `HighWaterIsRight` (`HighWaterNotBehind`) | `ArenaAssumption`; `NoFullTurn` is part of the specification |
| `FreeListImplements` | `ListKeepsPool` (`KeepsPool`) | the same |
| `BlockPipelineProofs` | `BlockTypeCorrect` (`TypeOK`), `DecodedByOne` (`OneDecoder`), `CountFollowsMask` (`SeenCountsPresent`), `ThresholdNotMissed` (`ThresholdNoticed`), `BlockKeepsPromise` (`KeepsPromise`) | `BlockAssumption` |
| | `SlotsStayInOnePlace` (`SlotsInOnePlace`), `ReportedBytesOnDisk` (`ReportedIsOnDisk`) | the same |
| `SessionTableProofs` | `TableTypeCorrect` (`TypeOK`), `SessionHasOneEntry` (`OneEntryPerSession`), `EntryHasOneSweeper` (`OneSweeper`) | `TableAssumption` |
| | `SlotsFreedOnce` (`FreedOnce`), `SlotsReachable` (`NoSlotStranded`), `NothingLeftBehind` (`PurgedIsEmpty`) | the same |
| `SegmentProofs` | `LayoutIsSound`, `OwnHeaderPasses`, `SegmentTypeCorrect` (`TypeOK`), `CreatedOnce` (`OneCreator`), `NoMappingOutlivesItsBytes` (`MappedIsBacked`), `AttachedRegionsFit` (`RegionsFit`) | `SegmentAssumption`, `LayoutAssumption` |
| `ReceiverLoopProofs` | `LoopTypeCorrect` (`TypeOK`), `NoSymbolForgotten` (`NothingForgotten`), `EveryDecodeReported` (`DecodedIsReported`) | `LoopAssumption` |
| `DataPathProofs` | `WholeFramesOnly` (`OnlyWholeFramesOk`) | `PathAssumption`, `WireAssumption`, `UdpAssumption` |
| | `PathTypeCorrect` (`TypeOK`), `DecodesWhatWasSent` (`DecodedIsSent`) | and `AnyKDecode(Sent)` |
| `BlockWriterProofs` | `WriterTypeCorrect` (`TypeOK`), `FlushedBlocksSurvive` (`FlushedSurvives`), `OnlyOwnBytesWritten` (`OnlyOwnBytes`) | `WriterAssumption` |

No theorem restricts N and K, the manager or the failures: what the block's and the table's
slots need is in the properties themselves, as the races listed above, so the theorems also
say that nothing but those races can do harm. One hypothesis is more than the shape of the
constants, and the run of the same property has it:

* `AnyKDecode(Sent)` in `DataPathProofs`: any K symbols give the sent block back. It is a
  fact about Cauchy matrices over a finite field, computed by folds, and induction over
  them is out of the prover's reach. TLC evaluates it for the run's block, and for all
  blocks of N=6, K=2 over a field of 8. What the theorem adds is everything around the codec.

### The free list

The invariant is `IInv == TypeOK /\ Exclusive /\ ChainIsAvail /\ Window`, and no part
goes through alone. A pop writes into `head` the link it read some steps ago; that
the result is a list again needs the link to be the top's link *now*, which is `Window`:
the generation has moved by exactly `lag[p]`, so if the head looks the same then
`lag[p] = 0`, and then nothing the link depends on has changed. That nobody else wrote
over the link meanwhile needs `Exclusive` and `ChainIsAvail`: writers of a slot's first
word hold the slot, and held slots are not on the list. `ChainIsAvail` is stated with a
`depth` for each slot instead of by walking the list, so that pushing and popping
are two lemmas (`PushChain`, `PopChain`) without induction. Each action then has its own
lemma, and `NextInv` puts them together.

The counters rest on that: `UsedCounts` counts slots by where they are, and a slot is in one
place. `HighWaterNotBehind` is not inductive by itself, because a `note_alloc()` that has read
`high_water_used` may fail its CAS later; `MarkLoaded` says that what it compares with is
never ahead of the word. `CountInv` is the three together.

`ListKeepsPool` is a step simulation under the refinement mapping of `FreeList`. A
successful CAS of `alloc_slot()` is `Grant`, that of `free_slot()` is `Restore`, a read
of an empty head is `Refuse`, a return is `Deliver`, `FreeLoad` is `Reclaim` and a death
is `Lose`; every other access is a stutter. Two of these need the invariant: `Grant`,
because the slot popped has to be one nobody holds (`HeadUnmoved`), and `Refuse`, because
an empty list has to mean an empty pool (`ChainIsAvail`).

### The block

`OneDecoder` needs `ClaimedOnce`, which ties the latch to the process that decodes and to
the file: PENDING before it, CLAIMED with exactly one, COMPLETE when the block is durable.
`SeenCountsPresent` and `ThresholdNoticed` count: `seen` is behind the mask by the
processes between their bit and their count, and by those that died there. `IInv` adds what
each process has in hand at each label. `KeepsPromise` is then a step simulation of
`BlockPromise`: the bit is `Collect`, the claim `Decode`, the flush `MakeDurable`, the latch's last store
`Finish` and a send that is not refused `Report`; every other access is a stutter. The
invariant is needed for the claim (at least K symbols are in the mask) and for what comes after
it (the stage is the one decoder's, and nothing was reported before).

`TidyInv` says where every slot is as long as no decoder was hasty: in the arena, in the hand
of one process or under one link, never in two of them (`SlotsTaken`, `AllAccounted`), that a
link which is set is its symbol's slot (`Registers`, `ClearedLinks`), and that what a decoder has
gathered is still linked and holds its symbol's bytes until it releases it (`Gathers`,
`RightBytes`). Registrations go on during the gather and the release; they touch neither,
because the gathered symbols' bits are set for good and their links are behind the registering
processes. `HastyStays` lets a behaviour that was hasty once leave the invariant.

### The session table

`IInv` is mutual exclusion made exact: who is between lock and unlock holds the lock
(`LockHeld`), an entry being filled has no OPEN one beside it (`Published`), a CLOSING entry has
one sweeper (`SweptByOne`). It holds whatever the manager does, also when ids are opened again
and purges overtake packets.

`SlotInv` says who holds every slot while no link was read by its bit alone and no decoder met
a purge (`races` within `{"late"}`): a claim is one process's, whose entry stays OPEN until it
is done (`Claims`), what a decoder gathered keeps its link until the release loop is there
(`Carried`), and a link of a finished registration has its slot until that was swept or
released (`LinksGood`). A block whose decoder failed is simply one with all its links, and a
symbol that registers behind the gather or behind the sweep has its own link. `FreedOnce`
follows. `KeptInv` is the other direction, for behaviours without any of the races: a slot that was registered is
where its link says (`CellsLinked`), since a packet in hand is for an OPEN entry (`DataLive`).
`Drained` says that an OPEN entry of a purged session has somebody who is still to purge it, in
his inbox or under way, and that nobody opens it again without a purge behind that. Hence
`PurgedIsEmpty`: when all inboxes are empty no entry is OPEN, so no cell is, and every slot is
free.

### The segment

The segment's invariant
is `TypeOK` with three parts. `Once`: the name is created once, so that whoever is inside
`create()` is the one creator. `Mapped`: what is mapped is all of a segment that has its
size. `Ordered`: a part of the header is written after those before it, and not at all
while somebody truncates, maps or zeroes. `Ordered` is what makes the check of `open()`
enough for the offsets: a header that passes has a `total_size` (zero bounds nothing), and
so has everything written before it (`Passes`); the free list comes after, which is
`Segment_early`. Hence an attached process reads exactly what `init_header()` stores, and
`LayoutIsSound` is about that: every array's elements are apart (`Elements`), a session's
table ends inside its stride, the strides end at the arena, and the slots inside it.

### The main loop

`NothingForgotten` depends on the replay being one turn of one thread: `LoopTyped` says that
while a session is replayed the loop stays at the control socket, that the index is inside
the buffer, and that only an announced session has a buffer. `DecodedIsReported` alone is not
inductive, since a purge resets it: `ManagerTyped` says that a PurgeSession is read only after
the manager has purged, and `DecodeStands` that until then a block decoded here
stays COMPLETE, which is why it is not decoded again.

### The data path

`PathInv` says what a view is worth: the buffer it points at begins with its own datagram, as
far as that fits (`ViewsStored`), since no batch is received before the one before it has been
handled. `Dispatched` is about one such buffer. Its case analysis is over what the network does:
a whole frame passes every check (`WholeFrame`), and each kind of damage is met by one of them
whatever an older datagram left behind it (`DamageNoticed`), in particular a stated length
that reaches behind what was received. `Genuine` carries the symbols: each registered payload
is the sender's under its own id, whoever registered it.

### The destination file

A flushed block has to be whole in the cache *and* on disk (`FlushedInBoth`): the kernel
copies the first over the second at any time, and a power failure the second over the first.
Between a write and its flush the block is whole in the cache (`WrittenInCache`). That a flush
of whole pages covers the unaligned block is the arithmetic of `Division` and its companions.

### Only model-checked

Liveness: `LockFree`, `EventuallyDecoded`, `EventuallyHandled`, `EventuallyAttached`,
`EarlyDataDecodes`, `HeartbeatGoesOn`. Fairness is about `ENABLED`, which the prover cannot
expand. And what recursive definitions compute: the checksums of `Crc`, and the field and
the matrix of `RsCodec` (`CrcVectors`, `CrcIsRemainder`, `HeaderFlipsNoticed`, `AnyKSymbolsDecode`).

## Not modelled, and why

* Weak memory. Everything is sequentially consistent. The code's acquire/release pairs
  are argued in its comments; `Block_link` is wrong already without reordering.
* `boot_id`, `owner_pid` and the bitmaps of the segment: nothing reads them.
* Session ids, block ids and payload lengths inside a datagram of `DataPath`: one session,
  one block, symbols of one element.
* A death with `session_open_lock` held: nothing in the code recovers the lock, so every
  later open and purge spins; there is nothing to check beyond that sentence.
* The content of heartbeats and statistics, logging, the builders of `RxEnvelope`, the
  command line, the protocol hash: no state another part depends on.
* Socket options and the failures of `bind()` and `connect()`: the process ends, and
  `Restart` begins.
* `BlockWriter::flush()`: the receiver never calls it.
* Session ids as strings (the 63-character comparison), and `n > MAX_N`, which no
  caller rules out but no session has.

## Plan

Order of work: the most shared and least testable first.

1. **Done.** `SlotPool`, `FreeList`, `BlockPromise`, `BlockPipeline`, `SessionTable`,
   `Segment`, `ReceiverLoop`, `BlockWriter`; their runs; `FreeListProofs`, `FreeListImplements`.
2. **Done.** `UdsChannel`, composed with a `ReceiverLoop` that has turns and batches;
   `UdpReceiver`, `Wire`, `Crc`, `RsCodec` and their composition `DataPath`;
   `SegmentLayout` in `Segment`; `SegmentProofs`. Left of the extension: `Receivers`,
   `ReceiverLoop` for several processes over one `SessionTable` with promised blocks, and
   what the manager may conclude from their reports.
3. **Done.** Every safety invariant and both refinements the runs check, as theorems (see
   above), for all N and K; the liveness properties stay with TLC. Left of the proofs:
   theorems about `Receivers` once it is there.

Abstract specifications worth adding: an atomic session table (open and close as single
steps) for `SessionTable` to implement, and a set of file bytes with "durable" for
`BlockWriter`.

## Running

    tlc -workers 2 -config FreeList.cfg MCFreeList
    tlapm FreeListProofs.tla
    tlapm FreeListImplements.tla
    tlapm BlockPipelineProofs.tla
    tlapm SessionTableProofs.tla
    tlapm SegmentProofs.tla
    tlapm ReceiverLoopProofs.tla
    tlapm DataPathProofs.tla
    tlapm BlockWriterProofs.tla
