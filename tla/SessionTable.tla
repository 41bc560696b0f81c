---------------------------- MODULE SessionTable ----------------------------
(***************************************************************************)
(* The session table of the shared segment and the receivers that open,    *)
(* fill and purge its entries at once (src/src/receiver/shm_manager.cpp,   *)
(* open_session, close_session, block_entry; session_pipeline.cpp,         *)
(* handle_session_open, purge_session, handle_data_packet).                *)
(*                                                                         *)
(* session_manager broadcasts SessionOpen and PurgeSession; every receiver *)
(* handles its own copies in order and at its own pace.  open_session()    *)
(* and the first half of close_session() run under a spinlock; the sweep   *)
(* of close_session() and the whole data path run with no lock at all.     *)
(* A session has one block here; module BlockPipeline has the block's own  *)
(* races, so its checks, its claim and its decode are single steps.        *)
(***************************************************************************)
EXTENDS Integers, Sequences, FiniteSets

CONSTANTS Procs,         \* receiver processes
          Sessions,      \* session ids
          MaxSessions,   \* entries of the session table (MAX_SESSIONS)
          N,             \* symbols per block
          K,             \* symbols that decode it
          Slots,         \* slots of the arena
          SlotFree,      \* SLOT_IDX_FREE
          None,          \* no entry, no session, no slot
          WriterFails,   \* may BlockWriter::open() fail?
          DiskFails,     \* may decode(), write_block() or flush_block() fail?
          MaxBroadcasts  \* bound: how many messages the manager broadcasts

ASSUME TableAssumption == /\ Procs # {}
                          /\ MaxSessions \in Nat \ {0}
                          /\ N \in Nat \ {0}
                          /\ K \in 1 .. N
                          /\ Slots # {} /\ SlotFree \notin Slots
                          /\ None \notin Procs \cup Sessions \cup Slots \cup Nat
                          /\ WriterFails \in BOOLEAN
                          /\ DiskFails \in BOOLEAN
                          /\ MaxBroadcasts \in Nat

Entries == 1 .. MaxSessions
Symbols == 0 .. N - 1

VARIABLES lock,     \* session_open_lock: who holds it
          state,    \* state of each entry
          id,       \* session_id of each entry
          present,  \* the block's presence bits
          seen,     \* the block's count of registrations
          link,     \* the block's slot_idx[]
          latch,    \* the block's decode latch
          holder,   \* holder[s]: Free, or the process or table cell that has slot s
          misfreed, \* ghost: free_slot() was called for a slot not held for it
          races,    \* ghost: which of the races below a behaviour has had
          inbox,    \* control messages on their way to each receiver
          live,     \* the manager's view: opened and not purged
          opened,   \* session ids the manager has opened
          sent,     \* broadcasts so far
          local,    \* sessions_ of each process: session -> entry
          pc, ses, ent, sym, slot, at, got  \* the locals of each process

table == <<state, id, present, seen, link, latch>>
arena == <<holder, misfreed>>
manager == <<live, opened, sent>>
locals == <<ses, ent, sym, slot, at, got>>
vars == <<lock, state, id, present, seen, link, latch, holder, misfreed, races, inbox,
          live, opened, sent, local, pc, ses, ent, sym, slot, at, got>>

\* Links: a slot, zero (what memset leaves) or SLOT_IDX_FREE.
Zero == CHOOSE s \in Slots : TRUE

\* Who can have a slot.
Free == <<>>
Hand(p) == <<p>>
Cell(e, s) == <<e, s>>

Blank == [s \in Symbols |-> Zero]

Init ==
  /\ lock = None
  /\ state = [e \in Entries |-> "EMPTY"]
  /\ id = [e \in Entries |-> None]
  /\ present = [e \in Entries |-> {}]
  /\ seen = [e \in Entries |-> 0]
  /\ link = [e \in Entries |-> Blank]
  /\ latch = [e \in Entries |-> "PENDING"]
  /\ holder = [s \in Slots |-> Free]
  /\ misfreed = FALSE
  /\ races = {}
  /\ inbox = [p \in Procs |-> <<>>]
  /\ live = {}
  /\ opened = {}
  /\ sent = 0
  /\ local = [p \in Procs |-> [x \in Sessions |-> None]]
  /\ pc = [p \in Procs |-> "idle"]
  /\ ses = [p \in Procs |-> None]
  /\ ent = [p \in Procs |-> None]
  /\ sym = [p \in Procs |-> None]
  /\ slot = [p \in Procs |-> None]
  /\ at = [p \in Procs |-> 0]
  /\ got = [p \in Procs |-> {}]

\* Where a process is when it has a packet in hand.
DataPath == {"alloc", "register", "link", "gather", "mark", "release", "clear"}

Goto(p, l) == pc' = [pc EXCEPT ![p] = l]

\* The handler returns to the main loop.
Return(p) ==
  /\ Goto(p, "idle")
  /\ ses' = [ses EXCEPT ![p] = None]
  /\ ent' = [ent EXCEPT ![p] = None]
  /\ sym' = [sym EXCEPT ![p] = None]
  /\ slot' = [slot EXCEPT ![p] = None]
  /\ at' = [at EXCEPT ![p] = 0]
  /\ got' = [got EXCEPT ![p] = {}]

\* free_slot(s), called for the holder h.
FreeSlot(s, h) ==
  /\ holder' = [holder EXCEPT ![s] = Free]
  /\ misfreed' = (misfreed \/ holder[s] # h)

-----------------------------------------------------------------------------
(* The races the code leaves open, by which slots can be lost *)

\* The symbols of entry e whose registration is between its bit and its link.
Unlinked(e) == {sym[p] : p \in {q \in Procs : pc[q] = "link" /\ ent[q] = e}}

\* The processes that have a packet for entry e on its way to be registered, and
\* those that decode its block or release its slots.
Storing(e) == {p \in Procs : pc[p] \in {"alloc", "register", "link"} /\ ent[p] = e}
Decoding(e) ==
  {p \in Procs : pc[p] \in {"gather", "mark", "release", "clear"} /\ ent[p] = e}

\* A behaviour has had the races in "races", each if its condition held once:
\*   "gathered": a decoder gathered a symbol by its bit, before its link;
\*   "swept":    the sweep of a purge did;
\*   "torn":     a purge and a decoder were at work on one entry;
\*   "late":     a purge closed an entry with a packet for it on its way.
Note(race, condition) == races' = races \cup (IF condition THEN {race} ELSE {})

-----------------------------------------------------------------------------
(* session_manager and its channels (external) *)

Broadcast(kind, x) ==
  /\ sent < MaxBroadcasts
  /\ sent' = sent + 1
  /\ inbox' = [p \in Procs |-> Append(inbox[p], [kind |-> kind, id |-> x])]

\* SessionOpen is sent again for a receiver that joins late, and for a session
\* that has been purged.
BroadcastOpen(x) ==
  /\ Broadcast("open", x)
  /\ live' = live \cup {x}
  /\ opened' = opened \cup {x}
  /\ UNCHANGED <<lock, table, arena, races, local, pc, locals>>

\* The purge does not wait for the receivers' packets to run dry.
BroadcastPurge(x) ==
  /\ x \in opened
  /\ Broadcast("purge", x)
  /\ live' = live \ {x}
  /\ UNCHANGED <<lock, table, arena, races, opened, local, pc, locals>>

-----------------------------------------------------------------------------
(* handle_session_open() and open_session() *)

Message(p, kind) == /\ pc[p] = "idle"
                    /\ inbox[p] # <<>>
                    /\ Head(inbox[p]).kind = kind

TakeMessage(p) == /\ inbox' = [inbox EXCEPT ![p] = Tail(inbox[p])]
                  /\ ses' = [ses EXCEPT ![p] = Head(inbox[p]).id]

HandleOpen(p) ==
  /\ Message(p, "open")
  /\ IF local[p][Head(inbox[p]).id] # None
     THEN /\ inbox' = [inbox EXCEPT ![p] = Tail(inbox[p])]
          /\ UNCHANGED <<ses, pc>>
     ELSE TakeMessage(p) /\ Goto(p, "open")
  /\ UNCHANGED <<lock, table, arena, races, manager, local, ent, sym, slot, at, got>>

\* Seeded faults, here and below: the definition that follows with one bug that
\* a change of the code could bring in.  A run of its own shows it is noticed.
Acquire_NotExclusive(p, from, to) ==
  /\ pc[p] = from
  /\ lock' = p
  /\ Goto(p, to)
  /\ UNCHANGED <<table, arena, races, inbox, manager, local, locals>>

\* The CAS on session_open_lock; a failing one spins.
Acquire(p, from, to) ==
  /\ pc[p] = from
  /\ lock = None
  /\ lock' = p
  /\ Goto(p, to)
  /\ UNCHANGED <<table, arena, races, inbox, manager, local, locals>>

OpenLock(p) == Acquire(p, "open", "find")

OpenOf(x) == {e \in Entries : state[e] = "OPEN" /\ id[e] = x}
First(S) == CHOOSE e \in S : \A f \in S : e <= f

\* The two scans of the table: the session's entry, or the first empty one,
\* whose fields are written and whose block table is zeroed.
OpenFound(p) ==
  /\ pc[p] = "find"
  /\ OpenOf(ses[p]) # {}
  /\ ent' = [ent EXCEPT ![p] = First(OpenOf(ses[p]))]
  /\ Goto(p, "unlock")
  /\ UNCHANGED <<lock, table, arena, races, inbox, manager, local, ses, sym, slot,
                 at, got>>

OpenFill(p) ==
  /\ pc[p] = "find"
  /\ OpenOf(ses[p]) = {}
  /\ \E e \in {f \in Entries : state[f] = "EMPTY"} :
       /\ \A f \in 1 .. e - 1 : state[f] # "EMPTY"
       /\ id' = [id EXCEPT ![e] = ses[p]]
       /\ present' = [present EXCEPT ![e] = {}]
       /\ seen' = [seen EXCEPT ![e] = 0]
       /\ link' = [link EXCEPT ![e] = Blank]
       /\ latch' = [latch EXCEPT ![e] = "PENDING"]
       /\ ent' = [ent EXCEPT ![p] = e]
  /\ Goto(p, "publish")
  /\ UNCHANGED <<lock, state, arena, races, inbox, manager, local, ses, sym, slot,
                 at, got>>

OpenFull(p) ==
  /\ pc[p] = "find"
  /\ OpenOf(ses[p]) = {}
  /\ \A e \in Entries : state[e] # "EMPTY"
  /\ Goto(p, "unlock")
  /\ UNCHANGED <<lock, table, arena, races, inbox, manager, local, locals>>

OpenPublish(p) ==
  /\ pc[p] = "publish"
  /\ state' = [state EXCEPT ![ent[p]] = "OPEN"]
  /\ Goto(p, "unlock")
  /\ UNCHANGED <<lock, id, present, seen, link, latch, arena, races, inbox, manager,
                 local, locals>>

\* The lock is released; with an entry and a destination file the process has
\* its context.
OpenUnlock(p) ==
  /\ pc[p] = "unlock"
  /\ lock' = None
  /\ \E ok \in {TRUE} \cup (IF WriterFails THEN {FALSE} ELSE {}) :
       local' = IF ok THEN [local EXCEPT ![p][ses[p]] = ent[p]] ELSE local
  /\ Return(p)
  /\ UNCHANGED <<table, arena, races, inbox, manager>>

-----------------------------------------------------------------------------
(* purge_session() and close_session() *)

HandlePurge(p) ==
  /\ Message(p, "purge")
  /\ TakeMessage(p)
  /\ Goto(p, "close")
  /\ UNCHANGED <<lock, table, arena, races, manager, local, ent, sym, slot, at, got>>

CloseLock(p) == Acquire(p, "close", "claim")

CloseClaim_NotMarked(p) ==
  /\ pc[p] = "claim"
  /\ IF OpenOf(ses[p]) # {}
     THEN ent' = [ent EXCEPT ![p] = First(OpenOf(ses[p]))]
     ELSE UNCHANGED ent
  /\ Goto(p, "closeUnlock")
  /\ UNCHANGED <<lock, table, arena, races, inbox, manager, local, ses, sym, slot,
                 at, got>>

\* Who finds the entry OPEN makes it CLOSING and sweeps it.
CloseClaim(p) ==
  /\ pc[p] = "claim"
  /\ IF OpenOf(ses[p]) # {}
     THEN LET e == First(OpenOf(ses[p])) IN
            /\ ent' = [ent EXCEPT ![p] = e]
            /\ state' = [state EXCEPT ![e] = "CLOSING"]
            /\ races' = races \cup (IF Storing(e) # {} THEN {"late"} ELSE {})
                              \cup (IF Decoding(e) # {} THEN {"torn"} ELSE {})
     ELSE UNCHANGED <<ent, state, races>>
  /\ Goto(p, "closeUnlock")
  /\ UNCHANGED <<lock, id, present, seen, link, latch, arena, inbox, manager, local,
                 ses, sym, slot, at, got>>

CloseUnlock_EarlyReturn(p) ==
  /\ pc[p] = "closeUnlock"
  /\ lock' = IF ent[p] # None THEN None ELSE lock
  /\ Goto(p, IF ent[p] # None THEN "sweep" ELSE "erase")
  /\ UNCHANGED <<table, arena, races, inbox, manager, local, locals>>

CloseUnlock(p) ==
  /\ pc[p] = "closeUnlock"
  /\ lock' = None
  /\ Goto(p, IF ent[p] # None THEN "sweep" ELSE "erase")
  /\ UNCHANGED <<table, arena, races, inbox, manager, local, locals>>

Sweep_OneTooMany(p) ==
  /\ pc[p] = "sweep"
  /\ at[p] <= N
  /\ at' = [at EXCEPT ![p] = at[p] + 1]
  /\ LET e == ent[p]  s == at[p] IN
       IF s \in present[e] /\ link[e][s] # SlotFree
       THEN FreeSlot(link[e][s], Cell(e, s)) /\ Note("swept", s \in Unlinked(e))
       ELSE UNCHANGED <<arena, races>>
  /\ UNCHANGED <<lock, table, inbox, manager, local, pc, ses, ent, sym, slot, got>>

Sweep(p) ==
  /\ pc[p] = "sweep"
  /\ at[p] < N
  /\ at' = [at EXCEPT ![p] = at[p] + 1]
  /\ LET e == ent[p]  s == at[p] IN
       IF s \in present[e] /\ link[e][s] # SlotFree
       THEN FreeSlot(link[e][s], Cell(e, s)) /\ Note("swept", s \in Unlinked(e))
       ELSE UNCHANGED <<arena, races>>
  /\ UNCHANGED <<lock, table, inbox, manager, local, pc, ses, ent, sym, slot, got>>

SweepReset_OneTooFew(p) ==
  /\ pc[p] = "sweep"
  /\ at[p] = N - 1
  /\ present' = [present EXCEPT ![ent[p]] = {}]
  /\ seen' = [seen EXCEPT ![ent[p]] = 0]
  /\ link' = [link EXCEPT ![ent[p]] = [s \in Symbols |-> SlotFree]]
  /\ latch' = [latch EXCEPT ![ent[p]] = "PENDING"]
  /\ Goto(p, "empty")
  /\ UNCHANGED <<lock, state, id, arena, races, inbox, manager, local, locals>>

\* The table is zeroed and every link marked free.
SweepReset(p) ==
  /\ pc[p] = "sweep"
  /\ at[p] = N
  /\ present' = [present EXCEPT ![ent[p]] = {}]
  /\ seen' = [seen EXCEPT ![ent[p]] = 0]
  /\ link' = [link EXCEPT ![ent[p]] = [s \in Symbols |-> SlotFree]]
  /\ latch' = [latch EXCEPT ![ent[p]] = "PENDING"]
  /\ Goto(p, "empty")
  /\ UNCHANGED <<lock, state, id, arena, races, inbox, manager, local, locals>>

ClosePublish(p) ==
  /\ pc[p] = "empty"
  /\ state' = [state EXCEPT ![ent[p]] = "EMPTY"]
  /\ Goto(p, "erase")
  /\ UNCHANGED <<lock, id, present, seen, link, latch, arena, races, inbox, manager,
                 local, locals>>

PurgeErase(p) ==
  /\ pc[p] = "erase"
  /\ local' = [local EXCEPT ![p][ses[p]] = None]
  /\ Return(p)
  /\ UNCHANGED <<lock, table, arena, races, inbox, manager>>

-----------------------------------------------------------------------------
(* handle_data_packet() *)

\* The checks before the allocation.  block_entry() looks at the entry the
\* process remembers: it must be OPEN, whoever it belongs to by now.
Receive(p) ==
  /\ pc[p] = "idle"
  /\ \E x \in Sessions, s \in Symbols :
       /\ local[p][x] # None
       /\ state[local[p][x]] = "OPEN"
       /\ latch[local[p][x]] # "COMPLETE"
       /\ s \notin present[local[p][x]]
       /\ ses' = [ses EXCEPT ![p] = x]
       /\ ent' = [ent EXCEPT ![p] = local[p][x]]
       /\ sym' = [sym EXCEPT ![p] = s]
  /\ Goto(p, "alloc")
  /\ UNCHANGED <<lock, table, arena, races, inbox, manager, local, slot, at, got>>

AllocSlot(p) ==
  /\ pc[p] = "alloc"
  /\ \E s \in Slots :
       /\ holder[s] = Free
       /\ holder' = [holder EXCEPT ![s] = Hand(p)]
       /\ slot' = [slot EXCEPT ![p] = s]
  /\ Goto(p, "register")
  /\ UNCHANGED <<lock, table, misfreed, races, inbox, manager, local, ses, ent, sym,
                 at, got>>

ArenaExhausted(p) ==
  /\ pc[p] = "alloc"
  /\ \A s \in Slots : holder[s] # Free
  /\ Return(p)
  /\ UNCHANGED <<lock, table, arena, races, inbox, manager, local>>

RegisterBit(p) ==
  /\ pc[p] = "register"
  /\ sym[p] \notin present[ent[p]]
  /\ present' = [present EXCEPT ![ent[p]] = @ \cup {sym[p]}]
  /\ Goto(p, "link")
  /\ UNCHANGED <<lock, state, id, seen, link, latch, arena, races, inbox, manager,
                 local, locals>>

RegisterDuplicate_KeepsSlot(p) ==
  /\ pc[p] = "register"
  /\ sym[p] \in present[ent[p]]
  /\ Return(p)
  /\ UNCHANGED <<lock, table, arena, races, inbox, manager, local>>

RegisterDuplicate(p) ==
  /\ pc[p] = "register"
  /\ sym[p] \in present[ent[p]]
  /\ FreeSlot(slot[p], Hand(p))
  /\ Return(p)
  /\ UNCHANGED <<lock, table, races, inbox, manager, local>>

\* The link and the count; who brings the count to k claims the block.
RegisterLink(p) ==
  /\ pc[p] = "link"
  /\ link' = [link EXCEPT ![ent[p]][sym[p]] = slot[p]]
  /\ holder' = [holder EXCEPT ![slot[p]] = Cell(ent[p], sym[p])]
  /\ seen' = [seen EXCEPT ![ent[p]] = @ + 1]
  /\ IF seen[ent[p]] + 1 >= K /\ latch[ent[p]] = "PENDING"
     THEN /\ latch' = [latch EXCEPT ![ent[p]] = "CLAIMED"]
          /\ Note("torn", state[ent[p]] # "OPEN")
          /\ Goto(p, "gather")
          /\ UNCHANGED locals
     ELSE Return(p) /\ UNCHANGED <<latch, races>>
  /\ UNCHANGED <<lock, state, id, present, misfreed, inbox, manager, local>>

\* The gather loop.
Gather(p) ==
  /\ pc[p] = "gather"
  /\ got' = [got EXCEPT ![p] = present[ent[p]]]
  /\ Note("gathered", present[ent[p]] \cap Unlinked(ent[p]) # {})
  /\ Goto(p, "mark")
  /\ UNCHANGED <<lock, table, arena, inbox, manager, local, ses, ent, sym, slot, at>>

\* decode() has too few symbols, or the write or the flush fails: the block stays
\* CLAIMED, with all its links, until the purge.
DecodeFails(p) ==
  /\ pc[p] = "mark"
  /\ Cardinality(got[p]) < K \/ DiskFails
  /\ Return(p)
  /\ UNCHANGED <<lock, table, arena, races, inbox, manager, local>>

\* Decoded, written and flushed: mark_decode_complete().
MarkComplete(p) ==
  /\ pc[p] = "mark"
  /\ Cardinality(got[p]) >= K
  /\ latch[ent[p]] = "CLAIMED"
  /\ latch' = [latch EXCEPT ![ent[p]] = "COMPLETE"]
  /\ Goto(p, "release")
  /\ UNCHANGED <<lock, state, id, present, seen, link, arena, races, inbox, manager,
                 local, locals>>

\* mark_decode_complete() fails: somebody reset the block under the decoder.
DecodeLost(p) ==
  /\ pc[p] = "mark"
  /\ Cardinality(got[p]) >= K
  /\ latch[ent[p]] # "CLAIMED"
  /\ Return(p)
  /\ UNCHANGED <<lock, table, arena, races, inbox, manager, local>>

\* free_slot(SLOT_IDX_FREE) would write outside the arena: misfreed as well.
ReleaseSlot(p) ==
  /\ pc[p] = "release"
  /\ at[p] \in got[p]
  /\ LET s == link[ent[p]][at[p]] IN
       IF s = SlotFree THEN misfreed' = TRUE /\ UNCHANGED holder
                       ELSE FreeSlot(s, Cell(ent[p], at[p]))
  /\ Goto(p, "clear")
  /\ UNCHANGED <<lock, table, races, inbox, manager, local, locals>>

ClearSlot_KeepsLink(p) ==
  /\ pc[p] = "clear"
  /\ at' = [at EXCEPT ![p] = at[p] + 1]
  /\ Goto(p, "release")
  /\ UNCHANGED <<lock, table, arena, races, inbox, manager, local, ses, ent, sym,
                 slot, got>>

ClearSlot(p) ==
  /\ pc[p] = "clear"
  /\ link' = [link EXCEPT ![ent[p]][at[p]] = SlotFree]
  /\ at' = [at EXCEPT ![p] = at[p] + 1]
  /\ Goto(p, "release")
  /\ UNCHANGED <<lock, state, id, present, seen, latch, arena, races, inbox, manager,
                 local, ses, ent, sym, slot, got>>

ReleaseSkip(p) ==
  /\ pc[p] = "release"
  /\ at[p] \in Symbols \ got[p]
  /\ at' = [at EXCEPT ![p] = at[p] + 1]
  /\ UNCHANGED <<lock, table, arena, races, inbox, manager, local, pc, ses, ent, sym,
                 slot, got>>

ReleaseDone(p) ==
  /\ pc[p] = "release"
  /\ at[p] = N
  /\ Return(p)
  /\ UNCHANGED <<lock, table, arena, races, inbox, manager, local>>

-----------------------------------------------------------------------------
Open(p) == \/ HandleOpen(p) \/ OpenLock(p) \/ OpenFound(p) \/ OpenFill(p)
           \/ OpenFull(p) \/ OpenPublish(p) \/ OpenUnlock(p)
Purge(p) == \/ HandlePurge(p) \/ CloseLock(p) \/ CloseClaim(p) \/ CloseUnlock(p)
            \/ Sweep(p) \/ SweepReset(p) \/ ClosePublish(p) \/ PurgeErase(p)
Packet(p) == \/ AllocSlot(p) \/ ArenaExhausted(p) \/ RegisterBit(p)
             \/ RegisterDuplicate(p) \/ RegisterLink(p) \/ Gather(p) \/ DecodeFails(p)
             \/ MarkComplete(p) \/ DecodeLost(p) \/ ReleaseSlot(p) \/ ClearSlot(p)
             \/ ReleaseSkip(p) \/ ReleaseDone(p)

Next == \/ \E x \in Sessions : BroadcastOpen(x) \/ BroadcastPurge(x)
        \/ \E p \in Procs : Open(p) \/ Purge(p) \/ Receive(p) \/ Packet(p)

Spec == Init /\ [][Next]_vars

\* The main loop looks at its control socket after every batch of packets, and
\* finishes what it has begun; no packet has to arrive and the manager has nothing
\* it must send.
Handles(p) == HandleOpen(p) \/ HandlePurge(p)
FairSpec == /\ Spec
            /\ \A p \in Procs : /\ WF_vars(Open(p) \/ Purge(p) \/ Packet(p))
                                /\ SF_vars(Handles(p))

-----------------------------------------------------------------------------
(* Properties *)

Labels == DataPath \cup {"idle", "open", "find", "publish", "unlock", "close", "claim",
                         "closeUnlock", "sweep", "empty", "erase"}

TypeOK ==
  /\ lock \in Procs \cup {None}
  /\ state \in [Entries -> {"EMPTY", "OPEN", "CLOSING"}]
  /\ id \in [Entries -> Sessions \cup {None}]
  /\ present \in [Entries -> SUBSET Symbols]
  /\ seen \in [Entries -> Nat]
  /\ link \in [Entries -> [Symbols -> Slots \cup {SlotFree}]]
  /\ latch \in [Entries -> {"PENDING", "CLAIMED", "COMPLETE"}]
  /\ holder \in [Slots -> {Free} \cup {Hand(p) : p \in Procs} \cup (Entries \X Symbols)]
  /\ misfreed \in BOOLEAN
  /\ races \subseteq {"gathered", "swept", "torn", "late"}
  /\ live \subseteq opened
  /\ opened \in SUBSET Sessions
  /\ sent \in 0 .. MaxBroadcasts
  /\ \A p \in Procs : Len(inbox[p]) <= sent
  /\ local \in [Procs -> [Sessions -> Entries \cup {None}]]
  /\ pc \in [Procs -> Labels]
  /\ ses \in [Procs -> Sessions \cup {None}]
  /\ ent \in [Procs -> Entries \cup {None}]
  /\ sym \in [Procs -> Symbols \cup {None}]
  /\ slot \in [Procs -> Slots \cup {None}]
  /\ at \in [Procs -> 0 .. N]
  /\ got \in [Procs -> SUBSET Symbols]

\* Receivers that open one session id together, with openers and purgers of other
\* ids in between, never make two entries of it.
OneEntryPerSession ==
  \A e, f \in Entries :
    state[e] = "OPEN" /\ state[f] = "OPEN" /\ id[e] = id[f] => e = f

\* An entry that is being closed has exactly one process that sweeps it, however
\* many handle the same PurgeSession; no other entry has any.
Closers(e) == {p \in Procs : pc[p] \in {"closeUnlock", "sweep", "empty"} /\ ent[p] = e}

OneSweeper ==
  \A e \in Entries :
    IF state[e] = "CLOSING" THEN \E p \in Procs : Closers(e) = {p} ELSE Closers(e) = {}

\* Every slot is freed by who holds it, and so once: by a duplicate's owner, the
\* release loop or one sweep, though packets are on their way when the purge comes
\* and symbols register behind the decoder and behind the sweep.  What can break it
\* is a decoder on a purged entry, and a link that is read by its bit alone.
FreedOnce == races \subseteq {"late"} => ~misfreed

\* A slot that was registered stays reachable from the table until it is freed, be
\* the block collecting, complete or stuck with a failed decoder, and be the symbol
\* one that came after the gather: a sweep that comes finds it.
NoSlotStranded ==
  races = {} =>
    \A s \in Slots : \A e \in Entries, t \in Symbols :
      holder[s] = Cell(e, t) =>
        /\ state[e] # "EMPTY"
        /\ t \in present[e]
        /\ link[e][t] = s

\* When every message has been handled and no session is live, the arena and the
\* table are as new.
AllHandled == \A p \in Procs : inbox[p] = <<>> /\ pc[p] = "idle"

PurgedIsEmpty ==
  AllHandled /\ live = {} =>
    /\ races = {} => \A s \in Slots : holder[s] = Free
    /\ \A e \in Entries : state[e] = "EMPTY"

\* The comment on close_session(): after it block_entry() rejects the old
\* generation, so a packet that is let in goes to the entry of its own session.
OldGenerationRejected ==
  [][\A p \in Procs : pc[p] = "idle" /\ pc'[p] = "alloc" => id[ent'[p]] = ses'[p]]_vars

\* Every control message is handled in the end, whoever contends for the lock and
\* however busy the data path is.
EventuallyHandled ==
  \A p \in Procs : []<>(inbox[p] = <<>> /\ pc[p] = "idle")
=============================================================================
