------------------------------ MODULE FreeList ------------------------------
(***************************************************************************)
(* The slot arena's free list: a Treiber stack in shared memory, pushed    *)
(* and popped by every receiver process with no lock (src/src/receiver/    *)
(* shm_manager.cpp, alloc_slot, free_slot, note_alloc).                    *)
(*                                                                         *)
(* One action is one access to shared memory.  The head is one 64-bit word *)
(* [gen | idx]; the link to the next free slot lives in the first word of  *)
(* the free slot itself, the word a client overwrites with payload once it *)
(* has the slot.  A process may die between any two accesses and be        *)
(* restarted by the supervisor on the same segment.                        *)
(***************************************************************************)
EXTENDS Integers, FiniteSets

CONSTANTS Procs,       \* receiver processes attached to the segment
          SlotCount,   \* slots in the arena (ShmHeader::slot_count)
          ListEnd,     \* FREE_LIST_END
          GenMod,      \* the generation is a counter modulo GenMod (2^32)
          Payloads,    \* what clients write into the first word of a slot
          None,        \* "no slot"
          SpuriousCas, \* may compare_exchange_weak fail with no reason?
          MaxCrashes   \* bound: how many process deaths a behaviour has

Slots == 0 .. SlotCount - 1
Links == Slots \cup {ListEnd}

ASSUME ArenaAssumption == /\ SlotCount \in Nat
                          /\ ListEnd \notin Slots
                          /\ None \notin Links
                          /\ GenMod \in Nat \ {0}
                          /\ SpuriousCas \in BOOLEAN
                          /\ MaxCrashes \in Nat
                          /\ IsFiniteSet(Procs)

VARIABLES head,      \* free_list_head, unpacked
          node,      \* node[s]: the first word of slot s
          used,      \* used_slots
          highWater, \* high_water_used
          inUse,     \* slots returned by alloc_slot() and not yet given back
          lost,      \* slots that died with the process that held them
          crashes,   \* deaths so far
          pc,        \* where each process is
          oldHead,   \* old_head, the local of both loops
          next,      \* next, the local of alloc_slot()
          cur,       \* idx of alloc_slot(), slot_idx of free_slot()
          now,       \* now, the local of note_alloc()
          hw,        \* hw, the local of note_alloc()
          lag        \* ghost: changes of head since p last loaded old_head

shared == <<head, node, used, highWater>>
locals == <<oldHead, next, cur, now, hw>>
vars == <<head, node, used, highWater, inUse, lost, crashes,
          pc, oldHead, next, cur, now, hw, lag>>

Heads == [idx : Links, gen : 0 .. GenMod - 1]

\* A local that is out of scope holds its initial value.
NoHead == [idx |-> ListEnd, gen |-> 0]

\* Seeded faults, here and below: the definition that follows with one bug that
\* a change of the code could bring in.  A run of its own shows it is noticed.
Bump_NoGeneration(old, idx) == [idx |-> idx, gen |-> old.gen]
Bump_NoWrap(old, idx) == [idx |-> idx, gen |-> old.gen + 1]

\* pack_head(idx, head_gen(old) + 1): the generation is 32 bits wide.
Bump(old, idx) ==
  [idx |-> idx, gen |-> IF old.gen = GenMod - 1 THEN 0 ELSE old.gen + 1]

\* init_header(): the chain 0 -> 1 -> ... -> SlotCount-1 -> ListEnd.
Init ==
  /\ head = [idx |-> IF SlotCount > 0 THEN 0 ELSE ListEnd, gen |-> 0]
  /\ node = [s \in Slots |-> IF s + 1 < SlotCount THEN s + 1 ELSE ListEnd]
  /\ used = 0
  /\ highWater = 0
  /\ inUse = {}
  /\ lost = {}
  /\ crashes = 0
  /\ pc = [p \in Procs |-> "idle"]
  /\ oldHead = [p \in Procs |-> NoHead]
  /\ next = [p \in Procs |-> ListEnd]
  /\ cur = [p \in Procs |-> None]
  /\ now = [p \in Procs |-> 0]
  /\ hw = [p \in Procs |-> 0]
  /\ lag = [p \in Procs |-> 0]

Goto(p, l) == pc' = [pc EXCEPT ![p] = l]

(***************************************************************************)
(* The bound the code argues for (the ABA comment above alloc_slot): while *)
(* a process is between its load of the head and its CAS, the head does    *)
(* not change a whole turn of the generation.                              *)
(***************************************************************************)
InWindow(p) == pc[p] \in {"read", "cas"}

NoFullTurn(p) == \A q \in Procs \ {p} : InWindow(q) => lag[q] < GenMod - 1

\* The head changes under the processes that are between load and CAS.
HeadMoved(p) ==
  lag' = [q \in Procs |-> IF q # p /\ InWindow(q) THEN lag[q] + 1 ELSE 0]

-----------------------------------------------------------------------------
(* alloc_slot() *)

TakeHead_KeepsLastSlot(p) ==
  /\ oldHead' = [oldHead EXCEPT ![p] = head]
  /\ lag' = [lag EXCEPT ![p] = 0]
  /\ Goto(p, IF head.idx = ListEnd \/ node[head.idx] = ListEnd THEN "refused" ELSE "read")

\* A value of the head reaches old_head: an empty list ends the call at once.
TakeHead(p) ==
  /\ oldHead' = [oldHead EXCEPT ![p] = head]
  /\ lag' = [lag EXCEPT ![p] = 0]
  /\ Goto(p, IF head.idx = ListEnd THEN "refused" ELSE "read")

AllocLoad(p) ==
  /\ pc[p] = "idle"
  /\ TakeHead(p)
  /\ UNCHANGED <<shared, inUse, lost, crashes, next, cur, now, hw>>

AllocRefused(p) ==
  /\ pc[p] = "refused"
  /\ oldHead' = [oldHead EXCEPT ![p] = NoHead]
  /\ Goto(p, "idle")
  /\ UNCHANGED <<shared, inUse, lost, crashes, next, cur, now, hw, lag>>

\* The plain read of the link: the slot may be in a client's hands by now.
AllocRead(p) ==
  /\ pc[p] = "read"
  /\ next' = [next EXCEPT ![p] = node[oldHead[p].idx]]
  /\ Goto(p, "cas")
  /\ UNCHANGED <<shared, inUse, lost, crashes, oldHead, cur, now, hw, lag>>

AllocCas(p) ==
  /\ pc[p] = "cas"
  /\ head = oldHead[p]
  /\ NoFullTurn(p)
  /\ head' = Bump(oldHead[p], next[p])
  /\ HeadMoved(p)
  /\ cur' = [cur EXCEPT ![p] = oldHead[p].idx]
  /\ oldHead' = [oldHead EXCEPT ![p] = NoHead]
  /\ next' = [next EXCEPT ![p] = ListEnd]
  /\ Goto(p, "note")
  /\ UNCHANGED <<node, used, highWater, inUse, lost, crashes, now, hw>>

AllocRetry_NotRefreshed(p) ==
  /\ pc[p] = "cas"
  /\ head # oldHead[p] \/ SpuriousCas
  /\ next' = [next EXCEPT ![p] = ListEnd]
  /\ Goto(p, "read")
  /\ UNCHANGED <<shared, inUse, lost, crashes, oldHead, cur, now, hw, lag>>

\* A failing CAS refreshes old_head, and the loop starts over with it.
AllocRetry(p) ==
  /\ pc[p] = "cas"
  /\ head # oldHead[p] \/ SpuriousCas
  /\ TakeHead(p)
  /\ next' = [next EXCEPT ![p] = ListEnd]
  /\ UNCHANGED <<shared, inUse, lost, crashes, cur, now, hw>>

-----------------------------------------------------------------------------
(* note_alloc(), called by alloc_slot() after its CAS *)

NoteUsed(p) ==
  /\ pc[p] = "note"
  /\ used' = used + 1
  /\ now' = [now EXCEPT ![p] = used + 1]
  /\ Goto(p, "hwload")
  /\ UNCHANGED <<head, node, highWater, inUse, lost, crashes,
                 oldHead, next, cur, hw, lag>>

HwLoad(p) ==
  /\ pc[p] = "hwload"
  /\ hw' = [hw EXCEPT ![p] = highWater]
  /\ Goto(p, "hwcas")
  /\ UNCHANGED <<shared, inUse, lost, crashes, oldHead, next, cur, now, lag>>

\* note_alloc() and then alloc_slot() return: the slot is the caller's.
HandOver(p) ==
  /\ inUse' = inUse \cup {cur[p]}
  /\ cur' = [cur EXCEPT ![p] = None]
  /\ now' = [now EXCEPT ![p] = 0]
  /\ hw' = [hw EXCEPT ![p] = 0]
  /\ Goto(p, "idle")

HwRaise_PlainStore(p) ==
  /\ pc[p] = "hwcas"
  /\ now[p] > hw[p]
  /\ highWater' = now[p]
  /\ HandOver(p)
  /\ UNCHANGED <<head, node, used, lost, crashes, oldHead, next, lag>>

HwRaise(p) ==
  /\ pc[p] = "hwcas"
  /\ now[p] > hw[p]
  /\ highWater = hw[p]
  /\ highWater' = now[p]
  /\ HandOver(p)
  /\ UNCHANGED <<head, node, used, lost, crashes, oldHead, next, lag>>

HwRetry(p) ==
  /\ pc[p] = "hwcas"
  /\ now[p] > hw[p]
  /\ highWater # hw[p] \/ SpuriousCas
  /\ hw' = [hw EXCEPT ![p] = highWater]
  /\ UNCHANGED <<shared, inUse, lost, crashes, pc, oldHead, next, cur, now, lag>>

HwEnough(p) ==
  /\ pc[p] = "hwcas"
  /\ now[p] <= hw[p]
  /\ HandOver(p)
  /\ UNCHANGED <<shared, lost, crashes, oldHead, next, lag>>

-----------------------------------------------------------------------------
(* free_slot(): any process may give back any slot a client holds *)

FreeLoad(p) ==
  /\ pc[p] = "idle"
  /\ \E s \in inUse :
       /\ inUse' = inUse \ {s}
       /\ cur' = [cur EXCEPT ![p] = s]
  /\ oldHead' = [oldHead EXCEPT ![p] = head]
  /\ Goto(p, "flink")
  /\ UNCHANGED <<shared, lost, crashes, next, now, hw, lag>>

FreeLink(p) ==
  /\ pc[p] = "flink"
  /\ node' = [node EXCEPT ![cur[p]] = oldHead[p].idx]
  /\ Goto(p, "fcas")
  /\ UNCHANGED <<head, used, highWater, inUse, lost, crashes, locals, lag>>

FreeCas(p) ==
  /\ pc[p] = "fcas"
  /\ head = oldHead[p]
  /\ NoFullTurn(p)
  /\ head' = Bump(oldHead[p], cur[p])
  /\ HeadMoved(p)
  /\ cur' = [cur EXCEPT ![p] = None]
  /\ oldHead' = [oldHead EXCEPT ![p] = NoHead]
  /\ Goto(p, "fcount")
  /\ UNCHANGED <<node, used, highWater, inUse, lost, crashes, next, now, hw>>

FreeRetry_NotRelinked(p) ==
  /\ pc[p] = "fcas"
  /\ head # oldHead[p] \/ SpuriousCas
  /\ oldHead' = [oldHead EXCEPT ![p] = head]
  /\ UNCHANGED <<shared, inUse, lost, crashes, pc, next, cur, now, hw, lag>>

FreeRetry(p) ==
  /\ pc[p] = "fcas"
  /\ head # oldHead[p] \/ SpuriousCas
  /\ oldHead' = [oldHead EXCEPT ![p] = head]
  /\ Goto(p, "flink")
  /\ UNCHANGED <<shared, inUse, lost, crashes, next, cur, now, hw, lag>>

FreeCount_Forgotten(p) ==
  /\ pc[p] = "fcount"
  /\ Goto(p, "idle")
  /\ UNCHANGED <<shared, inUse, lost, crashes, locals, lag>>

FreeCount(p) ==
  /\ pc[p] = "fcount"
  /\ used' = used - 1
  /\ Goto(p, "idle")
  /\ UNCHANGED <<head, node, highWater, inUse, lost, crashes, locals, lag>>

-----------------------------------------------------------------------------
(* The clients and the machine *)

\* A client copies a symbol into its slot, over the word that was the link.
WritePayload ==
  /\ \E s \in inUse, w \in Payloads : node' = [node EXCEPT ![s] = w]
  /\ UNCHANGED <<head, used, highWater, inUse, lost, crashes, pc, locals, lag>>

\* A process dies inside a call; the slot it has in hand is nobody's.
Crash(p) ==
  /\ pc[p] \notin {"idle", "dead"}
  /\ crashes < MaxCrashes
  /\ crashes' = crashes + 1
  /\ lost' = lost \cup ({cur[p]} \ {None})
  /\ cur' = [cur EXCEPT ![p] = None]
  /\ oldHead' = [oldHead EXCEPT ![p] = NoHead]
  /\ next' = [next EXCEPT ![p] = ListEnd]
  /\ now' = [now EXCEPT ![p] = 0]
  /\ hw' = [hw EXCEPT ![p] = 0]
  /\ lag' = [lag EXCEPT ![p] = 0]
  /\ Goto(p, "dead")
  /\ UNCHANGED <<shared, inUse>>

\* The supervisor starts the process again and it attaches.
Restart(p) ==
  /\ pc[p] = "dead"
  /\ Goto(p, "idle")
  /\ UNCHANGED <<shared, inUse, lost, crashes, locals, lag>>

Alloc(p) == \/ AllocLoad(p) \/ AllocRefused(p) \/ AllocRead(p)
            \/ AllocCas(p) \/ AllocRetry(p)
NoteAlloc(p) == NoteUsed(p) \/ HwLoad(p) \/ HwRaise(p) \/ HwRetry(p) \/ HwEnough(p)
Free(p) == FreeLoad(p) \/ FreeLink(p) \/ FreeCas(p) \/ FreeRetry(p) \/ FreeCount(p)

Next == \/ \E p \in Procs : Alloc(p) \/ NoteAlloc(p) \/ Free(p)
        \/ WritePayload
        \/ \E p \in Procs : Crash(p) \/ Restart(p)

Spec == Init /\ [][Next]_vars

\* A call that has begun is scheduled to its next access; nothing is assumed
\* of the callers: no process has to call, none has to be restarted.  A weak
\* compare-and-swap may fail without a reason, but not all of them for ever.
Goes(p) == pc[p] # "idle" /\ (Alloc(p) \/ NoteAlloc(p) \/ Free(p))
Swaps == \E p \in Procs : AllocCas(p) \/ FreeCas(p) \/ HwRaise(p)
FairSpec == /\ Spec
            /\ \A p \in Procs : WF_vars(Goes(p))
            /\ SF_vars(Swaps)

-----------------------------------------------------------------------------
(* Properties *)

\* The calls that have a slot in hand.
Holding == {"note", "hwload", "hwcas", "flink", "fcas"}
Holders == {p \in Procs : pc[p] \in Holding}

\* The slots nobody holds.
Avail == Slots \ (inUse \cup lost \cup {cur[p] : p \in Holders})

\* Every variable keeps its type; a process has a slot exactly while its call
\* has one in hand.
TypeOK ==
  /\ head \in Heads
  /\ node \in [Slots -> Links \cup Payloads]
  /\ used \in Int
  /\ highWater \in Int
  /\ inUse \in SUBSET Slots
  /\ lost \in SUBSET Slots
  /\ crashes \in 0 .. MaxCrashes
  /\ pc \in [Procs -> Holding \cup {"idle", "refused", "read", "cas", "fcount", "dead"}]
  /\ oldHead \in [Procs -> Heads]
  /\ next \in [Procs -> Links \cup Payloads]
  /\ cur \in [Procs -> Slots \cup {None}]
  /\ now \in [Procs -> Int]
  /\ hw \in [Procs -> Int]
  /\ lag \in [Procs -> 0 .. GenMod - 1]
  /\ \A p \in Procs : cur[p] # None <=> p \in Holders

\* No slot is handed out twice: what a call has in hand is in no other call's
\* hand, in no client's, and not among the lost ones.
Exclusive ==
  /\ inUse \cap lost = {}
  /\ \A p \in Holders : cur[p] \notin inUse \cup lost
  /\ \A p, q \in Holders : cur[p] = cur[q] => p = q

\* The links from h on run through the set S, once, and end: depth counts the
\* slots from a slot of the chain to its end.
IsChain(h, link, S, depth) ==
  /\ h = ListEnd => S = {}
  /\ h # ListEnd => h \in S /\ depth[h] = Cardinality(S)
  /\ \A s \in S :
       /\ depth[s] \in 1 .. Cardinality(S)
       /\ depth[s] = 1 => link[s] = ListEnd
       /\ depth[s] # 1 => link[s] \in S /\ depth[link[s]] = depth[s] - 1
  /\ \A s, t \in S : depth[s] = depth[t] => s = t

\* The chain that starts at the head runs through every slot nobody holds,
\* once, and through nothing else, at every step of every call.
ChainIsAvail ==
  \E depth \in [Slots -> 0 .. SlotCount] : IsChain(head.idx, node, Avail, depth)

\* What a call knows between its load of the head and its CAS.  The generation
\* has moved by lag, so a head that looks unchanged is unchanged, and the link
\* that was read is still the link of the first free slot.
WindowOf(p) ==
  /\ InWindow(p) => /\ oldHead[p].idx \in Slots
                    /\ \/ head.gen = oldHead[p].gen + lag[p]
                       \/ head.gen = oldHead[p].gen + lag[p] - GenMod
                    /\ lag[p] = 0 => head = oldHead[p]
  /\ pc[p] = "cas" /\ lag[p] = 0 => next[p] = node[oldHead[p].idx]
  /\ pc[p] = "fcas" => node[cur[p]] = oldHead[p].idx

Window == \A p \in Procs : WindowOf(p)

\* used_slots is the number of slots clients hold plus the calls that have
\* counted and not yet returned or uncounted, but for the deaths.
Counted == {p \in Procs : pc[p] \in {"hwload", "hwcas", "flink", "fcas", "fcount"}}

UsedCounts ==
  used - Cardinality(inUse) - Cardinality(Counted) \in 0 .. crashes

\* high_water_used is never below used_slots unless a call that is about to
\* raise it is under way, or died.
HighWaterNotBehind ==
  \/ crashes > 0
  \/ used <= highWater
  \/ \E p \in Procs : pc[p] \in {"hwload", "hwcas"} /\ now[p] >= used

\* Calls that are under way do not block each other for ever, dead ones do not
\* block the living: when nobody is idle and somebody is inside a call, some
\* call returns (or its process dies).
Busy(p) == pc[p] \notin {"idle", "dead"}

LockFree ==
  \A n \in 0 .. MaxCrashes :
    ((\A p \in Procs : pc[p] # "idle") /\ (\E p \in Procs : Busy(p)) /\ crashes = n)
       ~> ((\E p \in Procs : pc[p] = "idle") \/ crashes > n)

\* The implementation of the arena's promise.
Pool == INSTANCE SlotPool WITH
  Refused <- ListEnd,
  avail <- Avail,
  out <- inUse,
  grant <- [p \in Procs |-> IF pc[p] = "refused" THEN ListEnd
                            ELSE IF pc[p] \in {"note", "hwload", "hwcas"} THEN cur[p]
                            ELSE None],
  back <- [p \in Procs |-> IF pc[p] \in {"flink", "fcas"} THEN cur[p] ELSE None]

\* The lock-free list keeps the promise of the slot pool.
KeepsPool == Pool!PoolSpec
=============================================================================
