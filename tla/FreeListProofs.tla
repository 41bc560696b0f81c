--------------------------- MODULE FreeListProofs ---------------------------
(***************************************************************************)
(* What TLAPS proves of the free list, for any number of processes, slots  *)
(* and deaths: no slot is handed out twice, the chain is at every step     *)
(* exactly the slots nobody holds, and the two counters of the header lag  *)
(* behind by no more than the calls that are under way.                    *)
(***************************************************************************)
EXTENDS FreeList, FiniteSetTheorems, TLAPS

-----------------------------------------------------------------------------
(* Lemmas about chains: no state, no processes. *)

\* Sets of slots are finite, and no larger than the arena.
LEMMA SlotSets ==
  ASSUME NEW S \in SUBSET Slots
  PROVE  /\ IsFiniteSet(S)
         /\ Cardinality(S) \in 0 .. SlotCount
         /\ Cardinality(S) = 0 <=> S = {}
<1>1. IsFiniteSet(Slots) /\ Cardinality(Slots) = SlotCount
  <2>1. /\ IsFiniteSet(0 .. SlotCount - 1)
        /\ Cardinality(0 .. SlotCount - 1)
             = IF 0 > SlotCount - 1 THEN 0 ELSE (SlotCount - 1) - 0 + 1
    BY FS_Interval, ArenaAssumption
  <2> QED BY <2>1, ArenaAssumption DEF Slots
<1>2. IsFiniteSet(S) /\ Cardinality(S) <= Cardinality(Slots)
  BY <1>1, FS_Subset
<1>3. Cardinality(S) \in Nat
  BY <1>2, FS_CardinalityType
<1>4. Cardinality(S) = 0 <=> S = {}
  BY <1>2, FS_EmptySet
<1> QED BY <1>1, <1>2, <1>3, <1>4, ArenaAssumption

\* Taking the first slot off a chain leaves a chain.
LEMMA PopChain ==
  ASSUME NEW S \in SUBSET Slots, NEW link, NEW h \in S,
         NEW depth \in [Slots -> 0 .. SlotCount],
         IsChain(h, link, S, depth)
  PROVE  IsChain(link[h], link, S \ {h}, depth) /\ link[h] \in Links
<1> DEFINE T == S \ {h}
<1>0. h \in Slots /\ h # ListEnd
  BY ArenaAssumption
<1>1. Cardinality(S) \in Nat /\ Cardinality(T) = Cardinality(S) - 1
  BY SlotSets, FS_RemoveElement, FS_CardinalityType
<1>2. depth[h] = Cardinality(S)
  BY <1>0 DEF IsChain
<1>3. \A s \in T : depth[s] \in 1 .. Cardinality(T)
  BY <1>1, <1>2 DEF IsChain
<1>4. \A s \in T : depth[s] # 1 => link[s] \in T /\ depth[link[s]] = depth[s] - 1
  BY <1>1, <1>2, <1>3 DEF IsChain
<1>5. ASSUME link[h] = ListEnd
      PROVE  T = {}
  <2>1. depth[h] = 1
    BY <1>5, ArenaAssumption DEF IsChain
  <2>2. Cardinality(T) = 0
    BY <2>1, <1>1, <1>2
  <2> QED BY <2>2, SlotSets
<1>6. ASSUME link[h] # ListEnd
      PROVE  link[h] \in T /\ depth[link[h]] = Cardinality(T)
  <2>1. depth[h] # 1
    BY <1>6 DEF IsChain
  <2>2. link[h] \in S /\ depth[link[h]] = depth[h] - 1
    BY <2>1 DEF IsChain
  <2> QED BY <2>2, <1>1, <1>2
<1>7. IsChain(link[h], link, T, depth)
  BY <1>3, <1>4, <1>5, <1>6 DEF IsChain
<1> QED BY <1>6, <1>7 DEF Links

\* A slot linked to the head of a chain makes a longer chain.
LEMMA PushChain ==
  ASSUME NEW S \in SUBSET Slots, NEW link, NEW h, NEW t \in Slots \ S,
         NEW depth \in [Slots -> 0 .. SlotCount],
         IsChain(h, link, S, depth), link[t] = h
  PROVE  \E d \in [Slots -> 0 .. SlotCount] : IsChain(t, link, S \cup {t}, d)
<1> DEFINE T == S \cup {t}
           d == [depth EXCEPT ![t] = Cardinality(T)]
<1>0. t # ListEnd
  BY ArenaAssumption
<1>1. /\ Cardinality(S) \in Nat
      /\ Cardinality(T) = Cardinality(S) + 1
      /\ Cardinality(T) \in 0 .. SlotCount
      /\ Cardinality(S) = 0 <=> S = {}
  <2>1. T \in SUBSET Slots
    OBVIOUS
  <2> QED BY <2>1, SlotSets, FS_AddElement
<1>2. d \in [Slots -> 0 .. SlotCount]
  BY <1>1
<1>3. d[t] = Cardinality(T) /\ \A s \in S : d[s] = depth[s]
  OBVIOUS
<1> HIDE DEF d
<1>4. \A s \in S : depth[s] \in 1 .. Cardinality(S)
  BY DEF IsChain
<1>5. \A s \in T : d[s] \in 1 .. Cardinality(T)
  BY <1>1, <1>3, <1>4
<1>6. \A s, u \in T : d[s] = d[u] => s = u
  BY <1>1, <1>3, <1>4 DEF IsChain
<1>7. \A s \in S : /\ d[s] = 1 => link[s] = ListEnd
                   /\ d[s] # 1 => link[s] \in S /\ d[link[s]] = d[s] - 1
  BY <1>3 DEF IsChain
<1>8. /\ d[t] = 1 => link[t] = ListEnd
      /\ d[t] # 1 => link[t] \in S /\ d[link[t]] = d[t] - 1
  BY <1>1, <1>3 DEF IsChain
<1>9. IsChain(t, link, T, d)
  BY <1>0, <1>3, <1>5, <1>6, <1>7, <1>8 DEF IsChain
<1> QED BY <1>2, <1>9

\* A write outside the chain does not change it.
LEMMA WriteOffChain ==
  ASSUME NEW S \in SUBSET Slots, NEW W, NEW link \in [Slots -> W], NEW h,
         NEW t \in Slots \ S, NEW w, NEW depth,
         IsChain(h, link, S, depth)
  PROVE  IsChain(h, [link EXCEPT ![t] = w], S, depth)
BY DEF IsChain
-----------------------------------------------------------------------------
(* The inductive invariant. *)

\* What the proof carries: the windows are what makes a step of a CAS safe.
IInv == TypeOK /\ Exclusive /\ ChainIsAvail /\ Window

\* init_header() leaves a segment that has the invariant.
LEMMA InitInv == Init => IInv
<1> SUFFICES ASSUME Init PROVE IInv
  OBVIOUS
<1>1. TypeOK
  BY ArenaAssumption DEF Init, TypeOK, Heads, NoHead, Links, Slots, Holders, Holding
<1>2. Holders = {}
  BY DEF Init, Holders, Holding
<1>3. Exclusive
  BY <1>2 DEF Init, Exclusive
<1>4. Avail = Slots
  BY <1>2 DEF Init, Avail
<1>5. ChainIsAvail
  <2> DEFINE d == [s \in Slots |-> SlotCount - s]
  <2>1. Cardinality(Slots) = SlotCount
    <3>1. Cardinality(0 .. SlotCount - 1)
            = IF 0 > SlotCount - 1 THEN 0 ELSE (SlotCount - 1) - 0 + 1
      BY FS_Interval, ArenaAssumption
    <3> QED BY <3>1, ArenaAssumption DEF Slots
  <2>2. d \in [Slots -> 0 .. SlotCount]
    BY ArenaAssumption DEF Slots
  <2>3. \A s \in Slots : s \in 0 .. SlotCount - 1 /\ d[s] = SlotCount - s
    BY ArenaAssumption DEF Slots
  <2> HIDE DEF d
  <2>4. /\ head.idx = ListEnd => Slots = {}
        /\ head.idx # ListEnd => head.idx \in Slots /\ d[head.idx] = SlotCount
    BY <2>3, ArenaAssumption DEF Init, Slots
  <2>5. \A s \in Slots :
          /\ d[s] \in 1 .. SlotCount
          /\ d[s] = 1 => node[s] = ListEnd
          /\ d[s] # 1 => node[s] \in Slots /\ d[node[s]] = d[s] - 1
    <3> TAKE s \in Slots
    <3>1. s \in 0 .. SlotCount - 1 /\ d[s] = SlotCount - s /\ SlotCount \in Nat
      BY <2>3, ArenaAssumption
    <3>2. node = [t \in Slots |-> IF t + 1 < SlotCount THEN t + 1 ELSE ListEnd]
      BY DEF Init
    <3>3. CASE s + 1 < SlotCount
      <4>1. node[s] = s + 1 /\ s + 1 \in Slots
        BY <3>1, <3>2, <3>3 DEF Slots
      <4> QED BY <2>3, <3>1, <3>3, <4>1
    <3>4. CASE ~(s + 1 < SlotCount)
      <4>1. node[s] = ListEnd
        BY <3>2, <3>4
      <4> QED BY <3>1, <3>4, <4>1
    <3> QED BY <3>3, <3>4
  <2>6. \A s, t \in Slots : d[s] = d[t] => s = t
    BY <2>3, ArenaAssumption
  <2>7. IsChain(head.idx, node, Slots, d)
    BY <2>1, <2>4, <2>5, <2>6 DEF IsChain
  <2> QED BY <1>4, <2>2, <2>7 DEF ChainIsAvail
<1>6. Window
  BY DEF Init, Window, WindowOf, InWindow
<1> QED BY <1>1, <1>3, <1>5, <1>6 DEF IInv

-----------------------------------------------------------------------------
(* One lemma per action: each keeps the invariant. *)

\* Steps that change no slot's owner, no link and not the head.
LEMMA SameOwners ==
  ASSUME IInv, Holders' = Holders, cur' = cur, inUse' = inUse, lost' = lost,
         UNCHANGED <<head, node>>
  PROVE  Exclusive' /\ ChainIsAvail'
<1>1. Avail' = Avail
  BY DEF Avail
<1>2. ChainIsAvail'
  BY <1>1 DEF IInv, ChainIsAvail
<1> QED BY <1>2 DEF IInv, Exclusive

\* alloc_slot()'s load of the head.
LEMMA AllocLoadInv == ASSUME IInv, NEW p \in Procs, AllocLoad(p) PROVE IInv'
<1> USE DEF AllocLoad, Goto, TakeHead
<1>1. TypeOK'
  BY ArenaAssumption DEF IInv, Window, WindowOf, InWindow, TypeOK, Heads, Links, Holders, Holding, shared, locals, NoHead
<1>2. Holders' = Holders /\ cur' = cur /\ inUse' = inUse /\ lost' = lost
  BY DEF IInv, TypeOK, Holders, Holding, shared, locals
<1>3. Exclusive' /\ ChainIsAvail'
  BY <1>2, SameOwners DEF shared
<1>4. Window'
  BY ArenaAssumption DEF IInv, Window, WindowOf, InWindow, TypeOK, Heads, Links, Holders, Holding, shared, locals
<1> QED BY <1>1, <1>3, <1>4 DEF IInv

\* alloc_slot()'s return on an empty list.
LEMMA AllocRefusedInv == ASSUME IInv, NEW p \in Procs, AllocRefused(p) PROVE IInv'
<1> USE DEF AllocRefused, Goto
<1>1. TypeOK'
  BY ArenaAssumption DEF IInv, Window, WindowOf, InWindow, TypeOK, Heads, Links, Holders, Holding, shared, locals, NoHead
<1>2. Holders' = Holders /\ cur' = cur /\ inUse' = inUse /\ lost' = lost
  BY DEF IInv, TypeOK, Holders, Holding, shared, locals
<1>3. Exclusive' /\ ChainIsAvail'
  BY <1>2, SameOwners DEF shared
<1>4. Window'
  BY ArenaAssumption DEF IInv, Window, WindowOf, InWindow, TypeOK, Heads, Links, Holders, Holding, shared, locals
<1> QED BY <1>1, <1>3, <1>4 DEF IInv

\* alloc_slot()'s read of the link of the slot it hopes to get.
LEMMA AllocReadInv == ASSUME IInv, NEW p \in Procs, AllocRead(p) PROVE IInv'
<1> USE DEF AllocRead, Goto
<1>1. TypeOK'
  BY ArenaAssumption DEF IInv, Window, WindowOf, InWindow, TypeOK, Heads, Links, Holders, Holding, shared, locals, NoHead
<1>2. Holders' = Holders /\ cur' = cur /\ inUse' = inUse /\ lost' = lost
  BY DEF IInv, TypeOK, Holders, Holding, shared, locals
<1>3. Exclusive' /\ ChainIsAvail'
  BY <1>2, SameOwners DEF shared
<1>4. Window'
  BY ArenaAssumption DEF IInv, Window, WindowOf, InWindow, TypeOK, Heads, Links, Holders, Holding, shared, locals
<1> QED BY <1>1, <1>3, <1>4 DEF IInv

\* alloc_slot()'s CAS when it fails.
LEMMA AllocRetryInv == ASSUME IInv, NEW p \in Procs, AllocRetry(p) PROVE IInv'
<1> USE DEF AllocRetry, Goto, TakeHead
<1>1. TypeOK'
  BY ArenaAssumption DEF IInv, Window, WindowOf, InWindow, TypeOK, Heads, Links, Holders, Holding, shared, locals, NoHead
<1>2. Holders' = Holders /\ cur' = cur /\ inUse' = inUse /\ lost' = lost
  BY DEF IInv, TypeOK, Holders, Holding, shared, locals
<1>3. Exclusive' /\ ChainIsAvail'
  BY <1>2, SameOwners DEF shared
<1>4. Window'
  BY ArenaAssumption DEF IInv, Window, WindowOf, InWindow, TypeOK, Heads, Links, Holders, Holding, shared, locals
<1> QED BY <1>1, <1>3, <1>4 DEF IInv

\* note_alloc()'s count.
LEMMA NoteUsedInv == ASSUME IInv, NEW p \in Procs, NoteUsed(p) PROVE IInv'
<1> USE DEF NoteUsed, Goto
<1>1. TypeOK'
  BY ArenaAssumption DEF IInv, Window, WindowOf, InWindow, TypeOK, Heads, Links, Holders, Holding, shared, locals, NoHead
<1>2. Holders' = Holders /\ cur' = cur /\ inUse' = inUse /\ lost' = lost
  BY DEF IInv, TypeOK, Holders, Holding, shared, locals
<1>3. Exclusive' /\ ChainIsAvail'
  BY <1>2, SameOwners DEF shared
<1>4. Window'
  BY ArenaAssumption DEF IInv, Window, WindowOf, InWindow, TypeOK, Heads, Links, Holders, Holding, shared, locals
<1> QED BY <1>1, <1>3, <1>4 DEF IInv

\* note_alloc()'s load of the high-water mark.
LEMMA HwLoadInv == ASSUME IInv, NEW p \in Procs, HwLoad(p) PROVE IInv'
<1> USE DEF HwLoad, Goto
<1>1. TypeOK'
  BY ArenaAssumption DEF IInv, Window, WindowOf, InWindow, TypeOK, Heads, Links, Holders, Holding, shared, locals, NoHead
<1>2. Holders' = Holders /\ cur' = cur /\ inUse' = inUse /\ lost' = lost
  BY DEF IInv, TypeOK, Holders, Holding, shared, locals
<1>3. Exclusive' /\ ChainIsAvail'
  BY <1>2, SameOwners DEF shared
<1>4. Window'
  BY ArenaAssumption DEF IInv, Window, WindowOf, InWindow, TypeOK, Heads, Links, Holders, Holding, shared, locals
<1> QED BY <1>1, <1>3, <1>4 DEF IInv

\* note_alloc()'s CAS when it fails.
LEMMA HwRetryInv == ASSUME IInv, NEW p \in Procs, HwRetry(p) PROVE IInv'
<1> USE DEF HwRetry, Goto
<1>1. TypeOK'
  BY ArenaAssumption DEF IInv, Window, WindowOf, InWindow, TypeOK, Heads, Links, Holders, Holding, shared, locals, NoHead
<1>2. Holders' = Holders /\ cur' = cur /\ inUse' = inUse /\ lost' = lost
  BY DEF IInv, TypeOK, Holders, Holding, shared, locals
<1>3. Exclusive' /\ ChainIsAvail'
  BY <1>2, SameOwners DEF shared
<1>4. Window'
  BY ArenaAssumption DEF IInv, Window, WindowOf, InWindow, TypeOK, Heads, Links, Holders, Holding, shared, locals
<1> QED BY <1>1, <1>3, <1>4 DEF IInv

\* free_slot()'s CAS when it fails.
LEMMA FreeRetryInv == ASSUME IInv, NEW p \in Procs, FreeRetry(p) PROVE IInv'
<1> USE DEF FreeRetry, Goto
<1>1. TypeOK'
  BY ArenaAssumption DEF IInv, Window, WindowOf, InWindow, TypeOK, Heads, Links, Holders, Holding, shared, locals, NoHead
<1>2. Holders' = Holders /\ cur' = cur /\ inUse' = inUse /\ lost' = lost
  BY DEF IInv, TypeOK, Holders, Holding, shared, locals
<1>3. Exclusive' /\ ChainIsAvail'
  BY <1>2, SameOwners DEF shared
<1>4. Window'
  BY ArenaAssumption DEF IInv, Window, WindowOf, InWindow, TypeOK, Heads, Links, Holders, Holding, shared, locals
<1> QED BY <1>1, <1>3, <1>4 DEF IInv

\* free_slot()'s count.
LEMMA FreeCountInv == ASSUME IInv, NEW p \in Procs, FreeCount(p) PROVE IInv'
<1> USE DEF FreeCount, Goto
<1>1. TypeOK'
  BY ArenaAssumption DEF IInv, Window, WindowOf, InWindow, TypeOK, Heads, Links, Holders, Holding, shared, locals, NoHead
<1>2. Holders' = Holders /\ cur' = cur /\ inUse' = inUse /\ lost' = lost
  BY DEF IInv, TypeOK, Holders, Holding, shared, locals
<1>3. Exclusive' /\ ChainIsAvail'
  BY <1>2, SameOwners DEF shared
<1>4. Window'
  BY ArenaAssumption DEF IInv, Window, WindowOf, InWindow, TypeOK, Heads, Links, Holders, Holding, shared, locals
<1> QED BY <1>1, <1>3, <1>4 DEF IInv

\* The supervisor's restart.
LEMMA RestartInv == ASSUME IInv, NEW p \in Procs, Restart(p) PROVE IInv'
<1> USE DEF Restart, Goto
<1>1. TypeOK'
  BY ArenaAssumption DEF IInv, Window, WindowOf, InWindow, TypeOK, Heads, Links, Holders, Holding, shared, locals, NoHead
<1>2. Holders' = Holders /\ cur' = cur /\ inUse' = inUse /\ lost' = lost
  BY DEF IInv, TypeOK, Holders, Holding, shared, locals
<1>3. Exclusive' /\ ChainIsAvail'
  BY <1>2, SameOwners DEF shared
<1>4. Window'
  BY ArenaAssumption DEF IInv, Window, WindowOf, InWindow, TypeOK, Heads, Links, Holders, Holding, shared, locals
<1> QED BY <1>1, <1>3, <1>4 DEF IInv


\* Steps in which a slot changes hands, and the head and the links stay.

\* note_alloc() raises the mark and the slot is the client's.
LEMMA HwRaiseInv == ASSUME IInv, NEW p \in Procs, HwRaise(p) PROVE IInv'
<1> USE DEF HwRaise, HandOver, Goto
<1>1. TypeOK'
  BY ArenaAssumption DEF IInv, TypeOK, Heads, Links, Holders, Holding, shared
<1>2. /\ Holders' = Holders \ {p} /\ p \in Holders
      /\ inUse' = inUse \cup {cur[p]} /\ lost' = lost
      /\ \A q \in Holders' : cur'[q] = cur[q]
  BY DEF IInv, TypeOK, Holders, Holding
<1>3. Exclusive'
  BY <1>2 DEF IInv, Exclusive
<1>4. Avail' = Avail
  BY <1>2 DEF Avail
<1>5. ChainIsAvail'
  BY <1>4 DEF IInv, ChainIsAvail, shared
<1>6. Window'
  BY ArenaAssumption DEF IInv, Window, WindowOf, InWindow, TypeOK, Heads, Links, Holders, Holding, shared
<1> QED BY <1>1, <1>3, <1>5, <1>6 DEF IInv

\* note_alloc() has no mark to raise and the slot is the client's.
LEMMA HwEnoughInv == ASSUME IInv, NEW p \in Procs, HwEnough(p) PROVE IInv'
<1> USE DEF HwEnough, HandOver, Goto
<1>1. TypeOK'
  BY ArenaAssumption DEF IInv, TypeOK, Heads, Links, Holders, Holding, shared
<1>2. /\ Holders' = Holders \ {p} /\ p \in Holders
      /\ inUse' = inUse \cup {cur[p]} /\ lost' = lost
      /\ \A q \in Holders' : cur'[q] = cur[q]
  BY DEF IInv, TypeOK, Holders, Holding
<1>3. Exclusive'
  BY <1>2 DEF IInv, Exclusive
<1>4. Avail' = Avail
  BY <1>2 DEF Avail
<1>5. ChainIsAvail'
  BY <1>4 DEF IInv, ChainIsAvail, shared
<1>6. Window'
  BY ArenaAssumption DEF IInv, Window, WindowOf, InWindow, TypeOK, Heads, Links, Holders, Holding, shared
<1> QED BY <1>1, <1>3, <1>5, <1>6 DEF IInv

\* free_slot() is called for a client's slot and loads the head.
LEMMA FreeLoadInv == ASSUME IInv, NEW p \in Procs, FreeLoad(p) PROVE IInv'
<1> USE DEF FreeLoad, Goto
<1>1. TypeOK'
  BY ArenaAssumption DEF IInv, TypeOK, Heads, Links, Holders, Holding, shared
<1>2. PICK s \in inUse : /\ inUse' = inUse \ {s}
                         /\ cur' = [cur EXCEPT ![p] = s]
  OBVIOUS
<1>3. /\ Holders' = Holders \cup {p} /\ p \notin Holders /\ lost' = lost
      /\ cur'[p] = s /\ \A q \in Holders : cur'[q] = cur[q]
  BY <1>2 DEF IInv, TypeOK, Holders, Holding
<1>4. Exclusive'
  BY <1>2, <1>3 DEF IInv, Exclusive
<1>5. Avail' = Avail
  BY <1>2, <1>3 DEF Avail
<1>6. ChainIsAvail'
  BY <1>5 DEF IInv, ChainIsAvail, shared
<1>7. Window'
  BY <1>2 DEF IInv, Window, WindowOf, InWindow, TypeOK, Heads, Links, Holders, Holding, shared
<1> QED BY <1>1, <1>4, <1>6, <1>7 DEF IInv

\* A process dies with what it has in hand.
LEMMA CrashInv == ASSUME IInv, NEW p \in Procs, Crash(p) PROVE IInv'
<1> USE DEF Crash, Goto
<1>1. TypeOK'
  BY ArenaAssumption DEF IInv, TypeOK, Heads, Links, Holders, Holding, NoHead, shared
<1>2. /\ Holders' = Holders \ {p} /\ inUse' = inUse
      /\ \A q \in Holders' : cur'[q] = cur[q]
      /\ lost' = lost \cup {cur[q] : q \in Holders \cap {p}}
  BY DEF IInv, TypeOK, Holders, Holding
<1>3. Exclusive'
  BY <1>2 DEF IInv, Exclusive
<1>4. Avail' = Avail
  BY <1>2 DEF Avail
<1>5. ChainIsAvail'
  BY <1>4 DEF IInv, ChainIsAvail, shared
<1>6. Window'
  BY ArenaAssumption DEF IInv, Window, WindowOf, InWindow, TypeOK, Heads, Links, Holders, Holding, shared
<1> QED BY <1>1, <1>3, <1>5, <1>6 DEF IInv

\* Writes into slots that are on no chain.
LEMMA WriteKeepsChain ==
  ASSUME IInv, NEW s \in Slots \ Avail, NEW w, node' = [node EXCEPT ![s] = w],
         head' = head, Avail' = Avail
  PROVE  ChainIsAvail'
<1>1. PICK depth \in [Slots -> 0 .. SlotCount] : IsChain(head.idx, node, Avail, depth)
  BY DEF IInv, ChainIsAvail
<1>2. Avail \in SUBSET Slots /\ node \in [Slots -> Links \cup Payloads]
  BY DEF Avail, IInv, TypeOK
<1>3. IsChain(head.idx, node', Avail, depth)
  BY <1>1, <1>2, WriteOffChain
<1> QED BY <1>3 DEF ChainIsAvail

\* The first free slot is in nobody's hands.
LEMMA HeadIsFree == ASSUME IInv, head.idx # ListEnd PROVE head.idx \in Avail
BY DEF IInv, ChainIsAvail, IsChain

\* free_slot() links the slot in its hand to the head it loaded.
LEMMA FreeLinkInv == ASSUME IInv, NEW p \in Procs, FreeLink(p) PROVE IInv'
<1> USE DEF FreeLink, Goto
<1>1. TypeOK'
  BY ArenaAssumption DEF IInv, TypeOK, Heads, Links, Holders, Holding, locals
<1>2. /\ Holders' = Holders /\ cur' = cur /\ inUse' = inUse /\ lost' = lost
      /\ p \in Holders /\ cur[p] \in Slots /\ head' = head
  BY DEF IInv, TypeOK, Holders, Holding, locals
<1>3. Exclusive'
  BY <1>2 DEF IInv, Exclusive
<1>4. Avail' = Avail /\ cur[p] \notin Avail
  BY <1>2 DEF Avail
<1>5. ChainIsAvail'
  BY <1>2, <1>4, WriteKeepsChain
<1>6. Window'
  <2> SUFFICES ASSUME NEW q \in Procs PROVE WindowOf(q)'
    BY DEF Window
  <2>1. /\ lag' = lag /\ next' = next /\ oldHead' = oldHead /\ pc'[p] = "fcas"
        /\ \A r \in Procs \ {p} : pc'[r] = pc[r]
        /\ node'[cur[p]] = oldHead[p].idx
        /\ \A s \in Slots \ {cur[p]} : node'[s] = node[s]
    BY <1>2 DEF IInv, TypeOK, locals
  <2>2. CASE q = p
    BY <1>2, <2>1, <2>2 DEF WindowOf, IInv, InWindow, TypeOK
  <2>3. CASE q # p
    <3>1. ASSUME pc[q] = "cas", lag[q] = 0
          PROVE  node'[oldHead[q].idx] = node[oldHead[q].idx]
      <4>1. oldHead[q].idx \in Slots /\ head = oldHead[q]
        BY <3>1 DEF IInv, Window, WindowOf, InWindow
      <4>2. oldHead[q].idx \in Avail
        BY <4>1, HeadIsFree, ArenaAssumption
      <4> QED BY <4>1, <4>2, <1>4, <2>1
    <3>2. ASSUME pc[q] = "fcas"
          PROVE  node'[cur[q]] = node[cur[q]]
      <4>1. q \in Holders /\ cur[q] \in Slots
        BY <3>2 DEF IInv, TypeOK, Holders, Holding
      <4>2. cur[q] # cur[p]
        BY <4>1, <1>2, <2>3 DEF IInv, Exclusive
      <4> QED BY <4>1, <4>2, <2>1
    <3> QED BY <1>2, <2>1, <2>3, <3>1, <3>2 DEF IInv, Window, WindowOf, InWindow
  <2> QED BY <2>2, <2>3
<1> QED BY <1>1, <1>3, <1>5, <1>6 DEF IInv

\* A client writes over the link of its own slot.
LEMMA WritePayloadInv == ASSUME IInv, WritePayload PROVE IInv'
<1>1. PICK s \in inUse, w \in Payloads : node' = [node EXCEPT ![s] = w]
  BY DEF WritePayload
<1>2. UNCHANGED <<head, used, highWater, inUse, lost, crashes, pc, oldHead, next,
                  cur, now, hw, lag>>
  BY DEF WritePayload, locals
<1>3. TypeOK'
  BY <1>1, <1>2 DEF IInv, TypeOK, Heads, Links, Holders, Holding
<1>4. Holders' = Holders
  BY <1>2 DEF Holders
<1>5. Exclusive'
  BY <1>2, <1>4 DEF IInv, Exclusive
<1>6. Avail' = Avail /\ s \in Slots \ Avail
  BY <1>2, <1>4 DEF Avail, IInv, TypeOK
<1>7. ChainIsAvail'
  BY <1>1, <1>2, <1>6, WriteKeepsChain
<1>8. Window'
  <2> SUFFICES ASSUME NEW q \in Procs PROVE WindowOf(q)'
    BY DEF Window
  <2>1. ASSUME pc[q] = "cas", lag[q] = 0
        PROVE  node'[oldHead[q].idx] = node[oldHead[q].idx]
    <3>1. oldHead[q].idx \in Slots /\ head = oldHead[q]
      BY <2>1 DEF IInv, Window, WindowOf, InWindow
    <3>2. oldHead[q].idx \in Avail
      BY <3>1, HeadIsFree, ArenaAssumption
    <3> QED BY <3>1, <3>2, <1>1, <1>6 DEF IInv, TypeOK
  <2>2. ASSUME pc[q] = "fcas"
        PROVE  node'[cur[q]] = node[cur[q]]
    <3>1. q \in Holders /\ cur[q] \in Slots
      BY <2>2 DEF IInv, TypeOK, Holders, Holding
    <3>2. cur[q] # s
      BY <3>1 DEF IInv, Exclusive
    <3> QED BY <3>1, <3>2, <1>1 DEF IInv, TypeOK
  <2> QED BY <1>2, <2>1, <2>2 DEF IInv, Window, WindowOf, InWindow
<1> QED BY <1>3, <1>5, <1>7, <1>8 DEF IInv

\* A CAS that succeeds in a window found the head it had loaded, not a look-alike.
LEMMA HeadUnmoved ==
  ASSUME IInv, NEW p \in Procs, pc[p] = "cas", head = oldHead[p]
  PROVE  /\ head.idx \in Avail
         /\ next[p] = node[head.idx]
<1>1. lag[p] = 0
  <2>1. \/ head.gen = head.gen + lag[p]
        \/ head.gen = head.gen + lag[p] - GenMod
    BY DEF IInv, Window, WindowOf, InWindow
  <2>2. lag[p] \in 0 .. GenMod - 1 /\ head.gen \in 0 .. GenMod - 1
    BY DEF IInv, TypeOK, Heads
  <2> QED BY <2>1, <2>2, ArenaAssumption
<1>2. head.idx \in Slots
  BY DEF IInv, Window, WindowOf, InWindow
<1> QED BY <1>1, <1>2, HeadIsFree, ArenaAssumption DEF IInv, Window, WindowOf, InWindow

\* The head moves: the other windows stay right because their lag grows with
\* the generation.
LEMMA MovedWindow ==
  ASSUME IInv, NEW p \in Procs, NoFullTurn(p), HeadMoved(p),
         head = oldHead[p], NEW i, head' = Bump(head, i), node' = node,
         NEW l, pc' = [pc EXCEPT ![p] = l], l \notin {"read", "cas", "fcas"},
         NEW c, cur' = [cur EXCEPT ![p] = c],
         oldHead' = [oldHead EXCEPT ![p] = NoHead],
         NEW x, next' = [next EXCEPT ![p] = x]
  PROVE  Window' /\ lag' \in [Procs -> 0 .. GenMod - 1]
<1>1. \A q \in Procs \ {p} : /\ pc'[q] = pc[q] /\ cur'[q] = cur[q]
                              /\ oldHead'[q] = oldHead[q] /\ next'[q] = next[q]
  BY DEF IInv, TypeOK
<1>2. \A q \in Procs : lag'[q] = IF q # p /\ InWindow(q) THEN lag[q] + 1 ELSE 0
  BY DEF HeadMoved
<1>3. lag' \in [Procs -> 0 .. GenMod - 1]
  BY ArenaAssumption DEF HeadMoved, NoFullTurn, IInv, TypeOK
<1>4. Window'
  <2> SUFFICES ASSUME NEW q \in Procs PROVE WindowOf(q)'
    BY DEF Window
  <2>1. CASE q = p
    BY <2>1 DEF WindowOf, IInv, TypeOK, InWindow
  <2>2. CASE q # p
    <3>1. ASSUME InWindow(q)
          PROVE  /\ lag'[q] = lag[q] + 1 /\ lag'[q] > 0
                 /\ oldHead'[q].idx \in Slots
                 /\ \/ head'.gen = oldHead'[q].gen + lag'[q]
                    \/ head'.gen = oldHead'[q].gen + lag'[q] - GenMod
      <4>1. /\ lag[q] \in 0 .. GenMod - 2 /\ lag'[q] = lag[q] + 1
            /\ oldHead[q].idx \in Slots /\ oldHead[q].gen \in 0 .. GenMod - 1
            /\ \/ head.gen = oldHead[q].gen + lag[q]
               \/ head.gen = oldHead[q].gen + lag[q] - GenMod
            /\ head.gen \in 0 .. GenMod - 1
        BY <2>2, <3>1, <1>2, ArenaAssumption
           DEF IInv, Window, WindowOf, TypeOK, Heads, NoFullTurn
      <4>2. head'.gen = IF head.gen = GenMod - 1 THEN 0 ELSE head.gen + 1
        BY DEF Bump
      <4>3. oldHead'[q] = oldHead[q]
        BY <1>1, <2>2
      <4> QED BY <4>1, <4>2, <4>3, ArenaAssumption
    <3>2. pc'[q] = pc[q] /\ InWindow(q)' = InWindow(q)
      BY <1>1, <2>2 DEF InWindow
    <3>3. pc[q] = "fcas" => node'[cur'[q]] = oldHead'[q].idx
      BY <1>1, <2>2 DEF IInv, Window, WindowOf
    <3>4. pc[q] = "cas" => InWindow(q)
      BY DEF InWindow
    <3> QED BY <3>1, <3>2, <3>3, <3>4 DEF WindowOf
  <2> QED BY <2>1, <2>2
<1> QED BY <1>3, <1>4

\* The word a CAS stores has the type of a head.
LEMMA BumpType ==
  ASSUME NEW h \in Heads, NEW i \in Links
  PROVE  Bump(h, i) \in Heads
<1>1. h.gen \in 0 .. GenMod - 1
  BY DEF Heads
<1>2. (IF h.gen = GenMod - 1 THEN 0 ELSE h.gen + 1) \in 0 .. GenMod - 1
  BY <1>1, ArenaAssumption
<1> QED BY <1>2 DEF Bump, Heads

\* The value a local has out of scope has the type of a head.
LEMMA NoHeadType == NoHead \in Heads
BY ArenaAssumption DEF NoHead, Heads, Links

\* alloc_slot() pops: the first slot leaves the chain for the caller's hand.
LEMMA AllocCasInv == ASSUME IInv, NEW p \in Procs, AllocCas(p) PROVE IInv'
<1> DEFINE s == head.idx
<1>1. s \in Avail /\ s \in Slots /\ next[p] = node[s]
  BY HeadUnmoved DEF AllocCas, Avail
<1>2. Window' /\ lag' \in [Procs -> 0 .. GenMod - 1]
  <2>1. node' = node /\ oldHead[p] = head
    BY DEF AllocCas
  <2> QED BY <2>1, MovedWindow DEF AllocCas, Goto
<1>3. PICK depth \in [Slots -> 0 .. SlotCount] : IsChain(s, node, Avail, depth)
  BY DEF IInv, ChainIsAvail
<1>4. IsChain(node[s], node, Avail \ {s}, depth) /\ node[s] \in Links
  BY <1>1, <1>3, PopChain DEF Avail
<1>5. TypeOK'
  <2>1. head' \in Heads
    BY <1>1, <1>4, BumpType DEF AllocCas, IInv, TypeOK
  <2>2. oldHead' \in [Procs -> Heads]
    BY NoHeadType DEF AllocCas, IInv, TypeOK
  <2>3. pc' \in [Procs -> Holding \cup {"idle", "refused", "read", "cas", "fcount", "dead"}]
    BY DEF AllocCas, Goto, IInv, TypeOK, Holding
  <2>4. cur' \in [Procs -> Slots \cup {None}] /\ cur'[p] \in Slots
    BY <1>1 DEF AllocCas, IInv, TypeOK
  <2>5. next' \in [Procs -> Links \cup Payloads]
    BY DEF AllocCas, IInv, TypeOK, Links
  <2>6. \A q \in Procs : cur'[q] # None <=> q \in Holders'
    BY <2>4, ArenaAssumption DEF AllocCas, Goto, IInv, TypeOK, Holders, Holding, Links
  <2> QED BY <1>2, <2>1, <2>2, <2>3, <2>4, <2>5, <2>6 DEF AllocCas, IInv, TypeOK
<1>6. /\ Holders' = Holders \cup {p} /\ p \notin Holders
      /\ inUse' = inUse /\ lost' = lost
      /\ cur'[p] = s /\ \A q \in Holders : cur'[q] = cur[q]
  BY DEF AllocCas, Goto, IInv, TypeOK, Holders, Holding
<1>7. Exclusive'
  BY <1>1, <1>6 DEF IInv, Exclusive, Avail
<1>8. Avail' = Avail \ {s}
  BY <1>6 DEF Avail
<1>9. head'.idx = node[s] /\ node' = node
  BY <1>1 DEF AllocCas, Bump
<1>10. ChainIsAvail'
  BY <1>4, <1>8, <1>9 DEF ChainIsAvail
<1> QED BY <1>2, <1>5, <1>7, <1>10 DEF IInv

\* free_slot() pushes: the slot in hand becomes the first of the chain.
LEMMA FreeCasInv == ASSUME IInv, NEW p \in Procs, FreeCas(p) PROVE IInv'
<1> DEFINE s == cur[p]
<1>1. p \in Holders /\ s \in Slots \ Avail /\ node[s] = head.idx
  BY DEF FreeCas, IInv, TypeOK, Window, WindowOf, Holders, Holding, Avail
<1>2. Window' /\ lag' \in [Procs -> 0 .. GenMod - 1]
  <2>1. node' = node /\ oldHead[p] = head /\ next' = [next EXCEPT ![p] = next[p]]
    BY DEF FreeCas, IInv, TypeOK
  <2> QED BY <2>1, MovedWindow DEF FreeCas, Goto
<1>3. PICK depth \in [Slots -> 0 .. SlotCount] : IsChain(head.idx, node, Avail, depth)
  BY DEF IInv, ChainIsAvail
<1>4. \E d \in [Slots -> 0 .. SlotCount] : IsChain(s, node, Avail \cup {s}, d)
  BY <1>1, <1>3, PushChain DEF Avail
<1>5. TypeOK'
  <2>1. head' \in Heads
    BY <1>1, BumpType DEF FreeCas, IInv, TypeOK, Links
  <2> QED BY <1>1, <1>2, <2>1, NoHeadType DEF FreeCas, Goto, IInv, TypeOK,
             Holders, Holding
<1>6. /\ Holders' = Holders \ {p}
      /\ inUse' = inUse /\ lost' = lost
      /\ \A q \in Holders' : cur'[q] = cur[q]
  BY DEF FreeCas, Goto, IInv, TypeOK, Holders, Holding
<1>7. Exclusive'
  BY <1>6 DEF IInv, Exclusive
<1>8. Avail' = Avail \cup {s}
  BY <1>1, <1>6 DEF Avail, IInv, Exclusive
<1>9. head'.idx = s /\ node' = node
  BY DEF FreeCas, Bump
<1>10. ChainIsAvail'
  BY <1>4, <1>8, <1>9 DEF ChainIsAvail
<1> QED BY <1>2, <1>5, <1>7, <1>10 DEF IInv

-----------------------------------------------------------------------------
(* The theorems. *)

\* Every step keeps the invariant.
LEMMA NextInv == IInv /\ [Next]_vars => IInv'
<1> SUFFICES ASSUME IInv, [Next]_vars PROVE IInv'
  OBVIOUS
<1>1. ASSUME NEW p \in Procs, AllocLoad(p) PROVE IInv'
  BY <1>1, AllocLoadInv
<1>2. ASSUME NEW p \in Procs, AllocRefused(p) PROVE IInv'
  BY <1>2, AllocRefusedInv
<1>3. ASSUME NEW p \in Procs, AllocRead(p) PROVE IInv'
  BY <1>3, AllocReadInv
<1>4. ASSUME NEW p \in Procs, AllocCas(p) PROVE IInv'
  BY <1>4, AllocCasInv
<1>5. ASSUME NEW p \in Procs, AllocRetry(p) PROVE IInv'
  BY <1>5, AllocRetryInv
<1>6. ASSUME NEW p \in Procs, NoteUsed(p) PROVE IInv'
  BY <1>6, NoteUsedInv
<1>7. ASSUME NEW p \in Procs, HwLoad(p) PROVE IInv'
  BY <1>7, HwLoadInv
<1>8. ASSUME NEW p \in Procs, HwRaise(p) PROVE IInv'
  BY <1>8, HwRaiseInv
<1>9. ASSUME NEW p \in Procs, HwRetry(p) PROVE IInv'
  BY <1>9, HwRetryInv
<1>10. ASSUME NEW p \in Procs, HwEnough(p) PROVE IInv'
  BY <1>10, HwEnoughInv
<1>11. ASSUME NEW p \in Procs, FreeLoad(p) PROVE IInv'
  BY <1>11, FreeLoadInv
<1>12. ASSUME NEW p \in Procs, FreeLink(p) PROVE IInv'
  BY <1>12, FreeLinkInv
<1>13. ASSUME NEW p \in Procs, FreeCas(p) PROVE IInv'
  BY <1>13, FreeCasInv
<1>14. ASSUME NEW p \in Procs, FreeRetry(p) PROVE IInv'
  BY <1>14, FreeRetryInv
<1>15. ASSUME NEW p \in Procs, FreeCount(p) PROVE IInv'
  BY <1>15, FreeCountInv
<1>16. ASSUME NEW p \in Procs, Crash(p) PROVE IInv'
  BY <1>16, CrashInv
<1>17. ASSUME NEW p \in Procs, Restart(p) PROVE IInv'
  BY <1>17, RestartInv
<1>18. CASE WritePayload
  BY <1>18, WritePayloadInv
<1>19. CASE UNCHANGED vars
  <2>1. Holders' = Holders
    BY <1>19 DEF vars, Holders
  <2>2. Exclusive' /\ ChainIsAvail'
    BY <1>19, <2>1, SameOwners DEF vars
  <2>3. TypeOK' /\ Window'
    BY <1>19, <2>1 DEF vars, IInv, TypeOK, Window, WindowOf, InWindow
  <2> QED BY <2>2, <2>3 DEF IInv
<1> QED BY <1>1, <1>2, <1>3, <1>4, <1>5, <1>6, <1>7, <1>8, <1>9, <1>10, <1>11, <1>12, <1>13, <1>14, <1>15, <1>16, <1>17, <1>18, <1>19
        DEF Next, Alloc, NoteAlloc, Free

\* The invariant holds in every state of every behaviour.
LEMMA SpecInv == Spec => []IInv
BY InitInv, NextInv, PTL DEF Spec

\* Every local and every shared word keeps its type; in particular a word of
\* payload never becomes the head of the list.
THEOREM TypeCorrect == Spec => []TypeOK
BY SpecInv, PTL DEF IInv

\* alloc_slot() never hands out a slot that a call, a client or a dead process
\* holds.
THEOREM NoDoubleAllocation == Spec => []Exclusive
BY SpecInv, PTL DEF IInv

\* The free list is intact at every step: it holds the slots nobody holds, each
\* once.
THEOREM FreeListIntact == Spec => []ChainIsAvail
BY SpecInv, PTL DEF IInv

\* What a call remembers between its load of the head and its CAS is still good
\* whenever that CAS can succeed.
THEOREM WindowsSafe == Spec => []Window
BY SpecInv, PTL DEF IInv
-----------------------------------------------------------------------------
(* The counters: used_slots against what is out, and the high-water mark     *)
(* against used_slots.  Neither is written in the same access as what it     *)
(* counts, so each invariant speaks of the calls that are under way.         *)

\* The mark note_alloc() loaded is not above the mark there is: it only grows.
MarkLoaded == \A p \in Procs : pc[p] = "hwcas" => hw[p] <= highWater

CountInv == UsedCounts /\ MarkLoaded /\ HighWaterNotBehind

\* The calls that count and the slots in use are finitely many.
LEMMA FiniteCounts ==
  ASSUME TypeOK
  PROVE  /\ IsFiniteSet(Counted) /\ Cardinality(Counted) \in Nat
         /\ IsFiniteSet(inUse) /\ Cardinality(inUse) \in Nat
         /\ used \in Int /\ crashes \in Nat
<1>1. IsFiniteSet(Counted)
  <2>1. Counted \subseteq Procs
    BY DEF Counted
  <2> QED BY <2>1, FS_Subset, ArenaAssumption
<1>2. IsFiniteSet(inUse)
  BY SlotSets DEF TypeOK
<1>3. used \in Int /\ crashes \in Nat
  BY ArenaAssumption DEF TypeOK
<1> QED BY <1>1, <1>2, <1>3, FS_CardinalityType

\* Nothing is counted when the segment is new.
LEMMA InitCount == Init => CountInv
<1> SUFFICES ASSUME Init PROVE CountInv
  OBVIOUS
<1>1. Counted = {} /\ inUse = {} /\ used = 0 /\ crashes = 0 /\ highWater = 0
  BY DEF Init, Counted
<1>2. Cardinality({}) = 0
  BY FS_EmptySet
<1>3. UsedCounts
  BY <1>1, <1>2 DEF UsedCounts
<1>4. MarkLoaded /\ HighWaterNotBehind
  BY <1>1 DEF Init, MarkLoaded, HighWaterNotBehind
<1> QED BY <1>3, <1>4 DEF CountInv

\* Steps that count nothing and move no slot.
LEMMA SameCount ==
  ASSUME UsedCounts, Counted' = Counted, used' = used, inUse' = inUse,
         crashes' = crashes
  PROVE  UsedCounts'
BY DEF UsedCounts

\* Steps outside note_alloc() that leave both counters, or lower used_slots.
LEMMA SameMark ==
  ASSUME TypeOK, MarkLoaded, HighWaterNotBehind, NEW p \in Procs,
         pc[p] \notin {"hwload", "hwcas"},
         NEW l, l \notin {"hwload", "hwcas"}, pc' = [pc EXCEPT ![p] = l],
         used' \in {used, used - 1}, highWater' = highWater,
         now' = now, hw' = hw, crashes' = crashes
  PROVE  MarkLoaded' /\ HighWaterNotBehind'
<1>1. \A q \in Procs : pc'[q] = IF q = p THEN l ELSE pc[q]
  BY DEF TypeOK
<1>2. used \in Int /\ highWater \in Int /\ \A q \in Procs : now[q] \in Int
  BY DEF TypeOK
<1>3. MarkLoaded'
  BY <1>1 DEF MarkLoaded
<1>4. HighWaterNotBehind'
  <2>1. CASE crashes > 0
    BY <2>1 DEF HighWaterNotBehind
  <2>2. CASE used <= highWater
    BY <2>2, <1>2 DEF HighWaterNotBehind
  <2>3. ASSUME NEW q \in Procs, pc[q] \in {"hwload", "hwcas"}, now[q] >= used
        PROVE  HighWaterNotBehind'
    <3>1. pc'[q] \in {"hwload", "hwcas"}
      BY <2>3, <1>1
    <3>2. now'[q] >= used'
      BY <2>3, <1>2
    <3> QED BY <3>1, <3>2 DEF HighWaterNotBehind
  <2> QED BY <2>1, <2>2, <2>3 DEF HighWaterNotBehind
<1> QED BY <1>3, <1>4

\* The steps of alloc_slot() count nothing, and neither do the links and the
\* retries of free_slot() or a restart.
LEMMA QuietCount ==
  ASSUME TypeOK, CountInv, NEW p \in Procs,
         \/ AllocLoad(p) \/ AllocRefused(p) \/ AllocRead(p) \/ AllocCas(p)
         \/ AllocRetry(p) \/ FreeLink(p) \/ FreeCas(p) \/ FreeRetry(p) \/ Restart(p)
  PROVE  CountInv'
<1>1. /\ used' = used /\ highWater' = highWater /\ inUse' = inUse
      /\ crashes' = crashes /\ now' = now /\ hw' = hw
  BY DEF AllocLoad, AllocRefused, AllocRead, AllocCas, AllocRetry, FreeLink,
         FreeCas, FreeRetry, Restart, shared, locals
<1>2. PICK l : /\ pc' = [pc EXCEPT ![p] = l]
               /\ l \notin {"hwload", "hwcas"} /\ pc[p] \notin {"hwload", "hwcas"}
               /\ l \in {"flink", "fcas", "fcount"} <=> pc[p] \in {"flink", "fcas", "fcount"}
  <2>1. CASE AllocLoad(p) \/ AllocRetry(p)
    <3>1. PICK l \in {"refused", "read"} : pc' = [pc EXCEPT ![p] = l]
      BY <2>1 DEF AllocLoad, AllocRetry, TakeHead, Goto
    <3>2. pc[p] \in {"idle", "cas"}
      BY <2>1 DEF AllocLoad, AllocRetry
    <3> QED BY <3>1, <3>2
  <2>2. CASE AllocRefused(p)
    <3>1. PICK l \in {"idle"} : pc' = [pc EXCEPT ![p] = l]
      BY <2>2 DEF AllocRefused, Goto
    <3>2. pc[p] = "refused"
      BY <2>2 DEF AllocRefused
    <3> QED BY <3>1, <3>2
  <2>3. CASE AllocRead(p)
    <3>1. PICK l \in {"cas"} : pc' = [pc EXCEPT ![p] = l]
      BY <2>3 DEF AllocRead, Goto
    <3>2. pc[p] = "read"
      BY <2>3 DEF AllocRead
    <3> QED BY <3>1, <3>2
  <2>4. CASE AllocCas(p)
    <3>1. PICK l \in {"note"} : pc' = [pc EXCEPT ![p] = l]
      BY <2>4 DEF AllocCas, Goto
    <3>2. pc[p] = "cas"
      BY <2>4 DEF AllocCas
    <3> QED BY <3>1, <3>2
  <2>5. CASE FreeLink(p)
    <3>1. PICK l \in {"fcas"} : pc' = [pc EXCEPT ![p] = l]
      BY <2>5 DEF FreeLink, Goto
    <3>2. pc[p] = "flink"
      BY <2>5 DEF FreeLink
    <3> QED BY <3>1, <3>2
  <2>6. CASE FreeCas(p)
    <3>1. PICK l \in {"fcount"} : pc' = [pc EXCEPT ![p] = l]
      BY <2>6 DEF FreeCas, Goto
    <3>2. pc[p] = "fcas"
      BY <2>6 DEF FreeCas
    <3> QED BY <3>1, <3>2
  <2>7. CASE FreeRetry(p)
    <3>1. PICK l \in {"flink"} : pc' = [pc EXCEPT ![p] = l]
      BY <2>7 DEF FreeRetry, Goto
    <3>2. pc[p] = "fcas"
      BY <2>7 DEF FreeRetry
    <3> QED BY <3>1, <3>2
  <2>8. CASE Restart(p)
    <3>1. PICK l \in {"idle"} : pc' = [pc EXCEPT ![p] = l]
      BY <2>8 DEF Restart, Goto
    <3>2. pc[p] = "dead"
      BY <2>8 DEF Restart
    <3> QED BY <3>1, <3>2
  <2> QED BY <2>1, <2>2, <2>3, <2>4, <2>5, <2>6, <2>7, <2>8
<1>3. Counted' = Counted
  BY <1>2 DEF Counted, TypeOK
<1>4. UsedCounts'
  BY <1>1, <1>3, SameCount DEF CountInv
<1>5. MarkLoaded' /\ HighWaterNotBehind'
  BY <1>1, <1>2, SameMark DEF CountInv
<1> QED BY <1>4, <1>5 DEF CountInv

\* note_alloc() counts: the call is one more, and so is used_slots.
LEMMA NoteUsedCount ==
  ASSUME TypeOK, CountInv, NEW p \in Procs, NoteUsed(p)
  PROVE  CountInv'
<1>1. /\ used' = used + 1 /\ highWater' = highWater /\ inUse' = inUse
      /\ crashes' = crashes /\ hw' = hw /\ now'[p] = used' /\ pc'[p] = "hwload"
      /\ \A q \in Procs \ {p} : pc'[q] = pc[q]
  BY DEF NoteUsed, Goto, TypeOK
<1>2. Counted' = Counted \cup {p} /\ p \notin Counted
  BY <1>1 DEF Counted, NoteUsed
<1>3. Cardinality(Counted') = Cardinality(Counted) + 1
  BY <1>2, FiniteCounts, FS_AddElement
<1>4. UsedCounts'
  BY <1>1, <1>3, FiniteCounts DEF UsedCounts, CountInv
<1>5. MarkLoaded'
  BY <1>1 DEF MarkLoaded, CountInv
<1>6. now'[p] >= used'
  BY <1>1, FiniteCounts
<1>7. HighWaterNotBehind'
  BY <1>1, <1>6 DEF HighWaterNotBehind
<1> QED BY <1>4, <1>5, <1>7 DEF CountInv

\* note_alloc() loads the mark, at first or after a CAS that failed.
LEMMA MarkLoadCount ==
  ASSUME TypeOK, CountInv, NEW p \in Procs, HwLoad(p) \/ HwRetry(p)
  PROVE  CountInv'
<1>1. /\ used' = used /\ highWater' = highWater /\ inUse' = inUse
      /\ crashes' = crashes /\ now' = now /\ hw'[p] = highWater
      /\ \A q \in Procs \ {p} : pc'[q] = pc[q] /\ hw'[q] = hw[q]
      /\ pc[p] \in {"hwload", "hwcas"} /\ pc'[p] = "hwcas"
  BY DEF HwLoad, HwRetry, Goto, TypeOK, shared
<1>2. Counted' = Counted
  BY <1>1 DEF Counted
<1>3. UsedCounts'
  BY <1>1, <1>2, SameCount DEF CountInv
<1>4. MarkLoaded'
  <2>1. highWater \in Int
    BY DEF TypeOK
  <2> QED BY <1>1, <2>1 DEF MarkLoaded, CountInv
<1>5. HighWaterNotBehind'
  BY <1>1 DEF HighWaterNotBehind, CountInv
<1> QED BY <1>3, <1>4, <1>5 DEF CountInv

\* note_alloc() returns: the call is one less, the client's slots are one more.
LEMMA HandOverCount ==
  ASSUME IInv, CountInv, NEW p \in Procs, HwRaise(p) \/ HwEnough(p)
  PROVE  CountInv'
<1>0. TypeOK
  BY DEF IInv
<1>1. /\ used' = used /\ inUse' = inUse \cup {cur[p]} /\ crashes' = crashes
      /\ pc[p] = "hwcas" /\ pc'[p] = "idle"
      /\ \A q \in Procs \ {p} : pc'[q] = pc[q] /\ now'[q] = now[q] /\ hw'[q] = hw[q]
  BY <1>0 DEF HwRaise, HwEnough, HandOver, Goto, TypeOK, shared
<1>2. Counted' = Counted \ {p} /\ p \in Counted
  BY <1>1 DEF Counted
<1>3. Cardinality(Counted') = Cardinality(Counted) - 1
  BY <1>0, <1>2, FiniteCounts, FS_RemoveElement
<1>4. Cardinality(inUse') = Cardinality(inUse) + 1
  <2>1. cur[p] \notin inUse
    BY <1>1 DEF IInv, Exclusive, Holders, Holding
  <2> QED BY <1>0, <1>1, <2>1, FiniteCounts, FS_AddElement
<1>5. UsedCounts'
  BY <1>0, <1>1, <1>3, <1>4, FiniteCounts DEF UsedCounts, CountInv
<1>6. /\ highWater \in Int /\ highWater' \in Int /\ highWater <= highWater'
      /\ now[p] \in Int /\ now[p] <= highWater'
      /\ \A q \in Procs : hw[q] \in Int
      /\ used \in Int
  <2>1. /\ highWater \in Int /\ now[p] \in Int /\ hw[p] \in Int
        /\ \A q \in Procs : hw[q] \in Int
        /\ used \in Int
    BY <1>0 DEF TypeOK
  <2>2. hw[p] <= highWater
    BY <1>1 DEF MarkLoaded, CountInv
  <2>3. CASE HwRaise(p)
    BY <2>1, <2>2, <2>3 DEF HwRaise
  <2>4. CASE HwEnough(p)
    BY <2>1, <2>2, <2>4 DEF HwEnough, shared
  <2> QED BY <2>1, <2>3, <2>4
<1>7. MarkLoaded'
  <2> SUFFICES ASSUME NEW q \in Procs, pc'[q] = "hwcas" PROVE hw'[q] <= highWater'
    BY DEF MarkLoaded
  <2>1. q # p /\ pc[q] = "hwcas" /\ hw'[q] = hw[q]
    BY <1>1
  <2>2. hw[q] <= highWater
    BY <2>1 DEF MarkLoaded, CountInv
  <2> QED BY <1>6, <2>1, <2>2
<1>8. HighWaterNotBehind'
  <2>1. CASE crashes > 0
    BY <2>1, <1>1 DEF HighWaterNotBehind
  <2>2. CASE used <= highWater
    BY <2>2, <1>1, <1>6 DEF HighWaterNotBehind
  <2>3. ASSUME NEW q \in Procs, pc[q] \in {"hwload", "hwcas"}, now[q] >= used
        PROVE  HighWaterNotBehind'
    <3>1. CASE q = p
      <4>1. used' <= highWater'
        BY <2>3, <3>1, <1>1, <1>6
      <4> QED BY <4>1 DEF HighWaterNotBehind
    <3>2. CASE q # p
      BY <2>3, <3>2, <1>1 DEF HighWaterNotBehind
    <3> QED BY <3>1, <3>2
  <2> QED BY <2>1, <2>2, <2>3 DEF HighWaterNotBehind, CountInv
<1> QED BY <1>5, <1>7, <1>8 DEF CountInv

\* free_slot() begins: a slot leaves the client, a call that counts begins.
LEMMA FreeLoadCount ==
  ASSUME TypeOK, CountInv, NEW p \in Procs, FreeLoad(p)
  PROVE  CountInv'
<1>1. PICK s \in inUse : inUse' = inUse \ {s}
  BY DEF FreeLoad
<1>2. /\ used' = used /\ highWater' = highWater /\ crashes' = crashes
      /\ now' = now /\ hw' = hw
      /\ pc[p] = "idle" /\ pc' = [pc EXCEPT ![p] = "flink"]
  BY DEF FreeLoad, Goto, shared
<1>3. Counted' = Counted \cup {p} /\ p \notin Counted
  BY <1>2 DEF Counted, TypeOK
<1>4. Cardinality(Counted') = Cardinality(Counted) + 1
  BY <1>3, FiniteCounts, FS_AddElement
<1>5. Cardinality(inUse') = Cardinality(inUse) - 1
  BY <1>1, FiniteCounts, FS_RemoveElement
<1>6. UsedCounts'
  BY <1>2, <1>4, <1>5, FiniteCounts DEF UsedCounts, CountInv
<1>7. MarkLoaded' /\ HighWaterNotBehind'
  BY <1>2, SameMark DEF CountInv
<1> QED BY <1>6, <1>7 DEF CountInv

\* free_slot() counts: the call is one less, and so is used_slots.
LEMMA FreeCountCount ==
  ASSUME TypeOK, CountInv, NEW p \in Procs, FreeCount(p)
  PROVE  CountInv'
<1>1. /\ used' = used - 1 /\ highWater' = highWater /\ inUse' = inUse
      /\ crashes' = crashes /\ now' = now /\ hw' = hw
      /\ pc[p] = "fcount" /\ pc' = [pc EXCEPT ![p] = "idle"]
  BY DEF FreeCount, Goto, locals
<1>2. Counted' = Counted \ {p} /\ p \in Counted
  BY <1>1 DEF Counted, TypeOK
<1>3. Cardinality(Counted') = Cardinality(Counted) - 1
  BY <1>2, FiniteCounts, FS_RemoveElement
<1>4. UsedCounts'
  BY <1>1, <1>3, FiniteCounts DEF UsedCounts, CountInv
<1>5. MarkLoaded' /\ HighWaterNotBehind'
  BY <1>1, SameMark DEF CountInv
<1> QED BY <1>4, <1>5 DEF CountInv

\* A process dies: what it had counted is never uncounted, once per death.
LEMMA CrashCount ==
  ASSUME TypeOK, CountInv, NEW p \in Procs, Crash(p)
  PROVE  CountInv'
<1>1. /\ used' = used /\ highWater' = highWater /\ inUse' = inUse
      /\ crashes' = crashes + 1 /\ pc'[p] = "dead"
      /\ \A q \in Procs \ {p} : pc'[q] = pc[q] /\ hw'[q] = hw[q]
  BY DEF Crash, Goto, TypeOK, shared
<1>2. Counted' = Counted \ {p}
  BY <1>1 DEF Counted
<1>3. Cardinality(Counted') \in {Cardinality(Counted), Cardinality(Counted) - 1}
  <2>1. CASE p \in Counted
    BY <2>1, <1>2, FiniteCounts, FS_RemoveElement
  <2>2. CASE p \notin Counted
    BY <2>2, <1>2
  <2> QED BY <2>1, <2>2
<1>4. UsedCounts'
  BY <1>1, <1>3, FiniteCounts DEF UsedCounts, CountInv
<1>5. MarkLoaded'
  BY <1>1 DEF MarkLoaded, CountInv
<1>6. crashes' > 0
  BY <1>1, FiniteCounts
<1> QED BY <1>4, <1>5, <1>6 DEF CountInv, HighWaterNotBehind

\* A client that writes its payload counts nothing, and neither does a stutter.
LEMMA StillCount ==
  ASSUME CountInv, pc' = pc, used' = used, highWater' = highWater, now' = now,
         hw' = hw, inUse' = inUse, crashes' = crashes
  PROVE  CountInv'
<1>1. Counted' = Counted
  BY DEF Counted
<1> QED BY <1>1, SameCount DEF CountInv, MarkLoaded, HighWaterNotBehind

\* Every step keeps the counters right.
LEMMA NextCount == IInv /\ CountInv /\ [Next]_vars => CountInv'
<1> SUFFICES ASSUME IInv, CountInv, [Next]_vars PROVE CountInv'
  OBVIOUS
<1>0. TypeOK
  BY DEF IInv
<1>1. ASSUME NEW p \in Procs, Alloc(p) PROVE CountInv'
  BY <1>0, <1>1, QuietCount DEF Alloc
<1>2. ASSUME NEW p \in Procs, NoteAlloc(p) PROVE CountInv'
  BY <1>0, <1>2, NoteUsedCount, MarkLoadCount, HandOverCount DEF NoteAlloc
<1>3. ASSUME NEW p \in Procs, Free(p) PROVE CountInv'
  BY <1>0, <1>3, QuietCount, FreeLoadCount, FreeCountCount DEF Free
<1>4. ASSUME NEW p \in Procs, Crash(p) \/ Restart(p) PROVE CountInv'
  BY <1>0, <1>4, QuietCount, CrashCount
<1>5. CASE WritePayload
  BY <1>5, StillCount DEF WritePayload, locals
<1>6. CASE UNCHANGED vars
  BY <1>6, StillCount DEF vars
<1> QED BY <1>1, <1>2, <1>3, <1>4, <1>5, <1>6 DEF Next

\* The counters are right in every state of every behaviour.
LEMMA SpecCount == Spec => []CountInv
BY InitCount, SpecInv, NextCount, PTL DEF Spec

\* used_slots counts the slots clients hold and the calls that have counted and
\* not returned; each death leaves it at most one too high, for ever.
THEOREM UsedIsRight == Spec => []UsedCounts
BY SpecCount, PTL DEF CountInv

\* high_water_used is never left below used_slots by the race of two
\* note_alloc() calls.
THEOREM HighWaterIsRight == Spec => []HighWaterNotBehind
BY SpecCount, PTL DEF CountInv
=============================================================================
