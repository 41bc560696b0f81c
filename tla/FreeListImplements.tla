------------------------- MODULE FreeListImplements -------------------------
(***************************************************************************)
(* TLAPS proves that the lock-free list keeps the promise of SlotPool, for *)
(* any number of processes, slots and deaths: each access of a call to the *)
(* shared memory is one step of the pool or none.                          *)
(***************************************************************************)
EXTENDS FreeListProofs

\* What the pool sees of a process: the answer on its way, the slot on its way
\* back (the two functions of the substitution in FreeList).
Answer(p) == IF pc[p] = "refused" THEN ListEnd
             ELSE IF pc[p] \in {"note", "hwload", "hwcas"} THEN cur[p]
             ELSE None
Return(p) == IF pc[p] \in {"flink", "fcas"} THEN cur[p] ELSE None

Answers == [p \in Procs |-> Answer(p)]
Returns == [p \in Procs |-> Return(p)]

\* An empty chain means that somebody holds every slot.
LEMMA EndIsEmpty == ASSUME IInv, head.idx = ListEnd PROVE Avail = {}
BY DEF IInv, ChainIsAvail, IsChain

\* One step of p changes nothing the pool sees of the others.
LEMMA OnlyMine ==
  ASSUME IInv, NEW p \in Procs, NEW l, pc' = [pc EXCEPT ![p] = l],
         \A q \in Procs \ {p} : cur'[q] = cur[q]
  PROVE  /\ Answers' = [Answers EXCEPT ![p] = Answer(p)']
         /\ Returns' = [Returns EXCEPT ![p] = Return(p)']
<1>1. \A q \in Procs \ {p} : Answer(q)' = Answer(q) /\ Return(q)' = Return(q)
  BY DEF IInv, TypeOK, Answer, Return
<1> QED BY <1>1 DEF Answers, Returns

\* Steps that leave every slot where it is.
LEMMA SameAvail ==
  ASSUME Holders' = Holders, cur' = cur, inUse' = inUse, lost' = lost
  PROVE  Avail' = Avail
BY DEF Avail

\* alloc_slot() reads a head, first or after a failed CAS: an empty list is the
\* pool's refusal.
LEMMA TakeHeadStep ==
  ASSUME IInv, NEW p \in Procs, pc[p] \in {"idle", "cas"}, TakeHead(p),
         cur' = cur, inUse' = inUse, lost' = lost
  PROVE  Pool!Refuse(p) \/ UNCHANGED <<Avail, inUse, Answers, Returns>>
<1>1. Avail' = Avail
  BY SameAvail DEF TakeHead, Goto, IInv, TypeOK, Holders, Holding
<1>2. /\ Answers' = [Answers EXCEPT ![p] = Answer(p)']
      /\ Returns' = [Returns EXCEPT ![p] = Return(p)']
  BY OnlyMine DEF TakeHead, Goto
<1>3. Answers[p] = None /\ Returns[p] = None /\ Return(p)' = None
  BY DEF Answers, Returns, Answer, Return, TakeHead, Goto, IInv, TypeOK
<1>4. Returns' = Returns
  BY <1>2, <1>3 DEF Returns
<1>5. CASE head.idx = ListEnd
  <2>1. Answer(p)' = ListEnd
    BY <1>5 DEF Answer, TakeHead, Goto, IInv, TypeOK
  <2> QED BY <1>1, <1>2, <1>3, <1>4, <2>1, <1>5, EndIsEmpty
          DEF Pool!Refuse, Pool!Quiet, Answers, Returns, Answer, Return
<1>6. CASE head.idx # ListEnd
  <2>1. Answer(p)' = None
    BY <1>6 DEF Answer, TakeHead, Goto, IInv, TypeOK
  <2>2. Answers' = Answers
    BY <1>2, <1>3, <2>1 DEF Answers
  <2> QED BY <1>1, <1>4, <2>2
<1> QED BY <1>5, <1>6

\* Steps the pool does not see: the slots stay where they are, and p is as far
\* with its answer and its return as before.
LEMMA UnseenStep ==
  ASSUME IInv, NEW p \in Procs, NEW l, pc' = [pc EXCEPT ![p] = l],
         cur' = cur, inUse' = inUse, lost' = lost, Holders' = Holders,
         Answer(p)' = Answer(p), Return(p)' = Return(p)
  PROVE  UNCHANGED <<Avail, inUse, Answers, Returns>>
<1>1. Avail' = Avail
  BY SameAvail
<1>2. /\ Answers' = [Answers EXCEPT ![p] = Answer(p)]
      /\ Returns' = [Returns EXCEPT ![p] = Return(p)]
  BY OnlyMine
<1>3. Answers' = Answers /\ Returns' = Returns
  BY <1>2 DEF Answers, Returns
<1> QED BY <1>1, <1>3

\* The calls in which p only reads, links, counts or tries again; it restarts.
LEMMA Unseen ==
  ASSUME IInv, NEW p \in Procs,
         \/ AllocRead(p) \/ NoteUsed(p) \/ HwLoad(p) \/ HwRetry(p)
         \/ FreeLink(p) \/ FreeRetry(p) \/ FreeCount(p) \/ Restart(p)
  PROVE  UNCHANGED <<Avail, inUse, Answers, Returns>>
<1> USE DEF Goto, IInv, TypeOK, Holders, Holding, Answer, Return, locals
<1>1. CASE AllocRead(p)
  BY <1>1, UnseenStep DEF AllocRead
<1>2. CASE NoteUsed(p)
  BY <1>2, UnseenStep DEF NoteUsed
<1>3. CASE HwLoad(p)
  BY <1>3, UnseenStep DEF HwLoad
<1>4. CASE HwRetry(p)
  BY <1>4, SameAvail DEF HwRetry, Answers, Returns
<1>5. CASE FreeLink(p)
  BY <1>5, UnseenStep DEF FreeLink
<1>6. CASE FreeRetry(p)
  BY <1>6, UnseenStep DEF FreeRetry
<1>7. CASE FreeCount(p)
  BY <1>7, UnseenStep DEF FreeCount
<1>8. CASE Restart(p)
  BY <1>8, UnseenStep DEF Restart
<1> QED BY <1>1, <1>2, <1>3, <1>4, <1>5, <1>6, <1>7, <1>8

\* alloc_slot()'s successful CAS is the pool's grant.
LEMMA AllocCasStep ==
  ASSUME IInv, NEW p \in Procs, AllocCas(p)
  PROVE  Pool!Grant(p)
<1> DEFINE s == head.idx
<1>1. s \in Avail /\ s \in Slots
  BY HeadUnmoved DEF AllocCas, Avail
<1>2. /\ Holders' = Holders \cup {p} /\ p \notin Holders
      /\ inUse' = inUse /\ lost' = lost
      /\ cur'[p] = s /\ \A q \in Procs \ {p} : cur'[q] = cur[q]
  BY DEF AllocCas, Goto, IInv, TypeOK, Holders, Holding
<1>3. Avail' = Avail \ {s}
  <2>1. \A q \in Holders : cur'[q] = cur[q]
    BY <1>2 DEF Holders
  <2> QED BY <1>2, <2>1 DEF Avail
<1>4. /\ Answers' = [Answers EXCEPT ![p] = Answer(p)']
      /\ Returns' = [Returns EXCEPT ![p] = Return(p)']
  BY <1>2, OnlyMine DEF AllocCas, Goto
<1>5. /\ Answer(p) = None /\ Answer(p)' = s
      /\ Return(p) = None /\ Return(p)' = None
  BY <1>2 DEF Answer, Return, AllocCas, Goto, IInv, TypeOK
<1>6. /\ Answers[p] = None /\ Answers' = [Answers EXCEPT ![p] = s]
      /\ Returns[p] = None /\ Returns' = Returns
  BY <1>4, <1>5 DEF Answers, Returns
<1> QED BY <1>1, <1>2, <1>3, <1>6
        DEF Pool!Grant, Pool!Quiet, Answers, Returns, Answer, Return

\* free_slot()'s load takes the slot from its client.
LEMMA FreeLoadStep ==
  ASSUME IInv, NEW p \in Procs, FreeLoad(p)
  PROVE  Pool!Reclaim(p)
<1>1. PICK s \in inUse : inUse' = inUse \ {s} /\ cur' = [cur EXCEPT ![p] = s]
  BY DEF FreeLoad
<1>2. s \in Slots /\ s \notin lost /\ \A q \in Holders : cur[q] # s
  BY <1>1 DEF IInv, TypeOK, Exclusive
<1>3. /\ Holders' = Holders \cup {p} /\ p \notin Holders /\ lost' = lost
      /\ cur'[p] = s /\ \A q \in Procs \ {p} : cur'[q] = cur[q]
  BY <1>1 DEF FreeLoad, Goto, IInv, TypeOK, Holders, Holding
<1>4. Avail' = Avail
  <2>1. \A q \in Holders : cur'[q] = cur[q]
    BY <1>3 DEF Holders
  <2> QED BY <1>1, <1>3, <2>1 DEF Avail
<1>5. /\ Answers' = [Answers EXCEPT ![p] = Answer(p)']
      /\ Returns' = [Returns EXCEPT ![p] = Return(p)']
  BY <1>3, OnlyMine DEF FreeLoad, Goto
<1>6. /\ Answer(p) = None /\ Answer(p)' = None
      /\ Return(p) = None /\ Return(p)' = s
  BY <1>3 DEF Answer, Return, FreeLoad, Goto, IInv, TypeOK
<1>7. /\ Answers[p] = None /\ Answers' = Answers
      /\ Returns[p] = None /\ Returns' = [Returns EXCEPT ![p] = s]
  BY <1>5, <1>6 DEF Answers, Returns
<1> QED BY <1>1, <1>4, <1>7
        DEF Pool!Reclaim, Pool!Quiet, Answers, Returns, Answer, Return

\* free_slot()'s successful CAS puts the slot back into the pool.
LEMMA FreeCasStep ==
  ASSUME IInv, NEW p \in Procs, FreeCas(p)
  PROVE  Pool!Restore(p)
<1> DEFINE s == cur[p]
<1>1. s \in Slots /\ s \notin inUse \cup lost /\ p \in Holders
  BY DEF FreeCas, IInv, TypeOK, Exclusive, Holders, Holding
<1>2. /\ Holders' = Holders \ {p} /\ inUse' = inUse /\ lost' = lost
      /\ \A q \in Procs \ {p} : cur'[q] = cur[q]
  BY DEF FreeCas, Goto, IInv, TypeOK, Holders, Holding
<1>3. Avail' = Avail \cup {s}
  <2>1. \A q \in Holders' : cur'[q] = cur[q] /\ cur[q] # s
    BY <1>1, <1>2 DEF Holders, IInv, Exclusive
  <2> QED BY <1>1, <1>2, <2>1 DEF Avail
<1>4. /\ Answers' = [Answers EXCEPT ![p] = Answer(p)']
      /\ Returns' = [Returns EXCEPT ![p] = Return(p)']
  BY <1>2, OnlyMine DEF FreeCas, Goto
<1>5. /\ Answer(p) = None /\ Answer(p)' = None
      /\ Return(p) = s /\ Return(p)' = None
  BY DEF Answer, Return, FreeCas, Goto, IInv, TypeOK
<1>6. /\ Answers' = Answers
      /\ Returns[p] = s /\ Returns' = [Returns EXCEPT ![p] = None]
  BY <1>4, <1>5 DEF Answers, Returns
<1> QED BY <1>1, <1>2, <1>3, <1>6, ArenaAssumption
        DEF Pool!Restore, Answers, Returns, Answer, Return, Links

\* alloc_slot() returns "exhausted".
LEMMA RefusedStep ==
  ASSUME IInv, NEW p \in Procs, AllocRefused(p)
  PROVE  Pool!Deliver(p)
<1>1. Avail' = Avail /\ inUse' = inUse
  BY SameAvail DEF AllocRefused, Goto, IInv, TypeOK, Holders, Holding
<1>2. /\ Answers' = [Answers EXCEPT ![p] = Answer(p)']
      /\ Returns' = [Returns EXCEPT ![p] = Return(p)']
  BY OnlyMine DEF AllocRefused, Goto
<1>3. /\ Answer(p) = ListEnd /\ Answer(p)' = None
      /\ Return(p) = None /\ Return(p)' = None
  BY DEF Answer, Return, AllocRefused, Goto, IInv, TypeOK
<1>4. /\ Answers[p] = ListEnd /\ Answers' = [Answers EXCEPT ![p] = None]
      /\ Returns' = Returns
  BY <1>2, <1>3 DEF Answers, Returns
<1> QED BY <1>1, <1>4, ArenaAssumption
        DEF Pool!Deliver, Answers, Returns, Answer, Return, Links

\* note_alloc() ends and alloc_slot() returns its slot.
LEMMA HandOverStep ==
  ASSUME IInv, NEW p \in Procs, pc[p] = "hwcas", HandOver(p), lost' = lost
  PROVE  Pool!Deliver(p)
<1> DEFINE s == cur[p]
<1>1. s \in Slots /\ s # None /\ s # ListEnd
  BY ArenaAssumption DEF IInv, TypeOK, Holders, Holding, Links
<1>2. /\ Holders' = Holders \ {p} /\ p \in Holders /\ inUse' = inUse \cup {s}
      /\ \A q \in Procs \ {p} : cur'[q] = cur[q]
  BY DEF HandOver, Goto, IInv, TypeOK, Holders, Holding
<1>3. Avail' = Avail
  <2>1. \A q \in Holders' : cur'[q] = cur[q]
    BY <1>2 DEF Holders
  <2> QED BY <1>2, <2>1 DEF Avail
<1>4. /\ Answers' = [Answers EXCEPT ![p] = Answer(p)']
      /\ Returns' = [Returns EXCEPT ![p] = Return(p)']
  BY <1>2, OnlyMine DEF HandOver, Goto
<1>5. /\ Answer(p) = s /\ Answer(p)' = None
      /\ Return(p) = None /\ Return(p)' = None
  BY DEF Answer, Return, HandOver, Goto, IInv, TypeOK
<1>6. /\ Answers[p] = s /\ Answers' = [Answers EXCEPT ![p] = None]
      /\ Returns' = Returns
  BY <1>4, <1>5 DEF Answers, Returns
<1> QED BY <1>1, <1>2, <1>3, <1>6
        DEF Pool!Deliver, Answers, Returns, Answer, Return

\* A death loses what the process had in hand, and nothing else.
LEMMA CrashStep ==
  ASSUME IInv, NEW p \in Procs, Crash(p)
  PROVE  Pool!Lose(p)
<1>1. /\ Holders' = Holders \ {p} /\ inUse' = inUse
      /\ \A q \in Procs \ {p} : cur'[q] = cur[q]
      /\ lost' = lost \cup {cur[q] : q \in Holders \cap {p}}
  BY DEF Crash, Goto, IInv, TypeOK, Holders, Holding
<1>2. Avail' = Avail
  <2>1. \A q \in Holders' : cur'[q] = cur[q]
    BY <1>1 DEF Holders
  <2> QED BY <1>1, <2>1 DEF Avail
<1>3. /\ Answers' = [Answers EXCEPT ![p] = Answer(p)']
      /\ Returns' = [Returns EXCEPT ![p] = Return(p)']
  BY <1>1, OnlyMine DEF Crash, Goto
<1>4. Answer(p)' = None /\ Return(p)' = None
  BY DEF Answer, Return, Crash, Goto, IInv, TypeOK
<1>5. /\ Answers' = [Answers EXCEPT ![p] = None]
      /\ Returns' = [Returns EXCEPT ![p] = None]
  BY <1>3, <1>4
<1> QED BY <1>1, <1>2, <1>5 DEF Pool!Lose, Answers, Returns, Answer, Return

\* Clients' payload, and steps of others, are invisible.
LEMMA StutterStep ==
  ASSUME WritePayload \/ UNCHANGED vars
  PROVE  UNCHANGED <<Avail, inUse, Answers, Returns>>
<1>1. UNCHANGED <<inUse, lost, pc, cur>>
  BY DEF WritePayload, vars, locals
<1>2. Holders' = Holders
  BY <1>1 DEF Holders
<1> QED BY <1>1, <1>2 DEF Avail, Answers, Returns, Answer, Return

-----------------------------------------------------------------------------
(* The theorem. *)

\* A new segment is a full pool.
LEMMA PoolInitHolds == Init => Pool!PoolInit
<1> SUFFICES ASSUME Init PROVE Pool!PoolInit
  OBVIOUS
<1>1. Holders = {}
  BY DEF Init, Holders, Holding
<1>2. Avail = Slots
  BY <1>1 DEF Init, Avail
<1> QED BY <1>2 DEF Init, Pool!PoolInit

\* Every access to the shared memory is one step of the pool, or none.
LEMMA PoolStepHolds == IInv /\ [Next]_vars => [Pool!PoolNext]_(Pool!poolVars)
<1> SUFFICES ASSUME IInv, [Next]_vars
             PROVE  Pool!PoolNext \/ UNCHANGED Pool!poolVars
  OBVIOUS
<1>1. UNCHANGED <<Avail, inUse, Answers, Returns>> => UNCHANGED Pool!poolVars
  BY DEF Pool!poolVars, Answers, Returns, Answer, Return
<1>2. ASSUME NEW p \in Procs, AllocLoad(p) \/ AllocRetry(p)
      PROVE  Pool!PoolNext \/ UNCHANGED Pool!poolVars
  <2>1. Pool!Refuse(p) \/ UNCHANGED <<Avail, inUse, Answers, Returns>>
    BY <1>2, TakeHeadStep DEF AllocLoad, AllocRetry
  <2> QED BY <1>1, <2>1 DEF Pool!PoolNext
<1>3. ASSUME NEW p \in Procs,
             \/ AllocRead(p) \/ NoteUsed(p) \/ HwLoad(p) \/ HwRetry(p)
             \/ FreeLink(p) \/ FreeRetry(p) \/ FreeCount(p) \/ Restart(p)
      PROVE  UNCHANGED Pool!poolVars
  BY <1>1, <1>3, Unseen
<1>4. ASSUME NEW p \in Procs, AllocRefused(p) PROVE Pool!PoolNext
  BY <1>4, RefusedStep DEF Pool!PoolNext
<1>5. ASSUME NEW p \in Procs, AllocCas(p) PROVE Pool!PoolNext
  BY <1>5, AllocCasStep DEF Pool!PoolNext
<1>6. ASSUME NEW p \in Procs, HwRaise(p) \/ HwEnough(p) PROVE Pool!PoolNext
  <2>1. Pool!Deliver(p)
    BY <1>6, HandOverStep DEF HwRaise, HwEnough
  <2> QED BY <2>1 DEF Pool!PoolNext
<1>7. ASSUME NEW p \in Procs, FreeLoad(p) PROVE Pool!PoolNext
  BY <1>7, FreeLoadStep DEF Pool!PoolNext
<1>8. ASSUME NEW p \in Procs, FreeCas(p) PROVE Pool!PoolNext
  BY <1>8, FreeCasStep DEF Pool!PoolNext
<1>9. ASSUME NEW p \in Procs, Crash(p) PROVE Pool!PoolNext
  BY <1>9, CrashStep DEF Pool!PoolNext
<1>10. CASE WritePayload \/ UNCHANGED vars
  BY <1>1, <1>10, StutterStep
<1> QED BY <1>2, <1>3, <1>4, <1>5, <1>6, <1>7, <1>8, <1>9, <1>10
        DEF Next, Alloc, NoteAlloc, Free

\* The lock-free list keeps the promise of the slot pool: what alloc_slot()
\* grants was free at its CAS, what it refuses was refused by an empty pool,
\* and free_slot() and deaths move only the slot in hand.
THEOREM ListKeepsPool == Spec => KeepsPool
<1>1. Init => Pool!PoolInit
  BY PoolInitHolds
<1>2. IInv /\ [Next]_vars => [Pool!PoolNext]_(Pool!poolVars)
  BY PoolStepHolds
<1> QED BY <1>1, <1>2, SpecInv, PTL DEF Spec, KeepsPool, Pool!PoolSpec
=============================================================================
