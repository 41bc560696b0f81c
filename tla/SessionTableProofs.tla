------------------------- MODULE SessionTableProofs -------------------------
(***************************************************************************)
(* What TLAPS proves of the session table, for any number of receivers,    *)
(* sessions, entries, slots, symbols, broadcasts and any threshold.        *)
(*                                                                         *)
(* IInv has the mutual exclusion of the lock, one OPEN entry for an id and *)
(* one sweeper for a CLOSING entry.  SlotInv says who holds every slot and *)
(* what a link is worth: it holds while no decoder meets a purge and no    *)
(* link is read by its bit alone, and it is what FreedOnce rests on.       *)
(* KeptInv adds the other direction, that a registered slot is where its   *)
(* link says, which holds as long as no purge overtakes a packet either.   *)
(* Drained says that a purge is followed by the sweep that empties the     *)
(* entry, in every behaviour.                                              *)
(***************************************************************************)
EXTENDS SessionTable, TLAPS

-----------------------------------------------------------------------------
(* The inductive invariant. *)

\* TypeOK in two parts: what a process has of its own, and what they share.
LocalsTyped ==
  /\ pc \in [Procs -> Labels]
  /\ ses \in [Procs -> Sessions \cup {None}]
  /\ ent \in [Procs -> Entries \cup {None}]
  /\ sym \in [Procs -> Symbols \cup {None}]
  /\ slot \in [Procs -> Slots \cup {None}]
  /\ at \in [Procs -> 0 .. N]
  /\ got \in [Procs -> SUBSET Symbols]

TableTyped ==
  /\ lock \in Procs \cup {None}
  /\ state \in [Entries -> {"EMPTY", "OPEN", "CLOSING"}]
  /\ id \in [Entries -> Sessions \cup {None}]
  /\ present \in [Entries -> SUBSET Symbols]
  /\ seen \in [Entries -> Nat]
  /\ link \in [Entries -> [Symbols -> Slots \cup {SlotFree}]]
  /\ latch \in [Entries -> {"PENDING", "CLAIMED", "COMPLETE"}]
  /\ holder \in [Slots -> {Free} \cup {Hand(p) : p \in Procs} \cup (Entries \X Symbols)]
  /\ misfreed \in BOOLEAN
  /\ races \in SUBSET {"gathered", "swept", "torn", "late"}
  /\ local \in [Procs -> [Sessions -> Entries \cup {None}]]

Messages == [kind : {"open", "purge"}, id : Sessions]

InboxTyped ==
  /\ live \subseteq opened
  /\ opened \in SUBSET Sessions
  /\ sent \in 0 .. MaxBroadcasts
  /\ inbox \in [Procs -> Seq(Messages)]
  /\ \A p \in Procs : Len(inbox[p]) <= sent

\* What a process has in hand at each point of its handlers.
InHandTyped ==
  \A p \in Procs :
    /\ pc[p] # "idle" => ses[p] \in Sessions
    /\ pc[p] \in {"idle", "open", "find", "close", "claim"} => ent[p] = None
    /\ pc[p] \in DataPath \cup {"publish", "sweep", "empty"} => ent[p] \in Entries
    /\ pc[p] \in DataPath => sym[p] \in Symbols
    /\ pc[p] \in {"register", "link"} => slot[p] \in Slots
    /\ pc[p] = "clear" => at[p] \in Symbols

\* Who is between the CAS on session_open_lock and the store that releases it.
Critical == {"find", "publish", "unlock", "claim", "closeUnlock"}
LockHeld == \A p \in Procs : pc[p] \in Critical <=> lock = p

\* The entry that is being filled is nobody's, and its session has no other.
Published ==
  \A p \in Procs : pc[p] = "publish" => /\ state[ent[p]] = "EMPTY"
                                        /\ id[ent[p]] = ses[p]
                                        /\ OpenOf(ses[p]) = {}

\* OneSweeper, said of processes.
Sweeping == {"closeUnlock", "sweep", "empty"}

SweptByOne ==
  /\ \A p \in Procs :
       pc[p] \in Sweeping /\ ent[p] # None =>
         /\ state[ent[p]] = "CLOSING"
         /\ \A q \in Procs : pc[q] \in Sweeping /\ ent[q] = ent[p] => q = p
  /\ \A e \in Entries :
       state[e] = "CLOSING" => \E p \in Procs : pc[p] \in Sweeping /\ ent[p] = e

IInv == /\ LocalsTyped /\ TableTyped /\ InboxTyped /\ InHandTyped
        /\ LockHeld /\ Published /\ OneEntryPerSession /\ SweptByOne

-----------------------------------------------------------------------------
(* Lemmas *)

\* The constant sets.
LEMMA EntriesSymbols ==
  /\ None \notin Entries /\ None \notin Symbols /\ None \notin Procs
  /\ None \notin Sessions /\ None \notin Slots
  /\ Zero \in Slots /\ Blank \in [Symbols -> Slots]
  /\ N \in Nat /\ 0 \in 0 .. N
  /\ \A n \in 0 .. N : n < N => n + 1 \in 0 .. N /\ n \in Symbols
  /\ \A n \in Symbols : n + 1 \in 0 .. N
<1>1. None \notin Nat /\ Entries \subseteq Nat /\ Symbols \subseteq Nat
  BY TableAssumption DEF Entries, Symbols
<1>2. Zero \in Slots
  BY TableAssumption DEF Zero
<1>3. Blank \in [Symbols -> Slots]
  BY <1>2 DEF Blank
<1>4. /\ N \in Nat /\ 0 \in 0 .. N
      /\ \A n \in 0 .. N : n < N => n + 1 \in 0 .. N /\ n \in Symbols
      /\ \A n \in Symbols : n + 1 \in 0 .. N
  BY TableAssumption DEF Symbols
<1> QED BY <1>1, <1>2, <1>3, <1>4, TableAssumption

\* A return leaves every local with its type.
LEMMA ReturnTyped ==
  ASSUME LocalsTyped, NEW p \in Procs, Return(p) PROVE LocalsTyped'
BY EntriesSymbols DEF Return, Goto, LocalsTyped, Labels

\* Taking a message.
LEMMA HeadTyped ==
  ASSUME InboxTyped, NEW p \in Procs, inbox[p] # <<>>
  PROVE  /\ Head(inbox[p]).id \in Sessions
         /\ Tail(inbox[p]) \in Seq(Messages)
         /\ Len(Tail(inbox[p])) <= sent
<1>1. inbox[p] \in Seq(Messages)
  BY DEF InboxTyped
<1>2. Head(inbox[p]) \in Messages /\ Tail(inbox[p]) \in Seq(Messages)
  BY <1>1
<1>3. Len(Tail(inbox[p])) = Len(inbox[p]) - 1 /\ Len(inbox[p]) \in Nat /\ sent \in Int
  BY <1>1, TableAssumption DEF InboxTyped
<1> QED BY <1>1, <1>2, <1>3 DEF InboxTyped, Messages

\* An id has at most one OPEN entry, which is therefore the first.
LEMMA FirstOpen ==
  ASSUME TableTyped, OneEntryPerSession, NEW x, NEW e \in OpenOf(x)
  PROVE  /\ First(OpenOf(x)) = e /\ OpenOf(x) = {e}
         /\ e \in Entries /\ state[e] = "OPEN" /\ id[e] = x
<1>1. OpenOf(x) = {e} /\ e \in Entries /\ state[e] = "OPEN" /\ id[e] = x
  BY DEF OpenOf, OneEntryPerSession
<1>2. e <= e
  BY <1>1, TableAssumption DEF Entries
<1> QED BY <1>1, <1>2 DEF First

\* A step of p leaves the other processes where they are.
OthersStay(p) ==
  \A q \in Procs \ {p} :
    /\ pc'[q] = pc[q] /\ ses'[q] = ses[q] /\ ent'[q] = ent[q]
    /\ sym'[q] = sym[q] /\ slot'[q] = slot[q] /\ at'[q] = at[q] /\ got'[q] = got[q]

\* A step that is no part of a sweep.
LEMMA SweepFrame ==
  ASSUME SweptByOne, NEW p \in Procs, OthersStay(p),
         pc[p] \notin Sweeping, pc'[p] \notin Sweeping,
         \A e \in Entries : state'[e] = "CLOSING" <=> state[e] = "CLOSING",
         \A q \in Procs : ent[q] \in Entries \cup {None}
  PROVE  SweptByOne'
BY DEF SweptByOne, OthersStay

\* A step of the data path: the process is not on the control path, before or
\* after, no entry is opened or closed, and a packet in hand stays with its entry.
OnDataPath(p) ==
  /\ pc[p] \in DataPath \cup {"idle"} /\ pc'[p] \in DataPath \cup {"idle"}
  /\ pc[p] \in DataPath /\ pc'[p] \in DataPath => ses'[p] = ses[p] /\ ent'[p] = ent[p]
  /\ OthersStay(p)
  /\ UNCHANGED <<lock, state, id, local, inbox, live, opened>>

\* A packet that arrives starts work on the data path and nothing else.
LEMMA ReceiveOnPath == ASSUME IInv, NEW p \in Procs, Receive(p) PROVE OnDataPath(p)
<1> USE DEF IInv, Receive, DataPath
<1> QED BY DEF OnDataPath, OthersStay, LocalsTyped, Goto, table, manager

\* So is every later step of a packet's handling.
LEMMA PacketOnPath == ASSUME IInv, NEW p \in Procs, Packet(p) PROVE OnDataPath(p)
<1> USE DEF IInv, DataPath
<1>1. CASE AllocSlot(p)
  BY <1>1 DEF OnDataPath, OthersStay, LocalsTyped, AllocSlot, Goto, table, manager
<1>2. CASE ArenaExhausted(p)
  BY <1>2 DEF OnDataPath, OthersStay, LocalsTyped, ArenaExhausted, Return, Goto, table,
              manager
<1>3. CASE RegisterBit(p)
  BY <1>3 DEF OnDataPath, OthersStay, LocalsTyped, RegisterBit, Goto, manager, locals
<1>4. CASE RegisterDuplicate(p)
  BY <1>4 DEF OnDataPath, OthersStay, LocalsTyped, RegisterDuplicate, Return, Goto,
              table, manager
<1>5. CASE RegisterLink(p)
  BY <1>5 DEF OnDataPath, OthersStay, LocalsTyped, RegisterLink, Return, Goto, manager,
              locals
<1>6. CASE Gather(p)
  BY <1>6 DEF OnDataPath, OthersStay, LocalsTyped, Gather, Goto, table, manager
<1>7. CASE MarkComplete(p)
  BY <1>7 DEF OnDataPath, OthersStay, LocalsTyped, MarkComplete, Goto, manager, locals
<1>8. CASE DecodeLost(p)
  BY <1>8 DEF OnDataPath, OthersStay, LocalsTyped, DecodeLost, Return, Goto, table,
              manager
<1>9. CASE ReleaseSlot(p)
  BY <1>9 DEF OnDataPath, OthersStay, LocalsTyped, ReleaseSlot, Goto, table, manager,
              locals
<1>10. CASE ClearSlot(p)
  BY <1>10 DEF OnDataPath, OthersStay, LocalsTyped, ClearSlot, Goto, manager
<1>11. CASE ReleaseSkip(p)
  BY <1>11 DEF OnDataPath, OthersStay, LocalsTyped, ReleaseSkip, table, manager
<1>12. CASE ReleaseDone(p)
  BY <1>12 DEF OnDataPath, OthersStay, LocalsTyped, ReleaseDone, Return, Goto, table,
               manager
<1>13. CASE DecodeFails(p)
  BY <1>13 DEF OnDataPath, OthersStay, LocalsTyped, DecodeFails, Return, Goto, table,
               manager
<1> QED BY <1>1, <1>2, <1>3, <1>4, <1>5, <1>6, <1>7, <1>8, <1>9, <1>10, <1>11, <1>12, <1>13
        DEF Packet

\* The data path takes no lock and opens or closes no entry.
LEMMA DataFrame ==
  ASSUME IInv, NEW p \in Procs, OnDataPath(p)
  PROVE  LockHeld' /\ Published' /\ OneEntryPerSession' /\ SweptByOne'
<1> USE DEF IInv, OnDataPath, OthersStay, DataPath
<1>1. LockHeld'
  BY DEF LockHeld, Critical
<1>2. Published'
  BY DEF Published, OpenOf
<1>3. OneEntryPerSession'
  BY DEF OneEntryPerSession
<1>5. SweptByOne'
  BY DEF SweptByOne, Sweeping
<1> QED BY <1>1, <1>2, <1>3, <1>5

-----------------------------------------------------------------------------
(* The steps *)

\* SessionOpen is taken, or is a repetition.
LEMMA HandleOpenInv == ASSUME IInv, NEW p \in Procs, HandleOpen(p) PROVE IInv'
<1> USE TableAssumption DEF IInv, HandleOpen
<1>a. Head(inbox[p]).id \in Sessions
  BY HeadTyped DEF Message
<1>1. LocalsTyped'
  BY <1>a DEF LocalsTyped, Labels, Message, TakeMessage, Goto
<1>2. TableTyped'
  BY EntriesSymbols DEF TableTyped, table, arena
<1>3. InboxTyped'
  BY HeadTyped DEF InboxTyped, Message, TakeMessage, manager
<1>4. InHandTyped'
  BY <1>a DEF InHandTyped, LocalsTyped, DataPath, Message, TakeMessage, Goto
<1>5. LockHeld'
  BY EntriesSymbols DEF LockHeld, LocalsTyped, Critical, Message, Goto
<1>6. Published'
  BY EntriesSymbols DEF Published, LockHeld, Critical, LocalsTyped, TableTyped,
                        InHandTyped, DataPath, OpenOf, Message, TakeMessage, Goto, table
<1>7. OneEntryPerSession'
  BY DEF OneEntryPerSession, TableTyped, table
<1>8. SweptByOne'
  <2>1. OthersStay(p) /\ pc[p] \notin Sweeping /\ pc'[p] \notin Sweeping
    BY DEF OthersStay, LocalsTyped, Sweeping, Message, TakeMessage, Goto
  <2>2. \A e \in Entries : state'[e] = "CLOSING" <=> state[e] = "CLOSING"
    BY DEF TableTyped, table
  <2> QED BY <2>1, <2>2, SweepFrame DEF LocalsTyped
<1> QED BY <1>1, <1>2, <1>3, <1>4, <1>5, <1>6, <1>7, <1>8

\* The CAS on the lock.
LEMMA OpenLockInv == ASSUME IInv, NEW p \in Procs, OpenLock(p) PROVE IInv'
<1> USE TableAssumption DEF IInv, OpenLock
<1>1. LocalsTyped'
  BY EntriesSymbols DEF LocalsTyped, Labels, DataPath, InHandTyped, Acquire, Goto,
                        locals
<1>2. TableTyped'
  BY EntriesSymbols DEF TableTyped, Acquire, table, arena
<1>3. InboxTyped'
  BY DEF InboxTyped, Acquire, manager
<1>4. InHandTyped'
  BY EntriesSymbols DEF InHandTyped, LocalsTyped, TableTyped, DataPath, Acquire, Goto,
                        locals
<1>5. LockHeld'
  BY EntriesSymbols DEF LockHeld, LocalsTyped, Critical, Acquire, Goto
<1>6. Published'
  BY EntriesSymbols DEF Published, LockHeld, Critical, LocalsTyped, TableTyped,
                        InHandTyped, DataPath, OpenOf, Acquire, Goto, table, locals
<1>7. OneEntryPerSession'
  BY DEF OneEntryPerSession, TableTyped, Acquire, table
<1>8. SweptByOne'
  <2>1. OthersStay(p) /\ pc[p] \notin Sweeping /\ pc'[p] \notin Sweeping
    BY DEF OthersStay, LocalsTyped, Sweeping, Acquire, Goto, locals
  <2>2. \A e \in Entries : state'[e] = "CLOSING" <=> state[e] = "CLOSING"
    BY DEF TableTyped, Acquire, table
  <2> QED BY <2>1, <2>2, SweepFrame DEF LocalsTyped
<1> QED BY <1>1, <1>2, <1>3, <1>4, <1>5, <1>6, <1>7, <1>8

\* The session has its entry.
LEMMA OpenFoundInv == ASSUME IInv, NEW p \in Procs, OpenFound(p) PROVE IInv'
<1> USE TableAssumption DEF IInv, OpenFound
<1>1. LocalsTyped'
  BY EntriesSymbols DEF LocalsTyped, Labels, DataPath, InHandTyped, TableTyped, OpenOf,
                        First, Goto
<1>2. TableTyped'
  BY EntriesSymbols DEF TableTyped, OpenOf, First, table, arena
<1>3. InboxTyped'
  BY DEF InboxTyped, manager
<1>4. InHandTyped'
  BY EntriesSymbols DEF InHandTyped, LocalsTyped, TableTyped, DataPath, OpenOf, First,
                        Goto
<1>5. LockHeld'
  BY EntriesSymbols DEF LockHeld, LocalsTyped, Critical, Goto
<1>6. Published'
  BY EntriesSymbols DEF Published, LockHeld, Critical, LocalsTyped, TableTyped,
                        InHandTyped, DataPath, OpenOf, First, Goto, table
<1>7. OneEntryPerSession'
  BY DEF OneEntryPerSession, TableTyped, OpenOf, First, table
<1>8. SweptByOne'
  <2>1. OthersStay(p) /\ pc[p] \notin Sweeping /\ pc'[p] \notin Sweeping
    BY DEF OthersStay, LocalsTyped, Sweeping, OpenOf, First, Goto
  <2>2. \A e \in Entries : state'[e] = "CLOSING" <=> state[e] = "CLOSING"
    BY DEF TableTyped, OpenOf, First, table
  <2> QED BY <2>1, <2>2, SweepFrame DEF LocalsTyped
<1> QED BY <1>1, <1>2, <1>3, <1>4, <1>5, <1>6, <1>7, <1>8

\* An empty entry is filled.
LEMMA OpenFillInv == ASSUME IInv, NEW p \in Procs, OpenFill(p) PROVE IInv'
<1> USE TableAssumption DEF IInv, OpenFill
<1>1. LocalsTyped'
  BY EntriesSymbols DEF LocalsTyped, Labels, DataPath, InHandTyped, OpenOf, Goto
<1>2. TableTyped'
  BY EntriesSymbols DEF TableTyped, InHandTyped, LocalsTyped, DataPath, OpenOf, arena
<1>3. InboxTyped'
  BY DEF InboxTyped, manager
<1>4. InHandTyped'
  BY EntriesSymbols DEF InHandTyped, LocalsTyped, TableTyped, DataPath, OpenOf, Goto
<1>5. LockHeld'
  BY EntriesSymbols DEF LockHeld, LocalsTyped, Critical, Goto
<1>6. Published'
  BY EntriesSymbols DEF Published, LockHeld, Critical, LocalsTyped, TableTyped,
                        InHandTyped, DataPath, OpenOf, Goto
<1>7. OneEntryPerSession'
  BY DEF OneEntryPerSession, TableTyped, OpenOf
<1>8. SweptByOne'
  <2>1. OthersStay(p) /\ pc[p] \notin Sweeping /\ pc'[p] \notin Sweeping
    BY DEF OthersStay, LocalsTyped, Sweeping, OpenOf, Goto
  <2>2. \A e \in Entries : state'[e] = "CLOSING" <=> state[e] = "CLOSING"
    BY DEF TableTyped, OpenOf
  <2> QED BY <2>1, <2>2, SweepFrame DEF LocalsTyped
<1> QED BY <1>1, <1>2, <1>3, <1>4, <1>5, <1>6, <1>7, <1>8

\* The table is full.
LEMMA OpenFullInv == ASSUME IInv, NEW p \in Procs, OpenFull(p) PROVE IInv'
<1> USE TableAssumption DEF IInv, OpenFull
<1>1. LocalsTyped'
  BY EntriesSymbols DEF LocalsTyped, Labels, DataPath, InHandTyped, OpenOf, Goto, locals
<1>2. TableTyped'
  BY EntriesSymbols DEF TableTyped, OpenOf, table, arena
<1>3. InboxTyped'
  BY DEF InboxTyped, manager
<1>4. InHandTyped'
  BY EntriesSymbols DEF InHandTyped, LocalsTyped, TableTyped, DataPath, OpenOf, Goto,
                        locals
<1>5. LockHeld'
  BY EntriesSymbols DEF LockHeld, LocalsTyped, Critical, Goto
<1>6. Published'
  BY EntriesSymbols DEF Published, LockHeld, Critical, LocalsTyped, TableTyped,
                        InHandTyped, DataPath, OpenOf, Goto, table, locals
<1>7. OneEntryPerSession'
  BY DEF OneEntryPerSession, TableTyped, OpenOf, table
<1>8. SweptByOne'
  <2>1. OthersStay(p) /\ pc[p] \notin Sweeping /\ pc'[p] \notin Sweeping
    BY DEF OthersStay, LocalsTyped, Sweeping, OpenOf, Goto, locals
  <2>2. \A e \in Entries : state'[e] = "CLOSING" <=> state[e] = "CLOSING"
    BY DEF TableTyped, OpenOf, table
  <2> QED BY <2>1, <2>2, SweepFrame DEF LocalsTyped
<1> QED BY <1>1, <1>2, <1>3, <1>4, <1>5, <1>6, <1>7, <1>8

\* The entry becomes OPEN.
LEMMA OpenPublishInv == ASSUME IInv, NEW p \in Procs, OpenPublish(p) PROVE IInv'
<1> USE TableAssumption DEF IInv, OpenPublish
<1>1. LocalsTyped'
  BY EntriesSymbols DEF LocalsTyped, Labels, DataPath, InHandTyped, Goto, locals
<1>2. TableTyped'
  BY EntriesSymbols DEF TableTyped, InHandTyped, LocalsTyped, DataPath, arena
<1>3. InboxTyped'
  BY DEF InboxTyped, manager
<1>4. InHandTyped'
  BY EntriesSymbols DEF InHandTyped, LocalsTyped, TableTyped, DataPath, Goto, locals
<1>5. LockHeld'
  BY EntriesSymbols DEF LockHeld, LocalsTyped, Critical, Goto
<1>6. Published'
  BY EntriesSymbols DEF Published, LockHeld, Critical, LocalsTyped, TableTyped,
                        InHandTyped, DataPath, OpenOf, Goto, locals
<1>7. OneEntryPerSession'
  BY DEF OneEntryPerSession, Published, OpenOf, TableTyped, InHandTyped
<1>8. SweptByOne'
  <2>1. OthersStay(p) /\ pc[p] \notin Sweeping /\ pc'[p] \notin Sweeping
    BY DEF OthersStay, LocalsTyped, Sweeping, Goto, locals
  <2>2. \A e \in Entries : state'[e] = "CLOSING" <=> state[e] = "CLOSING"
    BY DEF TableTyped, Published
  <2> QED BY <2>1, <2>2, SweepFrame DEF LocalsTyped
<1> QED BY <1>1, <1>2, <1>3, <1>4, <1>5, <1>6, <1>7, <1>8

\* The lock is released.
LEMMA OpenUnlockInv == ASSUME IInv, NEW p \in Procs, OpenUnlock(p) PROVE IInv'
<1> USE TableAssumption DEF IInv, OpenUnlock
<1>1. LocalsTyped'
  BY ReturnTyped DEF LocalsTyped, Labels, DataPath, InHandTyped, Goto
<1>2. TableTyped'
  BY EntriesSymbols DEF TableTyped, InHandTyped, LocalsTyped, DataPath, table, arena
<1>3. InboxTyped'
  BY DEF InboxTyped, manager
<1>4. InHandTyped'
  BY EntriesSymbols DEF InHandTyped, LocalsTyped, TableTyped, DataPath, Return, Goto
<1>5. LockHeld'
  BY EntriesSymbols DEF LockHeld, LocalsTyped, Critical, Return, Goto
<1>6. Published'
  BY EntriesSymbols DEF Published, LockHeld, Critical, LocalsTyped, TableTyped,
                        InHandTyped, DataPath, OpenOf, Return, Goto, table
<1>7. OneEntryPerSession'
  BY DEF OneEntryPerSession, TableTyped, table
<1>8. SweptByOne'
  <2>1. OthersStay(p) /\ pc[p] \notin Sweeping /\ pc'[p] \notin Sweeping
    BY DEF OthersStay, LocalsTyped, Sweeping, Return, Goto
  <2>2. \A e \in Entries : state'[e] = "CLOSING" <=> state[e] = "CLOSING"
    BY DEF TableTyped, table
  <2> QED BY <2>1, <2>2, SweepFrame DEF LocalsTyped
<1> QED BY <1>1, <1>2, <1>3, <1>4, <1>5, <1>6, <1>7, <1>8

\* PurgeSession is taken.
LEMMA HandlePurgeInv == ASSUME IInv, NEW p \in Procs, HandlePurge(p) PROVE IInv'
<1> USE TableAssumption DEF IInv, HandlePurge
<1>a. Head(inbox[p]).id \in Sessions
  BY HeadTyped DEF Message
<1>1. LocalsTyped'
  BY <1>a DEF LocalsTyped, Labels, Message, TakeMessage, Goto
<1>2. TableTyped'
  BY EntriesSymbols DEF TableTyped, table, arena
<1>3. InboxTyped'
  BY HeadTyped DEF InboxTyped, Message, TakeMessage, manager
<1>4. InHandTyped'
  BY <1>a DEF InHandTyped, LocalsTyped, DataPath, Message, TakeMessage, Goto
<1>5. LockHeld'
  BY EntriesSymbols DEF LockHeld, LocalsTyped, Critical, Message, Goto
<1>6. Published'
  BY EntriesSymbols DEF Published, LockHeld, Critical, LocalsTyped, TableTyped,
                        InHandTyped, DataPath, OpenOf, Message, TakeMessage, Goto, table
<1>7. OneEntryPerSession'
  BY DEF OneEntryPerSession, TableTyped, table
<1>8. SweptByOne'
  <2>1. OthersStay(p) /\ pc[p] \notin Sweeping /\ pc'[p] \notin Sweeping
    BY DEF OthersStay, LocalsTyped, Sweeping, Message, TakeMessage, Goto
  <2>2. \A e \in Entries : state'[e] = "CLOSING" <=> state[e] = "CLOSING"
    BY DEF TableTyped, table
  <2> QED BY <2>1, <2>2, SweepFrame DEF LocalsTyped
<1> QED BY <1>1, <1>2, <1>3, <1>4, <1>5, <1>6, <1>7, <1>8

\* The CAS on the lock.
LEMMA CloseLockInv == ASSUME IInv, NEW p \in Procs, CloseLock(p) PROVE IInv'
<1> USE TableAssumption DEF IInv, CloseLock
<1>1. LocalsTyped'
  BY EntriesSymbols DEF LocalsTyped, Labels, DataPath, InHandTyped, Acquire, Goto,
                        locals
<1>2. TableTyped'
  BY EntriesSymbols DEF TableTyped, Acquire, table, arena
<1>3. InboxTyped'
  BY DEF InboxTyped, Acquire, manager
<1>4. InHandTyped'
  BY EntriesSymbols DEF InHandTyped, LocalsTyped, TableTyped, DataPath, Acquire, Goto,
                        locals
<1>5. LockHeld'
  BY EntriesSymbols DEF LockHeld, LocalsTyped, Critical, Acquire, Goto
<1>6. Published'
  BY EntriesSymbols DEF Published, LockHeld, Critical, LocalsTyped, TableTyped,
                        InHandTyped, DataPath, OpenOf, Acquire, Goto, table, locals
<1>7. OneEntryPerSession'
  BY DEF OneEntryPerSession, TableTyped, Acquire, table
<1>8. SweptByOne'
  <2>1. OthersStay(p) /\ pc[p] \notin Sweeping /\ pc'[p] \notin Sweeping
    BY DEF OthersStay, LocalsTyped, Sweeping, Acquire, Goto, locals
  <2>2. \A e \in Entries : state'[e] = "CLOSING" <=> state[e] = "CLOSING"
    BY DEF TableTyped, Acquire, table
  <2> QED BY <2>1, <2>2, SweepFrame DEF LocalsTyped
<1> QED BY <1>1, <1>2, <1>3, <1>4, <1>5, <1>6, <1>7, <1>8

\* The entry becomes CLOSING.
LEMMA CloseClaimInv == ASSUME IInv, NEW p \in Procs, CloseClaim(p) PROVE IInv'
<1> USE TableAssumption DEF IInv, CloseClaim
<1>a. \/ OpenOf(ses[p]) = {} /\ UNCHANGED <<ent, state>>
      \/ \E e \in Entries : /\ state[e] = "OPEN" /\ id[e] = ses[p]
                           /\ ent' = [ent EXCEPT ![p] = e]
                           /\ state' = [state EXCEPT ![e] = "CLOSING"]
  BY FirstOpen
<1>b. pc' = [pc EXCEPT ![p] = "closeUnlock"]
  BY DEF Goto
<1>1. LocalsTyped'
  BY <1>a, <1>b DEF LocalsTyped, Labels
<1>2. TableTyped'
  <2>1. \E R \in SUBSET {"torn", "late"} : races' = races \cup R
    <3>1. CASE OpenOf(ses[p]) = {}
      BY <3>1
    <3>2. CASE OpenOf(ses[p]) # {}
      <4> DEFINE e == First(OpenOf(ses[p]))
                 L == IF Storing(e) # {} THEN {"late"} ELSE {}
                 D == IF Decoding(e) # {} THEN {"torn"} ELSE {}
      <4>1. races' = races \cup (L \cup D)
        BY <3>2
      <4>2. L \cup D \in SUBSET {"torn", "late"}
        OBVIOUS
      <4> QED BY <4>1, <4>2
    <3> QED BY <3>1, <3>2
  <2>2. races' \in SUBSET {"gathered", "swept", "torn", "late"}
    BY <2>1 DEF TableTyped
  <2> QED BY <1>a, <2>2 DEF TableTyped, arena
<1>3. InboxTyped'
  BY DEF InboxTyped, manager
<1>4. InHandTyped'
  BY <1>a, <1>b DEF InHandTyped, LocalsTyped, DataPath
<1>5. LockHeld'
  BY EntriesSymbols DEF LockHeld, LocalsTyped, Critical, Goto
<1>6. Published'
  <2>1. \A q \in Procs : pc'[q] # "publish"
    BY <1>b DEF LockHeld, Critical, LocalsTyped
  <2> QED BY <2>1 DEF Published
<1>7. OneEntryPerSession'
  BY <1>a DEF OneEntryPerSession, TableTyped
<1>8. SweptByOne'
  <2>1. pc[p] = "claim" /\ ent[p] = None
    BY DEF InHandTyped
  <2>2. CASE UNCHANGED <<ent, state>>
    BY <1>b, <2>1, <2>2 DEF SweptByOne, Sweeping, LocalsTyped
  <2>3. ASSUME NEW e \in Entries, state[e] = "OPEN", ent' = [ent EXCEPT ![p] = e],
               state' = [state EXCEPT ![e] = "CLOSING"]
        PROVE  SweptByOne'
    <3>1. \A q \in Procs : pc[q] \in Sweeping => ent[q] # e
      BY <2>3, EntriesSymbols DEF SweptByOne
    <3>2. /\ \A q \in Procs \ {p} : pc'[q] = pc[q] /\ ent'[q] = ent[q]
          /\ pc'[p] = "closeUnlock" /\ ent'[p] = e
      BY <1>b, <2>3 DEF LocalsTyped
    <3>3. \A f \in Entries : state'[f] = IF f = e THEN "CLOSING" ELSE state[f]
      BY <2>3 DEF TableTyped
    <3>4. \A q \in Procs : ent[q] # None => ent[q] \in Entries
      BY DEF LocalsTyped
    <3> QED BY <2>1, <3>1, <3>2, <3>3, <3>4, EntriesSymbols DEF SweptByOne, Sweeping
  <2> QED BY <1>a, <2>2, <2>3
<1> QED BY <1>1, <1>2, <1>3, <1>4, <1>5, <1>6, <1>7, <1>8

\* The lock is released.
LEMMA CloseUnlockInv == ASSUME IInv, NEW p \in Procs, CloseUnlock(p) PROVE IInv'
<1> USE TableAssumption DEF IInv, CloseUnlock
<1>1. LocalsTyped'
  BY EntriesSymbols DEF LocalsTyped, Labels, DataPath, InHandTyped, Goto, locals
<1>2. TableTyped'
  BY EntriesSymbols DEF TableTyped, table, arena
<1>3. InboxTyped'
  BY DEF InboxTyped, manager
<1>4. InHandTyped'
  BY EntriesSymbols DEF InHandTyped, LocalsTyped, TableTyped, DataPath, Goto, locals
<1>5. LockHeld'
  BY EntriesSymbols DEF LockHeld, LocalsTyped, Critical, Goto
<1>6. Published'
  BY EntriesSymbols DEF Published, LockHeld, Critical, LocalsTyped, TableTyped,
                        InHandTyped, DataPath, OpenOf, Goto, table, locals
<1>7. OneEntryPerSession'
  BY DEF OneEntryPerSession, TableTyped, table
<1>8. SweptByOne'
  BY EntriesSymbols DEF SweptByOne, Sweeping, LocalsTyped, TableTyped, InHandTyped,
                        Goto, table, locals
<1> QED BY <1>1, <1>2, <1>3, <1>4, <1>5, <1>6, <1>7, <1>8

\* One turn of the sweep.
LEMMA SweepInv == ASSUME IInv, NEW p \in Procs, Sweep(p) PROVE IInv'
<1> USE TableAssumption DEF IInv, Sweep
<1>1. LocalsTyped'
  BY EntriesSymbols DEF LocalsTyped, Labels, DataPath, InHandTyped
<1>2. TableTyped'
  <2>1. ent[p] \in Entries /\ at[p] \in Symbols
    BY EntriesSymbols DEF InHandTyped, LocalsTyped
  <2>2. holder' \in [Slots -> {Free} \cup {Hand(q) : q \in Procs} \cup (Entries \X Symbols)]
    BY <2>1 DEF FreeSlot, TableTyped, arena
  <2>3. misfreed' \in BOOLEAN
    BY <2>1 DEF FreeSlot, TableTyped, arena
  <2>4. races' \in SUBSET {"gathered", "swept", "torn", "late"}
    BY DEF Note, TableTyped
  <2> QED BY <2>2, <2>3, <2>4 DEF TableTyped, table
<1>3. InboxTyped'
  BY DEF InboxTyped, manager
<1>4. InHandTyped'
  BY EntriesSymbols DEF InHandTyped, LocalsTyped, TableTyped, DataPath
<1>5. LockHeld'
  BY EntriesSymbols DEF LockHeld, LocalsTyped, Critical
<1>6. Published'
  BY EntriesSymbols DEF Published, LockHeld, Critical, LocalsTyped, TableTyped,
                        InHandTyped, DataPath, OpenOf, table
<1>7. OneEntryPerSession'
  BY DEF OneEntryPerSession, TableTyped, table
<1>8. SweptByOne'
  BY EntriesSymbols DEF SweptByOne, Sweeping, LocalsTyped, TableTyped, InHandTyped,
                        table
<1> QED BY <1>1, <1>2, <1>3, <1>4, <1>5, <1>6, <1>7, <1>8

\* The swept table is zeroed.
LEMMA SweepResetInv == ASSUME IInv, NEW p \in Procs, SweepReset(p) PROVE IInv'
<1> USE TableAssumption DEF IInv, SweepReset
<1>1. LocalsTyped'
  BY EntriesSymbols DEF LocalsTyped, Labels, DataPath, InHandTyped, Goto, locals
<1>2. TableTyped'
  BY EntriesSymbols DEF TableTyped, InHandTyped, LocalsTyped, DataPath, arena
<1>3. InboxTyped'
  BY DEF InboxTyped, manager
<1>4. InHandTyped'
  BY EntriesSymbols DEF InHandTyped, LocalsTyped, TableTyped, DataPath, Goto, locals
<1>5. LockHeld'
  BY EntriesSymbols DEF LockHeld, LocalsTyped, Critical, Goto
<1>6. Published'
  BY EntriesSymbols DEF Published, LockHeld, Critical, LocalsTyped, TableTyped,
                        InHandTyped, DataPath, OpenOf, Goto, locals
<1>7. OneEntryPerSession'
  BY DEF OneEntryPerSession, TableTyped
<1>8. SweptByOne'
  BY EntriesSymbols DEF SweptByOne, Sweeping, LocalsTyped, TableTyped, InHandTyped,
                        Goto, locals
<1> QED BY <1>1, <1>2, <1>3, <1>4, <1>5, <1>6, <1>7, <1>8

\* The entry becomes EMPTY.
LEMMA ClosePublishInv == ASSUME IInv, NEW p \in Procs, ClosePublish(p) PROVE IInv'
<1> USE TableAssumption DEF IInv, ClosePublish
<1>1. LocalsTyped'
  BY EntriesSymbols DEF LocalsTyped, Labels, DataPath, InHandTyped, Goto, locals
<1>2. TableTyped'
  BY EntriesSymbols DEF TableTyped, InHandTyped, LocalsTyped, DataPath, arena
<1>3. InboxTyped'
  BY DEF InboxTyped, manager
<1>4. InHandTyped'
  BY EntriesSymbols DEF InHandTyped, LocalsTyped, TableTyped, DataPath, Goto, locals
<1>5. LockHeld'
  BY EntriesSymbols DEF LockHeld, LocalsTyped, Critical, Goto
<1>6. Published'
  BY EntriesSymbols DEF Published, LockHeld, Critical, LocalsTyped, TableTyped,
                        InHandTyped, DataPath, OpenOf, Goto, locals
<1>7. OneEntryPerSession'
  BY DEF OneEntryPerSession, TableTyped
<1>8. SweptByOne'
  BY EntriesSymbols DEF SweptByOne, Sweeping, LocalsTyped, TableTyped, InHandTyped,
                        Goto, locals
<1> QED BY <1>1, <1>2, <1>3, <1>4, <1>5, <1>6, <1>7, <1>8

\* The context is erased.
LEMMA PurgeEraseInv == ASSUME IInv, NEW p \in Procs, PurgeErase(p) PROVE IInv'
<1> USE TableAssumption DEF IInv, PurgeErase
<1>1. LocalsTyped'
  BY ReturnTyped DEF LocalsTyped, Labels, DataPath, InHandTyped, Goto
<1>2. TableTyped'
  BY EntriesSymbols DEF TableTyped, table, arena
<1>3. InboxTyped'
  BY DEF InboxTyped, manager
<1>4. InHandTyped'
  BY EntriesSymbols DEF InHandTyped, LocalsTyped, TableTyped, DataPath, Return, Goto
<1>5. LockHeld'
  BY EntriesSymbols DEF LockHeld, LocalsTyped, Critical, Return, Goto
<1>6. Published'
  BY EntriesSymbols DEF Published, LockHeld, Critical, LocalsTyped, TableTyped,
                        InHandTyped, DataPath, OpenOf, Return, Goto, table
<1>7. OneEntryPerSession'
  BY DEF OneEntryPerSession, TableTyped, table
<1>8. SweptByOne'
  <2>1. OthersStay(p) /\ pc[p] \notin Sweeping /\ pc'[p] \notin Sweeping
    BY DEF OthersStay, LocalsTyped, Sweeping, Return, Goto
  <2>2. \A e \in Entries : state'[e] = "CLOSING" <=> state[e] = "CLOSING"
    BY DEF TableTyped, table
  <2> QED BY <2>1, <2>2, SweepFrame DEF LocalsTyped
<1> QED BY <1>1, <1>2, <1>3, <1>4, <1>5, <1>6, <1>7, <1>8

\* A packet passes the checks.
LEMMA ReceiveInv == ASSUME IInv, NEW p \in Procs, Receive(p) PROVE IInv'
<1> USE TableAssumption DEF IInv, Receive
<1>1. LocalsTyped'
  BY EntriesSymbols DEF LocalsTyped, Labels, DataPath, InHandTyped, TableTyped, Goto
<1>2. TableTyped'
  BY EntriesSymbols DEF TableTyped, table, arena
<1>3. InboxTyped'
  BY DEF InboxTyped, manager
<1>4. InHandTyped'
  BY EntriesSymbols DEF InHandTyped, LocalsTyped, TableTyped, DataPath, Goto
<1> QED BY <1>1, <1>2, <1>3, <1>4, ReceiveOnPath, DataFrame

\* alloc_slot().
LEMMA AllocSlotInv == ASSUME IInv, NEW p \in Procs, AllocSlot(p) PROVE IInv'
<1> USE TableAssumption DEF IInv, AllocSlot
<1>1. LocalsTyped'
  BY EntriesSymbols DEF LocalsTyped, Labels, DataPath, InHandTyped, Goto
<1>2. TableTyped'
  BY EntriesSymbols DEF TableTyped, InHandTyped, LocalsTyped, DataPath, table
<1>3. InboxTyped'
  BY DEF InboxTyped, manager
<1>4. InHandTyped'
  BY EntriesSymbols DEF InHandTyped, LocalsTyped, TableTyped, DataPath, Goto
<1> QED BY <1>1, <1>2, <1>3, <1>4, PacketOnPath, DataFrame DEF Packet

\* alloc_slot() has none.
LEMMA ArenaExhaustedInv == ASSUME IInv, NEW p \in Procs, ArenaExhausted(p) PROVE IInv'
<1> USE TableAssumption DEF IInv, ArenaExhausted
<1>1. LocalsTyped'
  BY ReturnTyped DEF LocalsTyped, Labels, DataPath, InHandTyped, Goto
<1>2. TableTyped'
  BY EntriesSymbols DEF TableTyped, table, arena
<1>3. InboxTyped'
  BY DEF InboxTyped, manager
<1>4. InHandTyped'
  BY EntriesSymbols DEF InHandTyped, LocalsTyped, TableTyped, DataPath, Return, Goto
<1> QED BY <1>1, <1>2, <1>3, <1>4, PacketOnPath, DataFrame DEF Packet

\* The CAS on the mask.
LEMMA RegisterBitInv == ASSUME IInv, NEW p \in Procs, RegisterBit(p) PROVE IInv'
<1> USE TableAssumption DEF IInv, RegisterBit
<1>1. LocalsTyped'
  BY EntriesSymbols DEF LocalsTyped, Labels, DataPath, InHandTyped, Goto, locals
<1>2. TableTyped'
  BY EntriesSymbols DEF TableTyped, InHandTyped, LocalsTyped, DataPath, arena
<1>3. InboxTyped'
  BY DEF InboxTyped, manager
<1>4. InHandTyped'
  BY EntriesSymbols DEF InHandTyped, LocalsTyped, TableTyped, DataPath, Goto, locals
<1> QED BY <1>1, <1>2, <1>3, <1>4, PacketOnPath, DataFrame DEF Packet

\* The slot of a duplicate goes back.
LEMMA RegisterDuplicateInv == ASSUME IInv, NEW p \in Procs, RegisterDuplicate(p) PROVE IInv'
<1> USE TableAssumption DEF IInv, RegisterDuplicate
<1>1. LocalsTyped'
  BY ReturnTyped DEF LocalsTyped, Labels, DataPath, InHandTyped, Goto
<1>2. TableTyped'
  BY EntriesSymbols DEF TableTyped, InHandTyped, LocalsTyped, DataPath, FreeSlot, table
<1>3. InboxTyped'
  BY DEF InboxTyped, manager
<1>4. InHandTyped'
  BY EntriesSymbols DEF InHandTyped, LocalsTyped, TableTyped, DataPath, Return, Goto
<1> QED BY <1>1, <1>2, <1>3, <1>4, PacketOnPath, DataFrame DEF Packet

\* The link, the count and the claim.
LEMMA RegisterLinkInv == ASSUME IInv, NEW p \in Procs, RegisterLink(p) PROVE IInv'
<1> USE TableAssumption DEF IInv, RegisterLink
<1>1. LocalsTyped'
  <2>1. CASE Return(p)
    BY <2>1, ReturnTyped
  <2>2. CASE ~Return(p)
    BY <2>2 DEF LocalsTyped, Labels, DataPath, Goto, locals
  <2> QED BY <2>1, <2>2
<1>2. TableTyped'
  <2>1. ent[p] \in Entries /\ sym[p] \in Symbols /\ slot[p] \in Slots
    BY DEF InHandTyped, DataPath
  <2>2. link' \in [Entries -> [Symbols -> Slots \cup {SlotFree}]]
    BY <2>1 DEF TableTyped
  <2>3. holder' \in [Slots -> {Free} \cup {Hand(q) : q \in Procs} \cup (Entries \X Symbols)]
    BY <2>1 DEF TableTyped, Cell
  <2>4. seen' \in [Entries -> Nat]
    BY <2>1 DEF TableTyped
  <2>5. latch' \in [Entries -> {"PENDING", "CLAIMED", "COMPLETE"}]
    <3>1. latch' \in {latch, [latch EXCEPT ![ent[p]] = "CLAIMED"]}
      OBVIOUS
    <3> QED BY <2>1, <3>1 DEF TableTyped
  <2>6. races' \in SUBSET {"gathered", "swept", "torn", "late"}
    BY DEF Note, TableTyped
  <2> QED BY <2>2, <2>3, <2>4, <2>5, <2>6 DEF TableTyped
<1>3. InboxTyped'
  BY DEF InboxTyped, manager
<1>4. InHandTyped'
  BY EntriesSymbols DEF InHandTyped, LocalsTyped, TableTyped, DataPath, Return, Goto,
                        locals
<1> QED BY <1>1, <1>2, <1>3, <1>4, PacketOnPath, DataFrame DEF Packet

\* The gather loop.
LEMMA GatherInv == ASSUME IInv, NEW p \in Procs, Gather(p) PROVE IInv'
<1> USE TableAssumption DEF IInv, Gather
<1>1. LocalsTyped'
  BY EntriesSymbols DEF LocalsTyped, Labels, DataPath, InHandTyped, TableTyped, Goto
<1>2. TableTyped'
  BY EntriesSymbols DEF TableTyped, Note, table, arena
<1>3. InboxTyped'
  BY DEF InboxTyped, manager
<1>4. InHandTyped'
  BY EntriesSymbols DEF InHandTyped, LocalsTyped, TableTyped, DataPath, Goto
<1> QED BY <1>1, <1>2, <1>3, <1>4, PacketOnPath, DataFrame DEF Packet

\* The latch becomes COMPLETE.
LEMMA MarkCompleteInv == ASSUME IInv, NEW p \in Procs, MarkComplete(p) PROVE IInv'
<1> USE TableAssumption DEF IInv, MarkComplete
<1>1. LocalsTyped'
  BY EntriesSymbols DEF LocalsTyped, Labels, DataPath, InHandTyped, Goto, locals
<1>2. TableTyped'
  BY EntriesSymbols DEF TableTyped, InHandTyped, LocalsTyped, DataPath, arena
<1>3. InboxTyped'
  BY DEF InboxTyped, manager
<1>4. InHandTyped'
  BY EntriesSymbols DEF InHandTyped, LocalsTyped, TableTyped, DataPath, Goto, locals
<1> QED BY <1>1, <1>2, <1>3, <1>4, PacketOnPath, DataFrame DEF Packet

\* The decode fails, and the block stays as it is.
LEMMA DecodeFailsInv == ASSUME IInv, NEW p \in Procs, DecodeFails(p) PROVE IInv'
<1> USE TableAssumption DEF IInv, DecodeFails
<1>1. LocalsTyped'
  BY ReturnTyped DEF LocalsTyped, Labels, DataPath, InHandTyped, Goto
<1>2. TableTyped'
  BY EntriesSymbols DEF TableTyped, table, arena
<1>3. InboxTyped'
  BY DEF InboxTyped, manager
<1>4. InHandTyped'
  BY EntriesSymbols DEF InHandTyped, LocalsTyped, TableTyped, DataPath, Return, Goto
<1> QED BY <1>1, <1>2, <1>3, <1>4, PacketOnPath, DataFrame DEF Packet

\* The block is not the decoder's any more.
LEMMA DecodeLostInv == ASSUME IInv, NEW p \in Procs, DecodeLost(p) PROVE IInv'
<1> USE TableAssumption DEF IInv, DecodeLost
<1>1. LocalsTyped'
  BY ReturnTyped DEF LocalsTyped, Labels, DataPath, InHandTyped, Goto
<1>2. TableTyped'
  BY EntriesSymbols DEF TableTyped, table, arena
<1>3. InboxTyped'
  BY DEF InboxTyped, manager
<1>4. InHandTyped'
  BY EntriesSymbols DEF InHandTyped, LocalsTyped, TableTyped, DataPath, Return, Goto
<1> QED BY <1>1, <1>2, <1>3, <1>4, PacketOnPath, DataFrame DEF Packet

\* free_slot() of the release loop.
LEMMA ReleaseSlotInv == ASSUME IInv, NEW p \in Procs, ReleaseSlot(p) PROVE IInv'
<1> USE TableAssumption DEF IInv, ReleaseSlot
<1>1. LocalsTyped'
  BY EntriesSymbols DEF LocalsTyped, Labels, DataPath, InHandTyped, Goto, locals
<1>2. TableTyped'
  <2>1. UNCHANGED <<lock, local, table>> /\ ent[p] \in Entries /\ at[p] \in got[p]
    BY DEF InHandTyped, DataPath
  <2>2. at[p] \in Symbols /\ link[ent[p]][at[p]] \in Slots \cup {SlotFree}
    BY <2>1 DEF LocalsTyped, TableTyped
  <2>3. misfreed' \in BOOLEAN
    BY DEF FreeSlot, TableTyped
  <2>4. holder' \in [Slots -> {Free} \cup {Hand(q) : q \in Procs} \cup (Entries \X Symbols)]
    BY <2>2 DEF FreeSlot, TableTyped
  <2> QED BY <2>1, <2>3, <2>4 DEF TableTyped, table
<1>3. InboxTyped'
  BY DEF InboxTyped, manager
<1>4. InHandTyped'
  BY EntriesSymbols DEF InHandTyped, LocalsTyped, TableTyped, DataPath, Goto, locals
<1> QED BY <1>1, <1>2, <1>3, <1>4, PacketOnPath, DataFrame DEF Packet

\* clear_slot() of the release loop.
LEMMA ClearSlotInv == ASSUME IInv, NEW p \in Procs, ClearSlot(p) PROVE IInv'
<1> USE TableAssumption DEF IInv, ClearSlot
<1>1. LocalsTyped'
  BY EntriesSymbols DEF LocalsTyped, Labels, DataPath, InHandTyped, Goto
<1>2. TableTyped'
  BY EntriesSymbols DEF TableTyped, InHandTyped, LocalsTyped, DataPath, arena
<1>3. InboxTyped'
  BY DEF InboxTyped, manager
<1>4. InHandTyped'
  BY EntriesSymbols DEF InHandTyped, LocalsTyped, TableTyped, DataPath, Goto
<1> QED BY <1>1, <1>2, <1>3, <1>4, PacketOnPath, DataFrame DEF Packet

\* A symbol that was not gathered.
LEMMA ReleaseSkipInv == ASSUME IInv, NEW p \in Procs, ReleaseSkip(p) PROVE IInv'
<1> USE TableAssumption DEF IInv, ReleaseSkip
<1>1. LocalsTyped'
  BY EntriesSymbols DEF LocalsTyped, Labels, DataPath, InHandTyped
<1>2. TableTyped'
  BY EntriesSymbols DEF TableTyped, table, arena
<1>3. InboxTyped'
  BY DEF InboxTyped, manager
<1>4. InHandTyped'
  BY EntriesSymbols DEF InHandTyped, LocalsTyped, TableTyped, DataPath
<1> QED BY <1>1, <1>2, <1>3, <1>4, PacketOnPath, DataFrame DEF Packet

\* The block is reported.
LEMMA ReleaseDoneInv == ASSUME IInv, NEW p \in Procs, ReleaseDone(p) PROVE IInv'
<1> USE TableAssumption DEF IInv, ReleaseDone
<1>1. LocalsTyped'
  BY ReturnTyped DEF LocalsTyped, Labels, DataPath, InHandTyped, Goto
<1>2. TableTyped'
  BY EntriesSymbols DEF TableTyped, table, arena
<1>3. InboxTyped'
  BY DEF InboxTyped, manager
<1>4. InHandTyped'
  BY EntriesSymbols DEF InHandTyped, LocalsTyped, TableTyped, DataPath, Return, Goto
<1> QED BY <1>1, <1>2, <1>3, <1>4, PacketOnPath, DataFrame DEF Packet

\* session_manager broadcasts.
LEMMA BroadcastInv ==
  ASSUME IInv, NEW x \in Sessions, BroadcastOpen(x) \/ BroadcastPurge(x) PROVE IInv'
<1> USE DEF IInv
<1>1. UNCHANGED <<lock, table, arena, races, local, pc, locals>>
  BY DEF BroadcastOpen, BroadcastPurge
<1>2. LocalsTyped' /\ InHandTyped'
  BY <1>1 DEF LocalsTyped, InHandTyped, locals
<1>3. TableTyped' /\ LockHeld' /\ Published' /\ OneEntryPerSession' /\ SweptByOne'
  BY <1>1 DEF TableTyped, LockHeld, Published, OpenOf, OneEntryPerSession, SweptByOne,
              table, arena, locals
<1>4. PICK m \in Messages : inbox' = [p \in Procs |-> Append(inbox[p], m)]
  BY DEF BroadcastOpen, BroadcastPurge, Broadcast, Messages
<1>5. sent' = sent + 1 /\ sent' \in 0 .. MaxBroadcasts
  BY TableAssumption DEF BroadcastOpen, BroadcastPurge, Broadcast, InboxTyped
<1>6. live' \subseteq opened' /\ opened' \in SUBSET Sessions
  BY DEF BroadcastOpen, BroadcastPurge, InboxTyped
<1>7. ASSUME NEW p \in Procs
      PROVE  inbox'[p] \in Seq(Messages) /\ Len(inbox'[p]) <= sent'
  <2>1. inbox[p] \in Seq(Messages) /\ Len(inbox[p]) <= sent /\ inbox'[p] = Append(inbox[p], m)
    BY <1>4 DEF InboxTyped
  <2>2. inbox'[p] \in Seq(Messages) /\ Len(inbox'[p]) = Len(inbox[p]) + 1
    BY <2>1
  <2>3. Len(inbox[p]) \in Nat /\ sent \in Int
    BY <2>1, TableAssumption DEF InboxTyped
  <2> QED BY <1>5, <2>1, <2>2, <2>3
<1>8. inbox' \in [Procs -> Seq(Messages)]
  BY <1>4, <1>7
<1>9. InboxTyped'
  BY <1>5, <1>6, <1>7, <1>8 DEF InboxTyped
<1> QED BY <1>2, <1>3, <1>9

\* At the start the table is empty and the lock is free.
LEMMA InitInv == Init => IInv
<1> SUFFICES ASSUME Init PROVE IInv
  OBVIOUS
<1> USE EntriesSymbols DEF Init
<1>1. LocalsTyped /\ InHandTyped
  BY DEF LocalsTyped, Labels, InHandTyped, DataPath
<1>2. TableTyped
  <2>1. link \in [Entries -> [Symbols -> Slots \cup {SlotFree}]]
    OBVIOUS
  <2>2. holder \in [Slots -> {Free} \cup {Hand(p) : p \in Procs} \cup (Entries \X Symbols)]
    OBVIOUS
  <2>3. local \in [Procs -> [Sessions -> Entries \cup {None}]]
    OBVIOUS
  <2> QED BY <2>1, <2>2, <2>3 DEF TableTyped
<1>3. InboxTyped
  BY TableAssumption DEF InboxTyped
<1>4. LockHeld /\ Published /\ OneEntryPerSession /\ SweptByOne
  BY DEF LockHeld, Critical, Published, OneEntryPerSession, SweptByOne, Sweeping
<1> QED BY <1>1, <1>2, <1>3, <1>4 DEF IInv

\* Every step keeps the invariant.
LEMMA NextInv == IInv /\ [Next]_vars => IInv'
<1> SUFFICES ASSUME IInv, [Next]_vars PROVE IInv'
  OBVIOUS
<1>1. CASE UNCHANGED vars
  BY <1>1 DEF vars, IInv, LocalsTyped, TableTyped, InboxTyped, InHandTyped, LockHeld,
              Published, OpenOf, OneEntryPerSession, SweptByOne
<1>2. ASSUME NEW x \in Sessions, BroadcastOpen(x) \/ BroadcastPurge(x) PROVE IInv'
  BY <1>2, BroadcastInv
<1>3. ASSUME NEW p \in Procs, Open(p) PROVE IInv'
  BY <1>3, HandleOpenInv, OpenLockInv, OpenFoundInv, OpenFillInv, OpenFullInv,
     OpenPublishInv, OpenUnlockInv DEF Open
<1>4. ASSUME NEW p \in Procs, Purge(p) PROVE IInv'
  BY <1>4, HandlePurgeInv, CloseLockInv, CloseClaimInv, CloseUnlockInv, SweepInv,
     SweepResetInv, ClosePublishInv, PurgeEraseInv DEF Purge
<1>5. ASSUME NEW p \in Procs, Receive(p) PROVE IInv'
  BY <1>5, ReceiveInv
<1>6. ASSUME NEW p \in Procs, Packet(p) PROVE IInv'
  BY <1>6, AllocSlotInv, ArenaExhaustedInv, RegisterBitInv, RegisterDuplicateInv,
     RegisterLinkInv, GatherInv, DecodeFailsInv, MarkCompleteInv, DecodeLostInv,
     ReleaseSlotInv, ClearSlotInv, ReleaseSkipInv, ReleaseDoneInv DEF Packet
<1> QED BY <1>1, <1>2, <1>3, <1>4, <1>5, <1>6 DEF Next

\* The invariant holds in every state of every behaviour.
LEMMA SpecInv == Spec => []IInv
BY InitInv, NextInv, PTL DEF Spec

\* Every local and every shared word of the table keeps its type, and no channel
\* holds more than was broadcast.
THEOREM TableTypeCorrect == Spec => []TypeOK
<1>1. IInv => TypeOK
  BY DEF IInv, LocalsTyped, TableTyped, InboxTyped, TypeOK
<1> QED BY <1>1, SpecInv, PTL

\* However open_session() and close_session() of all receivers interleave, an id
\* never has two OPEN entries.
THEOREM SessionHasOneEntry == Spec => []OneEntryPerSession
BY SpecInv, PTL DEF IInv

\* However many receivers handle a PurgeSession, a CLOSING entry is swept by one
\* of them and no other entry by any.
THEOREM EntryHasOneSweeper == Spec => []OneSweeper
<1>1. ASSUME IInv, NEW e \in Entries
      PROVE  IF state[e] = "CLOSING"
             THEN \E p \in Procs : Closers(e) = {p}
             ELSE Closers(e) = {}
  <2>1. \A p \in Closers(e) : p \in Procs /\ pc[p] \in Sweeping /\ ent[p] = e
    BY DEF Closers, Sweeping
  <2>2. CASE state[e] = "CLOSING"
    <3>1. PICK p \in Procs : pc[p] \in Sweeping /\ ent[p] = e
      BY <1>1, <2>2 DEF IInv, SweptByOne
    <3>2. p \in Closers(e) /\ \A q \in Closers(e) : q = p
      BY <1>1, <2>1, <3>1, EntriesSymbols DEF IInv, SweptByOne, Closers, Sweeping
    <3> QED BY <2>2, <3>2
  <2>3. CASE state[e] # "CLOSING"
    BY <1>1, <2>1, <2>3, EntriesSymbols DEF IInv, SweptByOne
  <2> QED BY <2>2, <2>3
<1>2. IInv => OneSweeper
  BY <1>1 DEF OneSweeper
<1> QED BY <1>2, SpecInv, PTL

-----------------------------------------------------------------------------
(* Who holds the slots, in a behaviour without the races that let one be      *)
(* freed wrongly                                                              *)

\* The registrations that are done, and what the link of one is worth.
Linked(e) == present[e] \ Unlinked(e)
Holds(e, t) == link[e][t] # SlotFree /\ holder[link[e][t]] = Cell(e, t)

\* Symbol t is behind the sweep; being cleared; ahead of p's release loop.
Swept(e, t) == \E p \in Procs : pc[p] = "sweep" /\ ent[p] = e /\ t < at[p]
Clearing(e, t) == \E p \in Procs : pc[p] = "clear" /\ ent[p] = e /\ at[p] = t
Ahead(p, t) == t \in got[p] /\ (t > at[p] \/ (t = at[p] /\ pc[p] # "clear"))

\* A claim is one process's, which has its entry OPEN until it is done.
Decoders == {"gather", "mark", "release", "clear"}

Claims ==
  \A p \in Procs :
    /\ pc[p] \in Decoders =>
         /\ state[ent[p]] = "OPEN"
         /\ \A q \in Procs \ {p} : pc[q] \in Decoders => ent[q] # ent[p]
    /\ pc[p] \in {"gather", "mark"} => latch[ent[p]] = "CLAIMED"
    /\ pc[p] \in {"release", "clear"} => latch[ent[p]] = "COMPLETE"
    /\ pc[p] \notin {"sweep", "empty", "erase", "release", "clear"} => at[p] = 0

\* A slot in a process's hand is that process's.
HandHolds ==
  \A p \in Procs :
    /\ pc[p] \in {"register", "link"} => holder[slot[p]] = Hand(p)
    /\ \A s \in Slots : holder[s] = Hand(p) => pc[p] \in {"register", "link"} /\ slot[p] = s

\* What a decoder gathered had its link, and what is ahead of it still has it.
Carried ==
  \A p \in Procs, e \in Entries : pc[p] \in Decoders \ {"gather"} /\ ent[p] = e =>
    /\ got[p] \subseteq Linked(e)
    /\ pc[p] = "clear" => at[p] \in got[p]
    /\ \A t \in Symbols : Ahead(p, t) => Holds(e, t)

\* The link of a registered symbol has its slot until that is swept or released.
LinksGood ==
  \A e \in Entries : \A t \in Linked(e) :
    \/ Holds(e, t) \/ Swept(e, t) \/ Clearing(e, t)
    \/ link[e][t] = SlotFree /\ latch[e] = "COMPLETE"

SlotInv == Claims /\ HandHolds /\ Carried /\ LinksGood /\ ~misfreed

\* If no purge overtook a packet either, a packet in hand is for an OPEN entry, and
\* its registration is the only one of its symbol.
DataLive == \A p \in Procs : pc[p] \in DataPath => state[ent[p]] = "OPEN"

Linkers ==
  \A p, q \in Procs : pc[p] = "link" =>
    /\ sym[p] \in present[ent[p]]
    /\ pc[q] = "link" /\ ent[p] = ent[q] /\ sym[p] = sym[q] => p = q

\* An entry that nobody has holds no symbol.
EmptyBlank ==
  /\ \A e \in Entries : state[e] = "EMPTY" => present[e] = {}
  /\ \A p \in Procs : pc[p] = "empty" => present[ent[p]] = {}

\* A slot in the table is where its symbol's link says.
CellsLinked ==
  \A s \in Slots : \A e \in Entries, t \in Symbols :
    holder[s] = Cell(e, t) =>
      t \in Linked(e) /\ link[e][t] = s /\ ~Swept(e, t) /\ ~Clearing(e, t)

KeptInv == DataLive /\ Linkers /\ EmptyBlank /\ CellsLinked

\* What one step has to keep of the two.
SlotStep == SlotInv' /\ (KeptInv /\ races' = {} => KeptInv')

-----------------------------------------------------------------------------
(* Lemmas *)

\* Nothing is two holders.
LEMMA HoldersApart ==
  /\ \A p : Hand(p) # Free
  /\ \A p, q : Hand(p) = Hand(q) => p = q
  /\ \A e, t : Cell(e, t) # Free
  /\ \A e, t, p : Cell(e, t) # Hand(p)
  /\ \A e, t, f, u : Cell(e, t) = Cell(f, u) => e = f /\ t = u
BY DEF Hand, Cell, Free

\* No process sweeps an entry that is not CLOSING.
LEMMA NoSweep ==
  ASSUME SweptByOne, NEW e \in Entries, state[e] # "CLOSING"
  PROVE  \A t : ~Swept(e, t)
BY EntriesSymbols DEF SweptByOne, Sweeping, Swept

\* No process decodes or releases the block of an entry that is not OPEN.
LEMMA NoDecoder ==
  ASSUME Claims, InHandTyped, NEW e \in Entries, state[e] # "OPEN"
  PROVE  /\ \A p \in Procs : pc[p] \in Decoders => ent[p] # e
         /\ \A t : ~Clearing(e, t)
BY DEF Claims, Decoders, Clearing

\* Where an entry's link points, if it does.
LEMMA LinkTyped ==
  ASSUME TableTyped, NEW e \in Entries, NEW t \in Linked(e)
  PROVE  t \in Symbols /\ (link[e][t] # SlotFree => link[e][t] \in Slots)
<1>1. t \in Symbols
  BY DEF Linked, TableTyped
<1> QED BY <1>1 DEF TableTyped

\* A step of p that neither begins nor ends a registration in e.
LEMMA UnlinkedStays ==
  ASSUME NEW p \in Procs, OthersStay(p), NEW e,
         ~(pc[p] = "link" /\ ent[p] = e), ~(pc'[p] = "link" /\ ent'[p] = e)
  PROVE  Unlinked(e)' = Unlinked(e)
<1> USE DEF OthersStay
<1>1. {q \in Procs : pc'[q] = "link" /\ ent'[q] = e}
        = {q \in Procs : pc[q] = "link" /\ ent[q] = e}
  OBVIOUS
<1>2. \A q \in {q \in Procs : pc[q] = "link" /\ ent[q] = e} : sym'[q] = sym[q]
  OBVIOUS
<1> QED BY <1>1, <1>2 DEF Unlinked

\* What a step of p does not change of an entry that p has nothing to do with.
LEMMA Elsewhere ==
  ASSUME NEW p \in Procs, OthersStay(p), NEW e, ent[p] # e, ent'[p] # e,
         present'[e] = present[e]
  PROVE  /\ Linked(e)' = Linked(e)
         /\ \A t : (Swept(e, t)' <=> Swept(e, t)) /\ (Clearing(e, t)' <=> Clearing(e, t))
<1>1. Unlinked(e)' = Unlinked(e)
  BY UnlinkedStays
<1> QED BY <1>1 DEF Linked, Swept, Clearing, OthersStay

\* A step of a process that has no part in a registration, a decode or a sweep.
LEMMA AsideStep ==
  ASSUME IInv, SlotInv, NEW p \in Procs, OthersStay(p),
         pc[p] \notin Decoders \cup {"link", "sweep"},
         pc'[p] \notin Decoders \cup {"link", "empty"}, pc'[p] = "erase" \/ at'[p] = 0,
         UNCHANGED <<present, link, latch, misfreed>>,
         \A q \in Procs : pc[q] \in Decoders => state'[ent[q]] = "OPEN",
         \A s \in Slots, e \in Entries, t \in Symbols :
           holder'[s] = Cell(e, t) <=> holder[s] = Cell(e, t),
         HandHolds',
         KeptInv /\ races' = {} =>
           DataLive' /\ \A e \in Entries : state'[e] = "EMPTY" => present[e] = {}
  PROVE  SlotStep
<1> USE DEF IInv, SlotInv, OthersStay
<1>1. \A e : Linked(e)' = Linked(e)
  <2>1. \A e : Unlinked(e)' = Unlinked(e)
    BY UnlinkedStays
  <2> QED BY <2>1 DEF Linked
<1>2. \A e, t : Clearing(e, t)' <=> Clearing(e, t)
  BY DEF Clearing, Decoders
<1>3. \A e : \A t \in Symbols : Swept(e, t)' <=> Swept(e, t)
  BY TableAssumption DEF Swept, Symbols
<1>4. ASSUME NEW e \in Entries, NEW t \in Symbols, Holds(e, t) PROVE Holds(e, t)'
  BY <1>4 DEF Holds, TableTyped
<1>5. Claims'
  BY DEF Claims, Decoders
<1>6. Carried'
  <2>1. ASSUME NEW q \in Procs, NEW e \in Entries,
               pc'[q] \in Decoders \ {"gather"}, ent'[q] = e
        PROVE  /\ got'[q] \subseteq Linked(e)'
               /\ pc'[q] = "clear" => at'[q] \in got'[q]
               /\ \A t \in Symbols : Ahead(q, t)' => Holds(e, t)'
    <3>1. q # p /\ pc[q] \in Decoders \ {"gather"} /\ ent[q] = e
      BY <2>1
    <3>2. \A t : Ahead(q, t)' <=> Ahead(q, t)
      BY <3>1 DEF Ahead
    <3>3. /\ got[q] \subseteq Linked(e)
          /\ pc[q] = "clear" => at[q] \in got[q]
          /\ \A t \in Symbols : Ahead(q, t) => Holds(e, t)
      BY <3>1 DEF Carried
    <3> QED BY <1>1, <1>4, <3>1, <3>2, <3>3
  <2> QED BY <2>1 DEF Carried
<1>7. LinksGood'
  <2>1. ASSUME NEW e \in Entries, NEW t \in Linked(e)'
        PROVE  \/ Holds(e, t)' \/ Swept(e, t)' \/ Clearing(e, t)'
               \/ link'[e][t] = SlotFree /\ latch'[e] = "COMPLETE"
    <3>1. t \in Linked(e) /\ t \in Symbols
      BY <1>1, <2>1, LinkTyped
    <3> QED BY <1>2, <1>3, <1>4, <3>1 DEF LinksGood
  <2> QED BY <2>1 DEF LinksGood
<1>8. ASSUME KeptInv, races' = {} PROVE KeptInv'
  <2>1. Linkers'
    BY <1>8 DEF KeptInv, Linkers
  <2>2. EmptyBlank'
    BY <1>8 DEF KeptInv, EmptyBlank
  <2>3. CellsLinked'
    BY <1>1, <1>2, <1>3, <1>8 DEF KeptInv, CellsLinked
  <2> QED BY <1>8, <2>1, <2>2, <2>3 DEF KeptInv
<1> QED BY <1>5, <1>6, <1>7, <1>8 DEF SlotStep

\* The hands of a process that has none before or after.
LEMMA HandsAside ==
  ASSUME HandHolds, NEW p \in Procs, OthersStay(p), UNCHANGED holder,
         pc[p] \notin {"register", "link"}, pc'[p] \notin {"register", "link"}
  PROVE  HandHolds'
BY DEF HandHolds, OthersStay

\* A step at work on one entry changes the block of that entry only: what has to be
\* shown of it.
LEMMA AtEntry ==
  ASSUME IInv, SlotInv, NEW p \in Procs, OthersStay(p), NEW e \in Entries,
         ent[p] \in {e, None}, ent'[p] \in {e, None}, UNCHANGED misfreed,
         \A f \in Entries \ {e} : /\ present'[f] = present[f] /\ link'[f] = link[f]
                                  /\ latch'[f] = latch[f],
         \A s \in Slots, f \in Entries \ {e}, t \in Symbols :
           holder'[s] = Cell(f, t) <=> holder[s] = Cell(f, t),
         Claims', HandHolds',
         \A q \in Procs : pc'[q] \in Decoders \ {"gather"} /\ ent'[q] = e =>
           /\ got'[q] \subseteq Linked(e)'
           /\ pc'[q] = "clear" => at'[q] \in got'[q]
           /\ \A t \in Symbols : Ahead(q, t)' => Holds(e, t)',
         \A t \in Linked(e)' :
           \/ Holds(e, t)' \/ Swept(e, t)' \/ Clearing(e, t)'
           \/ link'[e][t] = SlotFree /\ latch'[e] = "COMPLETE",
         KeptInv /\ races' = {} =>
           /\ DataLive' /\ Linkers' /\ EmptyBlank'
           /\ \A s \in Slots, t \in Symbols :
                holder'[s] = Cell(e, t) =>
                  t \in Linked(e)' /\ link'[e][t] = s /\ ~Swept(e, t)' /\ ~Clearing(e, t)',
         pc'[p] \in DataPath => ent'[p] = e
  PROVE  SlotStep
<1> USE DEF IInv, SlotInv
<1>1. ASSUME NEW f \in Entries \ {e}
      PROVE  /\ Linked(f)' = Linked(f)
             /\ \A t : (Swept(f, t)' <=> Swept(f, t)) /\ (Clearing(f, t)' <=> Clearing(f, t))
  BY <1>1, Elsewhere, EntriesSymbols
<1>2. ASSUME NEW f \in Entries \ {e}, NEW t \in Symbols, Holds(f, t) PROVE Holds(f, t)'
  BY <1>2 DEF Holds, TableTyped
<1>3. Carried'
  <2>1. ASSUME NEW q \in Procs, NEW f \in Entries, f # e,
               pc'[q] \in Decoders \ {"gather"}, ent'[q] = f
        PROVE  /\ got'[q] \subseteq Linked(f)'
               /\ pc'[q] = "clear" => at'[q] \in got'[q]
               /\ \A t \in Symbols : Ahead(q, t)' => Holds(f, t)'
    <3>1. q # p
      BY <2>1 DEF Decoders, DataPath
    <3>2. /\ got'[q] = got[q] /\ at'[q] = at[q] /\ pc'[q] = pc[q] /\ ent[q] = f
          /\ \A t : Ahead(q, t)' <=> Ahead(q, t)
      BY <2>1, <3>1 DEF Ahead, OthersStay
    <3>3. /\ got[q] \subseteq Linked(f)
          /\ pc[q] = "clear" => at[q] \in got[q]
          /\ \A t \in Symbols : Ahead(q, t) => Holds(f, t)
      BY <2>1, <3>2 DEF Carried
    <3> QED BY <1>1, <1>2, <2>1, <3>2, <3>3
  <2> QED BY <2>1 DEF Carried
<1>4. LinksGood'
  <2>1. ASSUME NEW f \in Entries, f # e, NEW t \in Linked(f)'
        PROVE  \/ Holds(f, t)' \/ Swept(f, t)' \/ Clearing(f, t)'
               \/ link'[f][t] = SlotFree /\ latch'[f] = "COMPLETE"
    <3>1. t \in Linked(f) /\ t \in Symbols
      BY <1>1, <2>1, LinkTyped
    <3> QED BY <1>1, <1>2, <2>1, <3>1 DEF LinksGood
  <2> QED BY <2>1 DEF LinksGood
<1>5. ASSUME KeptInv, races' = {} PROVE KeptInv'
  <2>1. CellsLinked'
    BY <1>1, <1>5 DEF KeptInv, CellsLinked
  <2> QED BY <1>5, <2>1 DEF KeptInv
<1> QED BY <1>3, <1>4, <1>5 DEF SlotStep

\* The entry of a packet in hand stays as it is in a step of the data path.
LEMMA PathLive ==
  ASSUME IInv, NEW p \in Procs, OnDataPath(p), pc[p] \in DataPath, DataLive PROVE DataLive'
BY DEF OnDataPath, OthersStay, DataLive, DataPath

-----------------------------------------------------------------------------
(* Steps that take or give back a slot in hand *)

\* A packet that arrives is for an OPEN entry.
LEMMA ReceiveSlots ==
  ASSUME IInv, SlotInv, NEW p \in Procs, Receive(p) PROVE SlotStep
<1> USE DEF IInv, SlotInv
<1>1. /\ pc[p] = "idle" /\ pc'[p] = "alloc" /\ at'[p] = 0 /\ state[ent'[p]] = "OPEN"
      /\ UNCHANGED <<state, present, link, latch, holder, misfreed>>
  <2>1. pc[p] = "idle" /\ at[p] = 0
    BY DEF Receive, Claims
  <2>2. pc'[p] = "alloc" /\ at'[p] = at[p] /\ state[ent'[p]] = "OPEN"
    BY DEF Receive, Goto, LocalsTyped
  <2> QED BY <2>1, <2>2 DEF Receive, table, arena
<1>2. OthersStay(p)
  BY ReceiveOnPath DEF OnDataPath
<1>3. HandHolds'
  BY <1>1, <1>2, HandsAside
<1>4. DataLive => DataLive'
  BY <1>1, <1>2 DEF DataLive, OthersStay
<1> QED BY <1>1, <1>2, <1>3, <1>4, AsideStep DEF Decoders, KeptInv, EmptyBlank, Claims

\* A slot is taken that nobody holds.
LEMMA AllocSlotSlots ==
  ASSUME IInv, SlotInv, NEW p \in Procs, AllocSlot(p) PROVE SlotStep
<1> USE DEF IInv, SlotInv
<1>1. OnDataPath(p)
  BY PacketOnPath DEF Packet
<1>2. PICK s \in Slots : /\ holder[s] = Free /\ holder' = [holder EXCEPT ![s] = Hand(p)]
                         /\ slot' = [slot EXCEPT ![p] = s]
  BY DEF AllocSlot
<1>3. /\ pc[p] = "alloc" /\ pc'[p] = "register" /\ at'[p] = 0 /\ slot'[p] = s
      /\ OthersStay(p) /\ UNCHANGED <<state, present, link, latch, misfreed>>
  BY <1>1, <1>2 DEF AllocSlot, OnDataPath, Goto, LocalsTyped, Claims, table
<1>4. \A u \in Slots : holder'[u] = IF u = s THEN Hand(p) ELSE holder[u]
  BY <1>2 DEF TableTyped
<1>5. HandHolds'
  BY <1>2, <1>3, <1>4, HoldersApart DEF HandHolds, OthersStay, InHandTyped
<1>6. \A u \in Slots, e \in Entries, t \in Symbols :
        holder'[u] = Cell(e, t) <=> holder[u] = Cell(e, t)
  BY <1>2, <1>4, HoldersApart
<1>7. DataLive => DataLive'
  BY <1>1, <1>3, PathLive DEF DataPath
<1> QED BY <1>3, <1>5, <1>6, <1>7, AsideStep DEF Decoders, KeptInv, EmptyBlank, Claims

\* No slot is free.
LEMMA ArenaExhaustedSlots ==
  ASSUME IInv, SlotInv, NEW p \in Procs, ArenaExhausted(p) PROVE SlotStep
<1> USE DEF IInv, SlotInv
<1>1. OnDataPath(p)
  BY PacketOnPath DEF Packet
<1>2. /\ pc[p] = "alloc" /\ pc'[p] = "idle" /\ at'[p] = 0
      /\ OthersStay(p) /\ UNCHANGED <<state, present, link, latch, holder, misfreed>>
  BY <1>1 DEF ArenaExhausted, OnDataPath, Return, Goto, LocalsTyped, table, arena
<1>3. HandHolds'
  BY <1>2, HandsAside
<1>4. DataLive => DataLive'
  BY <1>1, <1>2, PathLive DEF DataPath
<1> QED BY <1>2, <1>3, <1>4, AsideStep DEF Decoders, KeptInv, EmptyBlank, Claims

\* A duplicate's slot goes back from the hand that holds it.
LEMMA RegisterDuplicateSlots ==
  ASSUME IInv, SlotInv, NEW p \in Procs, RegisterDuplicate(p) PROVE SlotStep
<1> USE DEF IInv, SlotInv
<1>1. OnDataPath(p)
  BY PacketOnPath DEF Packet
<1>2. PICK s \in Slots : s = slot[p] /\ holder[s] = Hand(p)
  BY DEF RegisterDuplicate, InHandTyped, HandHolds
<1>3. /\ pc[p] = "register" /\ pc'[p] = "idle" /\ at'[p] = 0
      /\ OthersStay(p) /\ UNCHANGED <<state, present, link, latch, misfreed>>
      /\ holder' = [holder EXCEPT ![s] = Free]
  BY <1>1, <1>2 DEF RegisterDuplicate, FreeSlot, OnDataPath, Return, Goto, LocalsTyped,
                    TableTyped, table
<1>4. \A u \in Slots : holder'[u] = IF u = s THEN Free ELSE holder[u]
  BY <1>3 DEF TableTyped
<1>5. HandHolds'
  BY <1>2, <1>3, <1>4, HoldersApart DEF HandHolds, OthersStay, InHandTyped
<1>6. \A u \in Slots, e \in Entries, t \in Symbols :
        holder'[u] = Cell(e, t) <=> holder[u] = Cell(e, t)
  BY <1>2, <1>4, HoldersApart
<1>7. DataLive => DataLive'
  BY <1>1, <1>3, PathLive DEF DataPath
<1> QED BY <1>3, <1>5, <1>6, <1>7, AsideStep DEF Decoders, KeptInv, EmptyBlank, Claims

-----------------------------------------------------------------------------
(* Registration *)

\* The bit: the symbol is under way, and not before.
LEMMA RegisterBitSlots ==
  ASSUME IInv, SlotInv, NEW p \in Procs, RegisterBit(p) PROVE SlotStep
<1> USE DEF IInv, SlotInv
<1>1. OnDataPath(p)
  BY PacketOnPath DEF Packet
<1>2. PICK e \in Entries : e = ent[p] /\ sym[p] \in Symbols /\ sym[p] \notin present[e]
  BY DEF RegisterBit, InHandTyped, DataPath
<1>3. /\ pc[p] = "register" /\ pc'[p] = "link" /\ ent'[p] = e /\ OthersStay(p)
      /\ UNCHANGED <<state, link, latch, holder, misfreed, ent, sym, slot, at, got>>
  BY <1>1, <1>2 DEF RegisterBit, OnDataPath, Goto, LocalsTyped, arena, locals
<1>4. /\ present'[e] = present[e] \cup {sym[p]}
      /\ \A f \in Entries \ {e} : present'[f] = present[f]
  BY <1>2 DEF RegisterBit, TableTyped
<1>5. Unlinked(e)' = Unlinked(e) \cup {sym[p]}
  <2>1. {q \in Procs : pc'[q] = "link" /\ ent'[q] = e}
          = {q \in Procs : pc[q] = "link" /\ ent[q] = e} \cup {p}
    BY <1>2, <1>3 DEF OthersStay
  <2> QED BY <1>3, <2>1 DEF Unlinked
<1>6. Linked(e)' = Linked(e)
  BY <1>2, <1>4, <1>5 DEF Linked
<1>7. \A t : /\ (Swept(e, t)' <=> Swept(e, t)) /\ (Clearing(e, t)' <=> Clearing(e, t))
             /\ (Holds(e, t)' <=> Holds(e, t))
  BY <1>3 DEF Swept, Clearing, Holds, OthersStay
<1>8. Claims'
  BY <1>3 DEF Claims, Decoders, OthersStay
<1>9. HandHolds'
  BY <1>3 DEF HandHolds, OthersStay
<1>10. ASSUME NEW q \in Procs, pc'[q] \in Decoders \ {"gather"}, ent'[q] = e
       PROVE  /\ got'[q] \subseteq Linked(e)'
              /\ pc'[q] = "clear" => at'[q] \in got'[q]
              /\ \A t \in Symbols : Ahead(q, t)' => Holds(e, t)'
  <2>1. q # p /\ pc'[q] = pc[q]
    BY <1>3, <1>10 DEF Decoders, OthersStay
  <2>2. \A t : Ahead(q, t)' <=> Ahead(q, t)
    BY <1>3, <2>1 DEF Ahead
  <2> QED BY <1>3, <1>6, <1>7, <1>10, <2>1, <2>2 DEF Carried
<1>11. ASSUME NEW t \in Linked(e)'
       PROVE  \/ Holds(e, t)' \/ Swept(e, t)' \/ Clearing(e, t)'
              \/ link'[e][t] = SlotFree /\ latch'[e] = "COMPLETE"
  BY <1>3, <1>6, <1>7 DEF LinksGood
<1>12. ASSUME KeptInv
       PROVE  /\ DataLive' /\ Linkers' /\ EmptyBlank'
              /\ \A s \in Slots, t \in Symbols :
                   holder'[s] = Cell(e, t) =>
                     t \in Linked(e)' /\ link'[e][t] = s /\ ~Swept(e, t)' /\ ~Clearing(e, t)'
  <2> USE <1>12 DEF KeptInv
  <2>1. DataLive'
    BY <1>1, <1>3, PathLive DEF DataPath
  <2>2. Linkers'
    <3>1. \A q \in Procs : pc[q] = "link" /\ ent[q] = e => sym[q] # sym[p]
      BY <1>2 DEF Linkers
    <3>2. \A q \in Procs : pc'[q] = "link" => sym[q] \in present'[ent[q]]
      BY <1>2, <1>3, <1>4 DEF Linkers, OthersStay, InHandTyped, DataPath
    <3> QED BY <1>2, <1>3, <3>1, <3>2 DEF Linkers, OthersStay
  <2>3. EmptyBlank'
    <3>1. state[e] = "OPEN"
      BY <1>2, <1>3 DEF DataLive, DataPath
    <3>2. \A q \in Procs : pc'[q] = "empty" => /\ pc[q] = "empty" /\ ent[q] \in Entries
                                              /\ state[ent[q]] = "CLOSING"
      BY <1>3, EntriesSymbols DEF OthersStay, SweptByOne, Sweeping, InHandTyped
    <3> QED BY <1>3, <1>4, <3>1, <3>2 DEF EmptyBlank
  <2> QED BY <1>3, <1>6, <1>7, <2>1, <2>2, <2>3 DEF CellsLinked
<1> QED BY <1>2, <1>3, <1>4, <1>8, <1>9, <1>10, <1>11, <1>12, AtEntry DEF DataPath

\* The link: it has the slot, and the claim is of an OPEN entry or noted.
LEMMA RegisterLinkSlots ==
  ASSUME IInv, SlotInv, NEW p \in Procs, RegisterLink(p), races' \subseteq {"late"}
  PROVE  SlotStep
<1> USE DEF IInv, SlotInv
<1>1. OnDataPath(p)
  BY PacketOnPath DEF Packet
<1>2. PICK e \in Entries, u \in Symbols, r \in Slots :
        e = ent[p] /\ u = sym[p] /\ r = slot[p] /\ holder[r] = Hand(p)
  BY DEF RegisterLink, InHandTyped, DataPath, HandHolds
<1>3. /\ pc[p] = "link" /\ pc'[p] \in {"gather", "idle"} /\ ent'[p] \in {e, None}
      /\ pc'[p] = "gather" => ent'[p] = e
      /\ at[p] = 0 /\ at'[p] = 0 /\ OthersStay(p) /\ UNCHANGED <<state, present, misfreed>>
  <2>1. CASE Return(p)
    BY <1>1, <2>1 DEF RegisterLink, Return, Goto, OnDataPath, LocalsTyped, Claims
  <2>2. CASE ~Return(p)
    BY <1>1, <1>2, <2>2 DEF RegisterLink, Goto, OnDataPath, LocalsTyped, Claims, locals
  <2> QED BY <2>1, <2>2
<1>4. /\ link'[e] = [link[e] EXCEPT ![u] = r]
      /\ \A f \in Entries \ {e} : link'[f] = link[f]
      /\ \A s \in Slots : holder'[s] = IF s = r THEN Cell(e, u) ELSE holder[s]
  BY <1>2 DEF RegisterLink, TableTyped
<1>5. link'[e][u] = r /\ \A t \in Symbols \ {u} : link'[e][t] = link[e][t]
  BY <1>2, <1>4 DEF TableTyped
<1>6. /\ \A f \in Entries : latch'[f] = latch[f] \/ (f = e /\ latch[e] = "PENDING")
      /\ latch'[e] = latch[e] \/ latch'[e] = "CLAIMED"
      /\ pc'[p] = "gather" =>
           latch[e] = "PENDING" /\ latch'[e] = "CLAIMED" /\ state[e] = "OPEN"
  <2>1. CASE seen[ent[p]] + 1 >= K /\ latch[ent[p]] = "PENDING"
    <3>1. latch' = [latch EXCEPT ![e] = "CLAIMED"] /\ latch[e] = "PENDING"
      BY <1>2, <2>1 DEF RegisterLink
    <3>2. state[e] = "OPEN"
      BY <1>2, <2>1 DEF RegisterLink, Note
    <3> QED BY <3>1, <3>2 DEF TableTyped
  <2>2. CASE ~(seen[ent[p]] + 1 >= K /\ latch[ent[p]] = "PENDING")
    BY <2>2 DEF RegisterLink, Return, Goto, LocalsTyped
  <2> QED BY <2>1, <2>2
<1>7. Unlinked(e)' \subseteq Unlinked(e) /\ Unlinked(e) \subseteq Unlinked(e)' \cup {u}
  BY <1>2, <1>3 DEF Unlinked, OthersStay
<1>8. /\ u \in Unlinked(e)
      /\ Linked(e) \subseteq Linked(e)' /\ Linked(e)' \subseteq Linked(e) \cup {u}
  BY <1>2, <1>3, <1>7 DEF Linked, Unlinked
<1>9. \A f \in Entries, t \in Symbols, s \in Slots :
        holder'[s] = Cell(f, t) <=> holder[s] = Cell(f, t) \/ (s = r /\ f = e /\ t = u)
  BY <1>2, <1>4, HoldersApart
<1>10. \A t : (Swept(e, t)' <=> Swept(e, t)) /\ (Clearing(e, t)' <=> Clearing(e, t))
  BY <1>3 DEF Swept, Clearing, OthersStay
<1>11. Holds(e, u)'
  BY <1>4, <1>5, TableAssumption DEF Holds
<1>12. \A t \in Symbols \ {u} : Holds(e, t) => Holds(e, t)'
  BY <1>5, <1>9 DEF Holds, TableTyped
<1>13. Claims'
  BY <1>2, <1>3, <1>6 DEF Claims, Decoders, OthersStay, InHandTyped, DataPath
<1>14. HandHolds'
  BY <1>2, <1>3, <1>4, HoldersApart DEF HandHolds, OthersStay, InHandTyped
<1>15. ASSUME NEW q \in Procs, pc'[q] \in Decoders \ {"gather"}, ent'[q] = e
       PROVE  /\ got'[q] \subseteq Linked(e)'
              /\ pc'[q] = "clear" => at'[q] \in got'[q]
              /\ \A t \in Symbols : Ahead(q, t)' => Holds(e, t)'
  <2>1. q # p
    BY <1>3, <1>15 DEF Decoders
  <2>2. /\ got'[q] = got[q] /\ at'[q] = at[q] /\ pc'[q] = pc[q] /\ ent[q] = e
        /\ \A t : Ahead(q, t)' <=> Ahead(q, t)
    BY <1>3, <1>15, <2>1 DEF Ahead, OthersStay
  <2>3. /\ got[q] \subseteq Linked(e)
        /\ pc[q] = "clear" => at[q] \in got[q]
        /\ \A t \in Symbols : Ahead(q, t) => Holds(e, t)
    BY <1>15, <2>2 DEF Carried
  <2>4. \A t : Ahead(q, t) => t # u
    BY <1>8, <2>3 DEF Ahead, Linked
  <2> QED BY <1>8, <1>12, <2>2, <2>3, <2>4
<1>16. ASSUME NEW t \in Linked(e)'
       PROVE  \/ Holds(e, t)' \/ Swept(e, t)' \/ Clearing(e, t)'
              \/ link'[e][t] = SlotFree /\ latch'[e] = "COMPLETE"
  <2>1. CASE t = u
    BY <1>11, <2>1
  <2>2. CASE t # u
    <3>1. t \in Linked(e) /\ t \in Symbols
      BY <1>8, <2>2, LinkTyped
    <3> QED BY <1>5, <1>6, <1>10, <1>12, <2>2, <3>1 DEF LinksGood
  <2> QED BY <2>1, <2>2
<1>17. ASSUME KeptInv
       PROVE  /\ DataLive' /\ Linkers' /\ EmptyBlank'
              /\ \A s \in Slots, t \in Symbols :
                   holder'[s] = Cell(e, t) =>
                     t \in Linked(e)' /\ link'[e][t] = s /\ ~Swept(e, t)' /\ ~Clearing(e, t)'
  <2> USE <1>17 DEF KeptInv
  <2>1. DataLive'
    BY <1>1, <1>3, PathLive DEF DataPath
  <2>2. Linkers'
    BY <1>3 DEF Linkers, OthersStay
  <2>3. EmptyBlank'
    BY <1>3 DEF EmptyBlank, OthersStay
  <2>4. u \in Linked(e)'
    <3>1. \A q \in Procs \ {p} : ~(pc[q] = "link" /\ ent[q] = e /\ sym[q] = u)
      BY <1>2, <1>3 DEF Linkers
    <3>2. u \notin Unlinked(e)'
      BY <1>3, <3>1 DEF Unlinked, OthersStay
    <3> QED BY <1>2, <1>3, <3>2 DEF Linked, Linkers
  <2>5. ~Swept(e, u) /\ ~Clearing(e, u)
    <3>1. state[e] = "OPEN"
      BY <1>2, <1>3 DEF DataLive, DataPath
    <3>2. ~Clearing(e, u)
      BY <1>8 DEF Clearing, Carried, Linked, Decoders
    <3> QED BY <3>1, <3>2, NoSweep
  <2>6. ASSUME NEW s \in Slots, NEW t \in Symbols, holder'[s] = Cell(e, t)
        PROVE  t \in Linked(e)' /\ link'[e][t] = s /\ ~Swept(e, t)' /\ ~Clearing(e, t)'
    <3>1. CASE s = r /\ t = u
      BY <1>5, <1>10, <2>4, <2>5, <3>1
    <3>2. CASE holder[s] = Cell(e, t)
      <4>1. t \in Linked(e) /\ link[e][t] = s /\ ~Swept(e, t) /\ ~Clearing(e, t)
        BY <3>2 DEF CellsLinked
      <4>2. t # u
        BY <1>8, <4>1 DEF Linked
      <4> QED BY <1>5, <1>8, <1>10, <4>1, <4>2
    <3> QED BY <1>9, <2>6, <3>1, <3>2
  <2> QED BY <2>1, <2>2, <2>3, <2>6
<1>18. /\ ent[p] \in {e, None}
       /\ pc'[p] \in DataPath => ent'[p] = e
       /\ \A f \in Entries \ {e} : /\ present'[f] = present[f] /\ link'[f] = link[f]
                                   /\ latch'[f] = latch[f]
       /\ \A s \in Slots, f \in Entries \ {e}, t \in Symbols :
            holder'[s] = Cell(f, t) <=> holder[s] = Cell(f, t)
  BY <1>2, <1>3, <1>4, <1>6, <1>9 DEF DataPath
<1> QED BY <1>3, <1>13, <1>14, <1>15, <1>16, <1>17, <1>18, AtEntry

-----------------------------------------------------------------------------
(* Decode and release *)

\* A step of a decoder, or of the sweep, that changes at most one cell: the others
\* of its entry keep what they have.
LEMMA DecoderStep ==
  ASSUME IInv, SlotInv, NEW p \in Procs, OnDataPath(p), pc[p] \in Decoders,
         NEW e \in Entries, e = ent[p]
  PROVE  /\ OthersStay(p) /\ state' = state /\ state[e] = "OPEN" /\ latch[e] # "PENDING"
         /\ \A t : Clearing(e, t) <=> pc[p] = "clear" /\ at[p] = t
         /\ \A t : ~Swept(e, t)
         /\ \A q \in Procs \ {p} : pc[q] \in Decoders => ent[q] # e
         /\ pc'[p] # "link" => Unlinked(e)' = Unlinked(e)
         /\ DataLive => DataLive'
<1> USE DEF IInv, SlotInv
<1>1. OthersStay(p) /\ state' = state /\ state[e] = "OPEN" /\ latch[e] # "PENDING"
  BY DEF OnDataPath, Claims, Decoders
<1>2. \A q \in Procs \ {p} : pc[q] \in Decoders => ent[q] # e
  BY DEF Claims
<1>3. \A t : Clearing(e, t) <=> pc[p] = "clear" /\ at[p] = t
  BY <1>2 DEF Clearing, Decoders
<1>4. \A t : ~Swept(e, t)
  BY <1>1, NoSweep
<1>5. pc'[p] # "link" => Unlinked(e)' = Unlinked(e)
  BY <1>1, UnlinkedStays DEF Decoders
<1>6. DataLive => DataLive'
  BY PathLive DEF DataPath, Decoders
<1> QED BY <1>1, <1>2, <1>3, <1>4, <1>5, <1>6

\* What a decoder's step leaves of the rest of KeptInv.
LEMMA DecoderKept ==
  ASSUME IInv, SlotInv, KeptInv, NEW p \in Procs, OnDataPath(p), pc[p] \in Decoders,
         pc'[p] \in Decoders \cup {"idle"}, UNCHANGED present
  PROVE  DataLive' /\ Linkers' /\ EmptyBlank'
<1> USE DEF IInv, SlotInv, KeptInv, OnDataPath, OthersStay, Decoders
<1>1. DataLive'
  BY PathLive DEF DataPath
<1>2. Linkers'
  BY DEF Linkers
<1>3. EmptyBlank'
  BY DEF EmptyBlank
<1> QED BY <1>1, <1>2, <1>3

\* The steps of a decoder that change no slot: it gathers, finds the decode failed
\* or lost, passes a symbol over, or is done.
LEMMA DecoderAside ==
  ASSUME IInv, SlotInv, NEW p \in Procs, OnDataPath(p), pc[p] \in Decoders \ {"clear"},
         NEW e \in Entries, e = ent[p], ent'[p] \in {e, None},
         UNCHANGED <<present, link, holder, misfreed>>,
         \A f \in Entries \ {e} : latch'[f] = latch[f],
         latch[e] = "COMPLETE" => latch'[e] = "COMPLETE",
         Claims', pc'[p] \in {"mark", "release", "idle"},
         pc'[p] \in DataPath =>
           /\ ent'[p] = e
           /\ got'[p] \subseteq Linked(e)
           /\ \A t \in Symbols : Ahead(p, t)' => Holds(e, t)
  PROVE  SlotStep
<1> USE DEF IInv, SlotInv
<1>1. /\ OthersStay(p) /\ state' = state /\ state[e] = "OPEN"
      /\ \A t : ~Clearing(e, t) /\ ~Swept(e, t)
      /\ \A q \in Procs \ {p} : pc[q] \in Decoders => ent[q] # e
      /\ Unlinked(e)' = Unlinked(e)
  BY DecoderStep
<1>2. Linked(e)' = Linked(e)
  BY <1>1 DEF Linked
<1>3. \A t : ~Clearing(e, t)' /\ ~Swept(e, t)' /\ (Holds(e, t)' <=> Holds(e, t))
  BY <1>1 DEF Clearing, Swept, Holds, OthersStay
<1>4. HandHolds'
  BY <1>1, HandsAside DEF Decoders
<1>5. ASSUME NEW q \in Procs, pc'[q] \in Decoders \ {"gather"}, ent'[q] = e
      PROVE  /\ got'[q] \subseteq Linked(e)'
             /\ pc'[q] = "clear" => at'[q] \in got'[q]
             /\ \A t \in Symbols : Ahead(q, t)' => Holds(e, t)'
  <2>1. q = p
    BY <1>1, <1>5 DEF OthersStay
  <2> QED BY <1>2, <1>3, <1>5, <2>1 DEF Decoders, DataPath
<1>6. ASSUME NEW t \in Linked(e)'
      PROVE  \/ Holds(e, t)' \/ Swept(e, t)' \/ Clearing(e, t)'
             \/ link'[e][t] = SlotFree /\ latch'[e] = "COMPLETE"
  BY <1>1, <1>2, <1>3 DEF LinksGood
<1>7. ASSUME KeptInv
      PROVE  /\ DataLive' /\ Linkers' /\ EmptyBlank'
             /\ \A s \in Slots, t \in Symbols :
                  holder'[s] = Cell(e, t) =>
                    t \in Linked(e)' /\ link'[e][t] = s /\ ~Swept(e, t)' /\ ~Clearing(e, t)'
  <2>1. DataLive' /\ Linkers' /\ EmptyBlank'
    BY <1>7, DecoderKept DEF Decoders
  <2> QED BY <1>2, <1>3, <1>7, <2>1 DEF KeptInv, CellsLinked
<1> QED BY <1>1, <1>4, <1>5, <1>6, <1>7, AtEntry

\* What is gathered has its link, or the gather is noted.
LEMMA GatherSlots ==
  ASSUME IInv, SlotInv, NEW p \in Procs, Gather(p), races' \subseteq {"late"}
  PROVE  SlotStep
<1> USE DEF IInv, SlotInv
<1>1. OnDataPath(p)
  BY PacketOnPath DEF Packet
<1>2. PICK e \in Entries : e = ent[p]
  BY DEF Gather, InHandTyped, DataPath
<1>3. /\ pc[p] = "gather" /\ pc'[p] = "mark" /\ got'[p] = present[e] /\ at'[p] = 0
      /\ latch[e] = "CLAIMED" /\ OthersStay(p)
      /\ UNCHANGED <<present, link, latch, holder, misfreed, state, ent, at>>
  BY <1>1, <1>2 DEF Gather, OnDataPath, Goto, LocalsTyped, Claims, table, arena
<1>4. present[e] \cap Unlinked(e) = {}
  BY <1>2 DEF Gather, Note
<1>5. /\ \A t : ~Clearing(e, t) /\ ~Swept(e, t)
      /\ \A q \in Procs \ {p} : pc[q] \in Decoders => ent[q] # e
  BY <1>1, <1>2, <1>3, DecoderStep DEF Decoders
<1>6. Claims'
  BY <1>2, <1>3 DEF Claims, Decoders, OthersStay
<1>7. got'[p] \subseteq Linked(e)
  BY <1>3, <1>4 DEF Linked
<1>8. \A t \in Symbols : Ahead(p, t)' => Holds(e, t)
  BY <1>3, <1>5, <1>7 DEF LinksGood, Ahead
<1> QED BY <1>1, <1>2, <1>3, <1>6, <1>7, <1>8, DecoderAside DEF Decoders

\* The latch becomes COMPLETE with every gathered symbol ahead.
LEMMA MarkCompleteSlots ==
  ASSUME IInv, SlotInv, NEW p \in Procs, MarkComplete(p) PROVE SlotStep
<1> USE DEF IInv, SlotInv
<1>1. OnDataPath(p)
  BY PacketOnPath DEF Packet
<1>2. PICK e \in Entries : e = ent[p]
  BY DEF MarkComplete, InHandTyped, DataPath
<1>3. /\ pc[p] = "mark" /\ pc'[p] = "release" /\ at[p] = 0 /\ OthersStay(p)
      /\ UNCHANGED <<present, link, holder, misfreed, state, ent, at, got>>
      /\ latch'[e] = "COMPLETE" /\ \A f \in Entries \ {e} : latch'[f] = latch[f]
  BY <1>1, <1>2 DEF MarkComplete, OnDataPath, Goto, LocalsTyped, TableTyped, Claims, arena,
                    locals
<1>4. \A q \in Procs \ {p} : pc[q] \in Decoders => ent[q] # e
  BY <1>1, <1>2, <1>3, DecoderStep DEF Decoders
<1>5. Claims'
  BY <1>2, <1>3, <1>4 DEF Claims, Decoders, OthersStay, InHandTyped, DataPath
<1>6. got[p] \subseteq Linked(e) /\ \A t \in Symbols : Ahead(p, t) => Holds(e, t)
  BY <1>2, <1>3 DEF Carried, Decoders
<1>7. \A t : Ahead(p, t)' <=> Ahead(p, t)
  BY <1>3 DEF Ahead
<1> QED BY <1>1, <1>2, <1>3, <1>5, <1>6, <1>7, DecoderAside DEF Decoders

\* A decoder that returns: the block keeps its links.
LEMMA DecoderReturns ==
  ASSUME IInv, SlotInv, NEW p \in Procs, DecodeFails(p) \/ DecodeLost(p) \/ ReleaseDone(p)
  PROVE  SlotStep
<1> USE DEF IInv, SlotInv
<1>1. OnDataPath(p)
  BY PacketOnPath DEF Packet
<1>2. PICK e \in Entries : e = ent[p]
  BY DEF DecodeFails, DecodeLost, ReleaseDone, InHandTyped, DataPath
<1>3. /\ pc[p] \in {"mark", "release"} /\ pc'[p] = "idle" /\ ent'[p] = None /\ at'[p] = 0
      /\ UNCHANGED <<present, link, latch, holder, misfreed, state>>
  BY <1>1 DEF DecodeFails, DecodeLost, ReleaseDone, Return, Goto, OnDataPath, LocalsTyped,
              table, arena
<1>4. Claims'
  BY <1>1, <1>3 DEF Claims, Decoders, OnDataPath, OthersStay
<1> QED BY <1>1, <1>2, <1>3, <1>4, DecoderAside DEF Decoders, DataPath

\* A symbol that was not gathered is passed over.
LEMMA ReleaseSkipSlots ==
  ASSUME IInv, SlotInv, NEW p \in Procs, ReleaseSkip(p) PROVE SlotStep
<1> USE DEF IInv, SlotInv
<1>1. OnDataPath(p)
  BY PacketOnPath DEF Packet
<1>2. PICK e \in Entries : e = ent[p]
  BY DEF ReleaseSkip, InHandTyped, DataPath
<1>3. /\ pc[p] = "release" /\ pc'[p] = "release" /\ at'[p] = at[p] + 1 /\ at[p] \in Symbols
      /\ UNCHANGED <<present, link, latch, holder, misfreed, state, ent, got>>
  BY DEF ReleaseSkip, LocalsTyped, table, arena
<1>4. Claims'
  BY <1>1, <1>3 DEF Claims, Decoders, OnDataPath, OthersStay
<1>5. got[p] \subseteq Linked(e) /\ \A t \in Symbols : Ahead(p, t) => Holds(e, t)
  BY <1>2, <1>3 DEF Carried, Decoders
<1>6. \A t \in Symbols : Ahead(p, t)' => Ahead(p, t)
  BY <1>3 DEF Ahead, Symbols
<1> QED BY <1>1, <1>2, <1>3, <1>4, <1>5, <1>6, DecoderAside DEF Decoders

\* free_slot() of the release loop frees the slot of its symbol's cell.
LEMMA ReleaseSlotSlots ==
  ASSUME IInv, SlotInv, NEW p \in Procs, ReleaseSlot(p) PROVE SlotStep
<1> USE DEF IInv, SlotInv
<1>1. OnDataPath(p)
  BY PacketOnPath DEF Packet
<1>2. PICK e \in Entries, u \in Symbols : e = ent[p] /\ u = at[p] /\ u \in got[p]
  BY DEF ReleaseSlot, InHandTyped, DataPath, LocalsTyped
<1>3. /\ pc[p] = "release" /\ pc'[p] = "clear"
      /\ UNCHANGED <<present, link, latch, state, ent, at, got, slot>>
  BY DEF ReleaseSlot, Goto, LocalsTyped, table, locals
<1>4. /\ OthersStay(p) /\ state[e] = "OPEN" /\ latch[e] # "PENDING"
      /\ \A t : ~Clearing(e, t) /\ ~Swept(e, t)
      /\ \A q \in Procs \ {p} : pc[q] \in Decoders => ent[q] # e
      /\ Unlinked(e)' = Unlinked(e)
  BY <1>1, <1>2, <1>3, DecoderStep DEF Decoders
<1>5. got[p] \subseteq Linked(e) /\ \A t \in Symbols : Ahead(p, t) => Holds(e, t)
  BY <1>2, <1>3 DEF Carried, Decoders
<1>6. Holds(e, u)
  BY <1>2, <1>3, <1>5 DEF Ahead
<1>7. PICK r \in Slots : r = link[e][u] /\ holder[r] = Cell(e, u) /\ r # SlotFree
  BY <1>6 DEF Holds, TableTyped
<1>8. UNCHANGED misfreed /\ \A s \in Slots : holder'[s] = IF s = r THEN Free ELSE holder[s]
  BY <1>2, <1>7 DEF ReleaseSlot, FreeSlot, TableTyped
<1>9. \A s \in Slots, f \in Entries, t \in Symbols :
        holder'[s] = Cell(f, t) <=> holder[s] = Cell(f, t) /\ s # r
  BY <1>8, HoldersApart
<1>10. Linked(e)' = Linked(e)
  BY <1>3, <1>4 DEF Linked
<1>11. \A t \in Symbols \ {u} : Holds(e, t) => Holds(e, t)'
  BY <1>3, <1>7, <1>9, HoldersApart DEF Holds, TableTyped
<1>12. \A t : ~Swept(e, t)' /\ (Clearing(e, t)' <=> t = u)
  BY <1>2, <1>3, <1>4 DEF Swept, Clearing, OthersStay, Decoders
<1>13. Claims'
  BY <1>3, <1>4 DEF Claims, Decoders, OthersStay
<1>14. HandHolds'
  BY <1>3, <1>4, <1>7, <1>8, HoldersApart DEF HandHolds, OthersStay, InHandTyped
<1>15. ASSUME NEW q \in Procs, pc'[q] \in Decoders \ {"gather"}, ent'[q] = e
       PROVE  /\ got'[q] \subseteq Linked(e)'
              /\ pc'[q] = "clear" => at'[q] \in got'[q]
              /\ \A t \in Symbols : Ahead(q, t)' => Holds(e, t)'
  <2>1. q = p
    BY <1>4, <1>15 DEF OthersStay
  <2>2. \A t \in Symbols : Ahead(p, t)' => Ahead(p, t) /\ t # u
    BY <1>2, <1>3 DEF Ahead, Symbols
  <2> QED BY <1>2, <1>3, <1>5, <1>10, <1>11, <2>1, <2>2
<1>16. ASSUME NEW t \in Linked(e)'
       PROVE  \/ Holds(e, t)' \/ Swept(e, t)' \/ Clearing(e, t)'
              \/ link'[e][t] = SlotFree /\ latch'[e] = "COMPLETE"
  <2>1. t \in Linked(e) /\ t \in Symbols
    BY <1>10, LinkTyped
  <2> QED BY <1>3, <1>4, <1>11, <1>12, <2>1 DEF LinksGood
<1>17. ASSUME KeptInv
       PROVE  /\ DataLive' /\ Linkers' /\ EmptyBlank'
              /\ \A s \in Slots, t \in Symbols :
                   holder'[s] = Cell(e, t) =>
                     t \in Linked(e)' /\ link'[e][t] = s /\ ~Swept(e, t)' /\ ~Clearing(e, t)'
  <2>1. DataLive' /\ Linkers' /\ EmptyBlank'
    BY <1>1, <1>3, <1>17, DecoderKept DEF Decoders
  <2>2. ASSUME NEW s \in Slots, NEW t \in Symbols, holder'[s] = Cell(e, t)
        PROVE  t \in Linked(e)' /\ link'[e][t] = s /\ ~Swept(e, t)' /\ ~Clearing(e, t)'
    <3>1. t \in Linked(e) /\ link[e][t] = s /\ s # r
      BY <1>9, <1>17, <2>2 DEF KeptInv, CellsLinked
    <3> QED BY <1>3, <1>7, <1>10, <1>12, <3>1
  <2> QED BY <2>1, <2>2
<1>18. \A s \in Slots, f \in Entries \ {e}, t \in Symbols :
         holder'[s] = Cell(f, t) <=> holder[s] = Cell(f, t)
  BY <1>7, <1>9, HoldersApart
<1> QED BY <1>2, <1>3, <1>4, <1>8, <1>13, <1>14, <1>15, <1>16, <1>17, <1>18, AtEntry

\* clear_slot() of the release loop: the link says so.
LEMMA ClearSlotSlots ==
  ASSUME IInv, SlotInv, NEW p \in Procs, ClearSlot(p) PROVE SlotStep
<1> USE DEF IInv, SlotInv
<1>1. OnDataPath(p)
  BY PacketOnPath DEF Packet
<1>2. PICK e \in Entries, u \in Symbols : e = ent[p] /\ u = at[p]
  BY DEF ClearSlot, InHandTyped, DataPath
<1>3. /\ pc[p] = "clear" /\ pc'[p] = "release" /\ at'[p] = at[p] + 1
      /\ UNCHANGED <<present, latch, state, holder, misfreed, ent, got, slot>>
  BY DEF ClearSlot, Goto, LocalsTyped, arena
<1>4. /\ OthersStay(p) /\ state[e] = "OPEN"
      /\ \A t : ~Swept(e, t) /\ (Clearing(e, t) <=> t = u)
      /\ \A q \in Procs \ {p} : pc[q] \in Decoders => ent[q] # e
      /\ Unlinked(e)' = Unlinked(e)
  BY <1>1, <1>2, <1>3, DecoderStep DEF Decoders
<1>5. /\ link'[e][u] = SlotFree
      /\ \A t \in Symbols \ {u} : link'[e][t] = link[e][t]
      /\ \A f \in Entries \ {e} : link'[f] = link[f]
  BY <1>2 DEF ClearSlot, TableTyped
<1>6. /\ got[p] \subseteq Linked(e)
      /\ \A t \in Symbols : Ahead(p, t) => Holds(e, t)
      /\ latch[e] = "COMPLETE"
  BY <1>2, <1>3 DEF Carried, Claims, Decoders
<1>7. Linked(e)' = Linked(e)
  BY <1>3, <1>4 DEF Linked
<1>8. \A t \in Symbols \ {u} : Holds(e, t) => Holds(e, t)'
  BY <1>3, <1>5 DEF Holds
<1>9. \A t : ~Swept(e, t)' /\ ~Clearing(e, t)'
  BY <1>2, <1>3, <1>4 DEF Swept, Clearing, OthersStay, Decoders
<1>10. Claims'
  BY <1>3, <1>4 DEF Claims, Decoders, OthersStay
<1>11. HandHolds'
  BY <1>3, <1>4, HandsAside
<1>12. ASSUME NEW q \in Procs, pc'[q] \in Decoders \ {"gather"}, ent'[q] = e
       PROVE  /\ got'[q] \subseteq Linked(e)'
              /\ pc'[q] = "clear" => at'[q] \in got'[q]
              /\ \A t \in Symbols : Ahead(q, t)' => Holds(e, t)'
  <2>1. q = p
    BY <1>4, <1>12 DEF OthersStay
  <2>2. \A t \in Symbols : Ahead(p, t)' => Ahead(p, t) /\ t # u
    BY <1>2, <1>3 DEF Ahead, Symbols
  <2> QED BY <1>3, <1>6, <1>7, <1>8, <2>1, <2>2
<1>13. ASSUME NEW t \in Linked(e)'
       PROVE  \/ Holds(e, t)' \/ Swept(e, t)' \/ Clearing(e, t)'
              \/ link'[e][t] = SlotFree /\ latch'[e] = "COMPLETE"
  <2>1. t \in Linked(e) /\ t \in Symbols
    BY <1>7, LinkTyped
  <2> QED BY <1>3, <1>4, <1>5, <1>6, <1>8, <2>1 DEF LinksGood
<1>14. ASSUME KeptInv
       PROVE  /\ DataLive' /\ Linkers' /\ EmptyBlank'
              /\ \A s \in Slots, t \in Symbols :
                   holder'[s] = Cell(e, t) =>
                     t \in Linked(e)' /\ link'[e][t] = s /\ ~Swept(e, t)' /\ ~Clearing(e, t)'
  <2>1. DataLive' /\ Linkers' /\ EmptyBlank'
    BY <1>1, <1>3, <1>14, DecoderKept DEF Decoders
  <2>2. ASSUME NEW s \in Slots, NEW t \in Symbols, holder'[s] = Cell(e, t)
        PROVE  t \in Linked(e)' /\ link'[e][t] = s /\ ~Swept(e, t)' /\ ~Clearing(e, t)'
    <3>1. t \in Linked(e) /\ link[e][t] = s /\ t # u
      BY <1>3, <1>4, <1>14, <2>2 DEF KeptInv, CellsLinked
    <3> QED BY <1>5, <1>7, <1>9, <3>1
  <2> QED BY <2>1, <2>2
<1> QED BY <1>2, <1>3, <1>4, <1>5, <1>10, <1>11, <1>12, <1>13, <1>14, AtEntry

-----------------------------------------------------------------------------
(* Opening, closing and sweeping *)

\* The steps of open_session() and close_session() that touch no block.
LEMMA ControlSlots ==
  ASSUME IInv, SlotInv, NEW p \in Procs, races' \subseteq {"late"},
         \/ HandleOpen(p) \/ OpenLock(p) \/ OpenFound(p) \/ OpenFull(p) \/ OpenPublish(p)
         \/ OpenUnlock(p) \/ HandlePurge(p) \/ CloseLock(p) \/ CloseClaim(p)
         \/ CloseUnlock(p) \/ ClosePublish(p) \/ PurgeErase(p)
  PROVE  SlotStep
<1> USE DEF IInv, SlotInv
<1> DEFINE Same == UNCHANGED <<present, link, latch, holder, misfreed>>
           From == {"idle", "open", "find", "publish", "unlock", "close", "claim",
                    "closeUnlock", "empty", "erase"}
           To == (From \ {"empty"}) \cup {"sweep"}
           Blanks == \A e \in Entries :
                       state'[e] = "EMPTY" =>
                         state[e] = "EMPTY" \/ (pc[p] = "empty" /\ ent[p] = e)
           Ok == /\ Same /\ pc[p] \in From /\ pc'[p] \in To /\ OthersStay(p)
                 /\ pc'[p] = "erase" \/ at'[p] = 0
                 /\ Blanks
                 /\ \A q \in Procs : pc[q] \in Decoders => state'[ent[q]] = "OPEN"
                 /\ DataLive /\ races' = {} =>
                      \A q \in Procs : pc[q] \in DataPath => state'[ent[q]] = "OPEN"
<1>0. pc[p] \notin {"sweep", "empty", "erase", "release", "clear"} => at[p] = 0
  BY DEF Claims
<1>1. ASSUME UNCHANGED state PROVE Ok
  <2>1. /\ Blanks
        /\ \A q \in Procs : pc[q] \in Decoders => state'[ent[q]] = "OPEN"
        /\ DataLive => \A q \in Procs : pc[q] \in DataPath => state'[ent[q]] = "OPEN"
    BY <1>1 DEF Claims, DataLive
  <2>2. ASSUME HandleOpen(p) \/ HandlePurge(p) PROVE Ok
    BY <1>0, <2>1, <2>2 DEF HandleOpen, HandlePurge, Message, TakeMessage, Goto, OthersStay,
                      LocalsTyped, table, arena
  <2>3. ASSUME OpenLock(p) \/ CloseLock(p) PROVE Ok
    BY <1>0, <2>1, <2>3 DEF OpenLock, CloseLock, Acquire, Goto, OthersStay, LocalsTyped,
                      table, arena, locals
  <2>4. ASSUME OpenFound(p) PROVE Ok
    BY <1>0, <2>1, <2>4 DEF OpenFound, Goto, OthersStay, LocalsTyped, table, arena
  <2>5. ASSUME OpenFull(p) PROVE Ok
    BY <1>0, <2>1, <2>5 DEF OpenFull, Goto, OthersStay, LocalsTyped, table, arena, locals
  <2>6. ASSUME OpenUnlock(p) \/ PurgeErase(p) PROVE Ok
    BY <1>0, <2>1, <2>6 DEF OpenUnlock, PurgeErase, Return, Goto, OthersStay, LocalsTyped,
                      table, arena
  <2>7. ASSUME CloseUnlock(p) PROVE Ok
    BY <1>0, <2>1, <2>7 DEF CloseUnlock, Goto, OthersStay, LocalsTyped, table, arena,
                      locals
  <2>8. ASSUME OpenPublish(p) PROVE Ok
    BY <1>0, <2>1, <2>8 DEF OpenPublish, Goto, OthersStay, LocalsTyped, arena, locals
  <2>9. ASSUME ClosePublish(p) PROVE Ok
    BY <1>0, <2>1, <2>9 DEF ClosePublish, Goto, OthersStay, LocalsTyped, arena, locals
  <2>10. ASSUME CloseClaim(p) PROVE Ok
    <3>1. ent' = [ent EXCEPT ![p] = ent'[p]]
      BY <2>10 DEF CloseClaim, LocalsTyped
    <3> QED BY <1>0, <2>1, <2>10, <3>1 DEF CloseClaim, Goto, OthersStay, LocalsTyped, arena
  <2> QED BY <2>2, <2>3, <2>4, <2>5, <2>6, <2>7, <2>8, <2>9, <2>10
<1>2. ASSUME OpenPublish(p) PROVE Ok
  <2>1. \A e \in Entries : state'[e] = IF e = ent[p] THEN "OPEN" ELSE state[e]
    BY <1>2 DEF OpenPublish, TableTyped
  <2>2. /\ \A q \in Procs : pc[q] \in Decoders => state'[ent[q]] = "OPEN"
        /\ DataLive => \A q \in Procs : pc[q] \in DataPath => state'[ent[q]] = "OPEN"
    BY <2>1 DEF Claims, DataLive, Decoders, DataPath, InHandTyped
  <2> QED BY <1>0, <1>2, <2>1, <2>2 DEF OpenPublish, Goto, OthersStay, LocalsTyped, arena,
                                  locals
<1>3. ASSUME CloseClaim(p), ~UNCHANGED state PROVE Ok
  <2>1. PICK e \in OpenOf(ses[p]) : TRUE
    BY <1>3 DEF CloseClaim
  <2>2. First(OpenOf(ses[p])) = e /\ e \in Entries
    BY FirstOpen
  <2>3. /\ ent' = [ent EXCEPT ![p] = e] /\ state' = [state EXCEPT ![e] = "CLOSING"]
        /\ Storing(e) # {} => "late" \in races'
        /\ Decoding(e) # {} => "torn" \in races'
    BY <1>3, <2>1, <2>2 DEF CloseClaim
  <2>4. \A f \in Entries : state'[f] = IF f = e THEN "CLOSING" ELSE state[f]
    BY <2>3 DEF TableTyped
  <2>5. \A q \in Procs : pc[q] \in Decoders => ent[q] # e
    BY <2>3 DEF Decoding, Decoders
  <2>6. races' = {} => \A q \in Procs : pc[q] \in DataPath => ent[q] # e
    BY <2>3 DEF Decoding, Storing, DataPath
  <2>7. \A q \in Procs : pc[q] \in Decoders => state'[ent[q]] = "OPEN"
    BY <2>4, <2>5 DEF Claims, InHandTyped, Decoders, DataPath
  <2>8. DataLive /\ races' = {} =>
          \A q \in Procs : pc[q] \in DataPath => state'[ent[q]] = "OPEN"
    BY <2>4, <2>6 DEF DataLive, InHandTyped
  <2> QED BY <1>0, <1>3, <2>3, <2>4, <2>7, <2>8 DEF CloseClaim, Goto, OthersStay, LocalsTyped,
                                              arena
<1>4. ASSUME ClosePublish(p) PROVE Ok
  <2>1. \A f \in Entries : state'[f] = IF f = ent[p] THEN "EMPTY" ELSE state[f]
    BY <1>4 DEF ClosePublish, TableTyped
  <2>2. pc[p] = "empty" /\ ent[p] \in Entries /\ state[ent[p]] = "CLOSING"
    BY <1>4, EntriesSymbols DEF ClosePublish, InHandTyped, SweptByOne, Sweeping
  <2>3. /\ \A q \in Procs : pc[q] \in Decoders => state'[ent[q]] = "OPEN"
        /\ DataLive => \A q \in Procs : pc[q] \in DataPath => state'[ent[q]] = "OPEN"
    BY <1>0, <2>1, <2>2 DEF Claims, DataLive, Decoders, DataPath, InHandTyped
  <2> QED BY <1>4, <2>1, <2>2, <2>3 DEF ClosePublish, Goto, OthersStay, LocalsTyped, arena,
                                        locals
<1>5. Ok
  <2>1. UNCHANGED state \/ OpenPublish(p) \/ CloseClaim(p) \/ ClosePublish(p)
    BY DEF HandleOpen, OpenLock, OpenFound, OpenFull, OpenUnlock, HandlePurge, CloseLock,
           CloseUnlock, PurgeErase, Acquire, table
  <2> QED BY <1>1, <1>2, <1>3, <1>4, <2>1
<1>6. HandHolds'
  BY <1>5, HandsAside
<1>7. ASSUME KeptInv, races' = {}
      PROVE  DataLive' /\ \A e \in Entries : state'[e] = "EMPTY" => present[e] = {}
  <2>1. DataLive'
    BY <1>5, <1>7 DEF KeptInv, DataLive, OthersStay, DataPath
  <2> QED BY <1>5, <1>7, <2>1 DEF KeptInv, EmptyBlank
<1> QED BY <1>5, <1>6, <1>7, AsideStep DEF Decoders

\* An entry is blanked that no decoder is at work on.
LEMMA BlankStep ==
  ASSUME IInv, SlotInv, NEW p \in Procs, OthersStay(p),
         NEW e \in Entries, state[e] # "OPEN", UNCHANGED <<state, holder, misfreed>>,
         ent[p] \in {e, None}, ent'[p] = e,
         pc[p] \notin DataPath, pc'[p] \in {"publish", "empty"},
         pc'[p] = "publish" => at'[p] = 0,
         present'[e] = {}, latch'[e] = "PENDING",
         \A f \in Entries \ {e} : /\ present'[f] = present[f] /\ link'[f] = link[f]
                                  /\ latch'[f] = latch[f],
         KeptInv => \A s \in Slots, t \in Symbols : holder[s] # Cell(e, t)
  PROVE  SlotStep
<1> USE DEF IInv, SlotInv
<1>1. \A q \in Procs : pc[q] \in Decoders => ent[q] \in Entries \ {e}
  BY NoDecoder DEF InHandTyped, Decoders, DataPath
<1>2. Claims'
  BY <1>1 DEF Claims, Decoders, DataPath, OthersStay
<1>3. HandHolds'
  BY HandsAside DEF DataPath
<1>4. \A q \in Procs : ~(pc'[q] \in Decoders \ {"gather"} /\ ent'[q] = e)
  BY <1>1 DEF OthersStay, Decoders, DataPath
<1>5. Linked(e)' = {}
  BY DEF Linked
<1>6. ASSUME KeptInv
      PROVE  DataLive' /\ Linkers' /\ EmptyBlank'
  <2> USE <1>6 DEF KeptInv
  <2>1. DataLive'
    BY DEF DataLive, OthersStay, DataPath
  <2>2. Linkers'
    <3>1. \A q \in Procs : pc'[q] = "link" => /\ pc[q] = "link" /\ ent'[q] = ent[q]
                                             /\ sym'[q] = sym[q] /\ ent[q] \in Entries \ {e}
      BY DEF DataLive, OthersStay, DataPath, InHandTyped
    <3> QED BY <3>1 DEF Linkers
  <2>3. EmptyBlank'
    <3>1. ASSUME NEW q \in Procs, q # p, pc'[q] = "empty" PROVE present'[ent'[q]] = {}
      <4>1. pc[q] = "empty" /\ ent'[q] = ent[q] /\ ent[q] \in Entries
        BY <3>1 DEF OthersStay, InHandTyped
      <4> QED BY <4>1 DEF EmptyBlank
    <3> QED BY <3>1 DEF EmptyBlank
  <2> QED BY <2>1, <2>2, <2>3
<1> QED BY <1>2, <1>3, <1>4, <1>5, <1>6, AtEntry DEF DataPath

\* An entry that is filled was empty, so zeroing its blocks loses no slot.
LEMMA OpenFillSlots ==
  ASSUME IInv, SlotInv, NEW p \in Procs, OpenFill(p) PROVE SlotStep
<1> USE DEF IInv, SlotInv
<1>1. PICK e \in Entries : /\ state[e] = "EMPTY"
                          /\ present' = [present EXCEPT ![e] = {}]
                          /\ link' = [link EXCEPT ![e] = Blank]
                          /\ latch' = [latch EXCEPT ![e] = "PENDING"]
                          /\ ent' = [ent EXCEPT ![p] = e]
  BY DEF OpenFill
<1>2. /\ pc[p] = "find" /\ pc'[p] = "publish" /\ at'[p] = 0 /\ ent[p] = None /\ ent'[p] = e
      /\ OthersStay(p) /\ UNCHANGED <<state, holder, misfreed>>
  BY <1>1 DEF OpenFill, Goto, OthersStay, LocalsTyped, InHandTyped, Claims, arena
<1>3. /\ present'[e] = {} /\ latch'[e] = "PENDING"
      /\ \A f \in Entries \ {e} : /\ present'[f] = present[f] /\ link'[f] = link[f]
                                  /\ latch'[f] = latch[f]
  BY <1>1 DEF TableTyped
<1>4. KeptInv => \A s \in Slots, t \in Symbols : holder[s] # Cell(e, t)
  BY <1>1 DEF KeptInv, CellsLinked, Linked, EmptyBlank
<1> QED BY <1>1, <1>2, <1>3, <1>4, BlankStep DEF DataPath

\* Every slot of the entry was swept.
LEMMA SweepResetSlots ==
  ASSUME IInv, SlotInv, NEW p \in Procs, SweepReset(p) PROVE SlotStep
<1> USE DEF IInv, SlotInv
<1>1. PICK e \in Entries : e = ent[p]
  BY DEF SweepReset, InHandTyped
<1>2. /\ pc[p] = "sweep" /\ pc'[p] = "empty" /\ ent'[p] = e /\ at[p] = N /\ OthersStay(p)
      /\ UNCHANGED <<state, holder, misfreed>>
  BY <1>1 DEF SweepReset, Goto, OthersStay, LocalsTyped, locals, arena
<1>3. /\ present'[e] = {} /\ latch'[e] = "PENDING"
      /\ \A f \in Entries \ {e} : /\ present'[f] = present[f] /\ link'[f] = link[f]
                                  /\ latch'[f] = latch[f]
  BY <1>1 DEF SweepReset, TableTyped
<1>4. KeptInv => \A s \in Slots, t \in Symbols : holder[s] # Cell(e, t)
  <2>1. \A t \in Symbols : Swept(e, t)
    <3>1. \A t \in Symbols : t < at[p]
      BY <1>2, TableAssumption DEF Symbols
    <3> QED BY <1>1, <1>2, <3>1 DEF Swept
  <2> QED BY <2>1 DEF KeptInv, CellsLinked
<1>5. state[e] = "CLOSING"
  BY <1>1, <1>2, EntriesSymbols DEF SweptByOne, Sweeping
<1> QED BY <1>1, <1>2, <1>3, <1>4, <1>5, BlankStep DEF DataPath

\* One turn of the sweep: a registered symbol's link that is not free is still its
\* own, or the turn is noted.
LEMMA SweepSlots ==
  ASSUME IInv, SlotInv, NEW p \in Procs, Sweep(p), races' \subseteq {"late"}
  PROVE  SlotStep
<1> USE DEF IInv, SlotInv
<1>1. PICK e \in Entries, u \in Symbols : e = ent[p] /\ u = at[p]
  BY EntriesSymbols DEF Sweep, InHandTyped, LocalsTyped
<1>2. /\ pc[p] = "sweep" /\ OthersStay(p) /\ at'[p] = at[p] + 1
      /\ UNCHANGED <<state, present, link, latch, pc, ses, ent, sym, slot, got>>
  BY DEF Sweep, OthersStay, LocalsTyped, table
<1>3. /\ state[e] = "CLOSING"
      /\ \A q \in Procs \ {p} : ~(pc[q] = "sweep" /\ ent[q] = e)
  BY <1>1, <1>2, EntriesSymbols DEF SweptByOne, Sweeping
<1>4. \A q \in Procs : pc[q] \in Decoders => ent[q] # e
  BY <1>3, NoDecoder
<1>5. Linked(e)' = Linked(e)
  <2>1. Unlinked(e)' = Unlinked(e)
    BY <1>2, UnlinkedStays
  <2> QED BY <1>2, <2>1 DEF Linked
<1>6. \A t \in Symbols : /\ Swept(e, t) <=> t < u
                         /\ Swept(e, t)' <=> t < u \/ t = u
                         /\ ~Clearing(e, t) /\ ~Clearing(e, t)'
  <2>1. \A t \in Symbols : Swept(e, t) <=> t < u
    BY <1>1, <1>2, <1>3 DEF Swept
  <2>2. \A t \in Symbols : Swept(e, t)' <=> t < u + 1
    BY <1>1, <1>2, <1>3 DEF Swept, OthersStay
  <2>3. \A t \in Symbols : ~Clearing(e, t) /\ ~Clearing(e, t)'
    BY <1>2, <1>4 DEF Clearing, Decoders
  <2>4. \A t \in Symbols : t < u + 1 <=> t < u \/ t = u
    BY DEF Symbols
  <2> QED BY <2>1, <2>2, <2>3, <2>4
<1>7. \/ /\ u \in present[e] /\ link[e][u] # SlotFree
         /\ Holds(e, u) /\ UNCHANGED misfreed
         /\ \A s \in Slots : holder'[s] = IF s = link[e][u] THEN Free ELSE holder[s]
      \/ /\ ~(u \in present[e] /\ link[e][u] # SlotFree)
         /\ UNCHANGED <<holder, misfreed>>
  <2>1. CASE u \in present[e] /\ link[e][u] # SlotFree
    <3>1. FreeSlot(link[e][u], Cell(e, u)) /\ Note("swept", u \in Unlinked(e))
      BY <1>1, <2>1 DEF Sweep
    <3>2. u \in Linked(e)
      BY <2>1, <3>1 DEF Note, Linked
    <3>3. Holds(e, u)
      BY <1>6, <2>1, <3>2 DEF LinksGood, Symbols
    <3> QED BY <2>1, <3>1, <3>3 DEF FreeSlot, Holds, TableTyped
  <2>2. CASE ~(u \in present[e] /\ link[e][u] # SlotFree)
    BY <1>1, <2>2 DEF Sweep, arena
  <2> QED BY <2>1, <2>2
<1>8. \A s \in Slots, f \in Entries, t \in Symbols :
        /\ holder'[s] = Cell(f, t) => holder[s] = Cell(f, t)
        /\ holder[s] = Cell(f, t) /\ (f # e \/ t # u) => holder'[s] = Cell(f, t)
  BY <1>7, HoldersApart DEF Holds, TableTyped
<1>9. \A t \in Symbols \ {u} : Holds(e, t) => Holds(e, t)'
  BY <1>2, <1>8 DEF Holds, TableTyped
<1>10. Claims'
  BY <1>2 DEF Claims, OthersStay
<1>11. HandHolds'
  BY <1>2, <1>7, HoldersApart DEF HandHolds, Holds, InHandTyped
<1>12. \A q \in Procs : ~(pc'[q] \in Decoders \ {"gather"} /\ ent'[q] = e)
  BY <1>2, <1>4
<1>13. ASSUME NEW t \in Linked(e)'
       PROVE  \/ Holds(e, t)' \/ Swept(e, t)' \/ Clearing(e, t)'
              \/ link'[e][t] = SlotFree /\ latch'[e] = "COMPLETE"
  <2>1. t \in Linked(e) /\ t \in Symbols
    BY <1>5, LinkTyped
  <2> QED BY <1>2, <1>6, <1>9, <2>1 DEF LinksGood
<1>14. ASSUME KeptInv
       PROVE  /\ DataLive' /\ Linkers' /\ EmptyBlank'
              /\ \A s \in Slots, t \in Symbols :
                   holder'[s] = Cell(e, t) =>
                     t \in Linked(e)' /\ link'[e][t] = s /\ ~Swept(e, t)' /\ ~Clearing(e, t)'
  <2> USE <1>14 DEF KeptInv
  <2>1. DataLive' /\ Linkers' /\ EmptyBlank'
    BY <1>2 DEF DataLive, Linkers, EmptyBlank
  <2>2. ASSUME NEW s \in Slots, NEW t \in Symbols, holder'[s] = Cell(e, t)
        PROVE  t \in Linked(e)' /\ link'[e][t] = s /\ ~Swept(e, t)' /\ ~Clearing(e, t)'
    <3>1. t \in Linked(e) /\ link[e][t] = s /\ ~Swept(e, t) /\ holder[s] = Cell(e, t)
      BY <1>8, <2>2 DEF CellsLinked
    <3>2. t # u
      BY <1>7, <2>2, <3>1, HoldersApart, TableAssumption DEF Linked
    <3> QED BY <1>2, <1>5, <1>6, <3>1, <3>2
  <2> QED BY <2>1, <2>2
<1>15. /\ ent[p] \in {e, None} /\ ent'[p] \in {e, None}
       /\ pc'[p] \notin DataPath /\ UNCHANGED misfreed
       /\ \A s \in Slots, f \in Entries \ {e}, t \in Symbols :
            holder'[s] = Cell(f, t) <=> holder[s] = Cell(f, t)
  BY <1>1, <1>2, <1>7, <1>8 DEF DataPath
<1> QED BY <1>2, <1>10, <1>11, <1>12, <1>13, <1>14, <1>15, AtEntry

\* Every step of a behaviour without the races keeps what it has to.
LEMMA SlotNext ==
  ASSUME IInv, SlotInv, [Next]_vars, races' \subseteq {"late"} PROVE SlotStep
<1>1. CASE UNCHANGED <<table, arena, pc, locals>>
  <2>1. SlotInv'
    BY <1>1 DEF SlotInv, Claims, HandHolds, Carried, LinksGood, Linked, Unlinked, Holds,
                Swept, Clearing, Ahead, table, arena, locals
  <2>2. KeptInv => KeptInv'
    BY <1>1 DEF KeptInv, DataLive, Linkers, EmptyBlank, CellsLinked, Linked, Unlinked, Swept,
                Clearing, table, arena, locals
  <2> QED BY <2>1, <2>2 DEF SlotStep
<1>2. ASSUME NEW x \in Sessions, BroadcastOpen(x) \/ BroadcastPurge(x) PROVE SlotStep
  BY <1>1, <1>2 DEF BroadcastOpen, BroadcastPurge
<1>3. ASSUME NEW p \in Procs, Open(p) \/ Purge(p) PROVE SlotStep
  BY <1>3, ControlSlots, OpenFillSlots, SweepSlots, SweepResetSlots DEF Open, Purge
<1>4. ASSUME NEW p \in Procs, Receive(p) PROVE SlotStep
  BY <1>4, ReceiveSlots
<1>5. ASSUME NEW p \in Procs, Packet(p) PROVE SlotStep
  BY <1>5, AllocSlotSlots, ArenaExhaustedSlots, RegisterBitSlots, RegisterDuplicateSlots,
     RegisterLinkSlots, GatherSlots, MarkCompleteSlots, DecoderReturns, ReleaseSlotSlots,
     ClearSlotSlots, ReleaseSkipSlots DEF Packet
<1> QED BY <1>1, <1>2, <1>3, <1>4, <1>5 DEF Next, vars, table, arena, locals

-----------------------------------------------------------------------------
(* What is still to be purged *)

PurgeMsg(x) == [kind |-> "purge", id |-> x]

\* What a sweep, and the end of a session, rest on: a session that was purged is
\* still to be purged by whoever is to open it, and by somebody if it has an entry.
Due(box, x) == \E i \in 1 .. Len(box) : box[i] = PurgeMsg(x)

PurgeFollows ==
  \A q \in Procs :
    /\ \A i \in 1 .. Len(inbox[q]) :
         inbox[q][i].kind = "open" /\ inbox[q][i].id \notin live =>
           \E j \in i + 1 .. Len(inbox[q]) : inbox[q][j] = PurgeMsg(inbox[q][i].id)
    /\ pc[q] \in {"open", "find", "publish"} /\ ses[q] \notin live => Due(inbox[q], ses[q])

PurgeDue ==
  \A e \in Entries :
    state[e] = "OPEN" /\ id[e] \notin live =>
      \E p \in Procs : \/ Due(inbox[p], id[e])
                       \/ pc[p] \in {"close", "claim"} /\ ses[p] = id[e]

Drained == PurgeFollows /\ PurgeDue

\* The messages of a channel.
LEMMA TailElements ==
  ASSUME NEW S, NEW s \in Seq(S), s # <<>>
  PROVE  /\ Len(s) \in Nat /\ 1 \in 1 .. Len(s) /\ Head(s) = s[1]
         /\ Len(Tail(s)) = Len(s) - 1
         /\ \A i \in 1 .. Len(s) - 1 : Tail(s)[i] = s[i + 1]
OBVIOUS

\* Appending keeps what is there and puts the message last.
LEMMA AppendElements ==
  ASSUME NEW S, NEW s \in Seq(S), NEW m \in S
  PROVE  /\ Len(s) \in Nat /\ Len(Append(s, m)) = Len(s) + 1
         /\ \A i \in 1 .. Len(s) : Append(s, m)[i] = s[i]
         /\ Append(s, m)[Len(s) + 1] = m
OBVIOUS

\* A step that takes no message and opens no entry.
LEMMA ControlDrained ==
  ASSUME Drained, NEW p \in Procs, OthersStay(p), UNCHANGED <<inbox, live>>,
         pc'[p] \in {"open", "find", "publish"} =>
           pc[p] \in {"open", "find", "publish"} /\ ses'[p] = ses[p],
         pc[p] \in {"close", "claim"} => pc'[p] \in {"close", "claim"} /\ ses'[p] = ses[p],
         \A e \in Entries : state'[e] = "OPEN" => state[e] = "OPEN" /\ id'[e] = id[e]
  PROVE  Drained'
<1> USE DEF Drained, OthersStay
<1>1. PurgeFollows'
  BY DEF PurgeFollows, Due
<1>2. PurgeDue'
  BY DEF PurgeDue, Due
<1> QED BY <1>1, <1>2

\* Taking a message leaves the purges that are still to come.
LEMMA TakenDue ==
  ASSUME InboxTyped, NEW p \in Procs, inbox[p] # <<>>,
         inbox' = [inbox EXCEPT ![p] = Tail(inbox[p])],
         NEW q \in Procs
  PROVE  \A i \in 1 .. Len(inbox[q]) :
           (q = p /\ i = 1) \/ \E j \in 1 .. Len(inbox'[q]) : inbox'[q][j] = inbox[q][i]
<1> SUFFICES ASSUME NEW i \in 1 .. Len(inbox[q]), ~(q = p /\ i = 1)
             PROVE  \E j \in 1 .. Len(inbox'[q]) : inbox'[q][j] = inbox[q][i]
  OBVIOUS
<1>1. inbox[q] \in Seq(Messages)
  BY DEF InboxTyped
<1>2. inbox'[q] = IF q = p THEN Tail(inbox[q]) ELSE inbox[q]
  BY DEF InboxTyped
<1>3. CASE q = p
  <2>1. inbox[q] # <<>> /\ inbox'[q] = Tail(inbox[q])
    BY <1>2, <1>3
  <2>2. /\ Len(inbox[q]) \in Nat /\ Len(inbox'[q]) = Len(inbox[q]) - 1
        /\ \A n \in 1 .. Len(inbox[q]) - 1 : inbox'[q][n] = inbox[q][n + 1]
    BY <1>1, <2>1, TailElements
  <2>3. i - 1 \in 1 .. Len(inbox[q]) - 1 /\ (i - 1) + 1 = i
    BY <1>3, <2>2
  <2> QED BY <1>3, <2>2, <2>3
<1>4. CASE q # p
  BY <1>2, <1>4
<1> QED BY <1>3, <1>4

\* The purge that follows an open message still follows when one is taken.
LEMMA TakenFollows ==
  ASSUME InboxTyped, PurgeFollows, UNCHANGED live, NEW p \in Procs, inbox[p] # <<>>,
         inbox' = [inbox EXCEPT ![p] = Tail(inbox[p])],
         NEW q \in Procs, NEW i \in 1 .. Len(inbox'[q]),
         inbox'[q][i].kind = "open", inbox'[q][i].id \notin live
  PROVE  \E j \in i + 1 .. Len(inbox'[q]) : inbox'[q][j] = PurgeMsg(inbox'[q][i].id)
<1>1. inbox[q] \in Seq(Messages)
  BY DEF InboxTyped
<1>2. inbox'[q] = IF q = p THEN Tail(inbox[q]) ELSE inbox[q]
  BY DEF InboxTyped
<1>3. CASE q = p
  <2>1. inbox[q] # <<>> /\ inbox'[q] = Tail(inbox[q])
    BY <1>2, <1>3
  <2>2. /\ Len(inbox[q]) \in Nat /\ Len(inbox'[q]) = Len(inbox[q]) - 1
        /\ \A n \in 1 .. Len(inbox[q]) - 1 : inbox'[q][n] = inbox[q][n + 1]
    BY <1>1, <2>1, TailElements
  <2>3. i + 1 \in 1 .. Len(inbox[q]) /\ inbox'[q][i] = inbox[q][i + 1]
    BY <2>2
  <2>4. PICK j \in i + 2 .. Len(inbox[q]) : inbox[q][j] = PurgeMsg(inbox'[q][i].id)
    <3>1. (i + 1) + 1 = i + 2
      BY <2>2
    <3> QED BY <2>3, <3>1 DEF PurgeFollows
  <2>5. j - 1 \in i + 1 .. Len(inbox'[q]) /\ j - 1 \in 1 .. Len(inbox[q]) - 1 /\ (j - 1) + 1 = j
    BY <2>2
  <2> QED BY <2>2, <2>4, <2>5
<1>4. CASE q # p
  BY <1>2, <1>4 DEF PurgeFollows
<1> QED BY <1>3, <1>4

\* Taking a SessionOpen takes no purge from behind it.
LEMMA HandleOpenDrained ==
  ASSUME IInv, Drained, NEW p \in Procs, HandleOpen(p) PROVE Drained'
<1> USE DEF IInv, Drained, HandleOpen, Message
<1>1. /\ inbox[p] # <<>> /\ inbox' = [inbox EXCEPT ![p] = Tail(inbox[p])]
      /\ pc[p] = "idle" /\ OthersStay(p) /\ UNCHANGED <<state, id, live>>
      /\ pc'[p] # "idle" => pc'[p] = "open" /\ ses'[p] = Head(inbox[p]).id
  <2>1. CASE local[p][Head(inbox[p]).id] # None
    BY <2>1 DEF OthersStay, LocalsTyped, table, manager
  <2>2. CASE local[p][Head(inbox[p]).id] = None
    BY <2>2 DEF TakeMessage, Goto, OthersStay, LocalsTyped, table, manager
  <2> QED BY <2>1, <2>2
<1>2. inbox[p] \in Seq(Messages)
  BY DEF InboxTyped
<1>3. Len(inbox[p]) \in Nat /\ 1 \in 1 .. Len(inbox[p]) /\ Head(inbox[p]) = inbox[p][1]
  BY <1>1, <1>2, TailElements
<1>4. \A q \in Procs : \A x : Due(inbox[q], x) => Due(inbox'[q], x)
  <2> SUFFICES ASSUME NEW q \in Procs, NEW x, Due(inbox[q], x) PROVE Due(inbox'[q], x)
    OBVIOUS
  <2>1. PICK i \in 1 .. Len(inbox[q]) : inbox[q][i] = PurgeMsg(x)
    BY DEF Due
  <2>2. q = p => i # 1
    BY <1>3, <2>1 DEF PurgeMsg
  <2>3. PICK j \in 1 .. Len(inbox'[q]) : inbox'[q][j] = inbox[q][i]
    <3>1. \A n \in 1 .. Len(inbox[q]) :
            (q = p /\ n = 1) \/ \E j \in 1 .. Len(inbox'[q]) : inbox'[q][j] = inbox[q][n]
      BY <1>1, TakenDue
    <3> QED BY <2>2, <3>1
  <2> QED BY <2>1, <2>3 DEF Due
<1>5. PurgeFollows'
  <2>1. ASSUME NEW q \in Procs, NEW i \in 1 .. Len(inbox'[q]),
               inbox'[q][i].kind = "open", inbox'[q][i].id \notin live'
        PROVE  \E j \in i + 1 .. Len(inbox'[q]) : inbox'[q][j] = PurgeMsg(inbox'[q][i].id)
    BY <1>1, <2>1, TakenFollows
  <2>2. ASSUME NEW q \in Procs, pc'[q] \in {"open", "find", "publish"}, ses'[q] \notin live'
        PROVE  Due(inbox'[q], ses'[q])
    <3>1. CASE q # p
      <4>1. Due(inbox[q], ses[q]) /\ ses'[q] = ses[q]
        BY <1>1, <2>2, <3>1 DEF PurgeFollows, OthersStay
      <4> QED BY <1>4, <4>1 DEF Due
    <3>2. CASE q = p
      <4>1. inbox[p][1].kind = "open" /\ ses'[p] = inbox[p][1].id /\ ses'[p] \notin live
        BY <1>1, <1>3, <2>2, <3>2
      <4>2. PICK j \in 2 .. Len(inbox[p]) : inbox[p][j] = PurgeMsg(ses'[p])
        <5>1. 1 + 1 = 2
          OBVIOUS
        <5> QED BY <1>3, <4>1, <5>1 DEF PurgeFollows
      <4>3. j \in 1 .. Len(inbox[p]) /\ j # 1
        BY <1>3
      <4>4. PICK i \in 1 .. Len(inbox'[p]) : inbox'[p][i] = inbox[p][j]
        BY <1>1, <4>3, TakenDue
      <4> QED BY <3>2, <4>2, <4>4 DEF Due
    <3> QED BY <3>1, <3>2
  <2> QED BY <2>1, <2>2 DEF PurgeFollows
<1>6. PurgeDue'
  BY <1>1, <1>4 DEF PurgeDue, OthersStay
<1> QED BY <1>5, <1>6

\* A purge that is taken is under way.
LEMMA HandlePurgeDrained ==
  ASSUME IInv, Drained, NEW p \in Procs, HandlePurge(p) PROVE Drained'
<1> USE DEF IInv, Drained, HandlePurge, Message
<1>1. /\ inbox[p] # <<>> /\ inbox' = [inbox EXCEPT ![p] = Tail(inbox[p])]
      /\ pc[p] = "idle" /\ OthersStay(p) /\ UNCHANGED <<state, id, live>>
      /\ pc'[p] = "close" /\ ses'[p] = Head(inbox[p]).id
  BY DEF TakeMessage, Goto, OthersStay, LocalsTyped, table, manager
<1>2. inbox[p] \in Seq(Messages)
  BY DEF InboxTyped
<1>3. Len(inbox[p]) \in Nat /\ 1 \in 1 .. Len(inbox[p]) /\ Head(inbox[p]) = inbox[p][1]
  BY <1>1, <1>2, TailElements
<1>4. ASSUME NEW q \in Procs, NEW x, Due(inbox[q], x), q # p \/ ses'[p] # x
      PROVE  Due(inbox'[q], x)
  <2>1. PICK i \in 1 .. Len(inbox[q]) : inbox[q][i] = PurgeMsg(x)
    BY <1>4 DEF Due
  <2>2. q = p => i # 1
    BY <1>1, <1>3, <1>4, <2>1 DEF PurgeMsg
  <2>3. PICK j \in 1 .. Len(inbox'[q]) : inbox'[q][j] = inbox[q][i]
    <3>1. \A n \in 1 .. Len(inbox[q]) :
            (q = p /\ n = 1) \/ \E j \in 1 .. Len(inbox'[q]) : inbox'[q][j] = inbox[q][n]
      BY <1>1, TakenDue
    <3> QED BY <2>2, <3>1
  <2> QED BY <2>1, <2>3 DEF Due
<1>5. PurgeFollows'
  <2>1. ASSUME NEW q \in Procs, NEW i \in 1 .. Len(inbox'[q]),
               inbox'[q][i].kind = "open", inbox'[q][i].id \notin live'
        PROVE  \E j \in i + 1 .. Len(inbox'[q]) : inbox'[q][j] = PurgeMsg(inbox'[q][i].id)
    BY <1>1, <2>1, TakenFollows
  <2>2. ASSUME NEW q \in Procs, pc'[q] \in {"open", "find", "publish"}, ses'[q] \notin live'
        PROVE  Due(inbox'[q], ses'[q])
    <3>1. q # p /\ Due(inbox[q], ses[q]) /\ ses'[q] = ses[q]
      BY <1>1, <2>2 DEF PurgeFollows, OthersStay
    <3> QED BY <1>4, <3>1 DEF Due
  <2> QED BY <2>1, <2>2 DEF PurgeFollows
<1>6. PurgeDue'
  <2>1. ASSUME NEW e \in Entries, state'[e] = "OPEN", id'[e] \notin live'
        PROVE  \E q \in Procs : \/ Due(inbox'[q], id'[e])
                                \/ pc'[q] \in {"close", "claim"} /\ ses'[q] = id'[e]
    <3>1. PICK q \in Procs : \/ Due(inbox[q], id[e])
                             \/ pc[q] \in {"close", "claim"} /\ ses[q] = id[e]
      BY <1>1, <2>1 DEF PurgeDue
    <3>2. CASE q # p
      BY <1>1, <1>4, <3>1, <3>2 DEF OthersStay
    <3>3. CASE q = p
      BY <1>1, <1>4, <3>1, <3>3
    <3> QED BY <3>2, <3>3
  <2> QED BY <2>1 DEF PurgeDue
<1> QED BY <1>5, <1>6

\* The entry that becomes OPEN is of a session whose purge is still to come.
LEMMA OpenPublishDrained ==
  ASSUME IInv, Drained, NEW p \in Procs, OpenPublish(p) PROVE Drained'
<1> USE DEF IInv, Drained, OpenPublish
<1>1. /\ pc[p] = "publish" /\ pc'[p] = "unlock" /\ OthersStay(p)
      /\ UNCHANGED <<inbox, id, live, ses>>
  BY DEF Goto, OthersStay, LocalsTyped, manager, locals
<1>2. /\ id[ent[p]] = ses[p]
      /\ \A e \in Entries : state'[e] = "OPEN" => state[e] = "OPEN" \/ e = ent[p]
  BY <1>1 DEF Published, TableTyped
<1>3. PurgeFollows'
  BY <1>1 DEF PurgeFollows, Due, OthersStay
<1>4. PurgeDue'
  <2>1. \A q \in Procs : \A x : Due(inbox'[q], x) <=> Due(inbox[q], x)
    BY <1>1 DEF Due
  <2>2. ses[p] \notin live => Due(inbox[p], ses[p])
    BY <1>1 DEF PurgeFollows
  <2> QED BY <1>1, <1>2, <2>1, <2>2 DEF PurgeDue, OthersStay
<1> QED BY <1>3, <1>4

\* The entry that is closed was the session's only one.
LEMMA CloseClaimDrained ==
  ASSUME IInv, Drained, NEW p \in Procs, CloseClaim(p) PROVE Drained'
<1> USE DEF IInv, Drained, CloseClaim
<1>1. /\ pc[p] = "claim" /\ pc'[p] = "closeUnlock" /\ OthersStay(p)
      /\ UNCHANGED <<inbox, id, live, ses>>
  BY DEF Goto, OthersStay, LocalsTyped, manager
<1>2. \A e \in Entries : state'[e] = "OPEN" => state[e] = "OPEN" /\ id[e] # ses[p]
  <2>1. CASE OpenOf(ses[p]) = {}
    BY <2>1 DEF OpenOf
  <2>2. ASSUME NEW f \in OpenOf(ses[p])
        PROVE  \A e \in Entries : state'[e] = "OPEN" => state[e] = "OPEN" /\ id[e] # ses[p]
    <3>1. /\ f \in Entries /\ state' = [state EXCEPT ![f] = "CLOSING"]
          /\ OpenOf(ses[p]) = {f}
      BY <2>2, FirstOpen
    <3> QED BY <3>1 DEF TableTyped, OpenOf
  <2> QED BY <2>1, <2>2
<1>3. PurgeFollows'
  BY <1>1 DEF PurgeFollows, Due, OthersStay
<1>4. PurgeDue'
  <2>1. \A q \in Procs : \A x : Due(inbox'[q], x) <=> Due(inbox[q], x)
    BY <1>1 DEF Due
  <2> QED BY <1>1, <1>2, <2>1 DEF PurgeDue, OthersStay
<1> QED BY <1>3, <1>4

\* A broadcast is put behind the messages that wait.
LEMMA BroadcastDrained ==
  ASSUME IInv, Drained, NEW x \in Sessions, BroadcastOpen(x) \/ BroadcastPurge(x)
  PROVE  Drained'
<1> USE DEF IInv, Drained
<1>1. UNCHANGED <<state, id, pc, ses>>
  BY DEF BroadcastOpen, BroadcastPurge, table, locals
<1>2. \E m \in Messages :
        /\ inbox' = [q \in Procs |-> Append(inbox[q], m)]
        /\ \A y : y \notin live' => m = PurgeMsg(y) \/ y \notin live
        /\ m.kind = "open" => m.id \in live'
  <2>1. CASE BroadcastOpen(x)
    <3>1. inbox' = [q \in Procs |-> Append(inbox[q], [kind |-> "open", id |-> x])]
      BY <2>1 DEF BroadcastOpen, Broadcast
    <3> QED BY <2>1, <3>1 DEF BroadcastOpen, Messages
  <2>2. CASE BroadcastPurge(x)
    <3>1. inbox' = [q \in Procs |-> Append(inbox[q], PurgeMsg(x))]
      BY <2>2 DEF BroadcastPurge, Broadcast, PurgeMsg
    <3> QED BY <2>2, <3>1 DEF BroadcastPurge, Messages, PurgeMsg
  <2> QED BY <2>1, <2>2
<1>3. PICK m \in Messages :
        /\ inbox' = [q \in Procs |-> Append(inbox[q], m)]
        /\ \A y : y \notin live' => m = PurgeMsg(y) \/ y \notin live
        /\ m.kind = "open" => m.id \in live'
  BY <1>2
<1>4. ASSUME NEW q \in Procs
      PROVE  /\ Len(inbox[q]) \in Nat /\ Len(inbox'[q]) = Len(inbox[q]) + 1
             /\ \A i \in 1 .. Len(inbox[q]) : inbox'[q][i] = inbox[q][i]
             /\ inbox'[q][Len(inbox[q]) + 1] = m
  <2>1. inbox'[q] = Append(inbox[q], m) /\ inbox[q] \in Seq(Messages)
    BY <1>3 DEF InboxTyped
  <2> QED BY <2>1, AppendElements
<1>5. ASSUME NEW q \in Procs, NEW y, y \notin live', y \in live \/ Due(inbox[q], y)
      PROVE  Due(inbox'[q], y)
  <2>1. CASE y \in live
    <3>1. inbox'[q][Len(inbox[q]) + 1] = PurgeMsg(y)
      BY <1>3, <1>4, <1>5, <2>1
    <3>2. Len(inbox[q]) + 1 \in 1 .. Len(inbox'[q])
      BY <1>4
    <3> QED BY <3>1, <3>2 DEF Due
  <2>2. CASE Due(inbox[q], y)
    <3>1. PICK i \in 1 .. Len(inbox[q]) : inbox[q][i] = PurgeMsg(y)
      BY <2>2 DEF Due
    <3>2. i \in 1 .. Len(inbox'[q]) /\ inbox'[q][i] = PurgeMsg(y)
      BY <1>4, <3>1
    <3> QED BY <3>2 DEF Due
  <2> QED BY <1>5, <2>1, <2>2
<1>6. PurgeFollows'
  <2>1. ASSUME NEW q \in Procs, NEW i \in 1 .. Len(inbox'[q]),
               inbox'[q][i].kind = "open", inbox'[q][i].id \notin live'
        PROVE  \E j \in i + 1 .. Len(inbox'[q]) : inbox'[q][j] = PurgeMsg(inbox'[q][i].id)
    <3> DEFINE y == inbox'[q][i].id
    <3>1. i \in 1 .. Len(inbox[q]) /\ inbox'[q][i] = inbox[q][i]
      BY <1>3, <1>4, <2>1
    <3>2. CASE y \in live
      <4>1. inbox'[q][Len(inbox[q]) + 1] = PurgeMsg(y)
        BY <1>3, <1>4, <2>1, <3>2
      <4>2. Len(inbox[q]) + 1 \in i + 1 .. Len(inbox'[q])
        BY <1>4, <3>1
      <4> QED BY <4>1, <4>2
    <3>3. CASE y \notin live
      <4>1. PICK j \in i + 1 .. Len(inbox[q]) : inbox[q][j] = PurgeMsg(y)
        BY <2>1, <3>1, <3>3 DEF PurgeFollows
      <4>2. j \in i + 1 .. Len(inbox'[q]) /\ j \in 1 .. Len(inbox[q])
        BY <1>4, <3>1
      <4> QED BY <1>4, <4>1, <4>2
    <3> QED BY <3>2, <3>3
  <2>2. ASSUME NEW q \in Procs, pc'[q] \in {"open", "find", "publish"}, ses'[q] \notin live'
        PROVE  Due(inbox'[q], ses'[q])
    <3>1. pc[q] \in {"open", "find", "publish"} /\ ses'[q] = ses[q]
      BY <1>1, <2>2
    <3>2. ses[q] \in live \/ Due(inbox[q], ses[q])
      BY <3>1 DEF PurgeFollows
    <3> QED BY <1>5, <2>2, <3>1, <3>2 DEF Due
  <2> QED BY <2>1, <2>2 DEF PurgeFollows
<1>7. PurgeDue'
  <2>1. ASSUME NEW e \in Entries, state'[e] = "OPEN", id'[e] \notin live'
        PROVE  \E q \in Procs : \/ Due(inbox'[q], id'[e])
                                \/ pc'[q] \in {"close", "claim"} /\ ses'[q] = id'[e]
    <3>1. state[e] = "OPEN" /\ id'[e] = id[e] /\ id[e] \notin live'
      BY <1>1, <2>1
    <3>2. CASE id[e] \in live
      <4>1. PICK q \in Procs : TRUE
        BY TableAssumption
      <4> QED BY <1>5, <3>1, <3>2, <4>1 DEF Due
    <3>3. CASE id[e] \notin live
      <4>1. PICK q \in Procs : \/ Due(inbox[q], id[e])
                               \/ pc[q] \in {"close", "claim"} /\ ses[q] = id[e]
        BY <3>1, <3>3 DEF PurgeDue
      <4> QED BY <1>1, <1>5, <3>1, <4>1 DEF Due
    <3> QED BY <3>2, <3>3
  <2> QED BY <2>1 DEF PurgeDue
<1> QED BY <1>6, <1>7

\* Every step keeps a purged session's entry due for its sweep.
LEMMA DrainedNext == ASSUME IInv, Drained, [Next]_vars PROVE Drained'
<1> USE DEF IInv
<1>1. CASE UNCHANGED vars
  BY <1>1 DEF vars, Drained, PurgeFollows, PurgeDue, Due
<1>2. ASSUME NEW x \in Sessions, BroadcastOpen(x) \/ BroadcastPurge(x) PROVE Drained'
  BY <1>2, BroadcastDrained
<1>3. ASSUME NEW p \in Procs, Receive(p) \/ Packet(p) PROVE Drained'
  <2>1. OnDataPath(p)
    BY <1>3, ReceiveOnPath, PacketOnPath
  <2> QED BY <2>1, ControlDrained DEF OnDataPath, DataPath
<1>4. ASSUME NEW p \in Procs, Open(p) PROVE Drained'
  <2> USE DEF OthersStay, LocalsTyped, Goto
  <2>1. CASE OpenLock(p)
    BY <2>1, ControlDrained DEF OpenLock, Acquire, table, manager, locals
  <2>2. CASE OpenFound(p)
    BY <2>2, ControlDrained DEF OpenFound, table, manager
  <2>3. CASE OpenFill(p)
    <3>1. \A e \in Entries : state'[e] = "OPEN" => state[e] = "OPEN" /\ id'[e] = id[e]
      BY <2>3 DEF OpenFill, TableTyped
    <3> QED BY <2>3, <3>1, ControlDrained DEF OpenFill, manager
  <2>4. CASE OpenFull(p)
    BY <2>4, ControlDrained DEF OpenFull, table, manager, locals
  <2>5. CASE OpenUnlock(p)
    BY <2>5, ControlDrained DEF OpenUnlock, Return, table, manager
  <2> QED BY <1>4, <2>1, <2>2, <2>3, <2>4, <2>5, HandleOpenDrained, OpenPublishDrained DEF Open
<1>5. ASSUME NEW p \in Procs, Purge(p) PROVE Drained'
  <2> USE DEF OthersStay, LocalsTyped, Goto
  <2>1. CASE CloseLock(p)
    BY <2>1, ControlDrained DEF CloseLock, Acquire, table, manager, locals
  <2>2. CASE CloseUnlock(p)
    BY <2>2, ControlDrained DEF CloseUnlock, table, manager, locals
  <2>3. CASE Sweep(p)
    BY <2>3, ControlDrained DEF Sweep, table, manager
  <2>4. CASE SweepReset(p)
    BY <2>4, ControlDrained DEF SweepReset, manager, locals
  <2>5. CASE ClosePublish(p)
    <3>1. \A e \in Entries : state'[e] = "OPEN" => state[e] = "OPEN"
      BY <2>5 DEF ClosePublish, TableTyped
    <3> QED BY <2>5, <3>1, ControlDrained DEF ClosePublish, manager, locals
  <2>6. CASE PurgeErase(p)
    BY <2>6, ControlDrained DEF PurgeErase, Return, table, manager
  <2> QED BY <1>5, <2>1, <2>2, <2>3, <2>4, <2>5, <2>6, HandlePurgeDrained, CloseClaimDrained
          DEF Purge
<1> QED BY <1>1, <1>2, <1>3, <1>4, <1>5 DEF Next

-----------------------------------------------------------------------------
(* The theorems *)

\* What the races leave of the two invariants.
SlotsInv == /\ races \subseteq {"late"} => SlotInv
            /\ races = {} => KeptInv

\* At the start every slot is in the arena and nothing is due.
LEMMA SlotsInit == ASSUME Init PROVE SlotsInv /\ Drained
<1> USE EntriesSymbols DEF Init
<1>1. \A e \in Entries : Linked(e) = {}
  BY DEF Linked
<1>2. Claims /\ Carried /\ LinksGood /\ ~misfreed
  BY <1>1 DEF Claims, Decoders, Carried, LinksGood
<1>3. HandHolds /\ CellsLinked
  BY <1>1, HoldersApart DEF HandHolds, CellsLinked
<1>4. DataLive /\ Linkers /\ EmptyBlank
  BY DEF DataLive, DataPath, Linkers, EmptyBlank
<1>5. Drained
  BY DEF Drained, PurgeFollows, PurgeDue
<1> QED BY <1>2, <1>3, <1>4, <1>5 DEF SlotsInv, SlotInv, KeptInv

\* A race that was had stays noted.
LEMMA RacesStay == ASSUME [Next]_vars PROVE races \subseteq races'
<1>1. CASE UNCHANGED races
  BY <1>1
<1>2. ASSUME NEW x \in Sessions, BroadcastOpen(x) \/ BroadcastPurge(x)
      PROVE  races \subseteq races'
  BY <1>2 DEF BroadcastOpen, BroadcastPurge
<1>3. ASSUME NEW p \in Procs, Open(p) PROVE races \subseteq races'
  BY <1>3 DEF Open, HandleOpen, OpenLock, Acquire, OpenFound, OpenFill, OpenFull, OpenPublish,
              OpenUnlock
<1>4. ASSUME NEW p \in Procs, Purge(p) PROVE races \subseteq races'
  BY <1>4 DEF Purge, HandlePurge, CloseLock, Acquire, CloseClaim, CloseUnlock, Sweep, Note,
              SweepReset, ClosePublish, PurgeErase
<1>5. ASSUME NEW p \in Procs, Receive(p) PROVE races \subseteq races'
  BY <1>5 DEF Receive
<1>6. ASSUME NEW p \in Procs, Packet(p) PROVE races \subseteq races'
  BY <1>6 DEF Packet, AllocSlot, ArenaExhausted, RegisterBit, RegisterDuplicate, RegisterLink,
              Note, Gather, DecodeFails, MarkComplete, DecodeLost, ReleaseSlot, ClearSlot,
              ReleaseSkip, ReleaseDone
<1> QED BY <1>1, <1>2, <1>3, <1>4, <1>5, <1>6 DEF Next, vars

\* Every step keeps the invariants that its behaviour has.
LEMMA SlotsNext == ASSUME IInv, SlotsInv, [Next]_vars PROVE SlotsInv'
<1>1. races \subseteq races'
  BY RacesStay
<1>2. ASSUME races' \subseteq {"late"} PROVE SlotStep
  BY <1>1, <1>2, SlotNext DEF SlotsInv
<1>3. ASSUME races' = {} PROVE KeptInv'
  BY <1>1, <1>2, <1>3 DEF SlotsInv, SlotStep
<1> QED BY <1>2, <1>3 DEF SlotsInv, SlotStep

\* All parts hold always.
LEMMA SlotsSpec == Spec => [](IInv /\ SlotsInv /\ Drained)
<1>1. Init => IInv /\ SlotsInv /\ Drained
  BY InitInv, SlotsInit
<1>2. IInv /\ SlotsInv /\ Drained /\ [Next]_vars => (IInv /\ SlotsInv /\ Drained)'
  BY NextInv, SlotsNext, DrainedNext
<1> QED BY <1>1, <1>2, PTL DEF Spec

\* A slot is freed by who holds it, however the receivers' registrations, releases
\* and sweeps interleave, unless a purge met a decoder or a link was read by its bit
\* alone: packets that a purge overtakes, which register into a closing, an empty or
\* another session's entry, lose slots but free none that is not theirs.
THEOREM SlotsFreedOnce == Spec => []FreedOnce
<1>1. SlotsInv => FreedOnce
  BY DEF SlotsInv, SlotInv, FreedOnce
<1> QED BY <1>1, SlotsSpec, PTL

\* A registered slot stays reachable from its entry until it is freed, whatever the
\* number of symbols, in every behaviour in which no purge overtook a packet either:
\* through late registrations, failed decodes and the sweep of a claimed block.
THEOREM SlotsReachable == Spec => []NoSlotStranded
<1>1. IInv /\ SlotsInv => NoSlotStranded
  BY DEF SlotsInv, KeptInv, CellsLinked, EmptyBlank, Linked, NoSlotStranded
<1> QED BY <1>1, SlotsSpec, PTL

\* Once every session was purged and every message handled no entry is in use, in
\* every behaviour, and no slot is taken, in the same ones.
THEOREM NothingLeftBehind == Spec => []PurgedIsEmpty
<1>1. ASSUME IInv, SlotsInv, Drained, AllHandled, live = {}
      PROVE  /\ races = {} => \A s \in Slots : holder[s] = Free
             /\ \A e \in Entries : state[e] = "EMPTY"
  <2>1. \A p \in Procs : pc[p] = "idle" /\ inbox[p] = <<>> /\ Len(inbox[p]) = 0
    BY <1>1 DEF AllHandled
  <2>2. \A p \in Procs : \A x : ~Due(inbox[p], x)
    BY <2>1 DEF Due
  <2>3. \A e \in Entries : state[e] = "EMPTY"
    <3>1. \A e \in Entries : state[e] # "CLOSING"
      BY <1>1, <2>1 DEF IInv, SweptByOne, Sweeping
    <3>2. \A e \in Entries : state[e] # "OPEN"
      BY <1>1, <2>1, <2>2 DEF Drained, PurgeDue
    <3> QED BY <1>1, <3>1, <3>2 DEF IInv, TableTyped
  <2>4. ASSUME races = {}, NEW s \in Slots PROVE holder[s] = Free
    <3>1. holder[s] \in {Free} \cup {Hand(p) : p \in Procs} \cup (Entries \X Symbols)
      BY <1>1 DEF IInv, TableTyped
    <3>2. \A p \in Procs : holder[s] # Hand(p)
      BY <1>1, <2>1, <2>4 DEF SlotsInv, SlotInv, HandHolds
    <3>3. \A e \in Entries, t \in Symbols : holder[s] # Cell(e, t)
      BY <1>1, <2>3, <2>4 DEF SlotsInv, KeptInv, CellsLinked, EmptyBlank, Linked
    <3> QED BY <3>1, <3>2, <3>3 DEF Cell
  <2> QED BY <2>3, <2>4
<1>2. IInv /\ SlotsInv /\ Drained => PurgedIsEmpty
  BY <1>1 DEF PurgedIsEmpty
<1> QED BY <1>2, SlotsSpec, PTL
=============================================================================
