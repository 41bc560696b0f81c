------------------------- MODULE ReceiverLoopProofs -------------------------
(***************************************************************************)
(* What TLAPS proves of the receiver's main loop, for any number of        *)
(* sessions, symbols and restarts and any sizes of batch and buffer: no    *)
(* symbol the loop has accepted is forgotten, and every block it decodes   *)
(* is offered to the manager once.                                         *)
(***************************************************************************)
EXTENDS ReceiverLoop, SequenceTheorems, FiniteSetTheorems, TLAPS

-----------------------------------------------------------------------------
(* The inductive invariant. *)

\* The loop's own variables.  Outside a replay the replay's index is 1, and
\* during one the loop is at the control socket: no datagram comes in between.
LoopTyped ==
  /\ ctx \subseteq Sessions
  /\ early \subseteq Sessions
  /\ buffered \in [Sessions -> Seq(Symbols)]
  /\ \A x \in Sessions : /\ Len(buffered[x]) <= MaxBuffered
                         /\ buffered[x] # <<>> => x \in early
  /\ replaying \in early \cup {None}
  /\ replaying = None => at = 1
  /\ replaying # None => turn = "uds" /\ at \in 1 .. Len(buffered[replaying]) + 1
  /\ turn \in {"poll", "udp", "uds"}
  /\ left \in 0 .. BatchSize
  /\ turn = "udp" <=> left > 0
  /\ ready \in BOOLEAN

\* The session's block in the segment, and what the loop owes it.
BlockTyped ==
  /\ shmOpen \subseteq Sessions
  /\ registered \in [Sessions -> SUBSET Symbols]
  /\ latch \in [Sessions -> {"PENDING", "CLAIMED", "COMPLETE"}]
  /\ owed \in [Sessions -> SUBSET Symbols]

\* The manager and the socket.  A PurgeSession is read after the manager has
\* purged, and a purged session stays purged.
ManagerTyped ==
  /\ link \in {"up", "closed"}
  /\ inbox \in Seq(Messages)
  /\ closes \in 0 .. MaxCloses
  /\ phase \in [Sessions -> {"new", "open", "purged"}]
  /\ opens \in 0 .. MaxOpens
  /\ late \in 0 .. MaxLate
  /\ \A i \in 1 .. Len(inbox) : inbox[i].kind = "purge" => phase[inbox[i].id] = "purged"

CountsTyped ==
  /\ announced \in [Sessions -> 0 .. MaxAnnounced]
  /\ decodes \in [Sessions -> Nat]
  /\ reported \in [Sessions -> Nat]
  /\ refused \in [Sessions -> Nat]
  /\ restarts \in 0 .. MaxRestarts

\* A block that was decoded here stays decoded while the session lives, which is
\* why it is not decoded again.
DecodeStands ==
  \A x \in Sessions :
    /\ reported[x] + refused[x] = decodes[x]
    /\ phase[x] # "purged" => decodes[x] <= 1
    /\ phase[x] # "purged" /\ decodes[x] = 1 => latch[x] = "COMPLETE"

IInv == /\ LoopTyped /\ BlockTyped /\ ManagerTyped /\ CountsTyped
        /\ NothingForgotten /\ DecodeStands

\* The invariant is stronger than the types the runs check.
LEMMA Typed == IInv => TypeOK
<1> SUFFICES ASSUME IInv PROVE TypeOK
  OBVIOUS
<1>1. \A x \in Sessions : \A i \in DOMAIN buffered[x] : buffered[x][i] \in Symbols
  BY DEF IInv, LoopTyped
<1>2. at \in 1 .. MaxBuffered + 1
  <2>1. CASE replaying = None
    BY <2>1, LoopAssumption DEF IInv, LoopTyped
  <2>2. CASE replaying # None
    <3>1. replaying \in Sessions
      BY <2>2 DEF IInv, LoopTyped
    <3>2. /\ Len(buffered[replaying]) \in Nat
          /\ Len(buffered[replaying]) <= MaxBuffered
          /\ at \in 1 .. Len(buffered[replaying]) + 1
      BY <3>1, <2>2 DEF IInv, LoopTyped
    <3> QED BY <3>2, LoopAssumption
  <2> QED BY <2>1, <2>2
<1>3. ChannelTypeOK(Messages)
  BY DEF IInv, ManagerTyped, ChannelTypeOK
<1> QED BY <1>1, <1>2, <1>3 DEF IInv, LoopTyped, BlockTyped, ManagerTyped, CountsTyped, TypeOK

\* A process that starts on a new segment.
LEMMA InitInv == Init => IInv
<1> SUFFICES ASSUME Init PROVE IInv
  OBVIOUS
<1>1. LoopTyped
  <2>1. <<>> \in Seq(Symbols) /\ Len(<<>>) = 0
    BY EmptySeq
  <2>2. \A x \in Sessions : buffered[x] = <<>>
    BY DEF Init
  <2>3. buffered \in [Sessions -> Seq(Symbols)]
    BY <2>1 DEF Init
  <2>4. 0 <= MaxBuffered /\ 0 \in 0 .. BatchSize
    BY LoopAssumption
  <2>5. /\ ctx = {} /\ early = {} /\ replaying = None /\ at = 1
        /\ turn = "poll" /\ left = 0 /\ ready = FALSE
    BY DEF Init
  <2>6. \A x \in Sessions : Len(buffered[x]) <= MaxBuffered
    BY <2>1, <2>2, <2>4
  <2>7. \A x \in Sessions : buffered[x] # <<>> => x \in early
    BY <2>2
  <2>8. replaying \in early \cup {None} /\ (turn = "udp" <=> left > 0)
        /\ ctx \subseteq Sessions /\ early \subseteq Sessions
    BY <2>5
  <2> QED BY <2>3, <2>4, <2>5, <2>6, <2>7, <2>8 DEF LoopTyped
<1>2. BlockTyped
  BY DEF Init, BlockTyped
<1>3. ManagerTyped
  BY LoopAssumption, ChannelAssumption DEF Init, ManagerTyped, ChannelInit
<1>4. CountsTyped
  BY LoopAssumption DEF Init, CountsTyped
<1>5. NothingForgotten /\ DecodeStands
  BY DEF Init, NothingForgotten, DecodeStands
<1> QED BY <1>1, <1>2, <1>3, <1>4, <1>5 DEF IInv

-----------------------------------------------------------------------------
(* Lemmas about what a step leaves alone. *)

\* What waits in a buffer, by its place.
LEMMA WaitingIn ==
  ASSUME LoopTyped, NEW x \in Sessions, NEW v
  PROVE  v \in Waiting(x) <=> \E i \in 1 .. Len(buffered[x]) :
                                /\ replaying = x => i >= at
                                /\ v = buffered[x][i]
<1>1. DOMAIN buffered[x] = 1 .. Len(buffered[x])
  BY DEF LoopTyped
<1> QED BY <1>1 DEF Waiting

\* Steps that touch neither a buffer nor the block.
LEMMA SameOwed ==
  ASSUME NothingForgotten, UNCHANGED <<owed, registered, latch, buffered, replaying, at>>
  PROVE  NothingForgotten'
BY DEF NothingForgotten, Waiting

\* Steps that decode and report nothing.
LEMMA SameDecodes ==
  ASSUME DecodeStands, UNCHANGED <<reports, latch, phase>>
  PROVE  DecodeStands'
BY DEF DecodeStands, reports

\* The end of a datagram's turn: no replay is under way.
LEMMA DatagramTurn ==
  ASSUME LoopTyped, NextDatagram
  PROVE  /\ replaying = None
         /\ turn' \in {"poll", "udp", "uds"}
         /\ left' \in 0 .. BatchSize
         /\ turn' = "udp" <=> left' > 0
         /\ ready' \in BOOLEAN
<1>1. turn = "udp" /\ left \in 0 .. BatchSize /\ left > 0 /\ ready \in BOOLEAN
  BY DEF NextDatagram, LoopTyped
<1>2. left' = left - 1 /\ ready' = ready
      /\ turn' = IF left > 1 THEN "udp" ELSE IF ready THEN "uds" ELSE "poll"
  BY DEF NextDatagram
<1>3. replaying = None
  BY <1>1 DEF LoopTyped
<1>4. left' \in 0 .. BatchSize /\ (turn' = "udp" <=> left' > 0)
  BY <1>1, <1>2, LoopAssumption
<1> QED BY <1>1, <1>2, <1>3, <1>4

\* What a call of handle_data_packet() does to the block, for each outcome.
LEMMA RegistersBlock ==
  ASSUME BlockTyped, CountsTyped, NEW x \in Sessions, NEW s \in Symbols,
         NEW o \in Outcomes(x, s), Registers(x, s, o)
  PROVE  /\ shmOpen' \subseteq Sessions
         /\ registered' \in [Sessions -> SUBSET Symbols]
         /\ latch' \in [Sessions -> {"PENDING", "CLAIMED", "COMPLETE"}]
         /\ decodes' \in [Sessions -> Nat]
         /\ \A y \in Sessions : registered[y] \subseteq registered'[y]
         /\ \A y \in Sessions : latch[y] = "COMPLETE" => latch'[y] = "COMPLETE"
         /\ \A y \in Sessions \ {x} : latch'[y] = latch[y] /\ decodes'[y] = decodes[y]
         /\ o = "BlockDecoded" => latch[x] = "PENDING" /\ latch'[x] = "COMPLETE"
                                  /\ decodes'[x] = decodes[x] + 1
         /\ o # "BlockDecoded" => decodes'[x] = decodes[x]
         /\ o \in Accepted => s \in registered'[x] \/ latch'[x] = "COMPLETE"
<1>1. shmOpen' = shmOpen
  BY DEF Registers
<1>2. CASE o = "BlockDecoded"
  <2>1. latch[x] = "PENDING"
    BY <1>2 DEF Outcomes, Crosses
  <2>2. /\ registered' = [registered EXCEPT ![x] = registered[x] \cup {s}]
        /\ latch' = [latch EXCEPT ![x] = "COMPLETE"]
        /\ decodes' = [decodes EXCEPT ![x] = decodes[x] + 1]
    BY <1>2 DEF Registers
  <2> QED BY <1>1, <1>2, <2>1, <2>2 DEF BlockTyped, CountsTyped
<1>3. CASE o = "RegisteredOnly"
  <2>1. /\ registered' = [registered EXCEPT ![x] = registered[x] \cup {s}]
        /\ latch' = IF Crosses(x, s) THEN [latch EXCEPT ![x] = "CLAIMED"] ELSE latch
        /\ decodes' = decodes
    BY <1>3 DEF Registers
  <2>2. Crosses(x, s) => latch[x] = "PENDING"
    BY DEF Crosses
  <2> QED BY <1>1, <1>3, <2>1, <2>2 DEF BlockTyped, CountsTyped
<1>4. CASE o \notin {"BlockDecoded", "RegisteredOnly"}
  <2>1. registered' = registered /\ latch' = latch /\ decodes' = decodes
    BY <1>4 DEF Registers
  <2>2. o \in Accepted => s \in registered[x] \/ latch[x] = "COMPLETE"
    BY <1>4 DEF Outcomes, Accepted
  <2> QED BY <1>1, <1>4, <2>1, <2>2 DEF BlockTyped, CountsTyped
<1> QED BY <1>2, <1>3, <1>4

\* A decode is reported or refused, once; the block it completes was pending, so
\* the session has had no decode here before.
LEMMA ReportsDecode ==
  ASSUME IInv, NEW x \in Sessions, NEW s \in Symbols, NEW o \in Outcomes(x, s),
         Registers(x, s, o), Reports(x, o), phase' = phase
  PROVE  /\ DecodeStands'
         /\ decodes' \in [Sessions -> Nat]
         /\ reported' \in [Sessions -> Nat]
         /\ refused' \in [Sessions -> Nat]
<1> USE DEF IInv
<1>1. CASE o # "BlockDecoded"
  <2>1. reported' = reported /\ refused' = refused
    BY <1>1 DEF Reports
  <2>2. decodes' = decodes
    BY <1>1 DEF Registers
  <2>3. \A y \in Sessions : latch[y] = "COMPLETE" => latch'[y] = "COMPLETE"
    BY RegistersBlock
  <2> QED BY <2>1, <2>2, <2>3 DEF DecodeStands, CountsTyped
<1>2. CASE o = "BlockDecoded"
  <2>1. \/ reported' = [reported EXCEPT ![x] = reported[x] + 1] /\ refused' = refused
        \/ refused' = [refused EXCEPT ![x] = refused[x] + 1] /\ reported' = reported
    BY <1>2 DEF Reports
  <2>2. latch[x] = "PENDING" /\ latch'[x] = "COMPLETE"
    BY <1>2, RegistersBlock
  <2>3. decodes' = [decodes EXCEPT ![x] = decodes[x] + 1]
    BY <1>2 DEF Registers
  <2>4. /\ decodes \in [Sessions -> Nat] /\ reported \in [Sessions -> Nat]
        /\ refused \in [Sessions -> Nat]
    BY DEF CountsTyped
  <2>5. \A y \in Sessions \ {x} : latch'[y] = latch[y]
    BY RegistersBlock
  <2>6. ASSUME NEW y \in Sessions
        PROVE  /\ reported'[y] + refused'[y] = decodes'[y]
               /\ phase[y] # "purged" => decodes'[y] <= 1
               /\ phase[y] # "purged" /\ decodes'[y] = 1 => latch'[y] = "COMPLETE"
    <3>1. /\ reported[y] + refused[y] = decodes[y]
          /\ phase[y] # "purged" => decodes[y] <= 1
          /\ phase[y] # "purged" /\ decodes[y] = 1 => latch[y] = "COMPLETE"
      BY DEF DecodeStands
    <3>2. decodes[y] \in Nat /\ reported[y] \in Nat /\ refused[y] \in Nat
      BY <2>4
    <3>3. CASE y = x
      <4>1. decodes'[y] = decodes[y] + 1
        BY <3>3, <2>3, <2>4
      <4>2. reported'[y] + refused'[y] = reported[y] + refused[y] + 1
        BY <3>3, <3>2, <2>1, <2>4
      <4>3. phase[y] # "purged" => decodes[y] = 0
        BY <3>1, <3>2, <3>3, <2>2
      <4> QED BY <3>1, <3>2, <3>3, <4>1, <4>2, <4>3, <2>2
    <3>4. CASE y # x
      BY <3>1, <3>4, <2>1, <2>3, <2>4, <2>5
    <3> QED BY <3>3, <3>4
  <2>7. DecodeStands'
    BY <2>6 DEF DecodeStands
  <2> QED BY <2>1, <2>3, <2>4, <2>7
<1> QED BY <1>1, <1>2

-----------------------------------------------------------------------------
(* One lemma per action: each keeps the invariant. *)

\* poll() and the heartbeat.
LEMMA PollInv == ASSUME IInv, Poll PROVE IInv'
<1> USE DEF IInv
<1>1. PICK n \in 0 .. BatchSize, readable \in {Readable, TRUE} :
        /\ left' = n /\ ready' = readable
        /\ turn' = IF n > 0 THEN "udp" ELSE IF readable THEN "uds" ELSE "poll"
  BY DEF Poll
<1>2. UNCHANGED <<ctx, early, buffered, replaying, at, channel, segment, manager,
                  announced, reports, owed, restarts>>
  BY DEF Poll
<1>3. LoopTyped'
  <2>1. turn = "poll" /\ replaying = None
    BY DEF Poll, LoopTyped
  <2>2. ready' \in BOOLEAN
    BY <1>1 DEF Readable
  <2>3. left' \in 0 .. BatchSize /\ (turn' = "udp" <=> left' > 0)
        /\ turn' \in {"poll", "udp", "uds"}
    BY <1>1, LoopAssumption
  <2> QED BY <1>2, <2>1, <2>2, <2>3 DEF LoopTyped
<1>4. BlockTyped' /\ ManagerTyped' /\ CountsTyped'
  BY <1>2 DEF BlockTyped, ManagerTyped, CountsTyped, channel, segment, manager, reports
<1>5. NothingForgotten' /\ DecodeStands'
  BY <1>2, SameOwed, SameDecodes DEF segment, manager
<1> QED BY <1>3, <1>4, <1>5

\* A datagram that changes nothing but the place in the batch.
LEMMA OtherDatagramInv == ASSUME IInv, OtherDatagram PROVE IInv'
<1> USE DEF IInv
<1>1. UNCHANGED <<ctx, early, buffered, replaying, at, channel, segment, manager,
                  announced, reports, owed, restarts>>
  BY DEF OtherDatagram
<1>2. LoopTyped'
  <2>1. NextDatagram
    BY DEF OtherDatagram
  <2> QED BY <1>1, <2>1, DatagramTurn DEF LoopTyped
<1>3. BlockTyped' /\ ManagerTyped' /\ CountsTyped'
  BY <1>1 DEF BlockTyped, ManagerTyped, CountsTyped, channel, segment, manager, reports
<1>4. NothingForgotten' /\ DecodeStands'
  BY <1>1, SameOwed, SameDecodes DEF segment, manager
<1> QED BY <1>2, <1>3, <1>4

\* The first Manifest of a session makes its entry.
LEMMA ManifestInv == ASSUME IInv, NEW x \in Sessions, Manifest(x) PROVE IInv'
<1> USE DEF IInv
<1>1. /\ early' = early \cup {x}
      /\ UNCHANGED <<ctx, buffered, replaying, at, channel, segment, manager,
                     reports, owed, restarts>>
  BY DEF Manifest
<1>2. LoopTyped'
  <2>1. NextDatagram
    BY DEF Manifest
  <2> QED BY <1>1, <2>1, DatagramTurn DEF LoopTyped
<1>3. announced' \in [Sessions -> 0 .. MaxAnnounced]
  <2>1. announced \in [Sessions -> 0 .. MaxAnnounced] /\ announced[x] + 1 \in 0 .. MaxAnnounced
    BY LoopAssumption DEF Manifest, CountsTyped
  <2>2. announced' \in {announced, [announced EXCEPT ![x] = announced[x] + 1]}
    BY DEF Manifest
  <2> QED BY <2>1, <2>2
<1>4. BlockTyped' /\ ManagerTyped' /\ CountsTyped'
  BY <1>1, <1>3 DEF BlockTyped, ManagerTyped, CountsTyped, channel, segment, manager, reports
<1>5. NothingForgotten' /\ DecodeStands'
  BY <1>1, SameOwed, SameDecodes DEF segment, manager
<1> QED BY <1>2, <1>4, <1>5

\* A symbol from the socket: registered, kept for later, or turned away.
LEMMA DataInv == ASSUME IInv, NEW x \in Sessions, NEW s \in Symbols, Data(x, s) PROVE IInv'
<1> USE DEF IInv
<1>1. PICK o \in Outcomes(x, s) :
        /\ Registers(x, s, o)
        /\ Reports(x, o)
        /\ IF o = "UnknownSession" /\ Buffers(x)
           THEN buffered' = [buffered EXCEPT ![x] = Append(buffered[x], s)]
           ELSE UNCHANGED buffered
        /\ owed' = IF o \in Accepted \/ (o = "UnknownSession" /\ Buffers(x))
                   THEN [owed EXCEPT ![x] = owed[x] \cup {s}] ELSE owed
  BY DEF Data
<1>2. /\ NextDatagram
      /\ UNCHANGED <<ctx, early, replaying, at, channel, manager, announced, restarts>>
  BY DEF Data
<1>3. replaying = None
  BY <1>2, DatagramTurn
<1>4. /\ buffered[x] \in Seq(Symbols) /\ Append(buffered[x], s) \in Seq(Symbols)
      /\ Len(Append(buffered[x], s)) = Len(buffered[x]) + 1
      /\ Len(buffered[x]) \in Nat
      /\ \A i \in 1 .. Len(buffered[x]) : Append(buffered[x], s)[i] = buffered[x][i]
      /\ Append(buffered[x], s)[Len(buffered[x]) + 1] = s
  <2>1. buffered[x] \in Seq(Symbols)
    BY DEF LoopTyped
  <2> QED BY <2>1, AppendProperties, LenProperties
<1>5. LoopTyped'
  <2>1. buffered' \in [Sessions -> Seq(Symbols)]
    BY <1>1, <1>4 DEF LoopTyped
  <2>2. ASSUME NEW y \in Sessions
        PROVE  Len(buffered'[y]) <= MaxBuffered /\ (buffered'[y] # <<>> => y \in early)
    <3>1. Len(buffered[y]) <= MaxBuffered /\ (buffered[y] # <<>> => y \in early)
      BY DEF LoopTyped
    <3>2. CASE buffered'[y] = buffered[y]
      BY <3>1, <3>2
    <3>3. CASE buffered'[y] # buffered[y]
      <4>1. y = x /\ Buffers(x) /\ buffered'[y] = Append(buffered[x], s)
        BY <3>3, <1>1 DEF LoopTyped
      <4>2. x \in early /\ Len(buffered[x]) + 1 <= MaxBuffered
        BY <4>1, <1>4, LoopAssumption DEF Buffers
      <4> QED BY <4>1, <4>2, <1>4
    <3> QED BY <3>2, <3>3
  <2> QED BY <1>2, <1>3, <2>1, <2>2, DatagramTurn DEF LoopTyped
<1>6. BlockTyped'
  <2>1. owed' \in [Sessions -> SUBSET Symbols]
    BY <1>1 DEF BlockTyped
  <2> QED BY <1>1, <2>1, RegistersBlock DEF BlockTyped
<1>7. ManagerTyped'
  BY <1>2 DEF ManagerTyped, channel, manager
<1>8. CountsTyped' /\ DecodeStands'
  <2>1. phase' = phase
    BY <1>2 DEF manager
  <2>2. DecodeStands' /\ decodes' \in [Sessions -> Nat]
        /\ reported' \in [Sessions -> Nat] /\ refused' \in [Sessions -> Nat]
    BY <1>1, <2>1, ReportsDecode
  <2> QED BY <1>2, <2>2 DEF CountsTyped
<1>9. NothingForgotten'
  <2> SUFFICES ASSUME NEW y \in Sessions, latch'[y] # "COMPLETE", NEW v \in owed'[y]
               PROVE  v \in registered'[y] \/ v \in Waiting(y)'
    BY DEF NothingForgotten
  <2>1. registered[y] \subseteq registered'[y] /\ latch[y] # "COMPLETE"
    BY <1>1, RegistersBlock
  <2>2. \A i \in 1 .. Len(buffered'[y]) : buffered'[y][i] \in Waiting(y)'
    <3>1. DOMAIN buffered'[y] = 1 .. Len(buffered'[y])
      BY <1>5 DEF LoopTyped
    <3>2. replaying' # y
      BY <1>2, <1>3, LoopAssumption
    <3> QED BY <3>1, <3>2 DEF Waiting
  <2>3. CASE v \in owed[y]
    <3>1. v \in registered[y] \/ v \in Waiting(y)
      BY <2>1, <2>3 DEF NothingForgotten
    <3>2. ASSUME v \in Waiting(y)
          PROVE  v \in Waiting(y)'
      <4>1. PICK i \in 1 .. Len(buffered[y]) : v = buffered[y][i]
        BY <3>2, WaitingIn
      <4>2. CASE buffered'[y] = buffered[y]
        BY <4>1, <4>2, <2>2
      <4>3. CASE buffered'[y] # buffered[y]
        <5>1. y = x /\ buffered'[y] = Append(buffered[x], s)
          BY <4>3, <1>1 DEF LoopTyped
        <5>2. i \in 1 .. Len(buffered'[y]) /\ buffered'[y][i] = v
          BY <4>1, <5>1, <1>4
        <5> QED BY <5>2, <2>2
      <4> QED BY <4>2, <4>3
    <3> QED BY <3>1, <3>2, <2>1
  <2>4. CASE v \notin owed[y]
    <3>1. y = x /\ v = s /\ (o \in Accepted \/ (o = "UnknownSession" /\ Buffers(x)))
      BY <2>4, <1>1 DEF BlockTyped
    <3>2. CASE o \in Accepted
      BY <3>1, <3>2, <1>1, RegistersBlock
    <3>3. CASE o = "UnknownSession" /\ Buffers(x)
      <4>1. buffered'[x] = Append(buffered[x], s)
        BY <3>3, <1>1 DEF LoopTyped
      <4>2. Len(buffered[x]) + 1 \in 1 .. Len(buffered'[x])
            /\ buffered'[x][Len(buffered[x]) + 1] = s
        BY <4>1, <1>4
      <4> QED BY <3>1, <4>2, <2>2
    <3> QED BY <3>1, <3>2, <3>3
  <2> QED BY <2>3, <2>4
<1> QED BY <1>5, <1>6, <1>7, <1>8, <1>9

\* A message is read off the socket.
LEMMA ReadMessage ==
  ASSUME IInv, NEW kind, Message(kind)
  PROVE  /\ Subject \in Sessions
         /\ turn = "uds" /\ replaying = None /\ at = 1
         /\ kind = "purge" => phase[Subject] = "purged"
         /\ link' = link /\ closes' = closes
         /\ inbox' \in Seq(Messages)
         /\ \A i \in 1 .. Len(inbox') :
              inbox'[i].kind = "purge" => phase[inbox'[i].id] = "purged"
<1> USE DEF IInv
<1>1. inbox \in Seq(Messages) /\ inbox # <<>> /\ Head(inbox).kind = kind
      /\ turn = "uds" /\ replaying = None
      /\ inbox' = Tail(inbox) /\ link' = link /\ closes' = closes
  BY DEF Message, Receives, Received, ManagerTyped
<1>2. /\ Head(inbox) \in Messages /\ inbox' \in Seq(Messages)
      /\ Len(inbox') = Len(inbox) - 1 /\ Len(inbox) \in Nat \ {0}
      /\ \A i \in 1 .. Len(inbox') : inbox'[i] = inbox[i + 1]
  BY <1>1, HeadTailProperties, EmptySeq
<1>3. Head(inbox) = inbox[1]
  BY <1>1, <1>2
<1>4. Subject \in Sessions
  BY <1>2 DEF Subject, Messages
<1>5. kind = "purge" => phase[Subject] = "purged"
  BY <1>1, <1>2, <1>3 DEF Subject, ManagerTyped
<1>6. ASSUME NEW i \in 1 .. Len(inbox'), inbox'[i].kind = "purge"
      PROVE  phase[inbox'[i].id] = "purged"
  <2>1. i + 1 \in 1 .. Len(inbox) /\ inbox'[i] = inbox[i + 1]
    BY <1>2
  <2> QED BY <1>6, <2>1 DEF ManagerTyped
<1>7. at = 1
  BY <1>1 DEF LoopTyped
<1> QED BY <1>1, <1>2, <1>4, <1>5, <1>6, <1>7

\* The turn is over, or goes on with the replay of a session that has an entry.
LEMMA OpenInv == ASSUME IInv, SessionOpen PROVE IInv'
<1> USE DEF IInv
<1> DEFINE x == Subject
<1>1. /\ ctx' = ctx \cup {x}
      /\ shmOpen' = IF x \in ctx THEN shmOpen ELSE shmOpen \cup {x}
      /\ \/ x \in early /\ replaying' = x /\ UNCHANGED loop
         \/ replaying' = replaying /\ turn' = "poll" /\ UNCHANGED <<left, ready>>
      /\ UNCHANGED <<early, buffered, at, registered, latch, manager, announced,
                     reports, owed, restarts>>
  BY DEF SessionOpen, EndTurn
<1>2. /\ x \in Sessions /\ turn = "uds" /\ replaying = None /\ at = 1
      /\ link' = link /\ closes' = closes /\ inbox' \in Seq(Messages)
      /\ \A i \in 1 .. Len(inbox') :
           inbox'[i].kind = "purge" => phase[inbox'[i].id] = "purged"
  BY ReadMessage DEF SessionOpen
<1> HIDE DEF x
<1>3. LoopTyped'
  <2>1. Len(buffered[x]) \in Nat
    BY <1>2 DEF LoopTyped
  <2>2. CASE x \in early /\ replaying' = x /\ UNCHANGED loop
    BY <1>1, <1>2, <2>1, <2>2, LoopAssumption DEF LoopTyped, loop
  <2>3. CASE replaying' = replaying /\ turn' = "poll" /\ UNCHANGED <<left, ready>>
    BY <1>1, <1>2, <2>3 DEF LoopTyped
  <2> QED BY <1>1, <2>2, <2>3
<1>4. BlockTyped'
  BY <1>1, <1>2 DEF BlockTyped
<1>5. ManagerTyped'
  BY <1>1, <1>2 DEF ManagerTyped, manager
<1>6. CountsTyped'
  BY <1>1 DEF CountsTyped, reports
<1>7. DecodeStands'
  BY <1>1, SameDecodes DEF manager
<1>8. NothingForgotten'
  <2> SUFFICES ASSUME NEW y \in Sessions, latch[y] # "COMPLETE", NEW v \in owed[y]
               PROVE  v \in registered[y] \/ v \in Waiting(y)'
    BY <1>1 DEF NothingForgotten
  <2>1. CASE v \in Waiting(y)
    <3>1. PICK i \in 1 .. Len(buffered[y]) : v = buffered[y][i]
      BY <2>1, WaitingIn
    <3>2. DOMAIN buffered[y] = 1 .. Len(buffered[y]) /\ buffered' = buffered /\ at' = 1
      BY <1>1, <1>2 DEF LoopTyped
    <3> QED BY <3>1, <3>2 DEF Waiting
  <2> QED BY <2>1 DEF NothingForgotten
<1> QED BY <1>3, <1>4, <1>5, <1>6, <1>7, <1>8

\* A SessionOpen that fails leaves the buffer for a later one.
LEMMA OpenFailsInv == ASSUME IInv, SessionOpenFails PROVE IInv'
<1> USE DEF IInv
<1>1. /\ shmOpen' \in {shmOpen, shmOpen \cup {Subject}}
      /\ turn' = "poll" /\ UNCHANGED <<left, ready>>
      /\ UNCHANGED <<ctx, early, buffered, replaying, at, registered, latch, manager,
                     announced, reports, owed, restarts>>
  BY DEF SessionOpenFails, EndTurn
<1>2. /\ Subject \in Sessions /\ turn = "uds" /\ replaying = None /\ at = 1
      /\ link' = link /\ closes' = closes /\ inbox' \in Seq(Messages)
      /\ \A i \in 1 .. Len(inbox') :
           inbox'[i].kind = "purge" => phase[inbox'[i].id] = "purged"
  BY ReadMessage DEF SessionOpenFails
<1>3. LoopTyped'
  BY <1>1, <1>2 DEF LoopTyped
<1>4. BlockTyped'
  BY <1>1, <1>2 DEF BlockTyped
<1>5. ManagerTyped'
  BY <1>1, <1>2 DEF ManagerTyped, manager
<1>6. CountsTyped'
  BY <1>1 DEF CountsTyped, reports
<1>7. DecodeStands' /\ NothingForgotten'
  BY <1>1, SameDecodes, SameOwed DEF manager
<1> QED BY <1>3, <1>4, <1>5, <1>6, <1>7

\* One datagram out of the buffer: it is registered, or no longer owed.
LEMMA ReplayInv == ASSUME IInv, Replay PROVE IInv'
<1> USE DEF IInv
<1>1. PICK x \in Sessions : x = replaying
  BY DEF Replay, LoopTyped
<1>2. /\ x # None /\ turn = "uds" /\ buffered[x] \in Seq(Symbols) /\ Len(buffered[x]) \in Nat
      /\ at \in 1 .. Len(buffered[x])
  BY <1>1 DEF Replay, LoopTyped
<1>3. PICK s \in Symbols : s = buffered[x][at]
  BY <1>2
<1>4. PICK o \in Outcomes(x, s) :
        /\ Registers(x, s, o)
        /\ Reports(x, o)
        /\ owed' = IF o \in Accepted THEN owed ELSE [owed EXCEPT ![x] = owed[x] \ {s}]
  BY <1>1, <1>3 DEF Replay
<1>5. /\ at' = at + 1
      /\ UNCHANGED <<ctx, early, buffered, replaying, channel, loop, manager, announced,
                     restarts>>
  BY DEF Replay
<1>6. LoopTyped'
  <2>1. at' \in 1 .. Len(buffered[x]) + 1
    BY <1>2, <1>5
  <2> QED BY <1>1, <1>2, <1>5, <2>1 DEF LoopTyped, loop
<1>7. BlockTyped'
  <2>1. owed' \in [Sessions -> SUBSET Symbols]
    BY <1>4 DEF BlockTyped
  <2> QED BY <1>4, <2>1, RegistersBlock DEF BlockTyped
<1>8. ManagerTyped'
  BY <1>5 DEF ManagerTyped, channel, manager
<1>9. CountsTyped' /\ DecodeStands'
  <2>1. phase' = phase
    BY <1>5 DEF manager
  <2>2. DecodeStands' /\ decodes' \in [Sessions -> Nat]
        /\ reported' \in [Sessions -> Nat] /\ refused' \in [Sessions -> Nat]
    BY <1>4, <2>1, ReportsDecode
  <2> QED BY <1>5, <2>2 DEF CountsTyped
<1>10. NothingForgotten'
  <2> SUFFICES ASSUME NEW y \in Sessions, latch'[y] # "COMPLETE", NEW v \in owed'[y]
               PROVE  v \in registered'[y] \/ v \in Waiting(y)'
    BY DEF NothingForgotten
  <2>1. registered[y] \subseteq registered'[y] /\ latch[y] # "COMPLETE"
    BY <1>4, RegistersBlock
  <2>2. v \in owed[y]
    BY <1>4 DEF BlockTyped
  <2>3. v \in registered[y] \/ v \in Waiting(y)
    BY <2>1, <2>2 DEF NothingForgotten
  <2>4. ASSUME v \in Waiting(y), v \notin registered'[y]
        PROVE  v \in Waiting(y)'
    <3>1. PICK i \in 1 .. Len(buffered[y]) :
            (replaying = y => i >= at) /\ v = buffered[y][i]
      BY <2>4, WaitingIn
    <3>2. DOMAIN buffered'[y] = 1 .. Len(buffered'[y]) /\ buffered' = buffered
          /\ replaying' = replaying
      BY <1>5 DEF LoopTyped
    <3>3. CASE y # x
      BY <3>1, <3>2, <3>3, <1>1 DEF Waiting
    <3>4. CASE y = x
      <4>1. i # at
        <5> SUFFICES ASSUME v = s PROVE FALSE
          BY <3>1, <3>4, <1>3
        <5>1. CASE o \in Accepted
          BY <5>1, <3>4, <1>4, <2>4, RegistersBlock
        <5>2. CASE o \notin Accepted
          BY <5>2, <3>4, <1>4 DEF BlockTyped
        <5> QED BY <5>1, <5>2
      <4>2. i >= at'
        BY <4>1, <3>1, <3>4, <1>1, <1>2, <1>5
      <4> QED BY <4>2, <3>1, <3>2 DEF Waiting
    <3> QED BY <3>3, <3>4
  <2> QED BY <2>1, <2>3, <2>4
<1> QED BY <1>6, <1>7, <1>8, <1>9, <1>10

\* The last datagram has been replayed: the entry and its buffer go.
LEMMA ReplayDoneInv == ASSUME IInv, ReplayDone PROVE IInv'
<1> USE DEF IInv
<1>1. PICK x \in Sessions : x = replaying
  BY DEF ReplayDone, LoopTyped
<1>2. /\ x # None /\ turn = "uds" /\ at > Len(buffered[x])
      /\ early' = early \ {x} /\ buffered' = [buffered EXCEPT ![x] = <<>>]
      /\ replaying' = None /\ at' = 1 /\ turn' = "poll" /\ UNCHANGED <<left, ready>>
      /\ UNCHANGED <<ctx, channel, segment, manager, announced, reports, owed, restarts>>
  BY <1>1 DEF ReplayDone, Forget, EndTurn
<1>3. <<>> \in Seq(Symbols) /\ Len(<<>>) = 0 /\ 0 <= MaxBuffered
  BY EmptySeq, LoopAssumption
<1>4. LoopTyped'
  <2>1. buffered' \in [Sessions -> Seq(Symbols)]
    BY <1>2, <1>3 DEF LoopTyped
  <2>2. \A y \in Sessions : /\ Len(buffered'[y]) <= MaxBuffered
                            /\ buffered'[y] # <<>> => y \in early'
    BY <1>2, <1>3 DEF LoopTyped
  <2> QED BY <1>2, <2>1, <2>2 DEF LoopTyped
<1>5. BlockTyped' /\ ManagerTyped' /\ CountsTyped'
  BY <1>2 DEF BlockTyped, ManagerTyped, CountsTyped, channel, segment, manager, reports
<1>6. DecodeStands'
  BY <1>2, SameDecodes DEF segment, manager
<1>7. NothingForgotten'
  <2> SUFFICES ASSUME NEW y \in Sessions, latch[y] # "COMPLETE", NEW v \in owed[y]
               PROVE  v \in registered[y] \/ v \in Waiting(y)'
    BY <1>2 DEF NothingForgotten, segment
  <2>1. CASE v \in Waiting(y)
    <3>1. PICK i \in 1 .. Len(buffered[y]) :
            (replaying = y => i >= at) /\ v = buffered[y][i]
      BY <2>1, WaitingIn
    <3>2. y # x
      <4>1. Len(buffered[y]) \in Nat /\ at \in Nat
        BY <1>1, <1>2 DEF LoopTyped
      <4> QED BY <3>1, <4>1, <1>1, <1>2
    <3>3. DOMAIN buffered'[y] = 1 .. Len(buffered[y]) /\ buffered'[y] = buffered[y]
      BY <3>2, <1>2 DEF LoopTyped
    <3>4. replaying' # y
      BY <1>2, LoopAssumption
    <3> QED BY <3>1, <3>3, <3>4 DEF Waiting
  <2> QED BY <2>1 DEF NothingForgotten
<1> QED BY <1>4, <1>5, <1>6, <1>7

\* The end of a session: nothing of it is kept, and nothing owed.
LEMMA PurgeInv == ASSUME IInv, PurgeSession PROVE IInv'
<1> USE DEF IInv
<1>1. PICK x : x = Subject
  OBVIOUS
<1>2. /\ shmOpen' = shmOpen \ {x}
      /\ registered' = [registered EXCEPT ![x] = {}]
      /\ latch' = [latch EXCEPT ![x] = "PENDING"]
      /\ ctx' = ctx \ {x}
      /\ early' = early \ {x} /\ buffered' = [buffered EXCEPT ![x] = <<>>]
      /\ owed' = [owed EXCEPT ![x] = {}]
      /\ turn' = "poll" /\ UNCHANGED <<left, ready>>
      /\ UNCHANGED <<replaying, at, manager, announced, reports, restarts>>
  BY <1>1 DEF PurgeSession, Forget, EndTurn
<1>3. /\ x \in Sessions /\ turn = "uds" /\ replaying = None /\ at = 1
      /\ phase[x] = "purged"
      /\ link' = link /\ closes' = closes /\ inbox' \in Seq(Messages)
      /\ \A i \in 1 .. Len(inbox') :
           inbox'[i].kind = "purge" => phase[inbox'[i].id] = "purged"
  BY <1>1, ReadMessage DEF PurgeSession
<1>4. <<>> \in Seq(Symbols) /\ Len(<<>>) = 0 /\ 0 <= MaxBuffered
  BY EmptySeq, LoopAssumption
<1>5. LoopTyped'
  <2>1. buffered' \in [Sessions -> Seq(Symbols)]
    BY <1>2, <1>4 DEF LoopTyped
  <2>2. \A y \in Sessions : /\ Len(buffered'[y]) <= MaxBuffered
                            /\ buffered'[y] # <<>> => y \in early'
    BY <1>2, <1>4 DEF LoopTyped
  <2> QED BY <1>2, <1>3, <2>1, <2>2 DEF LoopTyped
<1>6. BlockTyped'
  BY <1>2, <1>3 DEF BlockTyped
<1>7. ManagerTyped'
  BY <1>2, <1>3 DEF ManagerTyped, manager
<1>8. CountsTyped'
  BY <1>2 DEF CountsTyped, reports
<1>9. DecodeStands'
  BY <1>2, <1>3 DEF DecodeStands, manager, reports, BlockTyped
<1>10. NothingForgotten'
  <2> SUFFICES ASSUME NEW y \in Sessions, latch'[y] # "COMPLETE", NEW v \in owed'[y]
               PROVE  v \in registered'[y] \/ v \in Waiting(y)'
    BY DEF NothingForgotten
  <2>1. y # x
    BY <1>2, <1>3 DEF BlockTyped
  <2>2. /\ latch'[y] = latch[y] /\ owed'[y] = owed[y] /\ registered'[y] = registered[y]
        /\ buffered'[y] = buffered[y]
    BY <1>2, <2>1 DEF BlockTyped, LoopTyped
  <2>3. Waiting(y)' = Waiting(y)
    BY <1>2, <2>2 DEF Waiting
  <2> QED BY <2>2, <2>3 DEF NothingForgotten
<1> QED BY <1>5, <1>6, <1>7, <1>8, <1>9, <1>10

\* A message nothing acts on.
LEMMA NothingToDoInv == ASSUME IInv, NothingToDo PROVE IInv'
<1> USE DEF IInv
<1>1. /\ turn = "uds" /\ replaying = None /\ turn' = "poll" /\ UNCHANGED <<left, ready>>
      /\ UNCHANGED <<ctx, early, buffered, replaying, at, channel, segment, manager,
                     announced, reports, owed, restarts>>
  BY DEF NothingToDo, EndTurn
<1>2. LoopTyped'
  BY <1>1 DEF LoopTyped
<1>3. BlockTyped' /\ ManagerTyped' /\ CountsTyped'
  BY <1>1 DEF BlockTyped, ManagerTyped, CountsTyped, channel, segment, manager, reports
<1>4. NothingForgotten' /\ DecodeStands'
  BY <1>1, SameOwed, SameDecodes DEF segment, manager
<1> QED BY <1>2, <1>3, <1>4

-----------------------------------------------------------------------------
(* The manager, the other receivers and the supervisor. *)

\* A message the manager sends reaches the socket, or the connection is gone.
LEMMA SendInv ==
  ASSUME IInv, NEW m \in Messages, PeerSends(m), ManagerLeavesLoop,
         phase' \in [Sessions -> {"new", "open", "purged"}],
         \A x \in Sessions : phase[x] = "purged" => phase'[x] = "purged",
         m.kind = "purge" => phase'[m.id] = "purged",
         opens' \in 0 .. MaxOpens, late' \in 0 .. MaxLate
  PROVE  IInv'
<1> USE DEF IInv
<1>1. UNCHANGED <<ctx, early, buffered, replaying, at, loop, segment, announced, reports,
                  owed, restarts>>
  BY DEF ManagerLeavesLoop
<1>2. LoopTyped' /\ BlockTyped' /\ CountsTyped'
  BY <1>1 DEF LoopTyped, BlockTyped, CountsTyped, loop, segment, reports
<1>3. NothingForgotten'
  BY <1>1, SameOwed DEF segment
<1>4. DecodeStands'
  BY <1>1 DEF DecodeStands, segment, reports, ManagerTyped
<1>5. ManagerTyped'
  <2>1. inbox' = (IF link = "up" THEN Append(inbox, m) ELSE inbox) /\ UNCHANGED <<link, closes>>
    BY DEF PeerSends
  <2>2. /\ inbox \in Seq(Messages) /\ Append(inbox, m) \in Seq(Messages)
        /\ Len(Append(inbox, m)) = Len(inbox) + 1 /\ Len(inbox) \in Nat
        /\ \A i \in 1 .. Len(inbox) : Append(inbox, m)[i] = inbox[i]
        /\ Append(inbox, m)[Len(inbox) + 1] = m
    BY AppendProperties, LenProperties DEF ManagerTyped
  <2>3. inbox' \in Seq(Messages)
    BY <2>1, <2>2
  <2>4. ASSUME NEW i \in 1 .. Len(inbox'), inbox'[i].kind = "purge"
        PROVE  phase'[inbox'[i].id] = "purged"
    <3>1. CASE i \in 1 .. Len(inbox)
      <4>1. inbox'[i] = inbox[i] /\ inbox[i] \in Messages
        BY <3>1, <2>1, <2>2
      <4>2. inbox[i].id \in Sessions
        BY <4>1 DEF Messages
      <4>3. phase[inbox[i].id] = "purged"
        BY <3>1, <4>1, <2>4 DEF ManagerTyped
      <4> QED BY <4>1, <4>2, <4>3
    <3>2. CASE i \notin 1 .. Len(inbox)
      <4>1. inbox'[i] = m
        BY <3>2, <2>1, <2>2
      <4> QED BY <4>1, <2>4
    <3> QED BY <3>1, <3>2
  <2> QED BY <2>1, <2>3, <2>4 DEF ManagerTyped
<1> QED BY <1>2, <1>3, <1>4, <1>5

\* A SessionOpen is put behind what is already in the channel.
LEMMA BroadcastOpenInv == ASSUME IInv, NEW x \in Sessions, BroadcastOpen(x) PROVE IInv'
<1>1. PICK m \in Messages : m = [kind |-> "open", id |-> x]
  BY DEF Messages
<1>2. m.kind # "purge"
  BY <1>1
<1>3. PeerSends(m) /\ ManagerLeavesLoop
  BY <1>1 DEF BroadcastOpen
<1>4. /\ phase' \in [Sessions -> {"new", "open", "purged"}]
      /\ \A y \in Sessions : phase[y] = "purged" => phase'[y] = "purged"
      /\ opens' \in 0 .. MaxOpens /\ late' \in 0 .. MaxLate
  BY LoopAssumption DEF BroadcastOpen, IInv, ManagerTyped
<1> QED BY <1>2, <1>3, <1>4, SendInv

\* A PurgeSession is put behind what is already in the channel.
LEMMA BroadcastPurgeInv == ASSUME IInv, NEW x \in Sessions, BroadcastPurge(x) PROVE IInv'
<1>1. PICK m \in Messages : m = [kind |-> "purge", id |-> x]
  BY DEF Messages
<1>2. m.id = x
  BY <1>1
<1>3. PeerSends(m) /\ ManagerLeavesLoop
  BY <1>1 DEF BroadcastPurge
<1>4. /\ phase' \in [Sessions -> {"new", "open", "purged"}] /\ phase'[x] = "purged"
      /\ \A y \in Sessions : phase[y] = "purged" => phase'[y] = "purged"
      /\ opens' \in 0 .. MaxOpens /\ late' \in 0 .. MaxLate
  BY DEF BroadcastPurge, IInv, ManagerTyped
<1> QED BY <1>2, <1>3, <1>4, SendInv

\* The manager's end of the connection touches nothing the loop keeps.
LEMMA DisconnectInv == ASSUME IInv, Disconnect PROVE IInv'
<1> USE DEF IInv
<1>1. /\ link' = "closed" /\ closes' = closes + 1 /\ closes < MaxCloses /\ inbox' = inbox
      /\ UNCHANGED manager
      /\ UNCHANGED <<ctx, early, buffered, replaying, at, loop, segment, announced, reports,
                     owed, restarts>>
  BY DEF Disconnect, PeerCloses, ManagerLeavesLoop
<1>2. LoopTyped' /\ BlockTyped' /\ CountsTyped'
  BY <1>1 DEF LoopTyped, BlockTyped, CountsTyped, loop, segment, reports
<1>3. ManagerTyped'
  BY <1>1, ChannelAssumption DEF ManagerTyped, manager
<1>4. NothingForgotten' /\ DecodeStands'
  BY <1>1, SameOwed, SameDecodes DEF segment, manager
<1> QED BY <1>2, <1>3, <1>4

\* Another receiver's open changes the segment, and nothing of this process.
LEMMA OtherOpensInv == ASSUME IInv, NEW x \in Sessions, OtherOpens(x) PROVE IInv'
<1> USE DEF IInv
<1>1. /\ shmOpen' = shmOpen \cup {x}
      /\ UNCHANGED <<ctx, early, buffered, replaying, at, channel, loop, registered, latch,
                     phase, opens, announced, reports, owed, restarts>>
  BY DEF OtherOpens
<1>2. late' \in 0 .. MaxLate
  BY LoopAssumption DEF OtherOpens, ManagerTyped
<1>3. LoopTyped' /\ BlockTyped' /\ CountsTyped'
  BY <1>1 DEF LoopTyped, BlockTyped, CountsTyped, loop, reports
<1>4. ManagerTyped'
  BY <1>1, <1>2 DEF ManagerTyped, channel
<1>5. NothingForgotten' /\ DecodeStands'
  BY <1>1, SameOwed, SameDecodes
<1> QED BY <1>3, <1>4, <1>5

\* Another receiver's purge: only after the manager has purged.
LEMMA OtherPurgesInv == ASSUME IInv, NEW x \in Sessions, OtherPurges(x) PROVE IInv'
<1> USE DEF IInv
<1>1. /\ phase[x] = "purged"
      /\ shmOpen' = shmOpen \ {x}
      /\ registered' = [registered EXCEPT ![x] = {}]
      /\ latch' = [latch EXCEPT ![x] = "PENDING"]
      /\ owed' = [owed EXCEPT ![x] = {}]
      /\ UNCHANGED <<ctx, early, buffered, replaying, at, channel, loop, manager, announced,
                     reports, restarts>>
  BY DEF OtherPurges
<1>2. LoopTyped' /\ BlockTyped' /\ ManagerTyped' /\ CountsTyped'
  BY <1>1 DEF LoopTyped, BlockTyped, ManagerTyped, CountsTyped, loop, channel, manager, reports
<1>3. DecodeStands'
  BY <1>1 DEF DecodeStands, manager, reports, BlockTyped
<1>4. NothingForgotten'
  BY <1>1 DEF NothingForgotten, Waiting, BlockTyped
<1> QED BY <1>2, <1>3, <1>4

\* Another receiver's symbol may complete the block, which that receiver then reports.
LEMMA OtherRegistersInv ==
  ASSUME IInv, NEW x \in Sessions, NEW s \in Symbols, OtherRegisters(x, s)
  PROVE  IInv'
<1> USE DEF IInv
<1>1. /\ registered' = [registered EXCEPT ![x] = registered[x] \cup {s}]
      /\ latch' = IF Crosses(x, s) THEN [latch EXCEPT ![x] = "COMPLETE"] ELSE latch
      /\ UNCHANGED <<ctx, early, buffered, replaying, at, channel, loop, shmOpen, manager,
                     announced, reports, owed, restarts>>
  BY DEF OtherRegisters
<1>2. LoopTyped' /\ BlockTyped' /\ ManagerTyped' /\ CountsTyped'
  BY <1>1 DEF LoopTyped, BlockTyped, ManagerTyped, CountsTyped, loop, channel, manager, reports
<1>3. \A y \in Sessions : /\ registered[y] \subseteq registered'[y]
                          /\ latch[y] = "COMPLETE" => latch'[y] = "COMPLETE"
  BY <1>1 DEF BlockTyped
<1>4. DecodeStands'
  BY <1>1, <1>3 DEF DecodeStands, manager, reports
<1>5. NothingForgotten'
  BY <1>1, <1>3 DEF NothingForgotten, Waiting
<1> QED BY <1>2, <1>4, <1>5

\* A process that starts again owes nothing, and what the manager tells it first
\* is which sessions are open.
LEMMA RestartInv == ASSUME IInv, Restart PROVE IInv'
<1> USE DEF IInv
<1> DEFINE Told == {[kind |-> "open", id |-> x] : x \in {y \in Sessions : phase[y] = "open"}}
<1>1. PICK waiting \in SetToSeqs(Told) : Connect(waiting)
  BY DEF Restart
<1>2. /\ ctx' = {} /\ early' = {} /\ buffered' = [x \in Sessions |-> <<>>]
      /\ replaying' = None /\ at' = 1 /\ turn' = "poll" /\ left' = 0 /\ ready' = FALSE
      /\ announced' = [x \in Sessions |-> 0] /\ decodes' = [x \in Sessions |-> 0]
      /\ reported' = [x \in Sessions |-> 0] /\ refused' = [x \in Sessions |-> 0]
      /\ owed' = [x \in Sessions |-> {}]
      /\ UNCHANGED <<segment, manager>>
  BY DEF Restart
<1>3. waiting \in Seq(Messages) /\ \A i \in 1 .. Len(waiting) : waiting[i].kind # "purge"
  <2>1. IsFiniteSet(Told)
    <3> DEFINE Open == {y \in Sessions : phase[y] = "open"}
               f == [y \in Open |-> [kind |-> "open", id |-> y]]
    <3>1. IsFiniteSet(Open)
      BY FS_Subset, LoopAssumption
    <3>2. f \in Surjection(Open, Told)
      BY DEF Surjection
    <3> QED BY <3>1, <3>2, FS_Surjection
  <2>2. Cardinality(Told) \in Nat
    BY <2>1, FS_CardinalityType
  <2>3. waiting \in [1 .. Cardinality(Told) -> Told]
    BY <1>1 DEF SetToSeqs
  <2>4. waiting \in Seq(Told)
    BY <2>2, <2>3, SeqDef
  <2>5. Told \subseteq Messages /\ \A m \in Told : m.kind # "purge"
    BY DEF Messages
  <2>6. waiting \in Seq(Messages)
    BY <2>4, <2>5, SeqMonotonic
  <2> QED BY <2>4, <2>5, <2>6
<1>4. LoopTyped'
  <2>1. <<>> \in Seq(Symbols) /\ Len(<<>>) = 0
    BY EmptySeq
  <2>2. \A x \in Sessions : buffered'[x] = <<>>
    BY <1>2
  <2>3. buffered' \in [Sessions -> Seq(Symbols)]
    BY <2>1, <1>2
  <2>4. 0 <= MaxBuffered /\ 0 \in 0 .. BatchSize
    BY LoopAssumption
  <2>5. \A x \in Sessions : Len(buffered'[x]) <= MaxBuffered
    BY <2>1, <2>2, <2>4
  <2>6. \A x \in Sessions : buffered'[x] # <<>> => x \in early'
    BY <2>2
  <2>7. replaying' \in early' \cup {None} /\ (turn' = "udp" <=> left' > 0)
        /\ ctx' \subseteq Sessions /\ early' \subseteq Sessions
    BY <1>2
  <2>8. replaying' = None /\ at' = 1 /\ turn' = "poll" /\ left' = 0 /\ ready' = FALSE
    BY <1>2
  <2> QED BY <2>3, <2>4, <2>5, <2>6, <2>7, <2>8 DEF LoopTyped
<1>5. BlockTyped'
  BY <1>2 DEF BlockTyped, segment
<1>6. ManagerTyped'
  BY <1>1, <1>2, <1>3 DEF ManagerTyped, Connect, manager
<1>7. CountsTyped'
  <2>1. restarts' \in 0 .. MaxRestarts
    BY LoopAssumption DEF Restart, CountsTyped
  <2> QED BY <1>2, <2>1, LoopAssumption DEF CountsTyped
<1>8. NothingForgotten' /\ DecodeStands'
  BY <1>2 DEF NothingForgotten, DecodeStands
<1> QED BY <1>4, <1>5, <1>6, <1>7, <1>8

-----------------------------------------------------------------------------
(* The theorems. *)

\* Every step keeps the invariant.
LEMMA NextInv == IInv /\ [Next]_vars => IInv'
<1> SUFFICES ASSUME IInv, [Next]_vars PROVE IInv'
  OBVIOUS
<1>1. CASE Poll
  BY <1>1, PollInv
<1>2. CASE Batch
  BY <1>2, DataInv, ManifestInv, OtherDatagramInv DEF Batch
<1>3. CASE Control
  BY <1>3, OpenInv, OpenFailsInv, ReplayInv, ReplayDoneInv, PurgeInv, NothingToDoInv
     DEF Control
<1>4. CASE Restart
  BY <1>4, RestartInv
<1>5. CASE Disconnect
  BY <1>5, DisconnectInv
<1>6. ASSUME NEW x \in Sessions,
             \/ BroadcastOpen(x) \/ BroadcastPurge(x) \/ OtherOpens(x) \/ OtherPurges(x)
             \/ \E s \in Symbols : OtherRegisters(x, s)
      PROVE  IInv'
  BY <1>6, BroadcastOpenInv, BroadcastPurgeInv, OtherOpensInv, OtherPurgesInv,
     OtherRegistersInv
<1>7. CASE UNCHANGED vars
  <2>1. LoopTyped' /\ BlockTyped' /\ ManagerTyped' /\ CountsTyped'
    BY <1>7 DEF IInv, LoopTyped, BlockTyped, ManagerTyped, CountsTyped, vars, loop,
                segment, manager, channel, reports
  <2>2. NothingForgotten' /\ DecodeStands'
    BY <1>7, SameOwed, SameDecodes DEF IInv, vars, segment, manager
  <2> QED BY <2>1, <2>2 DEF IInv
<1> QED BY <1>1, <1>2, <1>3, <1>4, <1>5, <1>6, <1>7 DEF Next

\* The invariant holds in every state of every behaviour.
LEMMA SpecInv == Spec => []IInv
BY InitInv, NextInv, PTL DEF Spec

\* Every variable of the loop keeps its type, no buffer grows beyond its limit, and
\* the replay's index never leaves the buffer.
THEOREM LoopTypeCorrect == Spec => []TypeOK
BY SpecInv, Typed, PTL

\* A symbol that was accepted from the socket, into the buffer or out of it, is
\* registered, waits to be replayed, or its block is decoded.
THEOREM NoSymbolForgotten == Spec => []NothingForgotten
BY SpecInv, PTL DEF IInv

\* A decode is what the invariant says of it: offered to the manager once.
LEMMA StandsReported == DecodeStands => DecodedIsReported
BY DEF DecodeStands, DecodedIsReported

\* Every block decoded here is offered to the manager once, and while the session
\* lives it is decoded at most once.
THEOREM EveryDecodeReported == Spec => []DecodedIsReported
BY SpecInv, StandsReported, PTL DEF IInv
=============================================================================
