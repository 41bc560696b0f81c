---------------------------- MODULE ReceiverLoop ----------------------------
(***************************************************************************)
(* The main loop of one receiver process (src/src/receiver/main.cpp): data *)
(* and Manifests from the senders, SessionOpen and PurgeSession from       *)
(* session_manager, and early_sessions, which keeps the symbols that       *)
(* arrive before their session is open and replays them when it is.  The   *)
(* connection to the manager (UdsChannel) may refuse a message and be      *)
(* closed.                                                                 *)
(*                                                                         *)
(* A turn of the loop is a poll(), at most one batch of datagrams, at most *)
(* one control message, and the heartbeat.  The loop is one thread, so a   *)
(* datagram or a message is handled in one step, but the replay takes a    *)
(* step per datagram: the other receivers fill the same block of the       *)
(* shared segment meanwhile.  A session has one block; its registration,   *)
(* claim and decode (module BlockPipeline) are one step.                   *)
(***************************************************************************)
EXTENDS UdsChannel, SequencesExt

CONSTANTS Sessions,     \* session ids, each opened once
          N,            \* symbols per block
          K,            \* symbols that decode it
          MaxBuffered,  \* kMaxBufferedPerSession
          BatchSize,    \* RECV_BATCH_SIZE
          None,         \* no session
          ArenaFull,    \* may alloc_slot() find no slot?
          OpenFails,    \* may handle_session_open() fail?
          DiskFails,    \* may decode_and_write_block() fail?
          MaxOpens,     \* bound: how often SessionOpen is broadcast
          MaxAnnounced, \* bound: ManifestSeen messages sent for a session
          MaxLate,      \* bound: sessions opened by others after their purge
          MaxRestarts   \* bound: how often this process dies and is restarted

ASSUME LoopAssumption == /\ N \in Nat \ {0}
                         /\ K \in 1 .. N
                         /\ {ArenaFull, OpenFails, DiskFails} \subseteq BOOLEAN
                         /\ BatchSize \in Nat \ {0}
                         /\ {MaxBuffered, MaxOpens, MaxAnnounced, MaxLate, MaxRestarts} \subseteq Nat
                         /\ None \notin Sessions
                         /\ IsFiniteSet(Sessions)

Symbols == 0 .. N - 1

VARIABLES ctx,         \* sessions_: sessions this process has a context for
          early,       \* sessions that have an entry in early_sessions
          buffered,    \* buffered[x]: the datagrams kept for session x
          replaying,   \* the session whose datagrams are being replayed
          at,          \* the next of them
          turn,        \* where the loop is: at poll(), in a batch, at the control socket
          left,        \* datagrams of the batch not handled yet
          ready,       \* did poll() report the control socket readable?
          shmOpen,     \* sessions whose entry in the segment is OPEN
          registered,  \* symbols registered in the session's block
          latch,       \* the block's decode latch
          phase,       \* the manager's view of each session
          opens,       \* SessionOpen broadcasts so far
          announced,   \* announced[x]: ManifestSeen messages of this start that went out
          decodes,     \* ghost: decodes[x]: blocks of x decoded here since this start
          reported,    \* reported[x]: BlockDecoded messages of this start that went out
          refused,     \* ghost: refused[x]: those that send() refused
          owed,        \* ghost: symbols accepted for x and not since excused
          late,        \* sessions opened by others after their purge, so far
          restarts

segment == <<shmOpen, registered, latch>>
manager == <<phase, opens, late>>
loop == <<turn, left, ready>>
reports == <<decodes, reported, refused>>
vars == <<ctx, early, buffered, replaying, at, channel, loop, segment, manager,
          announced, reports, owed, restarts>>

Init ==
  /\ ctx = {}
  /\ early = {}
  /\ buffered = [x \in Sessions |-> <<>>]
  /\ replaying = None
  /\ at = 1
  /\ ChannelInit
  /\ turn = "poll"
  /\ left = 0
  /\ ready = FALSE
  /\ shmOpen = {}
  /\ registered = [x \in Sessions |-> {}]
  /\ latch = [x \in Sessions |-> "PENDING"]
  /\ phase = [x \in Sessions |-> "new"]
  /\ opens = 0
  /\ late = 0
  /\ announced = [x \in Sessions |-> 0]
  /\ decodes = [x \in Sessions |-> 0]
  /\ reported = [x \in Sessions |-> 0]
  /\ refused = [x \in Sessions |-> 0]
  /\ owed = [x \in Sessions |-> {}]
  /\ restarts = 0

\* early_sessions.erase(x)
Forget(x) == /\ early' = early \ {x}
             /\ buffered' = [buffered EXCEPT ![x] = <<>>]

-----------------------------------------------------------------------------
(* A turn of the loop *)

\* The heartbeat of the turn before (it leaves nothing behind, whether its send
\* succeeds or not), and poll(): n datagrams wait for the batch.  What waits at the
\* control socket may be a message that nothing acts on and that inbox leaves out.
Poll ==
  /\ turn = "poll"
  /\ \E n \in 0 .. BatchSize, readable \in {Readable, TRUE} :
       /\ left' = n
       /\ ready' = readable
       /\ turn' = IF n > 0 THEN "udp" ELSE IF readable THEN "uds" ELSE "poll"
  /\ UNCHANGED <<ctx, early, buffered, replaying, at, channel, segment, manager,
                 announced, reports, owed, restarts>>

NextDatagram_UntilEmpty == turn = "udp" /\ UNCHANGED loop

\* One datagram of the batch is handled; the last one ends it.
NextDatagram ==
  /\ turn = "udp"
  /\ left' = left - 1
  /\ turn' = IF left > 1 THEN "udp" ELSE IF ready THEN "uds" ELSE "poll"
  /\ UNCHANGED ready

\* One message is handled, and the turn is over.
EndTurn == turn = "uds" /\ turn' = "poll" /\ UNCHANGED <<left, ready>>

-----------------------------------------------------------------------------
(* handle_data_packet() *)

Crosses(x, s) ==
  latch[x] = "PENDING" /\ Cardinality(registered[x] \cup {s}) >= K

Outcomes(x, s) ==
  CASE x \notin ctx -> {"UnknownSession"}
    [] x \in ctx \ shmOpen -> {"InvalidBlockOrSymbol"}
    [] x \in ctx \cap shmOpen ->
         IF latch[x] = "COMPLETE" \/ s \in registered[x] THEN {"Duplicate"}
         ELSE {IF Crosses(x, s) THEN "BlockDecoded" ELSE "RegisteredOnly"}
              \cup (IF Crosses(x, s) /\ DiskFails THEN {"RegisteredOnly"} ELSE {})
              \cup (IF ArenaFull THEN {"ArenaExhausted"} ELSE {})

\* What the call with outcome o leaves in the segment.
Registers(x, s, o) ==
  /\ registered' = IF o \in {"RegisteredOnly", "BlockDecoded"}
                   THEN [registered EXCEPT ![x] = @ \cup {s}] ELSE registered
  /\ latch' = CASE o = "BlockDecoded" -> [latch EXCEPT ![x] = "COMPLETE"]
                [] o = "RegisteredOnly" /\ Crosses(x, s) -> [latch EXCEPT ![x] = "CLAIMED"]
                [] OTHER -> latch
  /\ decodes' = IF o = "BlockDecoded" THEN [decodes EXCEPT ![x] = @ + 1] ELSE decodes
  /\ UNCHANGED shmOpen

\* The caller sends BlockDecoded for the outcome that asks for it, once.
Reports(x, o) ==
  IF o = "BlockDecoded"
  THEN \E sent \in SendResults :
         IF sent THEN reported' = [reported EXCEPT ![x] = @ + 1] /\ UNCHANGED refused
         ELSE refused' = [refused EXCEPT ![x] = @ + 1] /\ UNCHANGED reported
  ELSE UNCHANGED <<reported, refused>>

Accepted == {"RegisteredOnly", "BlockDecoded", "Duplicate"}

-----------------------------------------------------------------------------
(* The UDP data plane *)

\* Seeded faults, here and below: the definition that follows with one bug that
\* a change of the code could bring in.  A run of its own shows it is noticed.
Buffers_OneTooMany(x) == x \in early /\ Len(buffered[x]) <= MaxBuffered

\* A datagram the pipeline knows no session for waits in the buffer, if its
\* Manifest has been seen and the buffer is not full.
Buffers(x) == x \in early /\ Len(buffered[x]) < MaxBuffered

Data(x, s) ==
  /\ NextDatagram
  /\ \E o \in Outcomes(x, s) :
       /\ Registers(x, s, o)
       /\ Reports(x, o)
       /\ IF o = "UnknownSession" /\ Buffers(x)
          THEN buffered' = [buffered EXCEPT ![x] = Append(@, s)] ELSE UNCHANGED buffered
       /\ owed' = IF o \in Accepted \/ (o = "UnknownSession" /\ Buffers(x))
                  THEN [owed EXCEPT ![x] = @ \cup {s}] ELSE owed
  /\ UNCHANGED <<ctx, early, replaying, at, channel, manager, announced, restarts>>

\* Senders send the Manifest again and again.  A refused ManifestSeen is not sent
\* again: the entry is there.
Manifest(x) ==
  /\ NextDatagram
  /\ x \notin early
  /\ announced[x] < MaxAnnounced
  /\ early' = early \cup {x}
  /\ \E sent \in SendResults :
       announced' = IF sent THEN [announced EXCEPT ![x] = @ + 1] ELSE announced
  /\ UNCHANGED <<ctx, buffered, replaying, at, channel, segment, manager,
                 reports, owed, restarts>>

\* A Manifest of a session that has its entry, a SessionEnd, or a datagram that is
\* no frame (module DataPath).
OtherDatagram ==
  /\ NextDatagram
  /\ UNCHANGED <<ctx, early, buffered, replaying, at, channel, segment, manager,
                 announced, reports, owed, restarts>>

-----------------------------------------------------------------------------
(* The UDS control plane: one message a turn of the loop *)

Messages == [kind : {"open", "purge"}, id : Sessions]
Subject == Head(inbox).id

\* uds.receive() gives a message of this kind.
Message(kind) ==
  /\ turn = "uds"
  /\ replaying = None
  /\ \E m \in Messages : Receives(m) /\ m.kind = kind
  /\ Received

SessionOpen_NoReplay ==
  /\ Message("open")
  /\ ctx' = ctx \cup {Subject}
  /\ shmOpen' = IF Subject \in ctx THEN shmOpen ELSE shmOpen \cup {Subject}
  /\ EndTurn
  /\ UNCHANGED <<early, buffered, replaying, at, registered, latch, manager, announced,
                 reports, owed, restarts>>

\* The turn goes on with the replay of what is buffered.
SessionOpen ==
  /\ Message("open")
  /\ ctx' = ctx \cup {Subject}
  /\ shmOpen' = IF Subject \in ctx THEN shmOpen ELSE shmOpen \cup {Subject}
  /\ IF Subject \in early THEN replaying' = Subject /\ UNCHANGED loop
     ELSE EndTurn /\ UNCHANGED replaying
  /\ UNCHANGED <<early, buffered, at, registered, latch, manager, announced,
                 reports, owed, restarts>>

SessionOpenFails_DropsBuffer ==
  /\ Message("open")
  /\ OpenFails
  /\ Subject \notin ctx
  /\ shmOpen' \in {shmOpen, shmOpen \cup {Subject}}
  /\ Forget(Subject)
  /\ EndTurn
  /\ UNCHANGED <<ctx, replaying, at, registered, latch, manager, announced, reports,
                 owed, restarts>>

\* No entry in the segment, or an entry but no destination file: the
\* datagrams wait on.
SessionOpenFails ==
  /\ Message("open")
  /\ OpenFails
  /\ Subject \notin ctx
  /\ shmOpen' \in {shmOpen, shmOpen \cup {Subject}}
  /\ EndTurn
  /\ UNCHANGED <<ctx, early, buffered, replaying, at, registered, latch, manager,
                 announced, reports, owed, restarts>>

Replay_NotReported ==
  /\ replaying # None
  /\ at <= Len(buffered[replaying])
  /\ LET x == replaying  s == buffered[replaying][at] IN
       \E o \in Outcomes(x, s) :
         /\ Registers(x, s, o)
         /\ owed' = IF o \in Accepted THEN owed ELSE [owed EXCEPT ![x] = @ \ {s}]
  /\ at' = at + 1
  /\ UNCHANGED <<ctx, early, buffered, replaying, channel, loop, manager, announced,
                 reported, refused, restarts>>

\* One turn of the replay loop.
Replay ==
  /\ replaying # None
  /\ at <= Len(buffered[replaying])
  /\ LET x == replaying  s == buffered[replaying][at] IN
       \E o \in Outcomes(x, s) :
         /\ Registers(x, s, o)
         /\ Reports(x, o)
         /\ owed' = IF o \in Accepted THEN owed ELSE [owed EXCEPT ![x] = @ \ {s}]
  /\ at' = at + 1
  /\ UNCHANGED <<ctx, early, buffered, replaying, channel, loop, manager, announced,
                 restarts>>

ReplayDone ==
  /\ replaying # None
  /\ at > Len(buffered[replaying])
  /\ Forget(replaying)
  /\ replaying' = None
  /\ at' = 1
  /\ EndTurn
  /\ UNCHANGED <<ctx, channel, segment, manager, announced, reports, owed, restarts>>

PurgeSession ==
  /\ Message("purge")
  /\ shmOpen' = shmOpen \ {Subject}
  /\ registered' = [registered EXCEPT ![Subject] = {}]
  /\ latch' = [latch EXCEPT ![Subject] = "PENDING"]
  /\ ctx' = ctx \ {Subject}
  /\ Forget(Subject)
  /\ owed' = [owed EXCEPT ![Subject] = {}]
  /\ EndTurn
  /\ UNCHANGED <<replaying, at, manager, announced, reports, restarts>>

\* A Config, a message for the other direction, bytes that are no envelope; or the end
\* of the connection, which poll() reports on every turn.  Nothing is done.
NothingToDo ==
  /\ turn = "uds"
  /\ replaying = None
  /\ ReceivesNothing
  /\ EndTurn
  /\ UNCHANGED <<ctx, early, buffered, replaying, at, channel, segment, manager,
                 announced, reports, owed, restarts>>

-----------------------------------------------------------------------------
(* session_manager (external), the other receivers, and the supervisor *)

ManagerLeavesLoop ==
  UNCHANGED <<ctx, early, buffered, replaying, at, loop, segment, announced, reports,
              owed, restarts>>

BroadcastOpen(x) ==
  /\ phase[x] \in {"new", "open"}
  /\ opens < MaxOpens
  /\ opens' = opens + 1
  /\ phase' = [phase EXCEPT ![x] = "open"]
  /\ PeerSends([kind |-> "open", id |-> x])
  /\ UNCHANGED late
  /\ ManagerLeavesLoop

BroadcastPurge(x) ==
  /\ phase[x] = "open"
  /\ phase' = [phase EXCEPT ![x] = "purged"]
  /\ PeerSends([kind |-> "purge", id |-> x])
  /\ UNCHANGED <<opens, late>>
  /\ ManagerLeavesLoop

\* The manager drops this receiver, for whatever reason; nothing reconnects.
Disconnect == PeerCloses /\ UNCHANGED manager /\ ManagerLeavesLoop

\* Another receiver is ahead with the same broadcasts, or behind: it opens a
\* session that a third one has purged already.
OtherOpens(x) ==
  /\ x \notin shmOpen
  /\ \/ phase[x] = "open" /\ UNCHANGED late
     \/ phase[x] = "purged" /\ late < MaxLate /\ late' = late + 1
  /\ shmOpen' = shmOpen \cup {x}
  /\ UNCHANGED <<ctx, early, buffered, replaying, at, channel, loop, registered, latch,
                 phase, opens, announced, reports, owed, restarts>>

OtherPurges(x) ==
  /\ phase[x] = "purged"
  /\ x \in shmOpen
  /\ shmOpen' = shmOpen \ {x}
  /\ registered' = [registered EXCEPT ![x] = {}]
  /\ latch' = [latch EXCEPT ![x] = "PENDING"]
  /\ owed' = [owed EXCEPT ![x] = {}]
  /\ UNCHANGED <<ctx, early, buffered, replaying, at, channel, loop, manager, announced,
                 reports, restarts>>

OtherRegisters(x, s) ==
  /\ x \in shmOpen
  /\ s \notin registered[x]
  /\ latch[x] # "COMPLETE"
  /\ registered' = [registered EXCEPT ![x] = @ \cup {s}]
  /\ latch' = IF Crosses(x, s) THEN [latch EXCEPT ![x] = "COMPLETE"] ELSE latch
  /\ UNCHANGED <<ctx, early, buffered, replaying, at, channel, loop, shmOpen, manager,
                 announced, reports, owed, restarts>>

\* This process dies and starts again with nothing but the segment.  It connects,
\* and the manager tells a receiver that joins late which sessions are open.
Restart ==
  /\ restarts < MaxRestarts
  /\ restarts' = restarts + 1
  /\ ctx' = {}
  /\ early' = {}
  /\ buffered' = [x \in Sessions |-> <<>>]
  /\ replaying' = None
  /\ at' = 1
  /\ \E waiting \in SetToSeqs({[kind |-> "open", id |-> x] :
                               x \in {y \in Sessions : phase[y] = "open"}}) :
       Connect(waiting)
  /\ turn' = "poll"
  /\ left' = 0
  /\ ready' = FALSE
  /\ announced' = [x \in Sessions |-> 0]
  /\ decodes' = [x \in Sessions |-> 0]
  /\ reported' = [x \in Sessions |-> 0]
  /\ refused' = [x \in Sessions |-> 0]
  /\ owed' = [x \in Sessions |-> {}]
  /\ UNCHANGED <<segment, manager>>

Batch == \/ \E x \in Sessions, s \in Symbols : Data(x, s)
         \/ \E x \in Sessions : Manifest(x)
         \/ OtherDatagram

Control == SessionOpen \/ SessionOpenFails \/ Replay \/ ReplayDone \/ PurgeSession
           \/ NothingToDo

Next == \/ Poll \/ Batch \/ Control \/ Restart \/ Disconnect
        \/ \E x \in Sessions : \/ BroadcastOpen(x) \/ BroadcastPurge(x)
                               \/ OtherOpens(x) \/ OtherPurges(x)
                               \/ \E s \in Symbols : OtherRegisters(x, s)

Spec == Init /\ [][Next]_vars

\* The loop is one thread that never blocks but in poll(), which has a timeout: it
\* goes on.  No datagram and no message has to arrive.
FairSpec == Spec /\ WF_vars(Poll \/ Batch \/ Control)

-----------------------------------------------------------------------------
(* Properties *)

TypeOK ==
  /\ {ctx, early, shmOpen} \subseteq SUBSET Sessions
  /\ \A x \in Sessions : /\ Len(buffered[x]) <= MaxBuffered
                         /\ \A i \in DOMAIN buffered[x] : buffered[x][i] \in Symbols
                         /\ buffered[x] # <<>> => x \in early
  /\ replaying \in early \cup {None}
  /\ at \in 1 .. MaxBuffered + 1
  /\ ChannelTypeOK(Messages)
  /\ turn \in {"poll", "udp", "uds"}
  /\ left \in 0 .. BatchSize
  /\ turn = "udp" <=> left > 0
  /\ ready \in BOOLEAN
  /\ registered \in [Sessions -> SUBSET Symbols]
  /\ latch \in [Sessions -> {"PENDING", "CLAIMED", "COMPLETE"}]
  /\ phase \in [Sessions -> {"new", "open", "purged"}]
  /\ opens \in 0 .. MaxOpens
  /\ late \in 0 .. MaxLate
  /\ announced \in [Sessions -> 0 .. MaxAnnounced]
  /\ {decodes, reported, refused} \subseteq [Sessions -> Nat]
  /\ owed \in [Sessions -> SUBSET Symbols]
  /\ restarts \in 0 .. MaxRestarts

\* A symbol that was accepted, from the socket, into the buffer or out of it, is
\* still there to decode with: registered, waiting to be replayed, or its block is
\* decoded.  Only a full buffer, a full arena and the end of the session excuse.
Waiting(x) == {buffered[x][i] : i \in {j \in DOMAIN buffered[x] : replaying = x => j >= at}}

NothingForgotten ==
  \A x \in Sessions :
    latch[x] # "COMPLETE" => owed[x] \subseteq registered[x] \cup Waiting(x)

\* Every block this process decodes, from the socket or in a replay, was offered to
\* the manager once, and as long as it keeps the session it hears of it once at most;
\* it misses only what send() refused.
DecodedIsReported ==
  \A x \in Sessions : /\ reported[x] + refused[x] = decodes[x]
                      /\ phase[x] # "purged" => decodes[x] <= 1

\* However many datagrams arrive, and when the connection is gone for good, the loop
\* comes back to poll(), and so to its heartbeat, again and again.
HeartbeatGoesOn == []<>(turn = "poll")

\* handle_session_open() failed here, and no other SessionOpen is on its way.
NotOpened(x) == /\ x \notin ctx
                /\ \A i \in DOMAIN inbox : inbox[i] # [kind |-> "open", id |-> x]

\* Data that comes before SessionOpen counts: k symbols accepted and not lost to a
\* full arena get the block claimed once the session is open, whatever else the
\* loop has to do, unless the session ends or does not open here.
EarlyDataDecodes ==
  \A x \in Sessions :
    Cardinality(owed[x]) >= K /\ phase[x] = "open"
      ~> \/ latch[x] # "PENDING"
         \/ Cardinality(owed[x]) < K
         \/ phase[x] = "purged"
         \/ NotOpened(x)

\* The comment on early_sessions: it is also what keeps a Manifest that is sent
\* again from being announced to the manager again.
ManifestSeenOnce ==
  \A x \in Sessions : phase[x] # "purged" => announced[x] <= 1
=============================================================================
