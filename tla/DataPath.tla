------------------------------ MODULE DataPath ------------------------------
(***************************************************************************)
(* The way of a block from a sender's symbols to its decoded bytes in one  *)
(* receiver: the UDP part of the main loop (src/src/receiver/main.cpp),    *)
(* over the socket's buffers (UdpReceiver), the checks of the prefix and   *)
(* the frame (Wire), and the codec (RsCodec).  The network loses,          *)
(* duplicates, reorders and damages datagrams, and strangers send to the   *)
(* same port.  The block's registration is one step (BlockPipeline has it  *)
(* apart); the other receivers add symbols to the same block.              *)
(***************************************************************************)
EXTENDS Wire, UdpReceiver, RsCodec

CONSTANTS Sent,         \* the block the sender sends
          Copies,       \* the symbols the network may damage
          Undecoded,    \* the block before its decode
          MaxReceived   \* bound: datagrams received

\* A symbol's frame can be stated and received whole, and Junk is what no sender writes.
ASSUME PathAssumption ==
  /\ Sent \in Blocks
  /\ Copies \subseteq Rows
  /\ MaxBody >= 3
  /\ MAX_DATAGRAM_SIZE >= WIRE_PREFIX_SIZE + 3
  /\ Junk \notin Rows \cup {Magic}
  /\ MaxReceived \in Nat

VARIABLES at,       \* the loop's index into batch
          stats,    \* the stat_ counters of frames and duplicates
          symbols,  \* the payloads registered for the block, by symbol id
          block,    \* the decoded block
          intact,   \* ghost: whole frames of the protocol handled so far
          handled   \* ghost: datagrams handled so far

path == <<symbols, block>>
vars == <<buffers, batch, at, stats, symbols, block, intact, handled>>

Buckets == {"Ok", "BadMagic", "CrcFail", "Unparsable", "Duplicate"}

Init ==
  /\ Bind
  /\ at = 1
  /\ stats = [c \in Buckets |-> 0]
  /\ symbols = <<>>
  /\ block = Undecoded
  /\ intact = 0
  /\ handled = 0

-----------------------------------------------------------------------------
(* The senders and the network (external) *)

Frame(body) == build_frame(WIRE_PREFIX_SIZE + MaxBody, body)
SymbolFrame(s) == Frame(DataBody(s, Encode(Sent)[s]))

Protocol == {SymbolFrame(s) : s \in Rows}
              \cup {Frame(ManifestBody), Frame(EndBody)}

\* A bit of the magic, of the length, of the payload; bytes cut off; a datagram
\* that does not fit into a buffer.
Damaged(d) ==
  {[d EXCEPT ![1] = Junk], [d EXCEPT ![2] = @ - 1], [d EXCEPT ![7] = SymDiff(@, One)],
   SubSeq(d, 1, 6), SubSeq(d, 1, 3)}
   \cup {Frame(SubSeq(d, 5, 7) \o <<Junk>>)}

\* A sender of another version, and one that sets no member.
Foreign == {Frame(<<>>), Frame(<<"data", Junk, {}>>)}

Datagrams == Protocol \cup Foreign \cup UNION {Damaged(SymbolFrame(s)) : s \in Copies}

-----------------------------------------------------------------------------
(* The loop *)

Handling == at <= Len(batch)
View == batch[at]
Result == decode_frame(buffers[View.buf], View.len)
Body == BodyOf(buffers[View.buf])

\* The next call of receive_batch(), after the last datagram of a batch.
Receive ==
  /\ ~Handling
  /\ \E n \in 0 .. RECV_BATCH_SIZE :
       /\ handled + n <= MaxReceived
       /\ \E grams \in [1 .. n -> Datagrams] : ReceiveBatch(grams)
  /\ at' = 1
  /\ UNCHANGED <<stats, path, intact, handled>>

Count(buckets) == stats' = [c \in Buckets |-> IF c \in buckets THEN stats[c] + 1 ELSE stats[c]]

\* What every turn does; the ghosts compare with what the sender sent.
NextDatagram ==
  /\ Handling
  /\ at' = at + 1
  /\ handled' = handled + 1
  /\ intact' = IF View.gram \in Protocol THEN intact + 1 ELSE intact
  /\ UNCHANGED <<buffers, batch>>

Refused ==
  /\ NextDatagram
  /\ Result # "Ok"
  /\ Count({Result})
  /\ UNCHANGED path

\* A Manifest (module ReceiverLoop) and a SessionEnd leave the block alone.
OtherFrame ==
  /\ NextDatagram
  /\ Result = "Ok"
  /\ Body[1] # "data"
  /\ Count({"Ok"})
  /\ UNCHANGED path

DuplicateSymbol ==
  /\ NextDatagram
  /\ Result = "Ok"
  /\ Body[1] = "data"
  /\ block # Undecoded \/ Body[2] \in DOMAIN symbols
  /\ Count({"Ok", "Duplicate"})
  /\ UNCHANGED path

With(s, v) == [i \in DOMAIN symbols \cup {s} |-> IF i = s THEN v ELSE symbols[i]]

\* handle_data_packet() with a new symbol; at the threshold it decodes.
NewSymbol ==
  /\ NextDatagram
  /\ Result = "Ok"
  /\ Body[1] = "data"
  /\ block = Undecoded
  /\ Body[2] \notin DOMAIN symbols
  /\ symbols' = With(Body[2], Body[3])
  /\ block' = IF Cardinality(DOMAIN symbols') >= K
              THEN Decode(symbols', DOMAIN symbols') ELSE Undecoded
  /\ Count({"Ok"})

\* Another receiver has registered a symbol of this block, and not yet looked at
\* the threshold: a decode here may find more than K symbols.
OtherRegisters(s) ==
  /\ block = Undecoded
  /\ s \notin DOMAIN symbols
  /\ symbols' = With(s, Encode(Sent)[s])
  /\ UNCHANGED <<buffers, batch, at, stats, block, intact, handled>>

Next == \/ Receive \/ Refused \/ OtherFrame \/ DuplicateSymbol \/ NewSymbol
        \/ \E s \in Rows : OtherRegisters(s)

Spec == Init /\ [][Next]_vars

-----------------------------------------------------------------------------
(* Properties *)

\* Every variable keeps its type; no view is longer than its buffer.
TypeOK ==
  /\ DOMAIN buffers = 1 .. RECV_BATCH_SIZE
  /\ \A i \in DOMAIN buffers : Len(buffers[i]) = MAX_DATAGRAM_SIZE
  /\ Len(batch) <= RECV_BATCH_SIZE
  /\ \A i \in DOMAIN batch : /\ batch[i].buf = i
                             /\ batch[i].len \in 0 .. MAX_DATAGRAM_SIZE
                             /\ batch[i].gram \in Datagrams
  /\ at \in 1 .. RECV_BATCH_SIZE + 1
  /\ stats \in [Buckets -> 0 .. MaxReceived]
  /\ DOMAIN symbols \subseteq Rows
  /\ block = Undecoded \/ block \in Blocks
  /\ {intact, handled} \subseteq 0 .. MaxReceived

\* Exactly the whole frames of the protocol are counted as ok, however much of an
\* older datagram is still in the buffer behind a short one, and every datagram is
\* counted in one of the four buckets.
OnlyWholeFramesOk ==
  /\ stats["Ok"] = intact
  /\ stats["Ok"] + stats["BadMagic"] + stats["CrcFail"] + stats["Unparsable"] = handled

\* Whatever the network did to the datagrams, what is decoded is what was sent.
DecodedIsSent == block # Undecoded => block = Sent
=============================================================================
