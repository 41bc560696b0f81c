----------------------------- MODULE UdpReceiver -----------------------------
(***************************************************************************)
(* The batched UDP socket (src/src/receiver/udp_receiver.cpp).  bind()     *)
(* makes one buffer for each datagram of a batch; every receive_batch()    *)
(* writes over the same buffers, and what it hands out points into them.   *)
(* A buffer keeps the tail of a longer, older datagram.                    *)
(***************************************************************************)
EXTENDS Integers, Sequences

CONSTANTS RECV_BATCH_SIZE,
          MAX_DATAGRAM_SIZE,
          Blank  \* the content of a cell nothing was received into

ASSUME UdpAssumption == {RECV_BATCH_SIZE, MAX_DATAGRAM_SIZE} \subseteq Nat \ {0}

VARIABLES buffers,  \* buffers_: the pool
          batch     \* the datagrams of the last call: buffer, length and, as a
                    \* ghost, what the sender sent

Bind ==
  /\ buffers = [i \in 1 .. RECV_BATCH_SIZE |-> [j \in 1 .. MAX_DATAGRAM_SIZE |-> Blank]]
  /\ batch = <<>>

Shorter(m, n) == IF m < n THEN m ELSE n

\* recvmmsg() with no flags: the length of what it stored, not of what came.
StoredLen_AsSent(gram) == Len(gram)
StoredLen(gram) == Shorter(Len(gram), MAX_DATAGRAM_SIZE)

Overwritten(buf, gram) ==
  [j \in 1 .. MAX_DATAGRAM_SIZE |-> IF j <= Len(gram) THEN gram[j] ELSE buf[j]]

\* receive_batch() with grams waiting in the socket; none is EAGAIN, and a real
\* error looks the same to the loop.
ReceiveBatch(grams) ==
  /\ Len(grams) <= RECV_BATCH_SIZE
  /\ buffers' = [i \in DOMAIN buffers |->
                   IF i \in DOMAIN grams THEN Overwritten(buffers[i], grams[i])
                   ELSE buffers[i]]
  /\ batch' = [i \in DOMAIN grams |->
                 [buf |-> i, len |-> StoredLen(grams[i]), gram |-> grams[i]]]
=============================================================================
