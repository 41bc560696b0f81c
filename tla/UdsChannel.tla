----------------------------- MODULE UdsChannel -----------------------------
(***************************************************************************)
(* The receiver's end of its SOCK_SEQPACKET connection to session_manager  *)
(* (src/src/receiver/uds_channel.cpp), non-blocking: a message is sent     *)
(* whole or not at all, what the peer has sent arrives in order, and what  *)
(* is in the socket when the peer closes it can still be read.             *)
(***************************************************************************)
EXTENDS Integers, Sequences

CONSTANTS MaxCloses  \* bound: how often the peer closes the connection

ASSUME ChannelAssumption == MaxCloses \in Nat

VARIABLES link,    \* is the connection up or closed by the peer?
          inbox,   \* messages in the socket, not yet read
          closes   \* connections the peer has closed so far

channel == <<link, inbox, closes>>

ChannelInit == link = "up" /\ inbox = <<>> /\ closes = 0

\* A process that starts connects; waiting is what the peer sends it at once.
Connect(waiting) == link' = "up" /\ inbox' = waiting /\ UNCHANGED closes

\* poll() reports POLLIN: a message, or the end of the connection.
Readable == inbox # <<>> \/ link = "closed"

\* What send() may return: a full buffer refuses a message, a closed peer every one.
SendResults == IF link = "up" THEN {TRUE, FALSE} ELSE {FALSE}

\* receive() with a message, and without one.
Receives(m) == inbox # <<>> /\ m = Head(inbox)
Received == inbox' = Tail(inbox) /\ UNCHANGED <<link, closes>>
ReceivesNothing == inbox = <<>>

\* The peer (external).
PeerSends(m) ==
  /\ inbox' = IF link = "up" THEN Append(inbox, m) ELSE inbox
  /\ UNCHANGED <<link, closes>>

PeerCloses ==
  /\ link = "up"
  /\ closes < MaxCloses
  /\ closes' = closes + 1
  /\ link' = "closed"
  /\ UNCHANGED inbox

ChannelTypeOK(Message) ==
  /\ link \in {"up", "closed"}
  /\ \A i \in DOMAIN inbox : inbox[i] \in Message
  /\ closes \in 0 .. MaxCloses
=============================================================================
