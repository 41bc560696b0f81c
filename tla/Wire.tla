-------------------------------- MODULE Wire --------------------------------
(***************************************************************************)
(* The 12-byte prefix of a datagram (src/src/common/wire.cpp) and the      *)
(* frame behind it (src/src/receiver/frame_dispatcher.cpp).                *)
(*                                                                         *)
(* A datagram is a sequence of cells: the prefix has one for each of its   *)
(* fields, the body one for each of its fields.  The checksum of some      *)
(* cells is the cells themselves: no two inputs share it (module Crc has   *)
(* the checksums, and what they can tell apart).                           *)
(***************************************************************************)
EXTENDS Integers, Sequences

CONSTANTS Magic,   \* WIRE_MAGIC
          Junk,    \* what no sender writes, in any cell
          MaxBody  \* the longest body that proto_len can state

ASSUME WireAssumption == MaxBody \in Nat

\* magic, proto_len, hdr_crc16, body_crc32c: WIRE_PREFIX_SIZE in cells.
WIRE_PREFIX_SIZE == 4

\* Cells a to b of a buffer; beyond its end is memory that is not the datagram's.
Cells(buf, a, b) ==
  [i \in 1 .. b - a + 1 |-> IF a + i - 1 \in DOMAIN buf THEN buf[a + i - 1] ELSE Junk]

\* Nothing is built of a body that proto_len cannot state or the buffer cannot hold.
build_frame(cap, body) ==
  IF Len(body) > MaxBody \/ WIRE_PREFIX_SIZE + Len(body) > cap THEN <<>>
  ELSE <<Magic, Len(body), <<Magic, Len(body)>>, body>> \o body

\* The body that the checked prefix of a buffer points at.
BodyOf(buf) == Cells(buf, WIRE_PREFIX_SIZE + 1, WIRE_PREFIX_SIZE + buf[2])

\* Seeded faults, here and in the modules around: the definition that follows with one bug
\* that a change of the code could bring in.  A run of its own shows it is noticed.
validate_frame_prefix_NoBounds(buf, len) ==
  IF len < WIRE_PREFIX_SIZE \/ buf[1] # Magic THEN "BadMagic"
  ELSE IF buf[3] # Cells(buf, 1, 2) THEN "BadHeaderCrc"
  ELSE IF buf[4] # BodyOf(buf) THEN "BadBodyCrc"
  ELSE "Ok"

validate_frame_prefix_BodyNotChecked(buf, len) ==
  IF len < WIRE_PREFIX_SIZE \/ buf[1] # Magic THEN "BadMagic"
  ELSE IF buf[3] # Cells(buf, 1, 2) THEN "BadHeaderCrc"
  ELSE IF WIRE_PREFIX_SIZE + buf[2] > len THEN "ProtoLenOutOfBounds"
  ELSE "Ok"

\* len cells of buf were received; what is behind them is an older datagram's.
\* The order is the code's: nothing is used before it is checked.
validate_frame_prefix(buf, len) ==
  IF len < WIRE_PREFIX_SIZE \/ buf[1] # Magic THEN "BadMagic"
  ELSE IF buf[3] # Cells(buf, 1, 2) THEN "BadHeaderCrc"
  ELSE IF WIRE_PREFIX_SIZE + buf[2] > len THEN "ProtoLenOutOfBounds"
  ELSE IF buf[4] # BodyOf(buf) THEN "BadBodyCrc"
  ELSE "Ok"

-----------------------------------------------------------------------------
(* The protobuf body: a kind and its fields *)

DataBody(s, v) == <<"data", s, v>>
ManifestBody == <<"manifest">>
EndBody == <<"end">>

\* ParseFromArray() (external): no bytes parse, to a frame with no member set.
Parses(body) ==
  \/ body = <<>>
  \/ body \in {ManifestBody, EndBody}
  \/ Len(body) = 3 /\ body[1] = "data" /\ body[2] # Junk

\* The four results of the dispatcher.
decode_frame(buf, len) ==
  CASE validate_frame_prefix(buf, len) = "BadMagic" -> "BadMagic"
    [] validate_frame_prefix(buf, len) \in {"BadHeaderCrc", "BadBodyCrc"} -> "CrcFail"
    [] validate_frame_prefix(buf, len) = "ProtoLenOutOfBounds" -> "Unparsable"
    [] OTHER -> IF Parses(BodyOf(buf)) /\ BodyOf(buf) # <<>> THEN "Ok" ELSE "Unparsable"
=============================================================================
