----------------------------- MODULE MCDataPath -----------------------------
(***************************************************************************)
(* Instances of DataPath for TLC, and what it evaluates of the checksums   *)
(* and the codec.                                                          *)
(***************************************************************************)
EXTENDS DataPath, TLC

LOCAL INSTANCE Crc

\* The field of four elements.
Quadratic == {2, 1, 0}

\* A block whose two symbols and whose parity symbols all differ.
SentBlock == (0 :> {0}) @@ (1 :> {1})
FirstAndParity == {0, 2}

-----------------------------------------------------------------------------
(* The checksums *)

Octet(x) == {i \in 0 .. 7 : (x \div 2^i) % 2 = 1}

\* "123456789", the input of tests/vectors/crc_vectors.md, and its checksums
\* 0x29B1 and 0xE3069283.
Digits == [i \in 1 .. 9 |-> Octet(48 + i)]

ASSUME CrcVectors ==
  /\ crc16_ccitt_false(Digits) = Bits(10673)
  /\ crc32c_sw(Digits) = Up(Bits(58118), 16) \cup Bits(37507)

\* Both are the remainders they are named after, and the eight bytes at a time
\* of the hardware change nothing, whatever is left over.
Sample(n) == [i \in 1 .. n |-> Octet((37 * i * i + 11) % 256)]

ASSUME CrcIsRemainder ==
  /\ \A b, c \in {0, 1, 85, 128, 200, 255} :
       LET m == <<Octet(b), Octet(c)>> IN /\ crc16_ccitt_false(m) = Crc16Reference(m)
                                          /\ crc32c_sw(m) = Crc32Reference(m)
  /\ \A n \in 0 .. 17 : LET m == Sample(n) IN /\ crc32c_sw(m) = Crc32Reference(m)
                                              /\ crc32c_hw(m) = crc32c_sw(m)

\* One or two wrong bits in the six bytes the header's checksum covers, or any of
\* its own, are noticed: the received checksum is not the computed one.
Header == <<Octet(85), Octet(78), Octet(70), Octet(76), Octet(123), Octet(5)>>
Flip(m, F) == [i \in DOMAIN m |-> {b \in 0 .. 7 : (b \in m[i]) # (8 * (i - 1) + b \in F)}]

ASSUME HeaderFlipsNoticed ==
  \A i, j \in 0 .. 47 :
    i <= j => LET d == SymDiff(crc16_ccitt_false(Header), crc16_ccitt_false(Flip(Header, {i, j})))
              IN Cardinality(d) > IF i = j THEN 1 ELSE 0

-----------------------------------------------------------------------------
(* The codec *)

Codec == INSTANCE RsCodec WITH N <- 6, K <- 2, Width <- 3, Modulus <- {3, 1, 0}

\* Every set of at least K symbols gives every block back, and no smaller one does.
ASSUME AnyKSymbolsDecode ==
  \A b \in Codec!Blocks :
    /\ Codec!AnyKDecode(b)
    /\ \A present \in SUBSET Codec!Rows :
         Cardinality(present) < 2 => Codec!Decode(Codec!Encode(b), present) = Codec!Failed

\* The block of the run is one that DataPathProofs is about.
ASSUME SentDecodes == AnyKDecode(Sent)
=============================================================================
