--------------------------------- MODULE Crc ---------------------------------
(***************************************************************************)
(* The two checksums of the wire prefix (src/src/common/crc.cpp).  A       *)
(* register, a byte and a polynomial are sets of bit numbers, so that      *)
(* exclusive or is the symmetric difference.  A message is a sequence of   *)
(* bytes.  The second half is the reference: the remainder of a division.  *)
(***************************************************************************)
EXTENDS Integers, Sequences, FiniteSetsExt

Byte == SUBSET (0 .. 7)

\* The bits of a number, and a set of bits moved to higher places.
Bits(x) == {i \in 0 .. 15 : (x \div 2^i) % 2 = 1}
Up(A, d) == {i + d : i \in A}

\* The register after n turns of a loop whose i-th turn is Turn(r, i).
Loop(Turn(_, _), n, r) ==
  LET after[left \in SUBSET Nat, i \in 1 .. n + 1] ==
        IF i > n THEN left ELSE after[Turn(left, i), i + 1]
  IN after[r, 1]

Shifted(Shift(_), n, r) == Loop(LAMBDA q, i : Shift(q), n, r)

-----------------------------------------------------------------------------
(* crc16_ccitt_false(): most significant bit first, polynomial 0x1021 *)

Shift16(r) == SymDiff(Up(r \ {15}, 1), IF 15 \in r THEN Bits(4129) ELSE {})

crc16_ccitt_false(data) ==
  Loop(LAMBDA r, i : Shifted(Shift16, 8, SymDiff(r, Up(data[i], 8))), Len(data), 0 .. 15)

-----------------------------------------------------------------------------
(* crc32c(): least significant bit first, polynomial 0x82F63B78 *)

Shift32(r) ==
  SymDiff(Up(r \ {0}, -1), IF 0 \in r THEN Up(Bits(33526), 16) \cup Bits(15224) ELSE {})

Feed(r, b) == Shifted(Shift32, 8, SymDiff(r, b))

crc32c_sw(data) ==
  (0 .. 31) \ Loop(LAMBDA r, i : Feed(r, data[i]), Len(data), 0 .. 31)

\* The instruction takes eight bytes, the first in the low bits, in one go.
Word(data, i) == UNION {Up(data[8 * (i - 1) + j], 8 * (j - 1)) : j \in 1 .. 8}
mm_crc32_u64(r, v) == Shifted(Shift32, 64, SymDiff(r, v))

crc32c_hw(data) ==
  LET words == Len(data) \div 8
      whole == Loop(LAMBDA r, i : mm_crc32_u64(r, Word(data, i)), words, 0 .. 31)
  IN (0 .. 31) \ Loop(LAMBDA r, i : Feed(r, data[8 * words + i]), Len(data) % 8, whole)

-----------------------------------------------------------------------------
(* The reference: a message as a polynomial over the field of two elements, *)
(* its first bits inverted, and its remainder by the generator.             *)

Remainder(P, G, top) ==
  LET g == Max(G)
      Cancel(left, i) == LET d == top + 1 - i
                         IN IF d \in left THEN SymDiff(left, Up(G, d - g)) ELSE left
  IN Loop(Cancel, top - g + 1, P)

\* The degrees of a message of n bytes, when bit b of a byte has degree Order(b).
Degrees(data, Order(_)) ==
  UNION {Up({Order(b) : b \in data[i]}, 8 * (Len(data) - i)) : i \in DOMAIN data}

Divided(data, Order(_), G, g) ==
  Remainder(SymDiff(Up(Degrees(data, Order), g), Up(0 .. g - 1, 8 * Len(data))),
            G, 8 * Len(data) + g)

Crc16Reference(data) == Divided(data, LAMBDA b : b, Bits(4129) \cup {16}, 16)

Crc32Reference(data) ==
  LET r == Divided(data, LAMBDA b : 7 - b,
                   Bits(28481) \cup Up(Bits(7900), 16) \cup {32}, 32)
  IN (0 .. 31) \ {31 - d : d \in r}
=============================================================================
