------------------------------- MODULE RsCodec -------------------------------
(***************************************************************************)
(* The Reed-Solomon codec (src/src/receiver/rs_codec.cpp) over a field of  *)
(* 2^Width elements; the code's has 2^8.  An element is a set of bits, a   *)
(* polynomial over the field of two elements.  The matrix routines are     *)
(* ISA-L's: they are modelled by what they compute.                        *)
(***************************************************************************)
EXTENDS Integers, Sequences, FiniteSetsExt

CONSTANTS N,       \* symbols of a block
          K,       \* data symbols of a block
          Width,   \* bits of a field element
          Modulus  \* the field's polynomial, as the set of its exponents

ASSUME CodecAssumption ==
  /\ N \in Nat \ {0}
  /\ K \in 1 .. N
  /\ N <= 2^Width
  /\ Max(Modulus) = Width

Field == SUBSET (0 .. Width - 1)
Zero == {}
One == {0}

\* Blocks are functions from their data symbols; a symbol is one element.
Rows == 0 .. N - 1
Columns == 0 .. K - 1
Blocks == [Columns -> Field]

-----------------------------------------------------------------------------
(* The field (external) *)

TimesX(a) == LET s == {i + 1 : i \in a}
             IN IF Width \in s THEN SymDiff(s, Modulus) ELSE s

Times(a, b) ==
  LET power[i \in 0 .. Width - 1] == IF i = 0 THEN a ELSE TimesX(power[i - 1])
  IN FoldSet(LAMBDA i, acc : SymDiff(power[i], acc), Zero, b)

FieldInverse(a) == CHOOSE b \in Field : Times(a, b) = One

\* The element whose bits are those of i exclusive-or j.
XorOf(i, j) == {b \in 0 .. Width - 1 : (i \div 2^b) % 2 # (j \div 2^b) % 2}

-----------------------------------------------------------------------------
(* The matrix *)

\* gf_gen_cauchy1_matrix(): the identity, and a Cauchy matrix under it.
encode_matrix ==
  [i \in Rows |-> [j \in Columns |->
     IF i < K THEN (IF i = j THEN One ELSE Zero) ELSE FieldInverse(XorOf(i, j))]]

\* A row applied to a block: ec_encode_data() for one symbol.
Dot(row, block) ==
  FoldSet(LAMBDA j, acc : SymDiff(Times(row[j], block[j]), acc), Zero, Columns)

\* The symbols a sender makes of a block: its own, and the parity.
Encode(block) == [i \in Rows |-> IF i < K THEN block[i] ELSE Dot(encode_matrix[i], block)]

-----------------------------------------------------------------------------
(* decode() *)

Failed == <<>>

\* The first K present symbols in the order of their indices.
Chosen(present) ==
  {i \in present : Cardinality({j \in present : j < i}) < K}

\* gf_invert_matrix() finds no inverse.
Singular(rows) ==
  \E b \in Blocks : /\ \A i \in rows : Dot(encode_matrix[i], b) = Zero
                    /\ b # [j \in Columns |-> Zero]

\* The inverse applied to the chosen symbols: the block they are made of.
Solve(rows, symbols) ==
  CHOOSE b \in Blocks : \A i \in rows : Dot(encode_matrix[i], b) = symbols[i]

\* present is the set of the symbols that are there; of the others nothing is read.
Decode(symbols, present) ==
  IF Columns \subseteq present THEN [j \in Columns |-> symbols[j]]
  ELSE IF Cardinality(present) < K \/ Singular(Chosen(present)) THEN Failed
  ELSE Solve(Chosen(present), symbols)

-----------------------------------------------------------------------------
(* What a caller relies on *)

\* Any K symbols of a block, or more, give the block back.
AnyKDecode(block) ==
  \A present \in SUBSET Rows :
    Cardinality(present) >= K =>
      Decode([i \in present |-> Encode(block)[i]], present) = block
=============================================================================
