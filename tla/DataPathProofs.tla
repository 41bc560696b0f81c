--------------------------- MODULE DataPathProofs ---------------------------
(***************************************************************************)
(* The invariants of DataPath, for every number and size of the buffers,   *)
(* every N, K and field, and every number of datagrams.                    *)
(*                                                                         *)
(* The argument has two halves.  The first is about one buffer: if it      *)
(* begins with a datagram (Stored) then decode_frame() says "Ok" exactly   *)
(* for the senders' whole frames, whatever an older datagram left behind   *)
(* it (Dispatched).  The second is about the loop: every view it handles   *)
(* shows a buffer that begins with the view's own datagram (ViewsStored),  *)
(* since a batch is not received before the one before it is handled, and  *)
(* what is registered is what was sent (Genuine).                          *)
(*                                                                         *)
(* That any K symbols give the block back is a fact about the matrix over  *)
(* a finite field, which its theorems here take as a hypothesis            *)
(* (AnyKDecode); TLC evaluates it for two fields (MCDataPath).             *)
(***************************************************************************)
EXTENDS DataPath, SequenceTheorems, FiniteSetTheorems, TLAPS

-----------------------------------------------------------------------------
-----------------------------------------------------------------------------
(* Frames: what decode_frame() says of a buffer that a datagram was stored in. *)

\* The first len cells of buf are those of gram, as recvmmsg() stores them.
Stored(buf, len, gram) ==
  /\ DOMAIN buf = 1 .. MAX_DATAGRAM_SIZE
  /\ len = StoredLen(gram)
  /\ \A j \in 1 .. len : buf[j] = gram[j]

Sizes == /\ MaxBody \in Nat /\ MaxBody >= 3
         /\ MAX_DATAGRAM_SIZE \in Nat /\ MAX_DATAGRAM_SIZE >= 7
         /\ RECV_BATCH_SIZE \in Nat \ {0}

\* The sizes, as the assumptions on the constants give them.
LEMMA SizesHold == Sizes
BY PathAssumption, WireAssumption, UdpAssumption DEF Sizes, WIRE_PREFIX_SIZE

\* A frame is its prefix and its body, and every cell is at its place.
LEMMA FrameCells ==
  ASSUME NEW C, NEW body \in Seq(C), Len(body) <= MaxBody
  PROVE  LET g == Frame(body) IN
           /\ Len(g) = 4 + Len(body) /\ Len(g) \in Nat
           /\ g[1] = Magic /\ g[2] = Len(body) /\ g[3] = <<Magic, Len(body)>>
           /\ g[4] = body
           /\ \A i \in 1 .. Len(body) : g[4 + i] = body[i]
<1> DEFINE n == Len(body)
           prefix == <<Magic, n, <<Magic, n>>, body>>
           S == C \cup {Magic, n, <<Magic, n>>, body}
<1>1. n \in Nat
  BY LenProperties
<1>2. Frame(body) = prefix \o body
  BY <1>1, SizesHold DEF Frame, build_frame, Sizes, WIRE_PREFIX_SIZE
<1>3. prefix \in Seq(S) /\ Len(prefix) = 4
      /\ prefix[1] = Magic /\ prefix[2] = n /\ prefix[3] = <<Magic, n>> /\ prefix[4] = body
  OBVIOUS
<1>4. body \in Seq(S)
  BY SeqMonotonic
<1> HIDE DEF prefix, S
<1>5. /\ Len(prefix \o body) = 4 + n
      /\ \A i \in 1 .. 4 + n : (prefix \o body)[i] = IF i <= 4 THEN prefix[i] ELSE body[i - 4]
  <2>1. /\ Len(prefix \o body) = Len(prefix) + Len(body)
        /\ \A i \in 1 .. Len(prefix) + Len(body) :
             (prefix \o body)[i] = IF i <= Len(prefix) THEN prefix[i] ELSE body[i - Len(prefix)]
    <3>1. prefix \in Seq(S)
      BY <1>3
    <3> QED BY <3>1, <1>4, ConcatProperties
  <2> QED BY <1>1, <1>3, <2>1
<1>6. ASSUME NEW i \in 1 .. n
      PROVE  (prefix \o body)[4 + i] = body[i]
  <2>1. 4 + i \in 1 .. 4 + n /\ ~(4 + i <= 4) /\ (4 + i) - 4 = i
    BY <1>1
  <2> QED BY <1>5, <2>1
<1>7. \A i \in 1 .. 4 : (prefix \o body)[i] = prefix[i]
  BY <1>1, <1>5
<1> QED BY <1>1, <1>2, <1>3, <1>5, <1>6, <1>7

\* A frame that fits into the buffer passes every check, and its body comes out.
LEMMA WholeFrame ==
  ASSUME NEW C, NEW body \in Seq(C), Len(body) <= MaxBody,
         4 + Len(body) <= MAX_DATAGRAM_SIZE,
         NEW buf, NEW len, Stored(buf, len, Frame(body))
  PROVE  /\ BodyOf(buf) = body
         /\ decode_frame(buf, len) =
              IF Parses(body) /\ body # <<>> THEN "Ok" ELSE "Unparsable"
<1> DEFINE g == Frame(body)
           n == Len(body)
<1>1. /\ Len(g) = 4 + n
      /\ g[1] = Magic /\ g[2] = n /\ g[3] = <<Magic, n>> /\ g[4] = body
      /\ \A i \in 1 .. n : g[4 + i] = body[i]
  BY FrameCells
<1>2. n \in Nat /\ body \in [1 .. n -> C]
  BY LenProperties
<1> HIDE DEF g
<1>3. len = 4 + n /\ DOMAIN buf = 1 .. MAX_DATAGRAM_SIZE
      /\ \A j \in 1 .. 4 + n : buf[j] = g[j]
  BY <1>1, <1>2, SizesHold DEF Stored, StoredLen, Shorter, Sizes, g
<1>4. /\ buf[1] = Magic /\ buf[2] = n /\ buf[3] = <<Magic, n>> /\ buf[4] = body
      /\ \A i \in 1 .. n : buf[4 + i] = body[i]
  <2>1. \A i \in 1 .. n : 4 + i \in 1 .. 4 + n
    BY <1>2
  <2> QED BY <1>1, <1>2, <1>3, <2>1
<1>5. BodyOf(buf) = body
  <2>1. BodyOf(buf) = [i \in 1 .. (4 + n) - 5 + 1 |->
                         IF 5 + i - 1 \in DOMAIN buf THEN buf[5 + i - 1] ELSE Junk]
    BY <1>4 DEF BodyOf, Cells, WIRE_PREFIX_SIZE
  <2>2. (4 + n) - 5 + 1 = n
    BY <1>2
  <2>3. \A i \in 1 .. n : 5 + i - 1 = 4 + i /\ 4 + i \in DOMAIN buf
    BY <1>2, <1>3, SizesHold DEF Sizes
  <2> QED BY <1>2, <1>4, <2>1, <2>2, <2>3
<1>6. Cells(buf, 1, 2) = <<Magic, n>>
  <2>1. Cells(buf, 1, 2) = [i \in 1 .. 2 |-> IF 1 + i - 1 \in DOMAIN buf THEN buf[1 + i - 1] ELSE Junk]
    BY DEF Cells
  <2>2. \A i \in 1 .. 2 : 1 + i - 1 = i /\ i \in DOMAIN buf
    BY <1>3, SizesHold DEF Sizes
  <2>3. Cells(buf, 1, 2) = [i \in 1 .. 2 |-> buf[i]]
    BY <2>1, <2>2
  <2> QED BY <2>3, <1>4
<1>7. validate_frame_prefix(buf, len) = "Ok"
  BY <1>2, <1>3, <1>4, <1>5, <1>6 DEF validate_frame_prefix, WIRE_PREFIX_SIZE
<1> QED BY <1>5, <1>7 DEF decode_frame

\* What is in the cells of a symbol's frame.
CellsOf(s, v) == {"data", s, v} \cup {Magic, 3, <<Magic, 3>>, DataBody(s, v)}

\* A symbol's frame, cell by cell.
LEMMA SymbolCells ==
  ASSUME NEW s, NEW v
  PROVE  LET d == Frame(DataBody(s, v)) IN
           /\ Len(d) = 7
           /\ d[1] = Magic /\ d[2] = 3 /\ d[3] = <<Magic, 3>> /\ d[4] = <<"data", s, v>>
           /\ d[5] = "data" /\ d[6] = s /\ d[7] = v
           /\ d \in Seq(CellsOf(s, v))
<1> DEFINE body == DataBody(s, v)
           C == {"data", s, v}
           d == Frame(body)
<1>1. body \in Seq(C) /\ Len(body) = 3 /\ body[1] = "data" /\ body[2] = s /\ body[3] = v
  BY DEF DataBody
<1>2. body = <<"data", s, v>>
  BY DEF DataBody
<1> HIDE DEF body, C
<1>3. /\ Len(d) = 4 + Len(body)
      /\ d[1] = Magic /\ d[2] = Len(body) /\ d[3] = <<Magic, Len(body)>> /\ d[4] = body
      /\ \A i \in 1 .. Len(body) : d[4 + i] = body[i]
  BY <1>1, FrameCells, SizesHold DEF Sizes
<1>4. d[5] = "data" /\ d[6] = s /\ d[7] = v
  <2>1. 1 \in 1 .. Len(body) /\ 2 \in 1 .. Len(body) /\ 3 \in 1 .. Len(body)
    BY <1>1
  <2>2. d[4 + 1] = body[1] /\ d[4 + 2] = body[2] /\ d[4 + 3] = body[3]
    BY <1>3, <2>1
  <2> QED BY <1>1, <2>2
<1>6. Len(d) = 7 /\ d[1] = Magic /\ d[2] = 3 /\ d[3] = <<Magic, 3>> /\ d[4] = <<"data", s, v>>
  BY <1>1, <1>2, <1>3
<1>5. d \in Seq(CellsOf(s, v))
  <2> DEFINE prefix == <<Magic, 3, <<Magic, 3>>, body>>
             S == C \cup {Magic, 3, <<Magic, 3>>, body}
  <2>1. d = prefix \o body
    BY <1>1, SizesHold DEF Frame, build_frame, Sizes, WIRE_PREFIX_SIZE
  <2>5. S = CellsOf(s, v)
    BY DEF CellsOf, body, C
  <2>2. prefix \in Seq(S)
    OBVIOUS
  <2>3. body \in Seq(S)
    BY <1>1, SeqMonotonic
  <2> HIDE DEF prefix, S
  <2>4. d \in Seq(S)
    BY <2>1, <2>2, <2>3, ConcatProperties
  <2> QED BY <2>4, <2>5
<1> QED BY <1>4, <1>5, <1>6 DEF body

\* A datagram with another value in one cell.
Changed(d, i, x) == [d EXCEPT ![i] = x]

\* What happens to a symbol's frame on its way is noticed.
LEMMA DamageNoticed ==
  ASSUME NEW s, NEW v, NEW gram \in Damaged(Frame(DataBody(s, v))),
         NEW buf, NEW len, Stored(buf, len, gram)
  PROVE  decode_frame(buf, len) \in {"BadMagic", "CrcFail", "Unparsable"}
<1> DEFINE d == Frame(DataBody(s, v))
<1>1. /\ Len(d) = 7
      /\ d[1] = Magic /\ d[2] = 3 /\ d[3] = <<Magic, 3>> /\ d[4] = <<"data", s, v>>
      /\ d[5] = "data" /\ d[6] = s /\ d[7] = v
  BY SymbolCells
<1> DEFINE U == CellsOf(s, v)
<1>2. d \in Seq(U)
  BY SymbolCells
<1>0. \/ gram = Changed(d, 1, Junk) \/ gram = Changed(d, 2, d[2] - 1)
      \/ gram = Changed(d, 7, SymDiff(d[7], One))
      \/ gram = SubSeq(d, 1, 6) \/ gram = SubSeq(d, 1, 3)
      \/ gram = Frame(SubSeq(d, 5, 7) \o <<Junk>>)
  BY DEF Damaged, Changed
<1> HIDE DEF d, U
<1>3. DOMAIN d = 1 .. 7 /\ d \in [1 .. 7 -> U]
  BY <1>1, <1>2, LenProperties
<1>4. \A i \in 1 .. 7 : \A x :
        gram = Changed(d, i, x) =>
          len = 7 /\ \A j \in 1 .. 7 : buf[j] = IF j = i THEN x ELSE d[j]
  <2> TAKE i \in 1 .. 7
  <2> TAKE x
  <2> HAVE gram = Changed(d, i, x)
  <2>1. d \in Seq(U \cup {x})
    BY <1>2, SeqMonotonic
  <2>2. Len(gram) = 7 /\ \A j \in 1 .. 7 : gram[j] = IF j = i THEN x ELSE d[j]
    BY <2>1, <1>1, ExceptSeq DEF Changed
  <2>3. len = 7
    BY <2>2, SizesHold DEF Stored, StoredLen, Shorter, Sizes
  <2> QED BY <2>2, <2>3 DEF Stored
<1>5. ASSUME NEW n \in 1 .. 6, gram = SubSeq(d, 1, n)
      PROVE  len = n /\ \A j \in 1 .. n : buf[j] = d[j]
  <2>1. Len(gram) = n /\ \A j \in 1 .. n : gram[j] = d[j]
    BY <1>1, <1>2, <1>5
  <2>2. len = n
    BY <2>1, SizesHold DEF Stored, StoredLen, Shorter, Sizes
  <2> QED BY <2>1, <2>2 DEF Stored
<1>6. DOMAIN buf = 1 .. MAX_DATAGRAM_SIZE /\ 1 \in DOMAIN buf /\ 2 \in DOMAIN buf
  BY SizesHold DEF Stored, Sizes
<1>7. Cells(buf, 1, 2) = [i \in 1 .. 2 |-> buf[i]]
  <2>1. Cells(buf, 1, 2) = [i \in 1 .. 2 |-> IF 1 + i - 1 \in DOMAIN buf THEN buf[1 + i - 1] ELSE Junk]
    BY DEF Cells
  <2>2. \A i \in 1 .. 2 : 1 + i - 1 = i /\ i \in DOMAIN buf
    BY <1>6
  <2> QED BY <2>1, <2>2
<1>8. CASE gram = Changed(d, 1, Junk)
  <2>1. buf[1] = Junk
    BY <1>8, <1>4
  <2>2. validate_frame_prefix(buf, len) = "BadMagic"
    BY <2>1, PathAssumption DEF validate_frame_prefix
  <2> QED BY <2>2 DEF decode_frame
<1>9. CASE gram = Changed(d, 2, d[2] - 1)
  <2>1. len = 7 /\ buf[1] = Magic /\ buf[2] = 2 /\ buf[3] = <<Magic, 3>>
    BY <1>9, <1>4, <1>1
  <2>2. Cells(buf, 1, 2) # <<Magic, 3>>
    BY <2>1, <1>7
  <2>3. validate_frame_prefix(buf, len) = "BadHeaderCrc"
    BY <2>1, <2>2 DEF validate_frame_prefix, WIRE_PREFIX_SIZE
  <2> QED BY <2>3 DEF decode_frame
<1>10. CASE gram = Changed(d, 7, SymDiff(d[7], One))
  <2>1. /\ len = 7 /\ buf[1] = Magic /\ buf[2] = 3 /\ buf[3] = <<Magic, 3>>
        /\ buf[4] = <<"data", s, v>> /\ buf[7] = SymDiff(v, One)
    BY <1>10, <1>4, <1>1
  <2>2. SymDiff(v, One) # v
    <3>1. 0 \in One /\ (0 \in SymDiff(v, One) <=> 0 \notin v)
      BY DEF SymDiff, One
    <3> QED BY <3>1
  <2>3. BodyOf(buf)[3] = buf[7]
    <3>1. BodyOf(buf) = [i \in 1 .. 7 - 5 + 1 |->
                           IF 5 + i - 1 \in DOMAIN buf THEN buf[5 + i - 1] ELSE Junk]
      BY <2>1 DEF BodyOf, Cells, WIRE_PREFIX_SIZE
    <3>2. 7 \in DOMAIN buf
      BY SizesHold DEF Stored, Sizes
    <3> QED BY <3>1, <3>2
  <2>4. BodyOf(buf) # buf[4]
    BY <2>1, <2>2, <2>3
  <2>5. validate_frame_prefix(buf, len) \in {"BadHeaderCrc", "BadBodyCrc"}
    BY <2>1, <2>4 DEF validate_frame_prefix, WIRE_PREFIX_SIZE
  <2> QED BY <2>5 DEF decode_frame
<1>11. CASE gram = SubSeq(d, 1, 6)
  <2>1. len = 6 /\ buf[1] = Magic /\ buf[2] = 3
    BY <1>11, <1>5, <1>1
  <2>2. validate_frame_prefix(buf, len) \in {"BadHeaderCrc", "ProtoLenOutOfBounds"}
    BY <2>1 DEF validate_frame_prefix, WIRE_PREFIX_SIZE
  <2> QED BY <2>2 DEF decode_frame
<1>12. CASE gram = SubSeq(d, 1, 3)
  <2>1. len = 3
    BY <1>12, <1>5
  <2>2. validate_frame_prefix(buf, len) = "BadMagic"
    BY <2>1 DEF validate_frame_prefix, WIRE_PREFIX_SIZE
  <2> QED BY <2>2 DEF decode_frame
<1>13. CASE gram = Frame(SubSeq(d, 5, 7) \o <<Junk>>)
  <2> DEFINE C == U \cup {Junk}
             body == SubSeq(d, 5, 7) \o <<Junk>>
  <2>1. body \in Seq(C) /\ Len(body) = 4
    <3>1. SubSeq(d, 5, 7) \in Seq(U) /\ Len(SubSeq(d, 5, 7)) = 3
      <4>1. \A i \in 5 .. 7 : d[i] \in U
        BY <1>3
      <4> QED BY <4>1, SubSeqProperties
    <3>2. SubSeq(d, 5, 7) \in Seq(C) /\ <<Junk>> \in Seq(C) /\ Len(<<Junk>>) = 1
      BY <3>1, SeqMonotonic
    <3> QED BY <3>1, <3>2, ConcatProperties
  <2>0. gram = Frame(body)
    BY <1>13
  <2> HIDE DEF body, C
  <2>2. CASE MaxBody < 4
    <3>1. gram = <<>>
      BY <2>0, <2>1, <2>2 DEF Frame, build_frame
    <3>2. len = 0
      BY <3>1, SizesHold DEF Stored, StoredLen, Shorter, Sizes
    <3>3. validate_frame_prefix(buf, len) = "BadMagic"
      BY <3>2 DEF validate_frame_prefix, WIRE_PREFIX_SIZE
    <3> QED BY <3>3 DEF decode_frame
  <2>3. CASE ~(MaxBody < 4) /\ MAX_DATAGRAM_SIZE >= 8
    <3>1. Len(body) <= MaxBody /\ 4 + Len(body) <= MAX_DATAGRAM_SIZE
      BY <2>1, <2>3, SizesHold DEF Sizes
    <3>2. ~Parses(body)
      <4>1. Len(ManifestBody) = 1 /\ Len(EndBody) = 1 /\ Len(<<>>) = 0
        BY DEF ManifestBody, EndBody
      <4>2. body # <<>> /\ body \notin {ManifestBody, EndBody} /\ Len(body) # 3
        BY <2>1, <4>1
      <4> QED BY <4>2 DEF Parses
    <3>3. decode_frame(buf, len) = IF Parses(body) /\ body # <<>> THEN "Ok" ELSE "Unparsable"
      BY <2>0, <2>1, <3>1, WholeFrame
    <3> QED BY <3>2, <3>3
  <2>4. CASE ~(MaxBody < 4) /\ ~(MAX_DATAGRAM_SIZE >= 8)
    <3>1. Len(body) <= MaxBody
      BY <2>1, <2>4, SizesHold DEF Sizes
    <3>2. Len(gram) = 8 /\ gram[1] = Magic /\ gram[2] = 4
      <4>1. /\ Len(Frame(body)) = 4 + Len(body)
            /\ Frame(body)[1] = Magic /\ Frame(body)[2] = Len(body)
        BY <2>1, <3>1, FrameCells
      <4> QED BY <2>0, <2>1, <4>1
    <3>3. len = 7 /\ buf[1] = Magic /\ buf[2] = 4
      BY <3>2, <2>4, SizesHold DEF Stored, StoredLen, Shorter, Sizes
    <3>4. validate_frame_prefix(buf, len) \in {"BadHeaderCrc", "ProtoLenOutOfBounds"}
      BY <3>3 DEF validate_frame_prefix, WIRE_PREFIX_SIZE
    <3> QED BY <3>4 DEF decode_frame
  <2> QED BY <2>2, <2>3, <2>4
<1> QED BY <1>0, <1>8, <1>9, <1>10, <1>11, <1>12, <1>13


\* The bodies a sender of this protocol puts into a frame.
Bodies == {DataBody(s, Encode(Sent)[s]) : s \in Rows} \cup {ManifestBody, EndBody}

\* No body is longer than a symbol's.
LEMMA BodyShort ==
  ASSUME NEW body \in Bodies PROVE \E C : body \in Seq(C) /\ Len(body) <= 3
<1>1. CASE body \in {ManifestBody, EndBody}
  <2>1. PICK w \in {"manifest", "end"} : body = <<w>>
    BY <1>1 DEF ManifestBody, EndBody
  <2>2. body \in Seq({w}) /\ Len(body) = 1
    BY <2>1
  <2> QED BY <2>2
<1>2. CASE \E s \in Rows : body = DataBody(s, Encode(Sent)[s])
  <2>1. PICK s \in Rows : body = DataBody(s, Encode(Sent)[s])
    BY <1>2
  <2>2. body \in Seq({"data", s, Encode(Sent)[s]}) /\ Len(body) = 3
    BY <2>1 DEF DataBody
  <2> QED BY <2>2
<1> QED BY <1>1, <1>2 DEF Bodies

\* A sender's frame is whole, is taken, and its body is what the sender wrote.
LEMMA ProtocolTaken ==
  ASSUME NEW gram \in Protocol, NEW buf, NEW len, Stored(buf, len, gram)
  PROVE  decode_frame(buf, len) = "Ok" /\ BodyOf(buf) \in Bodies
<1>1. PICK body \in Bodies : gram = Frame(body)
  BY DEF Protocol, SymbolFrame, Bodies
<1>2. Parses(body) /\ body # <<>>
  <2>1. CASE body \in {ManifestBody, EndBody}
    BY <2>1 DEF Parses, ManifestBody, EndBody
  <2>2. CASE \E s \in Rows : body = DataBody(s, Encode(Sent)[s])
    <3>1. PICK s \in Rows : body = DataBody(s, Encode(Sent)[s])
      BY <2>2
    <3>2. Len(body) = 3 /\ body[1] = "data" /\ body[2] = s
      BY <3>1 DEF DataBody
    <3>3. s # Junk
      BY PathAssumption
    <3> QED BY <3>2, <3>3 DEF Parses
  <2> QED BY <2>1, <2>2 DEF Bodies
<1>3. \E C : body \in Seq(C) /\ Len(body) <= 3
  BY BodyShort
<1>4. PICK C : body \in Seq(C) /\ Len(body) <= 3
  BY <1>3
<1>5. Len(body) <= MaxBody /\ 4 + Len(body) <= MAX_DATAGRAM_SIZE
  BY <1>4, LenProperties, SizesHold DEF Sizes
<1>6. /\ BodyOf(buf) = body
      /\ decode_frame(buf, len) = IF Parses(body) /\ body # <<>> THEN "Ok" ELSE "Unparsable"
  BY <1>1, <1>4, <1>5, WholeFrame
<1> QED BY <1>2, <1>6

\* What another program sends is whole at best, and never parses to a member.
LEMMA ForeignRefused ==
  ASSUME NEW gram \in Foreign, NEW buf, NEW len, Stored(buf, len, gram)
  PROVE  decode_frame(buf, len) \in {"BadMagic", "CrcFail", "Unparsable"}
<1>1. CASE gram = Frame(<<>>)
  <2>1. <<>> \in Seq({}) /\ Len(<<>>) = 0
    OBVIOUS
  <2>2. Len(<<>>) <= MaxBody /\ 4 + Len(<<>>) <= MAX_DATAGRAM_SIZE
    BY <2>1, SizesHold DEF Sizes
  <2>3. decode_frame(buf, len) = IF Parses(<<>>) /\ <<>> # <<>> THEN "Ok" ELSE "Unparsable"
    BY <1>1, <2>1, <2>2, WholeFrame
  <2> QED BY <2>3
<1>2. CASE gram = Frame(<<"data", Junk, {}>>)
  <2> DEFINE body == <<"data", Junk, {}>>
             C == {"data", Junk, {}}
  <2>1. body \in Seq(C) /\ Len(body) = 3 /\ body[1] = "data" /\ body[2] = Junk
    OBVIOUS
  <2>2. ~Parses(body)
    BY DEF Parses, ManifestBody, EndBody
  <2> HIDE DEF body, C
  <2>3. Len(body) <= MaxBody /\ 4 + Len(body) <= MAX_DATAGRAM_SIZE
    BY <2>1, SizesHold DEF Sizes
  <2>4. gram = Frame(body)
    BY <1>2 DEF body
  <2>5. decode_frame(buf, len) = IF Parses(body) /\ body # <<>> THEN "Ok" ELSE "Unparsable"
    BY <2>1, <2>3, <2>4, WholeFrame
  <2> QED BY <2>2, <2>5
<1> QED BY <1>1, <1>2 DEF Foreign

\* Where a datagram is from.
LEMMA Origins ==
  ASSUME NEW gram \in Datagrams
  PROVE  \/ gram \in Protocol \/ gram \in Foreign
         \/ \E s \in Copies : gram \in Damaged(SymbolFrame(s))
<1>1. gram \in UNION {Damaged(SymbolFrame(s)) : s \in Copies} =>
        \E s \in Copies : gram \in Damaged(SymbolFrame(s))
  OBVIOUS
<1> QED BY <1>1 DEF Datagrams

\* The frames taken are the protocol's, and each result has its counter.
LEMMA Dispatched ==
  ASSUME NEW gram \in Datagrams, NEW buf, NEW len, Stored(buf, len, gram)
  PROVE  /\ decode_frame(buf, len) \in {"Ok", "BadMagic", "CrcFail", "Unparsable"}
         /\ decode_frame(buf, len) = "Ok" <=> gram \in Protocol
         /\ decode_frame(buf, len) = "Ok" => BodyOf(buf) \in Bodies
<1>1. CASE gram \in Protocol
  BY <1>1, ProtocolTaken
<1>2. CASE gram \in Foreign
  BY <1>2, ProtocolTaken, ForeignRefused
<1>3. CASE \E s \in Copies : gram \in Damaged(SymbolFrame(s))
  <2>1. PICK s \in Copies : gram \in Damaged(Frame(DataBody(s, Encode(Sent)[s])))
    BY <1>3 DEF SymbolFrame
  <2>2. decode_frame(buf, len) \in {"BadMagic", "CrcFail", "Unparsable"}
    BY <2>1, DamageNoticed
  <2> QED BY <2>2, ProtocolTaken
<1>4. gram \in Protocol \/ gram \in Foreign \/ \E s \in Copies : gram \in Damaged(SymbolFrame(s))
  BY Origins
<1> QED BY <1>1, <1>2, <1>3, <1>4

-----------------------------------------------------------------------------
(* The invariant *)

\* What can be in a cell of a buffer.
Values == {Blank} \cup UNION {{gram[j] : j \in 1 .. Len(gram)} : gram \in Datagrams}

Views == [buf : 1 .. RECV_BATCH_SIZE, len : 0 .. MAX_DATAGRAM_SIZE, gram : Datagrams]

\* One buffer of full length for each datagram of a batch.
BuffersTyped == buffers \in [1 .. RECV_BATCH_SIZE -> [1 .. MAX_DATAGRAM_SIZE -> Values]]

\* A batch fits into the buffers, and the loop is in it or just behind it.
BatchTyped ==
  /\ \E n \in 0 .. RECV_BATCH_SIZE : batch \in [1 .. n -> Views] /\ Len(batch) = n
  /\ at \in 1 .. Len(batch) + 1

\* A view shows what was sent: its buffer begins with its own datagram, as far as that fits.
ViewsStored ==
  \A i \in DOMAIN batch :
    batch[i].buf = i /\ Stored(buffers[i], batch[i].len, batch[i].gram)

\* The bound on what is received holds for what is still to be handled, too.
Bounded ==
  /\ handled \in Nat /\ intact \in Nat
  /\ intact <= handled
  /\ handled + (Len(batch) - at) + 1 <= MaxReceived

\* No counter is ahead of the datagrams handled.
Counted ==
  /\ stats \in [Buckets -> Nat]
  /\ stats["Duplicate"] <= stats["Ok"]

PathInv == BuffersTyped /\ BatchTyped /\ ViewsStored /\ Bounded /\ Counted /\ OnlyWholeFramesOk

\* What is registered is the sender's, symbol for symbol; what is decoded is its block.
Genuine ==
  /\ DOMAIN symbols \subseteq Rows
  /\ symbols = [s \in DOMAIN symbols |-> Encode(Sent)[s]]
  /\ block \in {Undecoded, Sent}

\* The network's datagrams have a length.
LEMMA FrameLen ==
  ASSUME NEW C, NEW body \in Seq(C) PROVE Len(Frame(body)) \in Nat
<1>1. Len(body) \in Nat
  BY LenProperties
<1>2. CASE Len(body) <= MaxBody
  <2>1. Len(Frame(body)) = 4 + Len(body)
    BY <1>2, FrameCells
  <2> QED BY <1>1, <2>1
<1>3. CASE ~(Len(body) <= MaxBody)
  <2>1. Frame(body) = <<>>
    BY <1>1, <1>3, SizesHold DEF Frame, build_frame, Sizes
  <2> QED BY <2>1
<1> QED BY <1>2, <1>3

\* Every datagram has a length, damaged and foreign ones too.
LEMMA DatagramLen ==
  ASSUME NEW gram \in Datagrams PROVE Len(gram) \in Nat
<1>1. ASSUME NEW body \in Bodies PROVE Len(Frame(body)) \in Nat
  <2>1. \E C : body \in Seq(C)
    BY <1>1, BodyShort
  <2> QED BY <2>1, FrameLen
<1>2. CASE gram \in Protocol
  <2>1. \E body \in Bodies : gram = Frame(body)
    BY <1>2 DEF Protocol, SymbolFrame, Bodies
  <2> QED BY <1>1, <2>1
<1>3. CASE gram \in Foreign
  <2>1. <<>> \in Seq({}) /\ <<"data", Junk, {}>> \in Seq({"data", Junk, {}})
    OBVIOUS
  <2>2. Len(Frame(<<>>)) \in Nat
    BY <2>1, FrameLen
  <2>3. Len(Frame(<<"data", Junk, {}>>)) \in Nat
    BY <2>1, FrameLen
  <2> QED BY <1>3, <2>2, <2>3 DEF Foreign
<1>4. CASE \E s \in Copies : gram \in Damaged(SymbolFrame(s))
  <2>1. PICK s \in Copies : gram \in Damaged(Frame(DataBody(s, Encode(Sent)[s])))
    BY <1>4 DEF SymbolFrame
  <2> DEFINE d == Frame(DataBody(s, Encode(Sent)[s]))
             U == CellsOf(s, Encode(Sent)[s])
  <2>2. d \in Seq(U) /\ Len(d) = 7
    BY SymbolCells
  <2>3. \/ gram = Changed(d, 1, Junk) \/ gram = Changed(d, 2, d[2] - 1)
        \/ gram = Changed(d, 7, SymDiff(d[7], One))
        \/ gram = SubSeq(d, 1, 6) \/ gram = SubSeq(d, 1, 3)
        \/ gram = Frame(SubSeq(d, 5, 7) \o <<Junk>>)
    BY <2>1 DEF Damaged, Changed
  <2> HIDE DEF d, U
  <2>4. ASSUME NEW i \in 1 .. 7, NEW x PROVE Len(Changed(d, i, x)) \in Nat
    <3>1. d \in Seq(U \cup {x})
      BY <2>2, SeqMonotonic
    <3> QED BY <2>2, <3>1, ExceptSeq DEF Changed
  <2>5. \A i \in 1 .. 7 : d[i] \in U
    BY <2>2, LenProperties
  <2>6. ASSUME NEW n \in 1 .. 7 PROVE Len(SubSeq(d, 1, n)) \in Nat
    <3>1. \A i \in 1 .. n : d[i] \in U
      BY <2>5
    <3> QED BY <3>1, SubSeqProperties
  <2>7. Len(Frame(SubSeq(d, 5, 7) \o <<Junk>>)) \in Nat
    <3>1. \A i \in 5 .. 7 : d[i] \in U
      BY <2>5
    <3>2. SubSeq(d, 5, 7) \in Seq(U)
      BY <3>1, SubSeqProperties
    <3>3. SubSeq(d, 5, 7) \in Seq(U \cup {Junk}) /\ <<Junk>> \in Seq(U \cup {Junk})
      BY <3>2, SeqMonotonic
    <3>4. SubSeq(d, 5, 7) \o <<Junk>> \in Seq(U \cup {Junk})
      BY <3>3, ConcatProperties
    <3> QED BY <3>4, FrameLen
  <2> QED BY <2>3, <2>4, <2>6, <2>7
<1>5. gram \in Protocol \/ gram \in Foreign \/ \E s \in Copies : gram \in Damaged(SymbolFrame(s))
  BY Origins
<1> QED BY <1>2, <1>3, <1>4, <1>5

\* A buffer that is written over begins with the datagram, and keeps its length.
LEMMA WrittenOver ==
  ASSUME NEW buf \in [1 .. MAX_DATAGRAM_SIZE -> Values], NEW gram \in Datagrams
  PROVE  /\ Overwritten(buf, gram) \in [1 .. MAX_DATAGRAM_SIZE -> Values]
         /\ StoredLen(gram) \in 0 .. MAX_DATAGRAM_SIZE
         /\ Stored(Overwritten(buf, gram), StoredLen(gram), gram)
<1>1. Len(gram) \in Nat
  BY DatagramLen
<1>2. ASSUME NEW j \in 1 .. MAX_DATAGRAM_SIZE, j <= Len(gram) PROVE gram[j] \in Values
  <2>1. j \in 1 .. Len(gram)
    BY <1>1, <1>2
  <2> QED BY <2>1 DEF Values
<1>3. StoredLen(gram) \in 0 .. MAX_DATAGRAM_SIZE /\ StoredLen(gram) <= Len(gram)
  BY <1>1, SizesHold DEF StoredLen, Shorter, Sizes
<1>4. Overwritten(buf, gram) \in [1 .. MAX_DATAGRAM_SIZE -> Values]
  BY <1>2 DEF Overwritten
<1>5. \A j \in 1 .. StoredLen(gram) : Overwritten(buf, gram)[j] = gram[j]
  <2>1. \A j \in 1 .. StoredLen(gram) : j \in 1 .. MAX_DATAGRAM_SIZE /\ j <= Len(gram)
    BY <1>1, <1>3, SizesHold DEF Sizes
  <2> QED BY <2>1 DEF Overwritten
<1> QED BY <1>3, <1>4, <1>5 DEF Stored

\* After bind() nothing is received, counted or registered.
LEMMA InitPath == Init => PathInv /\ Genuine
<1> SUFFICES ASSUME Init PROVE PathInv /\ Genuine
  OBVIOUS
<1> USE DEF Init, Bind
<1>1. BuffersTyped
  BY DEF BuffersTyped, Values
<1>2. batch = <<>> /\ Len(batch) = 0 /\ DOMAIN batch = {} /\ at = 1
  OBVIOUS
<1>3. BatchTyped
  <2>1. 0 \in 0 .. RECV_BATCH_SIZE /\ batch \in [1 .. 0 -> Views]
    BY <1>2, SizesHold DEF Sizes
  <2> QED BY <1>2, <2>1 DEF BatchTyped
<1>4. ViewsStored
  BY <1>2 DEF ViewsStored
<1>5. Bounded
  BY <1>2, PathAssumption DEF Bounded
<1>6. Counted /\ OnlyWholeFramesOk
  BY DEF Counted, OnlyWholeFramesOk, Buckets
<1>7. Genuine
  BY DEF Genuine
<1> QED BY <1>1, <1>3, <1>4, <1>5, <1>6, <1>7 DEF PathInv

\* A batch is stored buffer by buffer, over whatever the one before left.
LEMMA ReceivePath == ASSUME PathInv, Receive PROVE PathInv'
<1> USE DEF PathInv
<1>1. PICK n \in 0 .. RECV_BATCH_SIZE :
        /\ handled + n <= MaxReceived
        /\ \E grams \in [1 .. n -> Datagrams] : ReceiveBatch(grams)
  BY DEF Receive
<1>2. PICK grams \in [1 .. n -> Datagrams] : ReceiveBatch(grams)
  BY <1>1
<1>3. DOMAIN grams = 1 .. n /\ n \in Nat /\ \A i \in 1 .. n : i \in 1 .. RECV_BATCH_SIZE
  BY SizesHold DEF Sizes
<1>4. batch' = [i \in 1 .. n |-> [buf |-> i, len |-> StoredLen(grams[i]), gram |-> grams[i]]]
  BY <1>2, <1>3 DEF ReceiveBatch
<1>5. \A i \in 1 .. RECV_BATCH_SIZE :
        buffers'[i] = IF i \in 1 .. n THEN Overwritten(buffers[i], grams[i]) ELSE buffers[i]
  BY <1>2, <1>3 DEF ReceiveBatch, BuffersTyped
<1>6. DOMAIN buffers' = 1 .. RECV_BATCH_SIZE
      /\ buffers' = [i \in DOMAIN buffers' |-> buffers'[i]]
  BY <1>2 DEF ReceiveBatch, BuffersTyped
<1>7. \A i \in 1 .. n : /\ buffers'[i] = Overwritten(buffers[i], grams[i])
                        /\ buffers'[i] \in [1 .. MAX_DATAGRAM_SIZE -> Values]
                        /\ StoredLen(grams[i]) \in 0 .. MAX_DATAGRAM_SIZE
                        /\ Stored(buffers'[i], StoredLen(grams[i]), grams[i])
  BY <1>3, <1>5, WrittenOver DEF BuffersTyped
<1>8. BuffersTyped'
  BY <1>5, <1>6, <1>7 DEF BuffersTyped
<1>9. batch' \in [1 .. n -> Views] /\ Len(batch') = n /\ DOMAIN batch' = 1 .. n
  BY <1>3, <1>4, <1>7 DEF Views
<1>10. BatchTyped'
  BY <1>3, <1>9 DEF BatchTyped, Receive
<1>11. ViewsStored'
  BY <1>4, <1>7, <1>9 DEF ViewsStored
<1>12. Bounded'
  BY <1>1, <1>3, <1>9, PathAssumption DEF Bounded, Receive
<1>13. Counted' /\ OnlyWholeFramesOk'
  BY DEF Counted, OnlyWholeFramesOk, Receive
<1> QED BY <1>8, <1>10, <1>11, <1>12, <1>13

\* What the loop looks at next, and what it makes of it.
LEMMA Looks ==
  ASSUME PathInv, Handling
  PROVE  /\ at \in DOMAIN batch /\ View.gram \in Datagrams
         /\ Result \in {"Ok", "BadMagic", "CrcFail", "Unparsable"}
         /\ Result = "Ok" <=> View.gram \in Protocol
         /\ Result = "Ok" => Body \in Bodies
<1> USE DEF PathInv
<1>1. PICK n \in 0 .. RECV_BATCH_SIZE : batch \in [1 .. n -> Views] /\ Len(batch) = n
  BY DEF BatchTyped
<1>2. at \in 1 .. n /\ at \in DOMAIN batch
  BY <1>1, SizesHold DEF BatchTyped, Handling, Sizes
<1>3. View.buf = at /\ Stored(buffers[View.buf], View.len, View.gram)
  BY <1>2 DEF View, ViewsStored
<1>4. View.gram \in Datagrams
  BY <1>1, <1>2 DEF View, Views
<1> QED BY <1>2, <1>3, <1>4, Dispatched DEF Result, Body

\* A datagram handled is counted once under its result, and as intact if it was.
LEMMA HandlePath ==
  ASSUME PathInv, NextDatagram, NEW twice \in BOOLEAN, twice => Result = "Ok",
         stats' = [c \in Buckets |->
                     IF c = Result \/ (c = "Duplicate" /\ twice) THEN stats[c] + 1 ELSE stats[c]]
  PROVE  PathInv'
<1> USE DEF PathInv, NextDatagram
<1>1. /\ at \in DOMAIN batch /\ View.gram \in Datagrams
      /\ Result \in {"Ok", "BadMagic", "CrcFail", "Unparsable"}
      /\ Result = "Ok" <=> View.gram \in Protocol
  BY Looks
<1>2. BuffersTyped' /\ ViewsStored'
  BY DEF BuffersTyped, ViewsStored
<1>3. Len(batch) \in Nat /\ at \in Nat /\ at <= Len(batch)
  BY SizesHold DEF BatchTyped, Handling, Sizes
<1>4. BatchTyped'
  BY <1>3 DEF BatchTyped
<1>5. Bounded'
  BY <1>3, PathAssumption DEF Bounded
<1>6. stats' \in [Buckets -> Nat]
  BY DEF Counted
<1>7. \A c \in Buckets : stats[c] \in Nat
  BY DEF Counted
<1>8. \A c \in Buckets : stats'[c] = IF c = Result \/ (c = "Duplicate" /\ twice)
                                       THEN stats[c] + 1 ELSE stats[c]
  OBVIOUS
<1>9. /\ stats'["Ok"] = stats["Ok"] + (IF Result = "Ok" THEN 1 ELSE 0)
      /\ stats'["BadMagic"] = stats["BadMagic"] + (IF Result = "BadMagic" THEN 1 ELSE 0)
      /\ stats'["CrcFail"] = stats["CrcFail"] + (IF Result = "CrcFail" THEN 1 ELSE 0)
      /\ stats'["Unparsable"] = stats["Unparsable"] + (IF Result = "Unparsable" THEN 1 ELSE 0)
      /\ stats'["Duplicate"] = stats["Duplicate"] + (IF twice THEN 1 ELSE 0)
  <2>1. ASSUME NEW c \in {"Ok", "BadMagic", "CrcFail", "Unparsable"}
        PROVE  stats'[c] = stats[c] + (IF Result = c THEN 1 ELSE 0)
    <3>1. c \in Buckets /\ c # "Duplicate"
      BY DEF Buckets
    <3>2. stats[c] \in Nat /\ stats'[c] = IF c = Result THEN stats[c] + 1 ELSE stats[c]
      BY <1>7, <1>8, <3>1
    <3> QED BY <3>2
  <2>2. stats'["Duplicate"] = stats["Duplicate"] + (IF twice THEN 1 ELSE 0)
    <3>1. "Duplicate" \in Buckets /\ "Duplicate" # Result
      BY <1>1 DEF Buckets
    <3>2. /\ stats["Duplicate"] \in Nat
          /\ stats'["Duplicate"] = IF twice THEN stats["Duplicate"] + 1 ELSE stats["Duplicate"]
      BY <1>7, <1>8, <3>1
    <3> QED BY <3>2
  <2> QED BY <2>1, <2>2
<1>10. Counted'
  BY <1>6, <1>9, <1>7 DEF Counted, Buckets
<1>11. intact' = intact + (IF Result = "Ok" THEN 1 ELSE 0) /\ handled' = handled + 1
  BY <1>1 DEF Bounded
<1>12. OnlyWholeFramesOk'
  <2>1. {stats["Ok"], stats["BadMagic"], stats["CrcFail"], stats["Unparsable"]} \subseteq Nat
    BY <1>7 DEF Buckets
  <2>2. handled \in Nat /\ intact \in Nat
    BY DEF Bounded
  <2> QED BY <1>1, <1>9, <1>11, <2>1, <2>2 DEF OnlyWholeFramesOk
<1> QED BY <1>2, <1>4, <1>5, <1>10, <1>12

\* A datagram that is no duplicate is counted under its result only.
LEMMA CountedOnce ==
  ASSUME PathInv, NextDatagram, Count({Result}) PROVE PathInv'
<1>1. stats' = [c \in Buckets |->
                  IF c = Result \/ (c = "Duplicate" /\ FALSE) THEN stats[c] + 1 ELSE stats[c]]
  BY DEF Count
<1> QED BY <1>1, HandlePath

\* A duplicate is an intact frame, and has a counter of its own.
LEMMA CountedTwice ==
  ASSUME PathInv, NextDatagram, Result = "Ok", Count({"Ok", "Duplicate"}) PROVE PathInv'
<1>1. stats' = [c \in Buckets |->
                  IF c = Result \/ (c = "Duplicate" /\ TRUE) THEN stats[c] + 1 ELSE stats[c]]
  BY DEF Count
<1> QED BY <1>1, HandlePath

\* Every step keeps the invariant of buffers, views and counters.
LEMMA NextPath == ASSUME PathInv, [Next]_vars PROVE PathInv'
<1>1. CASE Receive
  BY <1>1, ReceivePath
<1>2. CASE Refused
  BY <1>2, CountedOnce DEF Refused
<1>3. CASE OtherFrame
  <2>1. Count({Result})
    BY <1>3 DEF OtherFrame
  <2> QED BY <1>3, <2>1, CountedOnce DEF OtherFrame
<1>4. CASE DuplicateSymbol
  BY <1>4, CountedTwice DEF DuplicateSymbol
<1>5. CASE NewSymbol
  <2>1. Count({Result})
    BY <1>5 DEF NewSymbol
  <2> QED BY <1>5, <2>1, CountedOnce DEF NewSymbol
<1>6. CASE \E s \in Rows : OtherRegisters(s)
  BY <1>6 DEF OtherRegisters, PathInv, BuffersTyped, BatchTyped, ViewsStored, Bounded,
              Counted, OnlyWholeFramesOk
<1>7. CASE UNCHANGED vars
  BY <1>7 DEF vars, path, PathInv, BuffersTyped, BatchTyped, ViewsStored, Bounded,
              Counted, OnlyWholeFramesOk
<1> QED BY <1>1, <1>2, <1>3, <1>4, <1>5, <1>6, <1>7 DEF Next

\* The invariant of buffers, views and counters holds always.
LEMMA PathSpec == Spec => []PathInv
<1>1. Init => PathInv
  BY InitPath
<1>2. PathInv /\ [Next]_vars => PathInv'
  BY NextPath
<1> QED BY <1>1, <1>2, PTL DEF Spec

\* A symbol more of the sender's is the sender's still, whoever registers it.
LEMMA Registered ==
  ASSUME Genuine, NEW s \in Rows, symbols' = With(s, Encode(Sent)[s])
  PROVE  /\ DOMAIN symbols' = DOMAIN symbols \cup {s} /\ DOMAIN symbols' \subseteq Rows
         /\ symbols' = [i \in DOMAIN symbols' |-> Encode(Sent)[i]]
BY DEF Genuine, With

\* What is handed to the block is a symbol of the sender's, in its own place.
LEMMA NextGenuine ==
  ASSUME AnyKDecode(Sent), PathInv, Genuine, [Next]_vars PROVE Genuine'
<1>1. CASE NewSymbol
  <2>1. Result = "Ok" /\ Body \in Bodies
    BY <1>1, Looks DEF NewSymbol, NextDatagram
  <2>2. PICK s \in Rows : Body = DataBody(s, Encode(Sent)[s])
    BY <1>1, <2>1 DEF NewSymbol, Bodies, ManifestBody, EndBody
  <2>3. symbols' = With(s, Encode(Sent)[s])
    BY <1>1, <2>2 DEF NewSymbol, DataBody
  <2>4. /\ DOMAIN symbols' \subseteq Rows
        /\ symbols' = [i \in DOMAIN symbols' |-> Encode(Sent)[i]]
    BY <2>3, Registered
  <2>5. CASE Cardinality(DOMAIN symbols') >= K
    <3>1. block' = Decode(symbols', DOMAIN symbols')
      BY <1>1, <2>5 DEF NewSymbol
    <3>2. Decode([i \in DOMAIN symbols' |-> Encode(Sent)[i]], DOMAIN symbols') = Sent
      BY <2>4, <2>5 DEF AnyKDecode
    <3>3. block' = Sent
      BY <2>4, <3>1, <3>2
    <3> QED BY <2>4, <3>3 DEF Genuine
  <2>6. CASE ~(Cardinality(DOMAIN symbols') >= K)
    BY <1>1, <2>4, <2>6 DEF Genuine, NewSymbol
  <2> QED BY <2>5, <2>6
<1>2. CASE \E s \in Rows : OtherRegisters(s)
  <2>1. PICK s \in Rows : OtherRegisters(s)
    BY <1>2
  <2> QED BY <2>1, Registered DEF OtherRegisters, Genuine
<1>3. CASE UNCHANGED path
  BY <1>3 DEF path, Genuine
<1>4. CASE Receive \/ Refused \/ OtherFrame \/ DuplicateSymbol
  BY <1>3, <1>4 DEF Receive, Refused, OtherFrame, DuplicateSymbol
<1>5. CASE UNCHANGED vars
  BY <1>3, <1>5 DEF vars, path
<1> QED BY <1>1, <1>2, <1>4, <1>5 DEF Next

\* With a codec that decodes the sent block, both invariants hold always.
LEMMA GenuineSpec ==
  ASSUME AnyKDecode(Sent) PROVE Spec => [](PathInv /\ Genuine)
<1>1. Init => PathInv /\ Genuine
  BY InitPath
<1>2. PathInv /\ Genuine /\ [Next]_vars => (PathInv /\ Genuine)'
  BY NextPath, NextGenuine
<1> QED BY <1>1, <1>2, PTL DEF Spec

-----------------------------------------------------------------------------
(* The theorems *)

\* Exactly the senders' whole frames are counted as ok, and every datagram once, for all
\* sizes and numbers of buffers: what an older datagram left behind a short one is never
\* taken for a part of it (receive_batch(), decode_frame(), the loop's counters).
THEOREM WholeFramesOnly == Spec => []OnlyWholeFramesOk
<1>1. PathInv => OnlyWholeFramesOk
  BY DEF PathInv
<1> QED BY <1>1, PathSpec, PTL

\* With a codec that gives the sent block back from any K of its symbols, every variable
\* of the path from the socket to the decoded block keeps its type.
THEOREM PathTypeCorrect == ASSUME AnyKDecode(Sent) PROVE Spec => []TypeOK
<1>1. PathInv /\ Genuine => TypeOK
  <2> SUFFICES ASSUME PathInv, Genuine PROVE TypeOK
    OBVIOUS
  <2> USE DEF PathInv
  <2>1. DOMAIN buffers = 1 .. RECV_BATCH_SIZE
        /\ \A i \in DOMAIN buffers : Len(buffers[i]) = MAX_DATAGRAM_SIZE
    <3>1. ASSUME NEW f \in [1 .. MAX_DATAGRAM_SIZE -> Values] PROVE Len(f) = MAX_DATAGRAM_SIZE
      <4>1. MAX_DATAGRAM_SIZE \in Nat
        BY SizesHold DEF Sizes
      <4> QED BY <4>1
    <3> QED BY <3>1 DEF BuffersTyped
  <2>2. PICK n \in 0 .. RECV_BATCH_SIZE : batch \in [1 .. n -> Views] /\ Len(batch) = n
    BY DEF BatchTyped
  <2>3. \A i \in DOMAIN batch : /\ batch[i].buf = i
                                /\ batch[i].len \in 0 .. MAX_DATAGRAM_SIZE
                                /\ batch[i].gram \in Datagrams
    BY <2>2 DEF ViewsStored, Views
  <2>4. Len(batch) <= RECV_BATCH_SIZE /\ at \in 1 .. RECV_BATCH_SIZE + 1
    BY <2>2, SizesHold DEF BatchTyped, Sizes
  <2>5. handled <= MaxReceived /\ intact <= handled
    BY <2>2, PathAssumption, SizesHold DEF BatchTyped, Bounded, Sizes
  <2>6. {intact, handled} \subseteq 0 .. MaxReceived
    BY <2>5, PathAssumption DEF Bounded
  <2>7. ASSUME NEW c \in Buckets PROVE stats[c] \in 0 .. MaxReceived
    <3>1. {stats["Ok"], stats["BadMagic"], stats["CrcFail"], stats["Unparsable"],
           stats["Duplicate"], stats[c]} \subseteq Nat
      BY DEF Counted, Buckets
    <3>2. stats[c] <= handled
      BY <3>1 DEF Counted, Buckets, OnlyWholeFramesOk, Bounded
    <3> QED BY <3>1, <3>2, <2>5, PathAssumption DEF Bounded
  <2>8. stats \in [Buckets -> 0 .. MaxReceived]
    BY <2>7 DEF Counted
  <2>9. block = Undecoded \/ block \in Blocks
    BY PathAssumption DEF Genuine
  <2> QED BY <2>1, <2>3, <2>4, <2>6, <2>8, <2>9 DEF TypeOK, Genuine
<1> QED BY <1>1, GenuineSpec, PTL

\* With such a codec, what is decoded is what was sent, whatever the network damages,
\* repeats, reorders or loses, and whichever other receivers register symbols too
\* (handle_data_packet() over decode_frame() over receive_batch()).
THEOREM DecodesWhatWasSent == ASSUME AnyKDecode(Sent) PROVE Spec => []DecodedIsSent
<1>1. PathInv /\ Genuine => DecodedIsSent
  BY DEF Genuine, DecodedIsSent
<1> QED BY <1>1, GenuineSpec, PTL
=============================================================================
