---------------------- MODULE ContentPacketLength_proofs ----------------------
(***************************************************************************)
(* Proofs about the length field of a content packet, for every width of   *)
(* the integers, every header and every payload: the model checker tries   *)
(* six bits only.                                                          *)
(***************************************************************************)
EXTENDS ContentPacketLength, TLAPS

-----------------------------------------------------------------------------
(* Remainders, of which the solver finds little if the divisor is not a    *)
(* number.                                                                 *)

\* A number written as a multiple plus a small rest has that remainder.
LEMMA RemainderIs ==
  ASSUME NEW i \in Nat, NEW B \in Nat \ {0}, NEW q \in Int,
         NEW r \in 0 .. B - 1, i = B * q + r
  PROVE  i % B = r
<1>1. PICK p \in Int, s \in 0 .. B - 1 : s = i % B /\ i = B * p + s
  <2>1. /\ i \div B \in Int /\ i % B \in 0 .. B - 1
        /\ i = B * (i \div B) + (i % B)
    OBVIOUS
  <2> QED BY <2>1
<1>2. B * q + r = B * p + s BY <1>1
<1>3. CASE q >= p + 1
  <2>1. PICK k \in Nat : q = p + 1 + k BY <1>3
  <2>2. B * q = B * p + B + B * k /\ B * k >= 0 BY <2>1
  <2> QED BY <1>2, <2>2, B * q \in Int, B * p \in Int, B * k \in Int
<1>4. CASE p >= q + 1
  <2>1. PICK k \in Nat : p = q + 1 + k BY <1>4
  <2>2. B * p = B * q + B + B * k /\ B * k >= 0 BY <2>1
  <2> QED BY <1>2, <2>2, B * q \in Int, B * p \in Int, B * k \in Int
<1>5. CASE q = p
  <2>1. PICK z \in Int : z = B * q OBVIOUS
  <2>2. z + r = z + s BY <1>2, <1>5, <2>1
  <2> QED BY <1>1, <2>2
<1> QED BY <1>3, <1>4, <1>5

\* A product stays below a bound as long as the factor stays below the
\* quotient.
LEMMA ProductBelowQuotient ==
  ASSUME NEW m \in Nat, NEW B \in Nat \ {0}, NEW n \in Nat, n < m \div B
  PROVE  n * B + B <= m
<1>1. PICK q \in Int : q = m \div B /\ m >= B * q
  OBVIOUS
<1>2. PICK k \in Nat : q = n + 1 + k BY <1>1
<1>3. B * q = n * B + B + B * k BY <1>2
<1>4. B * k >= 0 BY <1>2
<1> QED BY <1>1, <1>3, <1>4, n * B \in Int, B * k \in Int, B * q \in Int

\* A quotient is at least one if the divisor is not the larger of the two.
LEMMA QuotientPositive ==
  ASSUME NEW m \in Nat, NEW B \in Nat \ {0}, B <= m
  PROVE  m \div B >= 1
OBVIOUS

-----------------------------------------------------------------------------
(* The inductive invariant.                                                *)

\* The field holds what prepare put there, with some multiple.
FieldEncodesPayload ==
  \E n \in Nat :
    length_plus = Encoded(payload_words, n, RemainingWords(packet_len))

PacketInv ==
  /\ packet_len >= Header
  /\ payload_words <= RemainingWords(packet_len)
  /\ stage = "prepared" => FieldEncodesPayload

IInv ==
  /\ TypeOK
  /\ FieldFitsU32
  /\ DrawNeverPanics
  /\ RoundTrip
  /\ SliceInPacket
  /\ stage \in {"idle", "prepared", "altered"} => decoded_words = 0
  /\ stage \in {"prepared", "altered"} => PacketInv

\* A draw below the limit keeps the sum within u32.
LEMMA EncodedFits ==
  ASSUME NEW words \in Nat, NEW remaining \in Nat, NEW n \in Nat,
         words <= U32Max, n < DrawLimit(words, remaining)
  PROVE  /\ Encoded(words, n, remaining) \in Nat
         /\ Encoded(words, n, remaining) <= U32Max
<1>1. U32Max - words \in Nat BY LengthAssumption
<1>2. remaining + 1 \in Nat \ {0} OBVIOUS
<1>3. n * (remaining + 1) + (remaining + 1) <= U32Max - words
  BY <1>1, <1>2, ProductBelowQuotient DEF DrawLimit
<1>4. n * (remaining + 1) \in Nat OBVIOUS
<1> QED BY <1>3, <1>4, LengthAssumption DEF Encoded

\* decode inverts the encoding when the words fit.
LEMMA DecodedInverts ==
  ASSUME NEW words \in Nat, NEW remaining \in Nat, NEW n \in Nat,
         words <= remaining
  PROVE  Decoded(Encoded(words, n, remaining), remaining) = words
<1> DEFINE B == remaining + 1
           x == Encoded(words, n, remaining)
<1>1. B \in Nat \ {0} /\ words \in 0 .. B - 1 OBVIOUS
<1>2. n * B \in Nat BY <1>1
<1>3. x \in Nat BY <1>2 DEF Encoded
<1>4. x = B * n + words BY <1>1, <1>2 DEF Encoded
<1>5. x % B = words BY <1>1, <1>3, <1>4, RemainderIs
<1>6. 1 + remaining = B OBVIOUS
<1> QED BY <1>5, <1>6 DEF Decoded

\* What decode takes out of any field fits the packet.
LEMMA DecodedFits ==
  ASSUME NEW field \in Nat, NEW len \in Nat, len >= Header
  PROVE  LET d == Decoded(field, RemainingWords(len))
         IN d \in Nat /\ Header + d * 4 <= len
<1>1. /\ RemainingWords(len) \in Nat
      /\ RemainingWords(len) * 4 <= len - Header
  BY LengthAssumption DEF RemainingWords
<1>2. Decoded(field, RemainingWords(len)) \in 0 .. RemainingWords(len)
  BY <1>1 DEF Decoded
<1> QED BY <1>1, <1>2, LengthAssumption

LEMMA InitIInv == Init => IInv
BY LengthAssumption
   DEF Init, IInv, TypeOK, Stages, FieldFitsU32, DrawNeverPanics, RoundTrip,
       SliceInPacket

LEMMA PrepareKeepsIInv ==
  ASSUME IInv, NEW payload_length \in 0 .. MaxPayload, Prepare(payload_length)
  PROVE  IInv'
<1> DEFINE len       == payload_length + Header + Slack
           words     == payload_length \div 4
           remaining == RemainingWords(len)
           limit     == DrawLimit(words, remaining)
<1>1. /\ len \in Nat /\ len >= Header
      /\ words \in Nat /\ words * 4 = payload_length
      /\ remaining \in Nat /\ remaining * 4 <= payload_length + Slack
      /\ words <= remaining
      /\ payload_length + Slack <= U32Max
  BY LengthAssumption DEF Prepare, Prepares, FitsU32, RemainingWords
<1>2. limit >= 1 /\ limit \in Int
  <2>1. /\ U32Max - words \in Nat
        /\ remaining + 1 \in Nat \ {0}
        /\ remaining + 1 <= U32Max - words
    BY <1>1, LengthAssumption
  <2> QED BY <2>1, QuotientPositive DEF DrawLimit
<1>3. /\ stage = "idle"
      /\ stage' = "prepared"
      /\ packet_len' = len
      /\ payload_words' = words
      /\ decoded_words' = decoded_words
  BY <1>2 DEF Prepare
<1>4. PICK n \in 0 .. limit - 1 : length_plus' = Encoded(words, n, remaining)
  BY <1>2 DEF Prepare
<1>5. n \in Nat /\ n < limit BY <1>2, <1>4
<1>6. words <= U32Max BY <1>1, LengthAssumption
<1>7. length_plus' \in Nat /\ length_plus' <= U32Max
  BY <1>1, <1>4, <1>5, <1>6, EncodedFits
<1>8. decoded_words = 0 BY <1>3 DEF IInv
<1>9. TypeOK'
  BY <1>1, <1>3, <1>7, <1>8 DEF TypeOK, Stages
<1>10. PacketInv'
  BY <1>1, <1>3, <1>4, <1>5 DEF PacketInv, FieldEncodesPayload
<1> QED
  BY <1>3, <1>7, <1>8, <1>9, <1>10, LengthAssumption
     DEF IInv, FieldFitsU32, DrawNeverPanics, RoundTrip, SliceInPacket

LEMMA DecodeKeepsIInv ==
  ASSUME IInv, Decode
  PROVE  IInv'
<1> DEFINE remaining == RemainingWords(packet_len)
           d         == Decoded(length_plus, remaining)
<1>1. /\ PacketInv
      /\ stage \in {"prepared", "altered"}
      /\ decoded_words = 0
      /\ UNCHANGED <<packet_len, length_plus, payload_words>>
  BY DEF Decode, IInv
<1>2. /\ packet_len \in Nat /\ length_plus \in Nat /\ payload_words \in Nat
      /\ length_plus <= U32Max /\ packet_len >= Header
  BY <1>1 DEF IInv, TypeOK, FieldFitsU32, PacketInv
<1>3. CASE ~ FitsU32(packet_len)
  <2>1. stage' = "dropped" /\ decoded_words' = 0
    BY <1>1, <1>3 DEF Decode
  <2> QED
    BY <1>1, <1>2, <2>1, LengthAssumption
       DEF IInv, TypeOK, Stages, FieldFitsU32, DrawNeverPanics, RoundTrip,
           SliceInPacket
<1>4. CASE FitsU32(packet_len)
  <2>1. /\ decoded_words' = d
        /\ stage' = IF stage = "prepared" THEN "decoded" ELSE "misread"
    BY <1>4 DEF Decode
  <2>2. d \in Nat /\ Header + d * 4 <= packet_len
    BY <1>2, DecodedFits
  <2>3. d * 4 <= U32Max
    BY <1>2, <1>4, <2>2, LengthAssumption DEF FitsU32
  <2>4. RoundTrip'
    <3>1. CASE stage = "prepared"
      <4>1. PICK n \in Nat :
              length_plus = Encoded(payload_words, n, remaining)
        BY <1>1, <3>1 DEF PacketInv, FieldEncodesPayload
      <4>2. payload_words <= remaining BY <1>1 DEF PacketInv
      <4>3. remaining \in Nat BY <1>2, LengthAssumption DEF RemainingWords
      <4>4. d = payload_words BY <1>2, <4>1, <4>2, <4>3, DecodedInverts
      <4> QED BY <1>1, <2>1, <4>4 DEF RoundTrip
    <3>2. CASE stage # "prepared" BY <2>1, <3>2 DEF RoundTrip
    <3> QED BY <3>1, <3>2
  <2>5. stage' \in {"decoded", "misread"} BY <2>1
  <2> QED
    BY <1>1, <1>2, <2>1, <2>2, <2>3, <2>4, <2>5
       DEF IInv, TypeOK, Stages, FieldFitsU32, DrawNeverPanics, SliceInPacket
<1> QED BY <1>3, <1>4

LEMMA Invariance == Spec => []IInv
<1>1. Init => IInv BY InitIInv
<1>2. IInv /\ [Next]_vars => IInv'
  <2> SUFFICES ASSUME IInv, [Next]_vars PROVE IInv'
    OBVIOUS
  <2>1. CASE \E p \in 0 .. MaxPayload : Prepare(p) BY <2>1, PrepareKeepsIInv
  <2>2. CASE \E p \in 0 .. MaxPayload : Refuse(p)
    BY <2>2
       DEF Refuse, IInv, TypeOK, Stages, FieldFitsU32, DrawNeverPanics,
           RoundTrip, SliceInPacket
  <2>3. CASE \E field \in 0 .. U32Max : Alter(field)
    BY <2>3
       DEF Alter, IInv, TypeOK, Stages, FieldFitsU32, DrawNeverPanics,
           RoundTrip, SliceInPacket, PacketInv, RemainingWords
  <2>4. CASE Decode BY <2>4, DecodeKeepsIInv
  <2>5. CASE UNCHANGED vars
    BY <2>5
       DEF vars, IInv, TypeOK, FieldFitsU32, DrawNeverPanics, RoundTrip,
           SliceInPacket, PacketInv, FieldEncodesPayload, RemainingWords,
           Encoded
  <2> QED BY <2>1, <2>2, <2>3, <2>4, <2>5 DEF Next
<1> QED BY <1>1, <1>2, PTL DEF Spec

\* decode recovers the number of words prepare was given, for every draw,
\* every payload and every width of the integers.
THEOREM LengthRoundTrip == Spec => []RoundTrip
<1>1. IInv => RoundTrip BY DEF IInv
<1> QED BY <1>1, Invariance, PTL

\* Whatever prepare accepts, gen_range has something to draw from, and the sum
\* does not overflow u32, whichever multiple is drawn.
THEOREM PrepareSafe == Spec => []PrepareNeverPanics
<1>1. IInv => PrepareNeverPanics BY DEF IInv, PrepareNeverPanics
<1> QED BY <1>1, Invariance, PTL

\* No length field makes decode read outside the packet.
THEOREM SliceSafe == Spec => []SliceInPacket
<1>1. IInv => SliceInPacket BY DEF IInv
<1> QED BY <1>1, Invariance, PTL
=============================================================================
