------------------------- MODULE ContentPacketLength -------------------------
(***************************************************************************)
(* The length field of a content packet (src/src/content_packet.rs).  The  *)
(* sender hides the number of payload words by adding a random multiple of *)
(* one more than the words that fit; the receiver takes the remainder.     *)
(* Both compute in u32, and both compute the words that fit from the       *)
(* length of the packet.                                                   *)
(*                                                                         *)
(* One packet is prepared, may be overwritten on its way, and is decoded.  *)
(* The identifier and the encrypted bytes are left out: only lengths       *)
(* decide what prepare and decode do.                                      *)
(***************************************************************************)
EXTENDS Integers

CONSTANTS
  U32Max,      \* the largest u32; 2^32 - 1
  Header,      \* PAYLOAD_START: identifier, length and checksum; 28 bytes
  Slack,       \* what send_to adds to the payload beyond the header; 200 bytes
  MaxPayload   \* bound on the payload, in bytes

ASSUME LengthAssumption ==
  /\ U32Max \in Nat \ {0}
  /\ Header \in Nat \ {0}
  /\ Slack \in Nat
  /\ MaxPayload \in Nat

VARIABLES
  stage,            \* where the packet is, one of Stages
  packet_len,       \* length of the packet in bytes
  length_plus,      \* the value of the length field
  payload_words,    \* what the sender put in
  decoded_words     \* what the receiver took out

vars == <<stage, packet_len, length_plus, payload_words, decoded_words>>

Stages ==
  {"idle", "prepared", "altered", "decoded", "misread", "refused", "dropped",
   "panicked"}

Init ==
  /\ stage = "idle"
  /\ packet_len = 0
  /\ length_plus = 0
  /\ payload_words = 0
  /\ decoded_words = 0

RemainingWords(len) == (len - Header) \div 4

\* Fault: the words are forgotten, and the upper end is included.
DrawLimitOfField(words, remaining) == U32Max \div (remaining + 1) + 1

\* The exclusive upper end of the range from which n is drawn.  gen_range
\* panics if the range is empty.
DrawLimit(words, remaining) == (U32Max - words) \div (remaining + 1)

\* Fault: the formula of the comment above the computation.
EncodedAsCommented(words, n, remaining) == words + n * remaining - 1

Encoded(words, n, remaining) == words + n * (remaining + 1)

\* Fault: the remainder can exceed the words that fit.
DecodedOneTooMany(field, remaining) == field % (2 + remaining)

Decoded(field, remaining) == field % (1 + remaining)

-----------------------------------------------------------------------------

\* A length that as_u32_checked converts.
FitsU32(len) == len <= U32Max

\* Fault: the buffer may be larger than the field can describe.
PreparesAnyLength(payload_length) == payload_length % 4 = 0

\* prepare goes on if the payload is whole words and the lengths fit u32.
Prepares(payload_length) ==
  /\ payload_length % 4 = 0
  /\ FitsU32(payload_length + Slack)

Prepare(payload_length) ==
  LET len       == payload_length + Header + Slack
      words     == payload_length \div 4
      remaining == RemainingWords(len)
      limit     == DrawLimit(words, remaining)
  IN /\ stage = "idle"
     /\ Prepares(payload_length)
     /\ packet_len' = len
     /\ payload_words' = words
     /\ IF limit <= 0
        THEN stage' = "panicked" /\ UNCHANGED length_plus
        ELSE /\ stage' = "prepared"
             /\ \E n \in 0 .. limit - 1 :
                  length_plus' = Encoded(words, n, remaining)
     /\ UNCHANGED decoded_words

Refuse(payload_length) ==
  /\ stage = "idle"
  /\ ~ Prepares(payload_length)
  /\ stage' = "refused"
  /\ UNCHANGED <<packet_len, length_plus, payload_words, decoded_words>>

\* The network hands over another length field, as that of a packet damaged
\* on its way: nothing authenticates it before decode computes with it.
Alter(field) ==
  /\ stage = "prepared"
  /\ stage' = "altered"
  /\ length_plus' = field
  /\ UNCHANGED <<packet_len, payload_words, decoded_words>>

\* decode drops a packet whose whole length does not fit u32.
Decode ==
  /\ stage \in {"prepared", "altered"}
  /\ IF FitsU32(packet_len)
     THEN /\ stage' = IF stage = "prepared" THEN "decoded" ELSE "misread"
          /\ decoded_words' = Decoded(length_plus, RemainingWords(packet_len))
     ELSE stage' = "dropped" /\ UNCHANGED decoded_words
  /\ UNCHANGED <<packet_len, length_plus, payload_words>>

Next ==
  \/ \E payload_length \in 0 .. MaxPayload :
       Prepare(payload_length) \/ Refuse(payload_length)
  \/ \E field \in 0 .. U32Max : Alter(field)
  \/ Decode

Spec == Init /\ [][Next]_vars

-----------------------------------------------------------------------------
(* Properties.                                                             *)

TypeOK ==
  /\ stage \in Stages
  /\ packet_len \in Nat
  /\ length_plus \in Nat
  /\ payload_words \in Nat
  /\ decoded_words \in Nat

\* A packet that arrives as it was prepared yields the words put in,
\* whatever multiple was drawn.
RoundTrip == stage = "decoded" => decoded_words = payload_words

\* The sum computed in u32 stays within it.
FieldFitsU32 == length_plus <= U32Max

\* gen_range is handed a range that is not empty.
DrawNeverPanics == stage # "panicked"

\* Whatever prepare accepts, it has a multiple to draw, and none it may draw
\* makes the sum overflow, which would panic in a debug build and send another
\* length in a release build (content_packet.rs:86, 87).
PrepareNeverPanics == DrawNeverPanics /\ FieldFitsU32

\* Whatever the length field says, the slice decode takes lies within the
\* packet and its length in bytes does not overflow u32.
SliceInPacket ==
  /\ Header + decoded_words * 4 <= packet_len \/ decoded_words = 0
  /\ decoded_words * 4 <= U32Max
=============================================================================
