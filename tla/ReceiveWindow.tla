---------------------------- MODULE ReceiveWindow ----------------------------
(***************************************************************************)
(* The sliding window a Stream keeps over the packet numbers it expects    *)
(* next (src/src/stream.rs).  The code holds it in two u64 fields:         *)
(*                                                                         *)
(*   incoming_message_mask_start   the packet number of bit 0              *)
(*   incoming_message_mask         bit i is set while packet start + i is  *)
(*                                 still awaited                           *)
(*                                                                         *)
(* Here the mask is the set of its set bits.  The literals of the code are *)
(* parameters: 64 bits (Window), moved 8 at a time (Batch), as soon as one *)
(* of the 16 highest bits is clear (Lookahead).                            *)
(*                                                                         *)
(* Definitions introduced by "Fault:" are not the code: each is a          *)
(* plausible slip in the definition below it, and PROJECT.json names the   *)
(* property that notices it.  The other modules follow the same habit.     *)
(***************************************************************************)
EXTENDS Integers

CONSTANTS
  Window,      \* bits of the mask; 64 in the code
  Batch,       \* identifiers generated, and bits shifted, at a time; 8
  Lookahead    \* number of high bits that must all stay set; 16

ASSUME WindowAssumption ==
  /\ Window \in Nat
  /\ Batch \in Nat \ {0}
  /\ Lookahead \in Nat
  /\ Batch <= Lookahead
  /\ Lookahead + Batch <= Window

Bits == 0 .. Window - 1

\* A packet number is outside the window when it lies past every bit.  The
\* code panics if bit_offset_in_mask > 64.  An offset of exactly 64 passes
\* that test, and 1u64 << 64 then panics in a debug build and clears bit 0
\* in a release build.
BeyondWindow(start, number) == number > start + Window

ShiftOverflows(start, number) == number = start + Window

BitOf(start, number) ==
  IF ShiftOverflows(start, number) THEN 0 ELSE number - start

\* mask & !(1u64 << bit_offset_in_mask)
Cleared(start, mask, number) == mask \ {BitOf(start, number)}

\* Fault: the window moves only when its low batch is used up.
MustMoveWhenDrained(mask) == mask \cap (0 .. Batch - 1) = {}

\* Fault: half of the window counts as look-ahead.
MustMoveEarly(mask) ==
  \/ mask \cap (0 .. Batch - 1) = {}
  \/ ~ (Lookahead - 1 .. Window - 1 \subseteq mask)

\* mask & 0xff == 0 || (mask >> 48) != 0xffff
MustMove(mask) ==
  \/ mask \cap (0 .. Batch - 1) = {}
  \/ ~ (Window - Lookahead .. Window - 1 \subseteq mask)

\* Fault: the bits that leave the mask are not dropped.
ShiftedKeepingLow(mask) ==
  {i - Batch : i \in mask} \cup (Window - Batch .. Window - 1)

\* (mask >> 8) | (0xff << 56)
Shifted(mask) == {i \in Bits : i + Batch \in mask \/ i >= Window - Batch}

MovedMask(mask) == IF MustMove(mask) THEN Shifted(mask) ELSE mask

\* Fault: incoming_message_mask_start is not advanced.
StartForgotten(start, mask) == start

MovedStart(start, mask) == IF MustMove(mask) THEN start + Batch ELSE start

\* The packet numbers for which a move makes the stream expect identifiers.
Announced(start, mask) ==
  IF MustMove(mask) THEN start + Window .. start + Window + Batch - 1 ELSE {}

\* Fault: the numbers that were missed stay in the expected packets.
NothingAbandoned(start, mask) == {}

\* The packet numbers a move withdraws: the code skips the removal when no
\* bit of the whole mask is left.
Abandoned(start, mask) ==
  IF MustMove(mask) /\ mask # {} THEN start .. start + Batch - 1 ELSE {}
=============================================================================
