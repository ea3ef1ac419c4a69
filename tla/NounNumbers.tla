----------------------------- MODULE NounNumbers -----------------------------
(***************************************************************************)
(* Numbers as the bytes of an atom (vm/src/noun.rs).  There are two byte   *)
(* orders in the code: what makes an atom of a number writes the most      *)
(* significant byte first, what reads a number from an atom takes the      *)
(* first byte for the least significant.                                   *)
(*                                                                         *)
(* as_usize is modelled below 32 bytes: a longer atom overflows the code's *)
(* u8 shift, and none that is read as a number here is that long.          *)
(***************************************************************************)
EXTENDS Integers, SequencesExt

CONSTANTS
  ByteBits,     \* 8 in the code
  UsizeBytes    \* bytes of a usize or a u64; 8

\* Written out as a function the proofs can reason about: the prover knows
\* nothing of ^.
Power(base) ==
  LET power[k \in Nat] == IF k = 0 THEN 1 ELSE base * power[k - 1]
  IN power

Base == Power(2)[ByteBits]

\* A byte of an atom's length takes two bits, the mark and one of the length.
ASSUME NumbersAssumption ==
  /\ ByteBits \in Nat \ {0, 1}
  /\ UsizeBytes \in Nat \ {0}

\* The number whose digits are given from the least significant on.
ValueOf(digits, base) ==
  LET value[k \in 0 .. Len(digits)] ==
        IF k = 0 THEN 0 ELSE value[k - 1] + digits[k] * Power(base)[k - 1]
  IN value[Len(digits)]

\* The digits of n from the least significant on, none for zero.
Digits(n, base) ==
  LET count == CHOOSE k \in 0 .. n :
                 /\ n < Power(base)[k]
                 /\ \A j \in 0 .. k - 1 : Power(base)[j] <= n
  IN [i \in 1 .. count |-> (n \div Power(base)[i - 1]) % base]

\* Noun::from_usize_compact and from_u64_compact: the most significant byte
\* comes first.
FromUsizeCompact(n) == Reverse(Digits(n, Base))

\* Noun::as_usize and as_u64: the first byte is the least significant, and a
\* byte that is not zero must lie within a usize.
AsUsize(bytes) ==
  IF \E i \in DOMAIN bytes : i > UsizeBytes /\ bytes[i] # 0 THEN {}
  ELSE {ValueOf(bytes, Base)}
=============================================================================
