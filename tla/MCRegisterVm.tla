----------------------------- MODULE MCRegisterVm -----------------------------
(* Words of four bits and six words of memory: every program of five words *)
(* that are opcodes or zero, which as operands are addresses, lengths and  *)
(* jump targets within and past their limits; and a program too large.     *)
EXTENDS RegisterVm

MCPrograms == [1 .. 5 -> 0 .. 8] \cup {<<1, 1, 1, 1, 1, 1, 1>>}
=============================================================================
