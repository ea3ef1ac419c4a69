------------------------------- MODULE Reshape -------------------------------
(***************************************************************************)
(* reshape (vm/src/shape.rs): a structure is filled, atom by atom, with    *)
(* the bytes that a reader takes from the atoms of a noun.                 *)
(*                                                                         *)
(* Every read returns at most what is left of one atom and costs a tick a  *)
(* byte.  A read that cannot be paid fails with the cursor already moved,  *)
(* and with an error that read_exact takes for a reason to try again.      *)
(*                                                                         *)
(* A source is what a NounReader holds: the non-empty atoms it has not     *)
(* read, the first of which may be cut, and the ticks.                     *)
(***************************************************************************)
EXTENDS Nouns

CONSTANTS
  NounSize,          \* size_of::<Noun>()
  AllocationBound    \* 10_000_000 in eval.rs

\* The atoms in the order in which NounReader's stack yields them.
RECURSIVE Leaves(_)
Leaves(noun) ==
  IF IsCell(noun) THEN Leaves(noun.left) \o Leaves(noun.right)
  ELSE IF noun.bytes = <<>> THEN <<>> ELSE <<noun.bytes>>

NewReader(noun, ticks) == [pieces |-> Leaves(noun), ticks |-> ticks]

\* The cursor after count bytes of the first piece.
Moved(source, count) ==
  LET first == Head(source.pieces)
      rest  == SubSeq(first, count + 1, Len(first))
  IN [source EXCEPT !.pieces = (IF rest = <<>> THEN <<>> ELSE <<rest>>) \o Tail(@)]

Unfilled == [error |-> "unfilled"]

\* Fault: a read that could not be paid counts as made, and leaves its part
\* of the buffer as it was.
RECURSIVE ReadExactLeavingZeros(_, _)
ReadExactLeavingZeros(source, count) ==
  IF count = 0 THEN [bytes |-> <<>>, source |-> source]
  ELSE IF source.pieces = <<>> THEN Unfilled
  ELSE LET first == Head(source.pieces)
           n     == IF count < Len(first) THEN count ELSE Len(first)
           paid  == n <= source.ticks
           rest  == ReadExactLeavingZeros(
                      [Moved(source, n) EXCEPT !.ticks = IF paid THEN @ - n ELSE @],
                      count - n)
       IN IF rest = Unfilled THEN Unfilled
          ELSE [rest EXCEPT !.bytes =
                  (IF paid THEN SubSeq(first, 1, n) ELSE [i \in 1 .. n |-> 0]) \o @]

\* read_exact over NounReader::read: fills a buffer of count bytes.
RECURSIVE ReadExact(_, _)
ReadExact(source, count) ==
  IF count = 0 THEN [bytes |-> <<>>, source |-> source]
  ELSE IF source.pieces = <<>> THEN Unfilled
  ELSE LET first == Head(source.pieces)
           n     == IF count < Len(first) THEN count ELSE Len(first)
           moved == Moved(source, n)
       IN IF n > source.ticks THEN ReadExact(moved, count)
          ELSE LET rest == ReadExact([moved EXCEPT !.ticks = @ - n], count - n)
               IN IF rest = Unfilled THEN Unfilled
                  ELSE [rest EXCEPT !.bytes = SubSeq(first, 1, n) \o @]

\* populate_structure; bound is what may still be allocated.
RECURSIVE Populate(_, _, _)
Populate(structure, source, bound) ==
  IF bound < NounSize THEN Failed
  ELSE IF IsCell(structure) THEN
    LET left  == Populate(structure.left, source, bound - NounSize)
        right == Populate(structure.right, left.source, left.bound)
    IN IF left = Failed THEN Failed
       ELSE IF right = Failed THEN Failed
       ELSE [right EXCEPT !.noun = Cell(left.noun, @)]
  ELSE IF \E count \in AsUsize(structure.bytes) : count <= bound - NounSize THEN
    LET count == CHOOSE c \in AsUsize(structure.bytes) : TRUE
        read  == ReadExact(source, count)
    IN IF read = Unfilled THEN Failed
       ELSE [noun   |-> Atom(read.bytes),
             source |-> read.source,
             bound  |-> bound - NounSize - count]
  ELSE Failed
=============================================================================
