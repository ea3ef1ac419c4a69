-------------------------------- MODULE Nouns --------------------------------
(***************************************************************************)
(* Nouns as trees, and the operations of the virtual machine on them that  *)
(* need nothing but their operands: vm/src/noun.rs, axis.rs, math.rs,      *)
(* equal.rs and length of shape.rs.                                        *)
(*                                                                         *)
(* A noun is a record: an atom with its bytes, or a cell with two nouns.   *)
(* That short atoms are kept in place is left out.  An operation returns a *)
(* noun or Failed; equal and length cost ticks, which the operators named  *)
(* for the cost count.                                                     *)
(***************************************************************************)
EXTENDS NounNumbers

Atom(bytes) == [bytes |-> bytes]

Cell(left, right) == [left |-> left, right |-> right]

IsCell(noun) == "left" \in DOMAIN noun

IsAtom(noun) == "bytes" \in DOMAIN noun

\* The Err of an evaluation, in place of a noun.
Failed == [error |-> "failed"]

\* from_u8 and from_bool
Byte(b) == Atom(<<b>>)

Bool(b) == IF b THEN Byte(1) ELSE Byte(0)

\* as_u8
AsByte(noun) ==
  IF IsCell(noun) \/ \E i \in 2 .. Len(noun.bytes) : noun.bytes[i] # 0 THEN {}
  ELSE {IF noun.bytes = <<>> THEN 0 ELSE noun.bytes[1]}

-----------------------------------------------------------------------------
(* axis.                                                                   *)

\* ByteBitIterator: the bits of a byte, the most significant first.
BitsOf(byte) == [k \in 1 .. ByteBits |-> (byte \div 2 ^ (ByteBits - k)) % 2]

\* ByteSliceBitIterator: from the last byte to the first.
IndexBits(bytes) ==
  FlattenSeq([i \in DOMAIN bytes |-> BitsOf(bytes[Len(bytes) + 1 - i])])

\* One turn of the loop in axis_for.
Child(noun, bit) ==
  IF ~ IsCell(noun) THEN Failed
  ELSE IF bit = 1 THEN noun.right ELSE noun.left

\* The bits after the first one that is set are the way from the root.
Axis(noun, index) ==
  IF IsCell(index) THEN Failed
  ELSE LET bits  == IndexBits(index.bytes)
           start == SelectInSeq(bits, LAMBDA bit : bit = 1)
       IN IF start = 0 THEN Failed
          ELSE FoldLeft(Child, noun, SubSeq(bits, start + 1, Len(bits)))

-----------------------------------------------------------------------------
(* Arithmetic on bytes, the last one the least significant.                *)

Longer(x, y) == IF Len(x) > Len(y) THEN x ELSE y

Shorter(x, y) == IF Len(x) > Len(y) THEN y ELSE x

\* add: the sum keeps the longer operand's length, the last carry is lost.
Add(x, y) ==
  LET long   == Longer(x, y)
      short  == Shorter(x, y)
      paired == Len(long) - Len(short)
      AddAt(i, sum) ==
        LET z == long[i] + (IF i > paired THEN short[i - paired] ELSE 0) + sum.carry
        IN [bytes |-> <<z % Base>> \o sum.bytes, carry |-> z \div Base]
  IN FoldRightDomain(LAMBDA z, i : AddAt(z, i), long,
                     [bytes |-> <<>>, carry |-> 0]).bytes

\* less: the common part from its last byte on, then what is left of either.
Less(x, y) ==
  LET common == Len(Shorter(x, y))
      Suffix(z) == SubSeq(z, Len(z) - common + 1, Len(z))
      Prefix(z) == SubSeq(z, 1, Len(z) - common)
      lesser == FoldRight(LAMBDA pair, below :
                            (below /\ pair[1] <= pair[2]) \/ pair[1] < pair[2],
                          Zip(Suffix(x), Suffix(y)), FALSE)
  IN \/ lesser /\ \A i \in DOMAIN Prefix(x) : Prefix(x)[i] = 0
     \/ \E i \in DOMAIN Prefix(y) : Prefix(y)[i] # 0

\* xor: the bytes are paired from the first on, the rest is kept.
Xor(x, y) ==
  LET long  == Longer(x, y)
      short == Shorter(x, y)
      XorByte(a, b) ==
        ValueOf([k \in 1 .. ByteBits |->
                   (a \div 2 ^ (k - 1) + b \div 2 ^ (k - 1)) % 2], 2)
  IN [i \in DOMAIN long |->
        IF i <= Len(short) THEN XorByte(long[i], short[i]) ELSE long[i]]

Invert(x) == [i \in DOMAIN x |-> Base - 1 - x[i]]

-----------------------------------------------------------------------------
(* Traversals, and the ticks they incur.                                   *)

\* equal: one tick for each pair of nodes compared, and the right halves are
\* compared only if the left ones are equal.
RECURSIVE EqualCost(_, _)
EqualCost(a, b) ==
  IF ~ (IsCell(a) /\ IsCell(b)) THEN 1
  ELSE 1 + EqualCost(a.left, b.left)
         + (IF a.left = b.left THEN EqualCost(a.right, b.right) ELSE 0)

\* length
RECURSIVE LengthOf(_)
LengthOf(noun) ==
  IF IsCell(noun) THEN Cell(LengthOf(noun.left), LengthOf(noun.right))
  ELSE Atom(FromUsizeCompact(Len(noun.bytes)))

\* One tick for each node.
RECURSIVE NodeCount(_)
NodeCount(noun) ==
  IF IsCell(noun) THEN 1 + NodeCount(noun.left) + NodeCount(noun.right) ELSE 1
=============================================================================
