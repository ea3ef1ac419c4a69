------------------------------ MODULE Evaluator ------------------------------
(***************************************************************************)
(* eval_on (vm/src/eval.rs): a formula applied to a subject, with a number *)
(* of ticks to spend.                                                      *)
(*                                                                         *)
(* This is the evaluator as a function on nouns, for the opcodes that need *)
(* nothing from the side effect engine; module TickAccounts looks at all   *)
(* opcodes and at accounts, and leaves the nouns out.                      *)
(***************************************************************************)
EXTENDS Reshape

\* The opcodes in the order of their numbers, from 0 on.
OpcodeNames == <<
  "AXIS", "LITERAL", "RECURSE", "IS_CELL", "RESHAPE", "IS_EQUAL", "IF",
  "COMPOSE", "DEFINE", "CALL", "HASH", "STORE_BY_HASH", "RETRIEVE_BY_HASH",
  "STORE_BY_KEY", "RETRIEVE_BY_KEY", "RANDOM", "GENERATE_KEYPAIR", "ENCRYPT",
  "DECRYPT", "EXUCRYPT", "SHAPE", "ADD", "INVERT", "XOR", "LESS">>

Opcode(name) == Byte(SelectInSeq(OpcodeNames, LAMBDA n : n = name) - 1)

NamedBy(noun) ==
  {OpcodeNames[b + 1] : b \in {c \in AsByte(noun) : c < Len(OpcodeNames)}}

\* What eval_on returns: a noun, or an Err, and the ticks that are left.
Returns(noun, ticks) == [noun |-> noun, ticks |-> ticks]

IsErr(result) == result.noun = Failed

\* The ? operator, and a charge of cost ticks.
Then(result, Rest(_)) == IF IsErr(result) THEN result ELSE Rest(result)

Paid(cost, result) ==
  IF cost <= result.ticks THEN Returns(result.noun, result.ticks - cost)
  ELSE Returns(Failed, 0)

\* What an opcode makes of its evaluated argument.
Computed(op, result) ==
  LET x     == result.noun
      pair  == IsCell(x)
      bytes == pair /\ IsAtom(x.left) /\ IsAtom(x.right)
      Size(noun) == IF IsAtom(noun) THEN Len(noun.bytes) ELSE 0
      widest == IF Size(x.left) > Size(x.right) THEN Size(x.left) ELSE Size(x.right)
      Answer(noun) == Returns(noun, result.ticks)
  IN CASE op = "IS_CELL" -> Answer(Bool(pair))
       [] op = "SHAPE"   -> Paid(NodeCount(x), Answer(LengthOf(x)))
       [] op = "INVERT"  ->
            IF pair THEN Answer(Failed)
            ELSE Paid(Size(x), Answer(Atom(Invert(x.bytes))))
       [] op = "IS_EQUAL" /\ pair ->
            Paid(EqualCost(x.left, x.right), Answer(Bool(x.left = x.right)))
       [] op = "RESHAPE" /\ pair ->
            LET filled == Populate(x.right, NewReader(x.left, result.ticks),
                                   AllocationBound)
            IN IF filled = Failed THEN Answer(Failed)
               ELSE Returns(filled.noun, filled.source.ticks)
       [] op = "ADD" /\ bytes ->
            Paid(widest, Answer(Atom(Add(x.left.bytes, x.right.bytes))))
       [] op = "LESS" /\ bytes ->
            Paid(widest, Answer(Bool(Less(x.left.bytes, x.right.bytes))))
       [] op = "XOR" /\ bytes ->
            Paid(widest, Answer(Atom(Xor(x.left.bytes, x.right.bytes))))
       [] OTHER -> Answer(Failed)

RECURSIVE EvalOn(_, _, _)
EvalOn(subject, formula, limit) ==
  LET ticks == limit - 1
      op    == NamedBy(formula.left)
      arg   == formula.right
      b     == arg.left
      c     == arg.right
  IN CASE limit < 1 \/ ~ IsCell(formula) -> Returns(Failed, 0)
       [] IsCell(formula.left) ->
            Then(EvalOn(subject, formula.left, ticks), LAMBDA lhs :
              Then(EvalOn(subject, arg, lhs.ticks), LAMBDA rhs :
                Returns(Cell(lhs.noun, rhs.noun), rhs.ticks)))
       [] op = {"AXIS"} -> Returns(Axis(subject, arg), ticks)
       [] op = {"LITERAL"} -> Returns(arg, ticks)
       [] op = {"RECURSE"} /\ IsCell(arg) ->
            Then(EvalOn(subject, b, ticks), LAMBDA inner :
              Then(EvalOn(subject, c, inner.ticks), LAMBDA code :
                EvalOn(inner.noun, code.noun, code.ticks)))
       [] op = {"IF"} /\ IsCell(arg) /\ IsCell(c) ->
            Then(EvalOn(subject, b, ticks), LAMBDA condition :
              CASE AsByte(condition.noun) = {1} ->
                     EvalOn(subject, c.left, condition.ticks)
                [] AsByte(condition.noun) = {0} ->
                     EvalOn(subject, c.right, condition.ticks)
                [] OTHER -> Returns(Failed, 0))
       [] op = {"COMPOSE"} /\ IsCell(arg) ->
            Then(EvalOn(subject, b, ticks), LAMBDA inner :
              EvalOn(inner.noun, c, inner.ticks))
       [] op = {"DEFINE"} /\ IsCell(arg) ->
            Then(EvalOn(subject, b, ticks), LAMBDA defined :
              EvalOn(Cell(defined.noun, subject), c, defined.ticks))
       [] op = {"CALL"} /\ IsCell(arg) ->
            Then(EvalOn(subject, c, ticks), LAMBDA core :
              LET code == Axis(core.noun, b)
              IN IF code = Failed THEN Returns(Failed, 0)
                 ELSE EvalOn(core.noun, code, core.ticks))
       [] op \subseteq {"IS_CELL", "IS_EQUAL", "RESHAPE", "SHAPE", "ADD", "LESS",
                        "XOR", "INVERT"} /\ op # {} ->
            Then(EvalOn(subject, arg, ticks), LAMBDA result :
              Computed(CHOOSE o \in op : TRUE, result))
       [] OTHER -> Returns(Failed, 0)
=============================================================================
