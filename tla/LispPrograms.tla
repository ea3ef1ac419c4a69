---------------------------- MODULE LispPrograms ----------------------------
(***************************************************************************)
(* A program on its way from tokens to a result: parse, compile and        *)
(* eval_on, each of which may be where it ends.  The result is compared    *)
(* with what the program means.                                            *)
(*                                                                         *)
(* Turning characters into tokens (lisp/src/tokenize.rs) is left out.      *)
(***************************************************************************)
EXTENDS LispMeaning

CONSTANTS
  Sources,    \* the token sequences that programs are written in
  Limits,     \* the ticks an evaluation may be given
  Plenty      \* ticks that are enough for every one of these programs

ASSUME ProgramsAssumption == Limits \cup {Plenty} \subseteq Nat

VARIABLES
  tokens,     \* the program
  stage,      \* what has been done with it
  tree,       \* what parse returned
  formula,    \* what compile returned
  limit,      \* the ticks eval_on was given
  result      \* what it returned

vars == <<tokens, stage, tree, formula, limit, result>>

Nothing == [error |-> "nothing yet"]

Init ==
  /\ tokens \in Sources
  /\ stage = "written"
  /\ tree = Malformed
  /\ formula = Nothing
  /\ limit = 0
  /\ result = Nothing

ParseTokens ==
  /\ stage = "written"
  /\ tree' = Parse(tokens)
  /\ stage' = IF tree' = Malformed THEN "refused" ELSE "parsed"
  /\ UNCHANGED <<tokens, formula, limit, result>>

CompileTree ==
  /\ stage = "parsed"
  /\ formula' = Compile(tree)
  /\ stage' = IF Compiles(formula') THEN "compiled" ELSE "refused"
  /\ UNCHANGED <<tokens, tree, limit, result>>

\* The subject of a program is an atom of one byte.
Evaluate(ticks) ==
  /\ stage = "compiled"
  /\ limit' = ticks
  /\ result' = EvalOn(Byte(0), formula, ticks)
  /\ stage' = "evaluated"
  /\ UNCHANGED <<tokens, tree, formula>>

Next == ParseTokens \/ CompileTree \/ \E ticks \in Limits \cup {Plenty} : Evaluate(ticks)

Spec == Init /\ [][Next]_vars

-----------------------------------------------------------------------------
(* Properties.                                                             *)

Opening == {Bracket("OpenParen"), Bracket("OpenBracket")}

Matching(opening, closing) ==
  (opening = Bracket("OpenParen")) <=> (closing = Bracket("CloseParen"))

\* A bracket that closes matches the last one that is still open.
AfterToken(seen, token) ==
  LET closes == token \in Closing
  IN CASE ~ seen.balanced -> seen
       [] closes /\ seen.open = <<>> -> [seen EXCEPT !.balanced = FALSE]
       [] closes /\ ~ Matching(Last(seen.open), token) -> [seen EXCEPT !.balanced = FALSE]
       [] closes -> [seen EXCEPT !.open = Front(@)]
       [] OTHER ->
            [balanced |-> TRUE,
             open  |-> IF token \in Opening THEN Append(seen.open, token) ELSE seen.open,
             roots |-> IF seen.open = <<>> THEN seen.roots + 1 ELSE seen.roots]

\* One expression, and every bracket in it is closed by its own kind.
IsOneExpression(program) ==
  LET seen == FoldLeft(AfterToken, [balanced |-> TRUE, open |-> <<>>, roots |-> 0],
                       program)
  IN seen.balanced /\ seen.open = <<>> /\ seen.roots = 1

\* The parser accepts exactly the programs that are one expression, and its
\* tree is written as the program is: no token is dropped, moved or taken
\* for part of another node.
ParsesWhatIsWritten ==
  /\ stage # "written" => (tree # Malformed <=> IsOneExpression(tokens))
  /\ tree # Malformed => Written(tree) = tokens

\* The compiler yields a formula for exactly the programs in which every name
\* is bound where it is used and every form is complete: no scope is lost on
\* the way into a definition, a body or an argument, and none leaks out.  It
\* panics, instead of returning an Err, only over one of four hollow forms.
CompilesWhatIsWellFormed ==
  formula # Nothing =>
    /\ Compiles(formula) <=> WellFormed(tree, {})
    /\ formula = Panicked => \E node \in NodesOf(tree) : IsHollow(node)

\* Whatever the ticks, an evaluation of a program in reach that returns a noun
\* returns the one that the program means: if no let, lambda or call leaves
\* more than one value over and all names are at positions of one byte, values
\* are where the compiler thinks they are, in every scope, call and closure,
\* and running out of ticks never shows in a result.  Of other programs it is
\* not true; EvaluatesAsDocumented is about them.
MeansWhatItSays ==
  stage = "evaluated" /\ InReach(tree, 0) /\ result.noun # Failed
    => Value(tree) \in {result.noun, Unspecified}

\* Only the ticks keep a program in reach from a value that it has: there is
\* a cost from which on that value is returned and the rest of the ticks
\* left, and below which nothing is.
OnlyTicksStopIt ==
  stage = "evaluated" /\ InReach(tree, 0) /\ IsNoun(Value(tree)) =>
    LET enough == EvalOn(Byte(0), formula, Plenty)
        cost   == Plenty - enough.ticks
    IN /\ enough.noun = Value(tree)
       /\ limit >= cost => result = Returns(Value(tree), limit - cost)
       /\ limit < cost  => result.noun = Failed

\* With enough ticks, every program returns what it means, and fails if it
\* means nothing, in reach or not.  The tests of compile.rs say so of a name
\* with a long path (line 424) and of the layout of many names (93-99), and an
\* assertion of paths that do not fit an axis (180).
EvaluatesAsWritten ==
  stage = "evaluated" /\ limit = Plenty => Value(tree) \in {result.noun, Unspecified}

\* What vm/Spec.md says of truth, in lines 24 to 27 and the rules of the
\* opcodes 3 and 5: is_cell is 0 for a pair and 1 for an atom, and equal is 0
\* for two equal nouns and 1 for others.
TruthAsSpecified ==
  stage = "evaluated" /\ limit = Plenty =>
    LET operand == EvalOn(Byte(0), formula.right, limit - 1).noun
    IN /\ formula.left = Opcode("IS_CELL") /\ operand # Failed =>
            result.noun = Byte(IF IsCell(operand) THEN 0 ELSE 1)
       /\ formula.left = Opcode("IS_EQUAL") /\ IsCell(operand) =>
            result.noun = Byte(IF operand.left = operand.right THEN 0 ELSE 1)

\* A program does what the tests and assertions of the compiler and the
\* specification of the machine say of it.
EvaluatesAsDocumented == EvaluatesAsWritten /\ TruthAsSpecified
=============================================================================
