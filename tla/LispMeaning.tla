----------------------------- MODULE LispMeaning -----------------------------
(***************************************************************************)
(* What a program means, without formulas and subjects: names stand for    *)
(* values, a lambda for a closure, an axis for a number, and bytes for     *)
(* what they are read as.  Compiler and evaluator are compared with this.  *)
(*                                                                         *)
(* A value is a noun or a closure.  Instead of one, a program fails, or is *)
(* Unspecified: it calls the side effect engine or a function with another *)
(* number of arguments than it has parameters, or takes a closure apart.   *)
(***************************************************************************)
EXTENDS LispCompiler

Unspecified == [error |-> "unspecified"]

Closure(parameters, body, scope, name) ==
  [parameters |-> parameters, body |-> body, scope |-> scope, name |-> name]

IsNoun(value) == IsCell(value) \/ IsAtom(value)

\* What is made of values that all have to be there.
Strictly(values, Make(_)) ==
  CASE \E i \in DOMAIN values : values[i] = Unspecified -> Unspecified
    [] \E i \in DOMAIN values : values[i] = Failed -> Failed
    [] OTHER -> Make(values)

\* The same for values that have to be nouns.
OnNouns(values, Make(_)) ==
  Strictly(values, LAMBDA all :
    IF \A i \in DOMAIN all : IsNoun(all[i]) THEN Make(all) ELSE Unspecified)

RECURSIVE Tuple(_)
Tuple(nouns) ==
  IF Len(nouns) = 1 THEN nouns[1] ELSE Cell(nouns[1], Tuple(Tail(nouns)))

-----------------------------------------------------------------------------
(* The native functions, on numbers.                                       *)

Number(bytes) == ValueOf(Reverse(bytes), Base)

\* A number in so many bytes, the first the most significant.
InBytes(number, count) ==
  [i \in 1 .. count |-> (number \div Base ^ (count - i)) % Base]

\* Node 1 of a noun is the noun, node 2 * n and 2 * n + 1 are in node n.
RECURSIVE NodeOf(_, _)
NodeOf(noun, n) ==
  CASE n = 0 -> Failed
    [] n = 1 -> noun
    [] OTHER -> LET above == NodeOf(noun, n \div 2)
                IN IF ~ IsCell(above) THEN Failed
                   ELSE IF n % 2 = 0 THEN above.left ELSE above.right

\* The counts in a structure, in order, and all bytes of the data.
RECURSIVE Counts(_)
Counts(structure) ==
  IF IsCell(structure) THEN Counts(structure.left) \o Counts(structure.right)
  ELSE <<ValueOf(structure.bytes, Base)>>

Total(counts) == FoldLeft(LAMBDA a, b : a + b, 0, counts)

\* A structure whose atoms are cut from the bytes, from place at on.
RECURSIVE CutFrom(_, _, _)
CutFrom(structure, bytes, at) ==
  IF IsCell(structure)
  THEN Cell(CutFrom(structure.left, bytes, at),
            CutFrom(structure.right, bytes, at + Total(Counts(structure.left))))
  ELSE Atom(SubSeq(bytes, at, at + ValueOf(structure.bytes, Base) - 1))

Reshaped(data, structure) ==
  LET bytes  == FlattenSeq(Leaves(data))
      needed == Total(Counts(structure))
  IN IF \/ needed > Len(bytes)
        \/ NounSize * NodeCount(structure) + needed > AllocationBound
     THEN Failed
     ELSE CutFrom(structure, bytes, 1)

\* What is true is 1, as in the code and its tests; vm/Spec.md says 0, which
\* EvaluatesAsDocumented is about.
Applied(name, x) ==
  LET atoms == \A i \in DOMAIN x : IsAtom(x[i])
      a == x[1].bytes
      b == x[2].bytes
      longer == IF Len(a) > Len(b) THEN Len(a) ELSE Len(b)
  IN CASE name = "is_cell" -> Bool(IsCell(x[1]))
       [] name = "shape"   -> LengthOf(x[1])
       [] name = "equal"   -> Bool(x[1] = x[2])
       [] name = "reshape" -> Reshaped(x[1], x[2])
       [] name \in {"add", "less", "xor", "invert"} /\ ~ atoms -> Failed
       [] name = "add"     -> Atom(InBytes(Number(a) + Number(b), longer))
       [] name = "less"    -> Bool(Number(a) < Number(b))
       [] name = "xor"     -> Atom(Xor(a, b))
       [] name = "invert"  -> Atom(Invert(a))
       [] OTHER            -> Unspecified

-----------------------------------------------------------------------------
(* Expressions.                                                            *)

Bound(names, values) ==
  [n \in ToSet(names) |-> values[SelectLastInSeq(names, LAMBDA m : m = n)]]

IsLambda(node) ==
  /\ node.kind = "parent"
  /\ node.children # <<>>
  /\ node.children[1] = Symbol("lambda")

RECURSIVE Meaning(_, _)

MeaningOfLet(bindings, body, scope) ==
  LET names == [i \in DOMAIN bindings |-> bindings[i].children[1].name]
      Defined(i) ==
        LET value == Meaning(bindings[i].children[2], scope)
        IN IF IsLambda(bindings[i].children[2]) THEN [value EXCEPT !.name = names[i]]
           ELSE value
  IN Strictly([i \in DOMAIN bindings |-> Defined(i)], LAMBDA values :
       Meaning(body, Bound(names, values) @@ scope))

\* A function that was named where it was made can call itself.
MeaningOfCall(closure, arguments, scope) ==
  Strictly([i \in DOMAIN arguments |-> Meaning(arguments[i], scope)], LAMBDA values :
    IF IsNoun(closure) \/ Len(closure.parameters) # Len(values) THEN Unspecified
    ELSE Meaning(closure.body,
           Bound(closure.parameters, values)
             @@ (IF closure.name = Nameless THEN <<>> ELSE closure.name :> closure)
             @@ closure.scope))

\* The first branch is for 1.
MeaningOfIf(arguments, scope) ==
  OnNouns(<<Meaning(arguments[1], scope)>>, LAMBDA condition :
    CASE IsAtom(condition[1]) /\ AsByte(condition[1]) = {1} -> Meaning(arguments[2], scope)
      [] IsAtom(condition[1]) /\ AsByte(condition[1]) = {0} -> Meaning(arguments[3], scope)
      [] OTHER -> Failed)

Meaning(node, scope) ==
  LET head      == node.children[1]
      arguments == Tail(node.children)
      Each      == [i \in DOMAIN arguments |-> Meaning(arguments[i], scope)]
  IN CASE node.kind = "symbol"  -> scope[node.name]
       [] node.kind = "literal" -> Atom(node.bytes)
       [] node.kind = "list" ->
            OnNouns([i \in DOMAIN node.children |-> Meaning(node.children[i], scope)],
                    Tuple)
       [] head.name = "if" -> MeaningOfIf(arguments, scope)
       [] head.name \in DOMAIN Natives ->
            OnNouns(Each, LAMBDA values : Applied(head.name, values))
       [] head.name = "axis" ->
            OnNouns(Each, LAMBDA values :
              IF IsCell(values[2]) THEN Failed
              ELSE NodeOf(values[1], ValueOf(values[2].bytes, Base)))
       [] head.name = "let" -> MeaningOfLet(arguments[1].children, arguments[2], scope)
       [] head.name = "lambda" ->
            Closure([i \in DOMAIN arguments[1].children |-> arguments[1].children[i].name],
                    arguments[2], scope, Nameless)
       [] OTHER -> MeaningOfCall(scope[head.name], arguments, scope)

\* What a closed program returns.
Value(node) == OnNouns(<<Meaning(node, <<>>)>>, LAMBDA values : values[1])

-----------------------------------------------------------------------------
(* Programs that can be compiled, and what limits their layout.            *)

RECURSIVE NodesOf(_)
NodesOf(node) ==
  {node} \cup (IF node.kind \in {"list", "parent"}
              THEN UNION {NodesOf(c) : c \in ToSet(node.children)} ELSE {})

\* An empty list, a form that is only its head, a let without names, and the
\* index 0 of a name.
IsHollow(node) ==
  LET parts == node.children
  IN /\ node.kind \in {"list", "parent"}
     /\ \/ node.kind = "list" /\ parts = <<>>
        \/ node.kind = "parent" /\ Len(parts) = 1
        \/ /\ node.kind = "parent" /\ Len(parts) = 3
           /\ \/ parts[1] = Symbol("let") /\ parts[2] = Parent(<<>>)
              \/ /\ parts[1] = Symbol("axis")
                 /\ parts[2].kind = "symbol" /\ parts[3].kind = "literal"
                 /\ AsUsize(parts[3].bytes) = {0}

\* Every name is bound, everything has the shape and the number of arguments
\* it should have, and no list, let or call is empty.
RECURSIVE WellFormed(_, _)
WellFormed(node, names) ==
  LET All(nodes, known) == \A i \in DOMAIN nodes : WellFormed(nodes[i], known)
      head      == node.children[1]
      arguments == Tail(node.children)
  IN CASE node.kind = "symbol"  -> node.name \in names
       [] node.kind = "literal" -> TRUE
       [] node.kind = "list"    -> node.children # <<>> /\ All(node.children, names)
       [] node.children = <<>>  -> FALSE
       [] head.kind # "symbol"  -> FALSE
       [] head.name \in DOMAIN Natives ->
            Len(arguments) = Natives[head.name][2] /\ All(arguments, names)
       [] head.name \in {"axis", "let", "lambda"} /\ Len(arguments) # 2 -> FALSE
       [] head.name = "axis" ->
            /\ All(arguments, names)
            /\ \/ arguments[1].kind # "symbol"
               \/ arguments[2].kind # "literal"
               \/ AsUsize(arguments[2].bytes) \notin {{}, {0}}
       [] head.name = "let" ->
            LET bindings == arguments[1].children
            IN /\ arguments[1].kind = "parent"
               /\ bindings # <<>>
               /\ \A i \in DOMAIN bindings :
                    /\ IsBinding(bindings[i])
                    /\ LET definition == bindings[i].children[2]
                           itself == {bindings[i].children[1].name}
                       IN WellFormed(definition,
                                     names \cup IF IsLambda(definition) THEN itself ELSE {})
               /\ WellFormed(arguments[2],
                    names \cup {bindings[i].children[1].name : i \in DOMAIN bindings})
       [] head.name = "lambda" ->
            LET parameters == arguments[1].children
            IN /\ IsParameterList(arguments[1])
               /\ WellFormed(arguments[2],
                    names \cup {parameters[i].name : i \in DOMAIN parameters})
       [] OTHER -> head.name \in names /\ arguments # <<>> /\ All(arguments, names)

\* How often pairing this many neighbors leaves one over.
RECURSIVE OddRounds(_)
OddRounds(count) ==
  IF count <= 1 THEN 0 ELSE (count % 2) + OddRounds((count + 1) \div 2)

RECURSIVE PathLength(_)
PathLength(count) == IF count <= 1 THEN 0 ELSE 1 + PathLength((count + 1) \div 2)

Longest(a, b) == IF a > b THEN a ELSE b

\* A well formed program is in reach if no let, lambda or call leaves a value
\* over in two rounds, and the way to every name, of which longest bounds the
\* steps so far, fits an axis of one byte.  Others are compiled as well, but
\* names in them may denote something else.
RECURSIVE InReach(_, _)
InReach(node, longest) ==
  LET All(nodes) == \A i \in DOMAIN nodes : InReach(nodes[i], longest)
      OneByte(steps) == steps < ByteBits
      head      == node.children[1]
      arguments == Tail(node.children)
      count     == Len(arguments[1].children)
      new       == 1 + PathLength(count)
  IN CASE node.kind = "literal" -> TRUE
       [] node.kind = "symbol"  -> OneByte(longest)
       [] node.kind = "list"    -> All(node.children)
       [] head.name \in DOMAIN Natives -> All(arguments)
       [] head.name = "let" ->
            /\ OddRounds(count) <= 1
            /\ \A i \in 1 .. count : InReach(arguments[1].children[i].children[2], longest)
            /\ InReach(arguments[2], Longest(longest + 1, new))
       [] head.name = "lambda" ->
            OddRounds(count) <= 1 /\ InReach(arguments[2], Longest(longest + 2, new))
       [] head.name = "axis" /\ arguments[1].kind = "symbol"
                            /\ arguments[2].kind = "literal" ->
            OneByte(longest + Ilog2(ValueOf(arguments[2].bytes, Base)))
       [] head.name = "axis" -> All(arguments)
       [] OTHER -> OneByte(longest) /\ OddRounds(Len(arguments)) <= 1 /\ All(arguments)
=============================================================================
