---------------------------- MODULE LispCompiler ----------------------------
(***************************************************************************)
(* The compiler from syntax trees to formulas (lisp/src/compile.rs).       *)
(*                                                                         *)
(* A scope becomes a tree of values in the subject, and a name the axis of *)
(* its value.  A compilation yields a formula, or Refused (an Err), or     *)
(* Panicked (an assertion or an expectation of the compiler fails).        *)
(***************************************************************************)
EXTENDS Evaluator, LispTree

CONSTANT OverflowChecks   \* a debug build, in which a shift that overflows panics

ASSUME LispCompilerAssumption == OverflowChecks \in BOOLEAN

\* Bits of an axis, a u64.
AxisBits == UsizeBytes * ByteBits

Refused == [error |-> "refused"]

Panicked == [error |-> "panicked"]

Compiles(result) == result \notin {Refused, Panicked}

\* native_opcode_for_name: the opcode and the number of arguments.
Natives == [
  random |-> <<"RANDOM", 1>>, is_cell |-> <<"IS_CELL", 1>>, hash |-> <<"HASH", 1>>,
  shape |-> <<"SHAPE", 1>>, if |-> <<"IF", 3>>, equal |-> <<"IS_EQUAL", 2>>,
  store_by_hash |-> <<"STORE_BY_HASH", 1>>,
  retrieve_by_hash |-> <<"RETRIEVE_BY_HASH", 1>>,
  store_by_key |-> <<"STORE_BY_KEY", 2>>,
  retrieve_by_key |-> <<"RETRIEVE_BY_KEY", 1>>,
  generate_keypair |-> <<"GENERATE_KEYPAIR", 0>>, encrypt |-> <<"ENCRYPT", 2>>,
  decrypt |-> <<"DECRYPT", 2>>, exucrypt |-> <<"EXUCRYPT", 2>>,
  add |-> <<"ADD", 2>>, invert |-> <<"INVERT", 1>>, xor |-> <<"XOR", 2>>,
  less |-> <<"LESS", 2>>, reshape |-> <<"RESHAPE", 2>>]

-----------------------------------------------------------------------------
(* Trees of values.                                                        *)

\* The first of several results that is none, or what is built from all.
Assembled(results, Build(_)) ==
  IF \A i \in DOMAIN results : Compiles(results[i]) THEN Build(results)
  ELSE SelectSeq(results, LAMBDA r : ~ Compiles(r))[1]

\* vec_to_tree
VecToTree(nouns) ==
  IF nouns = <<>> THEN Panicked ELSE FoldRight(Cell, Front(nouns), Last(nouns))

\* One round of build_into_dense_tree: neighbors are paired, the last of an
\* odd number goes to the next round alone.
Paired(nouns) ==
  [i \in 1 .. (Len(nouns) + 1) \div 2 |->
     IF 2 * i <= Len(nouns) THEN Cell(nouns[2 * i - 1], nouns[2 * i])
     ELSE nouns[2 * i - 1]]

RECURSIVE Rounds(_, _)
Rounds(nouns, round) ==
  IF Len(nouns) = 1 THEN nouns[1]
  ELSE IF round + 1 >= 10 THEN Panicked
  ELSE Rounds(Paired(nouns), round + 1)

BuildIntoDenseTree(nouns) ==
  IF nouns = <<>> THEN Panicked ELSE Rounds(nouns, 0)

Ilog2(n) == CHOOSE k \in 0 .. n : 2 ^ k <= n /\ n < 2 ^ (k + 1)

\* Fault: a full level is taken for one that has to be extended.
DenseTreePositionsFromOne(count) == [i \in 1 .. count |-> count + i]

\* dense_tree_positions: as many values on the deepest level as do not fit
\* the one above, from the left on, and the others on the level above.
DenseTreePositions(count) ==
  IF count = 0 THEN <<>>
  ELSE LET spots_in_max_level     == 2 ^ (Ilog2(count) + 1)
           nouns_at_max_level     == spots_in_max_level - 2 * (spots_in_max_level - count)
           nouns_at_level_above   == count - nouns_at_max_level
           first_at_level_above   == spots_in_max_level - nouns_at_level_above
       IN [i \in 1 .. count |->
             IF i <= nouns_at_max_level THEN spots_in_max_level + i - 1
             ELSE first_at_level_above + i - nouns_at_max_level - 1]

-----------------------------------------------------------------------------
(* Axes of names.                                                          *)

\* Fault: the new step becomes the last one.
AddFinalStep(axis, step) == 2 * axis + step

\* What no position is: add_initial_step panicked.
NoAxis == 0

\* add_initial_step: the leading one moves up, the step follows it.  Where it
\* would leave the u64, 1 << 64 panics, or is 1 in a release build.
AddInitialStep(axis, initial_step) ==
  LET top     == 2 ^ Ilog2(axis)
      follows == initial_step * top + (axis % top)
  IN CASE 2 * top < 2 ^ AxisBits -> 2 * top + follows
       [] OverflowChecks         -> NoAxis
       [] OTHER                  -> follows + 1 - (follows % 2)

\* combine_axis_indices.  overflowing_shl tells only of a shift by 64 or
\* more, which a logarithm never asks for: bits that leave are lost.
CombineAxisIndices(applied_first, applied_second) ==
  LET top == 2 ^ Ilog2(applied_second)
  IN ((applied_first * top) % (2 ^ AxisBits)) + (applied_second % top)

\* Fault: the enclosing scope is not moved.
ScopeUnmoved(parent, names) ==
  LET positions == DenseTreePositions(Len(names))
  IN [n \in ToSet(names) |->
        AddInitialStep(positions[SelectLastInSeq(names, LAMBDA m : m = n)], 0)]
     @@ parent

\* Fault: the names of the enclosing scope are not taken over.
InnermostOnly(parent, names) ==
  LET positions == DenseTreePositions(Len(names))
  IN [n \in ToSet(names) |->
        AddInitialStep(positions[SelectLastInSeq(names, LAMBDA m : m = n)], 0)]

\* add_name_resolutions: the names of the enclosing scope move to the right,
\* the new ones are in the tree on the left.  The last of equal names wins.
AddNameResolutions(parent, names) ==
  LET positions == DenseTreePositions(Len(names))
  IN [n \in ToSet(names) |->
        AddInitialStep(positions[SelectLastInSeq(names, LAMBDA m : m = n)], 0)]
     @@ [n \in DOMAIN parent |-> AddInitialStep(parent[n], 1)]

ScopePanics(resolutions) == NoAxis \in Range(resolutions)

-----------------------------------------------------------------------------
(* compile_node                                                            *)

NotLiteral == [error |-> "not literal"]

\* literal_node_to_noun
RECURSIVE LiteralNodeToNoun(_)
LiteralNodeToNoun(node) ==
  CASE node.kind = "literal" -> Atom(node.bytes)
    [] node.kind = "list" ->
         LET parts == [i \in DOMAIN node.children |-> LiteralNodeToNoun(node.children[i])]
             wrong == SelectSeq(parts, LAMBDA p : p \in {NotLiteral, Panicked})
         IN IF wrong # <<>> THEN wrong[1] ELSE VecToTree(parts)
    [] OTHER -> NotLiteral

AxisOf(position) == Cell(Opcode("AXIS"), Atom(FromUsizeCompact(position)))

\* Nobody gives a name to what is compiled.
Nameless == ""

RECURSIVE CompileNode(_, _, _)

CompileAll(nodes, resolutions) ==
  [i \in DOMAIN nodes |-> CompileNode(nodes[i], resolutions, Nameless)]

CompileList(node, resolutions) ==
  LET literal == LiteralNodeToNoun(node)
  IN CASE literal = Panicked -> Panicked
       [] literal = NotLiteral ->
            Assembled(CompileAll(node.children, resolutions), VecToTree)
       [] OTHER -> Cell(Opcode("LITERAL"), literal)

CompileNative(name, arguments, resolutions) ==
  IF Len(arguments) # Natives[name][2] THEN Refused
  ELSE Assembled(CompileAll(arguments, resolutions), LAMBDA args :
         VecToTree(<<Opcode(Natives[name][1])>> \o args))

\* (axis object index): a variable and a literal index are combined, another
\* object with a literal index is composed, and any other index is computed.
CompileAxis(object, index, resolutions) ==
  IF object.kind = "symbol" /\ index.kind = "literal" THEN
    IF AsUsize(index.bytes) = {} \/ object.name \notin DOMAIN resolutions THEN Refused
    ELSE LET value == ValueOf(index.bytes, Base)
         IN IF value = 0 THEN Panicked
            ELSE AxisOf(CombineAxisIndices(resolutions[object.name], value))
  ELSE IF index.kind = "literal" THEN
    Assembled(CompileAll(<<object>>, resolutions), LAMBDA made :
      Cell(Opcode("COMPOSE"),
           Cell(made[1], Cell(Opcode("AXIS"), Atom(index.bytes)))))
  ELSE
    Assembled(CompileAll(<<object, index>>, resolutions), LAMBDA made :
      Cell(Opcode("RECURSE"),
           Cell(made[1], Cell(Cell(Opcode("LITERAL"), Opcode("AXIS")), made[2]))))

IsBinding(node) ==
  /\ node.kind = "parent"
  /\ Len(node.children) = 2
  /\ node.children[1].kind = "symbol"

\* add_bindings, and the body in the extended scope.
CompileLet(bindings, body, resolutions) ==
  IF bindings.kind # "parent" THEN Refused
  ELSE LET pairs == bindings.children
           names == [i \in DOMAIN pairs |-> pairs[i].children[1].name]
           definitions ==
             [i \in DOMAIN pairs |->
                IF IsBinding(pairs[i])
                THEN CompileNode(pairs[i].children[2], resolutions, names[i])
                ELSE Refused]
           extended == AddNameResolutions(resolutions, names)
       IN Assembled(definitions, LAMBDA defined :
            Assembled(<<BuildIntoDenseTree(defined)>>, LAMBDA tree :
              IF ScopePanics(extended) THEN Panicked
              ELSE Assembled(<<CompileNode(body, extended, Nameless)>>, LAMBDA made :
                     Cell(Opcode("DEFINE"), Cell(tree[1], made[1])))))

IsParameterList(node) ==
  /\ node.kind = "parent"
  /\ \A i \in DOMAIN node.children : node.children[i].kind = "symbol"

\* A lambda becomes its code next to the scope it was made in; when it is
\* called, that pair is itself next to the arguments.
CompileLambda(parameters, body, resolutions, self_name) ==
  LET names     == [i \in DOMAIN parameters.children |-> parameters.children[i].name]
      with_code == AddNameResolutions(resolutions, <<>>)
      named     == IF self_name = Nameless THEN with_code
                   ELSE (self_name :> 1) @@ with_code
      extended  == AddNameResolutions(named, names)
  IN CASE ScopePanics(with_code) -> Panicked
       [] ~ IsParameterList(parameters) -> Refused
       [] ScopePanics(extended) -> Panicked
       [] OTHER ->
            Assembled(<<CompileNode(body, extended, Nameless)>>, LAMBDA made :
              Cell(Cell(Opcode("LITERAL"), made[1]), AxisOf(1)))

\* Fault: the arguments are paired up like a list.
CompileCallWithList(name, arguments, resolutions) ==
  IF name \notin DOMAIN resolutions THEN Refused
  ELSE Assembled(CompileAll(arguments, resolutions), LAMBDA args :
         Assembled(<<VecToTree(args)>>, LAMBDA tree :
           Cell(Opcode("CALL"),
                Cell(Byte(6), Cell(tree[1], AxisOf(resolutions[name]))))))

CompileCall(name, arguments, resolutions) ==
  IF name \notin DOMAIN resolutions THEN Refused
  ELSE Assembled(CompileAll(arguments, resolutions), LAMBDA args :
         Assembled(<<BuildIntoDenseTree(args)>>, LAMBDA tree :
           Cell(Opcode("CALL"),
                Cell(Byte(6), Cell(tree[1], AxisOf(resolutions[name]))))))

CompileParent(children, resolutions, self_name) ==
  LET name == children[1].name
      arguments == Tail(children)
  IN CASE children = <<>> \/ children[1].kind # "symbol" -> Refused
       [] name \in DOMAIN Natives -> CompileNative(name, arguments, resolutions)
       [] name \in {"axis", "let", "lambda"} /\ Len(arguments) # 2 -> Refused
       [] name = "axis" -> CompileAxis(arguments[1], arguments[2], resolutions)
       [] name = "let" -> CompileLet(arguments[1], arguments[2], resolutions)
       [] name = "lambda" ->
            CompileLambda(arguments[1], arguments[2], resolutions, self_name)
       [] OTHER -> CompileCall(name, arguments, resolutions)

CompileNode(node, resolutions, self_name) ==
  CASE node.kind = "symbol" ->
         IF node.name \in DOMAIN resolutions THEN AxisOf(resolutions[node.name])
         ELSE Refused
    [] node.kind = "literal" -> Cell(Opcode("LITERAL"), Atom(node.bytes))
    [] node.kind = "list"    -> CompileList(node, resolutions)
    [] node.kind = "parent"  -> CompileParent(node.children, resolutions, self_name)

\* compile, for a tree that has been parsed.
Compile(node) == CompileNode(node, <<>>, Nameless)
=============================================================================
