--------------------------- MODULE MCLispPrograms ---------------------------
(***************************************************************************)
(* Programs for module LispPrograms: those of the tests in compile.rs, and *)
(* others with more scopes, names and ways to fail.  Some are also altered *)
(* by a token: it is left out, repeated or exchanged for another bracket.  *)
(***************************************************************************)
EXTENDS LispPrograms

S(name) == Symbol(name)
B(byte) == Literal(<<byte>>)
F(name, arguments) == Parent(<<S(name)>> \o arguments)
If(condition, yes, no) == F("if", <<condition, yes, no>>)
Let(bindings, body) == F("let", <<Parent(bindings), body>>)
Is(name, value) == Parent(<<S(name), value>>)
Lambda(parameters, body) ==
  F("lambda", <<Parent([i \in DOMAIN parameters |-> S(parameters[i])]), body>>)
Many(names) == [i \in DOMAIN names |-> Is(names[i], B(i))]
Bytes(count) == [i \in 1 .. count |-> B(i)]

\* A name in the given number of scopes.
RECURSIVE Nested(_)
Nested(scopes) ==
  IF scopes = 0 THEN S("x") ELSE Let(<<Is("y", B(7))>>, Nested(scopes - 1))

\* The same in functions, which move a name by two steps each.
RECURSIVE Enclosed(_)
Enclosed(functions) ==
  IF functions = 0 THEN S("x") ELSE Lambda(<<"y">>, Enclosed(functions - 1))

TestPrograms == {
  List(<<List(<<B(34), B(85)>>), B(51)>>),
  List(<<F("is_cell", <<Literal(<<34, 68>>)>>), F("is_cell", <<List(Bytes(2))>>)>>),
  F("shape", <<List(<<Literal(<<1, 2, 3, 4, 5, 6>>), B(3), B(4)>>)>>),
  Let(<<Is("x", B(69)), Is("y", B(103)), Is("z", B(33))>>, F("add", <<S("x"), S("z")>>)),
  Let(<<Is("x", B(16))>>,
      F("add", <<S("x"), Let(<<Is("y", B(33))>>, F("add", <<S("x"), S("y")>>))>>)),
  Let(<<Is("x", B(69)), Is("y", Lambda(<<"a">>, F("add", <<S("a"), B(1)>>)))>>,
      Let(<<Is("z", S("y"))>>, F("z", <<S("x")>>))),
  Let(<<Is("f", Let(<<Is("x", B(5)), Is("y", B(3))>>,
                    Lambda(<<"z">>, F("add", <<S("x"), S("z")>>))))>>,
      F("f", <<B(4)>>)),
  Let(<<Is("answer", B(66))>>,
    Let(<<Is("handle_guess",
             Lambda(<<"g">>,
               If(F("less", <<S("g"), S("answer")>>), B(1),
                  If(F("less", <<S("answer"), S("g")>>), B(2), B(3)))))>>,
        List(<<F("handle_guess", <<B(51)>>), F("handle_guess", <<B(66)>>),
               F("handle_guess", <<B(85)>>)>>))),
  F("axis", <<List(<<B(86), B(112)>>), B(3)>>),
  F("axis", <<F("reshape", <<List(Bytes(3)), List(<<B(1), B(2)>>)>>), B(3)>>),
  F("axis", <<List(<<B(49), B(50)>>), If(F("equal", <<B(255), B(238)>>), B(2), B(3))>>),
  Let(<<Is("reverse",
           Lambda(<<"x">>,
             If(F("is_cell", <<S("x")>>),
                List(<<F("reverse", <<F("axis", <<S("x"), B(3)>>)>>),
                       F("reverse", <<F("axis", <<S("x"), B(2)>>)>>)>>),
                S("x"))))>>,
      F("reverse", <<List(<<List(<<B(6), B(7), B(8)>>), B(9)>>)>>))}

\* The program of the test axis_optimization.
LongAxis == Let(<<Is("x", List(Bytes(8)))>>, F("axis", <<S("x"), B(255)>>))

\* Names and scopes.
ScopePrograms == {
  Let(Many(<<"a", "b", "c", "d">>),
      List(<<S("a"), S("b"), S("c"), S("d")>>)),
  Let(Many(<<"a", "b", "c", "d", "e", "f", "g">>),
      List(<<S("g"), S("a"), S("f"), S("d")>>)),
  Let(<<Is("f", Lambda(<<"a", "b", "c">>, List(<<S("c"), S("a"), S("b")>>)))>>,
      F("f", Bytes(3))),
  Let(<<Is("x", B(1)), Is("x", B(2))>>, S("x")),
  Let(<<Is("x", B(1))>>, Let(<<Is("x", B(2)), Is("y", S("x"))>>, List(<<S("x"), S("y")>>))),
  Let(<<Is("x", B(1))>>, Let(<<Is("y", S("x")), Is("z", S("y"))>>, S("z"))),
  \* a parameter with the name of the function, and a name the function shadows
  Let(<<Is("f", Lambda(<<"f">>, F("add", <<S("f"), B(1)>>)))>>, F("f", <<B(4)>>)),
  Let(<<Is("f", B(9))>>,
      Let(<<Is("f", Lambda(<<"n">>, If(F("equal", <<S("n"), B(0)>>), B(5),
                                       F("f", <<F("add", <<S("n"), B(255)>>)>>))))>>,
          F("f", <<B(2)>>))),
  \* functions that are passed and returned
  Let(<<Is("twice", Lambda(<<"g", "n">>, F("g", <<F("g", <<S("n")>>)>>))),
        Is("k", B(3))>>,
      Let(<<Is("h", Lambda(<<"n">>, F("add", <<S("n"), S("k")>>)))>>,
          F("twice", <<S("h"), B(1)>>))),
  Let(<<Is("adder", Lambda(<<"n">>, Lambda(<<"m">>, F("add", <<S("n"), S("m")>>))))>>,
      Let(<<Is("inc", F("adder", <<B(1)>>)), Is("n", B(77))>>, F("inc", <<B(4)>>))),
  Let(<<Is("f", Lambda(<<>>, B(4)))>>, F("f", <<B(0)>>)),
  Let(<<Is("x", B(5))>>, Nested(3)),
  Let(<<Is("x", List(Bytes(3)))>>, Let(<<Is("y", B(1))>>, F("axis", <<S("x"), B(6)>>)))}

\* Programs that are compiled and out of reach: the third of five names; a name
\* at 2 under an index of 15 steps, so that the leading one of both together is
\* lost; and a name behind eight scopes, and functions: more than fit one byte,
\* and two.
FiveNames == Let(Many(<<"a", "b", "c", "d", "e">>), S("c"))

LostPath == Let(<<Is("x", B(7))>>, F("axis", <<S("x"), Literal(<<1, 128>>)>>))

FarPrograms ==
  {FiveNames, LostPath, Let(<<Is("x", B(5))>>, Nested(8))}
    \cup {Let(<<Is("x", B(5))>>, Enclosed(n)) : n \in {7, 8}}

\* Native functions on other operands, and programs that fail.
NativePrograms == {
  F("add", <<Literal(<<1, 255>>), B(1)>>),
  F("add", <<B(200), B(100)>>),
  F("less", <<B(3), Literal(<<1, 0>>)>>),
  F("less", <<Literal(<<0, 3>>), B(3)>>),
  F("less", <<Literal(<<1, 2>>), Literal(<<2, 1>>)>>),
  F("xor", <<Literal(<<240, 15>>), B(255)>>),
  F("invert", <<Literal(<<0, 7>>)>>),
  F("equal", <<List(Bytes(3)), List(<<B(1), List(<<B(2), B(3)>>)>>)>>),
  F("reshape", <<List(<<Literal(<<7, 8, 9>>), B(1)>>), List(<<B(2), B(0), B(1)>>)>>),
  F("reshape", <<List(<<Literal(<<7, 8>>), Literal(<<9, 1, 2, 3>>)>>),
                 List(<<B(1), B(2), B(2)>>)>>),
  F("reshape", <<Literal(<<7, 8, 9>>), List(<<B(1), B(3)>>)>>),
  F("reshape", <<Literal(<<1, 2, 3, 4>>), List(<<B(1), B(1), B(1), B(1)>>)>>),
  F("add", <<List(Bytes(2)), B(1)>>),
  F("axis", <<B(1), B(2)>>),
  F("axis", <<List(Bytes(2)), List(Bytes(2))>>),
  If(B(2), B(1), B(1)),
  If(Literal(<<1, 0>>), B(1), F("axis", <<B(1), B(2)>>))}

\* Programs that no compilation should accept.
WrongPrograms == {
  S("x"), Parent(<<>>), List(<<>>), List(<<B(1), List(<<>>)>>), Parent(<<B(1)>>),
  Let(<<>>, B(1)), Let(<<Is("x", S("x"))>>, B(1)),
  Let(<<Is("f", Lambda(<<"n">>, S("n")))>>, S("n")),
  Let(<<Is("f", Lambda(<<"n">>, S("n")))>>, F("f", <<>>)),
  Let(<<Is("x", B(1)), Is("y", F("x", <<S("y")>>))>>, S("x")),
  Let(<<Is("x", B(1))>>, F("axis", <<S("x"), B(0)>>)),
  Let(<<Is("x", B(1))>>, F("axis", <<S("x"), Literal(<<1, 0, 1>>)>>)),
  F("add", <<B(1)>>), F("axis", <<B(1)>>), F("lambda", <<B(1), B(1)>>)}

Programs == TestPrograms \cup {LongAxis} \cup ScopePrograms \cup FarPrograms
              \cup NativePrograms \cup WrongPrograms

\* What one wrong token makes of a program.
Altered(program) ==
  LET Without(i) == RemoveAt(program, i)
      Twice(i)   == InsertAt(program, i, program[i])
      As(i, t)   == [program EXCEPT ![i] = t]
  IN {Without(i) : i \in DOMAIN program} \cup {Twice(i) : i \in DOMAIN program}
       \cup {As(i, t) : i \in DOMAIN program, t \in Opening \cup Closing}

AlteredOnes == {
  Let(<<Is("x", B(4))>>, F("add", <<S("x"), B(1)>>)),
  Let(<<Is("f", Lambda(<<"n">>, List(<<S("n"), B(1)>>)))>>, F("f", <<B(4)>>))}

MCSources ==
  {Written(p) : p \in Programs} \cup UNION {Altered(Written(p)) : p \in AlteredOnes}

MCTruthSources ==
  {Written(p) : p \in NativePrograms
     \cup {F("is_cell", <<Literal(<<34, 68>>)>>), F("is_cell", <<List(Bytes(2))>>),
           F("equal", <<B(255), B(238)>>)}}

\* Four programs that do something else than a test, an assertion or the
\* specification says, each for a reason of its own.
MCDocumentedSources ==
  {Written(p) : p \in {LongAxis, FiveNames, LostPath, F("is_cell", <<List(Bytes(2))>>)}}

MCLimits == 0 .. 60
=============================================================================
