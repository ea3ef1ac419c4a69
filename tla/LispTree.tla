------------------------------ MODULE LispTree ------------------------------
(***************************************************************************)
(* The syntax tree of a program and how it is read from tokens             *)
(* (lisp/src/tree.rs).  A token is a record: a bracket of one of four      *)
(* kinds, a symbol with its name or a literal with its bytes.  Characters  *)
(* are left out.                                                           *)
(***************************************************************************)
EXTENDS Integers, SequencesExt

Symbol(name) == [kind |-> "symbol", name |-> name]

Literal(bytes) == [kind |-> "literal", bytes |-> bytes]

Parent(children) == [kind |-> "parent", children |-> children]

List(children) == [kind |-> "list", children |-> children]

Bracket(kind) == [kind |-> kind]

Closing == {Bracket("CloseParen"), Bracket("CloseBracket")}

Malformed == [kind |-> "error"]

\* Fault: whichever bracket comes next ends a list of children.
AnyEnd(opening, token) == token \in Closing

\* for_parens and for_brackets: whether a token ends the children of a node
\* that the given token opened.
Ends(opening, token) ==
  token = (IF opening = Bracket("OpenParen")
           THEN Bracket("CloseParen") ELSE Bracket("CloseBracket"))

Node(opening, children) ==
  IF opening = Bracket("OpenParen") THEN Parent(children) ELSE List(children)

RECURSIVE ParseSome(_)

\* The children up to the token that ends them, and the tokens behind it.
RECURSIVE ParseChildren(_, _)
ParseChildren(opening, tokens) ==
  IF tokens = <<>> THEN Malformed
  ELSE IF Ends(opening, Head(tokens)) THEN [kind |-> "some", children |-> <<>>,
                                            rest |-> Tail(tokens)]
  ELSE LET first  == ParseSome(tokens)
           others == ParseChildren(opening, first.rest)
       IN IF first = Malformed THEN Malformed
          ELSE IF others = Malformed THEN Malformed
          ELSE [others EXCEPT !.children = <<first.node>> \o @]

\* parse_some for a token that begins a node; one that ends a node is only
\* right where ParseChildren looks for it.
ParseSome(tokens) ==
  IF tokens = <<>> \/ Head(tokens) \in Closing THEN Malformed
  ELSE IF Head(tokens).kind \in {"symbol", "literal"}
  THEN [kind |-> "some", node |-> Head(tokens), rest |-> Tail(tokens)]
  ELSE LET inner == ParseChildren(Head(tokens), Tail(tokens))
       IN IF inner = Malformed THEN Malformed
          ELSE [kind |-> "some", node |-> Node(Head(tokens), inner.children),
                rest |-> inner.rest]

\* Fault: what follows the root is not looked at.
ParsePrefix(tokens) ==
  LET root == ParseSome(tokens)
  IN IF root = Malformed THEN Malformed ELSE root.node

\* parse: one root node and nothing behind it.
Parse(tokens) ==
  LET root == ParseSome(tokens)
  IN IF root = Malformed THEN Malformed
     ELSE IF root.rest # <<>> THEN Malformed
     ELSE root.node

-----------------------------------------------------------------------------
(* What a tree looks like in tokens.                                       *)

RECURSIVE Written(_)
Written(node) ==
  IF node.kind \in {"symbol", "literal"} THEN <<node>>
  ELSE LET open  == IF node.kind = "parent" THEN "OpenParen" ELSE "OpenBracket"
           close == IF node.kind = "parent" THEN "CloseParen" ELSE "CloseBracket"
       IN <<Bracket(open)>>
            \o FlattenSeq([i \in DOMAIN node.children |-> Written(node.children[i])])
            \o <<Bracket(close)>>
=============================================================================
