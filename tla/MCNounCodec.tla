----------------------------- MODULE MCNounCodec -----------------------------
(* Three-bit bytes: atoms of length up to three have a one-byte header,    *)
(* those of length four and sixteen the first lengths with one and with    *)
(* three chunks, and a structure of three bits fills a byte.  The lengths  *)
(* of small nouns are misread as smaller ones or as far greater ones; of   *)
(* the two combs, 10 is taken for 17 and 19 for 26, which goes into their  *)
(* structure.                                                              *)
EXTENDS NounCodec

Repeated(n) == [i \in 1 .. n |-> i % 3]

MCAtoms ==
  {Atom(bytes) : bytes \in {<<2>>, <<3>>} \cup {Repeated(n) : n \in {0, 2, 3, 4, 16}}}

\* Cells that lean to the left, over atoms that take one or two bytes.
Comb(cells, short) ==
  [i \in 1 .. 2 * cells + 1 |->
     IF i <= cells THEN Cell
     ELSE IF i <= cells + short THEN Atom(<<2>>) ELSE Atom(<<3>>)]

\* Every tree with one, two or three atoms, and two combs.
MCNouns ==
  {<<a>> : a \in MCAtoms}
    \cup {<<Cell, a, b>> : a \in MCAtoms, b \in MCAtoms}
    \cup {<<Cell, Cell, a, b, c>> : a \in MCAtoms, b \in MCAtoms, c \in MCAtoms}
    \cup {<<Cell, a, Cell, b, c>> : a \in MCAtoms, b \in MCAtoms, c \in MCAtoms}
    \cup {Comb(9, 10), Comb(11, 5)}
=============================================================================
