------------------------------ MODULE NounCodec ------------------------------
(***************************************************************************)
(* Nouns as bytes: serialize (vm/src/serialize.rs), which every STORE,     *)
(* HASH, ENCRYPT and SEND of the virtual machine goes through, and         *)
(* deserialize (vm/src/deserialize.rs), which reads the bytes back.        *)
(*                                                                         *)
(* A noun is the sequence of the nodes met by traversing it, a cell before *)
(* its left and its right child; the order fixes the tree.  serialize is a *)
(* pure function of the noun and an operator here.  deserialize is the     *)
(* state machine: it reads one node per step, where the code recurses, and *)
(* "pending" counts the nouns its recursion has yet to read.               *)
(*                                                                         *)
(* Byte size and the limits that depend on it are parameters.              *)
(***************************************************************************)
EXTENDS NounNumbers

CONSTANTS
  Literals,     \* bytes below this stand for themselves; 190
  Short,        \* longest atom whose header is one byte; 64
  MaxChunks,    \* chunks of an atom's length that fit a usize; 9
  MaxLength,    \* maximum_atom_encoding_length
  Nouns         \* the nouns that are stored

ASSUME CodecAssumption ==
  /\ Literals \in Nat
  /\ Short \in Nat
  /\ Literals + Short = Base - 2
  /\ MaxChunks \in Nat \ {0, 1}
  /\ MaxLength \in Nat
  /\ MaxLength < Power(Base \div 2)[MaxChunks]  \* the code asks for 1000000

Cell == [kind |-> "cell"]

Atom(bytes) == [kind |-> "atom", bytes |-> bytes]

Node == {Cell} \cup [kind : {"atom"}, bytes : Seq(0 .. Base - 1)]

\* How many nouns are still to come after k nodes of a traversal.
Open(source, k) ==
  LET open[i \in 0 .. k] ==
        IF i = 0 THEN 1 ELSE open[i - 1] + (IF source[i] = Cell THEN 1 ELSE -1)
  IN open[k]

\* The traversal of one tree: it is at its end once nothing is to come.
IsNoun(source) ==
  /\ source \in Seq(Node)
  /\ \A k \in 0 .. Len(source) - 1 : Open(source, k) > 0
  /\ Open(source, Len(source)) = 0

ASSUME NounsAssumption == \A source \in Nouns : IsNoun(source)

VARIABLES
  stage,             \* what has become of the noun, one of Stages
  noun,              \* the noun that was serialized, as its nodes
  buffer,            \* the bytes it was serialized to, possibly altered
  altered,           \* TRUE once bytes were lost or added
  atom_buffer,       \* bytes of atoms not yet read
  structure_buffer,  \* bits of the structure not yet read
  pending,           \* nouns still to be read
  nodes              \* nodes read so far

vars == <<stage, noun, buffer, altered, atom_buffer, structure_buffer, pending,
          nodes>>

readerVars == <<atom_buffer, structure_buffer, pending, nodes>>

Stages == {"empty", "exceeded", "stored", "reading", "accepted", "rejected"}

-----------------------------------------------------------------------------
(* serialize.                                                              *)

\* Seven bits to a byte, the highest bit set on all but the last.
Chunks(n) ==
  LET digits == Digits(n, Base \div 2)
  IN [i \in DOMAIN digits |->
        IF i < Len(digits) THEN digits[i] + Base \div 2 ELSE digits[i]]

\* Fault: one length too many is described by one byte.
HeaderOneTooMany(n) ==
  IF n <= Short + 1 THEN <<Literals + n>> ELSE <<Base - 1>> \o Chunks(n)

\* What precedes the bytes of an atom of length n.
Header(n) ==
  IF n <= Short THEN <<Literals + n>> ELSE <<Base - 1>> \o Chunks(n)

\* Fault: the byte of an empty atom's header counts as a literal.
IsLiteralOneTooMany(bytes) == Len(bytes) = 1 /\ bytes[1] <= Literals

IsLiteral(bytes) == Len(bytes) = 1 /\ bytes[1] < Literals

AtomEncoding(bytes) ==
  IF IsLiteral(bytes) THEN bytes ELSE Header(Len(bytes)) \o bytes

\* Fault: every atom is held against the maximum on its own.
AtomAloneFits(encoding, bytes) ==
  IF IsLiteral(bytes) THEN Len(encoding) < MaxLength
  ELSE Len(bytes) < MaxLength

\* An atom fits after the encoding of those before it: the check is made
\* once the header is there and asks for one byte more than the atom takes.
AtomFits(encoding, bytes) ==
  IF IsLiteral(bytes) THEN Len(encoding) < MaxLength
  ELSE /\ Len(bytes) < MaxLength
       /\ Len(encoding) + Len(Header(Len(bytes))) < MaxLength - Len(bytes)

NodeEncoding(node) == IF node = Cell THEN <<>> ELSE AtomEncoding(node.bytes)

\* The encoding of the atoms among the first k nodes.
AtomsEncoding(source, k) ==
  FlattenSeq([i \in 1 .. k |-> NodeEncoding(source[i])])

\* serialize_noun gets through all nodes without MaximumLengthExceeded.
Serializable(source) ==
  \A k \in 1 .. Len(source) :
    source[k] = Cell
      \/ AtomFits(AtomsEncoding(source, k - 1), source[k].bytes)

\* BitVec: one bit for each node, the first in the lowest place.
StructureBytes(source) ==
  [k \in 1 .. (Len(source) + ByteBits - 1) \div ByteBits |->
     ValueOf([i \in 1 .. ByteBits |->
                LET at == (k - 1) * ByteBits + i
                IN IF at <= Len(source) /\ source[at] = Cell THEN 1 ELSE 0], 2)]

Serialization(source) ==
  LET atoms == AtomsEncoding(source, Len(source))
  IN AtomEncoding(FromUsizeCompact(Len(atoms))) \o atoms \o StructureBytes(source)

-----------------------------------------------------------------------------
(* deserialize.                                                            *)

StructureBits(bytes) ==
  [i \in 1 .. Len(bytes) * ByteBits |->
     (bytes[(i - 1) \div ByteBits + 1] \div Power(2)[(i - 1) % ByteBits]) % 2]

\* The length an atom's header gives and the number of bytes it takes, if
\* the header is complete and the length fits a usize.
HeaderAt(bytes) ==
  IF bytes[1] # Base - 1 THEN {[length |-> bytes[1] - Literals, taken |-> 1]}
  ELSE LET chunks == Tail(bytes)
           last   == SelectInSeq(chunks, LAMBDA c : c < Base \div 2)
       IN IF last \notin 1 .. MaxChunks THEN {}
          ELSE {[length |-> ValueOf([i \in 1 .. last |-> chunks[i] % (Base \div 2)],
                                    Base \div 2),
                 taken  |-> last + 1]}

\* deserialize_atom: the atom a buffer starts with and what follows it.
AtomAt(bytes) ==
  IF bytes = <<>> THEN {}
  ELSE IF bytes[1] < Literals
       THEN {[bytes |-> <<bytes[1]>>, rest |-> Tail(bytes)]}
       ELSE {[bytes |-> SubSeq(bytes, h.taken + 1, h.taken + h.length),
              rest  |-> SubSeq(bytes, h.taken + h.length + 1, Len(bytes))] :
               h \in {g \in HeaderAt(bytes) :
                        g.taken + g.length <= Len(bytes)}}

\* What deserialize makes of the prefix: the bytes of the atoms and those of
\* the structure.
SplitAt(bytes) ==
  UNION {{[atoms     |-> SubSeq(first.rest, 1, n),
           structure |-> SubSeq(first.rest, n + 1, Len(first.rest))] :
            n \in {m \in AsUsize(first.bytes) : m <= Len(first.rest)}} :
           first \in AtomAt(bytes)}

\* Fault: a last byte of which no bit was read is not noticed.
ExhaustedForgivingOne(atoms, bits) == atoms = <<>> /\ Len(bits) <= ByteBits

\* check_exhausted: of the structure, at most bits of a byte already begun
\* are left over.
Exhausted(atoms, bits) == atoms = <<>> /\ Len(bits) < ByteBits

-----------------------------------------------------------------------------

Init ==
  /\ stage = "empty"
  /\ noun = <<>>
  /\ buffer = <<>>
  /\ altered = FALSE
  /\ atom_buffer = <<>>
  /\ structure_buffer = <<>>
  /\ pending = 0
  /\ nodes = <<>>

Serialize(source) ==
  /\ stage = "empty"
  /\ noun' = source
  /\ IF Serializable(source)
     THEN stage' = "stored" /\ buffer' = Serialization(source)
     ELSE stage' = "exceeded" /\ UNCHANGED buffer
  /\ UNCHANGED <<altered, readerVars>>

\* The host's storage gives back fewer bytes than it was given, or more.
Alter(bytes) ==
  /\ stage = "stored"
  /\ ~ altered
  /\ altered' = TRUE
  /\ buffer' = bytes
  /\ UNCHANGED <<stage, noun, readerVars>>

Alterations ==
  {SubSeq(buffer, 1, n) : n \in 0 .. Len(buffer) - 1}
    \cup {Append(buffer, b) : b \in {0, Base - 1}}

ReadLength ==
  /\ stage = "stored"
  /\ \/ /\ SplitAt(buffer) = {}
        /\ stage' = "rejected"
        /\ UNCHANGED readerVars
     \/ \E split \in SplitAt(buffer) :
          /\ stage' = "reading"
          /\ atom_buffer' = split.atoms
          /\ structure_buffer' = StructureBits(split.structure)
          /\ pending' = 1
          /\ nodes' = <<>>
  /\ UNCHANGED <<noun, buffer, altered>>

\* A step of deserialize_noun that fails ends it.
ReadFailure ==
  /\ stage = "reading"
  /\ pending > 0
  /\ \/ structure_buffer = <<>>
     \/ structure_buffer # <<>> /\ Head(structure_buffer) = 0 /\ AtomAt(atom_buffer) = {}
  /\ stage' = "rejected"
  /\ UNCHANGED <<noun, buffer, altered, readerVars>>

ReadCell ==
  /\ stage = "reading"
  /\ pending > 0
  /\ structure_buffer # <<>> /\ Head(structure_buffer) = 1
  /\ structure_buffer' = Tail(structure_buffer)
  /\ nodes' = Append(nodes, Cell)
  /\ pending' = pending + 1
  /\ UNCHANGED <<stage, noun, buffer, altered, atom_buffer>>

ReadAtom ==
  /\ stage = "reading"
  /\ pending > 0
  /\ structure_buffer # <<>> /\ Head(structure_buffer) = 0
  /\ \E first \in AtomAt(atom_buffer) :
       /\ atom_buffer' = first.rest
       /\ nodes' = Append(nodes, Atom(first.bytes))
  /\ structure_buffer' = Tail(structure_buffer)
  /\ pending' = pending - 1
  /\ UNCHANGED <<stage, noun, buffer, altered>>

CheckExhausted ==
  /\ stage = "reading"
  /\ pending = 0
  /\ stage' = IF Exhausted(atom_buffer, structure_buffer)
              THEN "accepted" ELSE "rejected"
  /\ UNCHANGED <<noun, buffer, altered, readerVars>>

Next ==
  \/ \E source \in Nouns : Serialize(source)
  \/ \E bytes \in Alterations : Alter(bytes)
  \/ ReadLength
  \/ ReadFailure
  \/ ReadCell
  \/ ReadAtom
  \/ CheckExhausted

Spec == Init /\ [][Next]_vars

-----------------------------------------------------------------------------
(* Properties.                                                             *)

\* n is the same number to the function that writes its bytes and to the one
\* that reads them, which takes them in the opposite order.
SameBothWays(n) ==
  LET bytes == FromUsizeCompact(n)
  IN Reverse(bytes) = bytes /\ Len(bytes) <= UsizeBytes

\* The bytes that all atoms take, the number a serialization starts with.
LengthOf(source) == Len(AtomsEncoding(source, Len(source)))

\* What was stored is never read back as another noun: it is accepted, as
\* what it was, if the length of its atoms is the same number both ways, as
\* every length below 256 is, and else it is rejected.
ReadBackOrRejected ==
  ~ altered =>
    /\ stage = "accepted" => nodes = noun /\ SameBothWays(LengthOf(noun))
    /\ stage = "rejected" => ~ SameBothWays(LengthOf(noun))

\* Every noun that can be serialized is read back as it was.  The tests of
\* the two sides take this for granted but give the same noun two different
\* encodings, serialize.rs:202-206 and deserialize.rs:184-190.
RoundTrip ==
  ~ altered =>
    /\ stage # "rejected"
    /\ stage = "accepted" => nodes = noun

\* Of bytes that would have been accepted none are lost at the end or added
\* there without being noticed.  (Of others they may: their length is misread.)
LengthChangeNoticed ==
  altered /\ SameBothWays(LengthOf(noun)) => stage # "accepted"

\* The atoms of a noun never take more than maximum_atom_encoding_length,
\* however they are split up.
MemoryBounded == stage = "stored" => LengthOf(noun) <= MaxLength

Encodings == [source \in Nouns |-> Serialization(source)]

\* What equal, HASH and STORE_BY_HASH rest on: nouns with the same
\* serialization are the same noun, long or short.
SerializationIdentifies ==
  stage = "stored" /\ ~ altered =>
    \A other \in Nouns : Encodings[other] = buffer => other = noun
=============================================================================
