-------------------------- MODULE ExpectedPacketSet --------------------------
(***************************************************************************)
(* The table an agent keeps of the packets it expects                      *)
(* (src/src/expected_packet_set.rs): from a 64-bit identifier to the list  *)
(* of streams and packet numbers it may stand for.  Identifiers are drawn  *)
(* from a key stream, so two entries can share one.                        *)
(*                                                                         *)
(* The table is the code's field "inner": a function from the identifiers  *)
(* in use to non-empty sequences of expected packets.                      *)
(***************************************************************************)
EXTENDS Naturals, SequencesExt

EmptyTable == <<>>

\* iter: the candidates for an identifier, in the order they are tried.
Candidates(inner, identifier) ==
  IF identifier \in DOMAIN inner THEN inner[identifier] ELSE <<>>

\* A packet and the identifier it is expected under.
Entry(packet, identifier) == [packet |-> packet, identifier |-> identifier]

\* add: the packet is appended to its list even when the list holds an equal
\* one.
AddOne(inner, e) ==
  [i \in DOMAIN inner \cup {e.identifier} |->
     IF i = e.identifier THEN Append(Candidates(inner, i), e.packet)
     ELSE inner[i]]

\* add, for each entry in turn.
AddAll(inner, entries) ==
  LET added[k \in 0 .. Len(entries)] ==
        IF k = 0 THEN inner ELSE AddOne(added[k - 1], entries[k])
  IN added[Len(entries)]

\* Vec::swap_remove: the last element takes the place of the removed one.
SwapRemove(list, index) == Front([list EXCEPT ![index] = Last(list)])

\* position, then swap_remove: the first entry equal to packet goes.
WithoutFirst(list, packet) ==
  IF packet \in ToSet(list)
  THEN SwapRemove(list, SelectInSeq(list, LAMBDA x : x = packet))
  ELSE list

\* remove: an identifier whose list becomes empty leaves the table.
RemoveOne(inner, e) ==
  LET list == WithoutFirst(Candidates(inner, e.identifier), e.packet)
  IN [i \in {j \in DOMAIN inner : j = e.identifier => list # <<>>} |->
        IF i = e.identifier THEN list ELSE inner[i]]

\* remove, for each entry in turn.
RemoveAll(inner, entries) ==
  LET removed[k \in 0 .. Len(entries)] ==
        IF k = 0 THEN inner ELSE RemoveOne(removed[k - 1], entries[k])
  IN removed[Len(entries)]
=============================================================================
