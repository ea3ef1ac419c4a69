------------------------------- MODULE Streams -------------------------------
(***************************************************************************)
(* A Stream (src/src/stream.rs) as a value: its key, the index of the next *)
(* outgoing message, and the window over the incoming ones.  Module        *)
(* DatagramStream looks at one stream on its own; here the operations are  *)
(* operators, for the modules that hold several streams and one table of   *)
(* expected packets.                                                       *)
(*                                                                         *)
(* A key pair is modelled by the seed it is made from, so a seed stands    *)
(* for its public key too, and the key that ed25519::exchange computes at  *)
(* both ends is the set of the two seeds.  The buffer of the next eight    *)
(* outgoing identifiers is not part of the value: theorem LabelsCorrect of *)
(* DatagramStream_proofs says that it yields the identifier of the index.  *)
(***************************************************************************)
EXTENDS ReceiveWindow, ExpectedPacketSet

CONSTANTS
  Keystream(_, _, _),   \* identifier at a position of ChaCha20(key, nonce)
  OverflowChecks,       \* TRUE in a build where 1u64 << 64 panics
  None                  \* the Option without a value

\* The fields of a Stream, short of the buffer.
AnyStream ==
  [key                         : SUBSET Nat,
   neighbor_is_lexico_later    : BOOLEAN,
   outgoing_message_index      : Nat,
   incoming_message_mask_start : Nat,
   incoming_message_mask       : SUBSET Bits]

\* None is neither a seed nor a stream.
ASSUME NoneAssumption == None \notin Nat \cup AnyStream

\* Fault: the key does not depend on the seeds.
ExchangeConstant(own_seed, neighbor_key_material) == {0}

\* The key of a stream: the same whichever end computes it.
Exchange(own_seed, neighbor_key_material) == {own_seed, neighbor_key_material}

\* A stream with nothing sent or received, or None unless both halves of
\* the key are known.
MaybeNew(own_seed, neighbor_key_material, neighbor_is_lexico_later) ==
  IF None \in {own_seed, neighbor_key_material} THEN None
  ELSE [key                         |-> Exchange(own_seed, neighbor_key_material),
        neighbor_is_lexico_later    |-> neighbor_is_lexico_later,
        outgoing_message_index      |-> 0,
        incoming_message_mask_start |-> 0,
        incoming_message_mask       |-> Bits]

\* Fault: both ends use the same nonce for their incoming identifiers.
IdentifierSameNonce(stream, direction, number) ==
  Keystream(stream.key, direction, number)

\* generate_identifiers: one nonce for each direction, chosen so that what
\* is incoming for the earlier identity is outgoing for the later one.
Identifier(stream, direction, number) ==
  Keystream(stream.key,
            (direction = "Incoming") = stream.neighbor_is_lexico_later,
            number)

\* Fault: the two directions share the nonces.
OutgoingNonceShared(stream) == stream.outgoing_message_index * 2

OutgoingNonce(stream) ==
  stream.outgoing_message_index * 2
    + (IF stream.neighbor_is_lexico_later THEN 1 ELSE 0)

\* Fault: the receiver takes its own parity for the sender's.
IncomingNonceOwnParity(stream, number) ==
  number * 2 + (IF stream.neighbor_is_lexico_later THEN 1 ELSE 0)

IncomingNonce(stream, number) ==
  number * 2 + (IF stream.neighbor_is_lexico_later THEN 0 ELSE 1)

\* The authenticated encryption opens exactly what was sealed under the same
\* key and nonce.
Decrypts(stream, number, packet) ==
  packet.key = stream.key /\ packet.nonce = IncomingNonce(stream, number)

-----------------------------------------------------------------------------
(* The entries of a stream in the table of expected packets.               *)

ExpectedPacket(stream, neighbor, number) ==
  [stream_with   |-> neighbor,
   stream_key    |-> stream.key,
   packet_number |-> number]

\* The entries for a range of consecutive numbers, in ascending order.
Entries(stream, neighbor, numbers) ==
  [i \in 1 .. Cardinality(numbers) |->
     LET n == Min(numbers) + i - 1
     IN Entry(ExpectedPacket(stream, neighbor, n),
              Identifier(stream, "Incoming", n))]

\* maybe_new announces a whole window for the stream it makes.
ExpectNew(upcoming, stream, neighbor) ==
  IF stream = None THEN upcoming
  ELSE AddAll(upcoming, Entries(stream, neighbor, Bits))

-----------------------------------------------------------------------------
(* got_incoming_packet for packet number n, in three parts.                *)

Panics(stream, n) ==
  \/ BeyondWindow(stream.incoming_message_mask_start, n)
  \/ OverflowChecks /\ ShiftOverflows(stream.incoming_message_mask_start, n)

Advanced(stream, n) ==
  LET start == stream.incoming_message_mask_start
      mask  == Cleared(start, stream.incoming_message_mask, n)
  IN IF n < start THEN stream
     ELSE [stream EXCEPT !.incoming_message_mask_start = MovedStart(start, mask),
                         !.incoming_message_mask       = MovedMask(mask)]

UpcomingAdvanced(upcoming, stream, neighbor, n) ==
  LET start == stream.incoming_message_mask_start
      mask  == Cleared(start, stream.incoming_message_mask, n)
  IN IF n < start THEN upcoming
     ELSE RemoveAll(AddAll(upcoming,
                           Entries(stream, neighbor, Announced(start, mask))),
                    Entries(stream, neighbor, Abandoned(start, mask)))
=============================================================================
