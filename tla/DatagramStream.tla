---------------------------- MODULE DatagramStream ----------------------------
(***************************************************************************)
(* One direction of a Stream (src/src/stream.rs) between two agents that   *)
(* share its key: the sender numbers its packets and labels each with the  *)
(* identifier generated for that number; the receiver looks a packet up by *)
(* its identifier in the packets it expects, decrypts it with the nonce of *)
(* the expected number, and slides its window.                             *)
(*                                                                         *)
(* The network is the set of packets ever sent.  It never shrinks, so a    *)
(* packet may be received late, early, several times or not at all.        *)
(*                                                                         *)
(* The n-th identifier of the direction is modelled by n, and the result   *)
(* of encryption by the nonce used: a packet decrypts exactly under the    *)
(* nonce it was encrypted with.  Two identifiers that happen to be equal   *)
(* (64 random bits) are the business of module Agent.                      *)
(***************************************************************************)
EXTENDS ReceiveWindow

CONSTANTS
  MaxSend,         \* bound on outgoing_message_index
  OverflowChecks   \* TRUE in a build where 1u64 << 64 panics

ASSUME StreamAssumption ==
  /\ MaxSend \in Nat
  /\ OverflowChecks \in BOOLEAN

VARIABLES
  outgoing_message_index,
  outgoing_message_identifiers,
  network,                      \* packets sent so far
  incoming_message_mask_start,
  incoming_message_mask,
  expected,                     \* numbers in upcoming_packets for this stream
  accepted,                     \* numbers decrypted and handed to the agent
  deliveries,                   \* how many packets were handed to the agent
  panicked

senderVars == <<outgoing_message_index, outgoing_message_identifiers, network>>

windowVars == <<incoming_message_mask_start, incoming_message_mask, expected>>

vars == <<senderVars, windowVars, accepted, deliveries, panicked>>

Packet == [identifier : Nat, nonce : Nat]

-----------------------------------------------------------------------------
(* The stream as maybe_new leaves it at both ends.                         *)

Init ==
  /\ outgoing_message_index = 0
  /\ outgoing_message_identifiers = [i \in 0 .. Batch - 1 |-> 0]
  /\ network = {}
  /\ incoming_message_mask_start = 0
  /\ incoming_message_mask = Bits
  /\ expected = Bits
  /\ accepted = {}
  /\ deliveries = 0
  /\ panicked = FALSE

-----------------------------------------------------------------------------
(* The sender.                                                             *)

\* Fault: the buffer is filled once and reused.
RefilledOnce ==
  IF outgoing_message_index = 0
  THEN [i \in 0 .. Batch - 1 |-> outgoing_message_index + i]
  ELSE outgoing_message_identifiers

\* The buffer of identifiers when the next one is taken: a fresh batch
\* whenever the index is a multiple of the batch size.
Refilled ==
  IF outgoing_message_index % Batch = 0
  THEN [i \in 0 .. Batch - 1 |-> outgoing_message_index + i]
  ELSE outgoing_message_identifiers

ProduceOutgoingIdentifier ==
  /\ outgoing_message_index < MaxSend
  /\ outgoing_message_identifiers' = Refilled
  /\ outgoing_message_index' = outgoing_message_index + 1

NextPacket ==
  [identifier |-> Refilled[outgoing_message_index % Batch],
   nonce      |-> outgoing_message_index]

Send ==
  /\ ProduceOutgoingIdentifier
  /\ network' = network \cup {NextPacket}
  /\ UNCHANGED <<windowVars, accepted, deliveries, panicked>>

\* send_to takes the identifier before ContentPacket::prepare looks at the
\* payload: a payload that prepare refuses uses up a number.
SendRefused ==
  /\ ProduceOutgoingIdentifier
  /\ UNCHANGED <<network, windowVars, accepted, deliveries, panicked>>

-----------------------------------------------------------------------------
(* The receiver.                                                           *)

\* The packet is expected, and the nonce of the expected number decrypts it.
Recognized(p) == p.identifier \in expected /\ p.nonce = p.identifier

Panics(n) ==
  \/ BeyondWindow(incoming_message_mask_start, n)
  \/ OverflowChecks /\ ShiftOverflows(incoming_message_mask_start, n)

\* Fault: the received packet itself stays expected.
GotIncomingPacketKept(n) ==
  LET start == incoming_message_mask_start
      mask  == Cleared(start, incoming_message_mask, n)
  IN /\ incoming_message_mask_start' = MovedStart(start, mask)
     /\ incoming_message_mask' = MovedMask(mask)
     /\ expected' = (expected \cup Announced(start, mask))
                      \ Abandoned(start, mask)

\* Stream::got_incoming_packet for number n, then the removal of n from the
\* expected packets with which StreamCluster::got_incoming_packet ends.
GotIncomingPacket(n) ==
  LET start == incoming_message_mask_start
      mask  == Cleared(start, incoming_message_mask, n)
  IN IF n < start
     THEN /\ expected' = expected \ {n}
          /\ UNCHANGED <<incoming_message_mask_start, incoming_message_mask>>
     ELSE /\ incoming_message_mask_start' = MovedStart(start, mask)
          /\ incoming_message_mask' = MovedMask(mask)
          /\ expected' = ((expected \cup Announced(start, mask))
                            \ Abandoned(start, mask)) \ {n}

Receive(p) ==
  /\ ~ panicked
  /\ Recognized(p)
  /\ IF Panics(p.identifier)
     THEN /\ panicked' = TRUE
          /\ UNCHANGED <<windowVars, accepted, deliveries>>
     ELSE /\ GotIncomingPacket(p.identifier)
          /\ accepted' = accepted \cup {p.identifier}
          /\ deliveries' = deliveries + 1
          /\ UNCHANGED panicked
  /\ UNCHANGED senderVars

Next == Send \/ SendRefused \/ \E p \in network : Receive(p)

Spec == Init /\ [][Next]_vars

-----------------------------------------------------------------------------
(* Properties.                                                             *)

\* The shape of every field of the two ends.
TypeOK ==
  /\ outgoing_message_index \in Nat
  /\ outgoing_message_identifiers \in [0 .. Batch - 1 -> Nat]
  /\ network \subseteq Packet
  /\ incoming_message_mask_start \in Nat
  /\ incoming_message_mask \subseteq Bits
  /\ expected \subseteq Nat
  /\ accepted \subseteq Nat
  /\ deliveries \in Nat
  /\ panicked \in BOOLEAN

\* The label of a packet and the nonce that encrypted it always belong to
\* the same number, although the code reads the label from a buffer that it
\* refills every Batch packets and the nonce from the index.
LabelsMatchNonces == \A p \in network : p.identifier = p.nonce

\* Two structures, updated at different points of got_incoming_packet, tell
\* the same story: the expected numbers are exactly the set bits of the mask.
WindowMatchesExpected ==
  expected = {incoming_message_mask_start + i : i \in incoming_message_mask}

\* Within one stream the panic "we did not generate this far ahead" and the
\* overflowing shift next to it are out of reach, whatever the network does.
NeverAheadOfWindow == ~ panicked

\* Losing the packets after the newest one received does no harm as long as
\* fewer than Batch are lost in a row: the next Batch numbers are awaited,
\* even when the window has moved only once for a jump over several batches.
BurstTolerance ==
  \A n \in 0 .. MaxSend + Batch :
    /\ \A m \in accepted : m < n
    /\ n < Batch \/ \E m \in accepted : n <= m + Batch
    => n \in expected

\* A packet may be overtaken by at most Window - Lookahead - Batch later
\* numbers before the window gives it up (40 of them in the code).
ReorderTolerance ==
  \A n \in 0 .. incoming_message_mask_start + Window - 1 :
    n \notin accepted \cup expected =>
      \E m \in accepted : m - n > Window - Lookahead - Batch

\* A stream direction delivers every sent packet at most once, although the
\* network replays packets and the window forgets which it has seen.
Channel == INSTANCE AtMostOnceChannel WITH
             Numbers    <- 0 .. MaxSend,
             sent       <- {p.nonce : p \in network},
             delivered  <- accepted

AtMostOnce == Channel!Spec
=============================================================================
