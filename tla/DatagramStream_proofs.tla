------------------------ MODULE DatagramStream_proofs ------------------------
(***************************************************************************)
(* Proofs about one direction of a stream, for every window size, batch    *)
(* size and look-ahead that WindowAssumption allows (64, 8 and 16 in the   *)
(* code), every bound on the number of messages and both kinds of build.   *)
(***************************************************************************)
EXTENDS DatagramStream, TLAPS

-----------------------------------------------------------------------------
(* Remainders, of which the solver finds little if the divisor is not a    *)
(* number.                                                                 *)

\* A number written as a multiple plus a small rest has that remainder.
LEMMA RemainderIs ==
  ASSUME NEW i \in Nat, NEW B \in Nat \ {0}, NEW q \in Int,
         NEW r \in 0 .. B - 1, i = B * q + r
  PROVE  i % B = r
<1>1. PICK p \in Int, s \in 0 .. B - 1 : s = i % B /\ i = B * p + s
  <2>1. /\ i \div B \in Int /\ i % B \in 0 .. B - 1
        /\ i = B * (i \div B) + (i % B)
    OBVIOUS
  <2> QED BY <2>1
<1>2. B * q + r = B * p + s BY <1>1
<1>3. CASE q >= p + 1
  <2>1. PICK k \in Nat : q = p + 1 + k BY <1>3
  <2>2. B * q = B * p + B + B * k /\ B * k >= 0 BY <2>1
  <2> QED BY <1>2, <2>2, B * q \in Int, B * p \in Int, B * k \in Int
<1>4. CASE p >= q + 1
  <2>1. PICK k \in Nat : p = q + 1 + k BY <1>4
  <2>2. B * p = B * q + B + B * k /\ B * k >= 0 BY <2>1
  <2> QED BY <1>2, <2>2, B * q \in Int, B * p \in Int, B * k \in Int
<1>5. CASE q = p
  <2>1. PICK z \in Int : z = B * q OBVIOUS
  <2>2. z + r = z + s BY <1>2, <1>5, <2>1
  <2> QED BY <1>1, <2>2
<1> QED BY <1>3, <1>4, <1>5

\* Counting on by one moves the remainder on by one, or wraps it to zero.
LEMMA NextRemainder ==
  ASSUME NEW i \in Nat, NEW B \in Nat \ {0}
  PROVE  (i + 1) % B = 0 \/ (i + 1) % B = (i % B) + 1
<1>1. PICK p \in Int, s \in 0 .. B - 1 : s = i % B /\ i = B * p + s
  <2>1. /\ i \div B \in Int /\ i % B \in 0 .. B - 1
        /\ i = B * (i \div B) + (i % B)
    OBVIOUS
  <2> QED BY <2>1
<1>2. CASE s < B - 1
  <2>1. i + 1 = B * p + (s + 1) BY <1>1
  <2> QED BY <1>1, <1>2, <2>1, RemainderIs, i + 1 \in Nat, s + 1 \in 0 .. B - 1
<1>3. CASE s = B - 1
  <2>1. i + 1 = B * (p + 1) + 0 BY <1>1, <1>3
  <2> QED BY <2>1, RemainderIs, i + 1 \in Nat, p + 1 \in Int, 0 \in 0 .. B - 1
<1> QED BY <1>1, <1>2, <1>3

-----------------------------------------------------------------------------
(* The inductive invariant.                                                *)

\* The buffer holds the batch that the index is in the middle of.
BufferHoldsBatch ==
  outgoing_message_index % Batch # 0 =>
    \A i \in 0 .. Batch - 1 :
      outgoing_message_identifiers[i]
        = outgoing_message_index - (outgoing_message_index % Batch) + i

SentBelowIndex ==
  /\ outgoing_message_index <= MaxSend
  /\ \A p \in network : p.nonce < outgoing_message_index

TopBatchAwaited == Window - Batch .. Window - 1 \subseteq incoming_message_mask

AcceptedBelowTop ==
  \A m \in accepted : m < incoming_message_mask_start + Window - Batch

AcceptedNotExpected == accepted \cap expected = {}

IInv ==
  /\ TypeOK
  /\ BufferHoldsBatch
  /\ SentBelowIndex
  /\ LabelsMatchNonces
  /\ NeverAheadOfWindow
  /\ WindowMatchesExpected
  /\ TopBatchAwaited
  /\ AcceptedBelowTop
  /\ AcceptedNotExpected
  /\ ReorderTolerance

\* What the refilled buffer and the position in it look like.
LEMMA RefilledType ==
  ASSUME TypeOK
  PROVE  /\ Refilled \in [0 .. Batch - 1 -> Nat]
         /\ outgoing_message_index % Batch \in 0 .. Batch - 1
BY WindowAssumption DEF TypeOK, Refilled

\* The label taken from the buffer is the number of the packet.
LEMMA LabelIsIndex ==
  ASSUME TypeOK, BufferHoldsBatch
  PROVE  Refilled[outgoing_message_index % Batch] = outgoing_message_index
<1>1. outgoing_message_index % Batch \in 0 .. Batch - 1 BY RefilledType
<1>2. CASE outgoing_message_index % Batch = 0
  BY <1>1, <1>2, WindowAssumption DEF Refilled, TypeOK
<1>3. CASE outgoing_message_index % Batch # 0
  BY <1>1, <1>3, WindowAssumption DEF Refilled, TypeOK, BufferHoldsBatch
<1> QED BY <1>2, <1>3

LEMMA InitIInv == Init => IInv
<1> SUFFICES ASSUME Init PROVE IInv
  OBVIOUS
<1>1. TypeOK
  <2>1. Bits \subseteq Nat BY WindowAssumption DEF Bits
  <2> QED BY <2>1, WindowAssumption DEF Init, TypeOK
<1>2. WindowMatchesExpected
  BY WindowAssumption DEF Init, WindowMatchesExpected, Bits
<1>3. ReorderTolerance
  BY WindowAssumption DEF Init, ReorderTolerance, Bits
<1>4. BufferHoldsBatch
  BY WindowAssumption DEF Init, BufferHoldsBatch
<1>5. /\ SentBelowIndex
      /\ LabelsMatchNonces
      /\ NeverAheadOfWindow
      /\ TopBatchAwaited
      /\ AcceptedBelowTop
      /\ AcceptedNotExpected
  BY WindowAssumption, StreamAssumption
     DEF Init, SentBelowIndex, LabelsMatchNonces, NeverAheadOfWindow,
         TopBatchAwaited, AcceptedBelowTop, AcceptedNotExpected, Bits
<1> QED BY <1>1, <1>2, <1>3, <1>4, <1>5 DEF IInv

\* Taking an identifier, for a packet that is sent or for one that is not.
LEMMA ProduceKeepsBuffer ==
  ASSUME IInv, ProduceOutgoingIdentifier
  PROVE  BufferHoldsBatch'
<1> DEFINE i == outgoing_message_index
<1>1. i \in Nat /\ i' = i + 1 /\ outgoing_message_identifiers' = Refilled
  BY DEF IInv, TypeOK, ProduceOutgoingIdentifier
<1>2. PICK r \in 0 .. Batch - 1 : r = i % Batch
  BY RefilledType DEF IInv
<1>3. i' % Batch = 0 \/ i' % Batch = r + 1
  BY <1>1, <1>2, NextRemainder, WindowAssumption
<1>4. SUFFICES ASSUME i' % Batch = r + 1, NEW k \in 0 .. Batch - 1
               PROVE  Refilled[k] = i - r + k
  BY <1>1, <1>2, <1>3, WindowAssumption DEF BufferHoldsBatch
<1>5. CASE r = 0 BY <1>1, <1>2, <1>5 DEF Refilled
<1>6. CASE r # 0
  BY <1>1, <1>2, <1>6 DEF Refilled, IInv, BufferHoldsBatch
<1> QED BY <1>5, <1>6

\* The part of the invariant that speaks of the receiver only.
ReceiverInv ==
  /\ NeverAheadOfWindow
  /\ WindowMatchesExpected
  /\ TopBatchAwaited
  /\ AcceptedBelowTop
  /\ AcceptedNotExpected
  /\ ReorderTolerance

LEMMA SendKeepsIInv ==
  ASSUME IInv, Send
  PROVE  IInv'
<1> DEFINE i == outgoing_message_index
<1>1. NextPacket = [identifier |-> i, nonce |-> i] /\ i \in Nat
  BY LabelIsIndex DEF NextPacket, IInv, TypeOK
<1>2. network' = network \cup {NextPacket} /\ i' = i + 1 /\ i < MaxSend
  BY DEF Send, ProduceOutgoingIdentifier
<1>3. UNCHANGED <<windowVars, accepted, deliveries, panicked>>
  BY DEF Send
<1>4. TypeOK'
  BY <1>1, <1>2, <1>3, RefilledType
     DEF IInv, TypeOK, Packet, Send, ProduceOutgoingIdentifier, windowVars
<1>5. BufferHoldsBatch' BY ProduceKeepsBuffer DEF Send
<1>6. SentBelowIndex'
  BY <1>1, <1>2, StreamAssumption DEF IInv, TypeOK, Packet, SentBelowIndex
<1>7. LabelsMatchNonces' BY <1>1, <1>2 DEF IInv, LabelsMatchNonces
<1>8. ReceiverInv'
  BY <1>3
     DEF IInv, ReceiverInv, windowVars, NeverAheadOfWindow,
         WindowMatchesExpected, TopBatchAwaited, AcceptedBelowTop,
         AcceptedNotExpected, ReorderTolerance
<1> QED BY <1>4, <1>5, <1>6, <1>7, <1>8 DEF IInv, ReceiverInv

LEMMA SendRefusedKeepsIInv ==
  ASSUME IInv, SendRefused
  PROVE  IInv'
<1>1. UNCHANGED <<network, windowVars, accepted, deliveries, panicked>>
  BY DEF SendRefused
<1>2. /\ outgoing_message_index \in Nat
      /\ outgoing_message_index' = outgoing_message_index + 1
      /\ outgoing_message_index < MaxSend
      /\ outgoing_message_identifiers' = Refilled
  BY DEF SendRefused, ProduceOutgoingIdentifier, IInv, TypeOK
<1>3. TypeOK'
  BY <1>1, <1>2, RefilledType DEF IInv, TypeOK, windowVars
<1>4. BufferHoldsBatch' BY ProduceKeepsBuffer DEF SendRefused
<1>5. SentBelowIndex'
  BY <1>1, <1>2, StreamAssumption DEF IInv, TypeOK, Packet, SentBelowIndex
<1>6. LabelsMatchNonces' BY <1>1 DEF IInv, LabelsMatchNonces
<1>7. ReceiverInv'
  BY <1>1
     DEF IInv, ReceiverInv, windowVars, NeverAheadOfWindow,
         WindowMatchesExpected, TopBatchAwaited, AcceptedBelowTop,
         AcceptedNotExpected, ReorderTolerance
<1> QED BY <1>3, <1>4, <1>5, <1>6, <1>7 DEF IInv, ReceiverInv

-----------------------------------------------------------------------------
(* The receiver's step.                                                    *)

\* An expected number stands for a set bit, so neither the panic nor the
\* overflow nor the early return applies to it.
LEMMA ExpectedIsInWindow ==
  ASSUME IInv, NEW n \in expected
  PROVE  /\ n \in Nat
         /\ n - incoming_message_mask_start \in incoming_message_mask
         /\ n - incoming_message_mask_start \in Bits
         /\ n >= incoming_message_mask_start
         /\ ~ Panics(n)
         /\ BitOf(incoming_message_mask_start, n)
              = n - incoming_message_mask_start
BY WindowAssumption
   DEF IInv, TypeOK, WindowMatchesExpected, Bits, Panics, BeyondWindow,
       ShiftOverflows, BitOf

LEMMA ReceiveKeepsIInv ==
  ASSUME IInv, NEW p \in network, Receive(p)
  PROVE  IInv'
<1> DEFINE n     == p.identifier
           start == incoming_message_mask_start
           bit   == n - start
           mask  == incoming_message_mask \ {bit}
<1>1. n \in expected BY DEF Receive, Recognized
<1>2. /\ n \in Nat /\ start \in Nat /\ n >= start
      /\ bit \in incoming_message_mask /\ bit \in Bits
      /\ mask \subseteq Bits
      /\ Cleared(start, incoming_message_mask, n) = mask
      /\ ~ Panics(n)
  BY <1>1, ExpectedIsInWindow DEF IInv, TypeOK, Cleared
<1>3. /\ incoming_message_mask_start' = MovedStart(start, mask)
      /\ incoming_message_mask' = MovedMask(mask)
      /\ expected' = ((expected \cup Announced(start, mask))
                        \ Abandoned(start, mask)) \ {n}
      /\ accepted' = accepted \cup {n}
      /\ deliveries' = deliveries + 1
      /\ panicked' = panicked
      /\ UNCHANGED senderVars
  <2>1. /\ GotIncomingPacket(n)
        /\ accepted' = accepted \cup {n}
        /\ deliveries' = deliveries + 1
        /\ panicked' = panicked
        /\ UNCHANGED senderVars
    BY <1>2 DEF Receive
  <2>2. ~ (n < start) BY <1>2
  <2> QED BY <1>2, <2>1, <2>2, Zenon DEF GotIncomingPacket
<1>4. TypeOK'
  <2>1. MovedStart(start, mask) \in Nat
    BY <1>2, WindowAssumption DEF MovedStart
  <2>2. MovedMask(mask) \subseteq Bits
    BY <1>2 DEF MovedMask, Shifted
  <2>3. Announced(start, mask) \subseteq Nat
    BY <1>2, WindowAssumption DEF Announced
  <2>4. /\ outgoing_message_index' \in Nat
        /\ outgoing_message_identifiers' \in [0 .. Batch - 1 -> Nat]
        /\ network' \subseteq Packet
    BY <1>3 DEF IInv, TypeOK, senderVars
  <2>5. expected' \subseteq Nat BY <1>3, <2>3 DEF IInv, TypeOK
  <2>6. /\ accepted' \subseteq Nat
        /\ deliveries' \in Nat
    <3>1. accepted \subseteq Nat /\ deliveries \in Nat BY DEF IInv, TypeOK
    <3>2. accepted' \subseteq Nat BY <1>2, <1>3, <3>1
    <3>3. deliveries' \in Nat BY <1>3, <3>1
    <3> QED BY <3>2, <3>3
  <2>7. panicked' \in BOOLEAN BY <1>3, Zenon DEF IInv, TypeOK
  <2>8. incoming_message_mask_start' \in Nat BY <1>3, <2>1
  <2>9. incoming_message_mask' \subseteq Bits BY <1>3, <2>2
  <2> QED BY <2>4, <2>5, <2>6, <2>7, <2>8, <2>9, Zenon DEF TypeOK
<1>5. BufferHoldsBatch' /\ SentBelowIndex' /\ LabelsMatchNonces'
  BY <1>3
     DEF IInv, senderVars, BufferHoldsBatch, SentBelowIndex,
         LabelsMatchNonces
<1>6. NeverAheadOfWindow' BY <1>3 DEF IInv, NeverAheadOfWindow
<1>7. WindowMatchesExpected'
  <2>1. CASE ~ MustMove(mask)
    BY <1>2, <1>3, <2>1
       DEF IInv, TypeOK, WindowMatchesExpected, MovedStart, MovedMask,
           Announced, Abandoned, Bits
  <2>2. CASE MustMove(mask)
    <3>1. /\ incoming_message_mask_start' = start + Batch
          /\ incoming_message_mask' = Shifted(mask)
      BY <1>3, <2>2 DEF MovedStart, MovedMask
    <3>2. \A k \in Int : k \in expected' <=>
            \/ k \in start + Window .. start + Window + Batch - 1
            \/ k >= start + Batch /\ k - start \in mask
      <4>1. \A k \in Int : k \in expected /\ k # n <=> k - start \in mask
        BY <1>2 DEF IInv, WindowMatchesExpected, Bits
      <4>2. expected' = ((expected \cup Announced(start, mask))
                            \ Abandoned(start, mask)) \ {n}
        BY <1>3
      <4>3. CASE mask # {}
        BY <1>2, <2>2, <4>1, <4>2, <4>3, WindowAssumption
           DEF Announced, Abandoned, Bits
      <4>4. CASE mask = {}
        BY <1>2, <2>2, <4>1, <4>2, <4>4, WindowAssumption
           DEF Announced, Abandoned, Bits
      <4> QED BY <4>3, <4>4
    <3>3. expected' \subseteq Int
      BY <1>4 DEF TypeOK
    <3>4. \A i \in Bits :
            i \in Shifted(mask) <=> start + Batch + i \in expected'
      BY <1>2, <3>2, WindowAssumption DEF Shifted, Bits
    <3>5. \A k \in expected' : k - start - Batch \in Bits
      BY <1>2, <3>2, <3>3, WindowAssumption DEF Bits
    <3>6. Shifted(mask) \subseteq Int
      BY WindowAssumption DEF Shifted, Bits
    <3>7. \A i \in Shifted(mask) : start + Batch + i \in expected'
      BY <3>4 DEF Shifted
    <3>8. \A k \in expected' :
            \E i \in Shifted(mask) : k = start + Batch + i
      <4> SUFFICES ASSUME NEW k \in expected'
                   PROVE  \E i \in Shifted(mask) : k = start + Batch + i
        OBVIOUS
      <4> DEFINE i == k - start - Batch
      <4>1. i \in Bits BY <3>5
      <4>2. k = start + Batch + i BY <1>2, <3>3, WindowAssumption
      <4>3. i \in Shifted(mask) BY <3>4, <4>1, <4>2
      <4> QED BY <4>2, <4>3
    <3> QED
      BY <3>1, <3>7, <3>8, Zenon DEF WindowMatchesExpected
  <2> QED BY <2>1, <2>2
<1>8. TopBatchAwaited'
  BY <1>2, <1>3, WindowAssumption
     DEF IInv, TypeOK, TopBatchAwaited, MovedMask, MustMove, Shifted, Bits
<1>9. AcceptedBelowTop'
  BY <1>2, <1>3, WindowAssumption
     DEF IInv, TypeOK, AcceptedBelowTop, MovedStart, MustMove, Bits
<1>10. AcceptedNotExpected'
  <2>1. \A m \in accepted : m \notin Announced(start, mask)
    BY <1>2, WindowAssumption DEF IInv, TypeOK, AcceptedBelowTop, Announced
  <2> QED BY <1>3, <2>1 DEF IInv, AcceptedNotExpected
<1>11. ReorderTolerance'
  <2>1. CASE ~ MustMove(mask)
    <3>1. /\ incoming_message_mask_start' = start
          /\ accepted' \cup expected' = accepted \cup expected
      BY <1>1, <1>3, <2>1 DEF MovedStart, Announced, Abandoned
    <3>2. accepted \subseteq accepted' BY <1>3
    <3> QED BY <3>1, <3>2 DEF IInv, ReorderTolerance
  <2>2. CASE MustMove(mask)
    <3>1. SUFFICES ASSUME NEW k \in 0 .. start + Batch + Window - 1,
                          k \notin accepted' \cup expected'
                   PROVE  \E m \in accepted' :
                            m - k > Window - Lookahead - Batch
      BY <1>2, <1>3, <2>2 DEF ReorderTolerance, MovedStart
    <3>2. CASE k >= start + Window
      BY <1>2, <1>3, <2>2, <3>1, <3>2, WindowAssumption
         DEF Announced, Abandoned
    <3>3. CASE k < start + Window /\ k \notin expected
      <4>1. k \in 0 .. start + Window - 1 BY <1>2, <3>1, <3>3, WindowAssumption
      <4>2. k \notin accepted \cup expected BY <1>3, <3>1, <3>3
      <4> QED BY <1>3, <4>1, <4>2 DEF IInv, ReorderTolerance
    <3>4. CASE k \in expected
      <4>1. k \in start .. start + Batch - 1 /\ k # n
        BY <1>2, <1>3, <2>2, <3>1, <3>4 DEF Abandoned
      <4>2. k - start \in mask
        BY <1>2, <3>4, <4>1, ExpectedIsInWindow
      <4>3. PICK j \in Window - Lookahead .. Window - 1 : j \notin mask
        BY <1>2, <2>2, <4>1, <4>2, WindowAssumption DEF MustMove
      <4>4. start + j = n \/ start + j \notin expected
        BY <1>2, <4>3, ExpectedIsInWindow, WindowAssumption
      <4>5. CASE start + j \in accepted'
        BY <1>2, <4>1, <4>3, <4>5, WindowAssumption
      <4>6. CASE start + j \notin accepted'
        <5>1. start + j \notin accepted \cup expected
          BY <1>3, <4>4, <4>6
        <5>2. PICK m \in accepted :
                m - (start + j) > Window - Lookahead - Batch
          BY <1>2, <4>3, <5>1, WindowAssumption DEF IInv, ReorderTolerance
        <5>3. m \in Nat BY DEF IInv, TypeOK
        <5> QED BY <1>2, <1>3, <4>1, <4>3, <5>2, <5>3, WindowAssumption
      <4> QED BY <4>5, <4>6
    <3> QED BY <3>2, <3>3, <3>4, <1>2, WindowAssumption
  <2> QED BY <2>1, <2>2
<1> QED
  BY <1>4, <1>5, <1>6, <1>7, <1>8, <1>9, <1>10, <1>11 DEF IInv

-----------------------------------------------------------------------------
(* The results.                                                            *)

LEMMA StutterKeepsIInv ==
  ASSUME IInv, UNCHANGED vars
  PROVE  IInv'
BY DEF vars, senderVars, windowVars, IInv, TypeOK, BufferHoldsBatch,
       SentBelowIndex, LabelsMatchNonces, NeverAheadOfWindow,
       WindowMatchesExpected, TopBatchAwaited, AcceptedBelowTop,
       AcceptedNotExpected, ReorderTolerance

\* The invariant is inductive: every handler and every network preserve it.
LEMMA Invariance == Spec => []IInv
<1>1. Init => IInv BY InitIInv
<1>2. IInv /\ [Next]_vars => IInv'
  <2> SUFFICES ASSUME IInv, [Next]_vars PROVE IInv'
    OBVIOUS
  <2>1. CASE Send BY <2>1, SendKeepsIInv
  <2>2. CASE SendRefused BY <2>2, SendRefusedKeepsIInv
  <2>3. CASE \E p \in network : Receive(p) BY <2>3, ReceiveKeepsIInv
  <2>4. CASE UNCHANGED vars BY <2>4, StutterKeepsIInv
  <2> QED BY <2>1, <2>2, <2>3, <2>4 DEF Next
<1> QED BY <1>1, <1>2, PTL DEF Spec

\* Every field of both ends of the stream keeps its type.
THEOREM TypeCorrect == Spec => []TypeOK
<1>1. IInv => TypeOK BY DEF IInv
<1> QED BY <1>1, Invariance, PTL

\* The label of every packet on the wire is the one for its nonce: refilling
\* the buffer every Batch packets never gets out of step with the index.
THEOREM LabelsCorrect == Spec => []LabelsMatchNonces
<1>1. IInv => LabelsMatchNonces BY DEF IInv
<1> QED BY <1>1, Invariance, PTL

\* The expected packets and the mask never disagree.
THEOREM WindowCoherent == Spec => []WindowMatchesExpected
<1>1. IInv => WindowMatchesExpected BY DEF IInv
<1> QED BY <1>1, Invariance, PTL

\* The panic in got_incoming_packet and the shift by 64 are unreachable as
\* long as one key is used by one stream.
THEOREM NoPanic == Spec => []NeverAheadOfWindow
<1>1. IInv => NeverAheadOfWindow BY DEF IInv
<1> QED BY <1>1, Invariance, PTL

\* Up to Window - Lookahead - Batch later packets may overtake one.
THEOREM ToleratesReordering == Spec => []ReorderTolerance
<1>1. IInv => ReorderTolerance BY DEF IInv
<1> QED BY <1>1, Invariance, PTL

\* The next Batch packets after the newest one received are always awaited:
\* they lie in the window, and one that were given up would need a newer
\* accepted packet.
THEOREM ToleratesBursts == Spec => []BurstTolerance
<1>1. IInv => BurstTolerance
  <2> SUFFICES ASSUME IInv,
                      NEW n \in 0 .. MaxSend + Batch,
                      \A m \in accepted : m < n,
                      n < Batch \/ \E m \in accepted : n <= m + Batch
               PROVE  n \in expected
    BY DEF BurstTolerance
  <2>1. /\ accepted \subseteq Nat
        /\ incoming_message_mask_start \in Nat
        /\ n \in Nat
    BY WindowAssumption, StreamAssumption DEF IInv, TypeOK
  <2>2. n \in 0 .. incoming_message_mask_start + Window - 1
    <3>1. CASE n < Batch BY <2>1, <3>1, WindowAssumption
    <3>2. CASE \E m \in accepted : n <= m + Batch
      BY <2>1, <3>2, WindowAssumption DEF IInv, AcceptedBelowTop
    <3> QED BY <3>1, <3>2
  <2>3. n \notin accepted BY <2>1
  <2>4. SUFFICES ASSUME n \notin expected PROVE FALSE
    OBVIOUS
  <2>5. PICK m \in accepted : m - n > Window - Lookahead - Batch
    BY <2>2, <2>3, <2>4 DEF IInv, ReorderTolerance
  <2> QED BY <2>1, <2>5, WindowAssumption
<1> QED BY <1>1, Invariance, PTL

\* The stream implements the at-most-once channel: no label or nonce is ever
\* used for two packets, nothing is delivered that was not sent, and nothing
\* is delivered twice, although the network may replay every packet.
THEOREM DeliversAtMostOnce == Spec => AtMostOnce
<1>1. Init => Channel!Init
  BY DEF Init, Channel!Init
<1>2. IInv /\ [Next]_vars => [Channel!Next]_Channel!vars
  <2> SUFFICES ASSUME IInv, [Next]_vars
               PROVE  Channel!Next \/ UNCHANGED Channel!vars
    OBVIOUS
  <2>1. CASE Send
    <3>1. PICK i \in 0 .. MaxSend : i = outgoing_message_index
      BY <2>1, StreamAssumption
         DEF Send, ProduceOutgoingIdentifier, IInv, TypeOK
    <3>2. /\ network' = network \cup {NextPacket}
          /\ NextPacket.nonce = i
          /\ UNCHANGED <<accepted, deliveries>>
      BY <2>1, <3>1 DEF Send, NextPacket
    <3>3. i \notin {p.nonce : p \in network}
      BY <3>1 DEF IInv, SentBelowIndex
    <3>4. {p.nonce : p \in network}' = {p.nonce : p \in network} \cup {i}
      BY <3>2
    <3>5. Channel!Send(i) BY <3>2, <3>3, <3>4 DEF Channel!Send
    <3> QED BY <3>5 DEF Channel!Next
  <2>2. CASE SendRefused
    <3>1. UNCHANGED <<network, accepted, deliveries>>
      BY <2>2 DEF SendRefused
    <3> QED BY <3>1 DEF Channel!vars
  <2>3. CASE \E p \in network : Receive(p)
    <3>1. PICK p \in network : Receive(p) BY <2>3
    <3> DEFINE n == p.identifier
    <3>2. n \in expected /\ p.nonce = n
      BY <3>1 DEF Receive, Recognized
    <3>3. /\ accepted' = accepted \cup {n}
          /\ deliveries' = deliveries + 1
          /\ UNCHANGED network
      BY <3>1, <3>2, ExpectedIsInWindow DEF Receive, senderVars
    <3>4. n \in {q.nonce : q \in network} BY <3>2
    <3>5. n \notin accepted BY <3>2 DEF IInv, AcceptedNotExpected
    <3>6. n \in 0 .. MaxSend
      <4>1. n \in Nat BY <3>2, ExpectedIsInWindow
      <4>2. n < outgoing_message_index BY <3>2 DEF IInv, SentBelowIndex
      <4>3. /\ outgoing_message_index \in Nat
            /\ outgoing_message_index <= MaxSend
        BY DEF IInv, SentBelowIndex, TypeOK
      <4> QED BY <4>1, <4>2, <4>3, StreamAssumption
    <3>7. Channel!Deliver(n) BY <3>3, <3>4, <3>5 DEF Channel!Deliver
    <3> QED BY <3>6, <3>7 DEF Channel!Next
  <2>4. CASE UNCHANGED vars
    BY <2>4 DEF vars, senderVars, Channel!vars
  <2> QED BY <2>1, <2>2, <2>3, <2>4 DEF Next
<1> QED BY <1>1, <1>2, Invariance, PTL DEF Spec, AtMostOnce, Channel!Spec
=============================================================================
