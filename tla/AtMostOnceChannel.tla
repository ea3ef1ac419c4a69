-------------------------- MODULE AtMostOnceChannel --------------------------
(***************************************************************************)
(* What one direction of a stream promises to the two agents that share    *)
(* it: of the numbered messages that were sent, each is delivered at most  *)
(* once, in any order, and nothing else is ever delivered.  A message may  *)
(* never be delivered: there is no acknowledgement and no retransmission.  *)
(***************************************************************************)
EXTENDS Naturals

CONSTANT Numbers     \* the numbers a message may carry

VARIABLES
  sent,        \* numbers of the messages put on the wire
  delivered,   \* numbers of the messages handed to the receiving agent
  deliveries   \* how many times a message was handed over, in total

vars == <<sent, delivered, deliveries>>

Init ==
  /\ sent = {}
  /\ delivered = {}
  /\ deliveries = 0

Send(n) ==
  /\ n \notin sent
  /\ sent' = sent \cup {n}
  /\ UNCHANGED <<delivered, deliveries>>

Deliver(n) ==
  /\ n \in sent \ delivered
  /\ delivered' = delivered \cup {n}
  /\ deliveries' = deliveries + 1
  /\ UNCHANGED sent

Next == \E n \in Numbers : Send(n) \/ Deliver(n)

Spec == Init /\ [][Next]_vars
=============================================================================
