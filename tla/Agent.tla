-------------------------------- MODULE Agent --------------------------------
(***************************************************************************)
(* Agents that open streams with each other and send each other programs   *)
(* (src/src/agent.rs): initiation packets set up the keys, content packets *)
(* carry the programs, and every host calls handle_packet,                 *)
(* initiate_stream_with and send_to of its agent one at a time.            *)
(*                                                                         *)
(* The network delays, reorders and loses packets: a packet is received at *)
(* some time or never.  Content packets are delivered any number of times. *)
(* Initiation packets are delivered once, or any number of times if        *)
(* DuplicateInitiation.  An agent that restarts has lost everything but    *)
(* its identity: nothing is persisted.                                     *)
(*                                                                         *)
(* Identities are the numbers 1 .. Agents, ordered as is_greater_than      *)
(* orders them, and an agent's address is its identity: no host moves.     *)
(***************************************************************************)
EXTENDS StreamCluster

CONSTANTS
  Agents,               \* the identities, a set of numbers
  Initiators,           \* those whose host calls initiate_stream_with
  Payloads,             \* kinds of payload handed to send_to
  DuplicateInitiation,  \* TRUE if initiation packets may be repeated
  LoseConsumed,         \* TRUE if a packet leaves the network when handled
  MaxInitiations,       \* bound on the calls of initiate_stream_with
  MaxSends,             \* bound on the calls of send_to, all agents together
  MaxRestarts           \* bound on the restarts, all agents together

\* What is kept of a neighbor: the fields of a StreamCluster, and an address.
ClusterShape ==
  [neighbor                       : Agents,
   neighbor_is_lexico_later       : BOOLEAN,
   own_current_acknowledged       : BOOLEAN,
   own_current_seed               : Nat \cup {None},
   own_previous_seed              : Nat \cup {None},
   neighbor_current_key_material  : Nat \cup {None},
   neighbor_previous_key_material : Nat \cup {None},
   own_current_neighbor_current   : AnyStream \cup {None},
   own_current_neighbor_previous  : AnyStream \cup {None},
   own_previous_neighbor_current  : AnyStream \cup {None},
   own_previous_neighbor_previous : AnyStream \cup {None}]

NeighborShape == [address : Agents, streams : ClusterShape]

ASSUME AgentAssumption ==
  /\ Agents \subseteq Nat
  /\ Initiators \subseteq Agents
  /\ Payloads \subseteq {"program", "unaligned", "oversized"}
  /\ DuplicateInitiation \in BOOLEAN
  /\ LoseConsumed \in BOOLEAN
  /\ MaxSends \in Nat
  /\ None \notin NeighborShape

VARIABLES
  neighbors,     \* neighbors[a][b]: what agent a keeps of b, or None
  upcoming,      \* upcoming[a]: a's table upcoming_packets
  network,       \* packets under way
  tasks,         \* programs handed to execute
  executions,    \* how many times execute was called, a ghost
  sent,          \* content packets sent so far, a ghost
  seeds,         \* number of seeds drawn so far: each is a new one
  calls,         \* how often each bounded step was taken
  panicked       \* agents whose process has ended in a panic

vars == <<neighbors, upcoming, network, tasks, executions, sent, seeds, calls,
          panicked>>

Init ==
  /\ neighbors = [a \in Agents |-> [b \in Agents |-> None]]
  /\ upcoming = [a \in Agents |-> EmptyTable]
  /\ network = {}
  /\ tasks = {}
  /\ executions = 0
  /\ sent = {}
  /\ seeds = 0
  /\ calls = [initiate |-> 0, send |-> 0, restart |-> 0]
  /\ panicked = {}

-----------------------------------------------------------------------------
(* Packets.                                                                *)

\* An initiation packet is shorter than every content packet, which is how
\* handle_packet tells them apart; "kind" stands for that.
InitiationPacket(from, to, seed) ==
  [kind |-> "initiation", source |-> from, to |-> to, key_material |-> seed]

ContentPacket(from, to, stream, payload, uid) ==
  [kind       |-> "content",
   to         |-> to,
   identifier |-> Identifier(stream, "Outgoing", stream.outgoing_message_index),
   key        |-> stream.key,
   nonce      |-> OutgoingNonce(stream),
   message    |-> [source |-> from, to |-> to, uid |-> uid,
                   payload |-> payload]]

Handled(p) ==
  IF LoseConsumed \/ (p.kind = "initiation" /\ ~ DuplicateInitiation)
  THEN network \ {p} ELSE network

Running(a) == a \notin panicked

-----------------------------------------------------------------------------
(* What the host asks for.                                                 *)

\* initiate_stream_with: whatever was known of the neighbor is replaced.
InitiateStreamWith(a, b) ==
  /\ Running(a)
  /\ calls.initiate < MaxInitiations
  /\ LET fresh == NewCluster(b, b > a)
     IN /\ neighbors' = [neighbors EXCEPT ![a][b] =
                           [address |-> b, streams |-> PushOwnSeed(fresh, seeds)]]
        /\ upcoming' = [upcoming EXCEPT ![a] =
                          UpcomingAfterOwnSeed(@, fresh, seeds)]
  /\ network' = network \cup {InitiationPacket(a, b, seeds)}
  /\ seeds' = seeds + 1
  /\ calls' = [calls EXCEPT !.initiate = @ + 1]
  /\ UNCHANGED <<tasks, executions, sent, panicked>>

\* send_to: the identifier is taken before prepare refuses a payload whose
\* length is not a multiple of four.
SendTo(a, b, payload) ==
  /\ Running(a)
  /\ calls.send < MaxSends
  /\ neighbors[a][b] # None
  /\ StreamReady(neighbors[a][b].streams)
  /\ LET c      == neighbors[a][b].streams
         packet == ContentPacket(a, neighbors[a][b].address, c[OutgoingSlot(c)],
                                 payload, calls.send)
     IN /\ neighbors' = [neighbors EXCEPT ![a][b].streams = IdentifierTaken(c)]
        /\ IF payload = "unaligned" THEN UNCHANGED <<network, sent>>
           ELSE /\ network' = network \cup {packet}
                /\ sent' = sent \cup {packet}
  /\ calls' = [calls EXCEPT !.send = @ + 1]
  /\ UNCHANGED <<upcoming, tasks, executions, seeds, panicked>>

\* Agent::new with the seed of the same identity.
Restart(a) ==
  /\ calls.restart < MaxRestarts
  /\ neighbors' = [neighbors EXCEPT ![a] = [b \in Agents |-> None]]
  /\ upcoming' = [upcoming EXCEPT ![a] = EmptyTable]
  /\ panicked' = panicked \ {a}
  /\ calls' = [calls EXCEPT !.restart = @ + 1]
  /\ UNCHANGED <<network, tasks, executions, sent, seeds>>

-----------------------------------------------------------------------------
(* handle_packet.                                                          *)

\* An initiation packet from a neighbor a has an entry for: its half of the
\* key is pushed, and nothing is sent back.
HandleInitiationKnown(a, p) ==
  LET b == p.source
      c == neighbors[a][b].streams
  IN /\ Running(a)
     /\ neighbors[a][b] # None
     /\ neighbors' = [neighbors EXCEPT ![a][b] =
                        [address |-> p.source,
                         streams |-> PushNeighborKeyMaterial(c, p.key_material)]]
     /\ upcoming' = [upcoming EXCEPT ![a] =
                       UpcomingAfterMaterial(@, c, p.key_material)]
     /\ network' = Handled(p)
     /\ UNCHANGED <<tasks, executions, sent, seeds, calls, panicked>>

\* Fault: the answer to the initiation packet is not sent.
HandleInitiationUnanswered(a, p) ==
  LET b    == p.source
      half == PushNeighborKeyMaterial(NewCluster(b, b > a), p.key_material)
  IN /\ Running(a)
     /\ neighbors[a][b] = None
     /\ neighbors' = [neighbors EXCEPT ![a][b] =
                        [address |-> p.source, streams |-> PushOwnSeed(half, seeds)]]
     /\ upcoming' = [upcoming EXCEPT ![a] = UpcomingAfterOwnSeed(@, half, seeds)]
     /\ network' = Handled(p)
     /\ seeds' = seeds + 1
     /\ UNCHANGED <<tasks, executions, sent, calls, panicked>>

\* Fault: the table is filled for a neighbor that is not kept.
HandleInitiationNotKept(a, p) ==
  LET half == PushNeighborKeyMaterial(NewCluster(p.source, p.source > a),
                                      p.key_material)
  IN /\ Running(a)
     /\ neighbors[a][p.source] = None
     /\ upcoming' = [upcoming EXCEPT ![a] = UpcomingAfterOwnSeed(@, half, seeds)]
     /\ network' = Handled(p) \cup {InitiationPacket(a, p.source, seeds)}
     /\ seeds' = seeds + 1
     /\ UNCHANGED <<neighbors, tasks, executions, sent, calls, panicked>>

\* An initiation packet from anyone else: a answers with a seed of its own
\* and sets up the stream at once.
HandleInitiationUnknown(a, p) ==
  LET b    == p.source
      half == PushNeighborKeyMaterial(NewCluster(b, b > a), p.key_material)
  IN /\ Running(a)
     /\ neighbors[a][b] = None
     /\ neighbors' = [neighbors EXCEPT ![a][b] =
                        [address |-> p.source, streams |-> PushOwnSeed(half, seeds)]]
     /\ upcoming' = [upcoming EXCEPT ![a] = UpcomingAfterOwnSeed(@, half, seeds)]
     /\ network' = Handled(p) \cup {InitiationPacket(a, b, seeds)}
     /\ seeds' = seeds + 1
     /\ UNCHANGED <<tasks, executions, sent, calls, panicked>>

\* The entry a packet is taken for, if any: the first candidate that
\* decrypts it, unless the search meets an entry for a neighbor that is not
\* there before, and ends with InternalError.
Match(a, p) ==
  LET Known(e) == neighbors[a][e.stream_with] # None
      Stops(e) == Known(e) =>
                    ClusterDecrypts(neighbors[a][e.stream_with].streams, e, p)
      candidates == Candidates(upcoming[a], p.identifier)
      first      == SelectInSeq(candidates, Stops)
  IN IF first = 0 THEN {} ELSE {e \in {candidates[first]} : Known(e)}

\* UnrecognizedPacket or InternalError: nothing changes.
HandleUnrecognized(a, p) ==
  /\ Running(a)
  /\ Match(a, p) = {}
  /\ network' = Handled(p)
  /\ UNCHANGED <<neighbors, upcoming, tasks, executions, sent, seeds, calls,
                 panicked>>

\* The number of the entry is used up, then the program is loaded, which
\* fails if it is too large, and handed to execute in the neighbor's name.
Execute(a, p, e) ==
  LET b == e.stream_with
      c == neighbors[a][b].streams
  IN /\ neighbors' = [neighbors EXCEPT ![a][b].streams = GotIncomingPacket(c, e)]
     /\ upcoming' = [upcoming EXCEPT ![a] =
                       UpcomingAfterPacket(@, c, e, p.identifier)]
     /\ IF p.message.payload = "oversized" THEN UNCHANGED <<tasks, executions>>
        ELSE /\ tasks' = tasks \cup
                           {[requestor |-> b, agent |-> a, message |-> p.message]}
             /\ executions' = executions + 1
     /\ UNCHANGED panicked

HandleContent(a, p) ==
  /\ Running(a)
  /\ \E e \in Match(a, p) :
       IF ClusterPanics(neighbors[a][e.stream_with].streams, e)
       THEN /\ panicked' = panicked \cup {a}
            /\ UNCHANGED <<neighbors, upcoming, tasks, executions>>
       ELSE Execute(a, p, e)
  /\ network' = Handled(p)
  /\ UNCHANGED <<sent, seeds, calls>>

HandlePacket(p) ==
  IF p.kind = "initiation"
  THEN HandleInitiationKnown(p.to, p) \/ HandleInitiationUnknown(p.to, p)
  ELSE HandleUnrecognized(p.to, p) \/ HandleContent(p.to, p)

Next ==
  \/ \E a \in Initiators, b \in Agents : a # b /\ InitiateStreamWith(a, b)
  \/ \E a \in Agents, b \in Agents, payload \in Payloads : SendTo(a, b, payload)
  \/ \E a \in Agents : Restart(a)
  \/ \E p \in network : HandlePacket(p)

Spec == Init /\ [][Next]_vars

\* How far packets may overtake each other without one being lost to the
\* window, which gives a number up when the look-ahead above it is touched,
\* and follows by one batch a packet however far that jumped
\* (stream.rs:147-171): 31 in the code.
Tolerance == Min({Window - Lookahead - Batch, (Window - 1) \div 2})

\* The network hands over no content packet ahead of one that was sent more
\* than Tolerance numbers before it under the same key.
InTime ==
  \A p \in network \ network', q \in network :
    p.kind = "content" /\ q.kind = "content" /\ p.key = q.key /\ p.to = q.to
    => p.nonce \div 2 - q.nonce \div 2 <= Tolerance

\* The hosts keep handing packets over: when packets leave the network as
\* they are handled, one that an agent could handle does not stay there for
\* ever.  The action says of HandlePacket only what it does to the network.
PacketTaken ==
  \E p \in network :
    /\ Running(p.to)
    /\ \/ network' = network \ {p}
       \/ /\ p.kind = "initiation"
          /\ network' = (network \ {p})
                          \cup {InitiationPacket(p.to, p.source, seeds)}

FairSpec ==
  /\ Init /\ [][Next /\ InTime]_vars
  /\ WF_network(PacketTaken /\ InTime)

-----------------------------------------------------------------------------
(* Properties.                                                             *)

\* The streams agent a shares with b.
StreamsWith(a, b) ==
  IF neighbors[a][b] = None THEN {} ELSE Streams(neighbors[a][b].streams)

\* The comment at the InternalError of handle_contentful_packet: whatever a
\* packet is expected for is still in the neighbor list.
ExpectedNamesNeighbor ==
  \A a \in Agents : \A i \in DOMAIN upcoming[a] :
    \A e \in ToSet(upcoming[a][i]) :
      e.stream_with # a /\ neighbors[a][e.stream_with] # None

\* As long as no initiation packet is repeated, no agent seals two packets
\* under one key and nonce, whichever end of the stream it is and however
\* often streams are set up again.
NonceUsedOnce ==
  \A p \in sent, q \in sent :
    p.key = q.key /\ p.nonce = q.nonce => p = q

\* As long as no initiation packet is repeated, whatever an agent awaits from
\* a neighbor it also recognizes: for every packet sent under a key that the
\* receiver holds and a number its window awaits, some candidate of the
\* packet's identifier decrypts it.  The two ends derive identifiers and
\* nonces separately, each from its own view of which identity is the later
\* one.
AwaitedIsRecognized ==
  \A p \in sent : \A s \in StreamsWith(p.to, p.message.source) :
    s.key = p.key
    /\ (p.nonce \div 2) - s.incoming_message_mask_start
          \in s.incoming_message_mask
    => Match(p.to, p) # {}

\* As long as no initiation packet is repeated, no packet reaches a stream
\* that did not announce it: the code's "we did not generate this far
\* ahead" is true.
NeverAheadOfWindow == panicked = {}

\* Between all agents, as long as no initiation packet is repeated: a program
\* is executed at most once, at the agent it was sent to and in the name of
\* the agent that sent it, through repeated content packets, identifiers that
\* collide, new keys and restarts.
Channel == INSTANCE AtMostOnceChannel WITH
  Numbers    <- {[source |-> a, to |-> b, uid |-> u, payload |-> l] :
                   a \in Agents, b \in Agents, u \in 0 .. MaxSends,
                   l \in Payloads},
  sent       <- {p.message : p \in sent},
  delivered  <- {[source |-> t.requestor, to |-> t.agent,
                  uid |-> t.message.uid, payload |-> t.message.payload] :
                   t \in tasks},
  deliveries <- executions

ExecutedAtMostOnce == Channel!Spec

-----------------------------------------------------------------------------
(* Liveness.  Nothing here is retransmitted or acknowledged, and a known   *)
(* neighbor's initiation packet is never answered, so these hold for one   *)
(* initiation over a network that reorders, within InTime, but does not    *)
(* lose.                                                                   *)

CurrentStream(a, b) ==
  IF neighbors[a][b] = None THEN None
  ELSE neighbors[a][b].streams.own_current_neighbor_current

\* A call of initiate_stream_with ends with both agents holding a current
\* stream under the same key.
StreamEstablished ==
  \A a \in Initiators, b \in Agents :
    (neighbors[a][b] # None) ~>
      /\ CurrentStream(a, b) # None
      /\ CurrentStream(b, a) # None
      /\ CurrentStream(a, b).key = CurrentStream(b, a).key

\* What the initiator sends over the stream is executed in the end, although
\* packets overtake each other and the answer to its initiation: the receiver
\* has been ready since before the initiator could send, and a window that
\* gives numbers up (stream.rs:147-171) leaves room for Tolerance of them.
InitiatorsProgramsRun ==
  \A u \in 0 .. MaxSends :
    (\E p \in sent : p.message.uid = u /\ p.message.source \in Initiators)
      ~> (\E t \in tasks : t.message.uid = u)
=============================================================================
