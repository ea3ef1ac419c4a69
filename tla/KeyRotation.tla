----------------------------- MODULE KeyRotation -----------------------------
(***************************************************************************)
(* One StreamCluster and the table of expected packets over its lifetime:  *)
(* own seeds and neighbor key material are pushed in any order, packets    *)
(* are sent, and genuine packets of any stream that ever existed arrive in *)
(* any order, late and more than once.                                     *)
(*                                                                         *)
(* Every seed and every key material is new, as random 32-byte values are: *)
(* own seeds are odd, the neighbor's are even.                             *)
(***************************************************************************)
EXTENDS StreamCluster

CONSTANTS
  Neighbor,       \* the identity at the other end
  IsLater,        \* neighbor_is_lexico_later
  MaxPushes,      \* bound on the seeds and key materials pushed, together
  MaxSend,        \* bound on the outgoing index of a stream
  MaxNumber       \* bound on the packet numbers that arrive

ASSUME RotationAssumption ==
  /\ IsLater \in BOOLEAN
  /\ MaxPushes \in Nat
  /\ MaxSend \in Nat
  /\ MaxNumber \in Nat

VARIABLES
  cluster,
  upcoming,
  own_pushed,       \* number of own seeds pushed so far
  neighbor_pushed,  \* number of key materials pushed so far
  panicked

vars == <<cluster, upcoming, own_pushed, neighbor_pushed, panicked>>

OwnSeed(i) == 2 * i + 1

Material(i) == 2 * i

Init ==
  /\ cluster = NewCluster(Neighbor, IsLater)
  /\ upcoming = EmptyTable
  /\ own_pushed = 0
  /\ neighbor_pushed = 0
  /\ panicked = FALSE

PushOwn ==
  /\ own_pushed + neighbor_pushed < MaxPushes
  /\ cluster' = PushOwnSeed(cluster, OwnSeed(own_pushed))
  /\ upcoming' = UpcomingAfterOwnSeed(upcoming, cluster, OwnSeed(own_pushed))
  /\ own_pushed' = own_pushed + 1
  /\ UNCHANGED <<neighbor_pushed, panicked>>

PushNeighbor ==
  LET material == Material(neighbor_pushed)
  IN /\ own_pushed + neighbor_pushed < MaxPushes
     /\ cluster' = PushNeighborKeyMaterial(cluster, material)
     /\ upcoming' = UpcomingAfterMaterial(upcoming, cluster, material)
     /\ neighbor_pushed' = neighbor_pushed + 1
     /\ UNCHANGED <<own_pushed, panicked>>

Send ==
  /\ StreamReady(cluster)
  /\ cluster[OutgoingSlot(cluster)].outgoing_message_index < MaxSend
  /\ cluster' = IdentifierTaken(cluster)
  /\ UNCHANGED <<upcoming, own_pushed, neighbor_pushed, panicked>>

\* Every stream the two ends can have shared, as the neighbor holds it.
NeighborStreams ==
  {MaybeNew(Material(m), OwnSeed(o), ~ IsLater) :
     m \in 0 .. neighbor_pushed - 1, o \in 0 .. own_pushed - 1}

\* What the arrival of entry e, under the given identifier, changes.
Recognize(e, identifier) ==
  /\ cluster' = GotIncomingPacket(cluster, e)
  /\ upcoming' = UpcomingAfterPacket(upcoming, cluster, e, identifier)

\* A packet with number n of stream s arrives: the first candidate that
\* decrypts it is the one that is taken.
Receive(s, n) ==
  LET identifier == Identifier(s, "Outgoing", n)
      packet == [key   |-> s.key,
                 nonce |-> OutgoingNonce([s EXCEPT !.outgoing_message_index = n])]
      candidates == Candidates(upcoming, identifier)
      first == SelectInSeq(candidates,
                           LAMBDA e : ClusterDecrypts(cluster, e, packet))
  IN /\ first # 0
     /\ ~ panicked
     /\ IF ClusterPanics(cluster, candidates[first])
        THEN /\ panicked' = TRUE
             /\ UNCHANGED <<cluster, upcoming>>
        ELSE /\ Recognize(candidates[first], identifier)
             /\ UNCHANGED panicked
     /\ UNCHANGED <<own_pushed, neighbor_pushed>>

Next ==
  \/ PushOwn
  \/ PushNeighbor
  \/ Send
  \/ \E s \in NeighborStreams, n \in 0 .. MaxNumber : Receive(s, n)

Spec == Init /\ [][Next]_vars

-----------------------------------------------------------------------------
(* Properties.                                                             *)

StreamType ==
  [key                         : SUBSET Nat,
   neighbor_is_lexico_later    : {IsLater},
   outgoing_message_index      : 0 .. MaxSend,
   incoming_message_mask_start : Nat,
   incoming_message_mask       : SUBSET Bits]

SlotType == StreamType \cup {None}

SeedType == Nat \cup {None}

ClusterType ==
  [neighbor                       : {Neighbor},
   neighbor_is_lexico_later       : {IsLater},
   own_current_acknowledged       : {FALSE},
   own_current_seed               : SeedType,
   own_previous_seed              : SeedType,
   neighbor_current_key_material  : SeedType,
   neighbor_previous_key_material : SeedType,
   own_current_neighbor_current   : SlotType,
   own_current_neighbor_previous  : SlotType,
   own_previous_neighbor_current  : SlotType,
   own_previous_neighbor_previous : SlotType]

\* The cluster holds streams of the right shape, with windows of the right
\* size, and the flag that would end the use of a previous seed is never set.
TypeOK ==
  /\ cluster \in ClusterType
  /\ own_pushed \in Nat
  /\ neighbor_pushed \in Nat
  /\ panicked \in BOOLEAN

\* However pushes of the two kinds interleave, each slot holds the stream
\* of exactly the seed and the key material its name says, if both exist.
SlotMatches(slot, own_seed, material) ==
  IF None \in {own_seed, material} THEN slot = None
  ELSE slot # None /\ slot.key = Exchange(own_seed, material)

SlotsMatchSeeds ==
  LET c == cluster
  IN /\ SlotMatches(c.own_current_neighbor_current,
                    c.own_current_seed, c.neighbor_current_key_material)
     /\ SlotMatches(c.own_current_neighbor_previous,
                    c.own_current_seed, c.neighbor_previous_key_material)
     /\ SlotMatches(c.own_previous_neighbor_current,
                    c.own_previous_seed, c.neighbor_current_key_material)
     /\ SlotMatches(c.own_previous_neighbor_previous,
                    c.own_previous_seed, c.neighbor_previous_key_material)

\* How often the table lists number n of stream s.
Listed(s, n) ==
  LET candidates == Candidates(upcoming, Identifier(s, "Incoming", n))
  IN Cardinality({i \in DOMAIN candidates :
                    candidates[i] = ExpectedPacket(s, Neighbor, n)})

\* For every live stream the table lists each awaited number once, and no
\* other, although streams move between slots, windows move, and entries of
\* several streams share identifiers.
TableMatchesWindows ==
  \A s \in Streams(cluster), n \in 0 .. MaxNumber + Window :
    Listed(s, n) =
      IF n - s.incoming_message_mask_start \in s.incoming_message_mask
      THEN 1 ELSE 0

\* Old and new streams share one table and the identifiers collide, yet no
\* packet reaches a stream that does not await it: the panic and the
\* overflowing shift of got_incoming_packet stay out of reach.
NeverAheadOfWindow == ~ panicked

\* Neither pushing key material nor anything that arrives resets a stream
\* that stays in the cluster: its outgoing index does not fall, so no nonce
\* is used again, and no number is awaited that was given up or received.
StreamsNeverReset ==
  [][\A s \in Streams(cluster), t \in Streams(cluster') :
       s.key = t.key =>
         /\ t.outgoing_message_index >= s.outgoing_message_index
         /\ \A n \in 0 .. s.incoming_message_mask_start + Window - 1 :
              n - t.incoming_message_mask_start \in t.incoming_message_mask =>
                n - s.incoming_message_mask_start \in s.incoming_message_mask
    ]_vars

\* Packets under way when one side renews its half of the key still arrive:
\* a stream in use is given up only once one half has been renewed twice.
OneRenewalKeepsStream ==
  [][\A s \in Streams(cluster) :
       s.key \subseteq {cluster.own_current_seed, cluster.own_previous_seed,
                        cluster.neighbor_current_key_material,
                        cluster.neighbor_previous_key_material}
       /\ s.key \subseteq {cluster'.own_current_seed,
                           cluster'.own_previous_seed,
                           cluster'.neighbor_current_key_material,
                           cluster'.neighbor_previous_key_material}
       => \E t \in Streams(cluster') : t.key = s.key]_vars
=============================================================================
