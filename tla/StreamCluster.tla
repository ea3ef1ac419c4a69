---------------------------- MODULE StreamCluster ----------------------------
(***************************************************************************)
(* A StreamCluster (src/src/stream.rs): the up to four streams an agent    *)
(* keeps with one neighbor, one for each pair of an own seed (current or   *)
(* previous) and a neighbor's key material (current or previous).  The     *)
(* operations take the cluster as a value, and the table of expected       *)
(* packets they change next to it.                                         *)
(***************************************************************************)
EXTENDS Streams

NewCluster(neighbor, neighbor_is_lexico_later) ==
  [neighbor                       |-> neighbor,
   neighbor_is_lexico_later       |-> neighbor_is_lexico_later,
   own_current_acknowledged       |-> FALSE,
   own_current_seed               |-> None,
   own_previous_seed              |-> None,
   neighbor_current_key_material  |-> None,
   neighbor_previous_key_material |-> None,
   own_current_neighbor_current   |-> None,
   own_current_neighbor_previous  |-> None,
   own_previous_neighbor_current  |-> None,
   own_previous_neighbor_previous |-> None]

\* The slots in the order in which the code searches them.
Slots(cluster) ==
  <<cluster.own_current_neighbor_current,
    cluster.own_current_neighbor_previous,
    cluster.own_previous_neighbor_current,
    cluster.own_previous_neighbor_previous>>

Streams(cluster) == ToSet(Slots(cluster)) \ {None}

-----------------------------------------------------------------------------
(* New key material.                                                       *)

\* Fault: the stream with the neighbor's previous material is not moved.
PushOwnSeedLosingPrevious(c, seed) ==
  [c EXCEPT
     !.own_previous_seed              = c.own_current_seed,
     !.own_current_seed               = seed,
     !.own_previous_neighbor_current  = c.own_current_neighbor_current,
     !.own_current_neighbor_current   =
        MaybeNew(seed, c.neighbor_current_key_material,
                 c.neighbor_is_lexico_later),
     !.own_current_neighbor_previous  =
        MaybeNew(seed, c.neighbor_previous_key_material,
                 c.neighbor_is_lexico_later)]

\* Fault: the streams with the previous seed are made anew, not moved.
PushOwnSeedRemaking(c, seed) ==
  [PushOwnSeedLosingPrevious(c, seed) EXCEPT
     !.own_previous_neighbor_current  =
        MaybeNew(c.own_current_seed, c.neighbor_current_key_material,
                 c.neighbor_is_lexico_later),
     !.own_previous_neighbor_previous =
        MaybeNew(c.own_current_seed, c.neighbor_previous_key_material,
                 c.neighbor_is_lexico_later)]

\* push_own_seed: the streams with the current own seed become those with
\* the previous one.
PushOwnSeed(c, seed) ==
  [c EXCEPT
     !.own_previous_seed              = c.own_current_seed,
     !.own_current_seed               = seed,
     !.own_previous_neighbor_current  = c.own_current_neighbor_current,
     !.own_previous_neighbor_previous = c.own_current_neighbor_previous,
     !.own_current_neighbor_current   =
        MaybeNew(seed, c.neighbor_current_key_material,
                 c.neighbor_is_lexico_later),
     !.own_current_neighbor_previous  =
        MaybeNew(seed, c.neighbor_previous_key_material,
                 c.neighbor_is_lexico_later)]

UpcomingAfterOwnSeed(upcoming, c, seed) ==
  LET pushed == PushOwnSeed(c, seed)
  IN ExpectNew(ExpectNew(upcoming, pushed.own_current_neighbor_current,
                         c.neighbor),
               pushed.own_current_neighbor_previous, c.neighbor)

\* Fault: only the stream with the current own seed is moved.
PushMaterialHalf(c, material) ==
  [c EXCEPT
     !.neighbor_previous_key_material = c.neighbor_current_key_material,
     !.neighbor_current_key_material  = material,
     !.own_current_neighbor_previous  = c.own_current_neighbor_current,
     !.own_current_neighbor_current   =
        MaybeNew(c.own_current_seed, material, c.neighbor_is_lexico_later),
     !.own_previous_neighbor_current  =
        MaybeNew(c.own_previous_seed, material, c.neighbor_is_lexico_later)]

\* push_neighbor_key_material: likewise for the neighbor's half of the keys.
PushNeighborKeyMaterial(c, material) ==
  [c EXCEPT
     !.neighbor_previous_key_material = c.neighbor_current_key_material,
     !.neighbor_current_key_material  = material,
     !.own_current_neighbor_previous  = c.own_current_neighbor_current,
     !.own_previous_neighbor_previous = c.own_previous_neighbor_current,
     !.own_current_neighbor_current   =
        MaybeNew(c.own_current_seed, material, c.neighbor_is_lexico_later),
     !.own_previous_neighbor_current  =
        MaybeNew(c.own_previous_seed, material, c.neighbor_is_lexico_later)]

UpcomingAfterMaterial(upcoming, c, material) ==
  LET pushed == PushNeighborKeyMaterial(c, material)
  IN ExpectNew(ExpectNew(upcoming, pushed.own_current_neighbor_current,
                         c.neighbor),
               pushed.own_previous_neighbor_current, c.neighbor)

-----------------------------------------------------------------------------
(* Sending.                                                                *)

\* produce_outgoing_identifier sends with the previous own seed while the
\* current one is not acknowledged, and with the other one for want of it.
Preferred(c) ==
  IF c.own_current_acknowledged
  THEN <<"own_current_neighbor_current", "own_previous_neighbor_current">>
  ELSE <<"own_previous_neighbor_current", "own_current_neighbor_current">>

StreamReady(c) == \E i \in {1, 2} : c[Preferred(c)[i]] # None

OutgoingSlot(c) ==
  IF c[Preferred(c)[1]] # None THEN Preferred(c)[1] ELSE Preferred(c)[2]

\* The cluster once the identifier of the next message has been taken.
IdentifierTaken(c) ==
  [c EXCEPT ![OutgoingSlot(c)].outgoing_message_index = @ + 1]

-----------------------------------------------------------------------------
(* Receiving.                                                              *)

\* decrypt_incoming_payload asks the first stream that has the key.
ClusterDecrypts(c, expected_packet, packet) ==
  LET first == SelectInSeq(Slots(c), LAMBDA s :
                 s # None /\ s.key = expected_packet.stream_key)
  IN /\ first # 0
     /\ Decrypts(Slots(c)[first], expected_packet.packet_number, packet)

WithKey(c, key) == {s \in Streams(c) : s.key = key}

\* Some stream with the key of the packet ends in the panic.
ClusterPanics(c, expected_packet) ==
  \E s \in WithKey(c, expected_packet.stream_key) :
    Panics(s, expected_packet.packet_number)

SlotAfterPacket(slot, expected_packet) ==
  IF slot = None \/ slot.key # expected_packet.stream_key THEN slot
  ELSE Advanced(slot, expected_packet.packet_number)

\* got_incoming_packet moves the window of every stream with the key.
GotIncomingPacket(c, p) ==
  [c EXCEPT
     !.own_current_neighbor_current   = SlotAfterPacket(@, p),
     !.own_current_neighbor_previous  = SlotAfterPacket(@, p),
     !.own_previous_neighbor_current  = SlotAfterPacket(@, p),
     !.own_previous_neighbor_previous = SlotAfterPacket(@, p)]

UpcomingAfterSlot(upcoming, slot, p) ==
  IF slot = None \/ slot.key # p.stream_key THEN upcoming
  ELSE UpcomingAdvanced(upcoming, slot, p.stream_with, p.packet_number)

\* The table once every stream with the key of p has moved its window, the
\* streams in the order of the slots.
UpcomingMoved(upcoming, c, p) ==
  LET first  == UpcomingAfterSlot(upcoming, c.own_current_neighbor_current, p)
      second == UpcomingAfterSlot(first, c.own_current_neighbor_previous, p)
      third  == UpcomingAfterSlot(second, c.own_previous_neighbor_current, p)
  IN UpcomingAfterSlot(third, c.own_previous_neighbor_previous, p)

\* Fault: the packet that arrived is not removed.
UpcomingKeepingPacket(upcoming, c, p, identifier) ==
  UpcomingMoved(upcoming, c, p)

UpcomingAfterPacket(upcoming, c, p, identifier) ==
  RemoveAll(UpcomingMoved(upcoming, c, p), <<Entry(p, identifier)>>)
=============================================================================
