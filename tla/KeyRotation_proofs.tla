------------------------- MODULE KeyRotation_proofs -------------------------
(***************************************************************************)
(* What KeyRotation promises of a cluster's four slots and of the table    *)
(* next to it, for every window and any number of pushes and packets.      *)
(*                                                                         *)
(* A step carries each stream from a slot to a slot, drops it, or makes a  *)
(* new one.  That no stream is reset then comes down to this: two slots    *)
(* never hold the same key, and a new stream never has the key of another. *)
(* Nor does it have the key of anything the table lists, so that table and *)
(* windows agree from its first packet on.                                 *)
(***************************************************************************)
EXTENDS KeyRotation, StreamCluster_proofs

\* The seeds and materials in the cluster are the last two of each kind.
Latest(pushed, Nth(_), current, previous) ==
  /\ current  = IF pushed = 0 THEN None ELSE Nth(pushed - 1)
  /\ previous = IF pushed < 2 THEN None ELSE Nth(pushed - 2)

SeedsLatest ==
  /\ Latest(own_pushed, OwnSeed,
            cluster.own_current_seed, cluster.own_previous_seed)
  /\ Latest(neighbor_pushed, Material,
            cluster.neighbor_current_key_material,
            cluster.neighbor_previous_key_material)

IInv == TypeOK /\ SeedsLatest /\ SlotsMatchSeeds

\* Stream t is stream s, some messages and packets later.
Carried(s, t) ==
  /\ t.key = s.key
  /\ t.outgoing_message_index >= s.outgoing_message_index
  /\ \A n \in 0 .. s.incoming_message_mask_start + Window - 1 :
       n - t.incoming_message_mask_start \in t.incoming_message_mask =>
         n - s.incoming_message_mask_start \in s.incoming_message_mask

CarriedSlot(a, b) ==
  IF a = None THEN b = None ELSE b \in StreamType /\ Carried(a, b)

-----------------------------------------------------------------------------
(* Keys.                                                                   *)

\* A stream is no None, and a number is none either.
LEMMA NoneIsApart ==
  /\ \A n \in Nat : n # None
  /\ \A s \in StreamType : s # None
<1>1. \A n \in Nat : n # None
  BY NoneAssumption
<1>2. \A s \in StreamType : s # None
  <2>1. StreamType \subseteq AnyStream
    BY RotationAssumption DEF StreamType, AnyStream
  <2> QED BY <2>1, NoneAssumption
<1> QED BY <1>1, <1>2

\* Own seeds are odd and materials even, so a key tells both its halves.
LEMMA KeysDiffer ==
  ASSUME NEW i \in Nat, NEW j \in Nat, NEW k \in Nat, NEW l \in Nat,
         Exchange(OwnSeed(i), Material(j)) = Exchange(OwnSeed(k), Material(l))
  PROVE  i = k /\ j = l
BY DEF Exchange, OwnSeed, Material

\* maybe_new makes a stream of the right shape, for the key it is given.
LEMMA MadeNew ==
  ASSUME NEW o \in SeedType, NEW m \in SeedType
  PROVE  /\ MaybeNew(o, m, IsLater) \in SlotType
         /\ SlotMatches(MaybeNew(o, m, IsLater), o, m)
<1>1. CASE None \in {o, m}
  BY <1>1 DEF MaybeNew, SlotMatches, SlotType
<1>2. CASE None \notin {o, m}
  <2>1. MaybeNew(o, m, IsLater) \in StreamType
    BY <1>2, RotationAssumption DEF MaybeNew, StreamType, SeedType, Exchange
  <2>2. MaybeNew(o, m, IsLater).key = Exchange(o, m)
    BY <1>2 DEF MaybeNew
  <2> QED BY <1>2, <2>1, <2>2, NoneIsApart DEF SlotMatches, SlotType
<1> QED BY <1>1, <1>2

-----------------------------------------------------------------------------
(* Streams from one state to the next.                                     *)

LEMMA CarriedAsIs ==
  ASSUME NEW a \in SlotType
  PROVE  CarriedSlot(a, a)
BY RotationAssumption DEF CarriedSlot, Carried, SlotType, StreamType

\* got_incoming_packet announces only numbers past the window it found.
LEMMA CarriedByPacket ==
  ASSUME NEW a \in SlotType, NEW p
  PROVE  SlotAfterPacket(a, p) \in SlotType /\ CarriedSlot(a, SlotAfterPacket(a, p))
<1>1. CASE SlotAfterPacket(a, p) = a
  BY <1>1, CarriedAsIs
<1>2. CASE SlotAfterPacket(a, p) # a
  <2> DEFINE n     == p.packet_number
             start == a.incoming_message_mask_start
             mask  == Cleared(start, a.incoming_message_mask, n)
             b     == [a EXCEPT !.incoming_message_mask_start = MovedStart(start, mask),
                                !.incoming_message_mask       = MovedMask(mask)]
  <2>1. a \in StreamType /\ SlotAfterPacket(a, p) = b
    BY <1>2 DEF SlotAfterPacket, Advanced, SlotType
  <2>2. /\ start \in Nat
        /\ a.outgoing_message_index \in 0 .. MaxSend
        /\ mask \subseteq a.incoming_message_mask
        /\ mask \subseteq Bits
    BY <2>1 DEF StreamType, Cleared
  <2>3. MovedStart(start, mask) \in Nat /\ MovedMask(mask) \subseteq Bits
    BY <2>2, WindowAssumption DEF MovedStart, MovedMask, Shifted
  <2>4. b \in StreamType
    BY <2>1, <2>3 DEF StreamType
  <2>5. ASSUME NEW k \in 0 .. start + Window - 1,
               k - MovedStart(start, mask) \in MovedMask(mask)
        PROVE  k - start \in mask
    BY <2>2, <2>5, WindowAssumption DEF MovedStart, MovedMask, Shifted, Bits
  <2>6. Carried(a, b)
    <3>1. /\ b.key = a.key
          /\ b.outgoing_message_index = a.outgoing_message_index
          /\ b.incoming_message_mask_start = MovedStart(start, mask)
          /\ b.incoming_message_mask = MovedMask(mask)
      BY <2>1 DEF StreamType
    <3> HIDE DEF mask, b
    <3> QED BY <3>1, <2>2, <2>5, RotationAssumption DEF Carried
  <2> QED BY <2>1, <2>4, <2>6, NoneIsApart DEF CarriedSlot, SlotType
<1> QED BY <1>1, <1>2

-----------------------------------------------------------------------------
(* The four slots.                                                         *)

\* The streams of a cluster are what its slots hold.
LEMMA StreamsOfSlots ==
  ASSUME NEW c
  PROVE  Streams(c) = {c.own_current_neighbor_current,
                       c.own_current_neighbor_previous,
                       c.own_previous_neighbor_current,
                       c.own_previous_neighbor_previous} \ {None}
<1>1. ToSet(Slots(c)) = {c.own_current_neighbor_current,
                         c.own_current_neighbor_previous,
                         c.own_previous_neighbor_current,
                         c.own_previous_neighbor_previous}
  BY DEF ToSet, Slots
<1> QED BY <1>1 DEF Streams

\* A slot matches seeds that exist if it holds anything.
LEMMA KeyOfSlot ==
  ASSUME NEW slot, slot # None, NEW o, NEW m, SlotMatches(slot, o, m)
  PROVE  o # None /\ m # None /\ slot.key = Exchange(o, m)
BY DEF SlotMatches

\* The latest seeds, whether they exist or not.
LEMMA LatestSeeds ==
  ASSUME IInv
  PROVE  /\ cluster.own_current_seed # None =>
              own_pushed >= 1 /\ cluster.own_current_seed = OwnSeed(own_pushed - 1)
         /\ cluster.own_previous_seed # None =>
              own_pushed >= 2 /\ cluster.own_previous_seed = OwnSeed(own_pushed - 2)
         /\ cluster.neighbor_current_key_material # None =>
              /\ neighbor_pushed >= 1
              /\ cluster.neighbor_current_key_material = Material(neighbor_pushed - 1)
         /\ cluster.neighbor_previous_key_material # None =>
              /\ neighbor_pushed >= 2
              /\ cluster.neighbor_previous_key_material = Material(neighbor_pushed - 2)
BY DEF IInv, TypeOK, SeedsLatest, Latest

\* The halves of a stream's key are among the last two of each kind.
LEMMA KeysOfStreams ==
  ASSUME IInv, NEW s \in Streams(cluster)
  PROVE  /\ s \in StreamType
         /\ \E i \in Nat, j \in Nat :
              /\ i \in own_pushed - 2 .. own_pushed - 1
              /\ j \in neighbor_pushed - 2 .. neighbor_pushed - 1
              /\ s.key = Exchange(OwnSeed(i), Material(j))
<1> DEFINE Keyed(t) ==
      \E i \in Nat, j \in Nat :
        /\ i \in own_pushed - 2 .. own_pushed - 1
        /\ j \in neighbor_pushed - 2 .. neighbor_pushed - 1
        /\ t.key = Exchange(OwnSeed(i), Material(j))
<1>1. own_pushed \in Nat /\ neighbor_pushed \in Nat /\ cluster \in ClusterType
  BY DEF IInv, TypeOK
<1>2. ASSUME NEW o, NEW m, NEW slot, slot # None, SlotMatches(slot, o, m),
             o \in {cluster.own_current_seed, cluster.own_previous_seed},
             m \in {cluster.neighbor_current_key_material,
                    cluster.neighbor_previous_key_material}
      PROVE  Keyed(slot)
  <2>1. o # None /\ m # None /\ slot.key = Exchange(o, m)
    BY <1>2, KeyOfSlot
  <2>2. PICK i \in Nat : i \in own_pushed - 2 .. own_pushed - 1 /\ o = OwnSeed(i)
    BY <1>1, <1>2, <2>1, LatestSeeds
  <2>3. PICK j \in Nat :
          j \in neighbor_pushed - 2 .. neighbor_pushed - 1 /\ m = Material(j)
    BY <1>1, <1>2, <2>1, LatestSeeds
  <2> QED BY <2>1, <2>2, <2>3
<1>3. s \in StreamType
  BY <1>1, StreamsOfSlots DEF ClusterType, SlotType
<1>4. Keyed(s)
  BY <1>2, StreamsOfSlots DEF IInv, SlotsMatchSeeds
<1> QED BY <1>3, <1>4

\* No two slots hold the same key.
LEMMA DistinctKeys ==
  ASSUME IInv, NEW s \in Streams(cluster), NEW t \in Streams(cluster), s.key = t.key
  PROVE  s = t
<1>1. own_pushed \in Nat /\ neighbor_pushed \in Nat
  BY DEF IInv, TypeOK
<1>2. ASSUME NEW o, NEW m, NEW p, NEW q, o # None, m # None, p # None, q # None,
             o \in {cluster.own_current_seed, cluster.own_previous_seed},
             p \in {cluster.own_current_seed, cluster.own_previous_seed},
             m \in {cluster.neighbor_current_key_material,
                    cluster.neighbor_previous_key_material},
             q \in {cluster.neighbor_current_key_material,
                    cluster.neighbor_previous_key_material},
             Exchange(o, m) = Exchange(p, q)
      PROVE  o = p /\ m = q
  <2>1. PICK i \in Nat, k \in Nat : o = OwnSeed(i) /\ p = OwnSeed(k)
    BY <1>1, <1>2, LatestSeeds
  <2>2. PICK j \in Nat, l \in Nat : m = Material(j) /\ q = Material(l)
    BY <1>1, <1>2, LatestSeeds
  <2>3. i = k /\ j = l
    BY <1>2, <2>1, <2>2, KeysDiffer
  <2> QED BY <2>1, <2>2, <2>3
<1>3. /\ cluster.own_current_seed # None /\ cluster.own_previous_seed # None =>
           cluster.own_current_seed # cluster.own_previous_seed
      /\ /\ cluster.neighbor_current_key_material # None
         /\ cluster.neighbor_previous_key_material # None
         => cluster.neighbor_current_key_material # cluster.neighbor_previous_key_material
  BY <1>1, LatestSeeds DEF OwnSeed, Material
<1> DEFINE At(x, o, m) ==
      \/ /\ x = cluster.own_current_neighbor_current
         /\ o = cluster.own_current_seed
         /\ m = cluster.neighbor_current_key_material
      \/ /\ x = cluster.own_current_neighbor_previous
         /\ o = cluster.own_current_seed
         /\ m = cluster.neighbor_previous_key_material
      \/ /\ x = cluster.own_previous_neighbor_current
         /\ o = cluster.own_previous_seed
         /\ m = cluster.neighbor_current_key_material
      \/ /\ x = cluster.own_previous_neighbor_previous
         /\ o = cluster.own_previous_seed
         /\ m = cluster.neighbor_previous_key_material
<1>4. ASSUME NEW x \in Streams(cluster)
      PROVE  \E o, m : At(x, o, m) /\ o # None /\ m # None /\ x.key = Exchange(o, m)
  <2>1. \E o, m : At(x, o, m) /\ SlotMatches(x, o, m) /\ x # None
    BY StreamsOfSlots DEF IInv, SlotsMatchSeeds
  <2> QED BY <2>1, KeyOfSlot
<1>5. PICK o, m : At(s, o, m) /\ o # None /\ m # None /\ s.key = Exchange(o, m)
  BY <1>4
<1>6. PICK p, q : At(t, p, q) /\ p # None /\ q # None /\ t.key = Exchange(p, q)
  BY <1>4
<1>7. o = p /\ m = q
  <2>1. Exchange(o, m) = Exchange(p, q)
    BY <1>5, <1>6
  <2>2. /\ {o, p} \subseteq {cluster.own_current_seed, cluster.own_previous_seed}
        /\ {m, q} \subseteq {cluster.neighbor_current_key_material,
                            cluster.neighbor_previous_key_material}
    BY <1>5, <1>6
  <2> QED BY <1>2, <1>5, <1>6, <2>1, <2>2
<1> QED BY <1>3, <1>5, <1>6, <1>7

-----------------------------------------------------------------------------
(* The steps.                                                              *)

\* No stream of the old cluster has the key of a stream that is new, and a
\* stream is dropped only if a half of its key is.
InUse(c) == {c.own_current_seed, c.own_previous_seed,
             c.neighbor_current_key_material, c.neighbor_previous_key_material}

OnlyCarries ==
  /\ \A t \in Streams(cluster') :
       \/ \E s \in Streams(cluster) : Carried(s, t)
       \/ \A s \in Streams(cluster) : s.key # t.key
  /\ \A s \in Streams(cluster) :
       \/ \E t \in Streams(cluster') : Carried(s, t)
       \/ ~ s.key \subseteq InUse(cluster')

LEMMA PushOwnStep ==
  ASSUME IInv, PushOwn
  PROVE  IInv' /\ OnlyCarries
<1> DEFINE seed == OwnSeed(own_pushed)
<1>1. /\ cluster \in ClusterType /\ own_pushed \in Nat /\ neighbor_pushed \in Nat
      /\ SeedsLatest /\ SlotsMatchSeeds /\ panicked \in BOOLEAN
  BY DEF IInv, TypeOK
<1>2. seed \in Nat /\ seed # None
  BY <1>1, NoneIsApart DEF OwnSeed
<1>3. /\ cluster' = PushOwnSeed(cluster, seed)
      /\ own_pushed' = own_pushed + 1
      /\ UNCHANGED <<neighbor_pushed, panicked>>
  BY DEF PushOwn
<1> DEFINE new1 == MaybeNew(seed, cluster.neighbor_current_key_material, IsLater)
           new2 == MaybeNew(seed, cluster.neighbor_previous_key_material, IsLater)
<1>4. /\ new1 \in SlotType /\ SlotMatches(new1, seed, cluster.neighbor_current_key_material)
      /\ new2 \in SlotType /\ SlotMatches(new2, seed, cluster.neighbor_previous_key_material)
  BY <1>1, <1>2, MadeNew DEF ClusterType, SeedType
<1> HIDE DEF seed, new1, new2
<1>5. /\ cluster' \in ClusterType
      /\ cluster'.own_current_seed = seed
      /\ cluster'.own_previous_seed = cluster.own_current_seed
      /\ cluster'.neighbor_current_key_material = cluster.neighbor_current_key_material
      /\ cluster'.neighbor_previous_key_material = cluster.neighbor_previous_key_material
      /\ cluster'.own_current_neighbor_current = new1
      /\ cluster'.own_current_neighbor_previous = new2
      /\ cluster'.own_previous_neighbor_current = cluster.own_current_neighbor_current
      /\ cluster'.own_previous_neighbor_previous = cluster.own_current_neighbor_previous
  BY <1>1, <1>2, <1>3, <1>4 DEF ClusterType, PushOwnSeed, SeedType, new1, new2
<1>6. TypeOK'
  BY <1>1, <1>3, <1>5 DEF TypeOK
<1>7. SeedsLatest'
  BY <1>1, <1>3, <1>5 DEF SeedsLatest, Latest, seed
<1>8. SlotsMatchSeeds'
  BY <1>1, <1>4, <1>5 DEF SlotsMatchSeeds
<1>9. OnlyCarries
  <2>1. ASSUME NEW t \in {new1, new2}, t # None, NEW s \in Streams(cluster)
        PROVE  s.key # t.key
    <3>1. seed \in t.key
      BY <1>4, <2>1, KeyOfSlot DEF Exchange
    <3>2. seed \notin s.key
      BY <1>1, KeysOfStreams DEF Exchange, OwnSeed, Material, seed
    <3> QED BY <3>1, <3>2
  <2>2. ASSUME NEW s \in {cluster.own_previous_neighbor_current,
                         cluster.own_previous_neighbor_previous}, s # None
        PROVE  ~ s.key \subseteq InUse(cluster')
    <3>1. cluster.own_previous_seed # None /\ cluster.own_previous_seed \in s.key
      BY <1>1, <2>2, KeyOfSlot DEF SlotsMatchSeeds, Exchange
    <3>2. own_pushed >= 2 /\ cluster.own_previous_seed = OwnSeed(own_pushed - 2)
      BY <3>1, LatestSeeds
    <3>3. cluster.own_previous_seed \notin InUse(cluster')
      BY <1>1, <1>5, <3>2, LatestSeeds, NoneIsApart DEF InUse, OwnSeed, Material, seed
    <3> QED BY <3>1, <3>3
  <2>3. \A a \in SlotType : a # None => Carried(a, a)
    BY CarriedAsIs DEF CarriedSlot
  <2>4. cluster.own_current_neighbor_current \in SlotType
        /\ cluster.own_current_neighbor_previous \in SlotType
    BY <1>1 DEF ClusterType
  <2>5. \A t \in Streams(cluster') :
          \/ \E s \in Streams(cluster) : Carried(s, t)
          \/ \A s \in Streams(cluster) : s.key # t.key
    BY <1>5, <2>1, <2>3, <2>4, StreamsOfSlots
  <2>6. \A s \in Streams(cluster) :
          \/ \E t \in Streams(cluster') : Carried(s, t)
          \/ ~ s.key \subseteq InUse(cluster')
    BY <1>5, <2>2, <2>3, <2>4, StreamsOfSlots
  <2> QED BY <2>5, <2>6 DEF OnlyCarries
<1> QED BY <1>6, <1>7, <1>8, <1>9 DEF IInv

LEMMA PushNeighborStep ==
  ASSUME IInv, PushNeighbor
  PROVE  IInv' /\ OnlyCarries
<1> DEFINE material == Material(neighbor_pushed)
<1>1. /\ cluster \in ClusterType /\ own_pushed \in Nat /\ neighbor_pushed \in Nat
      /\ SeedsLatest /\ SlotsMatchSeeds /\ panicked \in BOOLEAN
  BY DEF IInv, TypeOK
<1>2. material \in Nat /\ material # None
  BY <1>1, NoneIsApart DEF Material
<1>3. /\ cluster' = PushNeighborKeyMaterial(cluster, material)
      /\ neighbor_pushed' = neighbor_pushed + 1
      /\ UNCHANGED <<own_pushed, panicked>>
  BY DEF PushNeighbor
<1> DEFINE new1 == MaybeNew(cluster.own_current_seed, material, IsLater)
           new2 == MaybeNew(cluster.own_previous_seed, material, IsLater)
<1>4. /\ new1 \in SlotType /\ SlotMatches(new1, cluster.own_current_seed, material)
      /\ new2 \in SlotType /\ SlotMatches(new2, cluster.own_previous_seed, material)
  BY <1>1, <1>2, MadeNew DEF ClusterType, SeedType
<1> HIDE DEF material, new1, new2
<1>5. /\ cluster' \in ClusterType
      /\ cluster'.own_current_seed = cluster.own_current_seed
      /\ cluster'.own_previous_seed = cluster.own_previous_seed
      /\ cluster'.neighbor_current_key_material = material
      /\ cluster'.neighbor_previous_key_material = cluster.neighbor_current_key_material
      /\ cluster'.own_current_neighbor_current = new1
      /\ cluster'.own_current_neighbor_previous = cluster.own_current_neighbor_current
      /\ cluster'.own_previous_neighbor_current = new2
      /\ cluster'.own_previous_neighbor_previous = cluster.own_previous_neighbor_current
  BY <1>1, <1>2, <1>3, <1>4 DEF ClusterType, PushNeighborKeyMaterial, SeedType, new1, new2
<1>6. TypeOK'
  BY <1>1, <1>3, <1>5 DEF TypeOK
<1>7. SeedsLatest'
  BY <1>1, <1>3, <1>5 DEF SeedsLatest, Latest, material
<1>8. SlotsMatchSeeds'
  BY <1>1, <1>4, <1>5 DEF SlotsMatchSeeds
<1>9. OnlyCarries
  <2>1. ASSUME NEW t \in {new1, new2}, t # None, NEW s \in Streams(cluster)
        PROVE  s.key # t.key
    <3>1. material \in t.key
      BY <1>4, <2>1, KeyOfSlot DEF Exchange
    <3>2. material \notin s.key
      BY <1>1, KeysOfStreams DEF Exchange, OwnSeed, Material, material
    <3> QED BY <3>1, <3>2
  <2>2. ASSUME NEW s \in {cluster.own_current_neighbor_previous,
                         cluster.own_previous_neighbor_previous}, s # None
        PROVE  ~ s.key \subseteq InUse(cluster')
    <3>1. /\ cluster.neighbor_previous_key_material # None
          /\ cluster.neighbor_previous_key_material \in s.key
      BY <1>1, <2>2, KeyOfSlot DEF SlotsMatchSeeds, Exchange
    <3>2. /\ neighbor_pushed >= 2
          /\ cluster.neighbor_previous_key_material = Material(neighbor_pushed - 2)
      BY <3>1, LatestSeeds
    <3>3. cluster.neighbor_previous_key_material \notin InUse(cluster')
      BY <1>1, <1>5, <3>2, LatestSeeds, NoneIsApart DEF InUse, OwnSeed, Material, material
    <3> QED BY <3>1, <3>3
  <2>3. \A a \in SlotType : a # None => Carried(a, a)
    BY CarriedAsIs DEF CarriedSlot
  <2>4. cluster.own_current_neighbor_current \in SlotType
        /\ cluster.own_previous_neighbor_current \in SlotType
    BY <1>1 DEF ClusterType
  <2>5. \A t \in Streams(cluster') :
          \/ \E s \in Streams(cluster) : Carried(s, t)
          \/ \A s \in Streams(cluster) : s.key # t.key
    BY <1>5, <2>1, <2>3, <2>4, StreamsOfSlots
  <2>6. \A s \in Streams(cluster) :
          \/ \E t \in Streams(cluster') : Carried(s, t)
          \/ ~ s.key \subseteq InUse(cluster')
    BY <1>5, <2>2, <2>3, <2>4, StreamsOfSlots
  <2> QED BY <2>5, <2>6 DEF OnlyCarries
<1> QED BY <1>6, <1>7, <1>8, <1>9 DEF IInv

\* A step that leaves the seeds and carries every slot where it is.
SlotsCarried(c, d) ==
  /\ d \in ClusterType
  /\ d.own_current_seed = c.own_current_seed
  /\ d.own_previous_seed = c.own_previous_seed
  /\ d.neighbor_current_key_material = c.neighbor_current_key_material
  /\ d.neighbor_previous_key_material = c.neighbor_previous_key_material
  /\ CarriedSlot(c.own_current_neighbor_current, d.own_current_neighbor_current)
  /\ CarriedSlot(c.own_current_neighbor_previous, d.own_current_neighbor_previous)
  /\ CarriedSlot(c.own_previous_neighbor_current, d.own_previous_neighbor_current)
  /\ CarriedSlot(c.own_previous_neighbor_previous, d.own_previous_neighbor_previous)

LEMMA InPlaceStep ==
  ASSUME IInv, SlotsCarried(cluster, cluster'), panicked' \in BOOLEAN,
         UNCHANGED <<own_pushed, neighbor_pushed>>
  PROVE  IInv' /\ OnlyCarries
<1>1. TypeOK'
  BY DEF IInv, TypeOK, SlotsCarried
<1>2. SeedsLatest'
  BY DEF IInv, SeedsLatest, Latest, SlotsCarried
<1>3. SlotsMatchSeeds'
  <2>1. ASSUME NEW a, NEW b, NEW o, NEW m, CarriedSlot(a, b), SlotMatches(a, o, m)
        PROVE  SlotMatches(b, o, m)
    BY <2>1, NoneIsApart DEF CarriedSlot, Carried, SlotMatches
  <2> QED BY <2>1 DEF IInv, SlotsMatchSeeds, SlotsCarried
<1>4. OnlyCarries
  <2>1. ASSUME NEW a, NEW b, CarriedSlot(a, b)
        PROVE  (a = None <=> b = None) /\ (a # None => Carried(a, b))
    BY <2>1, NoneIsApart DEF CarriedSlot
  <2>2. \A t \in Streams(cluster') : \E s \in Streams(cluster) : Carried(s, t)
    BY <2>1, StreamsOfSlots DEF SlotsCarried
  <2>3. \A s \in Streams(cluster) : \E t \in Streams(cluster') : Carried(s, t)
    BY <2>1, StreamsOfSlots DEF SlotsCarried
  <2> QED BY <2>2, <2>3 DEF OnlyCarries
<1> QED BY <1>1, <1>2, <1>3, <1>4 DEF IInv

LEMMA SendStep ==
  ASSUME IInv, Send
  PROVE  IInv' /\ OnlyCarries
<1>1. cluster \in ClusterType /\ panicked \in BOOLEAN
  BY DEF IInv, TypeOK
<1> DEFINE slot == OutgoingSlot(cluster)
<1>2. /\ slot \in {"own_current_neighbor_current", "own_previous_neighbor_current"}
      /\ cluster[slot] # None
  BY <1>1 DEF OutgoingSlot, Preferred, Send, StreamReady
<1> DEFINE later == [cluster[slot] EXCEPT !.outgoing_message_index = @ + 1]
<1>3. /\ cluster[slot] \in StreamType
      /\ cluster[slot].outgoing_message_index < MaxSend
      /\ cluster' = [cluster EXCEPT ![slot] = later]
      /\ UNCHANGED <<own_pushed, neighbor_pushed, panicked>>
  BY <1>1, <1>2 DEF Send, IdentifierTaken, ClusterType, SlotType
<1>4. later \in StreamType
  BY <1>3, RotationAssumption DEF StreamType
<1>5. CarriedSlot(cluster[slot], later)
  <2>1. Carried(cluster[slot], later)
    BY <1>3, RotationAssumption DEF Carried, StreamType
  <2> QED BY <1>2, <1>4, <2>1 DEF CarriedSlot
<1> HIDE DEF slot, later
<1>6. SlotsCarried(cluster, cluster')
  BY <1>1, <1>2, <1>3, <1>4, <1>5, CarriedAsIs DEF SlotsCarried, ClusterType, SlotType
<1> QED BY <1>1, <1>3, <1>6, InPlaceStep

LEMMA ReceiveStep ==
  ASSUME IInv, NEW s, NEW n, Receive(s, n)
  PROVE  IInv' /\ OnlyCarries
<1>1. cluster \in ClusterType /\ panicked \in BOOLEAN
  BY DEF IInv, TypeOK
<1>2. UNCHANGED <<own_pushed, neighbor_pushed>> /\ panicked' \in BOOLEAN
  BY <1>1 DEF Receive
<1>3. cluster' = cluster \/ \E p : cluster' = GotIncomingPacket(cluster, p)
  BY DEF Receive, Recognize
<1>4. SlotsCarried(cluster, cluster')
  <2>1. CASE cluster' = cluster
    BY <1>1, <2>1, CarriedAsIs DEF SlotsCarried, ClusterType
  <2>2. ASSUME NEW p, cluster' = GotIncomingPacket(cluster, p)
        PROVE  SlotsCarried(cluster, cluster')
    BY <1>1, <2>2, CarriedByPacket DEF SlotsCarried, ClusterType, GotIncomingPacket
  <2> QED BY <1>3, <2>1, <2>2
<1> QED BY <1>2, <1>4, InPlaceStep

\* IInv is inductive, and every step carries the streams it keeps.
LEMMA Steps ==
  ASSUME IInv, [Next]_vars
  PROVE  IInv' /\ OnlyCarries
<1>1. CASE UNCHANGED vars
  <2>1. SlotsCarried(cluster, cluster')
    BY <1>1, CarriedAsIs DEF vars, SlotsCarried, ClusterType, IInv, TypeOK
  <2> QED BY <1>1, <2>1, InPlaceStep DEF vars, IInv, TypeOK
<1> QED BY <1>1, PushOwnStep, PushNeighborStep, SendStep, ReceiveStep DEF Next

LEMMA Initially ==
  ASSUME Init
  PROVE  IInv
<1>1. TypeOK
  BY DEF Init, TypeOK, ClusterType, NewCluster, SeedType, SlotType
<1>2. SeedsLatest /\ SlotsMatchSeeds
  BY DEF Init, NewCluster, SeedsLatest, Latest, SlotsMatchSeeds, SlotMatches
<1> QED BY <1>1, <1>2 DEF IInv

LEMMA Invariance == Spec => []IInv
BY Initially, Steps, PTL DEF Spec

-----------------------------------------------------------------------------
(* The table of expected packets.                                          *)

\* Whatever is listed is for a key the two ends can have shared by now, so
\* a key made of a new half is not in the table yet.
ListedKeysKnown ==
  \A x, i : Lists(upcoming, x, i) =>
    \E o \in 0 .. own_pushed - 1, m \in 0 .. neighbor_pushed - 1 :
      x.stream_key = Exchange(OwnSeed(o), Material(m))

TableInv ==
  /\ Tidy(upcoming, {Neighbor})
  /\ TableMatches(upcoming, cluster, Neighbor)
  /\ ListedKeysKnown
  /\ ~ panicked

LEMMA SlotsAreShaped ==
  ASSUME IInv
  PROVE  SlotsShape(cluster) /\ KeysApart(cluster)
<1>1. /\ cluster \in ClusterType /\ SeedsLatest /\ SlotsMatchSeeds
      /\ own_pushed \in Nat /\ neighbor_pushed \in Nat
  BY DEF IInv, TypeOK
<1>2. SlotsShape(cluster)
  <2>1. StreamType \subseteq AnyStream
    BY RotationAssumption DEF StreamType, AnyStream
  <2> QED BY <1>1, <2>1 DEF SlotsShape, ClusterType, SlotNames, SlotType
<1> DEFINE own(i) == IF i \in {"own_current_neighbor_current", "own_current_neighbor_previous"}
                     THEN own_pushed - 1 ELSE own_pushed - 2
           other(i) == IF i \in {"own_current_neighbor_current", "own_previous_neighbor_current"}
                       THEN neighbor_pushed - 1 ELSE neighbor_pushed - 2
<1>3. ASSUME NEW i \in SlotNames, cluster[i] # None
      PROVE  /\ own(i) \in Nat /\ other(i) \in Nat
             /\ cluster[i].key = Exchange(OwnSeed(own(i)), Material(other(i)))
  <2>1. CASE i = "own_current_neighbor_current"
    <3>1. SlotMatches(cluster[i], cluster.own_current_seed, cluster.neighbor_current_key_material)
      BY <1>1, <2>1 DEF SlotsMatchSeeds
    <3> QED BY <1>1, <1>3, <2>1, <3>1, LatestSeeds, KeyOfSlot
  <2>2. CASE i = "own_current_neighbor_previous"
    <3>1. SlotMatches(cluster[i], cluster.own_current_seed, cluster.neighbor_previous_key_material)
      BY <1>1, <2>2 DEF SlotsMatchSeeds
    <3> QED BY <1>1, <1>3, <2>2, <3>1, LatestSeeds, KeyOfSlot
  <2>3. CASE i = "own_previous_neighbor_current"
    <3>1. SlotMatches(cluster[i], cluster.own_previous_seed, cluster.neighbor_current_key_material)
      BY <1>1, <2>3 DEF SlotsMatchSeeds
    <3> QED BY <1>1, <1>3, <2>3, <3>1, LatestSeeds, KeyOfSlot
  <2>4. CASE i = "own_previous_neighbor_previous"
    <3>1. SlotMatches(cluster[i], cluster.own_previous_seed, cluster.neighbor_previous_key_material)
      BY <1>1, <2>4 DEF SlotsMatchSeeds
    <3> QED BY <1>1, <1>3, <2>4, <3>1, LatestSeeds, KeyOfSlot
  <2> QED BY <2>1, <2>2, <2>3, <2>4 DEF SlotNames
<1>4. ASSUME NEW i \in SlotNames, NEW j \in SlotNames, own(i) = own(j), other(i) = other(j)
      PROVE  i = j
  BY <1>1, <1>4 DEF SlotNames
<1> HIDE DEF own, other
<1>5. KeysApart(cluster)
  BY <1>3, <1>4, KeysDiffer DEF KeysApart
<1> QED BY <1>2, <1>5

\* A stream with a half that was never pushed is not in the table.
LEMMA NewHalfUnlisted ==
  ASSUME IInv, TableInv, NEW s, NEW o \in Nat, NEW m \in Nat,
         o >= own_pushed \/ m >= neighbor_pushed,
         s # None => s.key = Exchange(OwnSeed(o), Material(m))
  PROVE  /\ Unlisted(upcoming, s, Neighbor)
         /\ s # None => \A t \in Streams(cluster) : t.key # s.key
<1>1. own_pushed \in Nat /\ neighbor_pushed \in Nat
  BY DEF IInv, TypeOK
<1>2. Unlisted(upcoming, s, Neighbor)
  <2> SUFFICES ASSUME s # None, NEW x, NEW i, Lists(upcoming, x, i), IsFor(x, Neighbor, s.key)
               PROVE  FALSE
    BY DEF Unlisted
  <2>1. PICK k \in 0 .. own_pushed - 1, l \in 0 .. neighbor_pushed - 1 :
          x.stream_key = Exchange(OwnSeed(k), Material(l))
    BY DEF TableInv, ListedKeysKnown
  <2>2. k = o /\ l = m
    BY <1>1, <2>1, KeysDiffer DEF IsFor
  <2> QED BY <1>1, <2>2
<1>3. ASSUME s # None, NEW t \in Streams(cluster)
      PROVE  t.key # s.key
  <2>1. PICK k \in Nat, l \in Nat : /\ k \in own_pushed - 2 .. own_pushed - 1
                                    /\ l \in neighbor_pushed - 2 .. neighbor_pushed - 1
                                    /\ t.key = Exchange(OwnSeed(k), Material(l))
    BY <1>3, KeysOfStreams
  <2> QED BY <1>1, <1>3, <2>1, KeysDiffer
<1> QED BY <1>2, <1>3

\* maybe_new starts at number 0 with every bit of the mask set.
LEMMA MadeFresh ==
  ASSUME NEW o \in SeedType, NEW m \in SeedType
  PROVE  Fresh(MaybeNew(o, m, IsLater))
BY RotationAssumption, WindowAssumption
   DEF Fresh, MaybeNew, AnyStream, SeedType, Exchange, Bits

LEMMA RangeGrows ==
  ASSUME NEW a \in Nat, NEW b \in Nat, b >= a
  PROVE  0 .. a - 1 \subseteq 0 .. b - 1
OBVIOUS

\* A push that makes streams s and t and keeps others where it keeps them.
LEMMA PushTable ==
  ASSUME IInv, TableInv,
         NEW s, Fresh(s), Unlisted(upcoming, s, Neighbor),
         NEW t, Fresh(t), Unlisted(upcoming, t, Neighbor),
         s # None /\ t # None => s.key # t.key,
         \A r \in Streams(cluster) : /\ s # None => r.key # s.key
                                     /\ t # None => r.key # t.key,
         upcoming' = ExpectNew(ExpectNew(upcoming, s, Neighbor), t, Neighbor),
         \A i \in SlotNames :
           cluster'[i] \in {s, t} \/ \E j \in SlotNames : cluster'[i] = cluster[j],
         \A r \in {s, t} : r # None =>
           \E o \in 0 .. own_pushed' - 1, m \in 0 .. neighbor_pushed' - 1 :
             r.key = Exchange(OwnSeed(o), Material(m)),
         own_pushed' >= own_pushed, neighbor_pushed' >= neighbor_pushed,
         own_pushed' \in Nat, neighbor_pushed' \in Nat,
         UNCHANGED panicked
  PROVE  TableInv'
<1>1. /\ Tidy(upcoming, {Neighbor})
      /\ TableMatches(upcoming, cluster, Neighbor)
      /\ ListedKeysKnown
      /\ ~ panicked
  BY DEF TableInv
<1>2. own_pushed \in Nat /\ neighbor_pushed \in Nat
  BY DEF IInv, TypeOK
<1>3. /\ Tidy(upcoming', {Neighbor})
      /\ Matched(upcoming', s, Neighbor)
      /\ Matched(upcoming', t, Neighbor)
      /\ SameButTwo(upcoming, upcoming', Neighbor, s, t)
  BY <1>1, TwoStreamsStart
<1>4. TableMatches(upcoming', cluster', Neighbor)
  <2>1. ASSUME NEW i \in SlotNames
        PROVE  Matched(upcoming', cluster'[i], Neighbor)
    <3>1. CASE cluster'[i] \in {s, t}
      BY <1>3, <3>1
    <3>2. ASSUME NEW j \in SlotNames, cluster'[i] = cluster[j]
          PROVE  Matched(upcoming', cluster'[i], Neighbor)
      <4> PICK r : r = cluster[j]
        OBVIOUS
      <4>1. Matched(upcoming, r, Neighbor)
        BY <1>1 DEF TableMatches, Matched
      <4>2. r # None => /\ s # None => s.key # r.key
                        /\ t # None => t.key # r.key
        BY SlotsHoldStreams
      <4>3. Matched(upcoming', r, Neighbor)
        BY <1>3, <4>1, <4>2, ThirdMatches
      <4> QED BY <3>2, <4>3
    <3> QED BY <3>1, <3>2
  <2> QED BY <2>1 DEF TableMatches, Matched
<1>5. /\ 0 .. own_pushed - 1 \subseteq 0 .. own_pushed' - 1
      /\ 0 .. neighbor_pushed - 1 \subseteq 0 .. neighbor_pushed' - 1
  BY <1>2, RangeGrows
<1>6. ListedKeysKnown'
  <2> SUFFICES ASSUME NEW x, NEW i, Lists(upcoming', x, i)
               PROVE  \E o \in 0 .. own_pushed' - 1, m \in 0 .. neighbor_pushed' - 1 :
                        x.stream_key = Exchange(OwnSeed(o), Material(m))
    BY DEF ListedKeysKnown
  <2>1. CASE s # None /\ IsFor(x, Neighbor, s.key)
    BY <2>1 DEF IsFor
  <2>2. CASE t # None /\ IsFor(x, Neighbor, t.key)
    BY <2>2 DEF IsFor
  <2>3. CASE Lists(upcoming, x, i)
    <3>1. PICK o \in 0 .. own_pushed - 1, m \in 0 .. neighbor_pushed - 1 :
            x.stream_key = Exchange(OwnSeed(o), Material(m))
      BY <1>1, <2>3 DEF ListedKeysKnown
    <3>2. o \in 0 .. own_pushed' - 1 /\ m \in 0 .. neighbor_pushed' - 1
      BY <1>5
    <3> QED BY <3>1, <3>2
  <2> QED BY <1>3, <2>1, <2>2, <2>3 DEF SameButTwo
<1> QED BY <1>1, <1>3, <1>4, <1>6 DEF TableInv

LEMMA PushOwnTable ==
  ASSUME IInv, TableInv, PushOwn
  PROVE  TableInv'
<1> DEFINE seed == OwnSeed(own_pushed)
           new1 == MaybeNew(seed, cluster.neighbor_current_key_material, IsLater)
           new2 == MaybeNew(seed, cluster.neighbor_previous_key_material, IsLater)
<1>1. /\ cluster \in ClusterType /\ own_pushed \in Nat /\ neighbor_pushed \in Nat
      /\ SlotsMatchSeeds
  BY DEF IInv, TypeOK
<1>2. /\ own_pushed' = own_pushed + 1
      /\ UNCHANGED <<neighbor_pushed, panicked>>
  BY DEF PushOwn
<1>3. /\ cluster.neighbor = Neighbor /\ cluster.neighbor_is_lexico_later = IsLater
      /\ cluster.neighbor_current_key_material \in SeedType
      /\ cluster.neighbor_previous_key_material \in SeedType
      /\ seed \in SeedType
  BY <1>1 DEF ClusterType, SeedType, OwnSeed
<1>4. /\ cluster'.own_previous_neighbor_current = cluster.own_current_neighbor_current
      /\ cluster'.own_previous_neighbor_previous = cluster.own_current_neighbor_previous
      /\ cluster'.own_current_neighbor_current = new1
      /\ cluster'.own_current_neighbor_previous = new2
  BY <1>1, <1>3 DEF PushOwn, PushOwnSeed, ClusterType
<1>5. upcoming' = ExpectNew(ExpectNew(upcoming, new1, Neighbor), new2, Neighbor)
  BY <1>1, <1>3 DEF PushOwn, UpcomingAfterOwnSeed, PushOwnSeed, ClusterType
<1>6. /\ new1 # None => /\ neighbor_pushed >= 1
                        /\ new1.key = Exchange(seed, Material(neighbor_pushed - 1))
      /\ new2 # None => /\ neighbor_pushed >= 2
                        /\ new2.key = Exchange(seed, Material(neighbor_pushed - 2))
  BY LatestSeeds DEF MaybeNew
<1>7. Fresh(new1) /\ Fresh(new2)
  BY <1>3, MadeFresh
<1> HIDE DEF new1, new2
<1>8. ASSUME NEW r, NEW m \in Nat, r # None => r.key = Exchange(seed, Material(m))
      PROVE  /\ Unlisted(upcoming, r, Neighbor)
             /\ r # None => \A t \in Streams(cluster) : t.key # r.key
  BY <1>1, <1>8, NewHalfUnlisted
<1>9. ASSUME NEW r \in {new1, new2}
      PROVE  /\ Unlisted(upcoming, r, Neighbor)
             /\ r # None => \A t \in Streams(cluster) : t.key # r.key
             /\ r # None => \E o \in 0 .. own_pushed' - 1, m \in 0 .. neighbor_pushed' - 1 :
                              r.key = Exchange(OwnSeed(o), Material(m))
  <2>1. CASE r = None
    BY <2>1 DEF Unlisted
  <2>2. CASE r # None
    <3>1. PICK m \in 0 .. neighbor_pushed - 1 : r.key = Exchange(seed, Material(m))
      BY <1>1, <1>6, <1>9, <2>2
    <3>2. own_pushed \in 0 .. own_pushed' - 1 /\ m \in 0 .. neighbor_pushed' - 1 /\ m \in Nat
      BY <1>1, <1>2
    <3> QED BY <1>8, <3>1, <3>2
  <2> QED BY <2>1, <2>2
<1>10. new1 # None /\ new2 # None => new1.key # new2.key
  <2> SUFFICES ASSUME new1 # None, new2 # None, new1.key = new2.key PROVE FALSE
    OBVIOUS
  <2>1. neighbor_pushed - 1 \in Nat /\ neighbor_pushed - 2 \in Nat
    BY <1>1, <1>6
  <2>2. neighbor_pushed - 1 = neighbor_pushed - 2
    BY <1>1, <1>6, <2>1, KeysDiffer
  <2> QED BY <1>1, <2>2
<1>11. \A i \in SlotNames :
         cluster'[i] \in {new1, new2} \/ \E j \in SlotNames : cluster'[i] = cluster[j]
  BY <1>4 DEF SlotNames
<1>12. /\ own_pushed' >= own_pushed /\ neighbor_pushed' >= neighbor_pushed
       /\ own_pushed' \in Nat /\ neighbor_pushed' \in Nat
  BY <1>1, <1>2
<1>13. \A r \in Streams(cluster) : /\ new1 # None => r.key # new1.key
                                   /\ new2 # None => r.key # new2.key
  BY <1>9
<1> QED BY <1>2, <1>5, <1>7, <1>9, <1>10, <1>11, <1>12, <1>13, PushTable

LEMMA PushNeighborTable ==
  ASSUME IInv, TableInv, PushNeighbor
  PROVE  TableInv'
<1> DEFINE material == Material(neighbor_pushed)
           new1 == MaybeNew(cluster.own_current_seed, material, IsLater)
           new2 == MaybeNew(cluster.own_previous_seed, material, IsLater)
<1>1. /\ cluster \in ClusterType /\ own_pushed \in Nat /\ neighbor_pushed \in Nat
      /\ SlotsMatchSeeds
  BY DEF IInv, TypeOK
<1>2. /\ neighbor_pushed' = neighbor_pushed + 1
      /\ UNCHANGED <<own_pushed, panicked>>
  BY DEF PushNeighbor
<1>3. /\ cluster.neighbor = Neighbor /\ cluster.neighbor_is_lexico_later = IsLater
      /\ cluster.own_current_seed \in SeedType
      /\ cluster.own_previous_seed \in SeedType
      /\ material \in SeedType
  BY <1>1 DEF ClusterType, SeedType, Material
<1>4. /\ cluster'.own_current_neighbor_previous = cluster.own_current_neighbor_current
      /\ cluster'.own_previous_neighbor_previous = cluster.own_previous_neighbor_current
      /\ cluster'.own_current_neighbor_current = new1
      /\ cluster'.own_previous_neighbor_current = new2
  BY <1>1, <1>3 DEF PushNeighbor, PushNeighborKeyMaterial, ClusterType
<1>5. upcoming' = ExpectNew(ExpectNew(upcoming, new1, Neighbor), new2, Neighbor)
  BY <1>1, <1>3 DEF PushNeighbor, UpcomingAfterMaterial, PushNeighborKeyMaterial, ClusterType
<1>6. /\ new1 # None => /\ own_pushed >= 1
                        /\ new1.key = Exchange(OwnSeed(own_pushed - 1), material)
      /\ new2 # None => /\ own_pushed >= 2
                        /\ new2.key = Exchange(OwnSeed(own_pushed - 2), material)
  BY LatestSeeds DEF MaybeNew
<1>7. Fresh(new1) /\ Fresh(new2)
  BY <1>3, MadeFresh
<1> HIDE DEF new1, new2
<1>8. ASSUME NEW r, NEW o \in Nat, r # None => r.key = Exchange(OwnSeed(o), material)
      PROVE  /\ Unlisted(upcoming, r, Neighbor)
             /\ r # None => \A t \in Streams(cluster) : t.key # r.key
  BY <1>1, <1>8, NewHalfUnlisted
<1>9. ASSUME NEW r \in {new1, new2}
      PROVE  /\ Unlisted(upcoming, r, Neighbor)
             /\ r # None => \A t \in Streams(cluster) : t.key # r.key
             /\ r # None => \E o \in 0 .. own_pushed' - 1, m \in 0 .. neighbor_pushed' - 1 :
                              r.key = Exchange(OwnSeed(o), Material(m))
  <2>1. CASE r = None
    BY <2>1 DEF Unlisted
  <2>2. CASE r # None
    <3>1. PICK o \in 0 .. own_pushed - 1 : r.key = Exchange(OwnSeed(o), material)
      BY <1>1, <1>6, <1>9, <2>2
    <3>2. neighbor_pushed \in 0 .. neighbor_pushed' - 1 /\ o \in 0 .. own_pushed' - 1 /\ o \in Nat
      BY <1>1, <1>2
    <3> QED BY <1>8, <3>1, <3>2
  <2> QED BY <2>1, <2>2
<1>10. new1 # None /\ new2 # None => new1.key # new2.key
  <2> SUFFICES ASSUME new1 # None, new2 # None, new1.key = new2.key PROVE FALSE
    OBVIOUS
  <2>1. own_pushed - 1 \in Nat /\ own_pushed - 2 \in Nat
    BY <1>1, <1>6
  <2>2. own_pushed - 1 = own_pushed - 2
    BY <1>1, <1>6, <2>1, KeysDiffer
  <2> QED BY <1>1, <2>2
<1>11. \A i \in SlotNames :
         cluster'[i] \in {new1, new2} \/ \E j \in SlotNames : cluster'[i] = cluster[j]
  BY <1>4 DEF SlotNames
<1>12. /\ own_pushed' >= own_pushed /\ neighbor_pushed' >= neighbor_pushed
       /\ own_pushed' \in Nat /\ neighbor_pushed' \in Nat
  BY <1>1, <1>2
<1>13. \A r \in Streams(cluster) : /\ new1 # None => r.key # new1.key
                                   /\ new2 # None => r.key # new2.key
  BY <1>9
<1> QED BY <1>2, <1>5, <1>7, <1>9, <1>10, <1>11, <1>12, <1>13, PushTable

\* A message that is sent leaves the windows alone.
LEMMA SendTable ==
  ASSUME IInv, TableInv, Send
  PROVE  TableInv'
<1>1. /\ cluster \in ClusterType
      /\ UNCHANGED <<upcoming, own_pushed, neighbor_pushed, panicked>>
  BY DEF IInv, TypeOK, Send
<1>2. ASSUME NEW i \in SlotNames, cluster'[i] # None
      PROVE  /\ cluster[i] # None
             /\ cluster'[i].key = cluster[i].key
             /\ cluster'[i].neighbor_is_lexico_later = cluster[i].neighbor_is_lexico_later
             /\ cluster'[i].incoming_message_mask_start = cluster[i].incoming_message_mask_start
             /\ cluster'[i].incoming_message_mask = cluster[i].incoming_message_mask
  <2> DEFINE slot == OutgoingSlot(cluster)
  <2>1. slot \in SlotNames /\ cluster[slot] # None
    BY <1>1 DEF OutgoingSlot, Preferred, Send, StreamReady, SlotNames
  <2>2. cluster' = [cluster EXCEPT ![slot].outgoing_message_index = @ + 1]
    BY DEF Send, IdentifierTaken
  <2> HIDE DEF slot
  <2>3. /\ SlotNames \subseteq DOMAIN cluster
        /\ cluster[slot] \in StreamType
    BY <1>1, <2>1 DEF ClusterType, SlotNames, SlotType
  <2>4. CASE i = slot
    BY <2>1, <2>2, <2>3, <2>4 DEF StreamType
  <2>5. CASE i # slot
    BY <1>2, <2>2, <2>3, <2>5
  <2> QED BY <2>4, <2>5
<1>3. TableMatches(upcoming, cluster', Neighbor)
  <2>1. ASSUME NEW s, NEW t, MatchesWindow(upcoming, s, Neighbor),
               t.key = s.key, t.neighbor_is_lexico_later = s.neighbor_is_lexico_later,
               t.incoming_message_mask_start = s.incoming_message_mask_start,
               t.incoming_message_mask = s.incoming_message_mask
        PROVE  MatchesWindow(upcoming, t, Neighbor)
    BY <2>1 DEF MatchesWindow, ExpectedPacket, Identifier, Awaits
  <2> QED BY <1>2, <2>1 DEF TableInv, TableMatches
<1> QED BY <1>1, <1>3 DEF TableInv, ListedKeysKnown

\* What is received is listed, so the stream it is for awaits it.
LEMMA ReceiveTable ==
  ASSUME IInv, TableInv, NEW s, NEW n, Receive(s, n)
  PROVE  TableInv'
<1> DEFINE identifier == Identifier(s, "Outgoing", n)
           packet == [key   |-> s.key,
                      nonce |-> OutgoingNonce([s EXCEPT !.outgoing_message_index = n])]
           candidates == Candidates(upcoming, identifier)
           first == SelectInSeq(candidates, LAMBDA e : ClusterDecrypts(cluster, e, packet))
           I == {k \in 1 .. Len(candidates) : ClusterDecrypts(cluster, candidates[k], packet)}
           p == candidates[first]
<1>1. /\ Tidy(upcoming, {Neighbor})
      /\ TableMatches(upcoming, cluster, Neighbor)
      /\ ListedKeysKnown
      /\ ~ panicked
  BY DEF TableInv
<1>2. SlotsShape(cluster) /\ KeysApart(cluster)
  BY SlotsAreShaped
<1>3. first # 0 /\ UNCHANGED <<own_pushed, neighbor_pushed>>
  BY DEF Receive
<1>4. first \in I
  <2>1. first = IF I # {} THEN Min(I) ELSE 0
    BY DEF SelectInSeq
  <2>2. I \subseteq Nat
    OBVIOUS
  <2> HIDE DEF I, first
  <2> QED BY <1>3, <2>1, <2>2, LeastIsMin
<1>5. candidates \in Seq(Packets({Neighbor}))
  BY <1>1, CandidatesListed DEF Tidy
<1> HIDE DEF first, packet, identifier
<1>6. first \in DOMAIN candidates /\ ClusterDecrypts(cluster, p, packet)
  BY <1>4, <1>5
<1>7. Lists(upcoming, p, identifier) /\ p.stream_with = Neighbor
  <2>1. Lists(upcoming, p, identifier)
    BY <1>6 DEF Lists
  <2> HIDE DEF candidates
  <2>2. p \in Packets({Neighbor})
    BY <1>5, <1>6
  <2> QED BY <2>1, <2>2 DEF Packets
<1> HIDE DEF candidates, I
<1>8. PICK i \in SlotNames : cluster[i] # None /\ cluster[i].key = p.stream_key
  BY <1>6, DecryptedHasSlot
<1>9. /\ ~ ClusterPanics(cluster, p)
      /\ p = ExpectedPacket(cluster[i], Neighbor, p.packet_number)
      /\ p.packet_number \in Nat
      /\ Awaits(cluster[i], p.packet_number)
      /\ identifier = Identifier(cluster[i], "Incoming", p.packet_number)
  BY <1>1, <1>2, <1>7, <1>8, ListedIsInside
<1>10. /\ cluster' = GotIncomingPacket(cluster, p)
       /\ upcoming' = UpcomingAfterPacket(upcoming, cluster, p, identifier)
       /\ UNCHANGED panicked
  BY <1>9 DEF Receive, Recognize, first, packet, identifier, candidates
<1>11. /\ Tidy(upcoming', {Neighbor})
       /\ TableMatches(upcoming', cluster', Neighbor)
       /\ SameBut(upcoming, upcoming', Neighbor, cluster[i].key)
  BY <1>1, <1>2, <1>8, <1>9, <1>10, PacketMoves
<1>12. ListedKeysKnown'
  <2> SUFFICES ASSUME NEW x, NEW j, Lists(upcoming', x, j)
               PROVE  \E o \in 0 .. own_pushed - 1, m \in 0 .. neighbor_pushed - 1 :
                        x.stream_key = Exchange(OwnSeed(o), Material(m))
    BY <1>3 DEF ListedKeysKnown
  <2>1. CASE IsFor(x, Neighbor, cluster[i].key)
    BY <1>1, <1>7, <1>8, <2>1 DEF ListedKeysKnown, IsFor
  <2>2. CASE ~ IsFor(x, Neighbor, cluster[i].key)
    BY <1>1, <1>11, <2>2 DEF ListedKeysKnown, SameBut
  <2> QED BY <2>1, <2>2
<1> QED BY <1>1, <1>10, <1>11, <1>12 DEF TableInv

LEMMA TableSteps ==
  ASSUME IInv, TableInv, [Next]_vars
  PROVE  TableInv'
<1>1. CASE UNCHANGED vars
  BY <1>1 DEF vars, TableInv, ListedKeysKnown
<1> QED BY <1>1, PushOwnTable, PushNeighborTable, SendTable, ReceiveTable DEF Next

LEMMA TableInitially ==
  ASSUME Init
  PROVE  TableInv
<1>1. upcoming = <<>> /\ DOMAIN upcoming = {} /\ ~ panicked
  BY DEF Init, EmptyTable
<1>2. Tidy(upcoming, {Neighbor})
  BY <1>1 DEF Tidy, IsTable, NoRepeats
<1>3. \A x, i : ~ Lists(upcoming, x, i)
  BY <1>1 DEF Lists, Candidates
<1>4. \A i \in SlotNames : cluster[i] = None
  BY DEF Init, NewCluster, SlotNames
<1> QED BY <1>1, <1>2, <1>3, <1>4 DEF TableInv, TableMatches, ListedKeysKnown

LEMMA TableInvariance == Spec => [](IInv /\ TableInv)
BY Initially, TableInitially, Steps, TableSteps, PTL DEF Spec

-----------------------------------------------------------------------------
(* Theorems.                                                               *)

\* Cluster and counters keep their shape, however often seeds are renewed.
THEOREM TypeCorrect == Spec => []TypeOK
<1>1. IInv => TypeOK
  BY DEF IInv
<1> QED BY <1>1, Invariance, PTL

\* Each slot holds the stream of the seeds its name says, for any sequence
\* of pushes and packets.
THEOREM SlotsCorrect == Spec => []SlotsMatchSeeds
<1>1. IInv => SlotsMatchSeeds
  BY DEF IInv
<1> QED BY <1>1, Invariance, PTL

\* No stream that stays in the cluster is reset: no nonce is used again and
\* no number is awaited a second time.
THEOREM NeverReset == Spec => StreamsNeverReset
<1>1. ASSUME IInv, OnlyCarries
      PROVE  \A s \in Streams(cluster), t \in Streams(cluster') :
               s.key = t.key => Carried(s, t)
  <2> TAKE s \in Streams(cluster), t \in Streams(cluster')
  <2> HAVE s.key = t.key
  <2>1. PICK r \in Streams(cluster) : Carried(r, t)
    BY <1>1 DEF OnlyCarries
  <2>2. r = s
    BY <1>1, <2>1, DistinctKeys DEF Carried
  <2> QED BY <2>1, <2>2
<1>2. ASSUME IInv, [Next]_vars
      PROVE  [\A s \in Streams(cluster), t \in Streams(cluster') :
               s.key = t.key =>
                 /\ t.outgoing_message_index >= s.outgoing_message_index
                 /\ \A n \in 0 .. s.incoming_message_mask_start + Window - 1 :
                      n - t.incoming_message_mask_start \in t.incoming_message_mask =>
                        n - s.incoming_message_mask_start \in s.incoming_message_mask
              ]_vars
  BY <1>1, <1>2, Steps DEF Carried
<1> QED BY <1>2, Invariance, PTL DEF Spec, StreamsNeverReset

\* A stream whose seeds are both still current or previous is kept.
THEOREM RenewalKeeps == Spec => OneRenewalKeepsStream
<1>1. ASSUME IInv, [Next]_vars
      PROVE  [\A s \in Streams(cluster) :
               s.key \subseteq {cluster.own_current_seed, cluster.own_previous_seed,
                                cluster.neighbor_current_key_material,
                                cluster.neighbor_previous_key_material}
               /\ s.key \subseteq {cluster'.own_current_seed,
                                   cluster'.own_previous_seed,
                                   cluster'.neighbor_current_key_material,
                                   cluster'.neighbor_previous_key_material}
               => \E t \in Streams(cluster') : t.key = s.key]_vars
  BY <1>1, Steps DEF OnlyCarries, Carried, InUse
<1> QED BY <1>1, Invariance, PTL DEF Spec, OneRenewalKeepsStream

\* For every window and any history of pushes and packets: the table lists
\* each number that a stream of the cluster awaits once, and no other.
THEOREM TableCorrect == Spec => []TableMatchesWindows
<1>1. ASSUME IInv, TableInv
      PROVE  TableMatchesWindows
  <2> SUFFICES ASSUME NEW s \in Streams(cluster), NEW n \in 0 .. MaxNumber + Window
               PROVE  Listed(s, n) = IF Awaits(s, n) THEN 1 ELSE 0
    BY DEF TableMatchesWindows, Awaits
  <2> DEFINE id         == Identifier(s, "Incoming", n)
             packet     == ExpectedPacket(s, Neighbor, n)
             candidates == Candidates(upcoming, id)
             places     == {i \in DOMAIN candidates : candidates[i] = packet}
  <2>1. n \in Nat
    BY RotationAssumption, WindowAssumption
  <2>2. MatchesWindow(upcoming, s, Neighbor)
    BY <1>1, SlotsHoldStreams DEF TableInv, TableMatches
  <2>3. places # {} <=> Awaits(s, n)
    BY <2>1, <2>2 DEF MatchesWindow, Lists
  <2>4. \A i, j \in places : i = j
    <3>1. \A i, j \in DOMAIN candidates : candidates[i] = candidates[j] => i = j
      BY <1>1 DEF TableInv, Tidy, NoRepeats, Candidates
    <3> QED BY <3>1
  <2>5. Listed(s, n) = Cardinality(places)
    BY DEF Listed
  <2> HIDE DEF places
  <2>6. CASE Awaits(s, n)
    <3>1. PICK i : places = {i}
      BY <2>3, <2>4, <2>6
    <3>2. Cardinality(places) = 1
      BY <3>1, FS_Singleton
    <3> QED BY <2>5, <2>6, <3>2
  <2>7. CASE ~ Awaits(s, n)
    <3>1. Cardinality(places) = 0
      BY <2>3, <2>7, FS_EmptySet
    <3> QED BY <2>5, <2>7, <3>1
  <2> QED BY <2>6, <2>7
<1> QED BY <1>1, TableInvariance, PTL

\* No packet reaches a stream that does not await it, whatever identifiers
\* collide: the panic of got_incoming_packet is out of reach.
THEOREM NeverAhead == Spec => []NeverAheadOfWindow
<1>1. TableInv => NeverAheadOfWindow
  BY DEF TableInv, NeverAheadOfWindow
<1> QED BY <1>1, TableInvariance, PTL
=============================================================================
