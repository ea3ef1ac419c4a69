----------------------------- MODULE Agent_proofs -----------------------------
(***************************************************************************)
(* What holds for any number of agents, calls, restarts and packets, any   *)
(* key stream and any window.  Without an assumption: what is listed is    *)
(* expected from a neighbor that is kept (ExpectedStays).  As long as no   *)
(* initiation packet is repeated: no nonce is used twice under one key     *)
(* (NonceNeverReused), no packet meets a window that did not announce it   *)
(* (NeverAhead), what is awaited is recognized (AwaitedRecognized), and    *)
(* the agents implement the at-most-once channel (ExecutedOnce).           *)
(*                                                                         *)
(* Every seed belongs to one agent, which drew it for one neighbor.  The   *)
(* state does not say which: agents forget their seeds.  IInv says that    *)
(* there is an assignment of seeds to pairs of agents, "owner", that every *)
(* cluster, every initiation packet under way and every packet sent agrees *)
(* with; a step that draws a seed extends it.  From it follows that a key  *)
(* which an agent makes is new to its table, so that table and windows     *)
(* agree (TableInv), and that a packet which was taken is never taken      *)
(* again, under whatever streams come later (ExecInv).                     *)
(***************************************************************************)
EXTENDS Agent, StreamCluster_proofs

Owners == [Nat -> Nat \X Nat]

\* One of the first n seeds, x, was drawn by agent a for its neighbor b.
Belongs(owner, n, x, a, b) ==
  /\ a \in Agents /\ b \in Agents /\ a # b
  /\ x \in Nat /\ x < n
  /\ owner[x] = <<a, b>>

OwnSeeds(c) == {c.own_current_seed, c.own_previous_seed} \ {None}

Materials(c) ==
  {c.neighbor_current_key_material, c.neighbor_previous_key_material} \ {None}

KeyedBy(slot, later, o, m) ==
  slot # None =>
    /\ o # None /\ m # None
    /\ slot.key = Exchange(o, m)
    /\ slot.neighbor_is_lexico_later = later

\* A cluster that agent a may keep of agent b.
Fits(owner, n, a, b, c) ==
  /\ c \in ClusterShape
  /\ c.neighbor_is_lexico_later = (b > a)
  /\ \A x \in OwnSeeds(c) : Belongs(owner, n, x, a, b)
  /\ \A x \in Materials(c) : Belongs(owner, n, x, b, a)
  /\ c.own_current_seed = c.own_previous_seed => c.own_previous_seed = None
  /\ c.neighbor_current_key_material = c.neighbor_previous_key_material
       => c.neighbor_previous_key_material = None
  /\ KeyedBy(c.own_current_neighbor_current, b > a,
             c.own_current_seed, c.neighbor_current_key_material)
  /\ KeyedBy(c.own_current_neighbor_previous, b > a,
             c.own_current_seed, c.neighbor_previous_key_material)
  /\ KeyedBy(c.own_previous_neighbor_current, b > a,
             c.own_previous_seed, c.neighbor_current_key_material)
  /\ KeyedBy(c.own_previous_neighbor_previous, b > a,
             c.own_previous_seed, c.neighbor_previous_key_material)

Parity(a, b) == IF b > a THEN 1 ELSE 0

\* Message i of a stream from a to b, which every stream that a still has
\* under that key has counted.
SealedAs(owner, n, p, a, b, i) ==
  /\ p.message.source = a /\ p.message.to = b
  /\ p.nonce = i * 2 + Parity(a, b)
  /\ \E x, y \in Nat : /\ p.key = {x, y}
                       /\ Belongs(owner, n, x, a, b)
                       /\ Belongs(owner, n, y, b, a)
  /\ neighbors[a][b] # None =>
       \A s \in Streams(neighbors[a][b].streams) :
         s.key = p.key => i < s.outgoing_message_index

Shaped ==
  /\ seeds \in Nat
  /\ neighbors \in [Agents -> [Agents -> NeighborShape \cup {None}]]

ClustersFit(owner) ==
  \A a \in Agents, b \in Agents :
    neighbors[a][b] # None =>
      /\ neighbors[a][b].address = b
      /\ Fits(owner, seeds, a, b, neighbors[a][b].streams)

\* The seed of an initiation packet under way is news to the receiver.
InitiationsAreNews(owner) ==
  \A p \in network : p.kind = "initiation" =>
    /\ p = InitiationPacket(p.source, p.to, p.key_material)
    /\ Belongs(owner, seeds, p.key_material, p.source, p.to)
    /\ neighbors[p.to][p.source] # None =>
         p.key_material \notin Materials(neighbors[p.to][p.source].streams)
    /\ \A q \in sent : q.message.source = p.to => p.key_material \notin q.key

SentIsCounted(owner) ==
  \A p \in sent : \E a, b \in Agents, i \in Nat :
    SealedAs(owner, seeds, p, a, b, i)

Agrees(owner) ==
  /\ Shaped
  /\ ClustersFit(owner)
  /\ InitiationsAreNews(owner)
  /\ SentIsCounted(owner)
  /\ NonceUsedOnce

IInv == \E owner \in Owners : Agrees(owner)

-----------------------------------------------------------------------------
(* Clusters.                                                               *)

LEMMA NoneIsApart == None \notin AnyStream /\ None \notin Nat
BY NoneAssumption

\* The streams of a cluster are what its slots hold.
LEMMA StreamsOfSlots ==
  ASSUME NEW c
  PROVE  Streams(c) = {c.own_current_neighbor_current,
                       c.own_current_neighbor_previous,
                       c.own_previous_neighbor_current,
                       c.own_previous_neighbor_previous} \ {None}
<1>1. ToSet(Slots(c)) = {c.own_current_neighbor_current,
                         c.own_current_neighbor_previous,
                         c.own_previous_neighbor_current,
                         c.own_previous_neighbor_previous}
  BY DEF ToSet, Slots
<1> QED BY <1>1 DEF Streams

\* What was said of seeds stays true when the next one is drawn.
LEMMA BelongsStill ==
  ASSUME NEW owner \in Owners, NEW n \in Nat, NEW d \in Nat \X Nat,
         NEW x, NEW a, NEW b, Belongs(owner, n, x, a, b)
  PROVE  Belongs([owner EXCEPT ![n] = d], n + 1, x, a, b)
BY DEF Belongs, Owners

LEMMA FitsStill ==
  ASSUME NEW owner, NEW later, NEW n, NEW m,
         \A x, a, b : Belongs(owner, n, x, a, b) => Belongs(later, m, x, a, b),
         NEW a, NEW b, NEW c, Fits(owner, n, a, b, c)
  PROVE  Fits(later, m, a, b, c)
BY DEF Fits

\* The seed just drawn belongs to the agent that drew it.
LEMMA FreshBelongs ==
  ASSUME NEW owner \in Owners, NEW n \in Nat,
         NEW a \in Agents, NEW b \in Agents, a # b
  PROVE  /\ [owner EXCEPT ![n] = <<a, b>>] \in Owners
         /\ Belongs([owner EXCEPT ![n] = <<a, b>>], n + 1, n, a, b)
BY AgentAssumption DEF Belongs, Owners

\* maybe_new makes a stream that has sent nothing, for the key it is given.
LEMMA MadeNew ==
  ASSUME NEW o \in Nat \cup {None}, NEW m \in Nat \cup {None},
         NEW later \in BOOLEAN
  PROVE  /\ MaybeNew(o, m, later) \in AnyStream \cup {None}
         /\ KeyedBy(MaybeNew(o, m, later), later, o, m)
         /\ None \in {o, m} => MaybeNew(o, m, later) = None
<1>1. CASE None \in {o, m}
  BY <1>1 DEF MaybeNew, KeyedBy
<1>2. CASE None \notin {o, m}
  <2>1. Bits \subseteq Nat
    BY WindowAssumption DEF Bits
  <2>2. MaybeNew(o, m, later) \in AnyStream
    BY <1>2, <2>1 DEF MaybeNew, AnyStream, Exchange
  <2>3. KeyedBy(MaybeNew(o, m, later), later, o, m)
    BY <1>2 DEF MaybeNew, KeyedBy
  <2> QED BY <1>2, <2>2, <2>3
<1> QED BY <1>1, <1>2

\* No two slots hold streams with the same key.
LEMMA DistinctKeys ==
  ASSUME NEW owner \in Owners, NEW n \in Nat, NEW a, NEW b, NEW c,
         Fits(owner, n, a, b, c),
         NEW o \in OwnSeeds(c), NEW p \in OwnSeeds(c),
         NEW m \in Materials(c), NEW q \in Materials(c),
         Exchange(o, m) = Exchange(p, q)
  PROVE  o = p /\ m = q
<1>1. Belongs(owner, n, o, a, b) /\ Belongs(owner, n, p, a, b)
  BY DEF Fits
<1>2. Belongs(owner, n, m, b, a) /\ Belongs(owner, n, q, b, a)
  BY DEF Fits
<1>3. o # q /\ p # m
  <2>1. <<a, b>> # <<b, a>>
    BY <1>1 DEF Belongs
  <2> QED BY <1>1, <1>2, <2>1 DEF Belongs
<1> QED BY <1>3 DEF Exchange

LEMMA NewClusterFits ==
  ASSUME NEW owner \in Owners, NEW n \in Nat,
         NEW a \in Agents, NEW b \in Agents
  PROVE  /\ Fits(owner, n, a, b, NewCluster(b, b > a))
         /\ Materials(NewCluster(b, b > a)) = {}
         /\ OwnSeeds(NewCluster(b, b > a)) = {}
BY DEF Fits, NewCluster, ClusterShape, OwnSeeds, Materials, KeyedBy

\* Every stream of cluster c has a key made from seed.
AllKeyedBy(c, seed) == \A s \in Streams(c) : seed \in s.key

\* push_own_seed in a cluster without a seed of its own.
LEMMA OwnSeedFits ==
  ASSUME NEW owner \in Owners, NEW n \in Nat, NEW a, NEW b, NEW c,
         NEW seed, Fits(owner, n, a, b, c), Belongs(owner, n, seed, a, b),
         OwnSeeds(c) = {}
  PROVE  /\ Fits(owner, n, a, b, PushOwnSeed(c, seed))
         /\ Materials(PushOwnSeed(c, seed)) = Materials(c)
         /\ AllKeyedBy(PushOwnSeed(c, seed), seed)
<1> DEFINE later == b > a
           new1 == MaybeNew(seed, c.neighbor_current_key_material, later)
           new2 == MaybeNew(seed, c.neighbor_previous_key_material, later)
           d == PushOwnSeed(c, seed)
<1>1. seed \in Nat /\ seed # None /\ later \in BOOLEAN
  BY NoneIsApart DEF Belongs
<1>2. c \in ClusterShape /\ c.neighbor_is_lexico_later = later
  BY DEF Fits
<1>3. /\ new1 \in AnyStream \cup {None}
      /\ KeyedBy(new1, later, seed, c.neighbor_current_key_material)
      /\ new2 \in AnyStream \cup {None}
      /\ KeyedBy(new2, later, seed, c.neighbor_previous_key_material)
  <2>1. /\ seed \in Nat \cup {None}
        /\ c.neighbor_current_key_material \in Nat \cup {None}
        /\ c.neighbor_previous_key_material \in Nat \cup {None}
    BY <1>1, <1>2 DEF ClusterShape
  <2> HIDE DEF later
  <2> QED BY <1>1, <2>1, MadeNew
<1>5. c.own_current_seed = None /\ c.own_previous_seed = None
  BY DEF OwnSeeds
<1> HIDE DEF later, new1, new2
<1>6. /\ d \in ClusterShape
      /\ d.neighbor_is_lexico_later = later
      /\ d.own_current_seed = seed
      /\ d.own_previous_seed = c.own_current_seed
      /\ d.neighbor_current_key_material = c.neighbor_current_key_material
      /\ d.neighbor_previous_key_material = c.neighbor_previous_key_material
      /\ d.own_current_neighbor_current = new1
      /\ d.own_current_neighbor_previous = new2
      /\ d.own_previous_neighbor_current = c.own_current_neighbor_current
      /\ d.own_previous_neighbor_previous = c.own_current_neighbor_previous
  BY <1>1, <1>2, <1>3 DEF ClusterShape, PushOwnSeed, new1, new2
<1>7. /\ c.own_current_neighbor_current = None
      /\ c.own_current_neighbor_previous = None
  BY <1>5 DEF Fits, KeyedBy
<1> HIDE DEF d
<1>8. Materials(d) = Materials(c)
  BY <1>6 DEF Materials
<1>9. Fits(owner, n, a, b, d)
  <2>1. \A x \in OwnSeeds(d) : Belongs(owner, n, x, a, b)
    BY <1>5, <1>6 DEF OwnSeeds
  <2>2. \A x \in Materials(d) : Belongs(owner, n, x, b, a)
    BY <1>8 DEF Fits
  <2>3. d.neighbor_current_key_material = d.neighbor_previous_key_material
          => d.neighbor_previous_key_material = None
    BY <1>6 DEF Fits
  <2>4. /\ KeyedBy(d.own_previous_neighbor_current, b > a,
                   d.own_previous_seed, d.neighbor_current_key_material)
        /\ KeyedBy(d.own_previous_neighbor_previous, b > a,
                   d.own_previous_seed, d.neighbor_previous_key_material)
    BY <1>6, <1>7 DEF KeyedBy
  <2> QED BY <1>3, <1>5, <1>6, <2>1, <2>2, <2>3, <2>4 DEF Fits, later
<1>10. AllKeyedBy(d, seed)
  BY <1>3, <1>6, <1>7, StreamsOfSlots DEF KeyedBy, Exchange, AllKeyedBy
<1> QED BY <1>8, <1>9, <1>10 DEF d

\* Cluster d has no material but m that c has not, and no stream but those
\* of c and some with a key made from m.
AddsOnly(m, c, d) ==
  /\ Materials(d) \subseteq Materials(c) \cup {m}
  /\ \A s \in Streams(d) : s \in Streams(c) \/ m \in s.key

\* push_neighbor_key_material of a material the cluster does not have: what
\* is in the cluster after it is new, or was there before.
LEMMA MaterialFits ==
  ASSUME NEW owner \in Owners, NEW n \in Nat, NEW a, NEW b, NEW c, NEW m,
         Fits(owner, n, a, b, c), Belongs(owner, n, m, b, a),
         m \notin Materials(c)
  PROVE  /\ Fits(owner, n, a, b, PushNeighborKeyMaterial(c, m))
         /\ OwnSeeds(PushNeighborKeyMaterial(c, m)) = OwnSeeds(c)
         /\ AddsOnly(m, c, PushNeighborKeyMaterial(c, m))
<1> DEFINE later == b > a
           new1 == MaybeNew(c.own_current_seed, m, later)
           new2 == MaybeNew(c.own_previous_seed, m, later)
           d == PushNeighborKeyMaterial(c, m)
<1>1. m \in Nat /\ m # None /\ later \in BOOLEAN
  BY NoneIsApart DEF Belongs
<1>2. c \in ClusterShape /\ c.neighbor_is_lexico_later = later
  BY DEF Fits
<1>3. /\ new1 \in AnyStream \cup {None}
      /\ KeyedBy(new1, later, c.own_current_seed, m)
      /\ new2 \in AnyStream \cup {None}
      /\ KeyedBy(new2, later, c.own_previous_seed, m)
  <2>1. /\ m \in Nat \cup {None}
        /\ c.own_current_seed \in Nat \cup {None}
        /\ c.own_previous_seed \in Nat \cup {None}
    BY <1>1, <1>2 DEF ClusterShape
  <2> HIDE DEF later
  <2> QED BY <1>1, <2>1, MadeNew
<1> HIDE DEF later, new1, new2
<1>4. /\ d \in ClusterShape
      /\ d.neighbor_is_lexico_later = later
      /\ d.own_current_seed = c.own_current_seed
      /\ d.own_previous_seed = c.own_previous_seed
      /\ d.neighbor_current_key_material = m
      /\ d.neighbor_previous_key_material = c.neighbor_current_key_material
      /\ d.own_current_neighbor_current = new1
      /\ d.own_current_neighbor_previous = c.own_current_neighbor_current
      /\ d.own_previous_neighbor_current = new2
      /\ d.own_previous_neighbor_previous = c.own_previous_neighbor_current
  BY <1>1, <1>2, <1>3 DEF ClusterShape, PushNeighborKeyMaterial, new1, new2
<1> HIDE DEF d
<1>5. Materials(d) \subseteq Materials(c) \cup {m} /\ OwnSeeds(d) = OwnSeeds(c)
  BY <1>4 DEF Materials, OwnSeeds
<1>6. Fits(owner, n, a, b, d)
  <2>1. \A x \in OwnSeeds(d) : Belongs(owner, n, x, a, b)
    BY <1>5 DEF Fits
  <2>2. \A x \in Materials(d) : Belongs(owner, n, x, b, a)
    BY <1>5 DEF Fits
  <2>3. d.own_current_seed = d.own_previous_seed => d.own_previous_seed = None
    BY <1>4 DEF Fits
  <2>4. d.neighbor_current_key_material = d.neighbor_previous_key_material
          => d.neighbor_previous_key_material = None
    BY <1>4 DEF Materials
  <2>5. /\ KeyedBy(d.own_current_neighbor_previous, b > a,
                   d.own_current_seed, d.neighbor_previous_key_material)
        /\ KeyedBy(d.own_previous_neighbor_previous, b > a,
                   d.own_previous_seed, d.neighbor_previous_key_material)
    BY <1>4 DEF Fits
  <2> QED BY <1>3, <1>4, <2>1, <2>2, <2>3, <2>4, <2>5 DEF Fits, later
<1>7. AddsOnly(m, c, d)
  <2>1. \A s \in Streams(d) : s \in Streams(c) \/ m \in s.key
    BY <1>3, <1>4, StreamsOfSlots DEF KeyedBy, Exchange
  <2> QED BY <1>5, <2>1 DEF AddsOnly
<1> QED BY <1>5, <1>6, <1>7 DEF d

\* A cluster whose slots hold what they held, but for what is not the key.
LEMMA FitsInPlace ==
  ASSUME NEW owner, NEW n, NEW a, NEW b, NEW c, NEW d,
         Fits(owner, n, a, b, c), d \in ClusterShape,
         d.neighbor_is_lexico_later = c.neighbor_is_lexico_later,
         d.own_current_seed = c.own_current_seed,
         d.own_previous_seed = c.own_previous_seed,
         d.neighbor_current_key_material = c.neighbor_current_key_material,
         d.neighbor_previous_key_material = c.neighbor_previous_key_material,
         \A slot \in {"own_current_neighbor_current", "own_current_neighbor_previous",
                       "own_previous_neighbor_current", "own_previous_neighbor_previous"} :
           d[slot] # None =>
             /\ c[slot] # None
             /\ d[slot].key = c[slot].key
             /\ d[slot].neighbor_is_lexico_later = c[slot].neighbor_is_lexico_later
  PROVE  /\ Fits(owner, n, a, b, d)
         /\ Materials(d) = Materials(c)
<1>1. OwnSeeds(d) = OwnSeeds(c) /\ Materials(d) = Materials(c)
  BY DEF OwnSeeds, Materials
<1>2. ASSUME NEW slot \in {"own_current_neighbor_current",
                           "own_current_neighbor_previous",
                           "own_previous_neighbor_current",
                           "own_previous_neighbor_previous"},
             NEW o, NEW m, KeyedBy(c[slot], b > a, o, m)
      PROVE  KeyedBy(d[slot], b > a, o, m)
  BY <1>2 DEF KeyedBy
<1> QED BY <1>1, <1>2 DEF Fits

\* Taking an identifier counts one message of one stream, the only one that
\* has its key.
LEMMA SendFits ==
  ASSUME NEW owner \in Owners, NEW n \in Nat, NEW a, NEW b, NEW c,
         Fits(owner, n, a, b, c), StreamReady(c)
  PROVE  /\ Fits(owner, n, a, b, IdentifierTaken(c))
         /\ Materials(IdentifierTaken(c)) = Materials(c)
         /\ c[OutgoingSlot(c)] \in Streams(c)
         /\ \A t \in Streams(IdentifierTaken(c)) :
              \/ /\ t.key = c[OutgoingSlot(c)].key
                 /\ t.outgoing_message_index
                      = c[OutgoingSlot(c)].outgoing_message_index + 1
              \/ t \in Streams(c) /\ t.key # c[OutgoingSlot(c)].key
<1> DEFINE slot == OutgoingSlot(c)
           s == c[slot]
           later == [s EXCEPT !.outgoing_message_index = @ + 1]
           d == IdentifierTaken(c)
<1>1. c \in ClusterShape
  BY DEF Fits
<1>2. /\ slot \in {"own_current_neighbor_current", "own_previous_neighbor_current"}
      /\ s # None
  BY <1>1 DEF OutgoingSlot, Preferred, StreamReady
<1>3. s \in AnyStream /\ d = [c EXCEPT ![slot] = later]
  BY <1>1, <1>2 DEF IdentifierTaken, ClusterShape
<1>4. /\ later \in AnyStream /\ later # None
      /\ later.key = s.key
      /\ later.neighbor_is_lexico_later = s.neighbor_is_lexico_later
      /\ later.outgoing_message_index = s.outgoing_message_index + 1
  BY <1>3, NoneIsApart DEF AnyStream
<1> HIDE DEF slot, later, s
<1>5. /\ d \in ClusterShape
      /\ d[slot] = later
      /\ \A f \in {"neighbor_is_lexico_later", "own_current_seed", "own_previous_seed",
                   "neighbor_current_key_material", "neighbor_previous_key_material",
                   "own_current_neighbor_current", "own_current_neighbor_previous",
                   "own_previous_neighbor_current", "own_previous_neighbor_previous"} :
           f # slot => d[f] = c[f]
  BY <1>1, <1>2, <1>3, <1>4 DEF ClusterShape
<1> HIDE DEF d
<1>6. Fits(owner, n, a, b, d) /\ Materials(d) = Materials(c)
  BY <1>2, <1>4, <1>5, FitsInPlace DEF s
<1>7. s \in Streams(c)
  BY <1>2, StreamsOfSlots DEF s
<1>8. ASSUME NEW t \in Streams(d), t # later
      PROVE  t \in Streams(c) /\ t.key # s.key
  <2>1. t \in {c[f] : f \in {"own_current_neighbor_current",
                             "own_current_neighbor_previous",
                             "own_previous_neighbor_current",
                             "own_previous_neighbor_previous"} \ {slot}}
    BY <1>2, <1>5, <1>8, StreamsOfSlots
  <2>2. t # None
    BY <1>8, StreamsOfSlots
  <2>3. t \in Streams(c)
    BY <2>1, <2>2, StreamsOfSlots
  <2>4. CASE slot = "own_current_neighbor_current"
    <3>1. /\ s = c.own_current_neighbor_current
          /\ s.key = Exchange(c.own_current_seed, c.neighbor_current_key_material)
          /\ c.own_current_seed \in OwnSeeds(c)
          /\ c.neighbor_current_key_material \in Materials(c)
      BY <1>2, <2>4 DEF s, Fits, KeyedBy, OwnSeeds, Materials
    <3>2. PICK o \in OwnSeeds(c), m \in Materials(c) :
            /\ t.key = Exchange(o, m)
            /\ o # c.own_current_seed \/ m # c.neighbor_current_key_material
      BY <2>1, <2>2, <2>4 DEF Fits, KeyedBy, OwnSeeds, Materials
    <3>3. t.key # s.key
      BY <3>1, <3>2, DistinctKeys
    <3> QED BY <2>3, <3>3
  <2>5. CASE slot = "own_previous_neighbor_current"
    <3>1. /\ s = c.own_previous_neighbor_current
          /\ s.key = Exchange(c.own_previous_seed, c.neighbor_current_key_material)
          /\ c.own_previous_seed \in OwnSeeds(c)
          /\ c.neighbor_current_key_material \in Materials(c)
      BY <1>2, <2>5 DEF s, Fits, KeyedBy, OwnSeeds, Materials
    <3>2. PICK o \in OwnSeeds(c), m \in Materials(c) :
            /\ t.key = Exchange(o, m)
            /\ o # c.own_previous_seed \/ m # c.neighbor_current_key_material
      BY <2>1, <2>2, <2>5 DEF Fits, KeyedBy, OwnSeeds, Materials
    <3>3. t.key # s.key
      BY <3>1, <3>2, DistinctKeys
    <3> QED BY <2>3, <3>3
  <2> QED BY <1>2, <2>4, <2>5
<1> QED BY <1>4, <1>6, <1>7, <1>8 DEF d, s, slot

\* The streams of d are streams of c, with as many messages sent.
NoneSent(c, d) ==
  \A t \in Streams(d) : \E s \in Streams(c) :
    /\ t.key = s.key
    /\ t.outgoing_message_index = s.outgoing_message_index

\* got_incoming_packet counts no message and keeps every key.
LEMMA PacketFits ==
  ASSUME NEW owner, NEW n, NEW a, NEW b, NEW c, NEW e,
         Fits(owner, n, a, b, c)
  PROVE  /\ Fits(owner, n, a, b, GotIncomingPacket(c, e))
         /\ Materials(GotIncomingPacket(c, e)) = Materials(c)
         /\ NoneSent(c, GotIncomingPacket(c, e))
<1> DEFINE d == GotIncomingPacket(c, e)
           Kept(s, t) ==
             /\ t \in AnyStream \cup {None}
             /\ t # None =>
                  /\ s # None /\ t.key = s.key
                  /\ t.neighbor_is_lexico_later = s.neighbor_is_lexico_later
                  /\ t.outgoing_message_index = s.outgoing_message_index
<1>1. c \in ClusterShape
  BY DEF Fits
<1>2. ASSUME NEW s \in AnyStream \cup {None}
      PROVE  Kept(s, SlotAfterPacket(s, e))
  <2>1. CASE SlotAfterPacket(s, e) = s
    BY <2>1
  <2>2. CASE SlotAfterPacket(s, e) # s
    <3> DEFINE start == s.incoming_message_mask_start
               mask  == Cleared(start, s.incoming_message_mask, e.packet_number)
               t     == [s EXCEPT !.incoming_message_mask_start = MovedStart(start, mask),
                                  !.incoming_message_mask       = MovedMask(mask)]
    <3>1. s # None /\ SlotAfterPacket(s, e) = t
      BY <2>2 DEF SlotAfterPacket, Advanced
    <3>2. MovedStart(start, mask) \in Nat /\ MovedMask(mask) \in SUBSET Bits
      BY <3>1, WindowAssumption DEF AnyStream, MovedStart, MovedMask, Shifted,
                                    Bits, Cleared
    <3> HIDE DEF start, mask
    <3> QED BY <3>1, <3>2 DEF AnyStream
  <2> QED BY <2>1, <2>2
<1>3. /\ Kept(c.own_current_neighbor_current, d.own_current_neighbor_current)
      /\ Kept(c.own_current_neighbor_previous, d.own_current_neighbor_previous)
      /\ Kept(c.own_previous_neighbor_current, d.own_previous_neighbor_current)
      /\ Kept(c.own_previous_neighbor_previous, d.own_previous_neighbor_previous)
  <2> HIDE DEF Kept
  <2> QED BY <1>1, <1>2 DEF ClusterShape, GotIncomingPacket
<1>4. /\ d \in ClusterShape
      /\ d.neighbor_is_lexico_later = c.neighbor_is_lexico_later
      /\ d.own_current_seed = c.own_current_seed
      /\ d.own_previous_seed = c.own_previous_seed
      /\ d.neighbor_current_key_material = c.neighbor_current_key_material
      /\ d.neighbor_previous_key_material = c.neighbor_previous_key_material
  BY <1>1, <1>2 DEF ClusterShape, GotIncomingPacket
<1> HIDE DEF d
<1>5. Fits(owner, n, a, b, d) /\ Materials(d) = Materials(c)
  BY <1>3, <1>4, FitsInPlace
<1>6. NoneSent(c, d)
  BY <1>3, StreamsOfSlots DEF NoneSent
<1> QED BY <1>5, <1>6 DEF d

\* A stream has the key of a seed and a material of its cluster.
LEMMA StreamFits ==
  ASSUME NEW owner, NEW n, NEW a, NEW b, NEW c,
         Fits(owner, n, a, b, c), NEW s \in Streams(c)
  PROVE  /\ s \in AnyStream
         /\ s.neighbor_is_lexico_later = (b > a)
         /\ \E o \in OwnSeeds(c), m \in Materials(c) : s.key = Exchange(o, m)
BY StreamsOfSlots DEF Fits, KeyedBy, ClusterShape, OwnSeeds, Materials

-----------------------------------------------------------------------------
(* The steps that send no content packet.                                  *)

\* What may become of the entry agent a has for b: it goes, it stays, or it
\* is one in which no key of a's packets has been given back its numbers.
EntryMayBecome(later, a, b) ==
  neighbors'[a][b] # None =>
    \/ neighbors'[a][b] = neighbors[a][b]
    \/ /\ neighbors'[a][b].address = b
       /\ Fits(later, seeds', a, b, neighbors'[a][b].streams)
       /\ \A t \in Streams(neighbors'[a][b].streams) :
            \/ \A q \in sent : q.message.source = a => q.key # t.key
            \/ /\ neighbors[a][b] # None
               /\ \E s \in Streams(neighbors[a][b].streams) :
                    /\ t.key = s.key
                    /\ s.outgoing_message_index \in Nat
                    /\ t.outgoing_message_index \in Nat
                    /\ t.outgoing_message_index >= s.outgoing_message_index
       /\ \A p \in network' :
            p.kind = "initiation" /\ p.to = a /\ p.source = b =>
              p.key_material \notin Materials(neighbors'[a][b].streams)

\* An initiation packet that was not there carries the seed drawn last.
NewPackets(later) ==
  \A p \in network' \ network : p.kind = "initiation" =>
    /\ p = InitiationPacket(p.source, p.to, seeds)
    /\ Belongs(later, seeds', seeds, p.source, p.to)
    /\ neighbors'[p.to][p.source] = neighbors[p.to][p.source]

LEMMA SentKeys ==
  ASSUME NEW owner, NEW n \in Nat, NEW p, NEW a, NEW b, NEW i,
         SealedAs(owner, n, p, a, b, i)
  PROVE  n \notin p.key
BY DEF SealedAs, Belongs

LEMMA Preserved ==
  ASSUME NEW owner \in Owners, Agrees(owner), NEW later \in Owners,
         \A x, a, b : Belongs(owner, seeds, x, a, b)
                        => Belongs(later, seeds', x, a, b),
         Shaped', UNCHANGED sent, NewPackets(later),
         \A a, b \in Agents : EntryMayBecome(later, a, b)
  PROVE  Agrees(later)'
<1>1. /\ Shaped /\ ClustersFit(owner) /\ InitiationsAreNews(owner)
      /\ SentIsCounted(owner) /\ NonceUsedOnce
  BY DEF Agrees
<1>2. ClustersFit(later)'
  BY <1>1, FitsStill DEF ClustersFit, EntryMayBecome
<1>3. InitiationsAreNews(later)'
  <2> SUFFICES ASSUME NEW p \in network', p.kind = "initiation"
               PROVE  /\ p = InitiationPacket(p.source, p.to, p.key_material)
                      /\ Belongs(later, seeds', p.key_material, p.source, p.to)
                      /\ neighbors'[p.to][p.source] # None =>
                           p.key_material
                             \notin Materials(neighbors'[p.to][p.source].streams)
                      /\ \A q \in sent :
                           q.message.source = p.to => p.key_material \notin q.key
    BY DEF InitiationsAreNews
  <2>1. CASE p \in network
    <3>1. /\ p = InitiationPacket(p.source, p.to, p.key_material)
          /\ Belongs(owner, seeds, p.key_material, p.source, p.to)
          /\ neighbors[p.to][p.source] # None =>
               p.key_material \notin Materials(neighbors[p.to][p.source].streams)
          /\ \A q \in sent :
               q.message.source = p.to => p.key_material \notin q.key
      BY <1>1, <2>1 DEF InitiationsAreNews
    <3>2. EntryMayBecome(later, p.to, p.source)
      BY <3>1 DEF Belongs
    <3>3. neighbors'[p.to][p.source] # None =>
            p.key_material \notin Materials(neighbors'[p.to][p.source].streams)
      BY <3>1, <3>2 DEF EntryMayBecome
    <3> QED BY <3>1, <3>3
  <2>2. CASE p \notin network
    <3>1. /\ p = InitiationPacket(p.source, p.to, seeds)
          /\ Belongs(later, seeds', seeds, p.source, p.to)
          /\ neighbors'[p.to][p.source] = neighbors[p.to][p.source]
      BY <2>2 DEF NewPackets
    <3>2. p.key_material = seeds
      BY <3>1 DEF InitiationPacket
    <3>3. \A q \in sent : seeds \notin q.key
      BY <1>1, SentKeys DEF SentIsCounted, Shaped
    <3>4. neighbors[p.to][p.source] # None =>
            seeds \notin Materials(neighbors[p.to][p.source].streams)
      BY <1>1, <3>1 DEF ClustersFit, Fits, Belongs
    <3> QED BY <3>1, <3>2, <3>3, <3>4
  <2> QED BY <2>1, <2>2
<1>4. SentIsCounted(later)'
  <2> SUFFICES ASSUME NEW p \in sent
               PROVE  \E a, b \in Agents, i \in Nat :
                        SealedAs(later, seeds, p, a, b, i)'
    BY DEF SentIsCounted
  <2>1. PICK a \in Agents, b \in Agents, i \in Nat :
          SealedAs(owner, seeds, p, a, b, i)
    BY <1>1 DEF SentIsCounted
  <2>2. \E x, y \in Nat : /\ p.key = {x, y}
                          /\ Belongs(later, seeds', x, a, b)
                          /\ Belongs(later, seeds', y, b, a)
    BY <2>1 DEF SealedAs
  <2>3. ASSUME neighbors'[a][b] # None,
               NEW t \in Streams(neighbors'[a][b].streams), t.key = p.key
        PROVE  i < t.outgoing_message_index
    <3>1. p.message.source = a
      BY <2>1 DEF SealedAs
    <3>2. CASE neighbors'[a][b] = neighbors[a][b]
      BY <2>1, <2>3, <3>2 DEF SealedAs
    <3>3. CASE neighbors'[a][b] # neighbors[a][b]
      <4>1. /\ neighbors[a][b] # None
            /\ \E s \in Streams(neighbors[a][b].streams) :
                 /\ t.key = s.key
                 /\ s.outgoing_message_index \in Nat
                 /\ t.outgoing_message_index \in Nat
                 /\ t.outgoing_message_index >= s.outgoing_message_index
        BY <2>3, <3>1, <3>3 DEF EntryMayBecome
      <4> QED BY <2>1, <2>3, <4>1 DEF SealedAs
    <3> QED BY <3>2, <3>3
  <2>4. SealedAs(later, seeds, p, a, b, i)'
    BY <2>1, <2>2, <2>3 DEF SealedAs
  <2> QED BY <2>4
<1>5. NonceUsedOnce'
  BY <1>1 DEF NonceUsedOnce
<1> QED BY <1>2, <1>3, <1>4, <1>5 DEF Agrees

\* A step that leaves what agents keep of each other and loses packets only.
LEMMA LeavesNeighbors ==
  ASSUME IInv, UNCHANGED <<neighbors, seeds, sent>>, network' \subseteq network
  PROVE  IInv'
<1>1. PICK owner \in Owners : Agrees(owner)
  BY DEF IInv
<1>2. Shaped'
  BY <1>1 DEF Agrees, Shaped
<1>3. NewPackets(owner) /\ \A a, b \in Agents : EntryMayBecome(owner, a, b)
  BY DEF NewPackets, EntryMayBecome
<1>4. Agrees(owner)'
  BY <1>1, <1>2, <1>3, Preserved
<1> QED BY <1>4 DEF IInv

\* No initiation packet that stays under way brings a again a material of b
\* that cluster c has.
NoneUnderWay(a, b, c) ==
  \A p \in network' \cap network :
    p.kind = "initiation" /\ p.to = a /\ p.source = b =>
      p.key_material \notin Materials(c)

\* Agent a keeps a cluster of b with a seed just drawn and at most one
\* material, which no packet under way carries.
LEMMA DrawsSeed ==
  ASSUME NEW owner \in Owners, Agrees(owner),
         NEW a \in Agents, NEW b \in Agents, a # b, NEW c,
         Fits(owner, seeds, a, b, c), OwnSeeds(c) = {},
         NoneUnderWay(a, b, c),
         neighbors' = [neighbors EXCEPT ![a][b] =
                         [address |-> b, streams |-> PushOwnSeed(c, seeds)]],
         network' \subseteq network \cup {InitiationPacket(a, b, seeds)},
         seeds' = seeds + 1, UNCHANGED sent
  PROVE  IInv'
<1>1. PICK later : later = [owner EXCEPT ![seeds] = <<a, b>>]
  OBVIOUS
<1>2. Shaped /\ seeds \in Nat /\ SentIsCounted(owner)
  BY DEF Agrees, Shaped
<1>3. later \in Owners /\ Belongs(later, seeds', seeds, a, b)
  BY <1>1, <1>2, FreshBelongs
<1>4. \A x, y, z : Belongs(owner, seeds, x, y, z) => Belongs(later, seeds', x, y, z)
  <2>1. <<a, b>> \in Nat \X Nat
    BY AgentAssumption
  <2> QED BY <1>1, <1>2, <2>1, BelongsStill
<1> DEFINE d == PushOwnSeed(c, seeds)
<1>5. Fits(later, seeds', a, b, c)
  BY <1>4, FitsStill
<1>6. /\ Fits(later, seeds', a, b, d)
      /\ Materials(d) = Materials(c)
      /\ AllKeyedBy(d, seeds)
  <2>1. seeds' \in Nat
    BY <1>2
  <2> QED BY <1>3, <1>5, <2>1, OwnSeedFits
<1>7. d \in ClusterShape
  BY <1>6 DEF Fits
<1> HIDE DEF d
<1>8. neighbors' = [neighbors EXCEPT ![a][b] = [address |-> b, streams |-> d]]
  BY DEF d
<1>9. Shaped'
  BY <1>2, <1>7, <1>8 DEF Shaped, NeighborShape
<1>10. \A x, y \in Agents :
         neighbors'[x][y] = IF x = a /\ y = b THEN [address |-> b, streams |-> d]
                            ELSE neighbors[x][y]
  BY <1>2, <1>8 DEF Shaped
<1>11. \A q \in sent : seeds \notin q.key
  BY <1>2, SentKeys DEF SentIsCounted
<1>12. ASSUME NEW p \in network', p.kind = "initiation", p.to = a, p.source = b
       PROVE  p.key_material \notin Materials(d)
  <2>1. p # InitiationPacket(a, b, seeds)
    BY <1>12 DEF InitiationPacket
  <2> QED BY <1>6, <1>12, <2>1 DEF NoneUnderWay
<1>13. EntryMayBecome(later, a, b)
  BY <1>6, <1>10, <1>11, <1>12 DEF EntryMayBecome, AllKeyedBy
<1>14. \A x, y \in Agents : EntryMayBecome(later, x, y)
  BY <1>10, <1>13 DEF EntryMayBecome
<1>15. NewPackets(later)
  <2>1. neighbors'[b][a] = neighbors[b][a]
    BY <1>10
  <2> QED BY <1>3, <2>1 DEF NewPackets, InitiationPacket
<1>16. Agrees(later)'
  BY <1>3, <1>4, <1>9, <1>14, <1>15, Preserved
<1> QED BY <1>3, <1>16 DEF IInv

LEMMA InitiateStep ==
  ASSUME IInv, NEW a \in Initiators, NEW b \in Agents, a # b,
         InitiateStreamWith(a, b)
  PROVE  IInv'
<1>1. PICK owner \in Owners : Agrees(owner)
  BY DEF IInv
<1>2. a \in Agents /\ seeds \in Nat
  BY <1>1, AgentAssumption DEF Agrees, Shaped
<1> DEFINE c == NewCluster(b, b > a)
<1>3. Fits(owner, seeds, a, b, c) /\ OwnSeeds(c) = {} /\ Materials(c) = {}
  BY <1>2, NewClusterFits
<1> HIDE DEF c
<1>4. /\ neighbors' = [neighbors EXCEPT ![a][b] =
                         [address |-> b, streams |-> PushOwnSeed(c, seeds)]]
      /\ network' = network \cup {InitiationPacket(a, b, seeds)}
      /\ seeds' = seeds + 1 /\ UNCHANGED sent
  BY DEF InitiateStreamWith, c
<1>5. NoneUnderWay(a, b, c)
  BY <1>3 DEF NoneUnderWay
<1> QED BY <1>1, <1>2, <1>3, <1>4, <1>5, DrawsSeed

\* A new cluster with the neighbor's half of the key.
LEMMA HalfFits ==
  ASSUME NEW owner \in Owners, NEW n \in Nat,
         NEW a \in Agents, NEW b \in Agents, NEW m, Belongs(owner, n, m, b, a)
  PROVE  LET half == PushNeighborKeyMaterial(NewCluster(b, b > a), m)
         IN /\ Fits(owner, n, a, b, half)
            /\ Materials(half) \subseteq {m}
            /\ OwnSeeds(half) = {}
<1>1. PICK c : c = NewCluster(b, b > a)
  OBVIOUS
<1>2. Fits(owner, n, a, b, c) /\ Materials(c) = {} /\ OwnSeeds(c) = {}
  BY <1>1, NewClusterFits
<1>3. m \notin Materials(c)
  BY <1>2
<1>4. PICK d : d = PushNeighborKeyMaterial(c, m)
  OBVIOUS
<1>5. Fits(owner, n, a, b, d)
  BY <1>2, <1>3, <1>4, MaterialFits
<1>6. Materials(d) \subseteq {m}
  <2>1. AddsOnly(m, c, d)
    BY <1>2, <1>3, <1>4, MaterialFits
  <2> QED BY <1>2, <2>1 DEF AddsOnly
<1>7. OwnSeeds(d) = OwnSeeds(c)
  BY <1>2, <1>3, <1>4, MaterialFits
<1> QED BY <1>1, <1>2, <1>4, <1>5, <1>6, <1>7

\* Agents that handle an initiation packet, which leaves the network.
LEMMA UnknownStep ==
  ASSUME IInv, ~ DuplicateInitiation, NEW p \in network, p.kind = "initiation",
         HandleInitiationUnknown(p.to, p)
  PROVE  IInv'
<1>1. PICK owner \in Owners : Agrees(owner)
  BY DEF IInv
<1> DEFINE a == p.to
           b == p.source
           m == p.key_material
           half == PushNeighborKeyMaterial(NewCluster(b, b > a), m)
<1>2. Belongs(owner, seeds, m, b, a) /\ seeds \in Nat
  BY <1>1 DEF Agrees, InitiationsAreNews, Shaped
<1>3. a \in Agents /\ b \in Agents /\ a # b
  BY <1>2 DEF Belongs
<1>4. /\ Fits(owner, seeds, a, b, half)
      /\ Materials(half) \subseteq {m}
      /\ OwnSeeds(half) = {}
  <2> HIDE DEF a, b, m, half
  <2> QED BY <1>2, <1>3, HalfFits DEF half
<1>5. /\ neighbors' = [neighbors EXCEPT ![a][b] =
                         [address |-> b, streams |-> PushOwnSeed(half, seeds)]]
      /\ network' = (network \ {p}) \cup {InitiationPacket(a, b, seeds)}
      /\ seeds' = seeds + 1 /\ UNCHANGED sent
  BY DEF HandleInitiationUnknown, Handled
<1>6. ASSUME NEW q \in network' \cap network,
             q.kind = "initiation", q.to = a, q.source = b
      PROVE  q.key_material # m
  <2>1. p = InitiationPacket(b, a, m) /\ q = InitiationPacket(b, a, q.key_material)
    BY <1>1, <1>6 DEF Agrees, InitiationsAreNews
  <2>2. q # p
    <3>1. p # InitiationPacket(a, b, seeds)
      BY <1>3 DEF InitiationPacket
    <3> QED BY <1>5, <3>1
  <2> QED BY <2>1, <2>2
<1>7. NoneUnderWay(a, b, half)
  BY <1>4, <1>6 DEF NoneUnderWay
<1>8. network' \subseteq network \cup {InitiationPacket(a, b, seeds)}
  BY <1>5
<1> HIDE DEF a, b, m, half
<1> QED BY <1>1, <1>3, <1>4, <1>5, <1>7, <1>8, DrawsSeed

LEMMA KnownStep ==
  ASSUME IInv, ~ DuplicateInitiation, NEW p \in network, p.kind = "initiation",
         HandleInitiationKnown(p.to, p)
  PROVE  IInv'
<1>1. PICK owner \in Owners : Agrees(owner)
  BY DEF IInv
<1> DEFINE a == p.to
           b == p.source
           m == p.key_material
           c == neighbors[a][b].streams
           d == PushNeighborKeyMaterial(c, m)
<1>2. /\ neighbors[a][b] # None
      /\ neighbors' = [neighbors EXCEPT ![a][b] = [address |-> b, streams |-> d]]
      /\ network' = network \ {p}
      /\ UNCHANGED <<seeds, sent>>
  BY DEF HandleInitiationKnown, Handled
<1>3. /\ Belongs(owner, seeds, m, b, a) /\ Shaped /\ seeds \in Nat
      /\ m \notin Materials(c)
      /\ \A q \in sent : q.message.source = a => m \notin q.key
  BY <1>1, <1>2 DEF Agrees, InitiationsAreNews, Shaped
<1>4. a \in Agents /\ b \in Agents
  BY <1>3 DEF Belongs
<1>5. Fits(owner, seeds, a, b, c)
  BY <1>1, <1>2, <1>4 DEF Agrees, ClustersFit
<1>6. ASSUME NEW q \in network', q.kind = "initiation", q.to = a, q.source = b
      PROVE  q.key_material \notin Materials(c) \cup {m}
  <2>1. /\ p = InitiationPacket(b, a, m)
        /\ q = InitiationPacket(b, a, q.key_material)
        /\ q.key_material \notin Materials(c)
    BY <1>1, <1>2, <1>6 DEF Agrees, InitiationsAreNews
  <2> QED BY <1>2, <2>1
<1> HIDE DEF a, b, m, c
<1>7. /\ Fits(owner, seeds, a, b, d)
      /\ AddsOnly(m, c, d)
  BY <1>3, <1>5, MaterialFits
<1>8. \A s \in Streams(c) : s.outgoing_message_index \in Nat
  BY <1>5, StreamFits DEF AnyStream
<1>9. d \in ClusterShape
  BY <1>7 DEF Fits
<1> HIDE DEF d
<1>10. Shaped'
  BY <1>2, <1>3, <1>4, <1>9 DEF Shaped, NeighborShape
<1>11. \A x, y \in Agents :
         neighbors'[x][y] = IF x = a /\ y = b THEN [address |-> b, streams |-> d]
                            ELSE neighbors[x][y]
  BY <1>2, <1>3, <1>4 DEF Shaped
<1>12. EntryMayBecome(owner, a, b)
  BY <1>2, <1>3, <1>4, <1>6, <1>7, <1>8, <1>11
     DEF EntryMayBecome, AddsOnly, c
<1>13. \A x, y \in Agents : EntryMayBecome(owner, x, y)
  BY <1>11, <1>12 DEF EntryMayBecome
<1>14. NewPackets(owner)
  BY <1>2 DEF NewPackets
<1>15. Agrees(owner)'
  BY <1>1, <1>2, <1>10, <1>13, <1>14, Preserved
<1> QED BY <1>15 DEF IInv

LEMMA RestartStep ==
  ASSUME IInv, NEW a \in Agents, Restart(a)
  PROVE  IInv'
<1>1. PICK owner \in Owners : Agrees(owner)
  BY DEF IInv
<1>2. /\ neighbors' = [neighbors EXCEPT ![a] = [b \in Agents |-> None]]
      /\ UNCHANGED <<network, sent, seeds>>
  BY DEF Restart
<1>3. Shaped
  BY <1>1 DEF Agrees
<1>4. Shaped'
  BY <1>2, <1>3 DEF Shaped
<1>5. \A x, y \in Agents : EntryMayBecome(owner, x, y)
  BY <1>2, <1>3 DEF EntryMayBecome, Shaped
<1>6. NewPackets(owner)
  BY <1>2 DEF NewPackets
<1>7. Agrees(owner)'
  BY <1>1, <1>2, <1>4, <1>5, <1>6, Preserved
<1> QED BY <1>7 DEF IInv

LEMMA ContentStep ==
  ASSUME IInv, NEW a, NEW p \in network, HandleContent(a, p)
  PROVE  IInv'
<1>1. PICK owner \in Owners : Agrees(owner)
  BY DEF IInv
<1>2. /\ UNCHANGED <<seeds, sent>>
      /\ network' \subseteq network
      /\ \/ UNCHANGED neighbors
         \/ \E e : /\ neighbors[a][e.stream_with] # None
                  /\ neighbors' =
                       [neighbors EXCEPT ![a][e.stream_with].streams =
                          GotIncomingPacket(neighbors[a][e.stream_with].streams, e)]
  BY DEF HandleContent, Execute, Handled, Match
<1>3. Shaped
  BY <1>1 DEF Agrees
<1>4. CASE UNCHANGED neighbors
  BY <1>2, <1>4, LeavesNeighbors
<1>5. ASSUME NEW e, neighbors[a][e.stream_with] # None,
             neighbors' =
              [neighbors EXCEPT ![a][e.stream_with].streams =
                 GotIncomingPacket(neighbors[a][e.stream_with].streams, e)]
      PROVE  IInv'
  <2> DEFINE b == e.stream_with
             c == neighbors[a][b].streams
             d == GotIncomingPacket(c, e)
  <2>1. CASE a \notin Agents \/ b \notin Agents
    <3>1. UNCHANGED neighbors
      BY <1>3, <1>5, <2>1 DEF Shaped
    <3> QED BY <1>4, <3>1
  <2>2. CASE a \in Agents /\ b \in Agents
    <3>1. Fits(owner, seeds, a, b, c) /\ neighbors[a][b].address = b
      BY <1>1, <1>5, <2>2 DEF Agrees, ClustersFit
    <3>2. neighbors' = [neighbors EXCEPT ![a][b].streams = d]
      BY <1>5
    <3>3. neighbors[a][b] \in NeighborShape
      BY <1>3, <1>5, <2>2 DEF Shaped
    <3> HIDE DEF b, c
    <3>4. /\ Fits(owner, seeds, a, b, d)
          /\ Materials(d) = Materials(c)
          /\ NoneSent(c, d)
      BY <3>1, PacketFits
    <3>5. \A s \in Streams(c) : s.outgoing_message_index \in Nat
      BY <3>1, StreamFits DEF AnyStream
    <3>6. d \in ClusterShape
      BY <3>4 DEF Fits
    <3> HIDE DEF d
    <3>7. Shaped'
      BY <1>2, <1>3, <2>2, <3>2, <3>3, <3>6 DEF Shaped, NeighborShape
    <3>8. /\ neighbors'[a][b].address = b
          /\ neighbors'[a][b].streams = d
          /\ \A x, y \in Agents : <<x, y>> # <<a, b>> =>
               neighbors'[x][y] = neighbors[x][y]
      BY <1>3, <2>2, <3>1, <3>2, <3>3 DEF Shaped, NeighborShape
    <3>9. ASSUME NEW q \in network', q.kind = "initiation", q.to = a, q.source = b
          PROVE  q.key_material \notin Materials(d)
      BY <1>1, <1>2, <1>5, <3>4, <3>9 DEF Agrees, InitiationsAreNews, b, c
    <3>10. EntryMayBecome(owner, a, b)
      BY <1>2, <1>5, <3>4, <3>5, <3>8, <3>9 DEF EntryMayBecome, NoneSent, b, c
    <3>11. \A x, y \in Agents : EntryMayBecome(owner, x, y)
      BY <3>8, <3>10 DEF EntryMayBecome
    <3>12. NewPackets(owner)
      BY <1>2 DEF NewPackets
    <3>13. Agrees(owner)'
      BY <1>1, <1>2, <3>7, <3>11, <3>12, Preserved
    <3> QED BY <3>13 DEF IInv
  <2> QED BY <2>1, <2>2
<1> QED BY <1>2, <1>4, <1>5

-----------------------------------------------------------------------------
(* Sending.                                                                *)

\* What a has sent under the key of one of its streams has a lower nonce
\* than the stream's next message, and what the neighbor has sent under it
\* has nonces of the other parity.
LEMMA NonceIsNew ==
  ASSUME NEW owner \in Owners, NEW n \in Nat, NEW a, NEW b, NEW c,
         neighbors[a][b] # None, c = neighbors[a][b].streams,
         Fits(owner, n, a, b, c), NEW s \in Streams(c),
         NEW q, NEW x \in Agents, NEW y \in Agents, NEW i \in Nat,
         SealedAs(owner, n, q, x, y, i), q.key = s.key
  PROVE  q.nonce # OutgoingNonce(s)
<1>1. /\ s.outgoing_message_index \in Nat
      /\ OutgoingNonce(s) = s.outgoing_message_index * 2 + Parity(a, b)
  BY StreamFits DEF AnyStream, OutgoingNonce, Parity
<1>2. PICK o, m : /\ s.key = {o, m}
                  /\ Belongs(owner, n, o, a, b) /\ Belongs(owner, n, m, b, a)
  <2>1. PICK o \in OwnSeeds(c), m \in Materials(c) : s.key = Exchange(o, m)
    BY StreamFits
  <2>2. Belongs(owner, n, o, a, b) /\ Belongs(owner, n, m, b, a)
    BY DEF Fits
  <2> QED BY <2>1, <2>2 DEF Exchange
<1>3. PICK u, v : /\ s.key = {u, v}
                  /\ Belongs(owner, n, u, x, y) /\ Belongs(owner, n, v, y, x)
  BY DEF SealedAs
<1>4. (x = a /\ y = b) \/ (x = b /\ y = a)
  BY <1>2, <1>3 DEF Belongs
<1>5. a \in Nat /\ b \in Nat /\ a # b
  BY <1>2, AgentAssumption DEF Belongs
<1>6. q.nonce = i * 2 + Parity(x, y)
  BY DEF SealedAs
<1>7. CASE x = a /\ y = b
  <2>1. i < s.outgoing_message_index
    BY <1>7 DEF SealedAs
  <2> QED BY <1>1, <1>6, <1>7, <2>1 DEF Parity
<1>8. CASE x = b /\ y = a
  <2>1. Parity(x, y) + Parity(a, b) = 1
    BY <1>5, <1>8 DEF Parity
  <2> QED BY <1>1, <1>6, <2>1 DEF Parity
<1> QED BY <1>4, <1>7, <1>8

LEMMA SendStep ==
  ASSUME IInv, NEW a \in Agents, NEW b \in Agents, NEW payload,
         SendTo(a, b, payload)
  PROVE  IInv'
<1>1. PICK owner \in Owners : Agrees(owner)
  BY DEF IInv
<1> PICK c, s, d, packet :
           /\ c = neighbors[a][b].streams
           /\ s = c[OutgoingSlot(c)]
           /\ d = IdentifierTaken(c)
           /\ packet = ContentPacket(a, neighbors[a][b].address, s, payload,
                                    calls.send)
  OBVIOUS
<1>2. /\ neighbors[a][b] # None /\ StreamReady(c)
      /\ neighbors' = [neighbors EXCEPT ![a][b].streams = d]
      /\ UNCHANGED seeds
      /\ \/ UNCHANGED <<network, sent>>
         \/ network' = network \cup {packet} /\ sent' = sent \cup {packet}
  BY DEF SendTo
<1>3. /\ Shaped /\ seeds \in Nat /\ ClustersFit(owner) /\ InitiationsAreNews(owner)
      /\ SentIsCounted(owner) /\ NonceUsedOnce
  BY <1>1 DEF Agrees, Shaped
<1>4. Fits(owner, seeds, a, b, c) /\ neighbors[a][b].address = b
  BY <1>2, <1>3 DEF ClustersFit
<1>5. neighbors[a][b] \in NeighborShape
  BY <1>2, <1>3 DEF Shaped
<1>6. /\ packet.kind = "content" /\ packet.key = s.key
      /\ packet.nonce = OutgoingNonce(s)
      /\ packet.message.source = a /\ packet.message.to = b
  BY <1>4 DEF ContentPacket
<1>7. /\ Fits(owner, seeds, a, b, d)
      /\ Materials(d) = Materials(c)
      /\ s \in Streams(c)
      /\ \A t \in Streams(d) :
           \/ /\ t.key = s.key
              /\ t.outgoing_message_index = s.outgoing_message_index + 1
           \/ t \in Streams(c) /\ t.key # s.key
  BY <1>2, <1>3, <1>4, SendFits
<1>8. d \in ClusterShape
  BY <1>7 DEF Fits
<1>9. /\ \A t \in Streams(c) : t.outgoing_message_index \in Nat
      /\ OutgoingNonce(s) = s.outgoing_message_index * 2 + Parity(a, b)
      /\ \E o, m \in Nat : /\ s.key = {o, m}
                           /\ o \in OwnSeeds(c) /\ m \in Materials(c)
                           /\ Belongs(owner, seeds, o, a, b)
                           /\ Belongs(owner, seeds, m, b, a)
  <2>1. \E o, m : /\ s.key = {o, m}
                  /\ o \in OwnSeeds(c) /\ m \in Materials(c)
                  /\ Belongs(owner, seeds, o, a, b)
                  /\ Belongs(owner, seeds, m, b, a)
    <3>1. PICK o \in OwnSeeds(c), m \in Materials(c) : s.key = Exchange(o, m)
      BY <1>4, <1>7, StreamFits
    <3>2. Belongs(owner, seeds, o, a, b) /\ Belongs(owner, seeds, m, b, a)
      BY <1>4 DEF Fits
    <3> QED BY <3>1, <3>2 DEF Exchange
  <2>2. s.neighbor_is_lexico_later = (b > a)
    BY <1>4, <1>7, StreamFits
  <2>3. \A t \in Streams(c) : t.outgoing_message_index \in Nat
    BY <1>4, StreamFits DEF AnyStream
  <2>4. OutgoingNonce(s) = s.outgoing_message_index * 2 + Parity(a, b)
    BY <2>2 DEF OutgoingNonce, Parity
  <2> QED BY <2>1, <2>3, <2>4 DEF Belongs
<1>10. Shaped'
  BY <1>2, <1>3, <1>5, <1>8 DEF Shaped, NeighborShape
<1>11. /\ neighbors'[a][b].address = b
       /\ neighbors'[a][b].streams = d
       /\ \A x, y \in Agents : <<x, y>> # <<a, b>> =>
            neighbors'[x][y] = neighbors[x][y]
  BY <1>2, <1>3, <1>4, <1>5 DEF Shaped, NeighborShape
<1>12. ClustersFit(owner)'
  <2> SUFFICES ASSUME NEW x \in Agents, NEW y \in Agents, neighbors'[x][y] # None
               PROVE  /\ neighbors'[x][y].address = y
                      /\ Fits(owner, seeds, x, y, neighbors'[x][y].streams)
    BY <1>2 DEF ClustersFit
  <2>1. CASE <<x, y>> = <<a, b>>
    BY <1>7, <1>11, <2>1
  <2>2. CASE <<x, y>> # <<a, b>>
    BY <1>3, <1>11, <2>2 DEF ClustersFit
  <2> QED BY <2>1, <2>2
<1>13. InitiationsAreNews(owner)'
  <2> SUFFICES ASSUME NEW p \in network', p.kind = "initiation"
               PROVE  /\ p = InitiationPacket(p.source, p.to, p.key_material)
                      /\ Belongs(owner, seeds, p.key_material, p.source, p.to)
                      /\ neighbors'[p.to][p.source] # None =>
                           p.key_material
                             \notin Materials(neighbors'[p.to][p.source].streams)
                      /\ \A q \in sent' :
                           q.message.source = p.to => p.key_material \notin q.key
    BY <1>2 DEF InitiationsAreNews
  <2>1. /\ p = InitiationPacket(p.source, p.to, p.key_material)
        /\ Belongs(owner, seeds, p.key_material, p.source, p.to)
        /\ neighbors[p.to][p.source] # None =>
             p.key_material \notin Materials(neighbors[p.to][p.source].streams)
        /\ \A q \in sent :
             q.message.source = p.to => p.key_material \notin q.key
    BY <1>2, <1>3, <1>6 DEF InitiationsAreNews
  <2>2. p.to \in Agents /\ p.source \in Agents
    BY <2>1 DEF Belongs
  <2>3. neighbors'[p.to][p.source] # None =>
          p.key_material \notin Materials(neighbors'[p.to][p.source].streams)
    <3>1. CASE <<p.to, p.source>> = <<a, b>>
      BY <1>2, <1>7, <1>11, <2>1, <3>1
    <3>2. CASE <<p.to, p.source>> # <<a, b>>
      BY <1>11, <2>1, <2>2, <3>2
    <3> QED BY <3>1, <3>2
  <2>4. ASSUME p.to = a
        PROVE  p.key_material \notin packet.key
    <3>1. PICK o, m : /\ s.key = {o, m} /\ m \in Materials(c)
                      /\ Belongs(owner, seeds, o, a, b)
                      /\ Belongs(owner, seeds, m, b, a)
      BY <1>9
    <3>2. p.key_material # o
      BY <2>1, <2>4, <3>1 DEF Belongs
    <3>3. p.key_material # m
      BY <1>2, <2>1, <2>4, <3>1 DEF Belongs
    <3> QED BY <1>6, <3>1, <3>2, <3>3
  <2> QED BY <1>2, <1>6, <2>1, <2>3, <2>4
<1>14. SentIsCounted(owner)'
  <2>1. ASSUME NEW p \in sent
        PROVE  \E x, y \in Agents, i \in Nat : SealedAs(owner, seeds, p, x, y, i)'
    <3>1. PICK x \in Agents, y \in Agents, i \in Nat :
            SealedAs(owner, seeds, p, x, y, i)
      BY <1>3 DEF SentIsCounted
    <3>2. ASSUME neighbors'[x][y] # None,
                 NEW t \in Streams(neighbors'[x][y].streams), t.key = p.key
          PROVE  i < t.outgoing_message_index
      <4>1. CASE <<x, y>> = <<a, b>>
        <5>1. \A r \in Streams(c) : r.key = p.key => i < r.outgoing_message_index
          BY <1>2, <3>1, <4>1 DEF SealedAs
        <5>2. t \in Streams(d)
          BY <1>11, <3>2, <4>1
        <5>3. s.outgoing_message_index \in Nat
          BY <1>7, <1>9
        <5> QED BY <1>7, <3>2, <5>1, <5>2, <5>3
      <4>2. CASE <<x, y>> # <<a, b>>
        BY <1>11, <3>1, <3>2, <4>2 DEF SealedAs
      <4> QED BY <4>1, <4>2
    <3>3. SealedAs(owner, seeds, p, x, y, i)'
      BY <1>2, <3>1, <3>2 DEF SealedAs
    <3> QED BY <3>3
  <2>2. SealedAs(owner, seeds, packet, a, b, s.outgoing_message_index)'
    <3>1. \E o, m \in Nat : /\ packet.key = {o, m}
                            /\ Belongs(owner, seeds', o, a, b)
                            /\ Belongs(owner, seeds', m, b, a)
      BY <1>2, <1>6, <1>9
    <3>2. packet.nonce = s.outgoing_message_index * 2 + Parity(a, b)
      BY <1>6, <1>9
    <3>3. \A t \in Streams(d) :
            t.key = packet.key => s.outgoing_message_index < t.outgoing_message_index
      BY <1>6, <1>7, <1>9
    <3> QED BY <1>6, <1>11, <3>1, <3>2, <3>3 DEF SealedAs
  <2>3. s.outgoing_message_index \in Nat
    BY <1>7, <1>9
  <2> QED BY <1>2, <2>1, <2>2, <2>3 DEF SentIsCounted
<1>15. NonceUsedOnce'
  <2>1. ASSUME NEW q \in sent, q.key = packet.key
        PROVE  q.nonce # packet.nonce
    <3>1. PICK x \in Agents, y \in Agents, i \in Nat :
            SealedAs(owner, seeds, q, x, y, i)
      BY <1>3 DEF SentIsCounted
    <3>2. q.key = s.key
      BY <1>6, <2>1
    <3>3. seeds \in Nat /\ neighbors[a][b] # None /\ c = neighbors[a][b].streams
      BY <1>2, <1>3
    <3>4. q.nonce # OutgoingNonce(s)
      BY <1>4, <1>7, <3>1, <3>2, <3>3, NonceIsNew
    <3> QED BY <1>6, <3>4
  <2> QED BY <1>2, <1>3, <2>1 DEF NonceUsedOnce
<1>16. Agrees(owner)'
  BY <1>10, <1>12, <1>13, <1>14, <1>15 DEF Agrees
<1> QED BY <1>16 DEF IInv

-----------------------------------------------------------------------------
(* What the tables list, even when initiation packets are repeated.        *)

\* What is listed is expected from a neighbor the agent keeps.
ListedAreKept ==
  \A a \in Agents : \A x, i : Lists(upcoming[a], x, i) =>
    x.stream_with # a /\ neighbors[a][x.stream_with] # None

PacketShape(p) ==
  /\ p.to \in Agents
  /\ p.kind = "initiation" =>
       p.source \in Agents /\ p.source # p.to /\ p.key_material \in Nat

Base ==
  /\ Shaped
  /\ upcoming = [a \in Agents |-> upcoming[a]]
  /\ \A a \in Agents : IsTable(upcoming[a], Packets(Agents))
  /\ \A a, b \in Agents : neighbors[a][b] # None =>
       a # b /\ neighbors[a][b].streams.neighbor = b
  /\ \A p \in network : PacketShape(p)
  /\ ListedAreKept

LEMMA NewShaped ==
  ASSUME NEW b \in Agents, NEW later \in BOOLEAN
  PROVE  /\ NewCluster(b, later) \in ClusterShape
         /\ NewCluster(b, later).neighbor = b
BY DEF NewCluster, ClusterShape

LEMMA OwnSeedShaped ==
  ASSUME NEW c \in ClusterShape, NEW seed \in Nat
  PROVE  /\ PushOwnSeed(c, seed) \in ClusterShape
         /\ PushOwnSeed(c, seed).neighbor = c.neighbor
<1> DEFINE new1 == MaybeNew(seed, c.neighbor_current_key_material, c.neighbor_is_lexico_later)
           new2 == MaybeNew(seed, c.neighbor_previous_key_material, c.neighbor_is_lexico_later)
<1>1. new1 \in AnyStream \cup {None} /\ new2 \in AnyStream \cup {None}
  BY MadeNew DEF ClusterShape
<1> HIDE DEF new1, new2
<1> QED BY <1>1 DEF PushOwnSeed, ClusterShape, new1, new2

LEMMA MaterialShaped ==
  ASSUME NEW c \in ClusterShape, NEW m \in Nat
  PROVE  /\ PushNeighborKeyMaterial(c, m) \in ClusterShape
         /\ PushNeighborKeyMaterial(c, m).neighbor = c.neighbor
<1> DEFINE new1 == MaybeNew(c.own_current_seed, m, c.neighbor_is_lexico_later)
           new2 == MaybeNew(c.own_previous_seed, m, c.neighbor_is_lexico_later)
<1>1. new1 \in AnyStream \cup {None} /\ new2 \in AnyStream \cup {None}
  BY MadeNew DEF ClusterShape
<1> HIDE DEF new1, new2
<1> QED BY <1>1 DEF PushNeighborKeyMaterial, ClusterShape, new1, new2

LEMMA TakenShaped ==
  ASSUME NEW c \in ClusterShape, StreamReady(c)
  PROVE  /\ IdentifierTaken(c) \in ClusterShape
         /\ IdentifierTaken(c).neighbor = c.neighbor
<1> DEFINE slot  == OutgoingSlot(c)
           later == [c[slot] EXCEPT !.outgoing_message_index = @ + 1]
<1>1. /\ slot \in {"own_current_neighbor_current", "own_previous_neighbor_current"}
      /\ c[slot] # None
  BY DEF OutgoingSlot, Preferred, StreamReady, ClusterShape
<1>2. c[slot] \in AnyStream /\ IdentifierTaken(c) = [c EXCEPT ![slot] = later]
  BY <1>1 DEF IdentifierTaken, ClusterShape
<1>3. later \in AnyStream
  BY <1>2 DEF AnyStream
<1> HIDE DEF slot, later
<1> QED BY <1>1, <1>2, <1>3 DEF ClusterShape

LEMMA ReceivedShaped ==
  ASSUME NEW c \in ClusterShape, NEW e, e.packet_number \in Nat
  PROVE  /\ GotIncomingPacket(c, e) \in ClusterShape
         /\ GotIncomingPacket(c, e).neighbor = c.neighbor
<1>1. ASSUME NEW s \in AnyStream \cup {None}
      PROVE  SlotAfterPacket(s, e) \in AnyStream \cup {None}
  BY AdvancedKeeps DEF SlotAfterPacket
<1> QED BY <1>1 DEF GotIncomingPacket, ClusterShape

\* A push lists packets of the streams it makes, and of no other neighbor.
LEMMA OwnTable ==
  ASSUME NEW inner, IsTable(inner, Packets(Agents)), NEW c \in ClusterShape,
         NEW seed \in Nat
  PROVE  /\ IsTable(UpcomingAfterOwnSeed(inner, c, seed), Packets(Agents))
         /\ OnlyGains(inner, UpcomingAfterOwnSeed(inner, c, seed), c.neighbor)
<1> PICK d, s, t, b, table, later :
      /\ d = PushOwnSeed(c, seed)
      /\ s = d.own_current_neighbor_current
      /\ t = d.own_current_neighbor_previous
      /\ b = c.neighbor
      /\ table = ExpectNew(inner, s, b)
      /\ later = ExpectNew(table, t, b)
  OBVIOUS
<1>1. d \in ClusterShape
  BY OwnSeedShaped
<1>2. /\ s # None => s.key \in SUBSET Nat
      /\ t # None => t.key \in SUBSET Nat
      /\ b \in Agents
  BY <1>1 DEF ClusterShape, AnyStream
<1>3. IsTable(table, Packets(Agents)) /\ OnlyGains(inner, table, b)
  BY <1>2, NewGainsOnly
<1>4. IsTable(later, Packets(Agents)) /\ OnlyGains(table, later, b)
  BY <1>2, <1>3, NewGainsOnly
<1>5. later = UpcomingAfterOwnSeed(inner, c, seed)
  BY DEF UpcomingAfterOwnSeed
<1>6. OnlyGains(inner, later, b)
  BY <1>3, <1>4 DEF OnlyGains
<1> QED BY <1>4, <1>5, <1>6

LEMMA MaterialTable ==
  ASSUME NEW inner, IsTable(inner, Packets(Agents)), NEW c \in ClusterShape,
         NEW m \in Nat
  PROVE  /\ IsTable(UpcomingAfterMaterial(inner, c, m), Packets(Agents))
         /\ OnlyGains(inner, UpcomingAfterMaterial(inner, c, m), c.neighbor)
<1> PICK d, s, t, b, table, later :
      /\ d = PushNeighborKeyMaterial(c, m)
      /\ s = d.own_current_neighbor_current
      /\ t = d.own_previous_neighbor_current
      /\ b = c.neighbor
      /\ table = ExpectNew(inner, s, b)
      /\ later = ExpectNew(table, t, b)
  OBVIOUS
<1>1. d \in ClusterShape
  BY MaterialShaped
<1>2. /\ s # None => s.key \in SUBSET Nat
      /\ t # None => t.key \in SUBSET Nat
      /\ b \in Agents
  BY <1>1 DEF ClusterShape, AnyStream
<1>3. IsTable(table, Packets(Agents)) /\ OnlyGains(inner, table, b)
  BY <1>2, NewGainsOnly
<1>4. IsTable(later, Packets(Agents)) /\ OnlyGains(table, later, b)
  BY <1>2, <1>3, NewGainsOnly
<1>5. later = UpcomingAfterMaterial(inner, c, m)
  BY DEF UpcomingAfterMaterial
<1>6. OnlyGains(inner, later, b)
  BY <1>3, <1>4 DEF OnlyGains
<1> QED BY <1>4, <1>5, <1>6

LEMMA EmptyListsNothing ==
  /\ \A W : IsTable(<<>>, Packets(W)) /\ NoRepeats(<<>>)
  /\ \A x, i : ~ Lists(<<>>, x, i)
BY DEF IsTable, NoRepeats, Lists, Candidates

LEMMA ClusterSlots ==
  ASSUME NEW c \in ClusterShape
  PROVE  SlotsShape(c)
BY DEF SlotsShape, SlotNames, ClusterShape

\* A step in which agent a changes its entry for b, its table for b, or both.
LEMMA EntryChanges ==
  ASSUME Base, NEW a \in Agents, NEW b \in Agents, a # b,
         NEW kept \in NeighborShape, kept.streams.neighbor = b,
         neighbors' = [neighbors EXCEPT ![a][b] = kept],
         NEW table, IsTable(table, Packets(Agents)), OnlyGains(upcoming[a], table, b),
         upcoming' = [upcoming EXCEPT ![a] = table],
         seeds' \in Nat, \A q \in network' \ network : PacketShape(q)
  PROVE  Base'
<1>1. /\ Shaped
      /\ upcoming = [x \in Agents |-> upcoming[x]]
      /\ \A x \in Agents : IsTable(upcoming[x], Packets(Agents))
      /\ \A x, y \in Agents : neighbors[x][y] # None =>
           x # y /\ neighbors[x][y].streams.neighbor = y
      /\ \A q \in network : PacketShape(q)
      /\ ListedAreKept
  BY DEF Base
<1>2. Shaped'
  BY <1>1 DEF Shaped
<1>3. \A x, y \in Agents :
        neighbors'[x][y] = IF x = a /\ y = b THEN kept ELSE neighbors[x][y]
  BY <1>1 DEF Shaped
<1>4. /\ upcoming' = [x \in Agents |-> upcoming'[x]]
      /\ \A x \in Agents : upcoming'[x] = IF x = a THEN table ELSE upcoming[x]
  BY <1>1
<1>5. kept # None
  BY AgentAssumption
<1>6. ListedAreKept'
  <2> SUFFICES ASSUME NEW y \in Agents, NEW x, NEW i, Lists(upcoming'[y], x, i)
               PROVE  x.stream_with # y /\ neighbors'[y][x.stream_with] # None
    BY DEF ListedAreKept
  <2>1. x.stream_with \in Agents
    <3>1. IsTable(upcoming'[y], Packets(Agents))
      BY <1>1, <1>4
    <3>2. x \in Packets(Agents)
      BY <3>1, CandidatesListed
    <3> QED BY <3>2 DEF Packets
  <2>2. CASE y = a /\ x.stream_with = b
    BY <1>3, <1>5, <2>2
  <2>3. CASE ~ (y = a /\ x.stream_with = b)
    <3>1. Lists(upcoming[y], x, i)
      BY <1>4, <2>3 DEF OnlyGains
    <3> QED BY <1>1, <1>3, <2>1, <2>3, <3>1 DEF ListedAreKept
  <2> QED BY <2>2, <2>3
<1>7. \A x, y \in Agents : neighbors'[x][y] # None =>
        x # y /\ neighbors'[x][y].streams.neighbor = y
  BY <1>1, <1>3
<1>8. \A x \in Agents : IsTable(upcoming'[x], Packets(Agents))
  BY <1>1, <1>4
<1>9. \A q \in network' : PacketShape(q)
  BY <1>1
<1> QED BY <1>2, <1>4, <1>6, <1>7, <1>8, <1>9 DEF Base

\* The first candidate at which the search ends, if it is a match.
LEMMA MatchIsListed ==
  ASSUME Base, NEW a \in Agents, NEW p, NEW e \in Match(a, p)
  PROVE  /\ Lists(upcoming[a], e, p.identifier)
         /\ e \in Packets(Agents) /\ e.stream_with \in Agents /\ e.packet_number \in Nat
         /\ e.stream_with # a
         /\ neighbors[a][e.stream_with] # None
         /\ ClusterDecrypts(neighbors[a][e.stream_with].streams, e, p)
<1> DEFINE Known(x) == neighbors[a][x.stream_with] # None
           Stops(x) == Known(x) => ClusterDecrypts(neighbors[a][x.stream_with].streams, x, p)
           candidates == Candidates(upcoming[a], p.identifier)
           first == SelectInSeq(candidates, Stops)
           I == {k \in 1 .. Len(candidates) : Stops(candidates[k])}
<1>1. first # 0 /\ e = candidates[first] /\ Known(e)
  BY DEF Match
<1>2. first \in I
  <2>1. first = IF I # {} THEN Min(I) ELSE 0
    BY DEF SelectInSeq
  <2>2. I \subseteq Nat
    OBVIOUS
  <2> HIDE DEF I, first
  <2> QED BY <1>1, <2>1, <2>2, LeastIsMin
<1>3. candidates \in Seq(Packets(Agents))
  BY CandidatesListed DEF Base
<1> HIDE DEF first
<1>4. first \in DOMAIN candidates /\ Stops(e)
  BY <1>1, <1>2, <1>3
<1>5. Lists(upcoming[a], e, p.identifier)
  BY <1>1, <1>4 DEF Lists
<1>6. e \in Packets(Agents) /\ e.stream_with \in Agents /\ e.packet_number \in Nat
  <2>1. e \in Packets(Agents)
    <3> HIDE DEF candidates, I
    <3> QED BY <1>1, <1>3, <1>4
  <2> QED BY <2>1 DEF Packets
<1>7. e.stream_with # a
  BY <1>5 DEF Base, ListedAreKept
<1> QED BY <1>1, <1>4, <1>5, <1>6, <1>7

LEMMA BaseInitiate ==
  ASSUME Base, NEW a \in Agents, NEW b \in Agents, a # b, InitiateStreamWith(a, b)
  PROVE  Base'
<1> PICK fresh, pushed, kept, table :
      /\ fresh = NewCluster(b, b > a)
      /\ pushed = PushOwnSeed(fresh, seeds)
      /\ kept = [address |-> b, streams |-> pushed]
      /\ table = UpcomingAfterOwnSeed(upcoming[a], fresh, seeds)
  OBVIOUS
<1>1. seeds \in Nat /\ IsTable(upcoming[a], Packets(Agents)) /\ (b > a) \in BOOLEAN
  BY DEF Base, Shaped
<1>2. fresh \in ClusterShape /\ fresh.neighbor = b
  BY <1>1, NewShaped
<1>3. pushed \in ClusterShape /\ pushed.neighbor = b
  BY <1>1, <1>2, OwnSeedShaped
<1>4. /\ neighbors' = [neighbors EXCEPT ![a][b] = kept]
      /\ upcoming' = [upcoming EXCEPT ![a] = table]
      /\ network' = network \cup {InitiationPacket(a, b, seeds)}
      /\ seeds' = seeds + 1
  BY DEF InitiateStreamWith, Base
<1>5. IsTable(table, Packets(Agents)) /\ OnlyGains(upcoming[a], table, b)
  BY <1>1, <1>2, <1>3, OwnTable
<1>6. kept \in NeighborShape /\ kept.streams.neighbor = b
  BY <1>3 DEF NeighborShape
<1>7. \A q \in network' \ network : PacketShape(q)
  BY <1>1, <1>4 DEF PacketShape, InitiationPacket
<1>8. seeds' \in Nat
  BY <1>1, <1>4
<1> QED BY <1>4, <1>5, <1>6, <1>7, <1>8, EntryChanges

LEMMA BaseUnknown ==
  ASSUME Base, NEW p \in network, p.kind = "initiation", HandleInitiationUnknown(p.to, p)
  PROVE  Base'
<1> PICK a, b, m, half, pushed, kept, table :
      /\ a = p.to /\ b = p.source /\ m = p.key_material
      /\ half = PushNeighborKeyMaterial(NewCluster(b, b > a), m)
      /\ pushed = PushOwnSeed(half, seeds)
      /\ kept = [address |-> b, streams |-> pushed]
      /\ table = UpcomingAfterOwnSeed(upcoming[a], half, seeds)
  OBVIOUS
<1>1. a \in Agents /\ b \in Agents /\ a # b /\ m \in Nat
  BY DEF Base, PacketShape
<1>2. seeds \in Nat /\ IsTable(upcoming[a], Packets(Agents)) /\ (b > a) \in BOOLEAN
  BY <1>1 DEF Base, Shaped
<1>3. half \in ClusterShape /\ half.neighbor = b
  <2>1. /\ NewCluster(b, b > a) \in ClusterShape
        /\ NewCluster(b, b > a).neighbor = b
    BY <1>1, <1>2, NewShaped
  <2> QED BY <1>1, <2>1, MaterialShaped
<1>4. pushed \in ClusterShape /\ pushed.neighbor = b
  BY <1>2, <1>3, OwnSeedShaped
<1>5. /\ neighbors' = [neighbors EXCEPT ![a][b] = kept]
      /\ upcoming' = [upcoming EXCEPT ![a] = table]
      /\ network' \subseteq network \cup {InitiationPacket(a, b, seeds)}
      /\ seeds' = seeds + 1
  BY DEF HandleInitiationUnknown, Handled, Base
<1>6. IsTable(table, Packets(Agents)) /\ OnlyGains(upcoming[a], table, b)
  BY <1>1, <1>2, <1>3, OwnTable
<1>7. kept \in NeighborShape /\ kept.streams.neighbor = b
  BY <1>1, <1>4 DEF NeighborShape
<1>8. \A q \in network' \ network : PacketShape(q)
  BY <1>1, <1>2, <1>5 DEF PacketShape, InitiationPacket
<1>9. seeds' \in Nat
  BY <1>2, <1>5
<1> QED BY <1>1, <1>5, <1>6, <1>7, <1>8, <1>9, EntryChanges

LEMMA BaseKnown ==
  ASSUME Base, NEW p \in network, p.kind = "initiation", HandleInitiationKnown(p.to, p)
  PROVE  Base'
<1> PICK a, b, m, c, d, kept, table :
      /\ a = p.to /\ b = p.source /\ m = p.key_material
      /\ c = neighbors[a][b].streams
      /\ d = PushNeighborKeyMaterial(c, m)
      /\ kept = [address |-> b, streams |-> d]
      /\ table = UpcomingAfterMaterial(upcoming[a], c, m)
  OBVIOUS
<1>1. a \in Agents /\ b \in Agents /\ a # b /\ m \in Nat
  BY DEF Base, PacketShape
<1>2. /\ neighbors[a][b] # None
      /\ neighbors' = [neighbors EXCEPT ![a][b] = kept]
      /\ upcoming' = [upcoming EXCEPT ![a] = table]
      /\ network' \subseteq network
      /\ UNCHANGED seeds
  BY DEF HandleInitiationKnown, Handled, Base
<1>3. seeds \in Nat /\ IsTable(upcoming[a], Packets(Agents))
  BY <1>1 DEF Base, Shaped
<1>4. c \in ClusterShape /\ c.neighbor = b
  BY <1>1, <1>2 DEF Base, Shaped, NeighborShape
<1>5. d \in ClusterShape /\ d.neighbor = b
  BY <1>1, <1>4, MaterialShaped
<1>6. IsTable(table, Packets(Agents)) /\ OnlyGains(upcoming[a], table, b)
  BY <1>1, <1>3, <1>4, MaterialTable
<1>7. kept \in NeighborShape /\ kept.streams.neighbor = b
  BY <1>1, <1>5 DEF NeighborShape
<1> QED BY <1>1, <1>2, <1>3, <1>6, <1>7, EntryChanges

LEMMA BaseSend ==
  ASSUME Base, NEW a \in Agents, NEW b \in Agents, NEW payload, SendTo(a, b, payload)
  PROVE  Base'
<1> PICK c, d, kept, packet :
      /\ c = neighbors[a][b].streams
      /\ d = IdentifierTaken(c)
      /\ kept = [neighbors[a][b] EXCEPT !.streams = d]
      /\ packet = ContentPacket(a, neighbors[a][b].address, c[OutgoingSlot(c)],
                                payload, calls.send)
  OBVIOUS
<1>1. /\ neighbors[a][b] # None /\ StreamReady(c)
      /\ neighbors' = [neighbors EXCEPT ![a][b].streams = d]
      /\ network' \subseteq network \cup {packet}
      /\ UNCHANGED <<seeds, upcoming>>
  BY DEF SendTo
<1>2. neighbors[a][b] \in NeighborShape /\ c \in ClusterShape /\ c.neighbor = b /\ a # b
  BY <1>1 DEF Base, Shaped, NeighborShape
<1>3. d \in ClusterShape /\ d.neighbor = b
  BY <1>1, <1>2, TakenShaped
<1>4. kept \in NeighborShape /\ kept.streams.neighbor = b
  BY <1>2, <1>3 DEF NeighborShape
<1>5. neighbors' = [neighbors EXCEPT ![a][b] = kept]
  BY <1>1
<1>6. upcoming' = [upcoming EXCEPT ![a] = upcoming[a]]
  BY <1>1 DEF Base
<1>7. PacketShape(packet)
  BY <1>2 DEF PacketShape, ContentPacket, NeighborShape
<1>8. /\ IsTable(upcoming[a], Packets(Agents)) /\ seeds' \in Nat
      /\ OnlyGains(upcoming[a], upcoming[a], b)
  BY <1>1 DEF Base, Shaped, OnlyGains
<1> QED BY <1>1, <1>2, <1>4, <1>5, <1>6, <1>7, <1>8, EntryChanges

LEMMA BaseExecute ==
  ASSUME Base, NEW a \in Agents, NEW p, NEW e \in Match(a, p), Execute(a, p, e),
         network' \subseteq network, UNCHANGED seeds
  PROVE  Base'
<1> PICK b, c, d, kept, table :
      /\ b = e.stream_with
      /\ c = neighbors[a][b].streams
      /\ d = GotIncomingPacket(c, e)
      /\ kept = [neighbors[a][b] EXCEPT !.streams = d]
      /\ table = UpcomingAfterPacket(upcoming[a], c, e, p.identifier)
  OBVIOUS
<1>1. b \in Agents /\ b # a /\ neighbors[a][b] # None /\ e.packet_number \in Nat
  BY MatchIsListed
<1>2. neighbors[a][b] \in NeighborShape /\ c \in ClusterShape /\ c.neighbor = b
  BY <1>1 DEF Base, Shaped, NeighborShape
<1>3. d \in ClusterShape /\ d.neighbor = b
  BY <1>1, <1>2, ReceivedShaped
<1>4. kept \in NeighborShape /\ kept.streams.neighbor = b
  BY <1>2, <1>3 DEF NeighborShape
<1>5. /\ neighbors' = [neighbors EXCEPT ![a][b] = kept]
      /\ upcoming' = [upcoming EXCEPT ![a] = table]
  BY DEF Execute, Base
<1>6. IsTable(upcoming[a], Packets(Agents)) /\ seeds' \in Nat
  BY DEF Base, Shaped
<1>7. IsTable(table, Packets(Agents)) /\ OnlyGains(upcoming[a], table, b)
  BY <1>1, <1>2, <1>6, ClusterSlots, PacketGainsOnly
<1> QED BY <1>1, <1>4, <1>5, <1>6, <1>7, EntryChanges

LEMMA BaseRestart ==
  ASSUME Base, NEW a \in Agents, Restart(a)
  PROVE  Base'
<1>1. /\ neighbors' = [neighbors EXCEPT ![a] = [b \in Agents |-> None]]
      /\ upcoming' = [upcoming EXCEPT ![a] = EmptyTable]
      /\ UNCHANGED <<network, seeds>>
  BY DEF Restart
<1>2. Shaped /\ upcoming = [x \in Agents |-> upcoming[x]]
  BY DEF Base
<1>3. Shaped'
  BY <1>1, <1>2 DEF Shaped
<1>4. \A x, y \in Agents : neighbors'[x][y] = IF x = a THEN None ELSE neighbors[x][y]
  BY <1>1, <1>2 DEF Shaped
<1>5. /\ upcoming' = [x \in Agents |-> upcoming'[x]]
      /\ \A x \in Agents : upcoming'[x] = IF x = a THEN <<>> ELSE upcoming[x]
  BY <1>1, <1>2 DEF EmptyTable
<1>6. IsTable(<<>>, Packets(Agents)) /\ \A x, i : ~ Lists(<<>>, x, i)
  BY EmptyListsNothing
<1>7. ListedAreKept'
  <2> SUFFICES ASSUME NEW y \in Agents, NEW x, NEW i, Lists(upcoming'[y], x, i)
               PROVE  x.stream_with # y /\ neighbors'[y][x.stream_with] # None
    BY DEF ListedAreKept
  <2>1. y # a /\ Lists(upcoming[y], x, i)
    BY <1>5, <1>6
  <2>2. x \in Packets(Agents)
    BY <2>1, CandidatesListed DEF Base
  <2> QED BY <1>4, <2>1, <2>2 DEF Base, ListedAreKept, Packets
<1>8. \A x \in Agents : IsTable(upcoming'[x], Packets(Agents))
  BY <1>5, <1>6 DEF Base
<1> QED BY <1>1, <1>3, <1>4, <1>5, <1>7, <1>8 DEF Base

LEMMA BaseInitially ==
  ASSUME Init
  PROVE  Base
<1>1. \A x, i : ~ Lists(<<>>, x, i)
  BY EmptyListsNothing
<1>2. \A a \in Agents : upcoming[a] = <<>> /\ IsTable(upcoming[a], Packets(Agents))
  BY EmptyListsNothing DEF Init, EmptyTable
<1>3. Shaped /\ upcoming = [a \in Agents |-> upcoming[a]] /\ network = {}
  BY DEF Init, Shaped
<1>4. \A a, b \in Agents : neighbors[a][b] = None
  BY DEF Init
<1> QED BY <1>1, <1>2, <1>3, <1>4 DEF Base, ListedAreKept

\* Nothing an agent keeps or expects changes, and no packet is added.
LEMMA BaseStays ==
  ASSUME Base, UNCHANGED <<neighbors, upcoming, seeds>>, network' \subseteq network
  PROVE  Base'
BY DEF Base, Shaped, ListedAreKept

LEMMA BaseSteps ==
  ASSUME Base, [Next]_vars
  PROVE  Base'
<1>1. CASE UNCHANGED vars
  BY <1>1, BaseStays DEF vars
<1>2. ASSUME NEW p \in network, HandlePacket(p)
      PROVE  Base'
  <2>1. CASE p.kind = "initiation"
    BY <1>2, <2>1, BaseKnown, BaseUnknown DEF HandlePacket
  <2>2. CASE p.kind # "initiation"
    <3>1. CASE HandleUnrecognized(p.to, p)
      BY <3>1, BaseStays DEF HandleUnrecognized, Handled
    <3>2. CASE HandleContent(p.to, p)
      <4>1. p.to \in Agents /\ network' \subseteq network /\ UNCHANGED seeds
        BY <3>2 DEF Base, PacketShape, HandleContent, Handled
      <4>2. PICK e \in Match(p.to, p) :
              \/ UNCHANGED <<neighbors, upcoming>>
              \/ Execute(p.to, p, e)
        BY <3>2 DEF HandleContent
      <4> QED BY <4>1, <4>2, BaseStays, BaseExecute
    <3> QED BY <1>2, <2>2, <3>1, <3>2 DEF HandlePacket
  <2> QED BY <2>1, <2>2
<1>3. ASSUME NEW a \in Initiators, NEW b \in Agents, a # b, InitiateStreamWith(a, b)
      PROVE  Base'
  BY <1>3, AgentAssumption, BaseInitiate
<1> QED BY <1>1, <1>2, <1>3, BaseSend, BaseRestart DEF Next

LEMMA BaseInvariance == Spec => []Base
BY BaseInitially, BaseSteps, PTL DEF Spec

-----------------------------------------------------------------------------
(* What the tables list, as long as no initiation packet is repeated.      *)

UnderWay(q, a, b) == q.kind = "initiation" /\ q.to = a /\ q.source = b

\* A cluster that a keeps of b, when n seeds are drawn: its streams differ
\* by their keys, and no packet under way brings a half of one of them.
KeyedApart(c, n, a, b, packets) ==
  /\ SlotsShape(c)
  /\ KeysApart(c)
  /\ \A s \in Streams(c) :
       /\ s.key \subseteq 0 .. n - 1
       /\ s.neighbor_is_lexico_later = (b > a)
       /\ \A q \in packets : UnderWay(q, a, b) => q.key_material \notin s.key

AllKeyedApart ==
  \A a, b \in Agents : neighbors[a][b] # None =>
    KeyedApart(neighbors[a][b].streams, seeds, a, b, network)

\* The keys in agent a's table are of seeds drawn by now, and none is of a
\* seed that is still under way.
ListedKeysKnown(a) ==
  \A x, i : Lists(upcoming[a], x, i) =>
    /\ x.stream_key \subseteq 0 .. seeds - 1
    /\ \A q \in network : UnderWay(q, a, x.stream_with) =>
         q.key_material \notin x.stream_key

TableInv ==
  /\ \A a \in Agents : NoRepeats(upcoming[a]) /\ ListedKeysKnown(a)
  /\ \A a, b \in Agents : neighbors[a][b] # None =>
       TableMatches(upcoming[a], neighbors[a][b].streams, b)
  /\ panicked = {}

LEMMA FitsApart ==
  ASSUME NEW owner \in Owners, NEW n \in Nat, NEW a, NEW b, NEW c,
         Fits(owner, n, a, b, c)
  PROVE  KeysApart(c)
<1> DEFINE own(i) == IF i \in {"own_current_neighbor_current", "own_current_neighbor_previous"}
                     THEN c.own_current_seed ELSE c.own_previous_seed
           other(i) == IF i \in {"own_current_neighbor_current", "own_previous_neighbor_current"}
                       THEN c.neighbor_current_key_material
                       ELSE c.neighbor_previous_key_material
<1>1. ASSUME NEW i \in SlotNames, c[i] # None
      PROVE  /\ own(i) \in OwnSeeds(c) /\ other(i) \in Materials(c)
             /\ c[i].key = Exchange(own(i), other(i))
  BY <1>1 DEF Fits, KeyedBy, SlotNames, OwnSeeds, Materials
<1>2. ASSUME NEW i \in SlotNames, NEW j \in SlotNames, c[i] # None, c[j] # None,
             own(i) = own(j), other(i) = other(j)
      PROVE  i = j
  <2>1. own(i) # None /\ other(i) # None
    BY <1>1, <1>2 DEF OwnSeeds, Materials
  <2>2. /\ c.own_current_seed = c.own_previous_seed => c.own_previous_seed = None
        /\ c.neighbor_current_key_material = c.neighbor_previous_key_material
             => c.neighbor_previous_key_material = None
    BY DEF Fits
  <2> QED BY <1>2, <2>1, <2>2 DEF SlotNames
<1> HIDE DEF own, other
<1>3. ASSUME NEW i \in SlotNames, NEW j \in SlotNames, i # j, c[i] # None, c[j] # None
      PROVE  c[i].key # c[j].key
  <2> SUFFICES ASSUME c[i].key = c[j].key PROVE FALSE
    OBVIOUS
  <2>1. /\ own(i) \in OwnSeeds(c) /\ other(i) \in Materials(c)
        /\ own(j) \in OwnSeeds(c) /\ other(j) \in Materials(c)
        /\ Exchange(own(i), other(i)) = Exchange(own(j), other(j))
    BY <1>1, <1>3
  <2>2. own(i) = own(j) /\ other(i) = other(j)
    BY <2>1, DistinctKeys
  <2> QED BY <1>2, <1>3, <2>2
<1> QED BY <1>3 DEF KeysApart

LEMMA FitsKeyedApart ==
  ASSUME NEW owner \in Owners, NEW n \in Nat, NEW a, NEW b, NEW c,
         Fits(owner, n, a, b, c), NEW packets,
         \A q \in packets : UnderWay(q, a, b) =>
           /\ Belongs(owner, n, q.key_material, b, a)
           /\ q.key_material \notin Materials(c)
  PROVE  KeyedApart(c, n, a, b, packets)
<1>1. SlotsShape(c) /\ KeysApart(c)
  BY FitsApart, ClusterSlots DEF Fits
<1>2. ASSUME NEW s \in Streams(c)
      PROVE  /\ s.key \subseteq 0 .. n - 1
             /\ s.neighbor_is_lexico_later = (b > a)
             /\ \A q \in packets : UnderWay(q, a, b) => q.key_material \notin s.key
  <2>1. PICK o \in OwnSeeds(c), m \in Materials(c) : s.key = {o, m}
    BY StreamFits DEF Exchange
  <2>2. Belongs(owner, n, o, a, b) /\ Belongs(owner, n, m, b, a)
    BY DEF Fits
  <2>3. ASSUME NEW q \in packets, UnderWay(q, a, b)
        PROVE  q.key_material \notin s.key
    <3>1. q.key_material # o
      BY <2>2, <2>3 DEF Belongs
    <3> QED BY <2>1, <2>3, <3>1
  <2>4. s.key \subseteq 0 .. n - 1
    BY <2>1, <2>2 DEF Belongs
  <2> QED BY <2>3, <2>4, StreamFits
<1> QED BY <1>1, <1>2 DEF KeyedApart

LEMMA EntriesApart ==
  ASSUME IInv
  PROVE  AllKeyedApart
<1>1. PICK owner \in Owners : Agrees(owner)
  BY DEF IInv
<1>2. seeds \in Nat /\ ClustersFit(owner) /\ InitiationsAreNews(owner)
  BY <1>1 DEF Agrees, Shaped
<1>3. ASSUME NEW a \in Agents, NEW b \in Agents, neighbors[a][b] # None
      PROVE  KeyedApart(neighbors[a][b].streams, seeds, a, b, network)
  <2>1. Fits(owner, seeds, a, b, neighbors[a][b].streams)
    BY <1>2, <1>3 DEF ClustersFit
  <2>2. \A q \in network : UnderWay(q, a, b) =>
          /\ Belongs(owner, seeds, q.key_material, b, a)
          /\ q.key_material \notin Materials(neighbors[a][b].streams)
    BY <1>2, <1>3 DEF InitiationsAreNews, UnderWay
  <2> QED BY <1>2, <2>1, <2>2, FitsKeyedApart
<1> QED BY <1>3 DEF AllKeyedApart

\* What is listed for one neighbor stays so while another's changes.
LEMMA OtherNeighbors ==
  ASSUME NEW inner, NEW later, NEW b, NEW y, y # b, NEW c,
         \A x, i : x.stream_with # b => (Lists(later, x, i) <=> Lists(inner, x, i)),
         TableMatches(inner, c, y)
  PROVE  TableMatches(later, c, y)
<1>1. \A s, n : ExpectedPacket(s, y, n).stream_with # b
  BY DEF ExpectedPacket
<1> QED BY <1>1 DEF TableMatches, MatchesWindow

\* An initiation packet that was not there carries the seed drawn last.
OnlySeedsSent ==
  \A q \in network' \ network : q.kind = "initiation" => q.key_material = seeds

\* Agent a changes its entry for b, its table, or both.
EntryBecomes(a, b, kept, table) ==
  /\ kept # None
  /\ neighbors' = [neighbors EXCEPT ![a][b] = kept]
  /\ upcoming' = [upcoming EXCEPT ![a] = table]
  /\ OnlySeedsSent
  /\ seeds' \in Nat /\ seeds' >= seeds
  /\ UNCHANGED panicked

\* Whatever agent a does with its entry for b, if the table follows it.
LEMMA TableChanges ==
  ASSUME Base, AllKeyedApart', TableInv,
         NEW a \in Agents, NEW b \in Agents, a # b,
         NEW kept, NEW table, EntryBecomes(a, b, kept, table),
         NoRepeats(table), TableMatches(table, kept.streams, b),
         \A x, i : x.stream_with # b => (Lists(table, x, i) <=> Lists(upcoming[a], x, i)),
         \A x, i : Lists(table, x, i) =>
           \/ Lists(upcoming[a], x, i)
           \/ x.stream_with = b /\ \E s \in Streams(kept.streams) : x.stream_key = s.key
  PROVE  TableInv'
<1>1. /\ \A x, y \in Agents :
           neighbors'[x][y] = IF x = a /\ y = b THEN kept ELSE neighbors[x][y]
      /\ \A x \in Agents : upcoming'[x] = IF x = a THEN table ELSE upcoming[x]
      /\ seeds \in Nat /\ seeds' \in Nat /\ seeds' >= seeds /\ kept # None
      /\ OnlySeedsSent /\ UNCHANGED panicked
  BY DEF Base, Shaped, EntryBecomes
<1>2. ASSUME NEW x \in Agents
      PROVE  NoRepeats(upcoming'[x])
  BY <1>1 DEF TableInv
<1>3. ASSUME NEW x \in Agents, NEW y \in Agents, neighbors'[x][y] # None
      PROVE  TableMatches(upcoming'[x], neighbors'[x][y].streams, y)
  <2>1. CASE x = a /\ y = b
    BY <1>1, <2>1
  <2>2. CASE x = a /\ y # b
    <3>1. TableMatches(upcoming[a], neighbors[a][y].streams, y)
      BY <1>1, <1>3, <2>2 DEF TableInv
    <3>2. TableMatches(table, neighbors[a][y].streams, y)
      BY <2>2, <3>1, OtherNeighbors
    <3> QED BY <1>1, <2>2, <3>2
  <2>3. CASE x # a
    BY <1>1, <1>3, <2>3 DEF TableInv
  <2> QED BY <2>1, <2>2, <2>3
<1>4. ASSUME NEW y \in Agents, NEW x, NEW i, Lists(upcoming'[y], x, i)
      PROVE  /\ x.stream_key \subseteq 0 .. seeds' - 1
             /\ \A q \in network' : UnderWay(q, y, x.stream_with) =>
                  q.key_material \notin x.stream_key
  <2>1. CASE Lists(upcoming[y], x, i)
    <3>1. /\ x.stream_key \subseteq 0 .. seeds - 1
          /\ \A q \in network : UnderWay(q, y, x.stream_with) =>
               q.key_material \notin x.stream_key
      BY <2>1 DEF TableInv, ListedKeysKnown
    <3>2. 0 .. seeds - 1 \subseteq 0 .. seeds' - 1 /\ seeds \notin 0 .. seeds - 1
      BY <1>1
    <3> QED BY <1>1, <3>1, <3>2 DEF UnderWay, OnlySeedsSent
  <2>2. CASE ~ Lists(upcoming[y], x, i)
    <3>1. y = a /\ x.stream_with = b
      BY <1>1, <1>4, <2>2
    <3>2. PICK s \in Streams(kept.streams) : x.stream_key = s.key
      BY <1>1, <1>4, <2>2
    <3>3. KeyedApart(kept.streams, seeds', a, b, network')
      BY <1>1 DEF AllKeyedApart
    <3> QED BY <3>1, <3>2, <3>3 DEF KeyedApart
  <2> QED BY <2>1, <2>2
<1>5. \A y \in Agents : ListedKeysKnown(y)'
  BY <1>4 DEF ListedKeysKnown
<1> QED BY <1>1, <1>2, <1>3, <1>5 DEF TableInv

\* Whatever streams slots i and j hold have x in their keys.
HaveHalf(d, i, j, x) == \A k \in {i, j} : d[k] # None => x \in d[k].key

\* No packet listed for neighbor b has x in its key.
HalfUnlisted(inner, b, x) ==
  \A y, z : Lists(inner, y, z) /\ y.stream_with = b => x \notin y.stream_key

OtherSlotsMatched(inner, d, i, j, b) ==
  \A k \in SlotNames \ {i, j} : Matched(inner, d[k], b)

\* Slots i and j hold streams just made, with a half x that is in no key
\* listed yet, and the table follows.
FillsSlots(inner, table, b, d, i, j, x) ==
  /\ i \in SlotNames /\ j \in SlotNames /\ i # j
  /\ Fresh(d[i]) /\ Fresh(d[j])
  /\ HaveHalf(d, i, j, x)
  /\ HalfUnlisted(inner, b, x)
  /\ OtherSlotsMatched(inner, d, i, j, b)
  /\ table = ExpectNew(ExpectNew(inner, d[i], b), d[j], b)

LEMMA PushChanges ==
  ASSUME Base, AllKeyedApart', TableInv,
         NEW a \in Agents, NEW b \in Agents, a # b,
         NEW kept, NEW table, EntryBecomes(a, b, kept, table),
         NEW d, d = kept.streams, NEW i, NEW j, NEW x,
         FillsSlots(upcoming[a], table, b, d, i, j, x)
  PROVE  TableInv'
<1>0. /\ i \in SlotNames /\ j \in SlotNames /\ i # j
      /\ Fresh(d[i]) /\ Fresh(d[j])
      /\ HaveHalf(d, i, j, x)
      /\ HalfUnlisted(upcoming[a], b, x)
      /\ OtherSlotsMatched(upcoming[a], d, i, j, b)
      /\ table = ExpectNew(ExpectNew(upcoming[a], d[i], b), d[j], b)
  BY DEF FillsSlots
<1>1. KeysApart(d)
  <2>1. neighbors'[a][b] = kept /\ kept # None
    BY DEF Base, Shaped, EntryBecomes
  <2> QED BY <2>1 DEF AllKeyedApart, KeyedApart
<1>2. \A k \in {i, j} : Unlisted(upcoming[a], d[k], b)
  BY <1>0 DEF Unlisted, IsFor, HaveHalf, HalfUnlisted
<1>3. d[i] # None /\ d[j] # None => d[i].key # d[j].key
  BY <1>0, <1>1 DEF KeysApart
<1>4. Tidy(upcoming[a], Agents)
  BY DEF Base, TableInv, Tidy
<1>5. /\ Tidy(table, Agents)
      /\ Matched(table, d[i], b) /\ Matched(table, d[j], b)
      /\ SameButTwo(upcoming[a], table, b, d[i], d[j])
  BY <1>0, <1>2, <1>3, <1>4, TwoStreamsStart
<1>6. ASSUME NEW k \in SlotNames \ {i, j}
      PROVE  Matched(table, d[k], b)
  <2> PICK r : r = d[k]
    OBVIOUS
  <2>1. r # None => /\ d[i] # None => d[i].key # r.key
                    /\ d[j] # None => d[j].key # r.key
    BY <1>0, <1>1, <1>6 DEF KeysApart
  <2>2. Matched(upcoming[a], r, b)
    BY <1>0, <1>6 DEF OtherSlotsMatched
  <2>3. Matched(table, r, b)
    BY <1>5, <2>1, <2>2, ThirdMatches
  <2> QED BY <2>3
<1>7. TableMatches(table, kept.streams, b)
  BY <1>5, <1>6 DEF TableMatches, Matched
<1>8. \A y, z : y.stream_with # b => (Lists(table, y, z) <=> Lists(upcoming[a], y, z))
  BY <1>5 DEF SameButTwo, IsFor
<1>9. ASSUME NEW y, NEW z, Lists(table, y, z)
      PROVE  \/ Lists(upcoming[a], y, z)
             \/ y.stream_with = b /\ \E s \in Streams(kept.streams) : y.stream_key = s.key
  <2>1. ASSUME NEW k \in {i, j}, d[k] # None, IsFor(y, b, d[k].key)
        PROVE  y.stream_with = b /\ \E s \in Streams(kept.streams) : y.stream_key = s.key
    BY <1>0, <2>1, SlotsHoldStreams DEF IsFor
  <2> QED BY <1>5, <1>9, <2>1 DEF SameButTwo
<1>10. NoRepeats(table)
  BY <1>5 DEF Tidy
<1> QED BY <1>7, <1>8, <1>9, <1>10, TableChanges

\* maybe_new starts at number 0 with every bit of the mask set.
LEMMA MadeFresh ==
  ASSUME NEW o \in Nat \cup {None}, NEW m \in Nat \cup {None}, NEW later \in BOOLEAN
  PROVE  /\ Fresh(MaybeNew(o, m, later))
         /\ MaybeNew(o, m, later) # None =>
              /\ o # None /\ m # None
              /\ MaybeNew(o, m, later).key = {o, m}
BY WindowAssumption DEF Fresh, MaybeNew, AnyStream, Exchange, Bits

\* Of an empty cluster nothing but the first two slots can be filled.
LEMMA FirstSlots ==
  /\ "own_current_neighbor_current" \in SlotNames
  /\ "own_current_neighbor_previous" \in SlotNames
  /\ "own_previous_neighbor_current" \in SlotNames
  /\ SlotNames \ {"own_current_neighbor_current", "own_current_neighbor_previous"} =
       {"own_previous_neighbor_current", "own_previous_neighbor_previous"}
  /\ SlotNames \ {"own_current_neighbor_current", "own_previous_neighbor_current"} =
       {"own_current_neighbor_previous", "own_previous_neighbor_previous"}
BY DEF SlotNames

\* push_own_seed of a cluster that has no stream.
LEMMA FirstSeedChanges ==
  ASSUME Base, AllKeyedApart', TableInv,
         NEW a \in Agents, NEW b \in Agents, a # b,
         NEW c \in ClusterShape, c.neighbor = b, Streams(c) = {},
         NEW d, d = PushOwnSeed(c, seeds),
         neighbors' = [neighbors EXCEPT ![a][b] = [address |-> b, streams |-> d]],
         upcoming' = [upcoming EXCEPT ![a] = UpcomingAfterOwnSeed(upcoming[a], c, seeds)],
         OnlySeedsSent,
         seeds' = seeds + 1, UNCHANGED panicked
  PROVE  TableInv'
<1> PICK kept, table, i, j :
      /\ kept = [address |-> b, streams |-> d]
      /\ table = UpcomingAfterOwnSeed(upcoming[a], c, seeds)
      /\ i = "own_current_neighbor_current"
      /\ j = "own_current_neighbor_previous"
  OBVIOUS
<1>1. seeds \in Nat /\ seeds' \in Nat /\ seeds' >= seeds
  BY DEF Base, Shaped
<1>2. d \in ClusterShape
  BY <1>1, OwnSeedShaped
<1>3. kept \in NeighborShape /\ kept # None
  BY <1>2, AgentAssumption DEF NeighborShape
<1>4. /\ d[i] = MaybeNew(seeds, c.neighbor_current_key_material, c.neighbor_is_lexico_later)
      /\ d[j] = MaybeNew(seeds, c.neighbor_previous_key_material, c.neighbor_is_lexico_later)
      /\ d["own_previous_neighbor_current"] = c["own_current_neighbor_current"]
      /\ d["own_previous_neighbor_previous"] = c["own_current_neighbor_previous"]
  BY DEF PushOwnSeed, ClusterShape
<1>5. Fresh(d[i]) /\ Fresh(d[j]) /\ HaveHalf(d, i, j, seeds)
  <2>1. /\ c.neighbor_current_key_material \in Nat \cup {None}
        /\ c.neighbor_previous_key_material \in Nat \cup {None}
        /\ c.neighbor_is_lexico_later \in BOOLEAN
    BY DEF ClusterShape
  <2>2. ASSUME NEW k \in {i, j}
        PROVE  Fresh(d[k]) /\ (d[k] # None => seeds \in d[k].key)
    <3>1. PICK n \in Nat \cup {None} : d[k] = MaybeNew(seeds, n, c.neighbor_is_lexico_later)
      BY <1>4, <2>1
    <3> QED BY <1>1, <2>1, <3>1, MadeFresh
  <2> QED BY <2>2 DEF HaveHalf
<1>6. \A k \in SlotNames : c[k] = None
  BY SlotsHoldStreams
<1>7. OtherSlotsMatched(upcoming[a], d, i, j, b)
  <2>1. \A k \in SlotNames \ {i, j} : d[k] = None
    BY <1>4, <1>6, FirstSlots
  <2> QED BY <2>1 DEF OtherSlotsMatched, Matched
<1>8. HalfUnlisted(upcoming[a], b, seeds)
  <2>1. seeds \notin 0 .. seeds - 1
    BY <1>1
  <2> QED BY <2>1 DEF HalfUnlisted, TableInv, ListedKeysKnown
<1>9. FillsSlots(upcoming[a], table, b, d, i, j, seeds)
  <2>1. table = ExpectNew(ExpectNew(upcoming[a], d[i], b), d[j], b)
    BY DEF UpcomingAfterOwnSeed
  <2> QED BY <1>5, <1>7, <1>8, <2>1, FirstSlots DEF FillsSlots
<1>10. EntryBecomes(a, b, kept, table)
  BY <1>1, <1>3 DEF EntryBecomes
<1>11. d = kept.streams
  OBVIOUS
<1> QED BY <1>9, <1>10, <1>11, PushChanges

LEMMA TableInitiate ==
  ASSUME Base, AllKeyedApart', TableInv,
         NEW a \in Agents, NEW b \in Agents, a # b, InitiateStreamWith(a, b)
  PROVE  TableInv'
<1> PICK c, d : c = NewCluster(b, b > a) /\ d = PushOwnSeed(c, seeds)
  OBVIOUS
<1>1. c \in ClusterShape /\ c.neighbor = b
  <2>1. (b > a) \in BOOLEAN
    BY AgentAssumption
  <2> QED BY <2>1, NewShaped
<1>2. Streams(c) = {}
  BY StreamsOfSlots DEF NewCluster
<1>3. /\ neighbors' = [neighbors EXCEPT ![a][b] = [address |-> b, streams |-> d]]
      /\ upcoming' = [upcoming EXCEPT ![a] = UpcomingAfterOwnSeed(upcoming[a], c, seeds)]
      /\ network' = network \cup {InitiationPacket(a, b, seeds)}
      /\ seeds' = seeds + 1 /\ UNCHANGED panicked
  BY DEF InitiateStreamWith, Base
<1>4. OnlySeedsSent
  BY <1>3 DEF InitiationPacket, OnlySeedsSent
<1> QED BY <1>1, <1>2, <1>3, <1>4, FirstSeedChanges

LEMMA TableUnknown ==
  ASSUME Base, AllKeyedApart', TableInv,
         NEW p \in network, p.kind = "initiation", HandleInitiationUnknown(p.to, p)
  PROVE  TableInv'
<1> PICK a, b, m, fresh, c, d :
      /\ a = p.to /\ b = p.source /\ m = p.key_material
      /\ fresh = NewCluster(b, b > a)
      /\ c = PushNeighborKeyMaterial(fresh, m)
      /\ d = PushOwnSeed(c, seeds)
  OBVIOUS
<1>1. a \in Agents /\ b \in Agents /\ a # b /\ m \in Nat
  BY DEF Base, PacketShape
<1>2. fresh \in ClusterShape /\ fresh.neighbor = b
  <2>1. (b > a) \in BOOLEAN
    BY <1>1, AgentAssumption
  <2> QED BY <1>1, <2>1, NewShaped
<1>3. c \in ClusterShape /\ c.neighbor = b
  BY <1>1, <1>2, MaterialShaped
<1>4. Streams(c) = {}
  <2>1. /\ c.own_current_neighbor_current = None /\ c.own_current_neighbor_previous = None
        /\ c.own_previous_neighbor_current = None /\ c.own_previous_neighbor_previous = None
    BY DEF PushNeighborKeyMaterial, NewCluster, MaybeNew
  <2> QED BY <2>1, StreamsOfSlots
<1>5. /\ neighbors' = [neighbors EXCEPT ![a][b] = [address |-> b, streams |-> d]]
      /\ upcoming' = [upcoming EXCEPT ![a] = UpcomingAfterOwnSeed(upcoming[a], c, seeds)]
      /\ network' \subseteq network \cup {InitiationPacket(a, b, seeds)}
      /\ seeds' = seeds + 1 /\ UNCHANGED panicked
  BY DEF HandleInitiationUnknown, Handled, Base
<1>6. OnlySeedsSent
  BY <1>5 DEF InitiationPacket, OnlySeedsSent
<1> QED BY <1>1, <1>3, <1>4, <1>5, <1>6, FirstSeedChanges

LEMMA TableKnown ==
  ASSUME Base, AllKeyedApart', TableInv,
         NEW p \in network, p.kind = "initiation", HandleInitiationKnown(p.to, p)
  PROVE  TableInv'
<1> PICK a, b, m, c, d, kept, table, i, j :
      /\ a = p.to /\ b = p.source /\ m = p.key_material
      /\ c = neighbors[a][b].streams
      /\ d = PushNeighborKeyMaterial(c, m)
      /\ kept = [address |-> b, streams |-> d]
      /\ table = UpcomingAfterMaterial(upcoming[a], c, m)
      /\ i = "own_current_neighbor_current"
      /\ j = "own_previous_neighbor_current"
  OBVIOUS
<1>1. a \in Agents /\ b \in Agents /\ a # b /\ m \in Nat
  BY DEF Base, PacketShape
<1>2. /\ neighbors[a][b] # None
      /\ neighbors' = [neighbors EXCEPT ![a][b] = kept]
      /\ upcoming' = [upcoming EXCEPT ![a] = table]
      /\ network' \subseteq network
      /\ UNCHANGED <<seeds, panicked>>
  BY DEF HandleInitiationKnown, Handled, Base
<1>3. seeds' \in Nat /\ seeds' >= seeds
  BY <1>2 DEF Base, Shaped
<1>4. c \in ClusterShape /\ c.neighbor = b
  BY <1>1, <1>2 DEF Base, Shaped, NeighborShape
<1>5. kept \in NeighborShape /\ kept # None
  BY <1>1, <1>4, MaterialShaped, AgentAssumption DEF NeighborShape
<1>6. /\ d[i] = MaybeNew(c.own_current_seed, m, c.neighbor_is_lexico_later)
      /\ d[j] = MaybeNew(c.own_previous_seed, m, c.neighbor_is_lexico_later)
      /\ d["own_current_neighbor_previous"] = c["own_current_neighbor_current"]
      /\ d["own_previous_neighbor_previous"] = c["own_previous_neighbor_current"]
  BY <1>4 DEF PushNeighborKeyMaterial, ClusterShape
<1>7. Fresh(d[i]) /\ Fresh(d[j]) /\ HaveHalf(d, i, j, m)
  <2>1. /\ c.own_current_seed \in Nat \cup {None}
        /\ c.own_previous_seed \in Nat \cup {None}
        /\ c.neighbor_is_lexico_later \in BOOLEAN
    BY <1>4 DEF ClusterShape
  <2>2. ASSUME NEW k \in {i, j}
        PROVE  Fresh(d[k]) /\ (d[k] # None => m \in d[k].key)
    <3>1. PICK n \in Nat \cup {None} : d[k] = MaybeNew(n, m, c.neighbor_is_lexico_later)
      BY <1>6, <2>1
    <3> QED BY <1>1, <2>1, <3>1, MadeFresh
  <2> QED BY <2>2 DEF HaveHalf
<1>8. OtherSlotsMatched(upcoming[a], d, i, j, b)
  <2>1. TableMatches(upcoming[a], c, b)
    BY <1>1, <1>2 DEF TableInv
  <2>2. \A k \in SlotNames : Matched(upcoming[a], c[k], b)
    BY <2>1 DEF TableMatches, Matched
  <2>3. ASSUME NEW k \in SlotNames \ {i, j}
        PROVE  \E l \in SlotNames : d[k] = c[l]
    BY <1>6, <2>3, FirstSlots
  <2>4. ASSUME NEW k \in SlotNames \ {i, j}
        PROVE  Matched(upcoming[a], d[k], b)
    BY <2>2, <2>3, <2>4
  <2> QED BY <2>4 DEF OtherSlotsMatched
<1>9. HalfUnlisted(upcoming[a], b, m)
  BY <1>1 DEF HalfUnlisted, TableInv, ListedKeysKnown, UnderWay
<1>10. FillsSlots(upcoming[a], table, b, d, i, j, m)
  <2>1. table = ExpectNew(ExpectNew(upcoming[a], d[i], b), d[j], b)
    BY <1>4 DEF UpcomingAfterMaterial
  <2> QED BY <1>7, <1>8, <1>9, <2>1, FirstSlots DEF FillsSlots
<1>11. EntryBecomes(a, b, kept, table)
  BY <1>2, <1>3, <1>5 DEF EntryBecomes, OnlySeedsSent
<1>12. d = kept.streams
  OBVIOUS
<1> QED BY <1>1, <1>10, <1>11, <1>12, PushChanges

\* The window of a stream before and after a message was sent.
SameWindow(s, t) ==
  /\ t.key = s.key
  /\ t.neighbor_is_lexico_later = s.neighbor_is_lexico_later
  /\ t.incoming_message_mask_start = s.incoming_message_mask_start
  /\ t.incoming_message_mask = s.incoming_message_mask

LEMMA TakenSlots ==
  ASSUME NEW c \in ClusterShape, StreamReady(c), NEW d, d = IdentifierTaken(c)
  PROVE  \A i \in SlotNames : d[i] # None => c[i] # None /\ SameWindow(c[i], d[i])
<1> PICK slot : slot = OutgoingSlot(c)
  OBVIOUS
<1>1. slot \in SlotNames /\ c[slot] # None
  BY DEF OutgoingSlot, Preferred, StreamReady, ClusterShape, SlotNames
<1>2. /\ c[slot] \in AnyStream /\ SlotNames \subseteq DOMAIN c
      /\ d = [c EXCEPT ![slot].outgoing_message_index = @ + 1]
  BY <1>1, ClusterSlots DEF SlotsShape, IdentifierTaken
<1>3. SameWindow(c[slot], d[slot])
  BY <1>1, <1>2 DEF SameWindow, AnyStream
<1>4. \A i \in SlotNames \ {slot} : d[i] = c[i]
  BY <1>2
<1> QED BY <1>1, <1>3, <1>4 DEF SameWindow

LEMMA TableSend ==
  ASSUME Base, AllKeyedApart', TableInv,
         NEW a \in Agents, NEW b \in Agents, NEW payload, SendTo(a, b, payload)
  PROVE  TableInv'
<1> PICK c, d, kept, table, packet :
      /\ c = neighbors[a][b].streams
      /\ d = IdentifierTaken(c)
      /\ kept = [neighbors[a][b] EXCEPT !.streams = d]
      /\ table = upcoming[a]
      /\ packet = ContentPacket(a, neighbors[a][b].address, c[OutgoingSlot(c)],
                                payload, calls.send)
  OBVIOUS
<1>1. /\ neighbors[a][b] # None /\ StreamReady(c)
      /\ neighbors' = [neighbors EXCEPT ![a][b].streams = d]
      /\ network' \subseteq network \cup {packet}
      /\ UNCHANGED <<seeds, upcoming, panicked>>
  BY DEF SendTo
<1>2. neighbors[a][b] \in NeighborShape /\ c \in ClusterShape /\ a # b
  BY <1>1 DEF Base, Shaped, NeighborShape
<1>3. kept \in NeighborShape /\ kept.streams = d
  BY <1>1, <1>2, TakenShaped DEF NeighborShape
<1>4. EntryBecomes(a, b, kept, table)
  <2>1. neighbors' = [neighbors EXCEPT ![a][b] = kept]
    BY <1>1
  <2>2. upcoming' = [upcoming EXCEPT ![a] = table]
    BY <1>1 DEF Base
  <2>3. OnlySeedsSent
    BY <1>1 DEF OnlySeedsSent, ContentPacket
  <2>4. seeds' \in Nat /\ seeds' >= seeds /\ UNCHANGED panicked
    BY <1>1 DEF Base, Shaped
  <2> QED BY <1>3, <2>1, <2>2, <2>3, <2>4, AgentAssumption DEF EntryBecomes
<1>5. TableMatches(table, d, b)
  <2>1. TableMatches(table, c, b)
    BY <1>1 DEF TableInv
  <2>2. ASSUME NEW s, NEW t, MatchesWindow(table, s, b), SameWindow(s, t)
        PROVE  MatchesWindow(table, t, b)
    BY <2>2 DEF SameWindow, MatchesWindow, ExpectedPacket, Identifier, Awaits
  <2>3. \A i \in SlotNames : d[i] # None => c[i] # None /\ SameWindow(c[i], d[i])
    BY <1>1, <1>2, TakenSlots
  <2> QED BY <2>1, <2>2, <2>3 DEF TableMatches
<1>6. NoRepeats(table)
  BY DEF TableInv
<1> QED BY <1>2, <1>3, <1>4, <1>5, <1>6, TableChanges

\* The entry a packet is taken for is that of a number its stream awaits.
TakenFor(c, i, e, p, b) ==
  /\ i \in SlotNames /\ c[i] # None
  /\ e.packet_number \in Nat
  /\ e = ExpectedPacket(c[i], b, e.packet_number)
  /\ p.identifier = Identifier(c[i], "Incoming", e.packet_number)
  /\ Decrypts(c[i], e.packet_number, p)
  /\ Awaits(c[i], e.packet_number)

LEMMA MatchTaken ==
  ASSUME Base, AllKeyedApart, TableInv, NEW a \in Agents, NEW p, NEW e \in Match(a, p),
         NEW c, c = neighbors[a][e.stream_with].streams
  PROVE  /\ ~ ClusterPanics(c, e)
         /\ \E i \in SlotNames : TakenFor(c, i, e, p, e.stream_with)
<1> PICK b : b = e.stream_with
  OBVIOUS
<1>1. /\ Lists(upcoming[a], e, p.identifier)
      /\ b \in Agents /\ neighbors[a][b] # None
      /\ ClusterDecrypts(c, e, p)
  BY MatchIsListed
<1>2. Tidy(upcoming[a], Agents) /\ TableMatches(upcoming[a], c, b)
  BY <1>1 DEF Base, TableInv, Tidy
<1>3. SlotsShape(c)
  BY <1>1 DEF AllKeyedApart, KeyedApart
<1>4. /\ ~ ClusterPanics(c, e)
      /\ \A i \in SlotNames : c[i] # None /\ c[i].key = e.stream_key =>
           /\ e = ExpectedPacket(c[i], b, e.packet_number)
           /\ e.packet_number \in Nat
           /\ Awaits(c[i], e.packet_number)
           /\ p.identifier = Identifier(c[i], "Incoming", e.packet_number)
  BY <1>1, <1>2, <1>3, ListedIsInside
<1>5. PICK i \in SlotNames : /\ c[i] # None
                             /\ c[i].key = e.stream_key
                             /\ Decrypts(c[i], e.packet_number, p)
  BY <1>1, DecryptedHasSlot
<1>6. TakenFor(c, i, e, p, b)
  BY <1>4, <1>5 DEF TakenFor
<1> QED BY <1>4, <1>6

LEMMA TakenMoves ==
  ASSUME NEW c, SlotsShape(c), KeysApart(c), NEW i, NEW e, NEW p, NEW b,
         TakenFor(c, i, e, p, b), NEW d, d = GotIncomingPacket(c, e)
  PROVE  /\ i \in SlotNames /\ c[i] \in AnyStream
         /\ d[i] = Advanced(c[i], e.packet_number)
         /\ d[i] # None /\ d[i].key = c[i].key
         /\ \A j \in SlotNames \ {i} : d[j] = c[j]
<1>1. /\ i \in SlotNames /\ c[i] # None /\ e.packet_number \in Nat
      /\ e = ExpectedPacket(c[i], b, e.packet_number)
  BY DEF TakenFor
<1>2. e.stream_key = c[i].key
  BY <1>1 DEF ExpectedPacket
<1>3. c[i] \in AnyStream
  BY <1>1 DEF SlotsShape
<1>4. /\ d[i] = Advanced(c[i], e.packet_number)
      /\ \A j \in SlotNames : j # i => d[j] = c[j]
  BY <1>1, <1>2, PacketSlots
<1>5. d[i] # None /\ d[i].key = c[i].key
  <2> PICK s : s = c[i]
    OBVIOUS
  <2>1. Advanced(s, e.packet_number) \in AnyStream /\ Advanced(s, e.packet_number).key = s.key
    BY <1>1, <1>3, AdvancedKeeps
  <2> QED BY <1>4, <2>1, StreamIsNotNone
<1> QED BY <1>1, <1>3, <1>4, <1>5

LEMMA TableExecute ==
  ASSUME Base, AllKeyedApart, AllKeyedApart', TableInv,
         NEW a \in Agents, NEW p, NEW e \in Match(a, p), Execute(a, p, e),
         network' \subseteq network, UNCHANGED seeds
  PROVE  TableInv'
<1> PICK b, c, d, kept, table, n :
      /\ b = e.stream_with
      /\ c = neighbors[a][b].streams
      /\ d = GotIncomingPacket(c, e)
      /\ kept = [neighbors[a][b] EXCEPT !.streams = d]
      /\ table = UpcomingAfterPacket(upcoming[a], c, e, p.identifier)
      /\ n = e.packet_number
  OBVIOUS
<1>1. b \in Agents /\ b # a /\ neighbors[a][b] # None
  BY MatchIsListed
<1>2. PICK i \in SlotNames : TakenFor(c, i, e, p, b)
  BY MatchTaken
<1>3. /\ c[i] # None /\ n \in Nat
      /\ e = ExpectedPacket(c[i], b, n)
      /\ p.identifier = Identifier(c[i], "Incoming", n)
      /\ Awaits(c[i], n)
  BY <1>2 DEF TakenFor
<1>4. SlotsShape(c) /\ KeysApart(c)
  BY <1>1 DEF AllKeyedApart, KeyedApart
<1>5. Tidy(upcoming[a], Agents) /\ TableMatches(upcoming[a], c, b)
  BY <1>1 DEF Base, TableInv, Tidy
<1>6. /\ Tidy(table, Agents)
      /\ TableMatches(table, d, b)
      /\ SameBut(upcoming[a], table, b, c[i].key)
  BY <1>1, <1>3, <1>4, <1>5, PacketMoves
<1>7. neighbors[a][b] \in NeighborShape /\ c \in ClusterShape
  BY <1>1 DEF Base, Shaped, NeighborShape
<1>8. kept \in NeighborShape /\ kept.streams = d
  BY <1>3, <1>7, ReceivedShaped DEF NeighborShape
<1>9. EntryBecomes(a, b, kept, table)
  <2>1. /\ neighbors' = [neighbors EXCEPT ![a][b] = kept]
        /\ upcoming' = [upcoming EXCEPT ![a] = table]
        /\ UNCHANGED panicked
    BY DEF Execute, Base
  <2>2. OnlySeedsSent
    BY DEF OnlySeedsSent
  <2>3. seeds' \in Nat /\ seeds' >= seeds
    BY DEF Base, Shaped
  <2> QED BY <1>8, <2>1, <2>2, <2>3, AgentAssumption DEF EntryBecomes
<1>10. \E s \in Streams(d) : s.key = c[i].key
  <2>1. d[i] # None /\ d[i].key = c[i].key
    BY <1>2, <1>4, TakenMoves
  <2> QED BY <2>1, SlotsHoldStreams
<1>11. ASSUME NEW x, NEW z
       PROVE  /\ x.stream_with # b => (Lists(table, x, z) <=> Lists(upcoming[a], x, z))
              /\ Lists(table, x, z) =>
                   \/ Lists(upcoming[a], x, z)
                   \/ x.stream_with = b /\ \E s \in Streams(kept.streams) : x.stream_key = s.key
  BY <1>6, <1>8, <1>10 DEF SameBut, IsFor
<1>12. NoRepeats(table) /\ TableMatches(table, kept.streams, b)
  BY <1>6, <1>8 DEF Tidy
<1> QED BY <1>1, <1>9, <1>11, <1>12, TableChanges

LEMMA TableRestart ==
  ASSUME Base, TableInv, NEW a \in Agents, Restart(a)
  PROVE  TableInv'
<1>1. /\ \A x, y \in Agents : neighbors'[x][y] = IF x = a THEN None ELSE neighbors[x][y]
      /\ \A x \in Agents : upcoming'[x] = IF x = a THEN <<>> ELSE upcoming[x]
      /\ UNCHANGED <<network, seeds>> /\ panicked' = panicked \ {a}
  BY DEF Restart, Base, Shaped, EmptyTable
<1>2. NoRepeats(<<>>) /\ \A x, i : ~ Lists(<<>>, x, i)
  BY EmptyListsNothing
<1>3. \A x \in Agents : NoRepeats(upcoming'[x])
  BY <1>1, <1>2 DEF TableInv
<1>4. \A x \in Agents : ListedKeysKnown(x)'
  BY <1>1, <1>2 DEF TableInv, ListedKeysKnown
<1>5. \A x, y \in Agents : neighbors'[x][y] # None =>
        TableMatches(upcoming'[x], neighbors'[x][y].streams, y)
  BY <1>1 DEF TableInv
<1> QED BY <1>1, <1>3, <1>4, <1>5 DEF TableInv

LEMMA TableStays ==
  ASSUME TableInv, UNCHANGED <<neighbors, upcoming, seeds, panicked>>,
         network' \subseteq network
  PROVE  TableInv'
BY DEF TableInv, ListedKeysKnown

LEMMA TableSteps ==
  ASSUME Base, AllKeyedApart, AllKeyedApart', TableInv, [Next]_vars
  PROVE  TableInv'
<1>1. CASE UNCHANGED vars
  BY <1>1, TableStays DEF vars
<1>2. ASSUME NEW p \in network, HandlePacket(p)
      PROVE  TableInv'
  <2>1. CASE p.kind = "initiation"
    BY <1>2, <2>1, TableKnown, TableUnknown DEF HandlePacket
  <2>2. CASE p.kind # "initiation"
    <3>1. CASE HandleUnrecognized(p.to, p)
      BY <3>1, TableStays DEF HandleUnrecognized, Handled
    <3>2. CASE HandleContent(p.to, p)
      <4>1. p.to \in Agents /\ network' \subseteq network /\ UNCHANGED seeds
        BY <3>2 DEF Base, PacketShape, HandleContent, Handled
      <4>2. PICK e \in Match(p.to, p) :
              IF ClusterPanics(neighbors[p.to][e.stream_with].streams, e)
              THEN TRUE ELSE Execute(p.to, p, e)
        BY <3>2 DEF HandleContent
      <4>3. Execute(p.to, p, e)
        BY <4>1, <4>2, MatchTaken
      <4> QED BY <4>1, <4>3, TableExecute
    <3> QED BY <1>2, <2>2, <3>1, <3>2 DEF HandlePacket
  <2> QED BY <2>1, <2>2
<1>3. ASSUME NEW a \in Initiators, NEW b \in Agents, a # b, InitiateStreamWith(a, b)
      PROVE  TableInv'
  BY <1>3, AgentAssumption, TableInitiate
<1> QED BY <1>1, <1>2, <1>3, TableSend, TableRestart DEF Next

LEMMA TableInitially ==
  ASSUME Init
  PROVE  TableInv
<1>1. \A a \in Agents : NoRepeats(upcoming[a]) /\ \A x, i : ~ Lists(upcoming[a], x, i)
  BY EmptyListsNothing DEF Init, EmptyTable
<1>2. panicked = {} /\ \A a, b \in Agents : neighbors[a][b] = None
  BY DEF Init
<1> QED BY <1>1, <1>2 DEF TableInv, ListedKeysKnown

-----------------------------------------------------------------------------
(* What was executed stays used up, as long as no initiation packet is     *)
(* repeated.                                                               *)

\* The window of s takes number n no more.
Used(s, n) == n < s.incoming_message_mask_start + Window /\ ~ Awaits(s, n)

\* Nothing that can arrive now makes the receiver of p take it again.
Spent(p) ==
  LET a == p.message.to
      b == p.message.source
  IN /\ \A q \in network : UnderWay(q, a, b) => q.key_material \notin p.key
     /\ neighbors[a][b] # None =>
          \A s \in Streams(neighbors[a][b].streams) : s.key = p.key =>
            \A n \in Nat : p.nonce \in {n * 2, n * 2 + 1} => Used(s, n)

Messages ==
  [source : Agents, to : Agents, uid : 0 .. MaxSends, payload : Payloads]

\* Message n of a stream from a to b, labelled as b expects it.
LabelledAs(p, a, b, n) ==
  /\ p.nonce = n * 2 + Parity(a, b)
  /\ p.identifier = Keystream(p.key, ~ (b > a), n)

SentShape(p) ==
  /\ p.kind = "content"
  /\ p.message \in Messages /\ p.message.uid < calls.send
  /\ p.to = p.message.to
  /\ \E n \in Nat : LabelledAs(p, p.message.source, p.message.to, n)

ComesFrom(t, p) ==
  t = [requestor |-> p.message.source, agent |-> p.message.to, message |-> p.message]

ExecInv ==
  /\ calls \in [initiate : Nat, send : Nat, restart : Nat]
  /\ \A p \in network : p.kind # "initiation" => p \in sent
  /\ \A p \in sent : SentShape(p)
  /\ \A p, q \in sent : p.message.uid = q.message.uid => p = q
  /\ \A t \in tasks : \E p \in sent : ComesFrom(t, p) /\ Spent(p)

LEMMA UsedStays ==
  ASSUME NEW s \in AnyStream, NEW n \in Nat, n >= s.incoming_message_mask_start,
         NEW k \in Nat, Used(s, k)
  PROVE  Used(Advanced(s, n), k)
<1> PICK start, mask, later :
      /\ start = s.incoming_message_mask_start
      /\ mask = MaskWithout(s, n)
      /\ later = Advanced(s, n)
  OBVIOUS
<1>1. start \in Nat /\ mask \subseteq s.incoming_message_mask
  BY DEF AnyStream, MaskWithout, Cleared
<1>2. later.incoming_message_mask_start = MovedStart(start, mask)
  BY DEF Advanced, AnyStream, MaskWithout
<1>3. k < later.incoming_message_mask_start + Window
  BY <1>1, <1>2, WindowAssumption DEF MovedStart, Used
<1>4. k - start \notin mask
  BY <1>1 DEF Used, Awaits
<1>5. k \notin Announced(start, mask)
  BY <1>1, WindowAssumption DEF Announced, Used
<1>6. ~ Awaits(later, k)
  BY <1>4, <1>5, WindowMoves
<1> QED BY <1>3, <1>6 DEF Used

LEMMA TakenIsUsed ==
  ASSUME NEW s \in AnyStream, NEW n \in Nat, Awaits(s, n)
  PROVE  Used(Advanced(s, n), n)
<1> PICK start, mask, later :
      /\ start = s.incoming_message_mask_start
      /\ mask = MaskWithout(s, n)
      /\ later = Advanced(s, n)
  OBVIOUS
<1>1. start \in Nat /\ n - start \in Bits /\ n >= start
  BY AwaitedInside DEF AnyStream, Awaits
<1>2. n < start + Window
  BY <1>1, WindowAssumption DEF Bits
<1>3. n - start \notin mask
  BY <1>1, <1>2, WindowAssumption DEF MaskWithout, Cleared, BitOf, ShiftOverflows
<1>4. later.incoming_message_mask_start = MovedStart(start, mask)
  BY <1>1 DEF Advanced, AnyStream, MaskWithout
<1>5. n < later.incoming_message_mask_start + Window
  BY <1>1, <1>2, <1>4, WindowAssumption DEF MovedStart
<1>6. n \notin Announced(start, mask)
  BY <1>1, <1>2, WindowAssumption DEF Announced
<1>7. ~ Awaits(later, n)
  BY <1>1, <1>3, <1>6, WindowMoves
<1> QED BY <1>5, <1>7 DEF Used

\* Stream t of the entry a has for b either has a key that is new to a, or
\* goes on where a stream with its key was.
Follows(a, b, t) ==
  \/ seeds \in t.key
  \/ \E q \in network : UnderWay(q, a, b) /\ q.key_material \in t.key
  \/ /\ neighbors[a][b] # None
     /\ \E s \in Streams(neighbors[a][b].streams) :
          /\ s.key = t.key
          /\ \A n \in Nat : Used(s, n) => Used(t, n)

StreamsFollow ==
  \A a, b \in Agents : neighbors'[a][b] # None =>
    \A t \in Streams(neighbors'[a][b].streams) : Follows(a, b, t)

LEMMA EntryFollows ==
  ASSUME Base, NEW a \in Agents, NEW b \in Agents, NEW kept,
         neighbors' = [neighbors EXCEPT ![a][b] = kept],
         \A t \in Streams(kept.streams) : Follows(a, b, t)
  PROVE  StreamsFollow
<1> SUFFICES ASSUME NEW x \in Agents, NEW y \in Agents, neighbors'[x][y] # None,
                    NEW t \in Streams(neighbors'[x][y].streams)
             PROVE  Follows(x, y, t)
  BY DEF StreamsFollow
<1>1. neighbors'[x][y] = IF x = a /\ y = b THEN kept ELSE neighbors[x][y]
  BY DEF Base, Shaped
<1> QED BY <1>1 DEF Follows

LEMMA SeedFollows ==
  ASSUME Base, NEW a \in Agents, NEW b \in Agents,
         NEW c \in ClusterShape, Streams(c) = {}, NEW d, d = PushOwnSeed(c, seeds),
         neighbors' = [neighbors EXCEPT ![a][b] = [address |-> b, streams |-> d]]
  PROVE  StreamsFollow
<1>1. \A k \in SlotNames : c[k] = None
  BY SlotsHoldStreams
<1>2. /\ c.neighbor_current_key_material \in Nat \cup {None}
      /\ c.neighbor_previous_key_material \in Nat \cup {None}
      /\ c.neighbor_is_lexico_later \in BOOLEAN
      /\ seeds \in Nat
  BY DEF ClusterShape, Base, Shaped
<1>3. ASSUME NEW k \in SlotNames, d[k] # None
      PROVE  \E m \in Nat \cup {None} : d[k] = MaybeNew(seeds, m, c.neighbor_is_lexico_later)
  <2>1. /\ d["own_current_neighbor_current"]
             = MaybeNew(seeds, c.neighbor_current_key_material, c.neighbor_is_lexico_later)
        /\ d["own_current_neighbor_previous"]
             = MaybeNew(seeds, c.neighbor_previous_key_material, c.neighbor_is_lexico_later)
        /\ d["own_previous_neighbor_current"] = c["own_current_neighbor_current"]
        /\ d["own_previous_neighbor_previous"] = c["own_current_neighbor_previous"]
    BY DEF PushOwnSeed, ClusterShape
  <2>2. /\ d["own_previous_neighbor_current"] = None
        /\ d["own_previous_neighbor_previous"] = None
    BY <1>1, <2>1 DEF SlotNames
  <2> QED BY <1>2, <1>3, <2>1, <2>2 DEF SlotNames
<1>4. ASSUME NEW t \in Streams(d)
      PROVE  seeds \in t.key
  <2>1. t # None /\ \E k \in SlotNames : t = d[k]
    BY SlotsHoldStreams
  <2>2. PICK m \in Nat \cup {None} : t = MaybeNew(seeds, m, c.neighbor_is_lexico_later)
    BY <1>3, <2>1
  <2> QED BY <1>2, <2>1, <2>2, MadeFresh
<1>5. \A t \in Streams([address |-> b, streams |-> d].streams) : Follows(a, b, t)
  BY <1>4 DEF Follows
<1> QED BY <1>5, EntryFollows

LEMMA InitiateFollows ==
  ASSUME Base, NEW a \in Agents, NEW b \in Agents, InitiateStreamWith(a, b)
  PROVE  StreamsFollow
<1> PICK c, d : c = NewCluster(b, b > a) /\ d = PushOwnSeed(c, seeds)
  OBVIOUS
<1>1. c \in ClusterShape
  <2>1. (b > a) \in BOOLEAN
    BY AgentAssumption
  <2> QED BY <2>1, NewShaped
<1>2. Streams(c) = {}
  BY StreamsOfSlots DEF NewCluster
<1>3. neighbors' = [neighbors EXCEPT ![a][b] = [address |-> b, streams |-> d]]
  BY DEF InitiateStreamWith
<1> QED BY <1>1, <1>2, <1>3, SeedFollows

LEMMA UnknownFollows ==
  ASSUME Base, NEW p \in network, p.kind = "initiation", HandleInitiationUnknown(p.to, p)
  PROVE  StreamsFollow
<1> PICK a, b, m, fresh, c, d :
      /\ a = p.to /\ b = p.source /\ m = p.key_material
      /\ fresh = NewCluster(b, b > a)
      /\ c = PushNeighborKeyMaterial(fresh, m)
      /\ d = PushOwnSeed(c, seeds)
  OBVIOUS
<1>1. a \in Agents /\ b \in Agents /\ m \in Nat
  BY DEF Base, PacketShape
<1>2. fresh \in ClusterShape
  <2>1. (b > a) \in BOOLEAN
    BY <1>1, AgentAssumption
  <2> QED BY <1>1, <2>1, NewShaped
<1>3. c \in ClusterShape
  BY <1>1, <1>2, MaterialShaped
<1>4. Streams(c) = {}
  <2>1. /\ c.own_current_neighbor_current = None /\ c.own_current_neighbor_previous = None
        /\ c.own_previous_neighbor_current = None /\ c.own_previous_neighbor_previous = None
    BY DEF PushNeighborKeyMaterial, NewCluster, MaybeNew
  <2> QED BY <2>1, StreamsOfSlots
<1>5. neighbors' = [neighbors EXCEPT ![a][b] = [address |-> b, streams |-> d]]
  BY DEF HandleInitiationUnknown
<1> QED BY <1>1, <1>3, <1>4, <1>5, SeedFollows

LEMMA KnownFollows ==
  ASSUME Base, NEW p \in network, p.kind = "initiation", HandleInitiationKnown(p.to, p)
  PROVE  StreamsFollow
<1> PICK a, b, m, c, d, kept :
      /\ a = p.to /\ b = p.source /\ m = p.key_material
      /\ c = neighbors[a][b].streams
      /\ d = PushNeighborKeyMaterial(c, m)
      /\ kept = [address |-> b, streams |-> d]
  OBVIOUS
<1>1. a \in Agents /\ b \in Agents /\ m \in Nat
  BY DEF Base, PacketShape
<1>2. neighbors[a][b] # None /\ neighbors' = [neighbors EXCEPT ![a][b] = kept]
  BY DEF HandleInitiationKnown
<1>3. c \in ClusterShape
  BY <1>1, <1>2 DEF Base, Shaped, NeighborShape
<1>4. /\ c.own_current_seed \in Nat \cup {None}
      /\ c.own_previous_seed \in Nat \cup {None}
      /\ c.neighbor_is_lexico_later \in BOOLEAN
  BY <1>3 DEF ClusterShape
<1>5. ASSUME NEW k \in SlotNames
      PROVE  \/ \E n \in Nat \cup {None} : d[k] = MaybeNew(n, m, c.neighbor_is_lexico_later)
             \/ \E l \in SlotNames : d[k] = c[l]
  <2>1. /\ d["own_current_neighbor_current"]
             = MaybeNew(c.own_current_seed, m, c.neighbor_is_lexico_later)
        /\ d["own_previous_neighbor_current"]
             = MaybeNew(c.own_previous_seed, m, c.neighbor_is_lexico_later)
        /\ d["own_current_neighbor_previous"] = c["own_current_neighbor_current"]
        /\ d["own_previous_neighbor_previous"] = c["own_previous_neighbor_current"]
    BY <1>3 DEF PushNeighborKeyMaterial, ClusterShape
  <2> QED BY <1>4, <2>1 DEF SlotNames
<1>6. ASSUME NEW t \in Streams(d)
      PROVE  Follows(a, b, t)
  <2>1. PICK k \in SlotNames : t # None /\ t = d[k]
    BY SlotsHoldStreams
  <2>2. CASE \E n \in Nat \cup {None} : t = MaybeNew(n, m, c.neighbor_is_lexico_later)
    <3>1. m \in t.key
      <4>1. PICK n \in Nat \cup {None}, later \in BOOLEAN : t = MaybeNew(n, m, later)
        BY <1>4, <2>2
      <4>2. MaybeNew(n, m, later) # None => MaybeNew(n, m, later).key = {n, m}
        BY <1>1, MadeFresh
      <4> QED BY <2>1, <4>1, <4>2
    <3>2. UnderWay(p, a, b) /\ p.key_material \in t.key
      BY <3>1 DEF UnderWay
    <3> QED BY <3>2 DEF Follows
  <2>3. CASE \E l \in SlotNames : t = c[l]
    <3>1. t \in Streams(c)
      BY <2>1, <2>3, SlotsHoldStreams
    <3> QED BY <1>2, <3>1 DEF Follows
  <2> QED BY <1>5, <2>1, <2>2, <2>3
<1>7. \A t \in Streams(kept.streams) : Follows(a, b, t)
  BY <1>6
<1> QED BY <1>1, <1>2, <1>7, EntryFollows

LEMMA SendFollows ==
  ASSUME Base, NEW a \in Agents, NEW b \in Agents, NEW payload, SendTo(a, b, payload)
  PROVE  StreamsFollow
<1> PICK c, d, kept :
      /\ c = neighbors[a][b].streams
      /\ d = IdentifierTaken(c)
      /\ kept = [neighbors[a][b] EXCEPT !.streams = d]
  OBVIOUS
<1>1. /\ neighbors[a][b] # None /\ StreamReady(c)
      /\ neighbors' = [neighbors EXCEPT ![a][b] = kept]
  BY DEF SendTo
<1>2. c \in ClusterShape /\ kept.streams = d
  BY <1>1 DEF Base, Shaped, NeighborShape
<1>3. ASSUME NEW t \in Streams(d)
      PROVE  Follows(a, b, t)
  <2>1. PICK k \in SlotNames : t # None /\ t = d[k]
    BY SlotsHoldStreams
  <2>2. c[k] # None /\ SameWindow(c[k], t)
    BY <1>1, <1>2, <2>1, TakenSlots
  <2>3. PICK s \in Streams(c) : SameWindow(s, t)
    BY <2>2, SlotsHoldStreams
  <2>4. s.key = t.key /\ \A n \in Nat : Used(s, n) => Used(t, n)
    BY <2>3 DEF SameWindow, Used, Awaits
  <2> QED BY <1>1, <2>4 DEF Follows
<1> QED BY <1>1, <1>2, <1>3, EntryFollows

LEMMA ExecuteFollows ==
  ASSUME Base, AllKeyedApart, TableInv,
         NEW a \in Agents, NEW p, NEW e \in Match(a, p), Execute(a, p, e)
  PROVE  StreamsFollow
<1> PICK b, c, d, kept, n :
      /\ b = e.stream_with
      /\ c = neighbors[a][b].streams
      /\ d = GotIncomingPacket(c, e)
      /\ kept = [neighbors[a][b] EXCEPT !.streams = d]
      /\ n = e.packet_number
  OBVIOUS
<1>1. b \in Agents /\ neighbors[a][b] # None
  BY MatchIsListed
<1>2. PICK i \in SlotNames : TakenFor(c, i, e, p, b)
  BY MatchTaken
<1>3. n \in Nat /\ Awaits(c[i], n)
  BY <1>2 DEF TakenFor
<1>4. SlotsShape(c) /\ KeysApart(c)
  BY <1>1 DEF AllKeyedApart, KeyedApart
<1>5. /\ c[i] \in AnyStream
      /\ d[i] = Advanced(c[i], n)
      /\ d[i] # None /\ d[i].key = c[i].key
      /\ \A j \in SlotNames \ {i} : d[j] = c[j]
  BY <1>2, <1>4, TakenMoves
<1>6. kept.streams = d /\ neighbors' = [neighbors EXCEPT ![a][b] = kept]
  <2>1. neighbors[a][b] \in NeighborShape
    BY <1>1 DEF Base, Shaped
  <2> QED BY <2>1 DEF NeighborShape, Execute
<1>7. ASSUME NEW t \in Streams(d)
      PROVE  Follows(a, b, t)
  <2>1. PICK k \in SlotNames : t # None /\ t = d[k]
    BY SlotsHoldStreams
  <2>2. CASE k = i
    <3> PICK s : s = c[i]
      OBVIOUS
    <3>1. s \in Streams(c)
      BY <1>5, SlotsHoldStreams, StreamIsNotNone
    <3>2. t = Advanced(s, n) /\ t.key = s.key
      BY <1>5, <2>1, <2>2
    <3>3. n >= s.incoming_message_mask_start
      BY <1>3, <1>5, AwaitedInside
    <3>4. \A m \in Nat : Used(s, m) => Used(t, m)
      BY <1>3, <1>5, <3>2, <3>3, UsedStays
    <3> QED BY <1>1, <3>1, <3>2, <3>4 DEF Follows
  <2>3. CASE k # i
    <3>1. t \in Streams(c)
      BY <1>5, <2>1, <2>3, SlotsHoldStreams
    <3> QED BY <1>1, <3>1 DEF Follows
  <2> QED BY <2>2, <2>3
<1> QED BY <1>1, <1>6, <1>7, EntryFollows

LEMMA RestartFollows ==
  ASSUME Base, NEW a \in Agents, Restart(a)
  PROVE  StreamsFollow
<1>1. \A x, y \in Agents : neighbors'[x][y] = IF x = a THEN None ELSE neighbors[x][y]
  BY DEF Restart, Base, Shaped
<1> QED BY <1>1 DEF StreamsFollow, Follows

LEMMA StaysFollow ==
  ASSUME UNCHANGED neighbors
  PROVE  StreamsFollow
BY DEF StreamsFollow, Follows

\* A packet that was sent names, to the agent it is for, the one it is from.
LEMMA SentNames ==
  ASSUME IInv, NEW p \in sent
  PROVE  /\ p.key \subseteq 0 .. seeds - 1
         /\ p.message.source \in Agents /\ p.message.to \in Agents
         /\ p.message.source # p.message.to
         /\ \A b \in Agents : neighbors[p.message.to][b] # None =>
              \A s \in Streams(neighbors[p.message.to][b].streams) :
                s.key = p.key => b = p.message.source
<1>1. PICK owner \in Owners : Agrees(owner)
  BY DEF IInv
<1>2. seeds \in Nat /\ ClustersFit(owner) /\ SentIsCounted(owner)
  BY <1>1 DEF Agrees, Shaped
<1>3. PICK y \in Agents, a \in Agents, i \in Nat : SealedAs(owner, seeds, p, y, a, i)
  BY <1>2 DEF SentIsCounted
<1>4. PICK x1 \in Nat, x2 \in Nat :
        /\ p.key = {x1, x2}
        /\ Belongs(owner, seeds, x1, y, a)
        /\ Belongs(owner, seeds, x2, a, y)
  BY <1>3 DEF SealedAs
<1>5. p.message.source = y /\ p.message.to = a /\ y # a
  BY <1>3, <1>4 DEF SealedAs, Belongs
<1>6. p.key \subseteq 0 .. seeds - 1
  BY <1>2, <1>4 DEF Belongs
<1>7. ASSUME NEW b \in Agents, neighbors[a][b] # None,
             NEW s \in Streams(neighbors[a][b].streams), s.key = p.key
      PROVE  b = y
  <2> PICK c : c = neighbors[a][b].streams
    OBVIOUS
  <2>1. Fits(owner, seeds, a, b, c) /\ s \in Streams(c)
    BY <1>2, <1>7 DEF ClustersFit
  <2>2. PICK o \in OwnSeeds(c), m \in Materials(c) : s.key = Exchange(o, m)
    BY <2>1, StreamFits
  <2>3. Belongs(owner, seeds, o, a, b)
    BY <2>1 DEF Fits
  <2>4. o = x1 \/ o = x2
    BY <1>4, <1>7, <2>2 DEF Exchange
  <2> QED BY <1>4, <1>5, <2>3, <2>4 DEF Belongs
<1> QED BY <1>5, <1>6, <1>7

\* What is spent stays so, whatever stream follows which.
LEMMA SpentStays ==
  ASSUME IInv, StreamsFollow, OnlySeedsSent, NEW p \in sent, Spent(p)
  PROVE  Spent(p)'
<1> PICK a, b : a = p.message.to /\ b = p.message.source
  OBVIOUS
<1>1. p.key \subseteq 0 .. seeds - 1 /\ a \in Agents /\ b \in Agents
  BY SentNames
<1>2. seeds \notin p.key
  <2>1. seeds \in Nat
    BY DEF IInv, Agrees, Shaped
  <2> QED BY <1>1, <2>1
<1>3. /\ \A q \in network : UnderWay(q, a, b) => q.key_material \notin p.key
      /\ neighbors[a][b] # None =>
           \A s \in Streams(neighbors[a][b].streams) : s.key = p.key =>
             \A n \in Nat : p.nonce \in {n * 2, n * 2 + 1} => Used(s, n)
  BY DEF Spent
<1>4. \A q \in network' : UnderWay(q, a, b) => q.key_material \notin p.key
  BY <1>2, <1>3 DEF OnlySeedsSent, UnderWay
<1>5. ASSUME neighbors'[a][b] # None,
             NEW t \in Streams(neighbors'[a][b].streams), t.key = p.key,
             NEW n \in Nat, p.nonce \in {n * 2, n * 2 + 1}
      PROVE  Used(t, n)
  <2>1. Follows(a, b, t)
    BY <1>1, <1>5 DEF StreamsFollow
  <2>2. /\ neighbors[a][b] # None
        /\ \E s \in Streams(neighbors[a][b].streams) :
             s.key = t.key /\ \A k \in Nat : Used(s, k) => Used(t, k)
    BY <1>2, <1>3, <1>5, <2>1 DEF Follows
  <2> QED BY <1>3, <1>5, <2>2
<1> QED BY <1>4, <1>5 DEF Spent

\* A step that sends no content packet and executes no program.
LEMMA ExecKept ==
  ASSUME IInv, ExecInv, StreamsFollow, OnlySeedsSent,
         UNCHANGED <<sent, tasks>>,
         calls' \in [initiate : Nat, send : Nat, restart : Nat], calls'.send >= calls.send,
         \A q \in network' \ network : q.kind = "initiation"
  PROVE  ExecInv'
<1>1. ASSUME NEW p \in sent
      PROVE  SentShape(p)' /\ (Spent(p) => Spent(p)')
  <2>1. SentShape(p) /\ calls \in [initiate : Nat, send : Nat, restart : Nat]
    BY DEF ExecInv
  <2>2. p.message.uid \in Nat
    BY <2>1 DEF SentShape, Messages
  <2>3. p.message.uid < calls'.send
    BY <2>1, <2>2 DEF SentShape
  <2> QED BY <2>1, <2>3, SpentStays DEF SentShape
<1>2. \A p \in network' : p.kind # "initiation" => p \in sent'
  BY DEF ExecInv
<1>3. \A t \in tasks' : \E p \in sent' : ComesFrom(t, p) /\ Spent(p)'
  BY <1>1 DEF ExecInv
<1> QED BY <1>1, <1>2, <1>3 DEF ExecInv

MadeForMessage(p, uid) ==
  /\ p.kind = "content" /\ p.to = p.message.to
  /\ p.message \in Messages /\ p.message.uid = uid
  /\ \E n \in Nat : LabelledAs(p, p.message.source, p.message.to, n)

\* The packet that send_to makes.
LEMMA SentPacket ==
  ASSUME IInv, ExecInv, NEW a \in Agents, NEW b \in Agents, NEW payload \in Payloads,
         neighbors[a][b] # None, StreamReady(neighbors[a][b].streams),
         calls.send < MaxSends,
         NEW c, c = neighbors[a][b].streams,
         NEW p, p = ContentPacket(a, neighbors[a][b].address, c[OutgoingSlot(c)],
                                  payload, calls.send)
  PROVE  MadeForMessage(p, calls.send)
<1>1. PICK owner \in Owners : Agrees(owner)
  BY DEF IInv
<1>2. neighbors[a][b].address = b /\ Fits(owner, seeds, a, b, c)
  BY <1>1 DEF Agrees, ClustersFit
<1>3. PICK s : s = c[OutgoingSlot(c)]
  OBVIOUS
<1>4. s \in Streams(c)
  <2>1. seeds \in Nat
    BY <1>1 DEF Agrees, Shaped
  <2> QED BY <1>2, <1>3, <2>1, SendFits
<1>5. s \in AnyStream /\ s.neighbor_is_lexico_later = (b > a)
  BY <1>2, <1>4, StreamFits
<1>6. /\ p.kind = "content" /\ p.to = b
      /\ p.message = [source |-> a, to |-> b, uid |-> calls.send, payload |-> payload]
      /\ p.identifier = Identifier(s, "Outgoing", s.outgoing_message_index)
      /\ p.key = s.key /\ p.nonce = OutgoingNonce(s)
  BY <1>2, <1>3 DEF ContentPacket
<1>7. p.message \in Messages
  <2>1. calls.send \in Nat
    BY DEF ExecInv
  <2>2. calls.send \in 0 .. MaxSends
    BY <2>1, AgentAssumption
  <2> QED BY <1>6, <2>2 DEF Messages
<1>8. LabelledAs(p, a, b, s.outgoing_message_index)
  <2>1. p.nonce = s.outgoing_message_index * 2 + Parity(a, b)
    BY <1>5, <1>6 DEF OutgoingNonce, Parity
  <2>2. (("Outgoing" = "Incoming") = s.neighbor_is_lexico_later) = ~ (b > a)
    BY <1>5
  <2>3. p.identifier = Keystream(p.key, ~ (b > a), s.outgoing_message_index)
    BY <1>6, <2>2 DEF Identifier
  <2> QED BY <2>1, <2>3 DEF LabelledAs
<1>9. s.outgoing_message_index \in Nat
  BY <1>5 DEF AnyStream
<1>10. \E n \in Nat : LabelledAs(p, p.message.source, p.message.to, n)
  BY <1>6, <1>8, <1>9
<1>11. p.to = p.message.to /\ p.message.uid = calls.send
  BY <1>6
<1> QED BY <1>6, <1>7, <1>10, <1>11 DEF MadeForMessage

LEMMA ExecSend ==
  ASSUME IInv, Base, ExecInv,
         NEW a \in Agents, NEW b \in Agents, NEW payload \in Payloads, SendTo(a, b, payload)
  PROVE  ExecInv'
<1> PICK c, p :
      /\ c = neighbors[a][b].streams
      /\ p = ContentPacket(a, neighbors[a][b].address, c[OutgoingSlot(c)],
                           payload, calls.send)
  OBVIOUS
<1>1. /\ neighbors[a][b] # None /\ StreamReady(c) /\ calls.send < MaxSends
      /\ calls' = [calls EXCEPT !.send = @ + 1]
      /\ UNCHANGED tasks
      /\ \/ UNCHANGED <<network, sent>>
         \/ network' = network \cup {p} /\ sent' = sent \cup {p}
  BY DEF SendTo
<1>2. calls \in [initiate : Nat, send : Nat, restart : Nat]
  BY DEF ExecInv
<1>3. calls' \in [initiate : Nat, send : Nat, restart : Nat] /\ calls'.send = calls.send + 1
  BY <1>1, <1>2
<1>4. /\ p.kind = "content" /\ p.to = p.message.to
      /\ p.message \in Messages /\ p.message.uid = calls.send
      /\ \E n \in Nat : LabelledAs(p, p.message.source, p.message.to, n)
  <2>1. MadeForMessage(p, calls.send)
    BY <1>1, SentPacket
  <2> QED BY <2>1 DEF MadeForMessage
<1>5. StreamsFollow
  BY SendFollows
<1>6. OnlySeedsSent
  BY <1>1, <1>4 DEF OnlySeedsSent
<1>7. ASSUME NEW q \in sent
      PROVE  /\ SentShape(q)' /\ (Spent(q) => Spent(q)')
             /\ q.message.uid < calls.send
  <2>1. SentShape(q)
    BY DEF ExecInv
  <2>2. q.message.uid \in Nat /\ calls.send \in Nat
    BY <1>2, <2>1 DEF SentShape, Messages
  <2>3. q.message.uid < calls.send /\ q.message.uid < calls'.send
    BY <1>3, <2>1, <2>2 DEF SentShape
  <2> QED BY <1>5, <1>6, <2>1, <2>3, SpentStays DEF SentShape
<1>8. SentShape(p)'
  <2>1. p.message.uid < calls'.send
    <3>1. p.message.uid = calls.send
      BY <1>4
    <3>2. calls.send \in Nat /\ calls'.send = calls.send + 1
      BY <1>2, <1>3
    <3>3. calls.send < calls'.send
      BY <3>2
    <3> QED BY <3>1, <3>3
  <2>2. (\E n \in Nat : LabelledAs(p, p.message.source, p.message.to, n))'
    BY <1>4
  <2> QED BY <1>4, <2>1, <2>2 DEF SentShape
<1>9. sent \subseteq sent' /\ sent' \subseteq sent \cup {p}
  BY <1>1
<1>10. \A q \in sent' : SentShape(q)'
  BY <1>7, <1>8, <1>9
<1>11. \A q \in network' : q.kind # "initiation" => q \in sent'
  BY <1>1 DEF ExecInv
<1>12. \A q, r \in sent' : q.message.uid = r.message.uid => q = r
  <2>1. \A q, r \in sent : q.message.uid = r.message.uid => q = r
    BY DEF ExecInv
  <2>2. \A q \in sent : q.message.uid # p.message.uid
    <3>1. calls.send \in Nat
      BY <1>2
    <3>2. ASSUME NEW q \in sent
          PROVE  q.message.uid # p.message.uid
      <4>1. q.message.uid < calls.send
        BY <1>7
      <4>2. ~ (calls.send < calls.send)
        BY <3>1
      <4> QED BY <1>4, <4>1, <4>2
    <3> QED BY <3>2
  <2> QED BY <1>9, <2>1, <2>2
<1>13. \A t \in tasks' : \E q \in sent' : ComesFrom(t, q) /\ Spent(q)'
  <2> SUFFICES ASSUME NEW t \in tasks
               PROVE  \E q \in sent' : ComesFrom(t, q) /\ Spent(q)'
    BY <1>1
  <2>1. PICK q \in sent : ComesFrom(t, q) /\ Spent(q)
    BY DEF ExecInv
  <2> QED BY <1>7, <1>9, <2>1
<1> QED BY <1>3, <1>10, <1>11, <1>12, <1>13 DEF ExecInv

\* A packet that is taken was sent to the agent that takes it, by the one it
\* is taken for, and is not spent yet; afterwards it is.
LEMMA TakenOnce ==
  ASSUME IInv, Base, AllKeyedApart, TableInv, ExecInv,
         NEW p \in network, p.kind # "initiation",
         NEW e \in Match(p.to, p), Execute(p.to, p, e), network' \subseteq network
  PROVE  /\ p \in sent
         /\ p.message.to = p.to /\ p.message.source = e.stream_with
         /\ ~ Spent(p)
         /\ Spent(p)'
<1> PICK a, b, c, d, n :
      /\ a = p.to
      /\ b = e.stream_with
      /\ c = neighbors[a][b].streams
      /\ d = GotIncomingPacket(c, e)
      /\ n = e.packet_number
  OBVIOUS
<1>1. p \in sent /\ p.message.to = a
  BY DEF ExecInv, SentShape
<1>2. a \in Agents
  BY DEF Base, PacketShape
<1>3. b \in Agents /\ neighbors[a][b] # None /\ Lists(upcoming[a], e, p.identifier)
  BY <1>2, MatchIsListed
<1>4. PICK i \in SlotNames : TakenFor(c, i, e, p, b)
  BY <1>2, MatchTaken
<1>5. /\ c[i] # None /\ n \in Nat /\ Awaits(c[i], n)
      /\ p.key = c[i].key /\ p.nonce = IncomingNonce(c[i], n)
      /\ e.stream_key = p.key
  BY <1>4 DEF TakenFor, Decrypts, ExpectedPacket
<1>6. SlotsShape(c) /\ KeysApart(c)
  BY <1>2, <1>3 DEF AllKeyedApart, KeyedApart
<1>7. /\ c[i] \in AnyStream
      /\ d[i] = Advanced(c[i], n)
      /\ \A j \in SlotNames \ {i} : d[j] = c[j]
  BY <1>4, <1>6, TakenMoves
<1>8. c[i] \in Streams(c)
  BY <1>5, SlotsHoldStreams
<1>9. p.message.source = b
  BY <1>1, <1>3, <1>5, <1>8, SentNames
<1>10. p.nonce \in {n * 2, n * 2 + 1}
  BY <1>5 DEF IncomingNonce
<1>11. ~ Spent(p)
  BY <1>1, <1>3, <1>5, <1>8, <1>9, <1>10 DEF Spent, Used
<1>12. ASSUME NEW q \in network', UnderWay(q, a, b)
       PROVE  q.key_material \notin p.key
  BY <1>2, <1>3, <1>5, <1>12 DEF TableInv, ListedKeysKnown
<1>13. neighbors'[a][b].streams = d
  BY <1>2, <1>3 DEF Execute, Base, Shaped, NeighborShape
<1>14. ASSUME NEW t \in Streams(d), t.key = p.key, NEW k \in Nat,
              p.nonce \in {k * 2, k * 2 + 1}
       PROVE  Used(t, k)
  <2>1. PICK j \in SlotNames : t # None /\ t = d[j]
    BY SlotsHoldStreams
  <2>2. j = i
    <3> SUFFICES ASSUME j # i
                 PROVE  FALSE
      OBVIOUS
    <3>1. t = c[j]
      BY <1>7, <2>1
    <3>2. c[j] # None /\ c[j].key = c[i].key
      BY <1>5, <1>14, <2>1, <3>1
    <3> QED BY <1>5, <1>6, <2>1, <3>2 DEF KeysApart
  <2>3. k = n
    BY <1>5, <1>10, <1>14
  <2>4. Used(Advanced(c[i], n), n)
    BY <1>5, <1>7, TakenIsUsed
  <2> QED BY <1>7, <2>1, <2>2, <2>3, <2>4
<1>15. Spent(p)'
  BY <1>1, <1>9, <1>12, <1>13, <1>14 DEF Spent
<1> QED BY <1>1, <1>9, <1>11, <1>15

LEMMA ExecExecute ==
  ASSUME IInv, Base, AllKeyedApart, TableInv, ExecInv,
         NEW p \in network, p.kind # "initiation",
         NEW e \in Match(p.to, p), Execute(p.to, p, e), network' \subseteq network,
         UNCHANGED <<sent, calls>>
  PROVE  ExecInv'
<1> PICK t : t = [requestor |-> e.stream_with, agent |-> p.to, message |-> p.message]
  OBVIOUS
<1>1. tasks' \subseteq tasks \cup {t}
  BY DEF Execute
<1>2. p \in sent /\ ComesFrom(t, p) /\ Spent(p)'
  BY TakenOnce DEF ComesFrom
<1>3. \A q \in sent : Spent(q) => Spent(q)'
  <2>1. StreamsFollow
    BY ExecuteFollows DEF Base, PacketShape
  <2>2. OnlySeedsSent
    BY DEF OnlySeedsSent
  <2> QED BY <2>1, <2>2, SpentStays
<1>4. \A q \in sent : SentShape(q)'
  BY DEF ExecInv, SentShape
<1>5. \A q \in tasks' : \E r \in sent' : ComesFrom(q, r) /\ Spent(r)'
  <2> SUFFICES ASSUME NEW q \in tasks'
               PROVE  \E r \in sent : ComesFrom(q, r) /\ Spent(r)'
    OBVIOUS
  <2>1. CASE q = t
    BY <1>2, <2>1
  <2>2. CASE q \in tasks
    BY <1>3, <2>2 DEF ExecInv
  <2> QED BY <1>1, <2>1, <2>2
<1>6. \A q \in network' : q.kind # "initiation" => q \in sent'
  BY DEF ExecInv
<1> QED BY <1>4, <1>5, <1>6 DEF ExecInv


LEMMA ExecInitiation ==
  ASSUME IInv, Base, ExecInv, NEW p \in network, p.kind = "initiation", HandlePacket(p)
  PROVE  ExecInv'
<1>1. calls \in [initiate : Nat, send : Nat, restart : Nat]
  BY DEF ExecInv
<1>2. CASE HandleInitiationKnown(p.to, p)
  <2>1. network' \subseteq network /\ UNCHANGED <<sent, tasks, calls>>
    BY <1>2 DEF HandleInitiationKnown, Handled
  <2>2. OnlySeedsSent /\ \A q \in network' \ network : q.kind = "initiation"
    BY <2>1 DEF OnlySeedsSent
  <2> QED BY <1>1, <1>2, <2>1, <2>2, KnownFollows, ExecKept
<1>3. CASE HandleInitiationUnknown(p.to, p)
  <2>1. /\ network' = Handled(p) \cup {InitiationPacket(p.to, p.source, seeds)}
        /\ UNCHANGED <<sent, tasks, calls>>
    BY <1>3 DEF HandleInitiationUnknown
  <2>2. OnlySeedsSent /\ \A q \in network' \ network : q.kind = "initiation"
    BY <2>1 DEF OnlySeedsSent, Handled, InitiationPacket
  <2> QED BY <1>1, <1>3, <2>1, <2>2, UnknownFollows, ExecKept
<1> QED BY <1>2, <1>3 DEF HandlePacket

LEMMA ExecContent ==
  ASSUME IInv, Base, AllKeyedApart, TableInv, ExecInv,
         NEW p \in network, p.kind # "initiation", HandlePacket(p)
  PROVE  ExecInv'
<1>1. CASE HandleUnrecognized(p.to, p)
  <2>1. network' \subseteq network /\ UNCHANGED <<neighbors, sent, tasks, calls>>
    BY <1>1 DEF HandleUnrecognized, Handled
  <2>2. OnlySeedsSent /\ \A q \in network' \ network : q.kind = "initiation"
    BY <2>1 DEF OnlySeedsSent
  <2>3. calls \in [initiate : Nat, send : Nat, restart : Nat]
    BY DEF ExecInv
  <2> QED BY <2>1, <2>2, <2>3, StaysFollow, ExecKept
<1>2. CASE HandleContent(p.to, p)
  <2>1. p.to \in Agents /\ network' \subseteq network /\ UNCHANGED <<sent, calls>>
    BY <1>2 DEF Base, PacketShape, HandleContent, Handled
  <2>2. PICK e \in Match(p.to, p) :
          IF ClusterPanics(neighbors[p.to][e.stream_with].streams, e)
          THEN TRUE ELSE Execute(p.to, p, e)
    BY <1>2 DEF HandleContent
  <2>3. Execute(p.to, p, e)
    BY <2>1, <2>2, MatchTaken
  <2> QED BY <2>1, <2>3, ExecExecute
<1> QED BY <1>1, <1>2 DEF HandlePacket

LEMMA ExecSteps ==
  ASSUME IInv, Base, AllKeyedApart, TableInv, ExecInv, [Next]_vars
  PROVE  ExecInv'
<1>1. calls \in [initiate : Nat, send : Nat, restart : Nat]
  BY DEF ExecInv
<1>2. CASE UNCHANGED vars
  <2>1. UNCHANGED <<neighbors, network, sent, tasks, calls>>
    BY <1>2 DEF vars
  <2>2. OnlySeedsSent /\ \A q \in network' \ network : q.kind = "initiation"
    BY <2>1 DEF OnlySeedsSent
  <2> QED BY <1>1, <2>1, <2>2, StaysFollow, ExecKept
<1>3. ASSUME NEW a \in Initiators, NEW b \in Agents, a # b, InitiateStreamWith(a, b)
      PROVE  ExecInv'
  <2>1. /\ network' = network \cup {InitiationPacket(a, b, seeds)}
        /\ calls' = [calls EXCEPT !.initiate = @ + 1]
        /\ UNCHANGED <<sent, tasks>>
    BY <1>3 DEF InitiateStreamWith
  <2>2. OnlySeedsSent /\ \A q \in network' \ network : q.kind = "initiation"
    BY <2>1 DEF OnlySeedsSent, InitiationPacket
  <2>3. /\ calls' \in [initiate : Nat, send : Nat, restart : Nat]
        /\ calls'.send >= calls.send
    BY <1>1, <2>1
  <2>4. StreamsFollow
    BY <1>3, AgentAssumption, InitiateFollows
  <2> QED BY <2>1, <2>2, <2>3, <2>4, ExecKept
<1>4. ASSUME NEW a \in Agents, Restart(a)
      PROVE  ExecInv'
  <2>1. /\ calls' = [calls EXCEPT !.restart = @ + 1]
        /\ UNCHANGED <<network, sent, tasks>>
    BY <1>4 DEF Restart
  <2>2. OnlySeedsSent /\ \A q \in network' \ network : q.kind = "initiation"
    BY <2>1 DEF OnlySeedsSent
  <2>3. /\ calls' \in [initiate : Nat, send : Nat, restart : Nat]
        /\ calls'.send >= calls.send
    BY <1>1, <2>1
  <2> QED BY <1>4, <2>1, <2>2, <2>3, RestartFollows, ExecKept
<1> QED BY <1>2, <1>3, <1>4, ExecInitiation, ExecContent, ExecSend DEF Next

LEMMA ExecInitially ==
  ASSUME Init
  PROVE  ExecInv
BY DEF Init, ExecInv

-----------------------------------------------------------------------------
(* The theorems.                                                           *)

LEMMA Initially ==
  ASSUME Init
  PROVE  IInv
<1> DEFINE owner == [x \in Nat |-> <<0, 0>>]
<1>1. owner \in Owners
  BY DEF Owners
<1>2. Agrees(owner)
  BY DEF Init, Agrees, Shaped, ClustersFit, InitiationsAreNews, SentIsCounted,
         NonceUsedOnce
<1> QED BY <1>1, <1>2 DEF IInv

LEMMA Steps ==
  ASSUME IInv, ~ DuplicateInitiation, [Next]_vars
  PROVE  IInv'
<1>1. CASE UNCHANGED vars
  BY <1>1, LeavesNeighbors DEF vars
<1>2. ASSUME NEW p \in network, HandlePacket(p)
      PROVE  IInv'
  <2>1. CASE p.kind = "initiation"
    BY <1>2, <2>1, KnownStep, UnknownStep DEF HandlePacket
  <2>2. CASE p.kind # "initiation"
    <3>1. CASE HandleUnrecognized(p.to, p)
      BY <3>1, LeavesNeighbors DEF HandleUnrecognized, Handled
    <3>2. CASE HandleContent(p.to, p)
      BY <3>2, ContentStep
    <3> QED BY <1>2, <2>2, <3>1, <3>2 DEF HandlePacket
  <2> QED BY <2>1, <2>2
<1> QED BY <1>1, <1>2, InitiateStep, SendStep, RestartStep DEF Next

LEMMA Invariance ==
  ASSUME ~ DuplicateInitiation
  PROVE  Spec => []IInv
BY Initially, Steps, PTL DEF Spec

LEMMA TableInvariance ==
  ASSUME ~ DuplicateInitiation
  PROVE  Spec => [](AllKeyedApart /\ TableInv)
BY Invariance, BaseInvariance, EntriesApart, TableInitially, TableSteps, PTL DEF Spec

\* As long as the network repeats no initiation packet, no agent seals two
\* packets under one key and nonce: not when streams are set up anew, when
\* both ends start at once, when an agent restarts, or when a payload that
\* prepare refuses has already taken its number.
THEOREM NonceNeverReused ==
  ASSUME ~ DuplicateInitiation
  PROVE  Spec => []NonceUsedOnce
<1>1. IInv => NonceUsedOnce
  BY DEF IInv, Agrees
<1> QED BY <1>1, Invariance, PTL

\* Whatever the network does, and even if it repeats initiation packets:
\* each expected packet is expected from a neighbor that is still there, so
\* the InternalError of handle_contentful_packet is out of reach.
THEOREM ExpectedStays == Spec => []ExpectedNamesNeighbor
<1>1. ASSUME Base
      PROVE  ExpectedNamesNeighbor
  <2> SUFFICES ASSUME NEW a \in Agents, NEW i \in DOMAIN upcoming[a],
                      NEW e \in ToSet(upcoming[a][i])
               PROVE  e.stream_with # a /\ neighbors[a][e.stream_with] # None
    BY DEF ExpectedNamesNeighbor
  <2>1. Lists(upcoming[a], e, i)
    BY DEF ToSet, Lists, Candidates
  <2> QED BY <1>1, <2>1 DEF Base, ListedAreKept
<1> QED BY <1>1, BaseInvariance, PTL

\* As long as no initiation packet is repeated: no packet reaches a window
\* that did not announce it, at any agent, whatever identifiers collide and
\* whenever agents restart, so the panic of got_incoming_packet is out of
\* reach.
THEOREM NeverAhead ==
  ASSUME ~ DuplicateInitiation
  PROVE  Spec => []NeverAheadOfWindow
<1>1. TableInv => NeverAheadOfWindow
  BY DEF TableInv, NeverAheadOfWindow
<1> QED BY <1>1, TableInvariance, PTL

\* What a step that hands over a program does to the channel.
LEMMA ExecutionDelivers ==
  ASSUME IInv, Base, AllKeyedApart, TableInv, ExecInv,
         NEW p \in network, p.kind # "initiation",
         NEW e \in Match(p.to, p), Execute(p.to, p, e), network' \subseteq network,
         UNCHANGED sent
  PROVE  [Channel!Next]_Channel!vars
<1>1. CASE p.message.payload = "oversized"
  <2>1. UNCHANGED <<sent, tasks, executions>>
    BY <1>1 DEF Execute
  <2> QED BY <2>1 DEF Channel!vars
<1>2. CASE p.message.payload # "oversized"
  <2> PICK m, t : m = p.message
               /\ t = [requestor |-> e.stream_with, agent |-> p.to, message |-> m]
    OBVIOUS
  <2>1. /\ tasks' = tasks \cup {t}
        /\ executions' = executions + 1
    BY <1>2 DEF Execute
  <2>2. /\ p \in sent /\ m.to = p.to /\ m.source = e.stream_with
        /\ ~ Spent(p)
    BY TakenOnce
  <2>3. m \in Messages
    BY <2>2 DEF ExecInv, SentShape
  <2>4. m = [source |-> t.requestor, to |-> t.agent,
             uid |-> t.message.uid, payload |-> t.message.payload]
    BY <2>2, <2>3 DEF Messages
  <2>5. ASSUME NEW q \in tasks
        PROVE  q.message.uid # m.uid
    <3>1. PICK r \in sent : ComesFrom(q, r) /\ Spent(r)
      BY DEF ExecInv
    <3>2. q.message = r.message
      BY <3>1 DEF ComesFrom
    <3> QED BY <2>2, <3>1, <3>2 DEF ExecInv
  <2>6. m \notin {[source |-> q.requestor, to |-> q.agent,
                   uid |-> q.message.uid, payload |-> q.message.payload] : q \in tasks}
    BY <2>5
  <2>7. m \in {q.message : q \in sent}
    BY <2>2
  <2>8. {[source |-> q.requestor, to |-> q.agent,
          uid |-> q.message.uid, payload |-> q.message.payload] : q \in tasks'}
        = {[source |-> q.requestor, to |-> q.agent,
            uid |-> q.message.uid, payload |-> q.message.payload] : q \in tasks} \cup {m}
    BY <2>1, <2>4
  <2>9. Channel!Deliver(m)
    BY <2>1, <2>6, <2>7, <2>8 DEF Channel!Deliver
  <2> QED BY <2>3, <2>9 DEF Channel!Next, Messages
<1> QED BY <1>1, <1>2

\* What a call of send_to does to the channel.
LEMMA SendingSends ==
  ASSUME IInv, Base, ExecInv,
         NEW a \in Agents, NEW b \in Agents, NEW payload \in Payloads, SendTo(a, b, payload)
  PROVE  [Channel!Next]_Channel!vars
<1> PICK c, p :
      /\ c = neighbors[a][b].streams
      /\ p = ContentPacket(a, neighbors[a][b].address, c[OutgoingSlot(c)],
                           payload, calls.send)
  OBVIOUS
<1>1. /\ neighbors[a][b] # None /\ StreamReady(c) /\ calls.send < MaxSends
      /\ UNCHANGED <<tasks, executions>>
      /\ sent' = sent \/ sent' = sent \cup {p}
  BY DEF SendTo
<1>2. p.message \in Messages /\ p.message.uid = calls.send
  <2>1. MadeForMessage(p, calls.send)
    BY <1>1, SentPacket
  <2> QED BY <2>1 DEF MadeForMessage
<1>3. CASE sent' = sent
  BY <1>1, <1>3 DEF Channel!vars
<1>4. CASE sent' = sent \cup {p}
  <2>1. ASSUME NEW q \in sent
        PROVE  q.message # p.message
    <3>1. q.message.uid < calls.send /\ calls.send \in Nat
      BY DEF ExecInv, SentShape
    <3>2. ~ (calls.send < calls.send)
      BY <3>1
    <3> QED BY <1>2, <3>1, <3>2
  <2>2. p.message \notin {q.message : q \in sent}
    BY <2>1
  <2>3. {q.message : q \in sent'} = {q.message : q \in sent} \cup {p.message}
    BY <1>4
  <2>4. Channel!Send(p.message)
    BY <1>1, <2>2, <2>3 DEF Channel!Send
  <2> QED BY <1>2, <2>4 DEF Channel!Next, Messages
<1> QED BY <1>1, <1>3, <1>4

LEMMA ChannelSteps ==
  ASSUME IInv, Base, AllKeyedApart, TableInv, ExecInv, [Next]_vars
  PROVE  [Channel!Next]_Channel!vars
<1>1. CASE UNCHANGED <<sent, tasks, executions>>
  BY <1>1 DEF Channel!vars
<1>2. ASSUME NEW p \in network, HandlePacket(p)
      PROVE  [Channel!Next]_Channel!vars
  <2>1. CASE p.kind = "initiation"
    BY <1>1, <1>2, <2>1 DEF HandlePacket, HandleInitiationKnown, HandleInitiationUnknown
  <2>2. CASE p.kind # "initiation" /\ HandleUnrecognized(p.to, p)
    BY <1>1, <2>2 DEF HandleUnrecognized
  <2>3. CASE p.kind # "initiation" /\ HandleContent(p.to, p)
    <3>1. p.to \in Agents /\ network' \subseteq network /\ UNCHANGED sent
      BY <2>3 DEF Base, PacketShape, HandleContent, Handled
    <3>2. PICK e \in Match(p.to, p) :
            IF ClusterPanics(neighbors[p.to][e.stream_with].streams, e)
            THEN TRUE ELSE Execute(p.to, p, e)
      BY <2>3 DEF HandleContent
    <3>3. Execute(p.to, p, e)
      BY <3>1, <3>2, MatchTaken
    <3> QED BY <2>3, <3>1, <3>3, ExecutionDelivers
  <2> QED BY <1>2, <2>1, <2>2, <2>3 DEF HandlePacket
<1>3. ASSUME NEW a, NEW b, InitiateStreamWith(a, b)
      PROVE  UNCHANGED <<sent, tasks, executions>>
  BY <1>3 DEF InitiateStreamWith
<1>4. ASSUME NEW a, Restart(a)
      PROVE  UNCHANGED <<sent, tasks, executions>>
  BY <1>4 DEF Restart
<1>5. UNCHANGED vars => UNCHANGED <<sent, tasks, executions>>
  BY DEF vars
<1> QED BY <1>1, <1>2, <1>3, <1>4, <1>5, SendingSends DEF Next

LEMMA ExecInvariance ==
  ASSUME ~ DuplicateInitiation
  PROVE  Spec => []ExecInv
BY Invariance, BaseInvariance, TableInvariance, ExecInitially, ExecSteps, PTL DEF Spec

\* As long as no initiation packet is repeated: the agents together
\* implement the at-most-once channel.  Every program is executed at most
\* once, at the agent it was sent to and in the name of the one that sent
\* it, however content packets are repeated, reordered or lost, identifiers
\* collide, and agents start streams anew or restart.
THEOREM ExecutedOnce ==
  ASSUME ~ DuplicateInitiation
  PROVE  Spec => ExecutedAtMostOnce
<1>1. Init => Channel!Init
  BY DEF Init, Channel!Init
<1> QED BY <1>1, ChannelSteps, Invariance, BaseInvariance, TableInvariance, ExecInvariance,
           PTL DEF Spec, ExecutedAtMostOnce, Channel!Spec

\* A packet that some listed entry of its identifier decrypts is taken.
LEMMA MatchFound ==
  ASSUME Base, NEW a \in Agents, NEW p, NEW e,
         Lists(upcoming[a], e, p.identifier),
         ClusterDecrypts(neighbors[a][e.stream_with].streams, e, p)
  PROVE  Match(a, p) # {}
<1> DEFINE Known(x) == neighbors[a][x.stream_with] # None
           Stops(x) == Known(x) => ClusterDecrypts(neighbors[a][x.stream_with].streams, x, p)
           candidates == Candidates(upcoming[a], p.identifier)
           first == SelectInSeq(candidates, Stops)
           I == {k \in 1 .. Len(candidates) : Stops(candidates[k])}
<1>1. candidates \in Seq(Packets(Agents))
  BY CandidatesListed DEF Base
<1>2. PICK k \in 1 .. Len(candidates) : candidates[k] = e
  <2>1. \E k \in DOMAIN candidates : candidates[k] = e
    BY DEF Lists
  <2> HIDE DEF candidates
  <2> QED BY <1>1, <2>1
<1>3. I # {} /\ I \subseteq Nat
  BY <1>2
<1>4. first \in I
  <2>1. first = IF I # {} THEN Min(I) ELSE 0
    BY DEF SelectInSeq
  <2> HIDE DEF I, first
  <2> QED BY <1>3, <2>1, LeastIsMin
<1>5. first # 0 /\ first \in DOMAIN candidates
  <2>1. I \subseteq DOMAIN candidates /\ 0 \notin I
    <3> HIDE DEF candidates
    <3> QED BY <1>1
  <2> HIDE DEF first, I
  <2> QED BY <1>4, <2>1
<1>6. Lists(upcoming[a], candidates[first], p.identifier)
  <2>1. first \in DOMAIN candidates
    BY <1>5
  <2> HIDE DEF first
  <2> QED BY <2>1 DEF Lists
<1>7. Known(candidates[first])
  <2> HIDE DEF first, candidates
  <2> QED BY <1>6 DEF Base, ListedAreKept
<1>8. candidates[first] \in Match(a, p)
  BY <1>5, <1>7 DEF Match
<1> QED BY <1>8

LEMMA AwaitedMatches ==
  ASSUME IInv, Base, AllKeyedApart, TableInv, ExecInv, NEW p \in sent,
         NEW s \in StreamsWith(p.to, p.message.source),
         s.key = p.key,
         (p.nonce \div 2) - s.incoming_message_mask_start \in s.incoming_message_mask
  PROVE  Match(p.to, p) # {}
<1> PICK a, b, c : a = p.to /\ b = p.message.source /\ c = neighbors[a][b].streams
  OBVIOUS
<1>1. p.message.to = a /\ \E n \in Nat : LabelledAs(p, b, a, n)
  BY DEF ExecInv, SentShape
<1>2. a \in Agents /\ b \in Agents /\ a # b
  BY <1>1, SentNames
<1>3. neighbors[a][b] # None /\ s \in Streams(c)
  BY DEF StreamsWith
<1>4. PICK n \in Nat : LabelledAs(p, b, a, n)
  BY <1>1
<1>5. a \in Nat /\ b \in Nat /\ (a > b) = ~ (b > a)
  BY <1>2, AgentAssumption
<1>6. PICK i \in SlotNames : s # None /\ s = c[i]
  BY <1>3, SlotsHoldStreams
<1>7. KeysApart(c) /\ s.neighbor_is_lexico_later = (b > a)
  BY <1>2, <1>3 DEF AllKeyedApart, KeyedApart
<1>8. p.nonce = n * 2 + Parity(b, a) /\ p.identifier = Keystream(p.key, ~ (a > b), n)
  BY <1>4 DEF LabelledAs
<1>9. p.nonce = IncomingNonce(s, n)
  BY <1>5, <1>7, <1>8 DEF IncomingNonce, Parity
<1>10. p.identifier = Identifier(s, "Incoming", n)
  <2>1. (("Incoming" = "Incoming") = s.neighbor_is_lexico_later) = ~ (a > b)
    BY <1>5, <1>7
  <2> QED BY <1>8, <2>1 DEF Identifier
<1>11. Awaits(s, n)
  <2>1. (n * 2 + Parity(b, a)) \div 2 = n
    BY DEF Parity
  <2> QED BY <1>8, <2>1 DEF Awaits
<1> PICK e : e = ExpectedPacket(s, b, n)
  OBVIOUS
<1>12. e.stream_with = b /\ e.stream_key = s.key /\ e.packet_number = n
  BY DEF ExpectedPacket
<1>13. Lists(upcoming[a], e, p.identifier)
  <2>1. TableMatches(upcoming[a], c, b)
    BY <1>2, <1>3 DEF TableInv
  <2>2. MatchesWindow(upcoming[a], s, b)
    BY <1>6, <2>1 DEF TableMatches
  <2> QED BY <1>10, <1>11, <2>2 DEF MatchesWindow
<1>14. ClusterDecrypts(c, e, p)
  <2>1. Decrypts(c[i], e.packet_number, p)
    BY <1>6, <1>9, <1>12 DEF Decrypts
  <2> QED BY <1>6, <1>7, <1>12, <2>1, SlotDecrypts
<1> QED BY <1>2, <1>12, <1>13, <1>14, MatchFound

\* As long as no initiation packet is repeated: whatever an agent awaits of
\* the packets ever sent to it, it recognizes when it arrives.  Sender and
\* receiver derive label and nonce each from its own end, and the table of
\* expected packets is kept apart from the windows: they agree for good.
THEOREM AwaitedRecognized ==
  ASSUME ~ DuplicateInitiation
  PROVE  Spec => []AwaitedIsRecognized
<1>1. IInv /\ Base /\ AllKeyedApart /\ TableInv /\ ExecInv => AwaitedIsRecognized
  BY AwaitedMatches DEF AwaitedIsRecognized
<1> QED BY <1>1, Invariance, BaseInvariance, TableInvariance, ExecInvariance, PTL
=============================================================================
