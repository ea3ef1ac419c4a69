------------------------- MODULE StreamCluster_proofs -------------------------
(***************************************************************************)
(* What the operations of StreamCluster do to the table of expected        *)
(* packets: the lemmas that the proofs about KeyRotation and Agent share.  *)
(*                                                                         *)
(* The order of a list in the table decides which candidate is tried       *)
(* first, and nothing else: what is proved is which packets are listed     *)
(* under which identifier (Lists), and that none is listed twice           *)
(* (NoRepeats).  The table is filled and emptied by loops, which are       *)
(* recursive functions of the model, so this takes inductions; they are    *)
(* made with the least number for which a claim fails (Least).             *)
(***************************************************************************)
EXTENDS StreamCluster, FiniteSetTheorems, WellFoundedInduction, TLAPS

\* Packet x is listed under identifier i.
Lists(inner, x, i) ==
  \E k \in DOMAIN Candidates(inner, i) : Candidates(inner, i)[k] = x

\* A table of packets from P.
IsTable(inner, P) ==
  /\ inner = [i \in DOMAIN inner |-> inner[i]]
  /\ \A i \in DOMAIN inner : inner[i] \in Seq(P)

NoRepeats(inner) ==
  \A i \in DOMAIN inner : \A j, k \in DOMAIN inner[i] :
    inner[i][j] = inner[i][k] => j = k

-----------------------------------------------------------------------------
(* Numbers.                                                                *)

\* A set of numbers has a least one.
LEMMA Least ==
  ASSUME NEW T, T \subseteq Nat, T # {}
  PROVE  \E n \in T : \A m \in T : n <= m
<1> DEFINE R == {ij \in Nat \X Nat : ij[1] < ij[2]}
<1>1. IsWellFoundedOn(R, Nat)
  BY NatLessThanWellFounded DEF OpToRel
<1>2. \E x \in T : \A y \in T : ~ (<<y, x>> \in R)
  <2> HIDE DEF R
  <2> QED BY <1>1, WFMin
<1>3. PICK x \in T : \A y \in T : ~ (<<y, x>> \in R)
  BY <1>2
<1>4. \A y \in T : x <= y
  <2> TAKE y \in T
  <2>1. x \in Nat /\ y \in Nat
    OBVIOUS
  <2>2. ~ (y < x)
    BY <1>3, <2>1
  <2> QED BY <2>1, <2>2
<1> QED BY <1>4

LEMMA LeastIsMin ==
  ASSUME NEW T, T \subseteq Nat, T # {}
  PROVE  Min(T) \in T /\ \A m \in T : Min(T) <= m
BY Least DEF Min

\* The first place in a list where a packet is.
LEMMA FirstPlace ==
  ASSUME NEW P, NEW list \in Seq(P), NEW x \in ToSet(list)
  PROVE  /\ SelectInSeq(list, LAMBDA y : y = x) \in DOMAIN list
         /\ list[SelectInSeq(list, LAMBDA y : y = x)] = x
<1> DEFINE I == {i \in 1 .. Len(list) : list[i] = x}
<1>1. I # {} /\ I \subseteq Nat
  BY DEF ToSet
<1>2. SelectInSeq(list, LAMBDA y : y = x) = Min(I)
  BY <1>1 DEF SelectInSeq
<1>3. Min(I) \in I
  <2> HIDE DEF I
  <2> QED BY <1>1, LeastIsMin
<1> QED BY <1>2, <1>3

-----------------------------------------------------------------------------
(* One packet.                                                             *)

LEMMA CandidatesListed ==
  ASSUME NEW P, NEW inner, IsTable(inner, P), NEW i
  PROVE  /\ Candidates(inner, i) \in Seq(P)
         /\ \A x : Lists(inner, x, i) => x \in P /\ i \in DOMAIN inner
BY DEF IsTable, Candidates, Lists

LEMMA AddOneLists ==
  ASSUME NEW P, NEW inner, IsTable(inner, P), NEW e, e.packet \in P
  PROVE  /\ IsTable(AddOne(inner, e), P)
         /\ \A x, i : Lists(AddOne(inner, e), x, i) <=>
              Lists(inner, x, i) \/ (x = e.packet /\ i = e.identifier)
         /\ NoRepeats(inner) /\ ~ Lists(inner, e.packet, e.identifier)
              => NoRepeats(AddOne(inner, e))
<1> DEFINE id    == e.identifier
           old   == Candidates(inner, id)
           list  == Append(old, e.packet)
           later == AddOne(inner, e)
<1>1. old \in Seq(P)
  BY CandidatesListed
<1>2. /\ list \in Seq(P)
      /\ DOMAIN list = 1 .. Len(old) + 1
      /\ DOMAIN old = 1 .. Len(old)
      /\ Len(old) \in Nat
      /\ \A k \in DOMAIN old : list[k] = old[k]
      /\ list[Len(old) + 1] = e.packet
  BY <1>1
<1>3. /\ DOMAIN later = DOMAIN inner \cup {id}
      /\ later = [i \in DOMAIN later |-> later[i]]
      /\ later[id] = list
      /\ \A i \in DOMAIN inner : i # id => later[i] = inner[i]
  BY DEF AddOne
<1>4. /\ Candidates(later, id) = list
      /\ \A i : i # id => Candidates(later, i) = Candidates(inner, i)
  BY <1>3 DEF Candidates
<1>5. id \in DOMAIN inner => old = inner[id]
  BY DEF Candidates
<1> HIDE DEF later, list, old, id
<1>6. IsTable(later, P)
  BY <1>2, <1>3 DEF IsTable
<1>7. ASSUME NEW x, NEW i
      PROVE  Lists(later, x, i) <=>
               Lists(inner, x, i) \/ (x = e.packet /\ i = id)
  <2>1. CASE i = id
    <3>1. Lists(later, x, i) <=> \E k \in 1 .. Len(old) + 1 : list[k] = x
      BY <1>2, <1>4, <2>1 DEF Lists
    <3>2. Lists(inner, x, i) <=> \E k \in 1 .. Len(old) : old[k] = x
      BY <1>2, <2>1 DEF Lists, old
    <3> QED BY <1>2, <2>1, <3>1, <3>2
  <2>2. CASE i # id
    BY <1>4, <2>2 DEF Lists
  <2> QED BY <2>1, <2>2
<1>8. ASSUME NoRepeats(inner), ~ Lists(inner, e.packet, id)
      PROVE  NoRepeats(later)
  <2> SUFFICES ASSUME NEW i \in DOMAIN later, NEW j \in DOMAIN later[i],
                      NEW k \in DOMAIN later[i], later[i][j] = later[i][k]
               PROVE  j = k
    BY DEF NoRepeats
  <2>1. CASE i = id
    <3>1. \A l \in DOMAIN old : old[l] # e.packet
      BY <1>8 DEF Lists, old
    <3>2. \A l, m \in DOMAIN old : old[l] = old[m] => l = m
      BY <1>2, <1>5, <1>8 DEF NoRepeats, old, Candidates
    <3> QED BY <1>2, <1>3, <2>1, <3>1, <3>2
  <2>2. CASE i # id
    BY <1>3, <1>8, <2>2 DEF NoRepeats
  <2> QED BY <2>1, <2>2
<1> QED BY <1>6, <1>7, <1>8 DEF later, id

\* What swap_remove leaves of a list.
LEMMA SwapRemoved ==
  ASSUME NEW P, NEW list \in Seq(P), NEW n \in DOMAIN list
  PROVE  /\ SwapRemove(list, n) \in Seq(P)
         /\ Len(SwapRemove(list, n)) = Len(list) - 1
         /\ \A k \in 1 .. Len(list) - 1 :
              SwapRemove(list, n)[k] = IF k = n THEN list[Len(list)] ELSE list[k]
<1> DEFINE swapped == [list EXCEPT ![n] = Last(list)]
<1>1. /\ Len(list) \in Nat /\ Len(list) > 0
      /\ DOMAIN list = 1 .. Len(list)
      /\ Last(list) = list[Len(list)] /\ Last(list) \in P
  BY DEF Last
<1>2. /\ swapped \in Seq(P) /\ Len(swapped) = Len(list)
      /\ \A k \in 1 .. Len(list) : swapped[k] = IF k = n THEN list[Len(list)] ELSE list[k]
  BY <1>1
<1>3. SwapRemove(list, n) = SubSeq(swapped, 1, Len(swapped) - 1)
  BY DEF SwapRemove, Front
<1> HIDE DEF swapped
<1>4. /\ SubSeq(swapped, 1, Len(swapped) - 1) \in Seq(P)
      /\ Len(SubSeq(swapped, 1, Len(swapped) - 1)) = Len(swapped) - 1
      /\ \A k \in 1 .. Len(swapped) - 1 :
           SubSeq(swapped, 1, Len(swapped) - 1)[k] = swapped[k]
  BY <1>1, <1>2
<1> QED BY <1>1, <1>2, <1>3, <1>4

LEMMA FirstRemoved ==
  ASSUME NEW P, NEW list \in Seq(P), NEW x
  PROVE  /\ WithoutFirst(list, x) \in Seq(P)
         /\ ToSet(WithoutFirst(list, x)) \subseteq ToSet(list)
         /\ ToSet(list) \ {x} \subseteq ToSet(WithoutFirst(list, x))
         /\ (\A j, k \in DOMAIN list : list[j] = list[k] => j = k)
              => /\ x \notin ToSet(WithoutFirst(list, x))
                 /\ \A j, k \in DOMAIN WithoutFirst(list, x) :
                      WithoutFirst(list, x)[j] = WithoutFirst(list, x)[k] => j = k
<1>1. CASE x \notin ToSet(list)
  BY <1>1 DEF WithoutFirst
<1>2. CASE x \in ToSet(list)
  <2> DEFINE n     == SelectInSeq(list, LAMBDA y : y = x)
             later == SwapRemove(list, n)
             len   == Len(list)
  <2>1. n \in DOMAIN list /\ list[n] = x
    BY <1>2, FirstPlace
  <2>2. WithoutFirst(list, x) = later
    BY <1>2 DEF WithoutFirst
  <2> HIDE DEF n
  <2>3. /\ later \in Seq(P) /\ Len(later) = len - 1
        /\ \A k \in 1 .. len - 1 : later[k] = IF k = n THEN list[len] ELSE list[k]
    BY <2>1, SwapRemoved
  <2>4. len \in Nat /\ n \in 1 .. len /\ DOMAIN list = 1 .. len
    BY <2>1
  <2> HIDE DEF later, len
  <2>5. DOMAIN later = 1 .. len - 1
    BY <2>3, <2>4
  <2>6. ToSet(later) \subseteq ToSet(list)
    BY <2>3, <2>4, <2>5 DEF ToSet
  <2>7. ASSUME NEW y \in ToSet(list) \ {x}
        PROVE  y \in ToSet(later)
    <3>1. PICK k \in 1 .. len : list[k] = y /\ k # n
      BY <2>1, <2>4 DEF ToSet
    <3>2. CASE k = len
      <4>1. n \in 1 .. len - 1 /\ later[n] = y
        BY <2>3, <2>4, <3>1, <3>2
      <4> QED BY <2>5, <4>1 DEF ToSet
    <3>3. CASE k # len
      <4>1. k \in 1 .. len - 1 /\ later[k] = y
        BY <2>3, <2>4, <3>1, <3>3
      <4> QED BY <2>5, <4>1 DEF ToSet
    <3> QED BY <3>2, <3>3
  <2>8. ASSUME \A j, k \in DOMAIN list : list[j] = list[k] => j = k
        PROVE  /\ x \notin ToSet(later)
               /\ \A j, k \in DOMAIN later : later[j] = later[k] => j = k
    <3>1. \A k \in DOMAIN later : later[k] # x
      BY <2>1, <2>3, <2>4, <2>5, <2>8
    <3>2. \A j, k \in DOMAIN later : later[j] = later[k] => j = k
      BY <2>3, <2>4, <2>5, <2>8
    <3> QED BY <3>1, <3>2 DEF ToSet
  <2> QED BY <2>2, <2>3, <2>6, <2>7, <2>8
<1> QED BY <1>1, <1>2

LEMMA RemoveOneLists ==
  ASSUME NEW P, NEW inner, IsTable(inner, P), NEW e
  PROVE  /\ IsTable(RemoveOne(inner, e), P)
         /\ \A x, i : Lists(RemoveOne(inner, e), x, i) => Lists(inner, x, i)
         /\ \A x, i : Lists(inner, x, i) /\ ~ (x = e.packet /\ i = e.identifier)
                        => Lists(RemoveOne(inner, e), x, i)
         /\ NoRepeats(inner) =>
              /\ NoRepeats(RemoveOne(inner, e))
              /\ ~ Lists(RemoveOne(inner, e), e.packet, e.identifier)
<1> DEFINE id    == e.identifier
           old   == Candidates(inner, id)
           list  == WithoutFirst(old, e.packet)
           later == RemoveOne(inner, e)
<1>1. old \in Seq(P)
  BY CandidatesListed
<1>2. /\ list \in Seq(P)
      /\ ToSet(list) \subseteq ToSet(old)
      /\ ToSet(old) \ {e.packet} \subseteq ToSet(list)
      /\ (\A j, k \in DOMAIN old : old[j] = old[k] => j = k)
           => /\ e.packet \notin ToSet(list)
              /\ \A j, k \in DOMAIN list : list[j] = list[k] => j = k
  <2> HIDE DEF old
  <2> QED BY <1>1, FirstRemoved
<1>3. /\ DOMAIN later = {j \in DOMAIN inner : j = id => list # <<>>}
      /\ later = [i \in DOMAIN later |-> later[i]]
      /\ id \in DOMAIN later => later[id] = list
      /\ \A i \in DOMAIN later : i # id => later[i] = inner[i]
  BY DEF RemoveOne
<1>4. id \notin DOMAIN inner => old = <<>>
  BY DEF Candidates
<1>5. id \in DOMAIN inner => old = inner[id]
  BY DEF Candidates
<1> HIDE DEF later, list, old, id
<1>6. ToSet(<<>>) = {}
  BY DEF ToSet
<1>7. old = <<>> => list = <<>>
  <2>1. old = <<>> => ToSet(list) = {}
    BY <1>2, <1>6
  <2>2. ASSUME list # <<>> PROVE list[1] \in ToSet(list)
    BY <1>2, <2>2 DEF ToSet
  <2> QED BY <2>1, <2>2
<1>8. /\ Candidates(later, id) = list
      /\ \A i : i # id => Candidates(later, i) = Candidates(inner, i)
  BY <1>3, <1>4, <1>5, <1>7 DEF Candidates
<1>9. IsTable(later, P)
  BY <1>2, <1>3 DEF IsTable
<1>10. \A x, i : Lists(inner, x, i) <=> x \in ToSet(Candidates(inner, i))
  BY DEF Lists, ToSet
<1>11. \A x, i : Lists(later, x, i) <=> x \in ToSet(Candidates(later, i))
  BY DEF Lists, ToSet
<1>12. \A x, i : Lists(later, x, i) => Lists(inner, x, i)
  BY <1>2, <1>8, <1>10, <1>11 DEF old
<1>13. \A x, i : Lists(inner, x, i) /\ ~ (x = e.packet /\ i = id)
                   => Lists(later, x, i)
  BY <1>2, <1>8, <1>10, <1>11 DEF old
<1>14. ASSUME NoRepeats(inner)
       PROVE  NoRepeats(later) /\ ~ Lists(later, e.packet, id)
  <2>1. \A j, k \in DOMAIN old : old[j] = old[k] => j = k
    BY <1>4, <1>5, <1>14 DEF NoRepeats
  <2>2. \A j, k \in DOMAIN list : list[j] = list[k] => j = k
    BY <1>2, <2>1
  <2>3. NoRepeats(later)
    BY <1>3, <1>14, <2>2 DEF NoRepeats
  <2>4. ~ Lists(later, e.packet, id)
    BY <1>2, <1>8, <1>11, <2>1
  <2> QED BY <2>3, <2>4
<1> QED BY <1>9, <1>12, <1>13, <1>14 DEF later, id

-----------------------------------------------------------------------------
(* All of a sequence of entries, one after the other.                      *)

\* The tables between the calls of add.
Added(f, inner, entries, n) ==
  f = [k \in 0 .. n |-> IF k = 0 THEN inner ELSE AddOne(f[k - 1], entries[k])]

Removed(f, inner, entries, n) ==
  f = [k \in 0 .. n |-> IF k = 0 THEN inner ELSE RemoveOne(f[k - 1], entries[k])]

LEMMA AddedExists ==
  ASSUME NEW inner, NEW entries
  PROVE  \A n \in Nat : \E f : Added(f, inner, entries, n)
<1> DEFINE T == {n \in Nat : ~ \E f : Added(f, inner, entries, n)}
<1> SUFFICES ASSUME T # {} PROVE FALSE
  OBVIOUS
<1>1. PICK n \in T : \A m \in T : n <= m
  <2>1. T \subseteq Nat
    OBVIOUS
  <2> HIDE DEF T
  <2> QED BY <2>1, Least
<1>2. n # 0
  <2>1. Added([k \in 0 .. 0 |-> inner], inner, entries, 0)
    BY DEF Added
  <2> QED BY <2>1
<1>3. n \in Nat /\ n - 1 \in Nat /\ ~ (n <= n - 1)
  BY <1>2
<1>4. PICK f : Added(f, inner, entries, n - 1)
  BY <1>1, <1>3
<1> DEFINE g == [k \in 0 .. n |-> IF k = n THEN AddOne(f[n - 1], entries[n]) ELSE f[k]]
<1>5. \A k \in 0 .. n - 1 : f[k] = IF k = 0 THEN inner ELSE AddOne(f[k - 1], entries[k])
  BY <1>4 DEF Added
<1>6. \A k \in 0 .. n : g[k] = IF k = 0 THEN inner ELSE AddOne(g[k - 1], entries[k])
  BY <1>2, <1>3, <1>5
<1>7. Added(g, inner, entries, n)
  BY <1>6 DEF Added
<1> QED BY <1>7

LEMMA RemovedExists ==
  ASSUME NEW inner, NEW entries
  PROVE  \A n \in Nat : \E f : Removed(f, inner, entries, n)
<1> DEFINE T == {n \in Nat : ~ \E f : Removed(f, inner, entries, n)}
<1> SUFFICES ASSUME T # {} PROVE FALSE
  OBVIOUS
<1>1. PICK n \in T : \A m \in T : n <= m
  <2>1. T \subseteq Nat
    OBVIOUS
  <2> HIDE DEF T
  <2> QED BY <2>1, Least
<1>2. n # 0
  <2>1. Removed([k \in 0 .. 0 |-> inner], inner, entries, 0)
    BY DEF Removed
  <2> QED BY <2>1
<1>3. n \in Nat /\ n - 1 \in Nat /\ ~ (n <= n - 1)
  BY <1>2
<1>4. PICK f : Removed(f, inner, entries, n - 1)
  BY <1>1, <1>3
<1> DEFINE g == [k \in 0 .. n |-> IF k = n THEN RemoveOne(f[n - 1], entries[n]) ELSE f[k]]
<1>5. \A k \in 0 .. n - 1 : f[k] = IF k = 0 THEN inner ELSE RemoveOne(f[k - 1], entries[k])
  BY <1>4 DEF Removed
<1>6. \A k \in 0 .. n : g[k] = IF k = 0 THEN inner ELSE RemoveOne(g[k - 1], entries[k])
  BY <1>2, <1>3, <1>5
<1>7. Removed(g, inner, entries, n)
  BY <1>6 DEF Removed
<1> QED BY <1>7

\* One of the first n entries is packet x under identifier i.
Names(entries, n, x, i) ==
  \E k \in 1 .. n : entries[k].packet = x /\ entries[k].identifier = i

\* The entries are different from each other.
AllDifferent(entries) ==
  \A j, k \in DOMAIN entries :
    entries[j].packet = entries[k].packet
    /\ entries[j].identifier = entries[k].identifier => j = k

\* A table after it was given the first n entries.
HasAdded(P, inner, entries, n, later) ==
  /\ IsTable(later, P)
  /\ \A x, i : Lists(later, x, i) <=> Lists(inner, x, i) \/ Names(entries, n, x, i)
  /\ NoRepeats(inner) /\ AllDifferent(entries)
     /\ (\A x, i : Names(entries, Len(entries), x, i) => ~ Lists(inner, x, i))
       => NoRepeats(later)

LEMMA AddAllLists ==
  ASSUME NEW P, NEW inner, IsTable(inner, P), NEW E, NEW entries \in Seq(E),
         \A k \in DOMAIN entries : entries[k].packet \in P
  PROVE  HasAdded(P, inner, entries, Len(entries), AddAll(inner, entries))
<1> DEFINE f == CHOOSE g : Added(g, inner, entries, Len(entries))
<1>1. Len(entries) \in Nat /\ DOMAIN entries = 1 .. Len(entries)
  OBVIOUS
<1>2. Added(f, inner, entries, Len(entries))
  BY <1>1, AddedExists
<1>3. AddAll(inner, entries) = f[Len(entries)]
  BY DEF AddAll, Added
<1> HIDE DEF f
<1>4. \A k \in 0 .. Len(entries) :
        f[k] = IF k = 0 THEN inner ELSE AddOne(f[k - 1], entries[k])
  BY <1>2 DEF Added
<1> DEFINE T == {n \in 0 .. Len(entries) : ~ HasAdded(P, inner, entries, n, f[n])}
<1>5. T = {}
  <2> SUFFICES ASSUME T # {} PROVE FALSE
    OBVIOUS
  <2>1. PICK n \in T : \A m \in T : n <= m
    <3>1. T \subseteq Nat
      OBVIOUS
    <3> HIDE DEF T
    <3> QED BY <3>1, Least
  <2>2. n # 0
    <3>1. \A x, i : ~ Names(entries, 0, x, i)
      BY DEF Names
    <3>2. HasAdded(P, inner, entries, 0, inner)
      BY <3>1 DEF HasAdded
    <3> QED BY <1>1, <1>4, <3>2
  <2>3. n \in 1 .. Len(entries) /\ n - 1 \in 0 .. Len(entries) /\ ~ (n <= n - 1)
    BY <1>1, <2>2
  <2>4. HasAdded(P, inner, entries, n - 1, f[n - 1])
    BY <2>1, <2>3
  <2> PICK table, later, e :
        table = f[n - 1] /\ later = f[n] /\ e = entries[n]
    OBVIOUS
  <2>5. later = AddOne(table, e) /\ e.packet \in P
    BY <1>1, <1>4, <2>2, <2>3
  <2>6. IsTable(table, P)
    BY <2>4 DEF HasAdded
  <2>7. /\ IsTable(later, P)
        /\ \A x, i : Lists(later, x, i) <=>
             Lists(table, x, i) \/ (x = e.packet /\ i = e.identifier)
        /\ NoRepeats(table) /\ ~ Lists(table, e.packet, e.identifier)
             => NoRepeats(later)
    BY <2>5, <2>6, AddOneLists
  <2>8. \A x, i : Names(entries, n, x, i) <=>
          Names(entries, n - 1, x, i) \/ (x = e.packet /\ i = e.identifier)
    BY <1>1, <2>3 DEF Names
  <2>9. ASSUME NoRepeats(inner), AllDifferent(entries),
               \A x, i : Names(entries, Len(entries), x, i) => ~ Lists(inner, x, i)
        PROVE  NoRepeats(later)
    <3>1. NoRepeats(table)
      BY <2>4, <2>9 DEF HasAdded
    <3>2. ~ Lists(inner, e.packet, e.identifier)
      BY <1>1, <2>3, <2>9 DEF Names
    <3>3. ~ Names(entries, n - 1, e.packet, e.identifier)
      BY <1>1, <2>3, <2>9 DEF Names, AllDifferent
    <3>4. ~ Lists(table, e.packet, e.identifier)
      BY <2>4, <3>2, <3>3 DEF HasAdded
    <3> QED BY <2>7, <3>1, <3>4
  <2>10. \A x, i : Lists(later, x, i) <=> Lists(inner, x, i) \/ Names(entries, n, x, i)
    BY <2>4, <2>7, <2>8 DEF HasAdded
  <2>11. HasAdded(P, inner, entries, n, later)
    BY <2>7, <2>9, <2>10 DEF HasAdded
  <2> QED BY <2>3, <2>11
<1> QED BY <1>1, <1>3, <1>5

\* A table after the first n entries were taken from it.
HasRemoved(P, inner, entries, n, later) ==
  /\ IsTable(later, P)
  /\ \A x, i : Lists(later, x, i) => Lists(inner, x, i)
  /\ \A x, i : Lists(inner, x, i) /\ ~ Names(entries, n, x, i) => Lists(later, x, i)
  /\ NoRepeats(inner) =>
       /\ NoRepeats(later)
       /\ \A x, i : Names(entries, n, x, i) => ~ Lists(later, x, i)

LEMMA RemoveAllLists ==
  ASSUME NEW P, NEW inner, IsTable(inner, P), NEW E, NEW entries \in Seq(E)
  PROVE  HasRemoved(P, inner, entries, Len(entries), RemoveAll(inner, entries))
<1> DEFINE f == CHOOSE g : Removed(g, inner, entries, Len(entries))
<1>1. Len(entries) \in Nat /\ DOMAIN entries = 1 .. Len(entries)
  OBVIOUS
<1>2. Removed(f, inner, entries, Len(entries))
  BY <1>1, RemovedExists
<1>3. RemoveAll(inner, entries) = f[Len(entries)]
  BY DEF RemoveAll, Removed
<1> HIDE DEF f
<1>4. \A k \in 0 .. Len(entries) :
        f[k] = IF k = 0 THEN inner ELSE RemoveOne(f[k - 1], entries[k])
  BY <1>2 DEF Removed
<1> DEFINE T == {n \in 0 .. Len(entries) : ~ HasRemoved(P, inner, entries, n, f[n])}
<1>5. T = {}
  <2> SUFFICES ASSUME T # {} PROVE FALSE
    OBVIOUS
  <2>1. PICK n \in T : \A m \in T : n <= m
    <3>1. T \subseteq Nat
      OBVIOUS
    <3> HIDE DEF T
    <3> QED BY <3>1, Least
  <2>2. n # 0
    <3>1. \A x, i : ~ Names(entries, 0, x, i)
      BY DEF Names
    <3>2. HasRemoved(P, inner, entries, 0, inner)
      BY <3>1 DEF HasRemoved
    <3> QED BY <1>1, <1>4, <3>2
  <2>3. n \in 1 .. Len(entries) /\ n - 1 \in 0 .. Len(entries) /\ ~ (n <= n - 1)
    BY <1>1, <2>2
  <2>4. HasRemoved(P, inner, entries, n - 1, f[n - 1])
    BY <2>1, <2>3
  <2> PICK table, later, e :
        table = f[n - 1] /\ later = f[n] /\ e = entries[n]
    OBVIOUS
  <2>5. later = RemoveOne(table, e)
    BY <1>1, <1>4, <2>2, <2>3
  <2>6. IsTable(table, P)
    BY <2>4 DEF HasRemoved
  <2>7. /\ IsTable(later, P)
        /\ \A x, i : Lists(later, x, i) => Lists(table, x, i)
        /\ \A x, i : Lists(table, x, i) /\ ~ (x = e.packet /\ i = e.identifier)
                       => Lists(later, x, i)
        /\ NoRepeats(table) =>
             NoRepeats(later) /\ ~ Lists(later, e.packet, e.identifier)
    BY <2>5, <2>6, RemoveOneLists
  <2>8. \A x, i : Names(entries, n, x, i) <=>
          Names(entries, n - 1, x, i) \/ (x = e.packet /\ i = e.identifier)
    BY <1>1, <2>3 DEF Names
  <2>9. /\ \A x, i : Lists(later, x, i) => Lists(inner, x, i)
        /\ \A x, i : Lists(inner, x, i) /\ ~ Names(entries, n, x, i)
                       => Lists(later, x, i)
    BY <2>4, <2>7, <2>8 DEF HasRemoved
  <2>10. ASSUME NoRepeats(inner)
         PROVE  /\ NoRepeats(later)
                /\ \A x, i : Names(entries, n, x, i) => ~ Lists(later, x, i)
    <3>1. /\ NoRepeats(table)
          /\ \A x, i : Names(entries, n - 1, x, i) => ~ Lists(table, x, i)
      BY <2>4, <2>10 DEF HasRemoved
    <3> QED BY <2>7, <2>8, <3>1
  <2>11. HasRemoved(P, inner, entries, n, later)
    BY <2>7, <2>9, <2>10 DEF HasRemoved
  <2> QED BY <2>3, <2>11
<1> QED BY <1>1, <1>3, <1>5

-----------------------------------------------------------------------------
(* The entries of one stream.                                              *)

\* Packets expected from neighbors in W.
Packets(W) == [stream_with : W, stream_key : SUBSET Nat, packet_number : Nat]

Awaits(s, n) == n - s.incoming_message_mask_start \in s.incoming_message_mask

\* What the table lists for a stream is what its window awaits.
MatchesWindow(inner, s, neighbor) ==
  \A n \in Nat : \A i : Lists(inner, ExpectedPacket(s, neighbor, n), i) <=>
    Awaits(s, n) /\ i = Identifier(s, "Incoming", n)

\* Packet x is expected for a stream with this neighbor under this key.
IsFor(x, neighbor, key) == x.stream_with = neighbor /\ x.stream_key = key

\* Two tables list the same packets but for those of one stream.
SameBut(inner, later, neighbor, key) ==
  \A x, i : ~ IsFor(x, neighbor, key) =>
    (Lists(later, x, i) <=> Lists(inner, x, i))

\* Packet x under identifier i is the entry of one of these numbers.
OneOf(s, neighbor, numbers, x, i) ==
  \E n \in numbers : /\ x = ExpectedPacket(s, neighbor, n)
                     /\ i = Identifier(s, "Incoming", n)

\* These entries are those of a stream for a set of numbers, each once.
NamesExactly(entries, s, neighbor, numbers) ==
  /\ \A k \in DOMAIN entries : \E n \in numbers :
       entries[k].packet = ExpectedPacket(s, neighbor, n)
  /\ \A x, i : Names(entries, Len(entries), x, i) <=> OneOf(s, neighbor, numbers, x, i)
  /\ AllDifferent(entries)

AnyEntry(s, neighbor) ==
  {Entry(ExpectedPacket(s, neighbor, n), Identifier(s, "Incoming", n)) : n \in Int}

LEMMA EntriesNamed ==
  ASSUME NEW s, NEW neighbor, NEW a \in Nat, NEW b \in Int, NEW numbers,
         numbers = a .. b
  PROVE  /\ Entries(s, neighbor, numbers) \in Seq(AnyEntry(s, neighbor))
         /\ NamesExactly(Entries(s, neighbor, numbers), s, neighbor, numbers)
<1> DEFINE count == IF b < a THEN 0 ELSE b - a + 1
           At(n) == Entry(ExpectedPacket(s, neighbor, n), Identifier(s, "Incoming", n))
           entries == Entries(s, neighbor, numbers)
<1>1. Cardinality(numbers) = count /\ count \in Nat
  <2>1. Cardinality(a .. b) = IF a > b THEN 0 ELSE b - a + 1
    BY FS_Interval
  <2> QED BY <2>1
<1>2. numbers # {} => Min(numbers) = a
  <2> SUFFICES ASSUME numbers # {} PROVE Min(numbers) = a
    OBVIOUS
  <2>1. numbers \subseteq Nat /\ a \in numbers /\ \A m \in numbers : a <= m
    OBVIOUS
  <2>2. Min(numbers) \in numbers /\ \A m \in numbers : Min(numbers) <= m
    BY <2>1, LeastIsMin
  <2> QED BY <2>1, <2>2
<1>3. entries = [k \in 1 .. count |-> At(Min(numbers) + k - 1)]
  BY <1>1 DEF Entries
<1>4. \A k \in 1 .. count : a + k - 1 \in numbers /\ Min(numbers) + k - 1 = a + k - 1
  <2> TAKE k \in 1 .. count
  <2>1. a + k - 1 \in numbers
    OBVIOUS
  <2> QED BY <1>2, <2>1
<1> HIDE DEF At, entries
<1>5. entries = [k \in 1 .. count |-> At(a + k - 1)]
  BY <1>3, <1>4
<1>6. /\ DOMAIN entries = 1 .. count
      /\ \A k \in 1 .. count : entries[k] = At(a + k - 1)
  BY <1>5
<1>7. \A n \in Int : At(n) \in AnyEntry(s, neighbor)
  BY DEF AnyEntry, At
<1>8. entries \in Seq(AnyEntry(s, neighbor)) /\ Len(entries) = count
  <2>1. \A k \in 1 .. count : At(a + k - 1) \in AnyEntry(s, neighbor)
    BY <1>1, <1>7
  <2> HIDE DEF count
  <2>2. entries \in [1 .. count -> AnyEntry(s, neighbor)]
    BY <1>5, <2>1
  <2> QED BY <1>1, <1>6, <2>2
<1>9. \A n : /\ At(n).packet = ExpectedPacket(s, neighbor, n)
             /\ At(n).identifier = Identifier(s, "Incoming", n)
             /\ ExpectedPacket(s, neighbor, n).packet_number = n
  BY DEF At, Entry, ExpectedPacket
<1>10. \A n \in numbers : \E k \in 1 .. count : entries[k] = At(n)
  <2> TAKE n \in numbers
  <2>1. n - a + 1 \in 1 .. count /\ a + (n - a + 1) - 1 = n
    OBVIOUS
  <2> QED BY <1>6, <2>1
<1> HIDE DEF count
<1>11. \A k \in 1 .. count : \E n \in numbers : entries[k] = At(n)
  BY <1>4, <1>6
<1>12. AllDifferent(entries)
  <2> SUFFICES ASSUME NEW j \in 1 .. count, NEW k \in 1 .. count,
                      entries[j].packet = entries[k].packet
               PROVE  j = k
    BY <1>6 DEF AllDifferent
  <2>1. a + j - 1 = a + k - 1
    BY <1>6, <1>9
  <2> QED BY <1>1, <2>1
<1>13. NamesExactly(entries, s, neighbor, numbers)
  <2>1. \A k \in DOMAIN entries : \E n \in numbers :
          entries[k].packet = ExpectedPacket(s, neighbor, n)
    BY <1>6, <1>9, <1>11
  <2>2. ASSUME NEW x, NEW i
        PROVE  Names(entries, Len(entries), x, i) <=> OneOf(s, neighbor, numbers, x, i)
    <3>1. Names(entries, Len(entries), x, i) <=>
            \E k \in 1 .. count : entries[k].packet = x /\ entries[k].identifier = i
      BY <1>8 DEF Names
    <3> QED BY <1>9, <1>10, <1>11, <3>1 DEF OneOf
  <2> QED BY <1>12, <2>1, <2>2 DEF NamesExactly
<1> QED BY <1>8, <1>13 DEF entries

\* A table that was given the packets of a new stream.
GainedWindow(inner, later, s, neighbor) ==
  /\ \A x, i : Lists(later, x, i) <=> Lists(inner, x, i) \/ OneOf(s, neighbor, Bits, x, i)
  /\ NoRepeats(inner)
     /\ (\A x, i : Lists(inner, x, i) => ~ IsFor(x, neighbor, s.key))
       => NoRepeats(later)

LEMMA ExpectNewLists ==
  ASSUME NEW W, NEW inner, IsTable(inner, Packets(W)), NEW neighbor \in W,
         NEW s, s # None => s.key \in SUBSET Nat
  PROVE  /\ IsTable(ExpectNew(inner, s, neighbor), Packets(W))
         /\ s = None => ExpectNew(inner, s, neighbor) = inner
         /\ s # None => GainedWindow(inner, ExpectNew(inner, s, neighbor), s, neighbor)
<1>1. CASE s = None
  BY <1>1 DEF ExpectNew
<1>2. CASE s # None
  <2> DEFINE entries == Entries(s, neighbor, Bits)
             later == AddAll(inner, entries)
  <2>1. ExpectNew(inner, s, neighbor) = later
    BY <1>2 DEF ExpectNew
  <2>2. 0 \in Nat /\ Window - 1 \in Int /\ Bits = 0 .. Window - 1 /\ Bits \subseteq Nat
    BY WindowAssumption DEF Bits
  <2>3. /\ entries \in Seq(AnyEntry(s, neighbor))
        /\ NamesExactly(entries, s, neighbor, Bits)
    BY <2>2, EntriesNamed
  <2>4. \A n \in Bits : /\ ExpectedPacket(s, neighbor, n) \in Packets(W)
                        /\ IsFor(ExpectedPacket(s, neighbor, n), neighbor, s.key)
    BY <1>2, <2>2 DEF ExpectedPacket, Packets, IsFor
  <2> HIDE DEF entries
  <2>5. HasAdded(Packets(W), inner, entries, Len(entries), later)
    <3>1. \A k \in DOMAIN entries : entries[k].packet \in Packets(W)
      BY <2>3, <2>4 DEF NamesExactly
    <3> QED BY <2>3, <3>1, AddAllLists
  <2> HIDE DEF later
  <2>6. \A x, i : OneOf(s, neighbor, Bits, x, i) => IsFor(x, neighbor, s.key)
    BY <2>4 DEF OneOf
  <2>7. \A x, i : Names(entries, Len(entries), x, i) <=> OneOf(s, neighbor, Bits, x, i)
    BY <2>3 DEF NamesExactly
  <2>8. AllDifferent(entries)
    BY <2>3 DEF NamesExactly
  <2>9. GainedWindow(inner, later, s, neighbor)
    BY <2>5, <2>6, <2>7, <2>8 DEF HasAdded, GainedWindow
  <2>10. IsTable(later, Packets(W))
    BY <2>5 DEF HasAdded
  <2> QED BY <1>2, <2>1, <2>9, <2>10
<1> QED BY <1>1, <1>2

\* The numbers a window announces and abandons are consecutive.
LEMMA MovesByIntervals ==
  ASSUME NEW start \in Nat, NEW mask
  PROVE  /\ \E a \in Nat, b \in Int : Announced(start, mask) = a .. b
         /\ \E a \in Nat, b \in Int : Abandoned(start, mask) = a .. b
<1>1. {} = 1 .. 0
  OBVIOUS
<1>2. start + Window \in Nat /\ start + Window + Batch - 1 \in Int /\ start + Batch - 1 \in Int
  BY WindowAssumption
<1> QED BY <1>1, <1>2 DEF Announced, Abandoned

\* A table after the packets of new numbers were added to it and those of
\* gone numbers removed.
Moved(inner, later, s, neighbor, new, gone) ==
  /\ \A x, i : Lists(later, x, i) =>
       Lists(inner, x, i) \/ OneOf(s, neighbor, new, x, i)
  /\ \A x, i : Lists(inner, x, i) \/ OneOf(s, neighbor, new, x, i) =>
       Lists(later, x, i) \/ OneOf(s, neighbor, gone, x, i)
  /\ NoRepeats(inner)
     /\ (\A x, i : OneOf(s, neighbor, new, x, i) => ~ Lists(inner, x, i))
       => /\ NoRepeats(later)
          /\ \A x, i : OneOf(s, neighbor, gone, x, i) => ~ Lists(later, x, i)

\* The mask of a stream once the bit of packet n is cleared.
MaskWithout(s, n) ==
  Cleared(s.incoming_message_mask_start, s.incoming_message_mask, n)

LEMMA AdvancedLists ==
  ASSUME NEW W, NEW inner, IsTable(inner, Packets(W)), NEW neighbor \in W,
         NEW s \in AnyStream, NEW n \in Nat,
         n >= s.incoming_message_mask_start
  PROVE  /\ IsTable(UpcomingAdvanced(inner, s, neighbor, n), Packets(W))
         /\ Moved(inner, UpcomingAdvanced(inner, s, neighbor, n), s, neighbor,
                  Announced(s.incoming_message_mask_start, MaskWithout(s, n)),
                  Abandoned(s.incoming_message_mask_start, MaskWithout(s, n)))
<1> DEFINE start == s.incoming_message_mask_start
           mask  == MaskWithout(s, n)
           new   == Announced(start, mask)
           gone  == Abandoned(start, mask)
           added == Entries(s, neighbor, new)
           taken == Entries(s, neighbor, gone)
           table == AddAll(inner, added)
           later == UpcomingAdvanced(inner, s, neighbor, n)
<1>1. start \in Nat /\ s.key \in SUBSET Nat
  BY DEF AnyStream
<1>2. later = RemoveAll(table, taken)
  BY <1>1 DEF UpcomingAdvanced, MaskWithout
<1>3. PICK a1 \in Nat, b1 \in Int : new = a1 .. b1
  BY <1>1, MovesByIntervals
<1>4. PICK a2 \in Nat, b2 \in Int : gone = a2 .. b2
  BY <1>1, MovesByIntervals
<1> HIDE DEF start, mask, new, gone, later
<1>5. /\ added \in Seq(AnyEntry(s, neighbor))
      /\ NamesExactly(added, s, neighbor, new)
  BY <1>3, EntriesNamed
<1>6. /\ taken \in Seq(AnyEntry(s, neighbor))
      /\ NamesExactly(taken, s, neighbor, gone)
  BY <1>4, EntriesNamed
<1>7. \A m \in new : ExpectedPacket(s, neighbor, m) \in Packets(W)
  BY <1>1, <1>3 DEF ExpectedPacket, Packets
<1> HIDE DEF added, taken
<1>8. HasAdded(Packets(W), inner, added, Len(added), table)
  <2>1. \A k \in DOMAIN added : added[k].packet \in Packets(W)
    BY <1>5, <1>7 DEF NamesExactly
  <2> QED BY <1>5, <2>1, AddAllLists
<1> HIDE DEF table
<1>9. HasRemoved(Packets(W), table, taken, Len(taken), later)
  <2>1. IsTable(table, Packets(W))
    BY <1>8 DEF HasAdded
  <2> QED BY <1>2, <1>6, <2>1, RemoveAllLists
<1>10. /\ \A x, i : Names(added, Len(added), x, i) <=> OneOf(s, neighbor, new, x, i)
       /\ \A x, i : Names(taken, Len(taken), x, i) <=> OneOf(s, neighbor, gone, x, i)
       /\ AllDifferent(added)
  BY <1>5, <1>6 DEF NamesExactly
<1>11. IsTable(later, Packets(W))
  BY <1>9 DEF HasRemoved
<1>12. Moved(inner, later, s, neighbor, new, gone)
  <2>1. \A x, i : Lists(later, x, i) =>
          Lists(inner, x, i) \/ OneOf(s, neighbor, new, x, i)
    BY <1>8, <1>9, <1>10 DEF HasAdded, HasRemoved
  <2>2. \A x, i : Lists(inner, x, i) \/ OneOf(s, neighbor, new, x, i) =>
          Lists(later, x, i) \/ OneOf(s, neighbor, gone, x, i)
    BY <1>8, <1>9, <1>10 DEF HasAdded, HasRemoved
  <2>3. ASSUME NoRepeats(inner),
               \A x, i : OneOf(s, neighbor, new, x, i) => ~ Lists(inner, x, i)
        PROVE  /\ NoRepeats(later)
               /\ \A x, i : OneOf(s, neighbor, gone, x, i) => ~ Lists(later, x, i)
    <3>1. NoRepeats(table)
      BY <1>8, <1>10, <2>3 DEF HasAdded
    <3> QED BY <1>9, <1>10, <3>1 DEF HasRemoved
  <2> QED BY <2>1, <2>2, <2>3 DEF Moved
<1> QED BY <1>11, <1>12 DEF later, new, gone, mask, start

-----------------------------------------------------------------------------
(* A stream and the table.                                                 *)

\* A table of packets expected from W, each listed once.
Tidy(inner, W) == IsTable(inner, Packets(W)) /\ NoRepeats(inner)

LEMMA StreamIsNotNone ==
  ASSUME NEW s \in AnyStream
  PROVE  s # None
BY NoneAssumption

\* What a window awaits once it has moved.
LEMMA WindowMoves ==
  ASSUME NEW s \in AnyStream, NEW n \in Nat, n >= s.incoming_message_mask_start,
         NEW m \in Nat
  PROVE  Awaits(Advanced(s, n), m) <=>
           /\ \/ m - s.incoming_message_mask_start \in MaskWithout(s, n)
              \/ m \in Announced(s.incoming_message_mask_start, MaskWithout(s, n))
           /\ m \notin Abandoned(s.incoming_message_mask_start, MaskWithout(s, n))
<1> PICK start, mask : /\ start = s.incoming_message_mask_start
                       /\ mask = MaskWithout(s, n)
  OBVIOUS
<1>1. start \in Nat /\ mask \subseteq Bits
  BY DEF AnyStream, MaskWithout, Cleared
<1>2. /\ Advanced(s, n).incoming_message_mask_start = MovedStart(start, mask)
      /\ Advanced(s, n).incoming_message_mask = MovedMask(mask)
  BY <1>1 DEF Advanced, AnyStream, MaskWithout
<1>3. Awaits(Advanced(s, n), m) <=> m - MovedStart(start, mask) \in MovedMask(mask)
  BY <1>2 DEF Awaits
<1>4. CASE MustMove(mask)
  <2>1. MovedStart(start, mask) = start + Batch /\ MovedMask(mask) = Shifted(mask)
    BY <1>4 DEF MovedStart, MovedMask
  <2>2. m \in Announced(start, mask) <=> m >= start + Window /\ m < start + Window + Batch
    BY <1>1, <1>4, WindowAssumption DEF Announced
  <2>3. m \in Abandoned(start, mask) <=> mask # {} /\ m >= start /\ m < start + Batch
    BY <1>1, <1>4, WindowAssumption DEF Abandoned
  <2>4. m - (start + Batch) \in Shifted(mask) <=>
          /\ m >= start + Batch /\ m < start + Batch + Window
          /\ m - start \in mask \/ m >= start + Window
    BY <1>1, WindowAssumption DEF Shifted, Bits
  <2>5. m - start \in mask => m >= start /\ m < start + Window
    BY <1>1, WindowAssumption DEF Bits
  <2> QED BY <1>1, <1>3, <2>1, <2>2, <2>3, <2>4, <2>5, WindowAssumption
<1>5. CASE ~ MustMove(mask)
  BY <1>3, <1>5 DEF MovedStart, MovedMask, Announced, Abandoned
<1> QED BY <1>4, <1>5

\* The key of a stream and the direction of its identifiers stay.
LEMMA AdvancedKeeps ==
  ASSUME NEW s \in AnyStream, NEW n \in Nat
  PROVE  /\ Advanced(s, n) \in AnyStream
         /\ Advanced(s, n).key = s.key
         /\ Advanced(s, n).neighbor_is_lexico_later = s.neighbor_is_lexico_later
<1> DEFINE start == s.incoming_message_mask_start
           mask  == Cleared(start, s.incoming_message_mask, n)
<1>1. MovedStart(start, mask) \in Nat /\ MovedMask(mask) \subseteq Bits
  BY WindowAssumption DEF AnyStream, Cleared, MovedStart, MovedMask, Shifted
<1>2. CASE n < start
  BY <1>2 DEF Advanced
<1>3. CASE ~ n < start
  <2> HIDE DEF mask
  <2>1. Advanced(s, n) = [s EXCEPT !.incoming_message_mask_start = MovedStart(start, mask),
                                   !.incoming_message_mask       = MovedMask(mask)]
    BY <1>3 DEF Advanced, mask
  <2> QED BY <1>1, <2>1 DEF AnyStream
<1> QED BY <1>2, <1>3

\* A packet that is awaited is inside the window.
LEMMA AwaitedInside ==
  ASSUME NEW s \in AnyStream, NEW n \in Nat, Awaits(s, n)
  PROVE  n >= s.incoming_message_mask_start /\ ~ Panics(s, n)
BY WindowAssumption DEF AnyStream, Awaits, Bits, Panics, BeyondWindow, ShiftOverflows

\* A stream whose awaited packets are those the table lists takes one of
\* them: the same holds afterwards, and the entries of other streams stay.
LEMMA StreamMoves ==
  ASSUME NEW W, NEW inner, Tidy(inner, W), NEW neighbor \in W,
         NEW s \in AnyStream, MatchesWindow(inner, s, neighbor),
         NEW n \in Nat, Awaits(s, n),
         NEW later,
         later = RemoveAll(UpcomingAdvanced(inner, s, neighbor, n),
                           <<Entry(ExpectedPacket(s, neighbor, n),
                                   Identifier(s, "Incoming", n))>>)
  PROVE  /\ Tidy(later, W)
         /\ MatchesWindow(later, Advanced(s, n), neighbor)
         /\ SameBut(inner, later, neighbor, s.key)
<1> PICK start, mask, new, gone, moved, entries :
      /\ start = s.incoming_message_mask_start
      /\ mask = MaskWithout(s, n)
      /\ new = Announced(start, mask)
      /\ gone = Abandoned(start, mask)
      /\ moved = UpcomingAdvanced(inner, s, neighbor, n)
      /\ entries = <<Entry(ExpectedPacket(s, neighbor, n), Identifier(s, "Incoming", n))>>
  OBVIOUS
<1> DEFINE Id(m) == Identifier(s, "Incoming", m)
           Packet(m) == ExpectedPacket(s, neighbor, m)
<1>1. start \in Nat /\ n >= start
  BY AwaitedInside DEF AnyStream
<1>2. IsTable(moved, Packets(W)) /\ Moved(inner, moved, s, neighbor, new, gone)
  BY <1>1, AdvancedLists DEF Tidy
<1>3. \A m : m \in new => m >= start + Window
  BY <1>1, WindowAssumption DEF Announced
<1>4. \A m : m \in new \/ m \in gone => m \in Nat
  BY <1>1, WindowAssumption DEF Announced, Abandoned
<1>5. \A x, i : OneOf(s, neighbor, new, x, i) => ~ Lists(inner, x, i)
  <2>1. \A m \in new : ~ Awaits(s, m)
    BY <1>1, <1>3, <1>4, WindowAssumption DEF Awaits, AnyStream, Bits
  <2> QED BY <1>4, <2>1 DEF OneOf, MatchesWindow
<1>6. /\ NoRepeats(moved)
      /\ \A x, i : OneOf(s, neighbor, gone, x, i) => ~ Lists(moved, x, i)
  BY <1>2, <1>5 DEF Moved, Tidy
<1>7. /\ entries \in Seq(AnyEntry(s, neighbor)) /\ Len(entries) = 1
      /\ entries[1].packet = Packet(n) /\ entries[1].identifier = Id(n)
  BY DEF Entry, AnyEntry
<1>8. HasRemoved(Packets(W), moved, entries, 1, later)
  BY <1>2, <1>7, RemoveAllLists
<1>9. \A x, i : Names(entries, 1, x, i) <=> x = Packet(n) /\ i = Id(n)
  BY <1>7 DEF Names
<1>10. Tidy(later, W)
  BY <1>6, <1>8 DEF HasRemoved, Tidy
<1>11. \A x, i : Lists(later, x, i) <=>
                   Lists(moved, x, i) /\ ~ (x = Packet(n) /\ i = Id(n))
  BY <1>6, <1>8, <1>9 DEF HasRemoved
<1>12. \A x, i : Lists(moved, x, i) <=>
                   /\ Lists(inner, x, i) \/ OneOf(s, neighbor, new, x, i)
                   /\ ~ OneOf(s, neighbor, gone, x, i)
  BY <1>2, <1>6 DEF Moved
<1>13. \A m : Packet(m).packet_number = m /\ IsFor(Packet(m), neighbor, s.key)
  BY DEF ExpectedPacket, IsFor
<1>14. SameBut(inner, later, neighbor, s.key)
  <2>1. ASSUME NEW x, ~ IsFor(x, neighbor, s.key), NEW i
        PROVE  ~ OneOf(s, neighbor, new, x, i) /\ ~ OneOf(s, neighbor, gone, x, i)
    BY <1>13, <2>1 DEF OneOf
  <2> QED BY <1>11, <1>12, <1>13, <2>1 DEF SameBut
<1>15. MatchesWindow(later, Advanced(s, n), neighbor)
  <2> PICK t : t = Advanced(s, n)
    OBVIOUS
  <2>1. /\ \A m : ExpectedPacket(t, neighbor, m) = Packet(m)
        /\ \A m : Identifier(t, "Incoming", m) = Id(m)
    BY AdvancedKeeps DEF ExpectedPacket, Identifier
  <2>2. ASSUME NEW m \in Nat
        PROVE  Awaits(t, m) <=> (Awaits(s, m) \/ m \in new) /\ m \notin gone /\ m # n
    <3>1. Awaits(t, m) <=> (m - start \in mask \/ m \in new) /\ m \notin gone
      BY <1>1, WindowMoves
    <3>2. m - start \in mask <=> Awaits(s, m) /\ m # n
      BY <1>1, WindowAssumption, AwaitedInside
        DEF Awaits, MaskWithout, Cleared, BitOf, Panics, ShiftOverflows, AnyStream, Bits
    <3>3. n \notin new
      BY <1>1, <1>3, WindowAssumption DEF Awaits, AnyStream, Bits
    <3> QED BY <3>1, <3>2, <3>3
  <2>3. ASSUME NEW m \in Nat, NEW i
        PROVE  Lists(later, Packet(m), i) <=> Awaits(t, m) /\ i = Id(m)
    <3>1. Lists(inner, Packet(m), i) <=> Awaits(s, m) /\ i = Id(m)
      BY DEF MatchesWindow
    <3>2. /\ OneOf(s, neighbor, new, Packet(m), i) <=> m \in new /\ i = Id(m)
          /\ OneOf(s, neighbor, gone, Packet(m), i) <=> m \in gone /\ i = Id(m)
      BY <1>13 DEF OneOf
    <3>3. Packet(m) = Packet(n) <=> m = n
      BY <1>13
    <3> QED BY <1>11, <1>12, <2>2, <3>1, <3>2, <3>3
  <2> QED BY <2>1, <2>3 DEF MatchesWindow
<1> QED BY <1>10, <1>14, <1>15

\* A new stream whose key the table does not know yet.
LEMMA StreamStarts ==
  ASSUME NEW W, NEW inner, Tidy(inner, W), NEW neighbor \in W,
         NEW s \in AnyStream,
         s.incoming_message_mask_start = 0, s.incoming_message_mask = Bits,
         \A x, i : Lists(inner, x, i) => ~ IsFor(x, neighbor, s.key)
  PROVE  /\ Tidy(ExpectNew(inner, s, neighbor), W)
         /\ MatchesWindow(ExpectNew(inner, s, neighbor), s, neighbor)
         /\ SameBut(inner, ExpectNew(inner, s, neighbor), neighbor, s.key)
<1> PICK later : later = ExpectNew(inner, s, neighbor)
  OBVIOUS
<1>1. IsTable(later, Packets(W)) /\ GainedWindow(inner, later, s, neighbor)
  BY StreamIsNotNone, ExpectNewLists DEF Tidy, AnyStream
<1>2. Tidy(later, W)
  BY <1>1 DEF Tidy, GainedWindow
<1>3. \A n : /\ ExpectedPacket(s, neighbor, n).packet_number = n
             /\ IsFor(ExpectedPacket(s, neighbor, n), neighbor, s.key)
  BY DEF ExpectedPacket, IsFor
<1>4. SameBut(inner, later, neighbor, s.key)
  BY <1>1, <1>3 DEF GainedWindow, SameBut, OneOf
<1>5. MatchesWindow(later, s, neighbor)
  <2> SUFFICES ASSUME NEW n \in Nat, NEW i
               PROVE  Lists(later, ExpectedPacket(s, neighbor, n), i) <=>
                        Awaits(s, n) /\ i = Identifier(s, "Incoming", n)
    BY DEF MatchesWindow
  <2>1. ~ Lists(inner, ExpectedPacket(s, neighbor, n), i)
    BY <1>3
  <2>2. Awaits(s, n) <=> n \in Bits
    BY DEF Awaits
  <2>3. OneOf(s, neighbor, Bits, ExpectedPacket(s, neighbor, n), i) <=>
          n \in Bits /\ i = Identifier(s, "Incoming", n)
    BY <1>3 DEF OneOf
  <2> QED BY <1>1, <2>1, <2>2, <2>3 DEF GainedWindow
<1> QED BY <1>2, <1>4, <1>5

\* What is listed for a stream stays so while other streams change.
LEMMA OthersMatch ==
  ASSUME NEW inner, NEW later, NEW neighbor, NEW key, SameBut(inner, later, neighbor, key),
         NEW s, s.key # key, MatchesWindow(inner, s, neighbor)
  PROVE  MatchesWindow(later, s, neighbor)
<1>1. \A n : ~ IsFor(ExpectedPacket(s, neighbor, n), neighbor, key)
  BY DEF IsFor, ExpectedPacket
<1> QED BY <1>1 DEF SameBut, MatchesWindow

\* A stream just made, or none.
Fresh(s) ==
  s # None =>
    /\ s \in AnyStream
    /\ s.incoming_message_mask_start = 0
    /\ s.incoming_message_mask = Bits

\* No packet of this stream is listed.
Unlisted(inner, s, neighbor) ==
  s # None => \A x, i : Lists(inner, x, i) => ~ IsFor(x, neighbor, s.key)

Matched(inner, s, neighbor) == s # None => MatchesWindow(inner, s, neighbor)

\* Two tables list the same packets but for those of two streams.
SameButTwo(inner, later, neighbor, s, t) ==
  \A x, i :
    \/ s # None /\ IsFor(x, neighbor, s.key)
    \/ t # None /\ IsFor(x, neighbor, t.key)
    \/ Lists(later, x, i) <=> Lists(inner, x, i)

\* A push makes up to two streams.
LEMMA TwoStreamsStart ==
  ASSUME NEW W, NEW inner, Tidy(inner, W), NEW neighbor \in W,
         NEW s, Fresh(s), Unlisted(inner, s, neighbor),
         NEW t, Fresh(t), Unlisted(inner, t, neighbor),
         s # None /\ t # None => s.key # t.key
  PROVE  LET later == ExpectNew(ExpectNew(inner, s, neighbor), t, neighbor)
         IN /\ Tidy(later, W)
            /\ Matched(later, s, neighbor)
            /\ Matched(later, t, neighbor)
            /\ SameButTwo(inner, later, neighbor, s, t)
<1> PICK table, later : /\ table = ExpectNew(inner, s, neighbor)
                        /\ later = ExpectNew(table, t, neighbor)
  OBVIOUS
<1>1. /\ Tidy(table, W)
      /\ Matched(table, s, neighbor)
      /\ s = None => table = inner
      /\ s # None => SameBut(inner, table, neighbor, s.key)
  BY StreamStarts DEF Fresh, Unlisted, Matched, ExpectNew
<1>2. Unlisted(table, t, neighbor)
  BY <1>1 DEF Unlisted, SameBut, IsFor
<1>3. /\ Tidy(later, W)
      /\ Matched(later, t, neighbor)
      /\ t = None => later = table
      /\ t # None => SameBut(table, later, neighbor, t.key)
  BY <1>1, <1>2, StreamStarts DEF Fresh, Unlisted, Matched, ExpectNew
<1>4. Matched(later, s, neighbor)
  BY <1>1, <1>3, OthersMatch DEF Matched
<1>5. SameButTwo(inner, later, neighbor, s, t)
  BY <1>1, <1>3 DEF SameBut, SameButTwo
<1> QED BY <1>3, <1>4, <1>5

\* What is listed for a third stream stays so.
LEMMA ThirdMatches ==
  ASSUME NEW inner, NEW later, NEW neighbor, NEW s, NEW t,
         SameButTwo(inner, later, neighbor, s, t),
         NEW r, Matched(inner, r, neighbor),
         r # None => /\ s # None => s.key # r.key
                     /\ t # None => t.key # r.key
  PROVE  Matched(later, r, neighbor)
<1>1. \A n : IsFor(ExpectedPacket(r, neighbor, n), neighbor, r.key)
  BY DEF IsFor, ExpectedPacket
<1> QED BY <1>1 DEF SameButTwo, Matched, MatchesWindow, IsFor

-----------------------------------------------------------------------------
(* The cluster.                                                            *)

SlotNames ==
  {"own_current_neighbor_current", "own_current_neighbor_previous",
   "own_previous_neighbor_current", "own_previous_neighbor_previous"}

SlotsShape(c) ==
  /\ c = [f \in DOMAIN c |-> c[f]]
  /\ SlotNames \subseteq DOMAIN c
  /\ \A i \in SlotNames : c[i] \in AnyStream \cup {None}

\* No two slots hold streams with one key.
KeysApart(c) ==
  \A i, j \in SlotNames :
    i # j /\ c[i] # None /\ c[j] # None => c[i].key # c[j].key

\* What the table lists for the streams of a cluster is what they await.
TableMatches(inner, c, neighbor) ==
  \A i \in SlotNames : c[i] # None => MatchesWindow(inner, c[i], neighbor)

LEMMA SlotsHoldStreams ==
  ASSUME NEW c
  PROVE  \A s : s \in Streams(c) <=> s # None /\ \E i \in SlotNames : s = c[i]
<1>1. ToSet(Slots(c)) = {c.own_current_neighbor_current,
                         c.own_current_neighbor_previous,
                         c.own_previous_neighbor_current,
                         c.own_previous_neighbor_previous}
  BY DEF ToSet, Slots
<1> QED BY <1>1 DEF Streams, SlotNames

\* An arriving packet moves the one stream that has its key.
LEMMA PacketSlots ==
  ASSUME NEW c, SlotsShape(c), KeysApart(c), NEW i \in SlotNames, c[i] # None,
         NEW p, p.stream_key = c[i].key, p.packet_number \in Nat
  PROVE  /\ SlotsShape(GotIncomingPacket(c, p))
         /\ GotIncomingPacket(c, p)[i] = Advanced(c[i], p.packet_number)
         /\ \A j \in SlotNames : j # i => GotIncomingPacket(c, p)[j] = c[j]
         /\ \A inner : UpcomingMoved(inner, c, p) =
              UpcomingAdvanced(inner, c[i], p.stream_with, p.packet_number)
<1> PICK d : d = GotIncomingPacket(c, p)
  OBVIOUS
<1>1. /\ SlotAfterPacket(c[i], p) = Advanced(c[i], p.packet_number)
      /\ \A inner : UpcomingAfterSlot(inner, c[i], p) =
           UpcomingAdvanced(inner, c[i], p.stream_with, p.packet_number)
  BY DEF SlotAfterPacket, UpcomingAfterSlot
<1>2. ASSUME NEW j \in SlotNames, j # i
      PROVE  /\ SlotAfterPacket(c[j], p) = c[j]
             /\ \A inner : UpcomingAfterSlot(inner, c[j], p) = inner
  <2>1. c[j] = None \/ c[j].key # p.stream_key
    BY <1>2 DEF KeysApart
  <2> QED BY <2>1 DEF SlotAfterPacket, UpcomingAfterSlot
<1>3. /\ DOMAIN d = DOMAIN c
      /\ d = [f \in DOMAIN d |-> d[f]]
      /\ \A j \in SlotNames : d[j] = SlotAfterPacket(c[j], p)
  BY DEF GotIncomingPacket, SlotsShape, SlotNames
<1>4. Advanced(c[i], p.packet_number) \in AnyStream
  BY AdvancedKeeps DEF SlotsShape
<1>5. SlotsShape(d)
  BY <1>1, <1>2, <1>3, <1>4 DEF SlotsShape
<1>6. ASSUME NEW inner
      PROVE  UpcomingMoved(inner, c, p) =
               UpcomingAdvanced(inner, c[i], p.stream_with, p.packet_number)
  <2> DEFINE a == "own_current_neighbor_current"
             b == "own_current_neighbor_previous"
             e == "own_previous_neighbor_current"
             f == "own_previous_neighbor_previous"
  <2>1. UpcomingMoved(inner, c, p) =
          UpcomingAfterSlot(
            UpcomingAfterSlot(
              UpcomingAfterSlot(UpcomingAfterSlot(inner, c[a], p), c[b], p),
              c[e], p),
            c[f], p)
    BY DEF UpcomingMoved
  <2>2. SlotNames = {a, b, e, f}
    BY DEF SlotNames
  <2>3. CASE i = a
    BY <1>1, <1>2, <2>1, <2>2, <2>3
  <2>4. CASE i = b
    BY <1>1, <1>2, <2>1, <2>2, <2>4
  <2>5. CASE i = e
    BY <1>1, <1>2, <2>1, <2>2, <2>5
  <2>6. CASE i = f
    BY <1>1, <1>2, <2>1, <2>2, <2>6
  <2> QED BY <2>2, <2>3, <2>4, <2>5, <2>6
<1> QED BY <1>1, <1>2, <1>3, <1>5, <1>6

LEMMA PacketMoves ==
  ASSUME NEW W, NEW inner, Tidy(inner, W), NEW neighbor \in W,
         NEW c, SlotsShape(c), KeysApart(c), TableMatches(inner, c, neighbor),
         NEW i \in SlotNames, c[i] # None, NEW n \in Nat, Awaits(c[i], n),
         NEW p, p = ExpectedPacket(c[i], neighbor, n),
         NEW id, id = Identifier(c[i], "Incoming", n)
  PROVE  /\ Tidy(UpcomingAfterPacket(inner, c, p, id), W)
         /\ TableMatches(UpcomingAfterPacket(inner, c, p, id),
                         GotIncomingPacket(c, p), neighbor)
         /\ SameBut(inner, UpcomingAfterPacket(inner, c, p, id), neighbor, c[i].key)
<1> PICK later, d : later = UpcomingAfterPacket(inner, c, p, id) /\ d = GotIncomingPacket(c, p)
  OBVIOUS
<1>1. p.stream_key = c[i].key /\ p.packet_number = n /\ p.stream_with = neighbor
  BY DEF ExpectedPacket
<1>2. /\ d[i] = Advanced(c[i], n)
      /\ \A j \in SlotNames : j # i => d[j] = c[j]
      /\ UpcomingMoved(inner, c, p) = UpcomingAdvanced(inner, c[i], neighbor, n)
  BY <1>1, PacketSlots
<1>3. later = RemoveAll(UpcomingAdvanced(inner, c[i], neighbor, n), <<Entry(p, id)>>)
  BY <1>2 DEF UpcomingAfterPacket
<1>4. c[i] \in AnyStream /\ MatchesWindow(inner, c[i], neighbor)
  BY DEF SlotsShape, TableMatches
<1>5. /\ Tidy(later, W)
      /\ MatchesWindow(later, Advanced(c[i], n), neighbor)
      /\ SameBut(inner, later, neighbor, c[i].key)
  BY <1>3, <1>4, StreamMoves
<1>6. ASSUME NEW j \in SlotNames, d[j] # None
      PROVE  MatchesWindow(later, d[j], neighbor)
  <2>1. CASE j = i
    BY <1>2, <1>5, <2>1
  <2>2. CASE j # i
    <3>1. c[j] # None /\ c[j].key # c[i].key /\ MatchesWindow(inner, c[j], neighbor)
      BY <1>2, <1>6, <2>2 DEF KeysApart, TableMatches
    <3>2. MatchesWindow(later, c[j], neighbor)
      BY <1>5, <3>1, OthersMatch
    <3> QED BY <1>2, <2>2, <3>2
  <2> QED BY <2>1, <2>2
<1> QED BY <1>5, <1>6 DEF TableMatches

\* No stream of a cluster the table matches panics over a packet it lists.
LEMMA ListedIsInside ==
  ASSUME NEW W, NEW inner, Tidy(inner, W), NEW neighbor \in W,
         NEW c, SlotsShape(c), TableMatches(inner, c, neighbor),
         NEW p, NEW id, Lists(inner, p, id), p.stream_with = neighbor
  PROVE  /\ ~ ClusterPanics(c, p)
         /\ \A i \in SlotNames : c[i] # None /\ c[i].key = p.stream_key =>
              /\ p = ExpectedPacket(c[i], neighbor, p.packet_number)
              /\ p.packet_number \in Nat
              /\ Awaits(c[i], p.packet_number)
              /\ id = Identifier(c[i], "Incoming", p.packet_number)
<1>1. p \in Packets(W)
  BY CandidatesListed DEF Tidy
<1>2. ASSUME NEW i \in SlotNames, c[i] # None, c[i].key = p.stream_key
      PROVE  /\ p = ExpectedPacket(c[i], neighbor, p.packet_number)
             /\ p.packet_number \in Nat
             /\ Awaits(c[i], p.packet_number)
             /\ id = Identifier(c[i], "Incoming", p.packet_number)
             /\ ~ Panics(c[i], p.packet_number)
  <2>1. p = ExpectedPacket(c[i], neighbor, p.packet_number) /\ p.packet_number \in Nat
    BY <1>1, <1>2 DEF ExpectedPacket, Packets
  <2>2. MatchesWindow(inner, c[i], neighbor) /\ c[i] \in AnyStream
    BY <1>2 DEF TableMatches, SlotsShape
  <2>3. Awaits(c[i], p.packet_number) /\ id = Identifier(c[i], "Incoming", p.packet_number)
    BY <2>1, <2>2 DEF MatchesWindow
  <2> QED BY <2>1, <2>2, <2>3, AwaitedInside
<1>3. ~ ClusterPanics(c, p)
  BY <1>2, SlotsHoldStreams DEF ClusterPanics, WithKey
<1> QED BY <1>2, <1>3

\* A candidate that decrypts belongs to some slot.
LEMMA DecryptedHasSlot ==
  ASSUME NEW c, NEW p, NEW packet, ClusterDecrypts(c, p, packet)
  PROVE  \E i \in SlotNames : /\ c[i] # None
                              /\ c[i].key = p.stream_key
                              /\ Decrypts(c[i], p.packet_number, packet)
<1> DEFINE I == {k \in 1 .. Len(Slots(c)) : Slots(c)[k] # None /\ Slots(c)[k].key = p.stream_key}
           first == SelectInSeq(Slots(c), LAMBDA s : s # None /\ s.key = p.stream_key)
<1>1. first = IF I # {} THEN Min(I) ELSE 0
  BY DEF SelectInSeq
<1>2. first # 0 /\ Decrypts(Slots(c)[first], p.packet_number, packet)
  BY DEF ClusterDecrypts
<1>3. I # {} /\ I \subseteq Nat
  BY <1>1, <1>2
<1>4. first \in I
  <2> HIDE DEF I
  <2> QED BY <1>1, <1>3, LeastIsMin
<1>5. \A k \in 1 .. Len(Slots(c)) : \E i \in SlotNames : Slots(c)[k] = c[i]
  BY DEF Slots, SlotNames
<1> QED BY <1>2, <1>4, <1>5

\* With one slot for each key, the first that has the key is the one.
LEMMA SlotDecrypts ==
  ASSUME NEW c, KeysApart(c), NEW i \in SlotNames, c[i] # None,
         NEW p, c[i].key = p.stream_key, NEW packet,
         Decrypts(c[i], p.packet_number, packet)
  PROVE  ClusterDecrypts(c, p, packet)
<1> DEFINE I == {k \in 1 .. Len(Slots(c)) : Slots(c)[k] # None /\ Slots(c)[k].key = p.stream_key}
           first == SelectInSeq(Slots(c), LAMBDA s : s # None /\ s.key = p.stream_key)
<1>1. first = IF I # {} THEN Min(I) ELSE 0
  BY DEF SelectInSeq
<1>2. \E k \in 1 .. Len(Slots(c)) : Slots(c)[k] = c[i]
  <2>1. Len(Slots(c)) = 4
    BY DEF Slots
  <2>2. /\ Slots(c)[1] = c["own_current_neighbor_current"]
        /\ Slots(c)[2] = c["own_current_neighbor_previous"]
        /\ Slots(c)[3] = c["own_previous_neighbor_current"]
        /\ Slots(c)[4] = c["own_previous_neighbor_previous"]
    BY DEF Slots
  <2> QED BY <2>1, <2>2 DEF SlotNames
<1>3. I # {} /\ I \subseteq Nat
  BY <1>2
<1>4. first \in I
  <2> HIDE DEF I
  <2> QED BY <1>1, <1>3, LeastIsMin
<1>5. Slots(c)[first] = c[i] /\ first # 0
  <2>1. \A k \in 1 .. Len(Slots(c)) : \E j \in SlotNames : Slots(c)[k] = c[j]
    BY DEF Slots, SlotNames
  <2> QED BY <1>4, <2>1 DEF KeysApart
<1> QED BY <1>5 DEF ClusterDecrypts

\* Whatever a table gains is for one neighbor.
OnlyGains(inner, later, neighbor) ==
  \A x, i : Lists(later, x, i) => Lists(inner, x, i) \/ x.stream_with = neighbor

LEMMA NewGainsOnly ==
  ASSUME NEW W, NEW inner, IsTable(inner, Packets(W)), NEW neighbor \in W,
         NEW s, s # None => s.key \in SUBSET Nat
  PROVE  /\ IsTable(ExpectNew(inner, s, neighbor), Packets(W))
         /\ OnlyGains(inner, ExpectNew(inner, s, neighbor), neighbor)
<1> PICK later : later = ExpectNew(inner, s, neighbor)
  OBVIOUS
<1>1. /\ IsTable(later, Packets(W))
      /\ s = None => later = inner
      /\ s # None => GainedWindow(inner, later, s, neighbor)
  BY ExpectNewLists
<1>2. \A n : ExpectedPacket(s, neighbor, n).stream_with = neighbor
  BY DEF ExpectedPacket
<1>3. OnlyGains(inner, later, neighbor)
  BY <1>1, <1>2 DEF OnlyGains, GainedWindow, OneOf
<1> QED BY <1>1, <1>3

LEMMA SlotGainsOnly ==
  ASSUME NEW W, NEW inner, IsTable(inner, Packets(W)),
         NEW slot \in AnyStream \cup {None},
         NEW p, p.stream_with \in W, p.packet_number \in Nat
  PROVE  /\ IsTable(UpcomingAfterSlot(inner, slot, p), Packets(W))
         /\ OnlyGains(inner, UpcomingAfterSlot(inner, slot, p), p.stream_with)
<1> PICK later : later = UpcomingAfterSlot(inner, slot, p)
  OBVIOUS
<1>1. CASE later = inner
  BY <1>1 DEF OnlyGains
<1>2. CASE later # inner
  <2>1. slot # None /\ later = UpcomingAdvanced(inner, slot, p.stream_with, p.packet_number)
    BY <1>2 DEF UpcomingAfterSlot
  <2>2. slot \in AnyStream /\ slot.incoming_message_mask_start \in Nat
    BY <2>1 DEF AnyStream
  <2>3. p.packet_number >= slot.incoming_message_mask_start
    BY <1>2, <2>1, <2>2 DEF UpcomingAdvanced
  <2> PICK new, gone :
        /\ new = Announced(slot.incoming_message_mask_start, MaskWithout(slot, p.packet_number))
        /\ gone = Abandoned(slot.incoming_message_mask_start, MaskWithout(slot, p.packet_number))
    OBVIOUS
  <2>4. IsTable(later, Packets(W)) /\ Moved(inner, later, slot, p.stream_with, new, gone)
    BY <2>1, <2>2, <2>3, AdvancedLists
  <2>5. \A n : ExpectedPacket(slot, p.stream_with, n).stream_with = p.stream_with
    BY DEF ExpectedPacket
  <2>6. OnlyGains(inner, later, p.stream_with)
    BY <2>4, <2>5 DEF OnlyGains, Moved, OneOf
  <2> QED BY <2>4, <2>6
<1> QED BY <1>1, <1>2

LEMMA PacketGainsOnly ==
  ASSUME NEW W, NEW inner, IsTable(inner, Packets(W)), NEW c, SlotsShape(c),
         NEW p, p.stream_with \in W, p.packet_number \in Nat, NEW id
  PROVE  /\ IsTable(UpcomingAfterPacket(inner, c, p, id), Packets(W))
         /\ OnlyGains(inner, UpcomingAfterPacket(inner, c, p, id), p.stream_with)
<1> PICK t1, t2, t3, t4, later, entries :
      /\ t1 = UpcomingAfterSlot(inner, c.own_current_neighbor_current, p)
      /\ t2 = UpcomingAfterSlot(t1, c.own_current_neighbor_previous, p)
      /\ t3 = UpcomingAfterSlot(t2, c.own_previous_neighbor_current, p)
      /\ t4 = UpcomingAfterSlot(t3, c.own_previous_neighbor_previous, p)
      /\ entries = <<Entry(p, id)>>
      /\ later = RemoveAll(t4, entries)
  OBVIOUS
<1>1. /\ c.own_current_neighbor_current \in AnyStream \cup {None}
      /\ c.own_current_neighbor_previous \in AnyStream \cup {None}
      /\ c.own_previous_neighbor_current \in AnyStream \cup {None}
      /\ c.own_previous_neighbor_previous \in AnyStream \cup {None}
  BY DEF SlotsShape, SlotNames
<1>2. later = UpcomingAfterPacket(inner, c, p, id)
  BY DEF UpcomingAfterPacket, UpcomingMoved
<1>3. IsTable(t1, Packets(W)) /\ OnlyGains(inner, t1, p.stream_with)
  BY <1>1, SlotGainsOnly
<1>4. IsTable(t2, Packets(W)) /\ OnlyGains(t1, t2, p.stream_with)
  BY <1>1, <1>3, SlotGainsOnly
<1>5. IsTable(t3, Packets(W)) /\ OnlyGains(t2, t3, p.stream_with)
  BY <1>1, <1>4, SlotGainsOnly
<1>6. IsTable(t4, Packets(W)) /\ OnlyGains(t3, t4, p.stream_with)
  BY <1>1, <1>5, SlotGainsOnly
<1>7. entries \in Seq({Entry(p, id)}) /\ Len(entries) = 1
  OBVIOUS
<1>8. HasRemoved(Packets(W), t4, entries, 1, later)
  BY <1>6, <1>7, RemoveAllLists
<1>9. IsTable(later, Packets(W))
  BY <1>8 DEF HasRemoved
<1>10. OnlyGains(inner, later, p.stream_with)
  BY <1>3, <1>4, <1>5, <1>6, <1>8 DEF OnlyGains, HasRemoved
<1> QED BY <1>2, <1>9, <1>10
=============================================================================
