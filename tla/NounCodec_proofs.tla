--------------------------- MODULE NounCodec_proofs ---------------------------
(***************************************************************************)
(* Proofs about NounCodec, for every size of a byte, every limit and every *)
(* set of nouns.                                                           *)
(*                                                                         *)
(* The first half is about data: numbers and their digits, headers, atoms, *)
(* the sequences they are put together to, and that a serialization stands *)
(* for one noun.  Recursive functions come with their equations from the   *)
(* lemma Recursion, which goes back to well-founded induction over pairs.  *)
(* The second half is about the machine.  If the length is read as it was  *)
(* written, the invariant says that after k nodes the reader holds the     *)
(* first k nodes of the noun, the encoding of the atoms among the others   *)
(* and the bits of the structure from there on.  If it is misread, the     *)
(* reader still cuts the same atoms off, but has more or less structure    *)
(* than goes with them, and never gets to the end of both.                 *)
(***************************************************************************)
EXTENDS NounCodec, WellFoundedInduction, SequenceTheorems, TLAPS

-----------------------------------------------------------------------------
(* Induction and recursion over the naturals.                              *)

\* A set of numbers has a least one.
LEMMA Least ==
  ASSUME NEW T, T \subseteq Nat, T # {}
  PROVE  \E n \in T : \A m \in T : n <= m
<1> DEFINE R == {ij \in Nat \X Nat : ij[1] < ij[2]}
<1>1. IsWellFoundedOn(R, Nat)
  BY NatLessThanWellFounded DEF OpToRel
<1>2. PICK x \in T : \A y \in T : ~ (<<y, x>> \in R)
  <2> HIDE DEF R
  <2> QED BY <1>1, WFMin
<1>3. ASSUME NEW y \in T PROVE x <= y
  <2>1. x \in Nat /\ y \in Nat
    OBVIOUS
  <2>2. ~ (y < x)
    BY <1>2, <2>1
  <2> QED BY <2>1, <2>2
<1> QED BY <1>3

\* A set with zero and with the successor of each of its numbers has them all.
LEMMA Induct ==
  ASSUME NEW T, 0 \in T, \A n \in Nat : n \in T => n + 1 \in T
  PROVE  \A n \in Nat : n \in T
<1> DEFINE R == Nat \ T
<1> SUFFICES ASSUME R # {} PROVE FALSE
  OBVIOUS
<1>1. PICK n \in R : \A m \in R : n <= m
  BY Least
<1>2. n # 0 /\ n - 1 \in Nat /\ n - 1 \in T
  BY <1>1
<1>3. (n - 1) + 1 \in T
  BY <1>2
<1> QED BY <1>1, <1>2, <1>3

\* f is what start becomes by the first n applications of step.
Iterates(f, S, n, start, step) ==
  /\ f \in [0 .. n -> S]
  /\ f[0] = start
  /\ \A i \in 0 .. n - 1 : f[i + 1] = step[<<i, f[i]>>]

\* Two such functions agree as far as both go.
LEMMA IteratesUnique ==
  ASSUME NEW S, NEW start, NEW step, NEW n \in Nat, NEW m \in Nat,
         NEW f, NEW g, Iterates(f, S, n, start, step),
         Iterates(g, S, m, start, step)
  PROVE  \A i \in Nat : i <= n /\ i <= m => f[i] = g[i]
<1> DEFINE T == {i \in Nat : i <= n /\ i <= m => f[i] = g[i]}
<1>1. 0 \in T
  BY DEF Iterates
<1>2. ASSUME NEW i \in Nat, i \in T PROVE i + 1 \in T
  <2> SUFFICES ASSUME i + 1 <= n, i + 1 <= m PROVE f[i + 1] = g[i + 1]
    OBVIOUS
  <2>1. i \in 0 .. n - 1 /\ i \in 0 .. m - 1 /\ f[i] = g[i]
    BY <1>2
  <2> QED BY <2>1 DEF Iterates
<1>3. \A i \in Nat : i \in T
  <2> HIDE DEF T
  <2> QED BY <1>1, <1>2, Induct
<1> QED BY <1>3

\* There is such a function, as far as one likes.
LEMMA IteratesExist ==
  ASSUME NEW S, NEW start \in S, NEW step \in [Nat \X S -> S], NEW n \in Nat
  PROVE  \E f : Iterates(f, S, n, start, step)
<1> DEFINE T == {k \in Nat : \E f : Iterates(f, S, k, start, step)}
<1>1. 0 \in T
  <2> DEFINE f == [i \in 0 .. 0 |-> start]
  <2>1. Iterates(f, S, 0, start, step)
    BY DEF Iterates
  <2> HIDE DEF f
  <2> QED BY <2>1
<1>2. ASSUME NEW k \in Nat, k \in T PROVE k + 1 \in T
  <2>1. PICK f : Iterates(f, S, k, start, step)
    BY <1>2
  <2>2. f \in [0 .. k -> S] /\ f[0] = start
        /\ \A i \in 0 .. k - 1 : f[i + 1] = step[<<i, f[i]>>]
    BY <2>1 DEF Iterates
  <2> DEFINE g == [i \in 0 .. k + 1 |->
                     IF i <= k THEN f[i] ELSE step[<<k, f[k]>>]]
  <2>3. f[k] \in S /\ step[<<k, f[k]>>] \in S
    BY <2>2
  <2>4. g \in [0 .. k + 1 -> S] /\ g[0] = start
    BY <2>2, <2>3
  <2>5. ASSUME NEW i \in 0 .. (k + 1) - 1 PROVE g[i + 1] = step[<<i, g[i]>>]
    <3>1. CASE i < k BY <2>2, <3>1
    <3>2. CASE i = k BY <3>2
    <3> QED BY <3>1, <3>2
  <2>6. Iterates(g, S, k + 1, start, step)
    BY <2>4, <2>5 DEF Iterates
  <2> QED BY <2>6
<1>3. n \in T
  <2> HIDE DEF T
  <2> QED BY <1>1, <1>2, Induct
<1> QED BY <1>3

\* The same without end.
IsIteration(f, S, start, step) ==
  /\ f \in [Nat -> S]
  /\ f[0] = start
  /\ \A n \in Nat : f[n + 1] = step[<<n, f[n]>>]

\* What step does to start, over and over, is a function on all numbers.
LEMMA Recursion ==
  ASSUME NEW S, NEW start \in S, NEW step \in [Nat \X S -> S]
  PROVE  \E f : IsIteration(f, S, start, step)
<1> DEFINE upto(n) == CHOOSE f : Iterates(f, S, n, start, step)
           F == [n \in Nat |-> upto(n)[n]]
<1>1. \A n \in Nat : Iterates(upto(n), S, n, start, step)
  BY IteratesExist
<1> HIDE DEF upto
<1>2. F \in [Nat -> S] /\ F[0] = start
  BY <1>1 DEF Iterates
<1>3. ASSUME NEW n \in Nat PROVE F[n + 1] = step[<<n, F[n]>>]
  <2>1. upto(n + 1)[n] = upto(n)[n]
    BY <1>1, IteratesUnique
  <2>2. upto(n + 1)[n + 1] = step[<<n, upto(n + 1)[n]>>]
    BY <1>1 DEF Iterates
  <2> QED BY <2>1, <2>2
<1> HIDE DEF F
<1> QED BY <1>2, <1>3 DEF IsIteration

-----------------------------------------------------------------------------
(* Numbers and their digits.                                               *)

\* Quotient and remainder are determined by the number they make up.
LEMMA QuotientUnique ==
  ASSUME NEW B \in Nat \ {0}, NEW q \in Int, NEW p \in Int,
         NEW r \in 0 .. B - 1, NEW s \in 0 .. B - 1,
         B * q + r = B * p + s
  PROVE  q = p
<1>1. CASE q >= p + 1
  <2>1. PICK k \in Nat : q = p + 1 + k BY <1>1
  <2>2. B * q = B * p + B + B * k BY <2>1
  <2>3. B * k >= 0 BY <2>1
  <2> QED BY <2>2, <2>3, B * q \in Int, B * p \in Int, B * k \in Int
<1>2. CASE p >= q + 1
  <2>1. PICK k \in Nat : p = q + 1 + k BY <1>2
  <2>2. B * p = B * q + B + B * k BY <2>1
  <2>3. B * k >= 0 BY <2>1
  <2> QED BY <2>2, <2>3, B * q \in Int, B * p \in Int, B * k \in Int
<1> QED BY <1>1, <1>2

\* Every number has a quotient that goes with its remainder.
LEMMA QuotientExists ==
  ASSUME NEW i \in Nat, NEW B \in Nat \ {0}
  PROVE  \E p \in Int : i % B \in 0 .. B - 1 /\ i = B * p + (i % B)
<1>1. i \div B \in Int /\ i % B \in 0 .. B - 1
        /\ i = B * (i \div B) + (i % B)
  OBVIOUS
<1> QED BY <1>1

\* A number written as a multiple plus a small rest has that remainder.
LEMMA RemainderIs ==
  ASSUME NEW i \in Nat, NEW B \in Nat \ {0}, NEW q \in Int,
         NEW r \in 0 .. B - 1, i = B * q + r
  PROVE  i % B = r
<1>1. PICK p \in Int : i % B \in 0 .. B - 1 /\ i = B * p + (i % B)
  BY QuotientExists
<1>2. PICK s \in 0 .. B - 1 : s = i % B BY <1>1
<1>3. i = B * p + s BY <1>1, <1>2
<1>4. q = p BY <1>3, QuotientUnique
<1>5. PICK z \in Int : z = B * q OBVIOUS
<1>6. i = z + r /\ i = z + s BY <1>3, <1>4, <1>5
<1> QED BY <1>2, <1>6

\* And that quotient.
LEMMA QuotientIs ==
  ASSUME NEW i \in Nat, NEW B \in Nat \ {0}, NEW q \in Int,
         NEW r \in 0 .. B - 1, i = B * q + r
  PROVE  i \div B = q
<1>1. i \div B \in Int /\ i % B \in 0 .. B - 1
        /\ i = B * (i \div B) + (i % B)
  OBVIOUS
<1>2. PICK p \in Int, s \in 0 .. B - 1 : p = i \div B /\ s = i % B
  BY <1>1
<1>3. B * p + s = B * q + r
  BY <1>1, <1>2
<1>4. p = q
  BY <1>3, QuotientUnique
<1> QED BY <1>2, <1>4

\* The powers of a number.
LEMMA PowerIs ==
  ASSUME NEW base \in Nat
  PROVE  /\ Power(base) \in [Nat -> Nat]
         /\ Power(base)[0] = 1
         /\ \A k \in Nat : Power(base)[k + 1] = base * Power(base)[k]
<1> DEFINE power[k \in Nat] == IF k = 0 THEN 1 ELSE base * power[k - 1]
           step == [p \in Nat \X Nat |-> base * p[2]]
           form(f) == [k \in Nat |-> IF k = 0 THEN 1 ELSE base * f[k - 1]]
<1>1. step \in [Nat \X Nat -> Nat]
  OBVIOUS
<1>2. PICK f : IsIteration(f, Nat, 1, step)
  <2> HIDE DEF step
  <2>1. 1 \in Nat OBVIOUS
  <2> QED BY <1>1, <2>1, Recursion
<1>3. \A n \in Nat : f[n + 1] = base * f[n]
  BY <1>2 DEF IsIteration
<1>4. f = form(f)
  <2>1. ASSUME NEW k \in Nat PROVE f[k] = IF k = 0 THEN 1 ELSE base * f[k - 1]
    <3>1. CASE k = 0 BY <1>2, <3>1 DEF IsIteration
    <3>2. CASE k # 0
      <4>1. k - 1 \in Nat /\ (k - 1) + 1 = k BY <3>2
      <4> QED BY <1>3, <3>2, <4>1
    <3> QED BY <3>1, <3>2
  <2>2. f = [k \in Nat |-> f[k]] BY <1>2 DEF IsIteration
  <2> QED BY <2>1, <2>2
<1>5. power = form(power)
  <2> HIDE DEF form
  <2>1. power = CHOOSE g : g = form(g) BY DEF form
  <2> HIDE DEF power
  <2> QED BY <1>4, <2>1
<1>6. Power(base) = power
  BY DEF Power
<1> HIDE DEF power
<1>7. /\ power[0] = 1
      /\ \A k \in Nat : power[k + 1] = base * power[k]
      /\ power = [k \in Nat |-> power[k]]
  BY <1>5
<1> DEFINE T == {k \in Nat : power[k] \in Nat}
<1>8. \A k \in Nat : k \in T
  <2>1. 0 \in T BY <1>7
  <2>2. ASSUME NEW k \in Nat, k \in T PROVE k + 1 \in T
    <3>1. PICK p \in Nat : p = power[k] BY <2>2
    <3>2. power[k + 1] = base * p BY <1>7, <3>1
    <3>3. base * p \in Nat OBVIOUS
    <3> QED BY <3>2, <3>3
  <2> HIDE DEF T
  <2> QED BY <2>1, <2>2, Induct
<1>9. power \in [Nat -> Nat]
  BY <1>7, <1>8
<1> QED BY <1>6, <1>7, <1>9

\* The remainder for a product, from those for its factors.
LEMMA RemainderOfProduct ==
  ASSUME NEW n \in Nat, NEW b \in Nat \ {0}, NEW P \in Nat \ {0}
  PROVE  /\ b * P \in Nat \ {0}
         /\ n % P \in Nat
         /\ (n \div P) % b \in 0 .. b - 1
         /\ n % (b * P) = (n % P) + ((n \div P) % b) * P
<1>1. n \div P \in Nat /\ n % P \in 0 .. P - 1
        /\ n = P * (n \div P) + (n % P)
  OBVIOUS
<1>2. PICK q \in Nat, r \in 0 .. P - 1 : q = n \div P /\ r = n % P /\ n = P * q + r
  BY <1>1
<1>3. q \div b \in Int /\ q % b \in 0 .. b - 1
        /\ q = b * (q \div b) + (q % b)
  OBVIOUS
<1>4. PICK e \in Int, d \in 0 .. b - 1 : d = q % b /\ q = b * e + d
  BY <1>3
<1>5. b * P \in Nat \ {0}
  OBVIOUS
<1>6. PICK bP \in Nat \ {0} : bP = b * P
  BY <1>5
<1>7. n = bP * e + (d * P + r)
  <2>1. P * (b * e + d) = P * (b * e) + P * d
    OBVIOUS
  <2>2. P * (b * e) = (b * P) * e /\ P * d = d * P
    OBVIOUS
  <2>3. n = (b * P) * e + d * P + r
    <3>1. n = P * (b * e + d) + r BY <1>2, <1>4
    <3> QED BY <3>1, <2>1, <2>2
  <2> QED BY <1>6, <2>3
<1>8. d * P + r \in 0 .. bP - 1
  <2>1. PICK c \in Nat : b = d + 1 + c
    <3>1. b - 1 - d \in Nat /\ b = d + 1 + (b - 1 - d) OBVIOUS
    <3> QED BY <3>1
  <2>2. bP = d * P + P + c * P BY <1>6, <2>1
  <2>3. c * P \in Nat /\ d * P \in Nat BY <2>1
  <2> QED BY <2>2, <2>3
<1>9. n % bP = d * P + r
  BY <1>7, <1>8, RemainderIs
<1>10. n % (b * P) = r + d * P
  <2>1. d * P \in Int OBVIOUS
  <2> QED BY <1>6, <1>9, <2>1
<1>11. (n \div P) % b = d
  BY <1>2, <1>4
<1> QED BY <1>2, <1>5, <1>10, <1>11

\* The numbers that ever more of the digits make up.
IsValue(value, digits, base) ==
  /\ value \in [0 .. Len(digits) -> Nat]
  /\ value[0] = 0
  /\ \A k \in 0 .. Len(digits) - 1 :
       value[k + 1] = value[k] + digits[k + 1] * Power(base)[k]
  /\ ValueOf(digits, base) = value[Len(digits)]

\* ValueOf is the last of such numbers.
LEMMA ValueIs ==
  ASSUME NEW base \in Nat, NEW digits \in Seq(Nat)
  PROVE  \E value : IsValue(value, digits, base)
<1> DEFINE len == Len(digits)
           P == Power(base)
           value[k \in 0 .. Len(digits)] ==
             IF k = 0 THEN 0 ELSE value[k - 1] + digits[k] * Power(base)[k - 1]
           form(f) ==
             [k \in 0 .. Len(digits) |->
                IF k = 0 THEN 0 ELSE f[k - 1] + digits[k] * Power(base)[k - 1]]
           step == [p \in Nat \X Nat |->
                      IF p[1] < len THEN p[2] + digits[p[1] + 1] * P[p[1]]
                      ELSE p[2]]
<1>1. len \in Nat /\ \A k \in 0 .. len - 1 : digits[k + 1] \in Nat
  OBVIOUS
<1>2. P \in [Nat -> Nat]
  BY PowerIs
<1> HIDE DEF P, len
<1>3. step \in [Nat \X Nat -> Nat]
  <2>1. ASSUME NEW i \in Nat, NEW v \in Nat, i < len
        PROVE  v + digits[i + 1] * P[i] \in Nat
    <3>1. i \in 0 .. len - 1 BY <1>1, <2>1
    <3>2. PICK d \in Nat, p \in Nat : d = digits[i + 1] /\ p = P[i]
      BY <1>1, <1>2, <3>1
    <3>3. d * p \in Nat OBVIOUS
    <3> QED BY <3>2, <3>3
  <2>2. ASSUME NEW q \in Nat \X Nat
        PROVE  (IF q[1] < len THEN q[2] + digits[q[1] + 1] * P[q[1]] ELSE q[2]) \in Nat
    BY <2>1
  <2> QED BY <2>2
<1>4. PICK f : Iterates(f, Nat, len, 0, step)
  <2> HIDE DEF step
  <2>1. 0 \in Nat OBVIOUS
  <2> QED BY <1>1, <1>3, <2>1, IteratesExist
<1>5. /\ f \in [0 .. len -> Nat] /\ f[0] = 0
      /\ \A k \in 0 .. len - 1 : f[k + 1] = f[k] + digits[k + 1] * P[k]
  <2>1. ASSUME NEW k \in 0 .. len - 1
        PROVE  f[k + 1] = f[k] + digits[k + 1] * P[k]
    <3>1. <<k, f[k]>> \in Nat \X Nat /\ k < len
      BY <1>1, <1>4 DEF Iterates
    <3>2. f[k + 1] = step[<<k, f[k]>>]
      BY <1>4 DEF Iterates
    <3> QED BY <3>1, <3>2
  <2> QED BY <1>4, <2>1 DEF Iterates
<1>6. f = form(f)
  <2>1. ASSUME NEW k \in 0 .. len
        PROVE  f[k] = IF k = 0 THEN 0 ELSE f[k - 1] + digits[k] * P[k - 1]
    <3>1. CASE k = 0 BY <1>5, <3>1
    <3>2. CASE k # 0
      <4>1. k - 1 \in 0 .. len - 1 /\ (k - 1) + 1 = k BY <1>1, <3>2
      <4> QED BY <1>5, <3>2, <4>1
    <3> QED BY <3>1, <3>2
  <2>2. f = [k \in 0 .. len |-> f[k]] BY <1>5
  <2> QED BY <2>1, <2>2 DEF P, len
<1>7. value = form(value)
  <2> HIDE DEF form
  <2>1. value = CHOOSE g : g = form(g) BY DEF form
  <2> HIDE DEF value
  <2> QED BY <1>6, <2>1
<1>8. ValueOf(digits, base) = value[len]
  BY DEF ValueOf, len
<1> HIDE DEF value
<1>9. /\ value[0] = 0
      /\ \A k \in 1 .. len : value[k] = value[k - 1] + digits[k] * P[k - 1]
      /\ value = [k \in 0 .. len |-> value[k]]
  BY <1>1, <1>7 DEF len, P
<1>10. ASSUME NEW k \in 0 .. len - 1
       PROVE  value[k + 1] = value[k] + digits[k + 1] * P[k]
  <2>1. k + 1 \in 1 .. len /\ (k + 1) - 1 = k BY <1>1
  <2> QED BY <1>9, <2>1
<1> DEFINE T == {k \in Nat : k <= len => value[k] = f[k]}
<1>11. \A k \in Nat : k \in T
  <2>1. 0 \in T BY <1>5, <1>9
  <2>2. ASSUME NEW k \in Nat, k \in T PROVE k + 1 \in T
    <3> SUFFICES ASSUME k + 1 <= len PROVE value[k + 1] = f[k + 1]
      OBVIOUS
    <3>1. k \in 0 .. len - 1 /\ value[k] = f[k] BY <1>1, <2>2
    <3> QED BY <1>5, <1>10, <3>1
  <2> HIDE DEF T
  <2> QED BY <2>1, <2>2, Induct
<1>12. value \in [0 .. len -> Nat]
  BY <1>5, <1>9, <1>11
<1> QED BY <1>8, <1>9, <1>10, <1>12 DEF IsValue, P, len

\* The first k digits make up less than the k-th power of the base.
LEMMA ValueBelow ==
  ASSUME NEW base \in Nat \ {0}, NEW digits \in Seq(0 .. base - 1), NEW value,
         IsValue(value, digits, base)
  PROVE  \A k \in 0 .. Len(digits) : value[k] < Power(base)[k]
<1> DEFINE P == Power(base)
           len == Len(digits)
           T == {k \in Nat : k <= len => value[k] < P[k]}
<1>1. /\ len \in Nat /\ value[0] = 0 /\ value \in [0 .. len -> Nat]
      /\ \A k \in 0 .. len - 1 : value[k + 1] = value[k] + digits[k + 1] * P[k]
      /\ \A k \in 0 .. len - 1 : digits[k + 1] \in 0 .. base - 1
  BY DEF IsValue
<1>2. P \in [Nat -> Nat] /\ P[0] = 1 /\ \A k \in Nat : P[k + 1] = base * P[k]
  BY PowerIs
<1> HIDE DEF P, len
<1>3. \A k \in Nat : k \in T
  <2>1. 0 \in T BY <1>1, <1>2
  <2>2. ASSUME NEW k \in Nat, k \in T PROVE k + 1 \in T
    <3> SUFFICES ASSUME k + 1 <= len PROVE value[k + 1] < P[k + 1]
      OBVIOUS
    <3>1. k \in 0 .. len - 1 /\ value[k] < P[k] BY <1>1, <2>2
    <3>2. PICK v \in Nat, p \in Nat, d \in 0 .. base - 1 :
            v = value[k] /\ p = P[k] /\ d = digits[k + 1]
      <4>1. value[k] \in Nat BY <1>1, <3>1
      <4>2. P[k] \in Nat BY <1>2
      <4>3. digits[k + 1] \in 0 .. base - 1 BY <1>1, <3>1
      <4> QED BY <4>1, <4>2, <4>3
    <3>3. value[k + 1] = v + d * p /\ P[k + 1] = base * p /\ v < p
      BY <1>1, <1>2, <3>1, <3>2
    <3>4. v + d * p < base * p
      <4>1. PICK c \in Nat : base = d + 1 + c
        <5>1. base - 1 - d \in Nat /\ base = d + 1 + (base - 1 - d) OBVIOUS
        <5> QED BY <5>1
      <4>2. base * p = d * p + p + c * p BY <4>1
      <4>3. PICK cp \in Nat, dp \in Nat, bp \in Int :
              cp = c * p /\ dp = d * p /\ bp = base * p
        OBVIOUS
      <4>4. bp = dp + p + cp BY <4>2, <4>3
      <4>5. v + dp < bp BY ONLY <3>3, <4>4, v \in Nat, p \in Nat, cp \in Nat,
                                dp \in Nat, bp \in Int
      <4> QED BY <4>3, <4>5
    <3> QED BY <3>3, <3>4
  <2> HIDE DEF T
  <2> QED BY <2>1, <2>2, Induct
<1> QED BY <1>1, <1>3 DEF P, len

\* Powers of a base grow beyond every number, and are not zero.
LEMMA PowerAbove ==
  ASSUME NEW base \in Nat \ {0, 1}, NEW n \in Nat
  PROVE  n < Power(base)[n]
<1> DEFINE P == Power(base)
           T == {k \in Nat : k < P[k]}
<1>1. P \in [Nat -> Nat] /\ P[0] = 1 /\ \A k \in Nat : P[k + 1] = base * P[k]
  BY PowerIs
<1> HIDE DEF P
<1>2. \A k \in Nat : k \in T
  <2>1. 0 \in T BY <1>1
  <2>2. ASSUME NEW k \in Nat, k \in T PROVE k + 1 \in T
    <3>1. PICK p \in Nat : p = P[k] /\ k < p BY <1>1, <2>2
    <3>2. PICK c \in Nat : base = 2 + c
      <4>1. base - 2 \in Nat /\ base = 2 + (base - 2) OBVIOUS
      <4> QED BY <4>1
    <3>3. base * p = 2 * p + c * p /\ c * p \in Nat BY <3>2
    <3>4. P[k + 1] = base * p BY <1>1, <3>1
    <3> QED BY <3>1, <3>3, <3>4
  <2> HIDE DEF T
  <2> QED BY <2>1, <2>2, Induct
<1> QED BY <1>2 DEF P

\* How many digits a number has, and what they are.
IsCount(count, n, base) ==
  /\ count \in Nat
  /\ n < Power(base)[count]
  /\ \A j \in 0 .. count - 1 : Power(base)[j] <= n
  /\ Digits(n, base) = [i \in 1 .. count |-> (n \div Power(base)[i - 1]) % base]

\* Every number has such a count of digits.
LEMMA CountExists ==
  ASSUME NEW base \in Nat \ {0, 1}, NEW n \in Nat
  PROVE  \E count : IsCount(count, n, base)
<1> DEFINE P == Power(base)
           T == {k \in 0 .. n : n < P[k]}
           good(k) == n < P[k] /\ \A j \in 0 .. k - 1 : P[j] <= n
           count == CHOOSE k \in 0 .. n : good(k)
<1>1. P \in [Nat -> Nat]
  BY PowerIs
<1>2. n \in T
  BY PowerAbove
<1> HIDE DEF P
<1>3. PICK k \in T : \A m \in T : k <= m
  <2>1. T \subseteq Nat /\ T # {} BY <1>2
  <2> HIDE DEF T
  <2> QED BY <2>1, Least
<1>4. good(k)
  <2>1. ASSUME NEW j \in 0 .. k - 1 PROVE P[j] <= n
    <3>1. j \in 0 .. n /\ j \notin T BY <1>3
    <3>2. P[j] \in Nat BY <1>1, <3>1
    <3> QED BY <3>1, <3>2
  <2> QED BY <1>3, <2>1
<1>5. \E j \in 0 .. n : good(j)
  <2> HIDE DEF good
  <2> QED BY <1>3, <1>4
<1>6. count \in 0 .. n /\ good(count)
  <2> HIDE DEF good
  <2> QED BY <1>5
<1>7. Digits(n, base) = [i \in 1 .. count |-> (n \div P[i - 1]) % base]
  BY DEF Digits, P
<1> HIDE DEF count
<1>8. IsCount(count, n, base)
  BY <1>6, <1>7 DEF IsCount, P
<1> QED BY <1>8

\* The digits of a number make it up again.
LEMMA DigitsMakeUp ==
  ASSUME NEW base \in Nat \ {0, 1}, NEW n \in Nat, NEW count,
         IsCount(count, n, base)
  PROVE  /\ Digits(n, base) \in Seq(0 .. base - 1)
         /\ Len(Digits(n, base)) = count
         /\ ValueOf(Digits(n, base), base) = n
<1> DEFINE P == Power(base)
           digits == Digits(n, base)
<1>1. P \in [Nat -> Nat] /\ P[0] = 1 /\ \A k \in Nat : P[k + 1] = base * P[k]
  BY PowerIs
<1>2. \A k \in Nat : P[k] \in Nat \ {0}
  <2>1. ASSUME NEW k \in Nat PROVE P[k] \in Nat \ {0}
    <3>1. k < P[k] BY PowerAbove
    <3> QED BY <1>1, <3>1
  <2> QED BY <2>1
<1> HIDE DEF P
<1>3. count \in Nat /\ digits = [i \in 1 .. count |-> (n \div P[i - 1]) % base]
        /\ n < P[count]
  BY DEF IsCount, P
<1> HIDE DEF digits
<1>4. ASSUME NEW k \in 0 .. count - 1
      PROVE  /\ digits[k + 1] \in 0 .. base - 1
             /\ n % P[k] \in Nat
             /\ n % P[k + 1] = (n % P[k]) + digits[k + 1] * P[k]
  <2>1. PICK p \in Nat \ {0} : p = P[k] BY <1>2, <1>3
  <2>2. digits[k + 1] = (n \div p) % base
    <3>1. k + 1 \in 1 .. count /\ (k + 1) - 1 = k BY <1>3
    <3> QED BY <1>3, <2>1, <3>1
  <2>3. P[k + 1] = base * p BY <1>1, <1>3, <2>1
  <2>4. /\ n % p \in Nat /\ (n \div p) % base \in 0 .. base - 1
        /\ n % (base * p) = (n % p) + ((n \div p) % base) * p
    BY RemainderOfProduct
  <2> QED BY <2>1, <2>2, <2>3, <2>4
<1>5. digits \in Seq(0 .. base - 1) /\ Len(digits) = count
  <2>1. ASSUME NEW i \in 1 .. count PROVE digits[i] \in 0 .. base - 1
    <3>1. i - 1 \in 0 .. count - 1 /\ (i - 1) + 1 = i BY <1>3
    <3>2. digits[(i - 1) + 1] \in 0 .. base - 1 BY <1>4, <3>1
    <3> QED BY <3>1, <3>2
  <2>2. digits = [i \in 1 .. count |-> digits[i]] BY <1>3
  <2> QED BY <1>3, <2>1, <2>2
<1>6. PICK value : IsValue(value, digits, base)
  <2>1. digits \in Seq(Nat) BY <1>5
  <2> QED BY <2>1, ValueIs
<1> DEFINE T == {k \in Nat : k <= count => value[k] = n % P[k]}
<1>7. \A k \in Nat : k \in T
  <2>1. 0 \in T
    <3>1. n % 1 = 0 OBVIOUS
    <3> QED BY <1>1, <1>6, <3>1 DEF IsValue
  <2>2. ASSUME NEW k \in Nat, k \in T PROVE k + 1 \in T
    <3> SUFFICES ASSUME k + 1 <= count PROVE value[k + 1] = n % P[k + 1]
      OBVIOUS
    <3>1. k \in 0 .. count - 1 /\ value[k] = n % P[k] BY <1>3, <2>2
    <3>2. value[k + 1] = value[k] + digits[k + 1] * P[k]
      BY <1>5, <1>6, <3>1 DEF IsValue, P
    <3> QED BY <1>4, <3>1, <3>2
  <2> HIDE DEF T
  <2> QED BY <2>1, <2>2, Induct
<1>8. ValueOf(digits, base) = n % P[count]
  BY <1>3, <1>5, <1>6, <1>7 DEF IsValue
<1>9. n % P[count] = n
  <2>1. PICK p \in Nat \ {0} : p = P[count] BY <1>2, <1>3
  <2>2. n % p = n
    <3>1. n = p * 0 + n /\ n \in 0 .. p - 1 BY <1>3, <2>1
    <3> QED BY <3>1, RemainderIs
  <2> QED BY <2>1, <2>2
<1> QED BY <1>5, <1>8, <1>9 DEF digits

\* A number below the base has one digit, unless it is zero and has none.
LEMMA OneDigit ==
  ASSUME NEW base \in Nat \ {0, 1}, NEW n \in 0 .. base - 1
  PROVE  Digits(n, base) = IF n = 0 THEN <<>> ELSE <<n>>
<1>1. PICK count : IsCount(count, n, base)
  BY CountExists
<1>2. /\ Power(base)[0] = 1 /\ Power(base)[1] = base
  <2>1. Power(base)[0 + 1] = base * Power(base)[0] /\ Power(base)[0] = 1
    BY PowerIs
  <2> QED BY <2>1
<1>3. CASE n = 0
  <2>1. count = 0
    <3> SUFFICES ASSUME count # 0 PROVE FALSE
      OBVIOUS
    <3>1. 0 \in 0 .. count - 1 BY <1>1 DEF IsCount
    <3> QED BY <1>1, <1>2, <1>3, <3>1 DEF IsCount
  <2>2. Digits(n, base) = <<>> BY <1>1, <2>1 DEF IsCount
  <2> QED BY <1>3, <2>2
<1>4. CASE n # 0
  <2>1. count # 0 BY <1>1, <1>2, <1>4 DEF IsCount
  <2>2. ~ (count > 1)
    <3> SUFFICES ASSUME count > 1 PROVE FALSE
      OBVIOUS
    <3>1. 1 \in 0 .. count - 1 BY <1>1 DEF IsCount
    <3> QED BY <1>1, <1>2, <3>1 DEF IsCount
  <2>3. count = 1 BY <1>1, <2>1, <2>2 DEF IsCount
  <2>4. (n \div 1) % base = n
    <3>1. n = base * 0 + n OBVIOUS
    <3>2. n % base = n BY <3>1, RemainderIs
    <3> QED BY <3>2
  <2>5. Digits(n, base) = [i \in 1 .. 1 |-> n]
    BY <1>1, <1>2, <2>3, <2>4 DEF IsCount
  <2> QED BY <1>4, <2>5
<1> QED BY <1>3, <1>4

\* Below the square of the base two digits are enough.
LEMMA TwoDigits ==
  ASSUME NEW base \in Nat \ {0, 1}, NEW n \in Nat, n < base * base
  PROVE  Len(Digits(n, base)) <= 2
<1>1. PICK count : IsCount(count, n, base)
  BY CountExists
<1>2. Power(base)[2] = base * base
  <2>1. Power(base)[0 + 1] = base * Power(base)[0] /\ Power(base)[0] = 1
        /\ Power(base)[1 + 1] = base * Power(base)[1]
    BY PowerIs
  <2>2. Power(base)[1] = base BY <2>1
  <2> QED BY <2>1, <2>2
<1>3. ~ (count > 2)
  <2> SUFFICES ASSUME count > 2 PROVE FALSE
    OBVIOUS
  <2>1. 2 \in 0 .. count - 1 BY <1>1 DEF IsCount
  <2>2. PICK s \in Nat : s = base * base OBVIOUS
  <2> QED BY <1>1, <1>2, <2>1, <2>2 DEF IsCount
<1>4. Len(Digits(n, base)) = count /\ count \in Nat
  BY <1>1, DigitsMakeUp DEF IsCount
<1> QED BY <1>3, <1>4

\* The bits of the number they make up.
LEMMA BitOfValue ==
  ASSUME NEW bits \in Seq({0, 1}), NEW i \in 1 .. Len(bits)
  PROVE  (ValueOf(bits, 2) \div Power(2)[i - 1]) % 2 = bits[i]
<1> DEFINE P == Power(2)
           len == Len(bits)
<1>1. P \in [Nat -> Nat] /\ \A k \in Nat : P[k + 1] = 2 * P[k]
  BY PowerIs
<1>2. PICK value : IsValue(value, bits, 2)
  <2>1. bits \in Seq(Nat) OBVIOUS
  <2> QED BY <2>1, ValueIs
<1>3. /\ len \in Nat /\ value \in [0 .. len -> Nat]
      /\ \A k \in 0 .. len - 1 : value[k + 1] = value[k] + bits[k + 1] * P[k]
      /\ \A k \in 1 .. len : bits[k] \in {0, 1}
      /\ ValueOf(bits, 2) = value[len]
  BY <1>2 DEF IsValue
<1>4. value[i - 1] < P[i - 1]
  <2>1. i - 1 \in 0 .. Len(bits) /\ 2 \in Nat \ {0} /\ bits \in Seq(0 .. 2 - 1)
    OBVIOUS
  <2> QED BY <1>2, <2>1, ValueBelow
<1> HIDE DEF P, len
<1>5. i \in Nat /\ i >= 1 /\ i <= len BY DEF len
<1>6. PICK p \in Nat, low \in Nat, b \in {0, 1} :
         p = P[i - 1] /\ low = value[i - 1] /\ b = bits[i] /\ low < p
  <2>1. i - 1 \in Nat /\ i - 1 \in 0 .. len /\ i \in 1 .. len BY <1>3, <1>5
  <2> QED BY <1>1, <1>3, <1>4, <2>1
<1> DEFINE Above(k, high, g) ==
             /\ P[k] = p * 2 * g
             /\ value[k] = low + p * (b + 2 * high)
           T == {k \in Nat : i <= k /\ k <= len =>
                               \E high \in Nat, g \in Nat : Above(k, high, g)}
<1> HIDE DEF Above
<1>7. \A k \in Nat : k \in T
  <2>1. 0 \in T BY <1>5
  <2>2. ASSUME NEW k \in Nat, k \in T PROVE k + 1 \in T
    <3> SUFFICES ASSUME i <= k + 1, k + 1 <= len
                 PROVE  \E high \in Nat, g \in Nat : Above(k + 1, high, g)
      OBVIOUS
    <3>1. k \in 0 .. len - 1 BY <1>3
    <3>2. value[k + 1] = value[k] + bits[k + 1] * P[k] /\ P[k + 1] = 2 * P[k]
      BY <1>1, <1>3, <3>1
    <3>3. CASE k + 1 = i
      <4>1. k = i - 1 BY <1>5, <3>3
      <4>2. value[k + 1] = low + b * p /\ P[k + 1] = 2 * p
        BY <1>6, <3>2, <3>3, <4>1
      <4>3. b * p = p * (b + 2 * 0) /\ 2 * p = p * 2 * 1 OBVIOUS
      <4>4. Above(k + 1, 0, 1) BY <4>2, <4>3 DEF Above
      <4> QED BY <4>4
    <3>4. CASE k + 1 # i
      <4>1. i <= k /\ k <= len BY <1>3, <1>5, <3>4
      <4>2. PICK high \in Nat, g \in Nat : Above(k, high, g)
        BY <2>2, <4>1
      <4>3. PICK c \in {0, 1} : c = bits[k + 1]
        <5>1. k + 1 \in 1 .. len BY <1>3
        <5> QED BY <1>3, <5>1
      <4>4. value[k + 1] = low + p * (b + 2 * high) + c * (p * 2 * g)
            /\ P[k + 1] = 2 * (p * 2 * g)
        BY <3>2, <4>2, <4>3 DEF Above
      <4>5. c * (p * 2 * g) = p * (2 * (c * g))
        <5>1. CASE c = 0 BY <5>1
        <5>2. CASE c = 1 BY <5>2
        <5> QED BY <5>1, <5>2
      <4>6. c * g \in Nat
        <5>1. CASE c = 0 BY <5>1
        <5>2. CASE c = 1 BY <5>2
        <5> QED BY <5>1, <5>2
      <4>7. PICK e \in Nat : e = c * g BY <4>6
      <4>8. p * (b + 2 * high) + p * (2 * e) = p * (b + 2 * (high + e))
        OBVIOUS
      <4>9. 2 * (p * 2 * g) = p * 2 * (2 * g)
        OBVIOUS
      <4>10. p * (b + 2 * high) \in Int /\ p * (2 * e) \in Int
        OBVIOUS
      <4>11. Above(k + 1, high + e, 2 * g)
        BY <4>4, <4>5, <4>7, <4>8, <4>9, <4>10 DEF Above
      <4>12. high + e \in Nat /\ 2 * g \in Nat OBVIOUS
      <4> QED BY <4>11, <4>12
    <3> QED BY <3>3, <3>4
  <2> HIDE DEF T
  <2> QED BY <2>1, <2>2, Induct
<1>8. PICK high \in Nat : value[len] = p * (b + 2 * high) + low
  <2>1. PICK high \in Nat, g \in Nat : Above(len, high, g)
    BY <1>3, <1>5, <1>7
  <2>2. p * (b + 2 * high) \in Int OBVIOUS
  <2> QED BY <2>1, <2>2 DEF Above
<1>9. value[len] \div p = b + 2 * high
  <2>1. value[len] \in Nat BY <1>3
  <2>2. b + 2 * high \in Int /\ low \in 0 .. p - 1 /\ p \in Nat \ {0} BY <1>6
  <2> QED BY <1>8, <2>1, <2>2, QuotientIs
<1>10. (b + 2 * high) % 2 = b
  OBVIOUS
<1> QED BY <1>3, <1>6, <1>9, <1>10 DEF P

-----------------------------------------------------------------------------
(* The header of an atom.                                                  *)

\* The values of a byte.
Byte == 0 .. Base - 1

\* Values from here on carry the mark that another chunk follows.
Half == Base \div 2

\* A byte has at least four values, an even number of them.
LEMMA BaseIs ==
  /\ Base \in Nat /\ Half \in Nat /\ Half >= 2 /\ Base = 2 * Half
  /\ Literals \in Nat /\ Short \in Nat /\ Literals + Short = Base - 2
<1>1. ByteBits - 1 \in Nat /\ ByteBits - 1 >= 1 /\ (ByteBits - 1) + 1 = ByteBits
  BY NumbersAssumption
<1>2. PICK h \in Nat : h = Power(2)[ByteBits - 1]
  BY <1>1, PowerIs
<1>3. Base = 2 * h
  BY <1>1, <1>2, PowerIs DEF Base
<1>4. h > ByteBits - 1
  BY <1>1, <1>2, PowerAbove
<1>5. Half = h /\ h >= 2
  BY <1>1, <1>3, <1>4 DEF Half
<1> QED BY <1>3, <1>5, CodecAssumption

\* A function on the first numbers is a sequence.
LEMMA FunctionIsSeq ==
  ASSUME NEW S, NEW n \in Nat, NEW f, f = [i \in 1 .. n |-> f[i]],
         \A i \in 1 .. n : f[i] \in S
  PROVE  f \in Seq(S) /\ Len(f) = n
OBVIOUS

\* Chunks marks all bytes but the last; without the marks they are the digits.
LEMMA ChunksAre ==
  ASSUME NEW n \in Nat \ {0}
  PROVE  /\ Chunks(n) \in Seq(Byte)
         /\ Len(Chunks(n)) \in Nat \ {0}
         /\ Len(Chunks(n)) = Len(Digits(n, Half))
         /\ \A i \in 1 .. Len(Chunks(n)) - 1 : Chunks(n)[i] >= Half
         /\ Chunks(n)[Len(Chunks(n))] < Half
         /\ [i \in 1 .. Len(Chunks(n)) |-> Chunks(n)[i] % Half] = Digits(n, Half)
<1> DEFINE digits == Digits(n, Half)
           chunks == Chunks(n)
<1>0. Half \in Nat \ {0, 1}
  BY BaseIs
<1>1. PICK len : IsCount(len, n, Half)
  BY <1>0, CountExists
<1>2. digits \in Seq(0 .. Half - 1) /\ Len(digits) = len /\ len \in Nat
  <2>1. len \in Nat BY <1>1 DEF IsCount
  <2> QED BY <1>0, <1>1, <2>1, DigitsMakeUp
<1>3. len # 0
  <2>1. Power(Half)[0] = 1 BY BaseIs, PowerIs
  <2> QED BY <1>1, <2>1 DEF IsCount
<1>4. chunks = [i \in 1 .. len |-> IF i < len THEN digits[i] + Half ELSE digits[i]]
  BY <1>2 DEF Chunks, Half
<1> HIDE DEF digits, chunks
<1>5. \A i \in 1 .. len : digits[i] \in 0 .. Half - 1
  BY <1>2, ElementOfSeq
<1>6. \A i \in 1 .. len : chunks[i] \in Byte
  BY <1>4, <1>5, BaseIs DEF Byte
<1>7. chunks \in Seq(Byte) /\ Len(chunks) = len
  <2>1. chunks = [i \in 1 .. len |-> chunks[i]] BY <1>4
  <2>2. len \in Nat BY <1>2
  <2> QED BY <1>6, <2>1, <2>2, FunctionIsSeq
<1>8. \A i \in 1 .. len - 1 : chunks[i] >= Half
  BY <1>2, <1>4, <1>5, BaseIs
<1>9. chunks[len] < Half
  BY <1>2, <1>3, <1>4, <1>5, BaseIs
<1>10. ASSUME NEW i \in 1 .. len PROVE chunks[i] % Half = digits[i]
  <2>1. PICK d \in 0 .. Half - 1 : d = digits[i] BY <1>5
  <2>2. Half \in Nat \ {0} BY BaseIs
  <2>3. (d + Half) % Half = d
    <3>1. d + Half = Half * 1 + d /\ d + Half \in Nat BY <2>2
    <3> QED BY <2>2, <3>1, RemainderIs
  <2>4. d % Half = d
    <3>1. d = Half * 0 + d /\ d \in Nat BY <2>2
    <3> QED BY <2>2, <3>1, RemainderIs
  <2> QED BY <1>4, <2>1, <2>3, <2>4
<1>11. [i \in 1 .. len |-> chunks[i] % Half] = digits
  <2>1. digits = [i \in 1 .. len |-> digits[i]] BY <1>2
  <2> QED BY <1>10, <2>1
<1> QED BY <1>2, <1>3, <1>7, <1>8, <1>9, <1>11 DEF digits, chunks

\* The place of the first byte without a mark.
LEMMA LastChunk ==
  ASSUME NEW seq \in Seq(Nat), NEW m \in 1 .. Len(seq), seq[m] < Half,
         \A i \in 1 .. m - 1 : seq[i] >= Half
  PROVE  SelectInSeq(seq, LAMBDA c : c < Base \div 2) = m
<1> DEFINE I == {i \in 1 .. Len(seq) : seq[i] < Half}
<1>1. m \in I /\ \A i \in I : m <= i
  <2>1. ASSUME NEW i \in I PROVE m <= i
    <3>1. seq[i] \in Nat /\ Half \in Nat /\ i \in Nat /\ m \in Nat BY BaseIs
    <3> QED BY <3>1
  <2> QED BY <2>1
<1>2. SelectInSeq(seq, LAMBDA c : c < Base \div 2) = Min(I)
  BY <1>1 DEF SelectInSeq, Half
<1>3. I \subseteq Nat OBVIOUS
<1> HIDE DEF I
<1>4. Min(I) = m
  <2>1. Min(I) = CHOOSE x \in I : \A y \in I : x <= y BY DEF Min
  <2>2. Min(I) \in I /\ \A y \in I : Min(I) <= y BY <1>1, <2>1
  <2>3. m <= Min(I) /\ Min(I) <= m BY <1>1, <2>2
  <2>4. m \in Nat /\ Min(I) \in Nat BY <1>1, <1>3, <2>2
  <2> QED BY <2>3, <2>4
<1> QED BY <1>2, <1>4

\* No chunk is found where all bytes carry the mark.
LEMMA NoLastChunk ==
  ASSUME NEW seq \in Seq(Nat), \A i \in 1 .. Len(seq) : seq[i] >= Half
  PROVE  SelectInSeq(seq, LAMBDA c : c < Base \div 2) = 0
<1>1. \A i \in 1 .. Len(seq) : ~ (seq[i] < Base \div 2)
  <2>1. \A i \in 1 .. Len(seq) : seq[i] \in Nat OBVIOUS
  <2> QED BY <2>1, BaseIs DEF Half
<1>2. {i \in 1 .. Len(seq) : seq[i] < Base \div 2} = {}
  BY <1>1
<1> QED BY <1>2 DEF SelectInSeq

\* What HeaderAt reads if there is no limit to the length.
ReadLast(bytes) == SelectInSeq(Tail(bytes), LAMBDA c : c < Base \div 2)

\* The bytes the header takes, by the same reading.
ReadTaken(bytes) == IF bytes[1] # Base - 1 THEN 1 ELSE ReadLast(bytes) + 1

\* The length the header gives, by the same reading.
ReadsTo(bytes) ==
  IF bytes[1] # Base - 1 THEN bytes[1] - Literals
  ELSE ValueOf([i \in 1 .. ReadLast(bytes) |-> Tail(bytes)[i] % Half], Half)

\* HeaderAt is that reading, up to the limit.
LEMMA HeaderAtIs ==
  ASSUME NEW bytes
  PROVE  HeaderAt(bytes) =
           IF bytes[1] = Base - 1 /\ ReadLast(bytes) \notin 1 .. MaxChunks THEN {}
           ELSE {[length |-> ReadsTo(bytes), taken |-> ReadTaken(bytes)]}
BY DEF HeaderAt, ReadLast, ReadTaken, ReadsTo, Half

\* The first byte of a header tells its form.
LEMMA HeaderIs ==
  ASSUME NEW n \in Nat
  PROVE  /\ Header(n) \in Seq(Byte)
         /\ Len(Header(n)) \in Nat \ {0}
         /\ Header(n)[1] >= Literals
         /\ n <= Short => Len(Header(n)) = 1 /\ Header(n)[1] = Literals + n
         /\ n > Short => /\ Header(n) = <<Base - 1>> \o Chunks(n)
                         /\ Header(n)[1] = Base - 1
                         /\ Len(Header(n)) = Len(Chunks(n)) + 1
<1>1. CASE n <= Short
  BY <1>1, BaseIs DEF Header, Byte
<1>2. CASE n > Short
  <2>1. n \in Nat \ {0} BY <1>2, BaseIs
  <2>2. Chunks(n) \in Seq(Byte) BY <2>1, ChunksAre
  <2>3. Base - 1 \in Byte BY BaseIs DEF Byte
  <2>4. ~ (n <= Short) BY <1>2, BaseIs
  <2>5. Header(n) = <<Base - 1>> \o Chunks(n) BY <2>4 DEF Header
  <2>6. Base - 1 >= Literals BY BaseIs
  <2> QED BY <1>2, <2>2, <2>3, <2>4, <2>5, <2>6
<1> QED BY <1>1, <1>2, BaseIs

\* A header is read as what it was written for, whatever follows it.
LEMMA HeaderReads ==
  ASSUME NEW n \in Nat, NEW rest \in Seq(Byte)
  PROVE  /\ ReadsTo(Header(n) \o rest) = n
         /\ ReadTaken(Header(n) \o rest) = Len(Header(n))
         /\ n > Short => ReadLast(Header(n) \o rest) = Len(Chunks(n))
<1> DEFINE bytes == Header(n) \o rest
<1>1. CASE n <= Short
  <2>1. Header(n) = <<Literals + n>> BY <1>1 DEF Header
  <2>2. bytes[1] = Literals + n BY <2>1
  <2>3. Literals + n # Base - 1 BY <1>1, BaseIs
  <2>4. (Literals + n) - Literals = n BY BaseIs
  <2>5. ~ (n > Short) BY <1>1, BaseIs
  <2>6. Len(Header(n)) = 1 BY <2>1
  <2> HIDE DEF bytes
  <2>7. ReadsTo(bytes) = n /\ ReadTaken(bytes) = 1
    BY <2>2, <2>3, <2>4 DEF ReadsTo, ReadTaken
  <2> QED BY <2>5, <2>6, <2>7 DEF bytes
<1>2. CASE n > Short
  <2> DEFINE chunks == Chunks(n)
             len == Len(chunks)
             seq == chunks \o rest
  <2>1. n \in Nat \ {0} BY <1>2, BaseIs
  <2>2. /\ chunks \in Seq(Byte) /\ len \in Nat \ {0}
        /\ \A i \in 1 .. len - 1 : chunks[i] >= Half
        /\ chunks[len] < Half
        /\ [i \in 1 .. len |-> chunks[i] % Half] = Digits(n, Half)
    BY <2>1, ChunksAre
  <2>3. ~ (n <= Short) BY <1>2, BaseIs
  <2>4. Header(n) = <<Base - 1>> \o chunks BY <2>3 DEF Header
  <2> HIDE DEF chunks
  <2>5. bytes[1] = Base - 1 /\ Tail(bytes) = seq /\ Len(Header(n)) = len + 1
    BY <2>2, <2>4
  <2>6. /\ seq \in Seq(Nat) /\ len \in 1 .. Len(seq)
        /\ \A i \in 1 .. len : seq[i] = chunks[i]
    <3>1. \A x \in Byte : x \in Nat BY BaseIs DEF Byte
    <3>2. chunks \in Seq(Nat) /\ rest \in Seq(Nat) BY <2>2, <3>1
    <3> QED BY <2>2, <3>2
  <2> HIDE DEF seq, bytes, len
  <2>7. SelectInSeq(seq, LAMBDA c : c < Base \div 2) = len
    <3>1. seq[len] < Half BY <2>2, <2>6
    <3>2. \A i \in 1 .. len - 1 : seq[i] >= Half BY <2>2, <2>6
    <3> QED BY <2>6, <3>1, <3>2, LastChunk
  <2>8. ReadLast(bytes) = len BY <2>5, <2>7 DEF ReadLast
  <2>9. [i \in 1 .. len |-> Tail(bytes)[i] % Half] = Digits(n, Half)
    BY <2>2, <2>5, <2>6
  <2>10. ValueOf(Digits(n, Half), Half) = n
    BY BaseIs, CountExists, DigitsMakeUp
  <2>11. ReadsTo(bytes) = n /\ ReadTaken(bytes) = len + 1
    BY <2>5, <2>8, <2>9, <2>10 DEF ReadsTo, ReadTaken
  <2> QED BY <2>5, <2>8, <2>11 DEF bytes, len, chunks
<1> QED BY <1>1, <1>2, BaseIs

-----------------------------------------------------------------------------
(* One atom.                                                               *)

\* The elements of two sequences put together.
LEMMA Both ==
  ASSUME NEW S, NEW a \in Seq(S), NEW b \in Seq(S)
  PROVE  /\ a \o b \in Seq(S)
         /\ Len(a) \in Nat /\ Len(b) \in Nat
         /\ Len(a \o b) = Len(a) + Len(b)
         /\ \A i \in 1 .. Len(a) : (a \o b)[i] = a[i]
         /\ \A i \in 1 .. Len(b) : (a \o b)[Len(a) + i] = b[i]
OBVIOUS

\* The second and the third of three sequences put together.
LEMMA CutOut ==
  ASSUME NEW S, NEW h \in Seq(S), NEW b \in Seq(S), NEW r \in Seq(S)
  PROVE  LET s == h \o (b \o r)
         IN /\ SubSeq(s, Len(h) + 1, Len(h) + Len(b)) = b
            /\ SubSeq(s, Len(h) + Len(b) + 1, Len(s)) = r
            /\ Len(s) = Len(h) + Len(b) + Len(r)
<1> DEFINE s == h \o (b \o r)
<1>1. PICK k \in Nat, m \in Nat, l \in Nat :
         k = Len(h) /\ m = Len(b) /\ l = Len(r)
  OBVIOUS
<1>2. /\ s \in Seq(S) /\ Len(s) = k + m + l
      /\ \A i \in 1 .. m : s[k + i] = b[i]
      /\ \A i \in 1 .. l : s[k + m + i] = r[i]
  <2> DEFINE t == b \o r
  <2>1. /\ t \in Seq(S) /\ Len(t) = m + l
        /\ \A i \in 1 .. m : t[i] = b[i]
        /\ \A i \in 1 .. l : t[m + i] = r[i]
    BY <1>1, Both
  <2> HIDE DEF t
  <2>2. /\ h \o t \in Seq(S) /\ Len(h \o t) = k + (m + l)
        /\ \A i \in 1 .. m + l : (h \o t)[k + i] = t[i]
    <3>1. /\ h \o t \in Seq(S)
          /\ Len(h \o t) = Len(h) + Len(t)
          /\ \A i \in 1 .. Len(t) : (h \o t)[Len(h) + i] = t[i]
      <4>1. t \in Seq(S) BY <2>1
      <4> QED BY ONLY <4>1, Both, h \in Seq(S)
    <3> QED BY ONLY <1>1, <2>1, <3>1
  <2>3. s = h \o t BY DEF t
  <2> HIDE DEF s
  <2>4. s \in Seq(S) /\ Len(s) = k + m + l
    BY <2>2, <2>3
  <2>5. ASSUME NEW i \in 1 .. m PROVE s[k + i] = b[i]
    <3>1. i \in 1 .. m + l OBVIOUS
    <3> QED BY <2>1, <2>2, <2>3, <3>1
  <2>6. ASSUME NEW i \in 1 .. l PROVE s[k + m + i] = r[i]
    <3>1. m + i \in 1 .. m + l /\ k + (m + i) = k + m + i OBVIOUS
    <3> QED BY <2>1, <2>2, <2>3, <3>1
  <2> QED BY ONLY <2>4, <2>5, <2>6
<1> HIDE DEF s
<1>3. SubSeq(s, k + 1, k + m) = b
  <2> DEFINE t == SubSeq(s, k + 1, k + m)
  <2>1. t \in Seq(S) /\ Len(t) = m /\ \A i \in 1 .. m : t[i] = s[k + i]
    BY <1>1, <1>2
  <2> HIDE DEF t
  <2>2. \A i \in 1 .. m : t[i] = b[i] BY <1>2, <2>1
  <2>3. t = b BY <1>1, <2>1, <2>2, SeqEqual
  <2> QED BY <2>3 DEF t
<1>4. SubSeq(s, k + m + 1, k + m + l) = r
  <2> DEFINE t == SubSeq(s, k + m + 1, k + m + l)
  <2>1. t \in Seq(S) /\ Len(t) = l /\ \A i \in 1 .. l : t[i] = s[k + m + i]
    BY <1>1, <1>2
  <2> HIDE DEF t
  <2>2. \A i \in 1 .. l : t[i] = r[i] BY <1>2, <2>1
  <2>3. t = r BY <1>1, <2>1, <2>2, SeqEqual
  <2> QED BY <2>3 DEF t
<1> QED BY <1>1, <1>2, <1>3, <1>4 DEF s

\* An atom is either a byte below Literals or comes after a header.
LEMMA AtomEncodingIs ==
  ASSUME NEW bytes \in Seq(Byte)
  PROVE  /\ AtomEncoding(bytes) \in Seq(Byte)
         /\ Len(bytes) \in Nat
         /\ IsLiteral(bytes) => /\ AtomEncoding(bytes) = <<bytes[1]>>
                                /\ bytes = <<bytes[1]>>
                                /\ bytes[1] \in Byte /\ bytes[1] < Literals
         /\ ~ IsLiteral(bytes) =>
              AtomEncoding(bytes) = Header(Len(bytes)) \o bytes
         /\ Len(AtomEncoding(bytes)) > 0
<1>1. Len(bytes) \in Nat
  OBVIOUS
<1>2. CASE IsLiteral(bytes)
  <2>1. Len(bytes) = 1 /\ bytes[1] < Literals /\ AtomEncoding(bytes) = bytes
    BY <1>2 DEF AtomEncoding, IsLiteral
  <2>2. bytes[1] \in Byte /\ bytes = <<bytes[1]>>
    BY <2>1
  <2> QED BY <1>1, <1>2, <2>1, <2>2
<1>3. CASE ~ IsLiteral(bytes)
  <2>1. AtomEncoding(bytes) = Header(Len(bytes)) \o bytes
    BY <1>3 DEF AtomEncoding
  <2>2. Header(Len(bytes)) \in Seq(Byte) /\ Len(Header(Len(bytes))) \in Nat \ {0}
    BY <1>1, HeaderIs
  <2>3. Header(Len(bytes)) \o bytes \in Seq(Byte)
        /\ Len(Header(Len(bytes)) \o bytes) > 0
    BY <1>1, <2>2
  <2> QED BY <1>1, <1>3, <2>1, <2>3
<1> QED BY <1>2, <1>3

\* What a buffer with an atom's encoding at its start looks like to the reader.
LEMMA StartsWithAtom ==
  ASSUME NEW bytes \in Seq(Byte), NEW rest \in Seq(Byte)
  PROVE  LET s == AtomEncoding(bytes) \o rest
         IN /\ s \in Seq(Byte) /\ s # <<>>
            /\ IsLiteral(bytes) => /\ s[1] = bytes[1] /\ s[1] < Literals
                                   /\ Tail(s) = rest
            /\ ~ IsLiteral(bytes) =>
                 LET head == Len(Header(Len(bytes)))
                 IN /\ s[1] >= Literals /\ ~ (s[1] < Literals)
                    /\ ReadsTo(s) = Len(bytes)
                    /\ ReadTaken(s) = head
                    /\ SubSeq(s, head + 1, head + Len(bytes)) = bytes
                    /\ SubSeq(s, head + Len(bytes) + 1, Len(s)) = rest
                    /\ head + Len(bytes) <= Len(s)
                    /\ s[1] = Base - 1 =>
                         ReadLast(s) = Len(Digits(Len(bytes), Half))
                         /\ ReadLast(s) \in Nat \ {0}
<1> DEFINE s == AtomEncoding(bytes) \o rest
           header == Header(Len(bytes))
           head == Len(header)
<1>1. /\ AtomEncoding(bytes) \in Seq(Byte) /\ Len(AtomEncoding(bytes)) > 0
      /\ Len(bytes) \in Nat
  BY AtomEncodingIs
<1>2. s \in Seq(Byte) /\ s # <<>>
  BY <1>1
<1>3. ASSUME IsLiteral(bytes)
      PROVE  s[1] = bytes[1] /\ s[1] < Literals /\ Tail(s) = rest
  <2>1. AtomEncoding(bytes) = <<bytes[1]>> /\ bytes[1] \in Byte /\ bytes[1] < Literals
    BY <1>3, AtomEncodingIs
  <2>2. s = <<bytes[1]>> \o rest BY <2>1
  <2>3. s[1] = bytes[1] /\ Tail(s) = rest BY <2>1, <2>2
  <2> QED BY <2>1, <2>3
<1>4. ASSUME ~ IsLiteral(bytes)
      PROVE  /\ s[1] >= Literals /\ ~ (s[1] < Literals)
             /\ ReadsTo(s) = Len(bytes)
             /\ ReadTaken(s) = head
             /\ SubSeq(s, head + 1, head + Len(bytes)) = bytes
             /\ SubSeq(s, head + Len(bytes) + 1, Len(s)) = rest
             /\ head + Len(bytes) <= Len(s)
             /\ s[1] = Base - 1 =>
                  ReadLast(s) = Len(Digits(Len(bytes), Half))
                  /\ ReadLast(s) \in Nat \ {0}
  <2>1. /\ header \in Seq(Byte) /\ head \in Nat \ {0} /\ header[1] >= Literals
        /\ Len(bytes) <= Short => header[1] = Literals + Len(bytes)
    BY <1>1, HeaderIs
  <2> HIDE DEF header
  <2>2. s = header \o (bytes \o rest)
    <3>1. AtomEncoding(bytes) = header \o bytes
      BY <1>4, AtomEncodingIs DEF header
    <3> QED BY <2>1, <3>1, ConcatAssociative
  <2>3. bytes \o rest \in Seq(Byte) OBVIOUS
  <2>4. s[1] = header[1] BY <2>1, <2>2, <2>3
  <2>5. header[1] \in Byte BY <2>1
  <2>6. s[1] >= Literals /\ ~ (s[1] < Literals)
    BY <2>1, <2>4, <2>5, BaseIs DEF Byte
  <2>7. /\ ReadsTo(s) = Len(bytes) /\ ReadTaken(s) = head
        /\ Len(bytes) > Short => ReadLast(s) = Len(Chunks(Len(bytes)))
    BY <1>1, <2>2, <2>3, HeaderReads DEF header
  <2>8. /\ SubSeq(s, head + 1, head + Len(bytes)) = bytes
        /\ SubSeq(s, head + Len(bytes) + 1, Len(s)) = rest
        /\ Len(s) = head + Len(bytes) + Len(rest)
    BY <2>1, <2>2, CutOut
  <2>9. head + Len(bytes) <= Len(s)
    <3>1. Len(rest) \in Nat OBVIOUS
    <3> QED BY <1>1, <2>1, <2>8, <3>1
  <2>10. ASSUME s[1] = Base - 1
         PROVE  /\ ReadLast(s) = Len(Digits(Len(bytes), Half))
                /\ ReadLast(s) \in Nat \ {0}
    <3>1. Len(bytes) > Short
      BY <1>1, <2>1, <2>4, <2>10, BaseIs
    <3>2. Len(bytes) \in Nat \ {0} BY <1>1, <3>1, BaseIs
    <3> QED BY <2>7, <3>1, <3>2, ChunksAre
  <2> QED BY <2>6, <2>7, <2>8, <2>9, <2>10 DEF header
<1> QED BY <1>2, <1>3, <1>4

\* Two buffers that are equal and start with an atom start with the same one.
LEMMA AtomIdentified ==
  ASSUME NEW b \in Seq(Byte), NEW c \in Seq(Byte),
         NEW r \in Seq(Byte), NEW s \in Seq(Byte),
         AtomEncoding(b) \o r = AtomEncoding(c) \o s
  PROVE  b = c /\ r = s
<1> DEFINE buf == AtomEncoding(b) \o r
<1>1. buf = AtomEncoding(c) \o s
  OBVIOUS
<1>2. IsLiteral(b) <=> IsLiteral(c)
  BY <1>1, StartsWithAtom
<1>3. CASE IsLiteral(b)
  <2>1. b[1] = c[1] /\ r = s
    <3>1. buf[1] = b[1] /\ Tail(buf) = r BY <1>3, StartsWithAtom
    <3> HIDE DEF buf
    <3>2. buf[1] = c[1] /\ Tail(buf) = s
      BY <1>1, <1>2, <1>3, StartsWithAtom
    <3> QED BY <3>1, <3>2
  <2>2. b = <<b[1]>> /\ c = <<c[1]>> BY <1>2, <1>3, AtomEncodingIs
  <2> QED BY <2>1, <2>2
<1>4. CASE ~ IsLiteral(b)
  <2>1. /\ ReadsTo(buf) = Len(b) /\ ReadTaken(buf) = Len(Header(Len(b)))
        /\ SubSeq(buf, Len(Header(Len(b))) + 1, Len(Header(Len(b))) + Len(b)) = b
        /\ SubSeq(buf, Len(Header(Len(b))) + Len(b) + 1, Len(buf)) = r
    BY <1>4, StartsWithAtom
  <2>2. /\ ReadsTo(buf) = Len(c) /\ ReadTaken(buf) = Len(Header(Len(c)))
        /\ SubSeq(buf, Len(Header(Len(c))) + 1, Len(Header(Len(c))) + Len(c)) = c
        /\ SubSeq(buf, Len(Header(Len(c))) + Len(c) + 1, Len(buf)) = s
    <3> HIDE DEF buf
    <3>1. ~ IsLiteral(c) BY <1>2, <1>4
    <3> QED BY <1>1, <3>1, StartsWithAtom
  <2> HIDE DEF buf
  <2>3. Len(b) = Len(c) /\ Len(Header(Len(b))) = Len(Header(Len(c)))
    BY <2>1, <2>2
  <2> QED BY <2>1, <2>2, <2>3
<1> QED BY <1>3, <1>4

\* deserialize_atom reads an atom back, whatever follows it, unless its length
\* takes more chunks than fit a usize.
LEMMA AtomRead ==
  ASSUME NEW bytes \in Seq(Byte), NEW rest \in Seq(Byte),
         Len(Digits(Len(bytes), Half)) <= MaxChunks
  PROVE  AtomAt(AtomEncoding(bytes) \o rest) = {[bytes |-> bytes, rest |-> rest]}
<1> DEFINE s == AtomEncoding(bytes) \o rest
           head == Len(Header(Len(bytes)))
<1>1. s # <<>>
  BY StartsWithAtom
<1>2. CASE IsLiteral(bytes)
  <2>1. s[1] = bytes[1] /\ s[1] < Literals /\ Tail(s) = rest
    BY <1>2, StartsWithAtom
  <2>2. bytes = <<bytes[1]>> BY <1>2, AtomEncodingIs
  <2> HIDE DEF s
  <2>3. AtomAt(s) = {[bytes |-> <<s[1]>>, rest |-> Tail(s)]}
    BY <1>1, <2>1 DEF AtomAt
  <2>4. AtomAt(s) = {[bytes |-> bytes, rest |-> rest]}
    BY <2>1, <2>2, <2>3
  <2> QED BY <2>4 DEF s
<1>3. CASE ~ IsLiteral(bytes)
  <2>1. /\ ~ (s[1] < Literals)
        /\ ReadsTo(s) = Len(bytes) /\ ReadTaken(s) = head
        /\ SubSeq(s, head + 1, head + Len(bytes)) = bytes
        /\ SubSeq(s, head + Len(bytes) + 1, Len(s)) = rest
        /\ head + Len(bytes) <= Len(s)
        /\ s[1] = Base - 1 => ReadLast(s) = Len(Digits(Len(bytes), Half))
                              /\ ReadLast(s) \in Nat \ {0}
    BY <1>3, StartsWithAtom
  <2> HIDE DEF s, head
  <2>2. HeaderAt(s) = {[length |-> Len(bytes), taken |-> head]}
    <3>1. s[1] = Base - 1 => ReadLast(s) \in 1 .. MaxChunks
      BY <2>1, CodecAssumption
    <3> QED BY <2>1, <3>1, HeaderAtIs
  <2>3. AtomAt(s) = {[bytes |-> SubSeq(s, h.taken + 1, h.taken + h.length),
                      rest  |-> SubSeq(s, h.taken + h.length + 1, Len(s))] :
                       h \in {g \in HeaderAt(s) : g.taken + g.length <= Len(s)}}
    BY <1>1, <2>1 DEF AtomAt
  <2> DEFINE h0 == [length |-> Len(bytes), taken |-> head]
  <2>4. {g \in HeaderAt(s) : g.taken + g.length <= Len(s)} = {h0}
    <3>1. h0.taken + h0.length <= Len(s) BY <2>1
    <3> QED BY <2>2, <3>1
  <2>5. h0.taken = head /\ h0.length = Len(bytes) OBVIOUS
  <2>6. AtomAt(s) = {[bytes |-> SubSeq(s, h0.taken + 1, h0.taken + h0.length),
                      rest  |-> SubSeq(s, h0.taken + h0.length + 1, Len(s))]}
    <3> HIDE DEF h0
    <3> QED BY <2>3, <2>4
  <2>7. AtomAt(s) = {[bytes |-> bytes, rest |-> rest]}
    BY <2>1, <2>5, <2>6
  <2> QED BY <2>7 DEF s
<1> QED BY <1>2, <1>3

\* Of an encoding that was cut off nothing is read.
LEMMA AtomCutOff ==
  ASSUME NEW bytes \in Seq(Byte),
         NEW j \in 0 .. Len(AtomEncoding(bytes)) - 1
  PROVE  AtomAt(SubSeq(AtomEncoding(bytes), 1, j)) = {}
<1> DEFINE whole == AtomEncoding(bytes)
           s == SubSeq(whole, 1, j)
           n == Len(bytes)
           header == Header(n)
           head == Len(header)
<1>1. whole \in Seq(Byte) /\ n \in Nat
  BY AtomEncodingIs
<1>2. s \in Seq(Byte) /\ Len(s) = j /\ \A i \in 1 .. j : s[i] = whole[i]
  BY <1>1
<1>3. CASE j = 0
  <2>1. s = <<>> BY <1>2, <1>3
  <2> QED BY <2>1 DEF AtomAt
<1>4. CASE j > 0
  <2>1. ~ IsLiteral(bytes)
    <3> SUFFICES ASSUME IsLiteral(bytes) PROVE FALSE
      OBVIOUS
    <3>1. Len(whole) = 1 BY AtomEncodingIs
    <3> QED BY <1>4, <3>1
  <2>2. whole = header \o bytes
    BY <2>1, AtomEncodingIs
  <2>3. /\ header \in Seq(Byte) /\ head \in Nat \ {0} /\ header[1] >= Literals
        /\ n <= Short => head = 1
        /\ n > Short => /\ header = <<Base - 1>> \o Chunks(n)
                        /\ header[1] = Base - 1
                        /\ head = Len(Chunks(n)) + 1
    BY <1>1, HeaderIs
  <2>4. j < head + n
    <3>1. Len(whole) = head + n BY <1>1, <2>2, <2>3
    <3> QED BY <3>1
  <2> HIDE DEF header
  <2>5. s # <<>> BY <1>2, <1>4
  <2>6. s[1] = header[1] BY <1>2, <1>4, <2>2, <2>3
  <2>7. ~ (s[1] < Literals)
    <3>1. header[1] \in Byte BY <2>3
    <3>2. PICK x \in Byte : x = header[1] /\ x >= Literals BY <2>3, <3>1
    <3>3. ~ (x < Literals) BY <3>2, BaseIs DEF Byte
    <3> QED BY <2>6, <3>2, <3>3
  <2>8. CASE j < head
    <3>0. n > Short /\ n \in Nat \ {0}
      <4>1. head # 1
        <5>1. j \in Nat /\ head \in Nat BY <1>1, <2>3
        <5> HIDE DEF head
        <5> QED BY <1>4, <2>8, <5>1
      <4>2. ~ (n <= Short) BY <2>3, <4>1
      <4> HIDE DEF n
      <4> QED BY <1>1, <4>2, BaseIs
    <3>1. n > Short /\ n \in Nat \ {0} /\ s[1] = Base - 1
      BY <2>3, <2>6, <3>0
    <3> DEFINE chunks == Chunks(n)
               t == Tail(s)
    <3>2. /\ chunks \in Seq(Byte) /\ Len(chunks) = head - 1
          /\ \A i \in 1 .. Len(chunks) - 1 : chunks[i] >= Half
      BY <2>3, <3>1, ChunksAre
    <3>3. header = <<Base - 1>> \o chunks BY <2>3, <3>1
    <3> HIDE DEF chunks
    <3>4. t \in Seq(Byte) /\ Len(t) = j - 1 /\ \A i \in 1 .. j - 1 : t[i] = s[i + 1]
      BY <1>2, <1>4, <2>5
    <3> HIDE DEF t
    <3>5. ASSUME NEW i \in 1 .. j - 1 PROVE t[i] >= Half
      <4>1. t[i] = whole[i + 1] BY <1>2, <3>4
      <4>2. i + 1 \in 1 .. head BY <2>3, <2>8
      <4>3. whole[i + 1] = header[i + 1] BY <2>2, <2>3, <4>2
      <4>4. header[i + 1] = chunks[i] BY <2>3, <3>2, <3>3, <4>2
      <4>5. i \in 1 .. Len(chunks) - 1 BY <2>3, <2>8, <3>2
      <4> QED BY <3>2, <4>1, <4>3, <4>4, <4>5
    <3>6. ReadLast(s) = 0
      <4>1. \A x \in Byte : x \in Nat BY BaseIs DEF Byte
      <4>2. t \in Seq(Nat) BY <3>4, <4>1
      <4>3. \A i \in 1 .. Len(t) : t[i] >= Half BY <3>4, <3>5
      <4>4. SelectInSeq(t, LAMBDA c : c < Base \div 2) = 0
        BY <4>2, <4>3, NoLastChunk
      <4> QED BY <4>4 DEF ReadLast, t
    <3> HIDE DEF s
    <3>7. HeaderAt(s) = {} BY <3>1, <3>6, HeaderAtIs
    <3>8. AtomAt(s) = {} BY <2>5, <2>7, <3>7 DEF AtomAt
    <3> QED BY <3>8 DEF s
  <2>9. CASE j >= head
    <3> DEFINE b == SubSeq(bytes, 1, j - head)
    <3>1. b \in Seq(Byte) /\ Len(b) = j - head /\ \A i \in 1 .. j - head : b[i] = bytes[i]
      BY <1>1, <2>3, <2>4, <2>9
    <3> HIDE DEF b
    <3>2. s = header \o b
      <4>1. header \o b \in Seq(Byte) /\ Len(header \o b) = j
        BY <2>3, <2>9, <3>1
      <4>2. ASSUME NEW i \in 1 .. j PROVE s[i] = (header \o b)[i]
        <5>1. s[i] = (header \o bytes)[i] BY <1>2, <2>2
        <5>2. CASE i <= head
          BY <2>3, <3>1, <5>1, <5>2
        <5>3. CASE i > head
          <6>1. i - head \in 1 .. j - head /\ i - head \in 1 .. n BY <1>1, <2>3, <2>4, <5>3
          <6>2. (header \o b)[i] = b[i - head] BY <2>3, <3>1, <5>3, <6>1
          <6>3. (header \o bytes)[i] = bytes[i - head]
            BY <1>1, <2>3, <5>3, <6>1
          <6> QED BY <3>1, <5>1, <6>1, <6>2, <6>3
        <5>4. i <= head \/ i > head
          <6>1. i \in Nat /\ head \in Nat BY <2>3
          <6> HIDE DEF head
          <6> QED BY <6>1
        <5> QED BY <5>2, <5>3, <5>4
      <4> HIDE DEF s
      <4> QED BY <1>2, <4>1, <4>2, SeqEqual
    <3>3. ReadsTo(s) = n /\ ReadTaken(s) = head
      BY <1>1, <3>1, <3>2, HeaderReads DEF header
    <3> HIDE DEF s, head, n
    <3>4. HeaderAt(s) \subseteq {[length |-> n, taken |-> head]}
      BY <3>3, HeaderAtIs
    <3>5. {g \in HeaderAt(s) : g.taken + g.length <= Len(s)} = {}
      <4>1. ~ (head + n <= Len(s)) BY <1>1, <1>2, <2>3, <2>4
      <4> QED BY <3>4, <4>1
    <3>6. AtomAt(s) = {} BY <2>5, <2>7, <3>5 DEF AtomAt
    <3> QED BY <3>6 DEF s
  <2> QED BY <2>3, <2>8, <2>9
<1> QED BY <1>3, <1>4

-----------------------------------------------------------------------------
(* The prefix.                                                             *)

\* from_usize_compact writes bytes, for a number below Base at most one of
\* them, which as_usize reads as that number.
LEMMA CompactIs ==
  ASSUME NEW n \in Nat
  PROVE  /\ FromUsizeCompact(n) \in Seq(Byte)
         /\ n \in Byte => FromUsizeCompact(n) = IF n = 0 THEN <<>> ELSE <<n>>
         /\ n \in Byte => AsUsize(FromUsizeCompact(n)) = {n}
<1> DEFINE digits == Digits(n, Base)
<1>1. Base \in Nat \ {0, 1}
  BY BaseIs
<1>2. digits \in Seq(Byte) /\ ValueOf(digits, Base) = n
  BY <1>1, CountExists, DigitsMakeUp DEF Byte
<1>3. n \in Byte => digits = IF n = 0 THEN <<>> ELSE <<n>>
  BY <1>1, OneDigit DEF Byte
<1> HIDE DEF digits
<1>4. Reverse(digits) \in Seq(Byte)
  <2>1. PICK len \in Nat : len = Len(digits) BY <1>2
  <2>2. \A i \in 1 .. len : digits[(len - i) + 1] \in Byte
    BY <1>2, <2>1
  <2>3. Reverse(digits) = [i \in 1 .. len |-> digits[(len - i) + 1]]
    BY <2>1 DEF Reverse
  <2> QED BY <2>2, <2>3
<1>5. ASSUME n \in Byte
      PROVE  /\ Reverse(digits) = digits
             /\ AsUsize(digits) = {n}
  <2>1. CASE n = 0
    <3>1. digits = <<>> BY <1>3, <1>5, <2>1
    <3>2. Reverse(digits) = digits BY <3>1 DEF Reverse
    <3>3. AsUsize(digits) = {ValueOf(digits, Base)}
      <4>1. DOMAIN digits = {} BY <3>1
      <4> QED BY <4>1 DEF AsUsize
    <3> QED BY <1>2, <3>2, <3>3
  <2>2. CASE n # 0
    <3>1. digits = <<n>> BY <1>3, <1>5, <2>2
    <3>2. Reverse(digits) = digits
      <4>1. Reverse(<<n>>) = [i \in 1 .. 1 |-> <<n>>[(1 - i) + 1]] BY DEF Reverse
      <4>2. [i \in 1 .. 1 |-> <<n>>[(1 - i) + 1]] = <<n>> OBVIOUS
      <4> QED BY <3>1, <4>1, <4>2
    <3>3. AsUsize(digits) = {ValueOf(digits, Base)}
      <4>1. DOMAIN digits = {1} BY <3>1
      <4>2. ~ (1 > UsizeBytes) BY NumbersAssumption
      <4> QED BY <4>1, <4>2 DEF AsUsize
    <3> QED BY <1>2, <3>2, <3>3
  <2> QED BY <2>1, <2>2
<1> QED BY <1>3, <1>4, <1>5 DEF FromUsizeCompact, digits

\* A prefix stands for one number only.
LEMMA CompactIdentifies ==
  ASSUME NEW n \in Nat, NEW m \in Nat, FromUsizeCompact(n) = FromUsizeCompact(m)
  PROVE  n = m
<1>1. Base \in Nat \ {0, 1}
  BY BaseIs
<1>2. /\ Digits(n, Base) \in Seq(Byte) /\ ValueOf(Digits(n, Base), Base) = n
      /\ Digits(m, Base) \in Seq(Byte) /\ ValueOf(Digits(m, Base), Base) = m
  BY <1>1, CountExists, DigitsMakeUp DEF Byte
<1>3. ASSUME NEW s \in Seq(Byte), NEW t \in Seq(Byte), Reverse(s) = Reverse(t)
      PROVE  s = t
  <2>1. PICK k \in Nat, l \in Nat : k = Len(s) /\ l = Len(t) OBVIOUS
  <2>2. /\ Reverse(s) = [i \in 1 .. k |-> s[(k - i) + 1]]
        /\ Reverse(t) = [i \in 1 .. l |-> t[(l - i) + 1]]
    BY <2>1 DEF Reverse
  <2>3. Len(Reverse(s)) = k /\ Len(Reverse(t)) = l BY <2>2
  <2>4. k = l BY <1>3, <2>3
  <2>5. ASSUME NEW i \in 1 .. k PROVE s[i] = t[i]
    <3>1. k - i + 1 \in 1 .. k /\ (k - (k - i + 1)) + 1 = i OBVIOUS
    <3>2. Reverse(s)[k - i + 1] = s[i] BY <2>2, <3>1
    <3>3. Reverse(t)[k - i + 1] = t[i] BY <2>2, <2>4, <3>1
    <3> QED BY <1>3, <3>2, <3>3
  <2> QED BY <2>1, <2>4, <2>5, SeqEqual
<1>4. Digits(n, Base) = Digits(m, Base)
  BY <1>2, <1>3 DEF FromUsizeCompact
<1> QED BY <1>2, <1>4

\* Two chunks are enough for a length below the number of values of a byte.
LEMMA FewChunks ==
  ASSUME NEW n \in Byte
  PROVE  Len(Digits(n, Half)) <= MaxChunks
<1>1. Half \in Nat \ {0, 1} /\ n \in Nat /\ n < 2 * Half
  BY BaseIs DEF Byte
<1>2. n < Half * Half
  <2>1. PICK c \in Nat : Half = 2 + c
    <3>1. Half - 2 \in Nat /\ Half = 2 + (Half - 2) BY <1>1
    <3> QED BY <3>1
  <2>2. Half * Half = 2 * Half + c * Half /\ c * Half \in Nat
    BY <1>1, <2>1
  <2> QED BY <1>1, <2>2
<1>3. Len(Digits(n, Half)) <= 2
  BY <1>1, <1>2, TwoDigits
<1>4. Len(Digits(n, Half)) \in Nat
  BY <1>1, CountExists, DigitsMakeUp
<1> QED BY <1>3, <1>4, CodecAssumption

\* Sequences of digits, equally many, that make up the same number are the same.
LEMMA ValueIdentifies ==
  ASSUME NEW base \in Nat \ {0}, NEW s \in Seq(0 .. base - 1), NEW t \in Seq(0 .. base - 1),
         Len(s) = Len(t), ValueOf(s, base) = ValueOf(t, base)
  PROVE  s = t
<1> DEFINE P == Power(base)
           len == Len(s)
<1>1. P \in [Nat -> Nat]
  BY PowerIs
<1>2. PICK v : IsValue(v, s, base)
  <2>1. s \in Seq(Nat) OBVIOUS
  <2> QED BY <2>1, ValueIs
<1>3. PICK w : IsValue(w, t, base)
  <2>1. t \in Seq(Nat) OBVIOUS
  <2> QED BY <2>1, ValueIs
<1>4. /\ len \in Nat /\ v[len] = w[len]
      /\ \A k \in 0 .. len : v[k] \in Nat /\ w[k] \in Nat
      /\ \A k \in 0 .. len - 1 : /\ v[k + 1] = v[k] + s[k + 1] * P[k]
                                 /\ w[k + 1] = w[k] + t[k + 1] * P[k]
  <2>1. /\ v \in [0 .. len -> Nat] /\ ValueOf(s, base) = v[len]
        /\ \A k \in 0 .. len - 1 : v[k + 1] = v[k] + s[k + 1] * P[k]
    BY <1>2 DEF IsValue
  <2>2. /\ w \in [0 .. len -> Nat] /\ ValueOf(t, base) = w[len]
        /\ \A k \in 0 .. len - 1 : w[k + 1] = w[k] + t[k + 1] * P[k]
    BY <1>3 DEF IsValue
  <2>3. len \in Nat OBVIOUS
  <2> HIDE DEF P, len
  <2> QED BY <2>1, <2>2, <2>3
<1>5. \A k \in 0 .. len : v[k] < P[k] /\ w[k] < P[k]
  BY <1>2, <1>3, ValueBelow
<1>6. \A k \in 0 .. len - 1 : s[k + 1] \in 0 .. base - 1 /\ t[k + 1] \in 0 .. base - 1
  OBVIOUS
<1> HIDE DEF P, len
<1>7. ASSUME NEW k \in 0 .. len - 1, v[k + 1] = w[k + 1]
      PROVE  s[k + 1] = t[k + 1] /\ v[k] = w[k]
  <2>1. k \in 0 .. len /\ k \in Nat BY <1>4
  <2>2. PICK p \in Nat \ {0} : p = P[k]
    <3>1. P[k] \in Nat /\ v[k] < P[k] /\ v[k] \in Nat BY <1>1, <1>4, <1>5, <2>1
    <3> QED BY <3>1
  <2>3. PICK a \in Nat, b \in Nat, q \in Int, o \in Int :
          a = v[k] /\ b = w[k] /\ q = s[k + 1] /\ o = t[k + 1]
    <3>1. v[k] \in Nat /\ w[k] \in Nat BY <1>4, <2>1
    <3>2. s[k + 1] \in 0 .. base - 1 /\ t[k + 1] \in 0 .. base - 1 BY <1>6
    <3>3. s[k + 1] \in Int /\ t[k + 1] \in Int BY <3>2
    <3> QED BY <3>1, <3>3
  <2>4. a \in 0 .. p - 1 /\ b \in 0 .. p - 1
    BY <1>5, <2>1, <2>2, <2>3
  <2>5. a + q * p = b + o * p
    BY <1>4, <1>7, <2>2, <2>3
  <2>6. p * q + a = p * o + b
    <3>1. q * p = p * q /\ o * p = p * o /\ p * q \in Int /\ p * o \in Int OBVIOUS
    <3> QED BY <2>5, <3>1
  <2>7. q = o BY <2>4, <2>6, QuotientUnique
  <2>8. a = b
    <3>1. q * p \in Int OBVIOUS
    <3> QED BY <2>5, <2>7, <3>1
  <2> QED BY <2>3, <2>7, <2>8
<1> DEFINE T == {d \in Nat : d <= len => v[len - d] = w[len - d]}
<1>8. \A d \in Nat : d \in T
  <2>1. 0 \in T
    <3>1. len - 0 = len BY <1>4
    <3> QED BY <1>4, <3>1
  <2>2. ASSUME NEW d \in Nat, d \in T PROVE d + 1 \in T
    <3> SUFFICES ASSUME d + 1 <= len PROVE v[len - (d + 1)] = w[len - (d + 1)]
      OBVIOUS
    <3> DEFINE k == len - (d + 1)
    <3>1. k \in 0 .. len - 1 /\ k + 1 = len - d /\ d <= len BY <1>4
    <3>2. v[k + 1] = w[k + 1] BY <2>2, <3>1
    <3> HIDE DEF k
    <3>3. v[k] = w[k] BY <1>7, <3>1, <3>2
    <3> QED BY <3>3 DEF k
  <2> HIDE DEF T
  <2> QED BY <2>1, <2>2, Induct
<1>9. \A k \in 0 .. len : v[k] = w[k]
  <2> SUFFICES ASSUME NEW k \in 0 .. len PROVE v[k] = w[k]
    OBVIOUS
  <2>1. len - k \in Nat /\ len - k <= len /\ len - (len - k) = k BY <1>4
  <2>2. len - k \in T BY <1>8, <2>1
  <2> QED BY <2>1, <2>2
<1>10. \A i \in 1 .. len : s[i] = t[i]
  <2> SUFFICES ASSUME NEW i \in 1 .. len PROVE s[i] = t[i]
    OBVIOUS
  <2>1. i - 1 \in 0 .. len - 1 /\ (i - 1) + 1 = i /\ i \in 0 .. len BY <1>4
  <2>2. v[(i - 1) + 1] = w[(i - 1) + 1] BY <1>9, <2>1
  <2>3. s[(i - 1) + 1] = t[(i - 1) + 1] BY <1>7, <2>1, <2>2
  <2> QED BY <2>1, <2>3
<1> QED BY <1>10, SeqEqual DEF len

\* The most significant digit is not zero.
LEMMA TopDigit ==
  ASSUME NEW base \in Nat \ {0, 1}, NEW n \in Nat, NEW count,
         IsCount(count, n, base), count # 0
  PROVE  Digits(n, base)[count] # 0
<1> DEFINE P == Power(base)
<1>1. P \in [Nat -> Nat] /\ \A k \in Nat : P[k + 1] = base * P[k]
  BY PowerIs
<1>2. /\ count \in Nat /\ count - 1 \in Nat /\ count - 1 \in 0 .. count - 1
      /\ (count - 1) + 1 = count
  BY DEF IsCount
<1>3. PICK p \in Nat : p = P[count - 1]
  BY <1>1, <1>2
<1>4. p <= n /\ n < base * p
  <2>1. n < P[count] /\ P[count - 1] <= n BY <1>2 DEF IsCount, P
  <2>2. P[count] = base * p BY <1>1, <1>2, <1>3
  <2> QED BY <1>3, <2>1, <2>2
<1>5. p # 0
  <2> SUFFICES ASSUME p = 0 PROVE FALSE
    OBVIOUS
  <2>1. base * 0 = 0 OBVIOUS
  <2> QED BY <1>4, <2>1
<1>6. PICK q \in Int, r \in 0 .. p - 1 : q = n \div p /\ n = p * q + r
  BY <1>5
<1>7. q >= 1
  <2> SUFFICES ASSUME q <= 0 PROVE FALSE
    OBVIOUS
  <2>1. PICK c \in Nat : q = 0 - c
    <3>1. 0 - q \in Nat /\ q = 0 - (0 - q) OBVIOUS
    <3> QED BY <3>1
  <2>2. p * q = 0 - p * c /\ p * c \in Nat BY <2>1
  <2> QED BY <1>4, <1>6, <2>2
<1>8. q <= base - 1
  <2> SUFFICES ASSUME q >= base PROVE FALSE
    OBVIOUS
  <2>1. PICK c \in Nat : q = base + c
    <3>1. q - base \in Nat /\ q = base + (q - base) OBVIOUS
    <3> QED BY <3>1
  <2>2. p * q = base * p + p * c /\ p * c \in Nat /\ base * p \in Nat BY <2>1
  <2> QED BY <1>4, <1>6, <2>2
<1>9. q % base = q
  <2>1. q = base * 0 + q /\ q \in 0 .. base - 1 /\ q \in Nat BY <1>7, <1>8
  <2> QED BY <2>1, RemainderIs
<1>10. Digits(n, base)[count] = (n \div p) % base
  <2>1. Digits(n, base) = [i \in 1 .. count |-> (n \div P[i - 1]) % base]
    BY DEF IsCount, P
  <2>2. count \in 1 .. count BY <1>2
  <2> HIDE DEF P
  <2> QED BY <1>3, <2>1, <2>2
<1> QED BY <1>6, <1>7, <1>9, <1>10

\* A smaller number has no more digits, and none has more than it says.
LEMMA FewerDigits ==
  ASSUME NEW base \in Nat \ {0, 1}, NEW n \in Nat, NEW m \in 0 .. n
  PROVE  /\ Len(Digits(m, base)) <= Len(Digits(n, base))
         /\ Len(Digits(n, base)) <= n
<1>1. PICK a : IsCount(a, m, base)
  BY CountExists
<1>2. PICK b : IsCount(b, n, base)
  BY CountExists
<1>3. Len(Digits(m, base)) = a /\ Len(Digits(n, base)) = b /\ a \in Nat /\ b \in Nat
  BY <1>1, <1>2, DigitsMakeUp DEF IsCount
<1>4. Power(base) \in [Nat -> Nat]
  BY PowerIs
<1>5. ~ (a > b)
  <2> SUFFICES ASSUME a > b PROVE FALSE
    OBVIOUS
  <2>1. b \in 0 .. a - 1 BY <1>3
  <2>2. Power(base)[b] <= m /\ n < Power(base)[b] BY <1>1, <1>2, <2>1 DEF IsCount
  <2>3. Power(base)[b] \in Nat BY <1>3, <1>4
  <2> QED BY <2>2, <2>3
<1>6. ~ (b > n)
  <2> SUFFICES ASSUME b > n PROVE FALSE
    OBVIOUS
  <2>1. n \in 0 .. b - 1 BY <1>3
  <2>2. Power(base)[n] <= n /\ n < Power(base)[n] BY <1>2, <2>1, PowerAbove DEF IsCount
  <2>3. Power(base)[n] \in Nat BY <1>4
  <2> QED BY <2>2, <2>3
<1> QED BY <1>3, <1>5, <1>6

\* as_usize reads n from what from_usize_compact makes of it.
ReadsBack(n) == AsUsize(FromUsizeCompact(n)) = {n}

\* The length of an atom of n bytes takes no more chunks than deserialize reads.
Measurable(n) == Len(Digits(n, Half)) <= MaxChunks

\* A number is read back if and only if its bytes are the same from both ends
\* and fit a usize: the two functions of noun.rs take the bytes in opposite
\* orders, and only the first byte of 256 and more shows it.
THEOREM ReadBackIfSymmetric ==
  ASSUME NEW n \in Nat
  PROVE  ReadsBack(n) <=> SameBothWays(n)
<1> DEFINE digits == Digits(n, Base)
           bytes == FromUsizeCompact(n)
<1>1. Base \in Nat \ {0, 1}
  BY BaseIs
<1>2. PICK len : IsCount(len, n, Base)
  BY <1>1, CountExists
<1>3. /\ digits \in Seq(Byte) /\ Len(digits) = len /\ len \in Nat
      /\ ValueOf(digits, Base) = n
  BY <1>1, <1>2, DigitsMakeUp DEF IsCount, Byte
<1>4. len # 0 => digits[len] # 0
  BY <1>1, <1>2, TopDigit
<1>5. bytes = Reverse(digits)
  BY DEF FromUsizeCompact
<1> HIDE DEF digits
<1>6. bytes = [i \in 1 .. len |-> digits[(len - i) + 1]]
  BY <1>3, <1>5 DEF Reverse
<1> HIDE DEF bytes
<1>7. bytes \in Seq(Byte) /\ Len(bytes) = len /\ DOMAIN bytes = 1 .. len
  <2>1. \A i \in 1 .. len : digits[(len - i) + 1] \in Byte BY <1>3
  <2> QED BY <1>3, <1>6, <2>1
<1>8. Reverse(bytes) = digits
  <2>1. Reverse(bytes) = [i \in 1 .. len |-> bytes[(len - i) + 1]]
    BY <1>7 DEF Reverse
  <2>2. ASSUME NEW i \in 1 .. len PROVE bytes[(len - i) + 1] = digits[i]
    <3>1. (len - i) + 1 \in 1 .. len /\ (len - ((len - i) + 1)) + 1 = i BY <1>3
    <3> QED BY <1>6, <3>1
  <2>3. Reverse(bytes) = [i \in 1 .. len |-> digits[i]] BY <2>1, <2>2
  <2> QED BY <1>3, <2>3
<1>9. ASSUME digits = bytes, len <= UsizeBytes PROVE ReadsBack(n)
  <2>1. ~ \E i \in DOMAIN bytes : i > UsizeBytes /\ bytes[i] # 0
    BY <1>3, <1>7, <1>9, NumbersAssumption
  <2>2. AsUsize(bytes) = {ValueOf(bytes, Base)} BY <2>1 DEF AsUsize
  <2> QED BY <1>3, <1>9, <2>2 DEF ReadsBack, bytes
<1>10. ASSUME ReadsBack(n) PROVE digits = bytes /\ len <= UsizeBytes
  <2>1. AsUsize(bytes) = {n} BY <1>10 DEF ReadsBack, bytes
  <2>2. ~ \E i \in DOMAIN bytes : i > UsizeBytes /\ bytes[i] # 0
    BY <2>1 DEF AsUsize
  <2>3. ValueOf(bytes, Base) = n BY <2>1, <2>2 DEF AsUsize
  <2>4. digits = bytes
    BY <1>1, <1>3, <1>7, <2>3, ValueIdentifies DEF Byte
  <2>5. ~ (len > UsizeBytes)
    <3> SUFFICES ASSUME len > UsizeBytes PROVE FALSE
      OBVIOUS
    <3>1. len # 0 /\ len \in DOMAIN bytes BY <1>3, <1>7, NumbersAssumption
    <3> QED BY <1>4, <2>2, <2>4, <3>1
  <2> QED BY <1>3, <2>4, <2>5, NumbersAssumption
<1>11. ReadsBack(n) <=> digits = bytes /\ len <= UsizeBytes
  BY <1>9, <1>10
<1>12. SameBothWays(n) <=> Reverse(bytes) = bytes /\ Len(bytes) <= UsizeBytes
  BY DEF SameBothWays, bytes
<1> QED BY <1>7, <1>8, <1>11, <1>12

\* Numbers below Base are read back, and are lengths of atoms.
LEMMA SmallReadsBack ==
  ASSUME NEW n \in Byte
  PROVE  ReadsBack(n) /\ Measurable(n)
<1>1. n \in Nat BY BaseIs DEF Byte
<1> QED BY <1>1, CompactIs, FewChunks DEF ReadsBack, Measurable

\* What is shorter than an atom that can be measured can be.
LEMMA ShorterMeasurable ==
  ASSUME NEW n \in Nat, Measurable(n), NEW m \in 0 .. n
  PROVE  Measurable(m)
<1>1. Half \in Nat \ {0, 1} BY BaseIs
<1>2. Len(Digits(m, Half)) <= Len(Digits(n, Half)) BY <1>1, FewerDigits
<1>3. Len(Digits(m, Half)) \in Nat /\ Len(Digits(n, Half)) \in Nat
  BY <1>1, CountExists, DigitsMakeUp
<1> QED BY <1>2, <1>3, CodecAssumption DEF Measurable

\* Every length that the limits allow can be.
LEMMA AllowedMeasurable ==
  ASSUME NEW n \in 0 .. MaxLength
  PROVE  Measurable(n)
<1>1. Half \in Nat \ {0, 1} BY BaseIs
<1>2. MaxLength \in Nat /\ MaxLength < Power(Half)[MaxChunks] /\ MaxChunks \in Nat
  BY CodecAssumption DEF Half
<1>3. n \in Nat BY <1>2
<1>4. PICK k : IsCount(k, n, Half) BY <1>1, <1>3, CountExists
<1>5. Len(Digits(n, Half)) = k /\ k \in Nat
  BY <1>1, <1>3, <1>4, DigitsMakeUp DEF IsCount
<1>6. ~ (k > MaxChunks)
  <2> SUFFICES ASSUME k > MaxChunks PROVE FALSE
    OBVIOUS
  <2>1. MaxChunks \in 0 .. k - 1 BY <1>2, <1>5
  <2>2. Power(Half)[MaxChunks] <= n BY <1>4, <2>1 DEF IsCount
  <2>3. Power(Half)[MaxChunks] \in Nat BY <1>1, <1>2, PowerIs
  <2> QED BY <1>2, <2>2, <2>3
<1> QED BY <1>2, <1>5, <1>6 DEF Measurable

\* The prefix of such a length is an atom that can be measured.
LEMMA PrefixMeasurable ==
  ASSUME NEW n \in Nat, Measurable(n)
  PROVE  Measurable(Len(FromUsizeCompact(n)))
<1>1. Base \in Nat \ {0, 1} BY BaseIs
<1>2. PICK len \in Nat : len = Len(Digits(n, Base)) /\ Digits(n, Base) \in Seq(Byte)
  BY <1>1, CountExists, DigitsMakeUp DEF Byte
<1>3. Len(FromUsizeCompact(n)) = len
  <2>1. Reverse(Digits(n, Base)) = [i \in 1 .. len |-> Digits(n, Base)[(len - i) + 1]]
    BY <1>2 DEF Reverse
  <2> QED BY <1>2, <2>1 DEF FromUsizeCompact
<1>4. len <= n
  <2>1. n \in 0 .. n OBVIOUS
  <2> QED BY <1>1, <1>2, <2>1, FewerDigits
<1> QED BY <1>2, <1>3, <1>4, ShorterMeasurable

\* The prefix is read as the number it was written for, if that is read back.
LEMMA SplitRead ==
  ASSUME NEW n \in Nat, ReadsBack(n), Measurable(n), NEW rest \in Seq(Byte)
  PROVE  SplitAt(AtomEncoding(FromUsizeCompact(n)) \o rest) =
           IF n <= Len(rest)
           THEN {[atoms     |-> SubSeq(rest, 1, n),
                  structure |-> SubSeq(rest, n + 1, Len(rest))]}
           ELSE {}
<1> DEFINE compact == FromUsizeCompact(n)
           s == AtomEncoding(compact) \o rest
           first == [bytes |-> compact, rest |-> rest]
           split == [atoms     |-> SubSeq(rest, 1, n),
                     structure |-> SubSeq(rest, n + 1, Len(rest))]
           Cuts(f) == {[atoms     |-> SubSeq(f.rest, 1, m),
                        structure |-> SubSeq(f.rest, m + 1, Len(f.rest))] :
                         m \in {k \in AsUsize(f.bytes) : k <= Len(f.rest)}}
<1>1. compact \in Seq(Byte)
  BY CompactIs
<1>2. AsUsize(compact) = {n}
  BY DEF ReadsBack
<1>3. Len(Digits(Len(compact), Half)) <= MaxChunks
  BY PrefixMeasurable DEF Measurable
<1> HIDE DEF compact
<1>4. AtomAt(s) = {first}
  BY <1>1, <1>3, AtomRead
<1> HIDE DEF s
<1>5. SplitAt(s) = UNION {Cuts(f) : f \in AtomAt(s)}
  BY DEF SplitAt
<1>6. SplitAt(s) = Cuts(first)
  <2> HIDE DEF Cuts, first
  <2> QED BY <1>4, <1>5
<1>7. Cuts(first) = IF n <= Len(rest) THEN {split} ELSE {}
  <2>1. Cuts(first) = {[atoms     |-> SubSeq(rest, 1, m),
                        structure |-> SubSeq(rest, m + 1, Len(rest))] :
                         m \in {k \in {n} : k <= Len(rest)}}
    BY <1>2
  <2> HIDE DEF Cuts, first
  <2>2. CASE n <= Len(rest)
    <3>1. {k \in {n} : k <= Len(rest)} = {n} BY <2>2
    <3> QED BY <2>1, <2>2, <3>1
  <2>3. CASE ~ (n <= Len(rest))
    <3>1. {k \in {n} : k <= Len(rest)} = {} BY <2>3
    <3> QED BY <2>1, <2>3, <3>1
  <2> QED BY <2>2, <2>3
<1> QED BY <1>6, <1>7 DEF s, compact

\* Of a prefix that was cut off nothing is read.
LEMMA SplitCutOff ==
  ASSUME NEW n \in Nat,
         NEW j \in 0 .. Len(AtomEncoding(FromUsizeCompact(n))) - 1
  PROVE  SplitAt(SubSeq(AtomEncoding(FromUsizeCompact(n)), 1, j)) = {}
<1> DEFINE s == SubSeq(AtomEncoding(FromUsizeCompact(n)), 1, j)
<1>1. AtomAt(s) = {}
  BY CompactIs, AtomCutOff
<1> HIDE DEF s
<1>2. SplitAt(s) = {}
  BY <1>1 DEF SplitAt
<1> QED BY <1>2 DEF s

-----------------------------------------------------------------------------
(* All atoms of a noun.                                                    *)

\* What FlattenSeq has put together after each of the sequences.
IsFlat(flat, seqs, S) ==
  /\ flat \in [0 .. Len(seqs) -> Seq(S)]
  /\ flat[0] = <<>>
  /\ \A k \in 0 .. Len(seqs) - 1 : flat[k + 1] = flat[k] \o seqs[k + 1]
  /\ FlattenSeq(seqs) = flat[Len(seqs)]

\* FlattenSeq is the last of such sequences.
LEMMA FlatIs ==
  ASSUME NEW S, NEW seqs \in Seq(Seq(S))
  PROVE  \E flat : IsFlat(flat, seqs, S)
<1> DEFINE len == Len(seqs)
           step == [p \in Nat \X Seq(S) |->
                      IF p[1] < len THEN p[2] \o seqs[p[1] + 1] ELSE p[2]]
<1>1. len \in Nat /\ \A k \in 1 .. len : seqs[k] \in Seq(S)
  OBVIOUS
<1> HIDE DEF len
<1>2. step \in [Nat \X Seq(S) -> Seq(S)]
  <2>1. ASSUME NEW i \in Nat, NEW v \in Seq(S), i < len
        PROVE  v \o seqs[i + 1] \in Seq(S)
    <3>1. i + 1 \in 1 .. len BY <1>1, <2>1
    <3> QED BY <1>1, <3>1
  <2>2. ASSUME NEW q \in Nat \X Seq(S)
        PROVE  (IF q[1] < len THEN q[2] \o seqs[q[1] + 1] ELSE q[2]) \in Seq(S)
    BY <2>1
  <2> QED BY <2>2
<1>3. PICK f : Iterates(f, Seq(S), len, <<>>, step)
  <2> HIDE DEF step
  <2>1. <<>> \in Seq(S) OBVIOUS
  <2> QED BY <1>1, <1>2, <2>1, IteratesExist
<1>4. /\ f \in [0 .. len -> Seq(S)] /\ f[0] = <<>>
      /\ \A k \in 0 .. len - 1 : f[k + 1] = f[k] \o seqs[k + 1]
  <2>1. ASSUME NEW k \in 0 .. len - 1
        PROVE  f[k + 1] = f[k] \o seqs[k + 1]
    <3>1. <<k, f[k]>> \in Nat \X Seq(S) /\ k < len
      BY <1>1, <1>3 DEF Iterates
    <3>2. f[k + 1] = step[<<k, f[k]>>]
      BY <1>3 DEF Iterates
    <3> QED BY <3>1, <3>2
  <2> QED BY <1>3, <2>1 DEF Iterates
<1> HIDE DEF step
<1>5. FlattenSeq(seqs) = f[len]
  <2>1. CASE len = 0
    <3>1. seqs = <<>> BY <2>1 DEF len
    <3> QED BY <1>4, <2>1, <3>1 DEF FlattenSeq, len
  <2>2. CASE len # 0
    <3>0. f[1] = seqs[1]
      <4>1. 0 \in 0 .. len - 1 /\ 1 \in 1 .. len BY <1>1, <2>2
      <4>2. f[0 + 1] = f[0] \o seqs[0 + 1] BY <1>4, <4>1
      <4>3. seqs[1] \in Seq(S) BY <1>1, <4>1
      <4> QED BY <1>4, <4>2, <4>3
    <3> DEFINE flatten[i \in 1 .. Len(seqs)] ==
                 IF i = 1 THEN seqs[i] ELSE flatten[i - 1] \o seqs[i]
               form(g) == [i \in 1 .. Len(seqs) |->
                             IF i = 1 THEN seqs[i] ELSE g[i - 1] \o seqs[i]]
               h == [i \in 1 .. len |-> f[i]]
    <3>1. h = form(h)
      <4>1. ASSUME NEW i \in 1 .. len
            PROVE  f[i] = IF i = 1 THEN seqs[i] ELSE h[i - 1] \o seqs[i]
        <5>0. i - 1 \in 0 .. len - 1 /\ (i - 1) + 1 = i BY <1>1
        <5>1. f[i] = f[i - 1] \o seqs[i] BY <1>4, <5>0
        <5>2. CASE i = 1
          BY <3>0, <5>2
        <5>3. CASE i # 1
          <6>1. i - 1 \in 1 .. len BY <1>1, <5>3
          <6> QED BY <5>1, <5>3, <6>1
        <5> QED BY <5>2, <5>3
      <4> QED BY <4>1 DEF len
    <3>2. flatten = form(flatten)
      <4> HIDE DEF form
      <4>1. flatten = CHOOSE g : g = form(g) BY DEF form
      <4> HIDE DEF flatten, h
      <4> QED BY <3>1, <4>1
    <3>3. FlattenSeq(seqs) = flatten[len]
      BY <2>2 DEF FlattenSeq, len
    <3> HIDE DEF flatten
    <3>4. \A i \in 1 .. len :
            flatten[i] = IF i = 1 THEN seqs[i] ELSE flatten[i - 1] \o seqs[i]
      BY <3>2 DEF len
    <3> DEFINE T == {k \in Nat : k + 1 <= len => flatten[k + 1] = f[k + 1]}
    <3>5. \A k \in Nat : k \in T
      <4>1. 0 \in T
        <5>1. 1 \in 1 .. len /\ 0 \in 0 .. len - 1 BY <1>1, <2>2
        <5>2. flatten[1] = seqs[1] BY <3>4, <5>1
        <5> QED BY <3>0, <5>2
      <4>2. ASSUME NEW k \in Nat, k \in T PROVE k + 1 \in T
        <5> SUFFICES ASSUME (k + 1) + 1 <= len
                     PROVE  flatten[(k + 1) + 1] = f[(k + 1) + 1]
          OBVIOUS
        <5>1. k + 2 \in 1 .. len /\ k + 1 \in 0 .. len - 1 /\ k + 2 # 1
              /\ (k + 2) - 1 = k + 1 /\ (k + 1) + 1 = k + 2
          BY <1>1
        <5>2. flatten[k + 1] = f[k + 1] BY <1>1, <4>2
        <5>3. flatten[k + 2] = flatten[k + 1] \o seqs[k + 2] BY <3>4, <5>1
        <5>4. f[k + 2] = f[k + 1] \o seqs[k + 2] BY <1>4, <5>1
        <5> QED BY <5>1, <5>2, <5>3, <5>4
      <4> HIDE DEF T
      <4> QED BY <4>1, <4>2, Induct
    <3>6. len - 1 \in Nat /\ (len - 1) + 1 = len BY <1>1, <2>2
    <3>7. len - 1 \in T BY <3>5, <3>6
    <3>8. flatten[len] = f[len] BY <3>6, <3>7
    <3> QED BY <3>3, <3>8
  <2> QED BY <2>1, <2>2
<1>6. IsFlat(f, seqs, S)
  BY <1>4, <1>5 DEF IsFlat, len
<1> QED BY <1>6

\* FlattenSeq of one sequence more.
LEMMA FlattenAppend ==
  ASSUME NEW S, NEW seqs \in Seq(Seq(S)), NEW s \in Seq(S)
  PROVE  /\ FlattenSeq(seqs) \in Seq(S)
         /\ FlattenSeq(Append(seqs, s)) = FlattenSeq(seqs) \o s
<1> DEFINE more == Append(seqs, s)
           len == Len(seqs)
<1>1. /\ len \in Nat /\ more \in Seq(Seq(S)) /\ Len(more) = len + 1
      /\ \A k \in 1 .. len : more[k] = seqs[k]
      /\ more[len + 1] = s
  OBVIOUS
<1> HIDE DEF more
<1>2. PICK f : IsFlat(f, seqs, S)
  BY FlatIs
<1>3. PICK g : IsFlat(g, more, S)
  BY <1>1, FlatIs
<1>4. /\ f \in [0 .. len -> Seq(S)] /\ f[0] = <<>>
      /\ \A k \in 0 .. len - 1 : f[k + 1] = f[k] \o seqs[k + 1]
      /\ FlattenSeq(seqs) = f[len]
  BY <1>2 DEF IsFlat
<1>5. /\ g[0] = <<>>
      /\ \A k \in 0 .. len : g[k + 1] = g[k] \o more[k + 1]
      /\ FlattenSeq(more) = g[len + 1]
  <2>1. (len + 1) - 1 = len BY <1>1
  <2> QED BY <1>1, <1>3, <2>1 DEF IsFlat
<1> HIDE DEF len
<1> DEFINE T == {k \in Nat : k <= len => f[k] = g[k]}
<1>6. \A k \in Nat : k \in T
  <2>1. 0 \in T BY <1>4, <1>5
  <2>2. ASSUME NEW k \in Nat, k \in T PROVE k + 1 \in T
    <3> SUFFICES ASSUME k + 1 <= len PROVE f[k + 1] = g[k + 1]
      OBVIOUS
    <3>1. k \in 0 .. len - 1 /\ k \in 0 .. len /\ k + 1 \in 1 .. len /\ f[k] = g[k]
      BY <1>1, <2>2
    <3> QED BY <1>1, <1>4, <1>5, <3>1
  <2> HIDE DEF T
  <2> QED BY <2>1, <2>2, Induct
<1>7. f[len] = g[len] /\ f[len] \in Seq(S)
  BY <1>1, <1>4, <1>6
<1>8. g[len + 1] = g[len] \o s
  <2>1. len \in 0 .. len BY <1>1
  <2>2. g[len + 1] = g[len] \o more[len + 1] BY <1>5, <2>1
  <2> QED BY <1>1, <2>2
<1> QED BY <1>4, <1>5, <1>7, <1>8 DEF more

\* A node is a cell, which takes no bytes, or an atom.
LEMMA NodeIs ==
  ASSUME NEW node \in Node
  PROVE  /\ NodeEncoding(node) \in Seq(Byte)
         /\ node = Cell => NodeEncoding(node) = <<>>
         /\ node # Cell => /\ node.bytes \in Seq(Byte)
                           /\ node = Atom(node.bytes)
                           /\ NodeEncoding(node) = AtomEncoding(node.bytes)
<1>1. CASE node = Cell
  BY <1>1 DEF NodeEncoding
<1>2. CASE node # Cell
  <2>1. node \in [kind : {"atom"}, bytes : Seq(Byte)]
    BY <1>2 DEF Node, Byte
  <2>2. node.bytes \in Seq(Byte) /\ node = Atom(node.bytes)
    BY <2>1 DEF Atom
  <2>3. NodeEncoding(node) = AtomEncoding(node.bytes)
    BY <1>2 DEF NodeEncoding
  <2> QED BY <1>2, <2>2, <2>3, AtomEncodingIs
<1> QED BY <1>1, <1>2

\* Node by node the encoding grows by what encodes the node.
LEMMA EncodingGrows ==
  ASSUME NEW source \in Seq(Node)
  PROVE  /\ AtomsEncoding(source, 0) = <<>>
         /\ \A k \in 0 .. Len(source) - 1 :
              AtomsEncoding(source, k + 1)
                = AtomsEncoding(source, k) \o NodeEncoding(source[k + 1])
         /\ \A k \in 0 .. Len(source) : AtomsEncoding(source, k) \in Seq(Byte)
<1> DEFINE part(k) == [i \in 1 .. k |-> NodeEncoding(source[i])]
           len == Len(source)
<1>1. len \in Nat
  OBVIOUS
<1>2. \A i \in 1 .. len : NodeEncoding(source[i]) \in Seq(Byte)
  BY NodeIs
<1>3. \A k : AtomsEncoding(source, k) = FlattenSeq(part(k))
  BY DEF AtomsEncoding
<1>4. AtomsEncoding(source, 0) = <<>>
  <2>1. part(0) = <<>> OBVIOUS
  <2>2. FlattenSeq(<<>>) = <<>> BY DEF FlattenSeq
  <2> HIDE DEF part
  <2>3. AtomsEncoding(source, 0) = FlattenSeq(part(0)) BY <1>3
  <2> QED BY <2>1, <2>2, <2>3
<1> HIDE DEF len
<1>5. ASSUME NEW k \in 0 .. len PROVE part(k) \in Seq(Seq(Byte))
  <2>1. k \in Nat /\ \A i \in 1 .. k : NodeEncoding(source[i]) \in Seq(Byte)
    BY <1>1, <1>2
  <2> QED BY <2>1
<1>6. ASSUME NEW k \in 0 .. len - 1
      PROVE  AtomsEncoding(source, k + 1)
               = AtomsEncoding(source, k) \o NodeEncoding(source[k + 1])
  <2> DEFINE e == NodeEncoding(source[k + 1])
  <2>1. k \in 0 .. len /\ k + 1 \in 1 .. len BY <1>1
  <2>2. part(k) \in Seq(Seq(Byte)) /\ e \in Seq(Byte) BY <1>2, <1>5, <2>1
  <2>3. part(k + 1) = Append(part(k), e)
    <3>1. Append(part(k), e) = [i \in 1 .. k + 1 |-> IF i = k + 1 THEN e ELSE part(k)[i]]
      <4>1. part(k) = [i \in 1 .. k |-> part(k)[i]] /\ k \in Nat BY <2>1
      <4>2. Len(part(k)) = k BY <4>1
      <4> HIDE DEF part, e
      <4> QED BY <2>2, <4>1, <4>2
    <3>2. ASSUME NEW i \in 1 .. k + 1
          PROVE  NodeEncoding(source[i]) = IF i = k + 1 THEN e ELSE part(k)[i]
      <4>1. CASE i = k + 1 BY <4>1
      <4>2. CASE i # k + 1
        <5>1. i \in 1 .. k BY <4>2
        <5> QED BY <4>2, <5>1
      <4> QED BY <4>1, <4>2
    <3> QED BY <3>1, <3>2
  <2> HIDE DEF part, e
  <2>4. FlattenSeq(part(k + 1)) = FlattenSeq(part(k)) \o e
    BY <2>2, <2>3, FlattenAppend
  <2> QED BY <1>3, <2>4 DEF e
<1>7. ASSUME NEW k \in 0 .. len PROVE AtomsEncoding(source, k) \in Seq(Byte)
  <2>1. part(k) \in Seq(Seq(Byte)) BY <1>5
  <2> HIDE DEF part
  <2>2. <<>> \in Seq(Byte) OBVIOUS
  <2> QED BY <1>3, <2>1, <2>2, FlattenAppend
<1> QED BY <1>4, <1>6, <1>7 DEF len

\* The encoding of the first nodes is the start of that of all of them.
LEMMA EncodingGoesOn ==
  ASSUME NEW source \in Seq(Node), NEW k \in 0 .. Len(source)
  PROVE  \E rest \in Seq(Byte) :
           AtomsEncoding(source, Len(source)) = AtomsEncoding(source, k) \o rest
<1> DEFINE len == Len(source)
           Goes(m) == \E rest \in Seq(Byte) :
                        AtomsEncoding(source, len) = AtomsEncoding(source, m) \o rest
           T == {d \in Nat : d <= len => Goes(len - d)}
<1>1. len \in Nat /\ \A m \in 0 .. len : AtomsEncoding(source, m) \in Seq(Byte)
  BY EncodingGrows
<1>2. \A m \in 0 .. len - 1 : AtomsEncoding(source, m + 1)
                = AtomsEncoding(source, m) \o NodeEncoding(source[m + 1])
  BY EncodingGrows
<1>3. \A m \in 1 .. len : NodeEncoding(source[m]) \in Seq(Byte)
  BY NodeIs
<1> HIDE DEF len
<1>4. \A d \in Nat : d \in T
  <2>1. 0 \in T
    <3>1. AtomsEncoding(source, len) \in Seq(Byte) BY <1>1
    <3>2. AtomsEncoding(source, len) = AtomsEncoding(source, len) \o <<>>
          /\ <<>> \in Seq(Byte)
      BY <3>1
    <3>3. len - 0 = len BY <1>1
    <3>4. Goes(len) BY <3>2
    <3> HIDE DEF Goes
    <3> QED BY <3>3, <3>4
  <2>2. ASSUME NEW d \in Nat, d \in T PROVE d + 1 \in T
    <3> SUFFICES ASSUME d + 1 <= len PROVE Goes(len - (d + 1))
      <4> HIDE DEF Goes
      <4> QED OBVIOUS
    <3> DEFINE m == len - (d + 1)
    <3>1. m \in 0 .. len - 1 /\ m + 1 = len - d /\ m + 1 \in 1 .. len /\ m \in 0 .. len
      BY <1>1
    <3>2. Goes(m + 1)
      <4> HIDE DEF Goes
      <4> QED BY <1>1, <2>2, <3>1
    <3> HIDE DEF m
    <3>3. PICK rest \in Seq(Byte) :
            AtomsEncoding(source, len) = AtomsEncoding(source, m + 1) \o rest
      BY <3>2
    <3> DEFINE e == NodeEncoding(source[m + 1])
               a == AtomsEncoding(source, m)
    <3>4. e \in Seq(Byte) /\ a \in Seq(Byte) BY <1>1, <1>3, <3>1
    <3>5. AtomsEncoding(source, len) = (a \o e) \o rest BY <1>2, <3>1, <3>3
    <3> HIDE DEF e, a
    <3>6. (a \o e) \o rest = a \o (e \o rest) /\ e \o rest \in Seq(Byte)
      BY <3>4, ConcatAssociative
    <3>7. \E r \in Seq(Byte) : AtomsEncoding(source, len) = a \o r
      BY <3>5, <3>6
    <3> QED BY <3>7 DEF a, m
  <2> HIDE DEF T
  <2> QED BY <2>1, <2>2, Induct
<1>5. len - k \in Nat /\ len - (len - k) = k /\ len - k <= len
  BY <1>1 DEF len
<1>6. Goes(k)
  <2> HIDE DEF Goes
  <2> QED BY <1>4, <1>5
<1> QED BY <1>6 DEF len

-----------------------------------------------------------------------------
(* The nouns to come.                                                      *)

\* What a node does to the count of nouns that are to come.
OpenStep(source) ==
  [p \in Nat \X Int |-> p[2] + (IF source[p[1] + 1] = Cell THEN 1 ELSE -1)]

\* Open is an iteration of OpenStep.
LEMMA OpenFunction ==
  ASSUME NEW source, NEW k \in Nat
  PROVE  \E f : Iterates(f, Int, k, 1, OpenStep(source)) /\ Open(source, k) = f[k]
<1> DEFINE open[i \in 0 .. k] ==
             IF i = 0 THEN 1 ELSE open[i - 1] + (IF source[i] = Cell THEN 1 ELSE -1)
           form(g) ==
             [i \in 0 .. k |->
                IF i = 0 THEN 1 ELSE g[i - 1] + (IF source[i] = Cell THEN 1 ELSE -1)]
           step == OpenStep(source)
<1>1. step \in [Nat \X Int -> Int]
  BY DEF OpenStep
<1>2. PICK f : Iterates(f, Int, k, 1, step)
  <2> HIDE DEF step
  <2>1. 1 \in Int OBVIOUS
  <2> QED BY <1>1, <2>1, IteratesExist
<1>3. /\ f \in [0 .. k -> Int] /\ f[0] = 1
      /\ \A i \in 0 .. k - 1 :
           f[i + 1] = f[i] + (IF source[i + 1] = Cell THEN 1 ELSE -1)
  <2>1. ASSUME NEW i \in 0 .. k - 1
        PROVE  f[i + 1] = f[i] + (IF source[i + 1] = Cell THEN 1 ELSE -1)
    <3>1. <<i, f[i]>> \in Nat \X Int
      BY <1>2 DEF Iterates
    <3>2. f[i + 1] = step[<<i, f[i]>>]
      BY <1>2 DEF Iterates
    <3> QED BY <3>1, <3>2 DEF OpenStep
  <2> HIDE DEF step
  <2> QED BY <1>2, <2>1 DEF Iterates
<1> HIDE DEF step
<1>4. f = form(f)
  <2>1. ASSUME NEW i \in 0 .. k
        PROVE  f[i] = IF i = 0 THEN 1 ELSE f[i - 1] + (IF source[i] = Cell THEN 1 ELSE -1)
    <3>1. CASE i = 0 BY <1>3, <3>1
    <3>2. CASE i # 0
      <4>1. i - 1 \in 0 .. k - 1 /\ (i - 1) + 1 = i BY <3>2
      <4>2. f[(i - 1) + 1] = f[i - 1] + (IF source[(i - 1) + 1] = Cell THEN 1 ELSE -1)
        BY <1>3, <4>1
      <4> QED BY <3>2, <4>1, <4>2
    <3> QED BY <3>1, <3>2
  <2>2. f = [i \in 0 .. k |-> f[i]] BY <1>3
  <2> QED BY <2>1, <2>2
<1>5. open = form(open)
  <2> HIDE DEF form
  <2>1. open = CHOOSE g : g = form(g) BY DEF form
  <2> HIDE DEF open
  <2> QED BY <1>4, <2>1
<1>6. Open(source, k) = open[k]
  BY DEF Open
<1> HIDE DEF open
<1>7. \A i \in 0 .. k : open[i] = IF i = 0 THEN 1
                          ELSE open[i - 1] + (IF source[i] = Cell THEN 1 ELSE -1)
  BY <1>5
<1> DEFINE T == {i \in Nat : i <= k => open[i] = f[i]}
<1>8. \A i \in Nat : i \in T
  <2>1. 0 \in T BY <1>3, <1>7
  <2>2. ASSUME NEW i \in Nat, i \in T PROVE i + 1 \in T
    <3> SUFFICES ASSUME i + 1 <= k PROVE open[i + 1] = f[i + 1]
      OBVIOUS
    <3>1. i \in 0 .. k - 1 /\ i + 1 \in 0 .. k /\ i + 1 # 0 /\ (i + 1) - 1 = i
          /\ open[i] = f[i]
      BY <2>2
    <3>2. open[i + 1] = open[(i + 1) - 1] + (IF source[i + 1] = Cell THEN 1 ELSE -1)
      BY <1>7, <3>1
    <3> QED BY <1>3, <3>1, <3>2
  <2> HIDE DEF T
  <2> QED BY <2>1, <2>2, Induct
<1>9. Open(source, k) = f[k]
  BY <1>6, <1>8
<1> QED BY <1>2, <1>9 DEF step

\* A cell opens one noun more, an atom closes one.
LEMMA OpenIs ==
  ASSUME NEW source
  PROVE  /\ Open(source, 0) = 1
         /\ \A k \in Nat : Open(source, k) \in Int
         /\ \A k \in Nat :
              Open(source, k + 1)
                = Open(source, k) + (IF source[k + 1] = Cell THEN 1 ELSE -1)
<1> DEFINE step == OpenStep(source)
<1>1. Open(source, 0) = 1
  <2>1. PICK f : Iterates(f, Int, 0, 1, step) /\ Open(source, 0) = f[0]
    BY OpenFunction
  <2> HIDE DEF step
  <2> QED BY <2>1 DEF Iterates
<1>2. ASSUME NEW k \in Nat
      PROVE  /\ Open(source, k) \in Int
             /\ Open(source, k + 1)
                  = Open(source, k) + (IF source[k + 1] = Cell THEN 1 ELSE -1)
  <2>1. PICK f : Iterates(f, Int, k, 1, step) /\ Open(source, k) = f[k]
    BY OpenFunction
  <2>2. PICK g : Iterates(g, Int, k + 1, 1, step) /\ Open(source, k + 1) = g[k + 1]
    <3>1. k + 1 \in Nat OBVIOUS
    <3> QED BY <3>1, OpenFunction
  <2> HIDE DEF step
  <2>3. f[k] = g[k]
    <3>1. k + 1 \in Nat /\ k <= k /\ k <= k + 1 OBVIOUS
    <3> QED BY <2>1, <2>2, <3>1, IteratesUnique
  <2>4. g[k + 1] = step[<<k, g[k]>>] /\ f[k] \in Int
    <3>1. k \in 0 .. (k + 1) - 1 /\ k \in 0 .. k OBVIOUS
    <3> QED BY <2>1, <2>2, <3>1 DEF Iterates
  <2>5. step[<<k, f[k]>>] = f[k] + (IF source[k + 1] = Cell THEN 1 ELSE -1)
    <3>1. <<k, f[k]>> \in Nat \X Int BY <2>4
    <3> QED BY <3>1 DEF step, OpenStep
  <2> QED BY <2>1, <2>2, <2>3, <2>4, <2>5
<1> QED BY <1>1, <1>2

-----------------------------------------------------------------------------
(* The structure.                                                          *)

\* The bit of the node at a place, zero past the last one.
BitOf(source, at) == IF at <= Len(source) /\ source[at] = Cell THEN 1 ELSE 0

\* The bits of the k-th byte.
BitsOfByte(source, k) ==
  [i \in 1 .. ByteBits |-> BitOf(source, (k - 1) * ByteBits + i)]

\* StructureBytes has as many bytes as the nodes' bits fill.
LEMMA StructureBytesAre ==
  ASSUME NEW source \in Seq(Node)
  PROVE  /\ StructureBytes(source) \in Seq(Byte)
         /\ Len(StructureBytes(source)) * ByteBits >= Len(source)
         /\ Len(StructureBytes(source)) * ByteBits < Len(source) + ByteBits
         /\ \A k \in 1 .. Len(StructureBytes(source)) :
              StructureBytes(source)[k] = ValueOf(BitsOfByte(source, k), 2)
<1> DEFINE len == Len(source)
           size == (len + ByteBits - 1) \div ByteBits
<1>1. len \in Nat /\ ByteBits \in Nat \ {0}
  BY NumbersAssumption
<1>2. size \in Nat /\ size * ByteBits >= len /\ size * ByteBits < len + ByteBits
  <2> HIDE DEF len
  <2>1. PICK x \in Nat : x = len + ByteBits - 1 BY <1>1
  <2>2. x \div ByteBits \in Nat /\ x % ByteBits \in 0 .. ByteBits - 1
        /\ x = ByteBits * (x \div ByteBits) + (x % ByteBits)
    BY <1>1
  <2>3. PICK q \in Nat, r \in 0 .. ByteBits - 1 :
          q = x \div ByteBits /\ x = ByteBits * q + r
    BY <2>2
  <2>4. PICK z \in Nat : z = q * ByteBits /\ z = ByteBits * q
    BY <1>1
  <2>5. z >= len /\ z < len + ByteBits
    BY <1>1, <2>1, <2>3, <2>4
  <2> QED BY <2>1, <2>3, <2>4, <2>5
<1>3. StructureBytes(source) = [k \in 1 .. size |-> ValueOf(BitsOfByte(source, k), 2)]
  BY DEF StructureBytes, BitsOfByte, BitOf
<1> HIDE DEF size, len
<1>4. ASSUME NEW k \in 1 .. size PROVE ValueOf(BitsOfByte(source, k), 2) \in Byte
  <2> DEFINE bits == BitsOfByte(source, k)
  <2>1. bits \in Seq(0 .. 1) /\ Len(bits) = ByteBits
    BY <1>1 DEF BitsOfByte, BitOf
  <2> HIDE DEF bits
  <2>2. bits \in Seq(Nat) BY <2>1
  <2>3. PICK value : IsValue(value, bits, 2) BY <2>2, ValueIs
  <2>4. value[ByteBits] < Power(2)[ByteBits]
    <3>1. 2 \in Nat \ {0} /\ bits \in Seq(0 .. 2 - 1) /\ ByteBits \in 0 .. Len(bits)
      BY <1>1, <2>1
    <3> QED BY <2>3, <3>1, ValueBelow
  <2>5. ValueOf(bits, 2) \in Nat /\ ValueOf(bits, 2) < Base
    <3>1. ByteBits \in 0 .. Len(bits) BY <1>1, <2>1
    <3> QED BY <2>1, <2>3, <2>4, <3>1 DEF IsValue, Base
  <2> QED BY <2>5, BaseIs DEF Byte, bits
<1>5. StructureBytes(source) \in Seq(Byte) /\ Len(StructureBytes(source)) = size
  BY <1>2, <1>3, <1>4
<1> QED BY <1>2, <1>3, <1>5 DEF len

\* StructureBits has ByteBits bits for each byte.
LEMMA StructureBitsAre ==
  ASSUME NEW bytes \in Seq(Byte)
  PROVE  /\ StructureBits(bytes) \in Seq({0, 1})
         /\ Len(StructureBits(bytes)) = Len(bytes) * ByteBits
         /\ Len(bytes) * ByteBits \in Nat
<1> DEFINE bit(i) ==
             (bytes[(i - 1) \div ByteBits + 1] \div Power(2)[(i - 1) % ByteBits]) % 2
           len == Len(bytes)
<1>1. len \in Nat /\ ByteBits \in Nat \ {0}
  BY NumbersAssumption
<1>2. PICK n \in Nat : n = len * ByteBits
  <2> HIDE DEF len
  <2>1. len * ByteBits \in Nat BY <1>1
  <2> QED BY <2>1
<1>3. ASSUME NEW i \in 1 .. n PROVE bit(i) \in {0, 1}
  <2>1. PICK q \in Int, r \in 0 .. ByteBits - 1 :
          q = (i - 1) \div ByteBits /\ r = (i - 1) % ByteBits
          /\ i - 1 = ByteBits * q + r
    <3>1. PICK x \in Nat : x = i - 1 OBVIOUS
    <3>2. x \div ByteBits \in Int /\ x % ByteBits \in 0 .. ByteBits - 1
          /\ x = ByteBits * (x \div ByteBits) + (x % ByteBits)
      BY <1>1
    <3> QED BY <3>1, <3>2
  <2>2. q + 1 \in 1 .. len
    <3>1. q >= 0
      <4> SUFFICES ASSUME ~ (q >= 0) PROVE FALSE
        OBVIOUS
      <4>1. PICK c \in Nat : q = - 1 - c
        <5>1. - 1 - q \in Nat /\ q = - 1 - (- 1 - q) OBVIOUS
        <5> QED BY <5>1
      <4>2. ByteBits * q = - ByteBits - ByteBits * c /\ ByteBits * c \in Nat
        BY <1>1, <4>1
      <4> QED BY <1>1, <2>1, <4>2
    <3>2. q < len
      <4> SUFFICES ASSUME ~ (q < len) PROVE FALSE
        OBVIOUS
      <4> HIDE DEF len
      <4>1. PICK c \in Nat : q = len + c
        <5>1. q - len \in Nat /\ q = len + (q - len) BY <1>1
        <5> QED BY <5>1
      <4>2. ByteBits * q = n + ByteBits * c /\ ByteBits * c \in Nat
        BY <1>1, <1>2, <4>1
      <4> QED BY <1>1, <2>1, <4>2
    <3> HIDE DEF len
    <3> QED BY <1>1, <3>1, <3>2
  <2>3. PICK b \in Nat : b = bytes[q + 1]
    <3>1. bytes[q + 1] \in Byte BY <2>2
    <3> QED BY <3>1, BaseIs DEF Byte
  <2>4. PICK p \in Nat \ {0} : p = Power(2)[r]
    <3>1. r \in Nat /\ 2 \in Nat \ {0, 1} BY <1>1
    <3>2. r < Power(2)[r] BY <3>1, PowerAbove
    <3>3. Power(2)[r] \in Nat BY <3>1, PowerIs
    <3> QED BY <3>1, <3>2, <3>3
  <2>5. (b \div p) \in Int OBVIOUS
  <2>6. (b \div p) % 2 \in {0, 1} BY <2>5
  <2> QED BY <2>1, <2>3, <2>4, <2>6
<1>4. StructureBits(bytes) = [i \in 1 .. n |-> bit(i)]
  BY <1>2 DEF StructureBits
<1> HIDE DEF bit
<1>5. StructureBits(bytes) \in Seq({0, 1}) /\ Len(StructureBits(bytes)) = n
  BY <1>3, <1>4
<1> QED BY <1>2, <1>5

\* The bits of the bytes a noun's structure was written to are its nodes.
LEMMA BitsRead ==
  ASSUME NEW source \in Seq(Node), NEW bytes \in Seq(Byte),
         \A k \in 1 .. Len(bytes) : k <= Len(StructureBytes(source))
                                      => bytes[k] = StructureBytes(source)[k],
         NEW i \in DOMAIN StructureBits(bytes), i <= Len(source)
  PROVE  StructureBits(bytes)[i] = IF source[i] = Cell THEN 1 ELSE 0
<1> DEFINE len == Len(bytes)
           all == StructureBytes(source)
           size == Len(all)
           nodes_ == Len(source)
<1>1. len \in Nat /\ ByteBits \in Nat \ {0} /\ nodes_ \in Nat
  BY NumbersAssumption
<1>2. /\ all \in Seq(Byte) /\ size * ByteBits >= nodes_ /\ size \in Nat
      /\ \A k \in 1 .. size : all[k] = ValueOf(BitsOfByte(source, k), 2)
  BY StructureBytesAre
<1> HIDE DEF all, size, len, nodes_
<1>3. i \in Nat /\ i >= 1 /\ i <= len * ByteBits /\ i <= nodes_
        /\ len * ByteBits \in Nat /\ size * ByteBits \in Nat
  <2>1. len * ByteBits \in Nat /\ size * ByteBits \in Nat BY <1>1, <1>2
  <2>2. i \in 1 .. len * ByteBits BY StructureBitsAre DEF len
  <2> QED BY <2>1, <2>2 DEF nodes_
<1>4. PICK q \in Int, r \in 0 .. ByteBits - 1 :
          q = (i - 1) \div ByteBits /\ r = (i - 1) % ByteBits
          /\ i - 1 = ByteBits * q + r
  <2>1. PICK x \in Nat : x = i - 1 BY <1>3
  <2>2. x \div ByteBits \in Int /\ x % ByteBits \in 0 .. ByteBits - 1
        /\ x = ByteBits * (x \div ByteBits) + (x % ByteBits)
    BY <1>1
  <2> QED BY <2>1, <2>2
<1>5. q >= 0
  <2> SUFFICES ASSUME ~ (q >= 0) PROVE FALSE
    OBVIOUS
  <2>1. PICK c \in Nat : q = - 1 - c
    <3>1. - 1 - q \in Nat /\ q = - 1 - (- 1 - q) OBVIOUS
    <3> QED BY <3>1
  <2>2. ByteBits * q = - ByteBits - ByteBits * c /\ ByteBits * c \in Nat
    BY <1>1, <2>1
  <2> QED BY <1>1, <1>3, <1>4, <2>2
<1>6. ASSUME NEW m \in Nat, i <= m * ByteBits PROVE q < m
  <2> SUFFICES ASSUME ~ (q < m) PROVE FALSE
    OBVIOUS
  <2>1. PICK c \in Nat : q = m + c
    <3>1. q - m \in Nat /\ q = m + (q - m) OBVIOUS
    <3> QED BY <3>1
  <2>2. ByteBits * q = m * ByteBits + ByteBits * c /\ ByteBits * c \in Nat
        /\ m * ByteBits \in Nat
    BY <1>1, <2>1
  <2> QED BY <1>1, <1>3, <1>4, <1>6, <2>2
<1>7. q + 1 \in 1 .. len /\ q + 1 \in 1 .. size
  <2>1. i <= size * ByteBits BY <1>1, <1>2, <1>3
  <2>2. q < len /\ q < size BY <1>1, <1>2, <1>3, <1>6, <2>1
  <2> QED BY <1>1, <1>2, <1>5, <2>2
<1>8. bytes[q + 1] = all[q + 1]
  <2>1. q + 1 <= size BY <1>2, <1>7
  <2> QED BY <1>7, <2>1 DEF len, size, all
<1>9. StructureBits(bytes)[i] = (bytes[q + 1] \div Power(2)[r]) % 2
  <2>1. i \in 1 .. Len(bytes) * ByteBits BY StructureBitsAre
  <2> QED BY <1>4, <2>1 DEF StructureBits
<1> DEFINE bits == BitsOfByte(source, q + 1)
<1>10. bits \in Seq({0, 1}) /\ Len(bits) = ByteBits
         /\ bits[r + 1] = BitOf(source, (q + 1 - 1) * ByteBits + (r + 1))
  <2>1. r + 1 \in 1 .. ByteBits BY <1>1
  <2> QED BY <1>1, <2>1 DEF BitsOfByte, BitOf
<1>11. (q + 1 - 1) * ByteBits + (r + 1) = i
  <2>1. PICK z \in Int : z = ByteBits * q /\ z = (q + 1 - 1) * ByteBits
    BY <1>1
  <2>2. i - 1 = z + r BY <1>4, <2>1
  <2> QED BY <1>3, <2>1, <2>2
<1> HIDE DEF bits
<1>12. (ValueOf(bits, 2) \div Power(2)[r]) % 2 = bits[r + 1]
  <2>1. r + 1 \in 1 .. Len(bits) /\ (r + 1) - 1 = r BY <1>1, <1>10
  <2> QED BY <1>10, <2>1, BitOfValue
<1>13. all[q + 1] = ValueOf(bits, 2)
  BY <1>2, <1>7 DEF bits
<1>14. BitOf(source, i) = IF source[i] = Cell THEN 1 ELSE 0
  BY DEF BitOf
<1> QED BY <1>8, <1>9, <1>10, <1>11, <1>12, <1>13, <1>14

-----------------------------------------------------------------------------
(* Nouns with the same serialization.                                      *)

\* Equal sequences put together of parts of equal length have equal parts.
LEMMA EqualParts ==
  ASSUME NEW S, NEW a \in Seq(S), NEW b \in Seq(S), NEW c \in Seq(S),
         NEW d \in Seq(S), a \o b = c \o d, Len(a) = Len(c)
  PROVE  a = c /\ b = d
<1> DEFINE s == a \o b
<1>1. PICK k \in Nat, m \in Nat, n \in Nat :
         k = Len(a) /\ k = Len(c) /\ m = Len(b) /\ n = Len(d)
  OBVIOUS
<1>2. /\ Len(s) = k + m /\ Len(s) = k + n
      /\ \A i \in 1 .. k : s[i] = a[i] /\ s[i] = c[i]
      /\ \A i \in 1 .. m : s[k + i] = b[i]
      /\ \A i \in 1 .. n : s[k + i] = d[i]
  <2>1. Len(s) = k + m /\ \A i \in 1 .. k : s[i] = a[i]
    BY <1>1
  <2>2. \A i \in 1 .. m : s[k + i] = b[i]
    BY <1>1
  <2>3. s = c \o d
    OBVIOUS
  <2> HIDE DEF s
  <2>4. Len(s) = k + n /\ \A i \in 1 .. k : s[i] = c[i]
    BY <1>1, <2>3
  <2>5. \A i \in 1 .. n : s[k + i] = d[i]
    BY <1>1, <2>3
  <2> QED BY <2>1, <2>2, <2>4, <2>5
<1> HIDE DEF s
<1>3. m = n BY <1>1, <1>2
<1>4. a = c
  <2>1. \A i \in 1 .. Len(a) : a[i] = c[i] BY <1>1, <1>2
  <2> QED BY <2>1, SeqEqual
<1>5. b = d
  <2>1. \A i \in 1 .. Len(b) : b[i] = d[i] BY <1>1, <1>2, <1>3
  <2>2. Len(b) = Len(d) BY <1>1, <1>3
  <2> QED BY <2>1, <2>2, SeqEqual
<1> QED BY <1>4, <1>5

\* What follows the same beginning.
LEMMA EqualTails ==
  ASSUME NEW S
  PROVE  \A e, u, v, q, r \in Seq(S) :
           (e \o u) \o q = (e \o v) \o r => u \o q = v \o r
<1>1. \A j, k, l \in Seq(S) : (j \o k) \o l = j \o (k \o l)
  BY ConcatAssociative
<1>2. \A j, k, l, i \in Seq(S) :
        j \o k = l \o i /\ Len(j) = Len(l) => j = l /\ k = i
  BY EqualParts
<1> TAKE e, u, v, q, r \in Seq(S)
<1> HAVE (e \o u) \o q = (e \o v) \o r
<1>3. (e \o u) \o q = e \o (u \o q) BY <1>1, Zenon
<1>4. (e \o v) \o r = e \o (v \o r) BY <1>1, Zenon
<1> DEFINE m == u \o q
           n == v \o r
<1>5. m \in Seq(S) /\ n \in Seq(S) OBVIOUS
<1>6. e \o m = e \o n BY <1>3, <1>4
<1> HIDE DEF m, n
<1>7. m = n BY ONLY <1>2, <1>5, <1>6, e \in Seq(S), Zenon
<1> QED BY <1>7 DEF m, n

\* What depends on the first nodes only.
LEMMA PartAgrees ==
  ASSUME NEW s, NEW t, NEW k \in Nat, \A i \in 1 .. k : s[i] = t[i]
  PROVE  AtomsEncoding(s, k) = AtomsEncoding(t, k) /\ Open(s, k) = Open(t, k)
<1>1. AtomsEncoding(s, k) = AtomsEncoding(t, k)
  <2>1. [i \in 1 .. k |-> NodeEncoding(s[i])] = [i \in 1 .. k |-> NodeEncoding(t[i])]
    OBVIOUS
  <2> QED BY <2>1 DEF AtomsEncoding
<1> DEFINE T == {j \in Nat : j <= k => Open(s, j) = Open(t, j)}
<1>2. \A j \in Nat : j \in T
  <2>1. 0 \in T BY OpenIs
  <2>2. ASSUME NEW j \in Nat, j \in T PROVE j + 1 \in T
    <3> SUFFICES ASSUME j + 1 <= k PROVE Open(s, j + 1) = Open(t, j + 1)
      OBVIOUS
    <3>1. Open(s, j) = Open(t, j) /\ j + 1 \in 1 .. k BY <2>2
    <3>2. s[j + 1] = t[j + 1] BY <3>1
    <3> QED BY <3>1, <3>2, OpenIs
  <2> HIDE DEF T
  <2> QED BY <2>1, <2>2, Induct
<1>3. Open(s, k) = Open(t, k)
  BY <1>2
<1> QED BY <1>1, <1>3

\* A noun is not the beginning of another.
LEMMA NotABeginning ==
  ASSUME NEW s, NEW t, IsNoun(s), IsNoun(t),
         \A i \in 1 .. Len(s) : i <= Len(t) => s[i] = t[i]
  PROVE  ~ (Len(s) < Len(t))
<1> SUFFICES ASSUME Len(s) < Len(t) PROVE FALSE
  OBVIOUS
<1>1. Len(s) \in Nat /\ Len(t) \in Nat
  BY DEF IsNoun
<1>2. Open(s, Len(s)) = 0 /\ Open(t, Len(s)) > 0
  BY <1>1 DEF IsNoun
<1>3. \A i \in 1 .. Len(s) : s[i] = t[i]
  BY <1>1
<1>4. Open(s, Len(s)) = Open(t, Len(s))
  BY <1>1, <1>3, PartAgrees
<1> QED BY <1>2, <1>4

\* The parts of a serialization.
LEMMA SerializationIs ==
  ASSUME NEW source \in Seq(Node)
  PROVE  LET atoms  == AtomsEncoding(source, Len(source))
             prefix == AtomEncoding(FromUsizeCompact(Len(atoms)))
         IN /\ atoms \in Seq(Byte) /\ prefix \in Seq(Byte)
            /\ StructureBytes(source) \in Seq(Byte)
            /\ Serialization(source) = prefix \o (atoms \o StructureBytes(source))
            /\ Len(atoms) \in Nat
<1> DEFINE atoms == AtomsEncoding(source, Len(source))
           prefix == AtomEncoding(FromUsizeCompact(Len(atoms)))
<1>1. atoms \in Seq(Byte)
  <2>1. Len(source) \in 0 .. Len(source) OBVIOUS
  <2> QED BY <2>1, EncodingGrows
<1>2. Len(atoms) \in Nat
  <2> HIDE DEF atoms
  <2> QED BY <1>1
<1>3. prefix \in Seq(Byte)
  BY <1>2, CompactIs, AtomEncodingIs
<1>4. StructureBytes(source) \in Seq(Byte)
  BY StructureBytesAre
<1>5. Serialization(source) = prefix \o atoms \o StructureBytes(source)
  BY DEF Serialization
<1> HIDE DEF atoms, prefix
<1>6. Serialization(source) = prefix \o (atoms \o StructureBytes(source))
  BY <1>1, <1>3, <1>4, <1>5, ConcatAssociative
<1> QED BY <1>1, <1>2, <1>3, <1>4, <1>6 DEF atoms, prefix

\* Two nouns with the same serialization are one noun: the prefix gives the
\* length of the atoms, the structure tells cells from atoms, node by node the
\* atoms are cut off what is left, and neither noun can go on where the other
\* is at its end.
THEOREM SerializationInjective ==
  ASSUME NEW s, NEW t, IsNoun(s), IsNoun(t), Serialization(s) = Serialization(t)
  PROVE  s = t
<1>a. \A j, k, f, g \in Seq(Byte) :
        AtomEncoding(j) \o f = AtomEncoding(k) \o g => j = k /\ f = g
  BY AtomIdentified
<1>b. \A h, i, j, f, g \in Seq(Byte) :
        (h \o i) \o f = (h \o j) \o g => i \o f = j \o g
  BY EqualTails
<1>c. \A j, k, f, g \in Seq(Byte) :
        j \o f = k \o g /\ Len(j) = Len(k) => j = k /\ f = g
  BY EqualParts
<1> DEFINE a == AtomsEncoding(s, Len(s))
           b == AtomsEncoding(t, Len(t))
           c == StructureBytes(s)
           d == StructureBytes(t)
<1>1. s \in Seq(Node) /\ t \in Seq(Node) /\ Len(s) \in Nat /\ Len(t) \in Nat
  BY DEF IsNoun
<1>2. /\ a \in Seq(Byte) /\ b \in Seq(Byte) /\ c \in Seq(Byte) /\ d \in Seq(Byte)
      /\ Len(a) \in Nat /\ Len(b) \in Nat
      /\ AtomEncoding(FromUsizeCompact(Len(a))) \o (a \o c)
           = AtomEncoding(FromUsizeCompact(Len(b))) \o (b \o d)
  BY <1>1, SerializationIs
<1>3. a = b /\ c = d
  <2> HIDE DEF a, b, c, d
  <2>1. a \o c \in Seq(Byte) /\ b \o d \in Seq(Byte) BY <1>2
  <2>2. FromUsizeCompact(Len(a)) \in Seq(Byte) /\ FromUsizeCompact(Len(b)) \in Seq(Byte)
    BY <1>2, CompactIs
  <2> DEFINE m == FromUsizeCompact(Len(a))
             n == FromUsizeCompact(Len(b))
             u == a \o c
             v == b \o d
  <2>3. m = n /\ u = v
    <3>1. AtomEncoding(m) \o u = AtomEncoding(n) \o v BY <1>2
    <3>2. m \in Seq(Byte) /\ n \in Seq(Byte) /\ u \in Seq(Byte) /\ v \in Seq(Byte)
      BY <2>1, <2>2
    <3> HIDE DEF m, n, u, v
    <3>3. \A f, g \in Seq(Byte) :
            AtomEncoding(m) \o f = AtomEncoding(n) \o g => m = n /\ f = g
      BY ONLY <3>2, <1>a
    <3> QED BY ONLY <3>1, <3>2, <3>3
  <2>4. Len(a) = Len(b) BY <1>2, <2>3, CompactIdentifies
  <2> QED BY ONLY <1>2, <2>3, <2>4, <1>c, Zenon
<1> DEFINE Agree(k) == \A i \in 1 .. k : s[i] = t[i]
           T == {k \in Nat : k <= Len(s) /\ k <= Len(t) => Agree(k)}
<1>4. \A k \in Nat : k \in T
  <2>1. 0 \in T OBVIOUS
  <2>2. ASSUME NEW k \in Nat, k \in T PROVE k + 1 \in T
    <3> SUFFICES ASSUME k + 1 <= Len(s), k + 1 <= Len(t) PROVE Agree(k + 1)
      OBVIOUS
    <3>1. Agree(k)
      <4> HIDE DEF Agree
      <4> QED BY <1>1, <2>2
    <3>2. /\ k \in 0 .. Len(s) - 1 /\ k + 1 \in 0 .. Len(s)
          /\ k \in 0 .. Len(t) - 1 /\ k + 1 \in 0 .. Len(t)
          /\ k \in 0 .. Len(s) /\ k + 1 \in 1 .. Len(s) /\ k + 1 \in 1 .. Len(t)
      BY <1>1
    <3> DEFINE x == s[k + 1]
               y == t[k + 1]
               e == AtomsEncoding(s, k)
    <3>3. x \in Node /\ y \in Node BY <1>1, <3>2
    <3>4. e = AtomsEncoding(t, k) BY <3>1, PartAgrees
    <3>5. e \in Seq(Byte) BY <1>1, <3>2, EncodingGrows
    <3>6. PICK q \in Seq(Byte) : a = (e \o NodeEncoding(x)) \o q
      BY <1>1, <3>2, EncodingGrows, EncodingGoesOn
    <3>7. PICK r \in Seq(Byte) : b = (e \o NodeEncoding(y)) \o r
      BY <1>1, <3>2, <3>4, EncodingGrows, EncodingGoesOn
    <3>8. x = Cell <=> y = Cell
      <4>1. /\ k + 1 \in DOMAIN StructureBits(c) /\ k + 1 <= Len(s) /\ k + 1 <= Len(t)
        <5>1. /\ Len(c) * ByteBits >= Len(s) /\ Len(c) * ByteBits \in Nat
              /\ Len(StructureBits(c)) = Len(c) * ByteBits
              /\ StructureBits(c) \in Seq({0, 1})
          BY <1>1, <1>2, StructureBytesAre, StructureBitsAre
        <5>2. PICK z \in Nat : z = Len(c) * ByteBits BY <5>1
        <5>3. DOMAIN StructureBits(c) = 1 .. z BY <5>1, <5>2
        <5> QED BY <1>1, <5>1, <5>2, <5>3
      <4>2. StructureBits(c)[k + 1] = IF x = Cell THEN 1 ELSE 0
        BY <1>1, <1>2, <4>1, BitsRead
      <4>3. StructureBits(c)[k + 1] = IF y = Cell THEN 1 ELSE 0
        <5> HIDE DEF c
        <5>1. \A m \in 1 .. Len(c) : m <= Len(StructureBytes(t))
                                       => c[m] = StructureBytes(t)[m]
          BY <1>3
        <5> QED BY <1>1, <1>2, <4>1, <5>1, BitsRead
      <4> QED BY <4>2, <4>3
    <3> HIDE DEF a, b, c, d
    <3>9. x = y
      <4>1. CASE x = Cell BY <3>8, <4>1
      <4>2. CASE x # Cell
        <5> HIDE DEF e, x, y
        <5>1. /\ x.bytes \in Seq(Byte) /\ x = Atom(x.bytes)
              /\ NodeEncoding(x) = AtomEncoding(x.bytes)
              /\ y.bytes \in Seq(Byte) /\ y = Atom(y.bytes)
              /\ NodeEncoding(y) = AtomEncoding(y.bytes)
          BY <3>3, <3>8, <4>2, NodeIs
        <5>2. AtomEncoding(x.bytes) \in Seq(Byte) /\ AtomEncoding(y.bytes) \in Seq(Byte)
          BY <5>1, AtomEncodingIs
        <5> DEFINE m == x.bytes
                   n == y.bytes
                   u == AtomEncoding(m)
                   v == AtomEncoding(n)
        <5>3. u \in Seq(Byte) /\ v \in Seq(Byte) BY <5>2
        <5>4. (e \o u) \o q = (e \o v) \o r BY <1>3, <3>6, <3>7, <5>1
        <5>5. m \in Seq(Byte) /\ n \in Seq(Byte) BY <5>1
        <5>6. u \o q = v \o r
          <6> HIDE DEF u, v
          <6>1. \A i, j, f, g \in Seq(Byte) :
                  (e \o i) \o f = (e \o j) \o g => i \o f = j \o g
            BY ONLY <3>5, <1>b
          <6>2. \A f, g \in Seq(Byte) :
                  (e \o u) \o f = (e \o v) \o g => u \o f = v \o g
            BY ONLY <6>1, <5>3
          <6> QED BY ONLY <5>4, <6>2, q \in Seq(Byte), r \in Seq(Byte)
        <5>7. m = n
          <6> HIDE DEF m, n
          <6> QED BY ONLY <5>5, <5>6, <1>a, q \in Seq(Byte), r \in Seq(Byte),
                          Zenon
        <5> QED BY <5>1, <5>7
      <4> QED BY <4>1, <4>2
    <3> QED BY <3>1, <3>9
  <2> HIDE DEF T
  <2> QED BY <2>1, <2>2, Induct
<1> HIDE DEF a, b, c, d
<1>5. \A i \in Nat \ {0} : i <= Len(s) /\ i <= Len(t) => s[i] = t[i]
  <2> SUFFICES ASSUME NEW i \in Nat \ {0}, i <= Len(s), i <= Len(t)
               PROVE  s[i] = t[i]
    OBVIOUS
  <2>1. Agree(i)
    <3> HIDE DEF Agree
    <3> QED BY <1>4
  <2> QED BY <2>1
<1>6. ~ (Len(s) < Len(t)) /\ ~ (Len(t) < Len(s))
  <2>1. \A i \in 1 .. Len(s) : i <= Len(t) => s[i] = t[i] BY <1>1, <1>5
  <2>2. \A i \in 1 .. Len(t) : i <= Len(s) => t[i] = s[i] BY <1>1, <1>5
  <2> QED BY <2>1, <2>2, NotABeginning
<1>7. Len(s) = Len(t) BY <1>1, <1>6
<1>8. \A i \in 1 .. Len(s) : s[i] = t[i] BY <1>1, <1>5, <1>7
<1> QED BY <1>1, <1>7, <1>8, SeqEqual

-----------------------------------------------------------------------------
(* What deserialize makes of a buffer that lost bytes or was given more.   *)

\* The first elements of two sequences put together.
LEMMA FrontOfBoth ==
  ASSUME NEW S, NEW a \in Seq(S), NEW b \in Seq(S), NEW j \in 0 .. Len(a \o b)
  PROVE  SubSeq(a \o b, 1, j) =
           IF j <= Len(a) THEN SubSeq(a, 1, j) ELSE a \o SubSeq(b, 1, j - Len(a))
<1> DEFINE s == a \o b
<1>1. PICK m \in Nat, n \in Nat : m = Len(a) /\ n = Len(b)
  OBVIOUS
<1>2. /\ s \in Seq(S) /\ Len(s) = m + n
      /\ \A i \in 1 .. m : s[i] = a[i]
      /\ \A i \in m + 1 .. m + n : s[i] = b[i - m]
  BY <1>1
<1> HIDE DEF s
<1>3. j \in Nat /\ j <= m + n BY <1>1, <1>2 DEF s
<1>4. SubSeq(s, 1, j) \in Seq(S) /\ Len(SubSeq(s, 1, j)) = j
      /\ \A i \in 1 .. j : SubSeq(s, 1, j)[i] = s[i]
  BY <1>2, <1>3
<1>5. CASE j <= m
  <2>1. SubSeq(a, 1, j) \in Seq(S) /\ Len(SubSeq(a, 1, j)) = j
        /\ \A i \in 1 .. j : SubSeq(a, 1, j)[i] = a[i]
    BY <1>1, <1>3, <1>5
  <2>2. \A i \in 1 .. Len(SubSeq(s, 1, j)) : SubSeq(s, 1, j)[i] = SubSeq(a, 1, j)[i]
    BY <1>2, <1>3, <1>4, <1>5, <2>1
  <2>3. SubSeq(s, 1, j) = SubSeq(a, 1, j)
    BY <1>4, <2>1, <2>2, SeqEqual
  <2> QED BY <1>1, <1>5, <2>3 DEF s
<1>6. CASE ~ (j <= m)
  <2> DEFINE c == SubSeq(b, 1, j - m)
             d == a \o c
  <2>1. j - m \in Nat /\ j - m <= n BY <1>3, <1>6
  <2>2. /\ c \in Seq(S) /\ Len(c) = j - m
        /\ \A i \in 1 .. j - m : c[i] = b[i]
    BY <1>1, <2>1
  <2> HIDE DEF c
  <2>3. /\ d \in Seq(S) /\ Len(d) = j
        /\ \A i \in 1 .. m : d[i] = a[i]
        /\ \A i \in m + 1 .. j : d[i] = c[i - m]
    BY <1>1, <2>1, <2>2
  <2> HIDE DEF d
  <2>4. \A i \in 1 .. j : s[i] = d[i]
    <3> SUFFICES ASSUME NEW i \in 1 .. j PROVE s[i] = d[i]
      OBVIOUS
    <3>1. CASE i <= m
      <4>1. i \in 1 .. m BY <3>1
      <4> QED BY <4>1, <1>2, <2>3
    <3>2. CASE ~ (i <= m)
      <4>1. i \in m + 1 .. j /\ i \in m + 1 .. m + n /\ i - m \in 1 .. j - m
        BY <3>2, <1>3
      <4> QED BY <4>1, <1>2, <2>2, <2>3
    <3> QED BY <3>1, <3>2
  <2>5. \A i \in 1 .. Len(SubSeq(s, 1, j)) : SubSeq(s, 1, j)[i] = d[i]
    BY <1>4, <2>4
  <2>6. SubSeq(s, 1, j) = d
    BY <1>4, <2>3, <2>5, SeqEqual
  <2> QED BY <1>1, <1>6, <2>6 DEF s, c, d
<1> QED BY <1>5, <1>6

\* What is appended to both is appended to the second.
LEMMA AppendToBoth ==
  \A a, b \in Seq(Byte) : \A x \in Byte : Append(a \o b, x) = a \o Append(b, x)
<1> TAKE a, b \in Seq(Byte)
<1> TAKE x \in Byte
<1> DEFINE s == Append(a \o b, x)
           t == a \o Append(b, x)
<1>1. PICK m \in Nat, n \in Nat : m = Len(a) /\ n = Len(b)
  OBVIOUS
<1>2. s \in Seq(Byte) /\ t \in Seq(Byte) /\ Len(s) = m + n + 1 /\ Len(t) = m + n + 1
  BY <1>1
<1>3. \A i \in 1 .. m + n + 1 : s[i] = t[i]
  BY <1>1
<1> HIDE DEF s, t
<1>4. s = t
  BY <1>2, <1>3, SeqEqual
<1> QED BY <1>4 DEF s, t

\* Prefix, atoms and structure are told apart, whatever the structure.
LEMMA SplitWhole ==
  ASSUME NEW atoms \in Seq(Byte), NEW structure \in Seq(Byte),
         ReadsBack(Len(atoms)), Measurable(Len(atoms))
  PROVE  SplitAt(AtomEncoding(FromUsizeCompact(Len(atoms))) \o (atoms \o structure))
           = {[atoms |-> atoms, structure |-> structure]}
<1> DEFINE n == Len(atoms)
           rest == atoms \o structure
<1>1. /\ rest \in Seq(Byte) /\ n <= Len(rest) /\ n \in Nat
      /\ SubSeq(rest, 1, n) = atoms
      /\ SubSeq(rest, n + 1, Len(rest)) = structure
  <2>1. rest \in Seq(Byte) /\ n \in Nat OBVIOUS
  <2>2. PICK a \in Nat, b \in Nat : a = Len(atoms) /\ b = Len(structure)
    OBVIOUS
  <2>3. /\ Len(rest) = a + b
        /\ \A i \in 1 .. a : rest[i] = atoms[i]
        /\ \A i \in 1 .. b : rest[a + i] = structure[i]
    BY <2>2
  <2> HIDE DEF rest
  <2>4. SubSeq(rest, 1, a) = atoms
    <3>1. SubSeq(rest, 1, a) \in Seq(Byte) /\ Len(SubSeq(rest, 1, a)) = a
          /\ \A i \in 1 .. a : SubSeq(rest, 1, a)[i] = rest[i]
      BY <2>1, <2>3
    <3>2. \A i \in 1 .. Len(SubSeq(rest, 1, a)) : SubSeq(rest, 1, a)[i] = atoms[i]
      BY <2>3, <3>1
    <3> QED BY <2>2, <3>1, <3>2, SeqEqual
  <2>5. SubSeq(rest, a + 1, a + b) = structure
    <3>1. SubSeq(rest, a + 1, a + b) \in Seq(Byte)
          /\ Len(SubSeq(rest, a + 1, a + b)) = b
          /\ \A i \in 1 .. b : SubSeq(rest, a + 1, a + b)[i] = rest[a + i]
      BY <2>1, <2>3
    <3>2. \A i \in 1 .. Len(SubSeq(rest, a + 1, a + b)) :
            SubSeq(rest, a + 1, a + b)[i] = structure[i]
      BY <2>3, <3>1
    <3> QED BY <2>2, <3>1, <3>2, SeqEqual
  <2> QED BY <2>1, <2>2, <2>3, <2>4, <2>5
<1>r. ReadsBack(n) /\ Measurable(n)
  OBVIOUS
<1> HIDE DEF rest, n
<1>2. SplitAt(AtomEncoding(FromUsizeCompact(n)) \o rest)
        = {[atoms |-> atoms, structure |-> structure]}
  BY <1>1, <1>r, SplitRead
<1> QED BY <1>2 DEF n, rest

\* Alterations of given bytes: some lost at the end, or one added.
Changed(bytes) ==
  {SubSeq(bytes, 1, n) : n \in 0 .. Len(bytes) - 1}
    \cup {Append(bytes, b) : b \in {0, Base - 1}}

\* Of altered bytes deserialize gets nothing, or the atoms with a structure
\* whose length is wrong but whose bits are right as far as they go.
LEMMA SplitChanged ==
  ASSUME NEW atoms \in Seq(Byte), NEW structure \in Seq(Byte),
         ReadsBack(Len(atoms)), Measurable(Len(atoms)),
         NEW bytes \in Changed(AtomEncoding(FromUsizeCompact(Len(atoms)))
                                 \o (atoms \o structure))
  PROVE  \/ SplitAt(bytes) = {}
         \/ \E read \in Seq(Byte) :
              /\ SplitAt(bytes) = {[atoms |-> atoms, structure |-> read]}
              /\ Len(read) # Len(structure)
              /\ \A i \in 1 .. Len(read) : i <= Len(structure) => read[i] = structure[i]
<1> DEFINE prefix == AtomEncoding(FromUsizeCompact(Len(atoms)))
           whole == prefix \o (atoms \o structure)
<1>1. /\ Len(atoms) \in Nat /\ Len(structure) \in Nat
      /\ ReadsBack(Len(atoms)) /\ Measurable(Len(atoms))
  OBVIOUS
<1>2. prefix \in Seq(Byte) /\ Len(prefix) \in Nat
  BY <1>1, CompactIs, AtomEncodingIs
<1>3. atoms \o structure \in Seq(Byte) /\ Len(atoms \o structure) = Len(atoms) + Len(structure)
  OBVIOUS
<1>4. /\ whole \in Seq(Byte)
      /\ Len(whole) = Len(prefix) + (Len(atoms) + Len(structure))
  <2> HIDE DEF prefix
  <2> QED BY <1>2, <1>3
<1>5. CASE \E j \in 0 .. Len(whole) - 1 : bytes = SubSeq(whole, 1, j)
  <2>1. PICK j \in 0 .. Len(whole) - 1 : bytes = SubSeq(whole, 1, j)
    BY <1>5
  <2>2. j \in 0 .. Len(prefix \o (atoms \o structure)) /\ j \in Nat
        /\ j < Len(prefix) + (Len(atoms) + Len(structure))
    BY <1>1, <1>2, <1>4
  <2>3. bytes = IF j <= Len(prefix) THEN SubSeq(prefix, 1, j)
                ELSE prefix \o SubSeq(atoms \o structure, 1, j - Len(prefix))
    <3> HIDE DEF prefix
    <3> QED BY <1>2, <1>3, <2>1, <2>2, FrontOfBoth DEF whole
  <2>4. CASE j < Len(prefix)
    <3>1. j \in 0 .. Len(AtomEncoding(FromUsizeCompact(Len(atoms)))) - 1
          /\ bytes = SubSeq(AtomEncoding(FromUsizeCompact(Len(atoms))), 1, j)
      BY <1>1, <1>2, <2>2, <2>3, <2>4
    <3>2. SplitAt(bytes) = {} BY <1>1, <3>1, SplitCutOff
    <3> QED BY <3>2
  <2>5. CASE ~ (j < Len(prefix))
    <3> DEFINE m == j - Len(prefix)
               rest == SubSeq(atoms \o structure, 1, m)
    <3>1. m \in Nat /\ m < Len(atoms) + Len(structure)
          /\ m \in 0 .. Len(atoms \o structure)
      BY <1>1, <1>2, <1>3, <2>2, <2>5
    <3>2. bytes = prefix \o rest
      <4>1. CASE j <= Len(prefix)
        <5>1. j = Len(prefix) /\ m = 0 BY <1>2, <2>2, <2>5, <4>1
        <5>2. bytes = prefix /\ rest = <<>>
          <6>1. bytes = SubSeq(prefix, 1, Len(prefix)) BY <2>3, <4>1, <5>1
          <6>2. rest = <<>>
            <7>1. rest = SubSeq(atoms \o structure, 1, 0) BY <5>1
            <7> QED BY <1>3, <7>1
          <6> HIDE DEF prefix
          <6> QED BY <1>2, <6>1, <6>2
        <5> HIDE DEF prefix, rest
        <5> QED BY <1>2, <5>2
      <4>2. CASE ~ (j <= Len(prefix)) BY <2>3, <4>2
      <4> QED BY <4>1, <4>2
    <3>3. rest = IF m <= Len(atoms) THEN SubSeq(atoms, 1, m)
                 ELSE atoms \o SubSeq(structure, 1, m - Len(atoms))
      <4> HIDE DEF m
      <4> QED BY <3>1, FrontOfBoth
    <3> HIDE DEF m, rest
    <3>4. CASE m < Len(atoms)
      <4>1. rest \in Seq(Byte) /\ Len(rest) = m
        BY <1>1, <3>1, <3>3, <3>4
      <4>2. SplitAt(bytes) = {}
        <5>1. ~ (Len(atoms) <= Len(rest)) BY <1>1, <3>1, <3>4, <4>1
        <5> QED BY <1>1, <3>2, <4>1, <5>1, SplitRead DEF prefix
      <4> QED BY <4>2
    <3>5. CASE ~ (m < Len(atoms))
      <4> DEFINE n == m - Len(atoms)
                 read == SubSeq(structure, 1, n)
      <4>1. n \in Nat /\ n < Len(structure) BY <1>1, <3>1, <3>5
      <4>2. read \in Seq(Byte) /\ Len(read) = n
            /\ \A i \in 1 .. n : read[i] = structure[i]
        BY <4>1
      <4>3. rest = atoms \o read
        <5>1. CASE m <= Len(atoms)
          <6>1. m = Len(atoms) /\ n = 0 BY <1>1, <3>1, <3>5, <5>1
          <6>2. rest = SubSeq(atoms, 1, Len(atoms)) BY <3>3, <6>1
          <6>3. read = <<>>
            <7> HIDE DEF n
            <7> QED BY <6>1
          <6> HIDE DEF read
          <6> QED BY <6>2, <6>3
        <5>2. CASE ~ (m <= Len(atoms)) BY <3>3, <5>2
        <5> QED BY <5>1, <5>2
      <4> HIDE DEF n, read
      <4>4. SplitAt(bytes) = {[atoms |-> atoms, structure |-> read]}
        BY <1>1, <3>2, <4>2, <4>3, SplitWhole DEF prefix
      <4>5. Len(read) # Len(structure) BY <1>1, <4>1, <4>2
      <4>6. \A i \in 1 .. Len(read) : i <= Len(structure) => read[i] = structure[i]
        BY <4>2
      <4> QED BY <4>2, <4>4, <4>5, <4>6
    <3> QED BY <3>4, <3>5
  <2> QED BY <2>4, <2>5
<1>6. CASE \E b \in {0, Base - 1} : bytes = Append(whole, b)
  <2>1. PICK b \in {0, Base - 1} : bytes = Append(whole, b)
    BY <1>6
  <2>2. b \in Byte BY <2>1, BaseIs DEF Byte
  <2> DEFINE read == Append(structure, b)
  <2>3. read \in Seq(Byte) /\ Len(read) = Len(structure) + 1
        /\ \A i \in 1 .. Len(structure) : read[i] = structure[i]
    BY <2>2
  <2>4. bytes = prefix \o (atoms \o read)
    <3>1. Append(whole, b) = prefix \o Append(atoms \o structure, b)
      <4> DEFINE both == atoms \o structure
      <4>1. both \in Seq(Byte) BY <1>3
      <4>2. Append(prefix \o both, b) = prefix \o Append(both, b)
        <5> HIDE DEF prefix, both
        <5> QED BY ONLY AppendToBoth, <1>2, <2>2, <4>1
      <4> QED BY <4>2
    <3>2. Append(atoms \o structure, b) = atoms \o read
      BY ONLY AppendToBoth, <2>2, atoms \in Seq(Byte), structure \in Seq(Byte)
    <3> HIDE DEF read, prefix, whole
    <3> QED BY <2>1, <3>1, <3>2
  <2> HIDE DEF read
  <2>5. SplitAt(bytes) = {[atoms |-> atoms, structure |-> read]}
    BY <1>1, <2>3, <2>4, SplitWhole DEF prefix
  <2>6. Len(read) # Len(structure) BY <1>1, <2>3
  <2>7. \A i \in 1 .. Len(read) : i <= Len(structure) => read[i] = structure[i]
    BY <1>1, <2>3
  <2> QED BY <2>3, <2>5, <2>6, <2>7
<1> QED BY <1>5, <1>6 DEF Changed

-----------------------------------------------------------------------------
(* The reader after k nodes of a noun, of a structure that is size bytes    *)
(* long.                                                                   *)

\* deserialize reads that length as it is.
LengthReads(source) == ReadsBack(LengthOf(source)) /\ Measurable(LengthOf(source))

\* The bits left after k nodes, of size bytes.
BitsFit(source, bits, k, size) ==
  /\ bits \in Seq({0, 1})
  /\ k + Len(bits) = size * ByteBits
  /\ \A i \in 1 .. Len(bits) :
       k + i <= Len(source) => bits[i] = IF source[k + i] = Cell THEN 1 ELSE 0

\* The bytes of atoms left after k nodes.
AtomsFit(source, atoms, k) ==
  /\ atoms \in Seq(Byte)
  /\ AtomsEncoding(source, Len(source)) = AtomsEncoding(source, k) \o atoms

\* The state of the reader after k nodes, of a structure of size bytes.
Reads(source, got, open, atoms, bits, changed, k, size) ==
  /\ got \in Seq(Node)
  /\ Len(got) = k
  /\ k <= Len(source)
  /\ \A i \in 1 .. k : got[i] = source[i]
  /\ open = Open(source, k)
  /\ AtomsFit(source, atoms, k)
  /\ changed <=> size # Len(StructureBytes(source))
  /\ BitsFit(source, bits, k, size)

\* The state that ReadLength leaves.
LEMMA ReadsBegin ==
  ASSUME NEW source, IsNoun(source), NEW structure \in Seq(Byte), NEW changed,
         changed <=> Len(structure) # Len(StructureBytes(source)),
         \A i \in 1 .. Len(structure) : i <= Len(StructureBytes(source))
                                          => structure[i] = StructureBytes(source)[i]
  PROVE  Reads(source, <<>>, 1, AtomsEncoding(source, Len(source)),
               StructureBits(structure), changed, 0, Len(structure))
<1> DEFINE bits == StructureBits(structure)
           all == AtomsEncoding(source, Len(source))
<1>1. source \in Seq(Node) /\ Len(source) \in Nat
  BY DEF IsNoun
<1>2. <<>> \in Seq(Node) /\ Len(<<>>) = 0
  OBVIOUS
<1>3. Open(source, 0) = 1
  BY OpenIs
<1>4. all \in Seq(Byte) /\ all = AtomsEncoding(source, 0) \o all
  <2>1. Len(source) \in 0 .. Len(source) BY <1>1
  <2>2. all \in Seq(Byte) /\ AtomsEncoding(source, 0) = <<>>
    BY <1>1, <2>1, EncodingGrows
  <2> HIDE DEF all
  <2> QED BY <2>2
<1>5. bits \in Seq({0, 1}) /\ 0 + Len(bits) = Len(structure) * ByteBits
  BY StructureBitsAre
<1>6. \A i \in 1 .. Len(bits) :
        0 + i <= Len(source) => bits[i] = IF source[0 + i] = Cell THEN 1 ELSE 0
  <2> SUFFICES ASSUME NEW i \in 1 .. Len(bits), i <= Len(source)
               PROVE  bits[i] = IF source[i] = Cell THEN 1 ELSE 0
    OBVIOUS
  <2>1. i \in DOMAIN StructureBits(structure)
    <3> HIDE DEF bits
    <3>1. i \in DOMAIN bits BY <1>5
    <3> QED BY <3>1 DEF bits
  <2> QED BY <1>1, <2>1, BitsRead
<1> HIDE DEF bits, all
<1>7. Reads(source, <<>>, 1, all, bits, changed, 0, Len(structure))
  BY <1>1, <1>2, <1>3, <1>4, <1>5, <1>6 DEF Reads, AtomsFit, BitsFit, all
<1> QED BY <1>7 DEF bits, all

\* A node remains to be read while the noun is not complete.
LEMMA ReadsMore ==
  ASSUME NEW source, NEW got, NEW open, NEW atoms, NEW bits, NEW changed,
         NEW k \in Nat, NEW size \in Nat, IsNoun(source),
         Reads(source, got, open, atoms, bits, changed, k, size)
  PROVE  /\ source \in Seq(Node) /\ Len(source) \in Nat
         /\ open \in Int
         /\ open > 0 <=> k < Len(source)
         /\ open = 0 <=> k = Len(source)
<1>1. source \in Seq(Node) /\ Len(source) \in Nat
  BY DEF IsNoun
<1>2. open = Open(source, k) /\ k <= Len(source)
  BY DEF Reads
<1>3. k < Len(source) => Open(source, k) > 0
  BY <1>1 DEF IsNoun
<1>4. Open(source, Len(source)) = 0
  BY DEF IsNoun
<1>5. open \in Int
  BY <1>2, OpenIs
<1> QED BY <1>1, <1>2, <1>3, <1>4, <1>5

\* The bit of the next node.
LEMMA NextBit ==
  ASSUME NEW source, NEW bits, NEW k \in Nat, NEW size \in Nat, IsNoun(source),
         BitsFit(source, bits, k, size), k < Len(source), bits # <<>>
  PROVE  /\ Head(bits) = IF source[k + 1] = Cell THEN 1 ELSE 0
         /\ BitsFit(source, Tail(bits), k + 1, size)
<1>1. Len(source) \in Nat BY DEF IsNoun
<1>2. /\ bits \in Seq({0, 1}) /\ k + Len(bits) = size * ByteBits
      /\ \A i \in 1 .. Len(bits) :
           k + i <= Len(source) => bits[i] = IF source[k + i] = Cell THEN 1 ELSE 0
  BY DEF BitsFit
<1>3. PICK n \in Nat : n = Len(bits) /\ n > 0
  BY <1>2
<1>4. /\ Tail(bits) \in Seq({0, 1}) /\ Len(Tail(bits)) = n - 1
      /\ \A i \in 1 .. n - 1 : Tail(bits)[i] = bits[i + 1]
      /\ Head(bits) = bits[1]
  BY <1>2, <1>3
<1>5. bits[1] = IF source[k + 1] = Cell THEN 1 ELSE 0
  BY <1>1, <1>2, <1>3
<1>6. (k + 1) + Len(Tail(bits)) = size * ByteBits
  <2>1. (k + 1) + (n - 1) = k + n OBVIOUS
  <2> QED BY <1>2, <1>3, <1>4, <2>1
<1>7. ASSUME NEW i \in 1 .. Len(Tail(bits)), (k + 1) + i <= Len(source)
      PROVE  Tail(bits)[i] = IF source[(k + 1) + i] = Cell THEN 1 ELSE 0
  <2>1. i + 1 \in 1 .. Len(bits) /\ k + (i + 1) <= Len(source) /\ i \in 1 .. n - 1
        /\ k + (i + 1) = (k + 1) + i
    BY <1>1, <1>3, <1>4, <1>7
  <2>2. bits[i + 1] = IF source[k + (i + 1)] = Cell THEN 1 ELSE 0
    BY <1>2, <2>1
  <2> QED BY <1>4, <2>1, <2>2
<1> QED BY <1>4, <1>5, <1>6, <1>7 DEF BitsFit

\* One more node is like that of the noun.
LEMMA GoesOnLike ==
  ASSUME NEW source \in Seq(Node), NEW got \in Seq(Node), NEW k \in Nat,
         Len(got) = k, k < Len(source), \A i \in 1 .. k : got[i] = source[i],
         NEW node \in Node, node = source[k + 1]
  PROVE  /\ Append(got, node) \in Seq(Node)
         /\ Len(Append(got, node)) = k + 1
         /\ \A i \in 1 .. k + 1 : Append(got, node)[i] = source[i]
OBVIOUS

\* ReadCell goes on to the next node.
LEMMA ReadsCell ==
  ASSUME NEW source, NEW got, NEW open, NEW atoms, NEW bits, NEW changed,
         NEW k \in Nat, NEW size \in Nat, IsNoun(source),
         Reads(source, got, open, atoms, bits, changed, k, size),
         open > 0, bits # <<>>, Head(bits) = 1
  PROVE  Reads(source, Append(got, Cell), open + 1, atoms, Tail(bits), changed,
               k + 1, size)
<1>1. source \in Seq(Node) /\ Len(source) \in Nat /\ k < Len(source)
  BY ReadsMore
<1>b. /\ Head(bits) = IF source[k + 1] = Cell THEN 1 ELSE 0
      /\ BitsFit(source, Tail(bits), k + 1, size)
  <2>1. BitsFit(source, bits, k, size) BY DEF Reads
  <2> QED BY <1>1, <2>1, NextBit
<1>2. source[k + 1] = Cell
  BY <1>b
<1>3. /\ Append(got, Cell) \in Seq(Node)
      /\ Len(Append(got, Cell)) = k + 1
      /\ \A i \in 1 .. k + 1 : Append(got, Cell)[i] = source[i]
  <2>1. Cell \in Node BY DEF Node
  <2>2. got \in Seq(Node) /\ Len(got) = k /\ \A i \in 1 .. k : got[i] = source[i]
    BY DEF Reads
  <2> QED BY <1>1, <1>2, <2>1, <2>2, GoesOnLike
<1>4. open + 1 = Open(source, k + 1)
  BY <1>2, OpenIs DEF Reads
<1>5. AtomsFit(source, atoms, k + 1)
  <2>1. k \in 0 .. Len(source) - 1 /\ k \in 0 .. Len(source) BY <1>1
  <2>2. AtomsEncoding(source, k) \in Seq(Byte)
        /\ AtomsEncoding(source, k + 1)
             = AtomsEncoding(source, k) \o NodeEncoding(source[k + 1])
    BY <1>1, <2>1, EncodingGrows
  <2>3. NodeEncoding(source[k + 1]) = <<>> BY <1>2 DEF NodeEncoding
  <2>4. AtomsEncoding(source, k + 1) = AtomsEncoding(source, k)
    BY <2>2, <2>3
  <2> QED BY <2>4 DEF Reads, AtomsFit
<1>7. changed <=> size # Len(StructureBytes(source))
  BY DEF Reads
<1> QED BY <1>1, <1>3, <1>4, <1>5, <1>7, <1>b DEF Reads

\* Of a noun whose atoms together can be measured every atom can.
LEMMA AtomMeasurable ==
  ASSUME NEW source \in Seq(Node), NEW k \in 0 .. Len(source) - 1,
         Measurable(LengthOf(source)), source[k + 1] # Cell
  PROVE  Measurable(Len(source[k + 1].bytes))
<1> DEFINE node == source[k + 1]
           e == AtomsEncoding(source, k)
           bytes == node.bytes
           u == AtomEncoding(bytes)
<1>1. node \in Node /\ k \in 0 .. Len(source) /\ k + 1 \in 0 .. Len(source)
  OBVIOUS
<1>2. bytes \in Seq(Byte) /\ NodeEncoding(node) = u
  BY <1>1, NodeIs
<1>3. u \in Seq(Byte) /\ Len(bytes) \in Nat
  BY <1>2, AtomEncodingIs
<1>4. e \in Seq(Byte) /\ AtomsEncoding(source, k + 1) = e \o u
  BY <1>1, <1>2, EncodingGrows
<1>5. PICK rest \in Seq(Byte) :
         AtomsEncoding(source, Len(source)) = AtomsEncoding(source, k + 1) \o rest
  BY <1>1, EncodingGoesOn
<1>6. LengthOf(source) = Len((e \o u) \o rest)
  BY <1>4, <1>5 DEF LengthOf
<1>7. Len((e \o u) \o rest) = Len(e) + Len(u) + Len(rest) /\ Len(e) \in Nat
      /\ Len(u) \in Nat /\ Len(rest) \in Nat
  <2> HIDE DEF e, u
  <2> QED BY <1>3, <1>4
<1>8. Len(bytes) <= Len(u)
  <2>1. CASE IsLiteral(bytes)
    <3>1. Len(bytes) = 1 BY <2>1 DEF IsLiteral
    <3>2. Len(u) > 0 BY <1>2, AtomEncodingIs
    <3> HIDE DEF bytes, u
    <3> QED BY <1>7, <3>1, <3>2
  <2>2. CASE ~ IsLiteral(bytes)
    <3>1. u = Header(Len(bytes)) \o bytes BY <1>2, <2>2, AtomEncodingIs
    <3>2. Header(Len(bytes)) \in Seq(Byte) BY <1>3, HeaderIs
    <3> HIDE DEF bytes, u
    <3>3. Len(u) = Len(Header(Len(bytes))) + Len(bytes)
          /\ Len(Header(Len(bytes))) \in Nat
      BY <1>2, <3>1, <3>2
    <3> QED BY <1>3, <3>3
  <2> QED BY <2>1, <2>2
<1> HIDE DEF bytes, u, e
<1>9. PICK n \in Nat : n = LengthOf(source) BY <1>6, <1>7
<1>10. Len(bytes) \in 0 .. n BY <1>3, <1>6, <1>7, <1>8, <1>9
<1>11. Measurable(n) BY <1>9
<1>12. Measurable(Len(bytes)) BY <1>10, <1>11, ShorterMeasurable
<1> QED BY <1>12 DEF bytes

\* What the atoms not yet read start with.
LEMMA ReadsNext ==
  ASSUME NEW source \in Seq(Node), NEW k \in 0 .. Len(source) - 1,
         NEW atoms, AtomsFit(source, atoms, k), Measurable(LengthOf(source)),
         source[k + 1] # Cell
  PROVE  \E rest : /\ AtomsFit(source, rest, k + 1)
                   /\ AtomAt(atoms) = {[bytes |-> source[k + 1].bytes, rest |-> rest]}
<1>0. /\ atoms \in Seq(Byte)
      /\ AtomsEncoding(source, Len(source)) = AtomsEncoding(source, k) \o atoms
  BY DEF AtomsFit
<1>a. \A j, h, f, g \in Seq(Byte) :
        j \o f = h \o g /\ Len(j) = Len(h) => j = h /\ f = g
  BY ONLY EqualParts
<1>b. \A j, h, l \in Seq(Byte) : (j \o h) \o l = j \o (h \o l)
  BY ONLY ConcatAssociative
<1> DEFINE node == source[k + 1]
           e == AtomsEncoding(source, k)
           bytes == node.bytes
           u == AtomEncoding(bytes)
<1>1. /\ node \in Node /\ k \in Nat /\ k \in 0 .. Len(source)
      /\ k + 1 \in 0 .. Len(source)
  OBVIOUS
<1>2. bytes \in Seq(Byte) /\ NodeEncoding(node) = u
  BY <1>1, NodeIs
<1>3. u \in Seq(Byte) /\ Len(bytes) \in Nat
  BY <1>2, AtomEncodingIs
<1>4. e \in Seq(Byte) /\ AtomsEncoding(source, k + 1) = e \o u
  BY <1>1, <1>2, EncodingGrows
<1>5. PICK rest \in Seq(Byte) :
         AtomsEncoding(source, Len(source)) = AtomsEncoding(source, k + 1) \o rest
  BY <1>1, EncodingGoesOn
<1>6. e \o atoms = (e \o u) \o rest
  BY <1>0, <1>4, <1>5
<1>7. atoms = u \o rest
  <2> HIDE DEF e, u
  <2>1. (e \o u) \o rest = e \o (u \o rest)
    BY ONLY <1>b, <1>3, <1>4, rest \in Seq(Byte)
  <2> DEFINE m == u \o rest
  <2>2. m \in Seq(Byte) BY <1>3
  <2>3. e \o atoms = e \o m BY <1>6, <2>1
  <2> HIDE DEF m
  <2>4. atoms = m BY ONLY <1>a, <1>4, <2>2, <2>3, <1>0
  <2> QED BY <2>4 DEF m
<1>8. Measurable(Len(bytes))
  BY AtomMeasurable
<1>9. AtomAt(atoms) = {[bytes |-> bytes, rest |-> rest]}
  <2> HIDE DEF bytes
  <2>1. Len(Digits(Len(bytes), Half)) <= MaxChunks BY <1>8 DEF Measurable
  <2> QED BY <1>2, <1>7, <2>1, AtomRead DEF u
<1> QED BY <1>5, <1>9 DEF AtomsFit

\* ReadAtom can be taken at an atom, in one way, and goes on to the next node.
LEMMA ReadsAtom ==
  ASSUME NEW source, NEW got, NEW open, NEW atoms, NEW bits, NEW changed,
         NEW k \in Nat, NEW size \in Nat, IsNoun(source), Measurable(LengthOf(source)),
         Reads(source, got, open, atoms, bits, changed, k, size),
         open > 0, bits # <<>>, Head(bits) = 0
  PROVE  \E first :
           /\ AtomAt(atoms) = {first}
           /\ Reads(source, Append(got, Atom(first.bytes)), open - 1, first.rest,
                    Tail(bits), changed, k + 1, size)
<1>1. source \in Seq(Node) /\ Len(source) \in Nat /\ k < Len(source) /\ open \in Int
  BY ReadsMore
<1>2. /\ Head(bits) = IF source[k + 1] = Cell THEN 1 ELSE 0
      /\ BitsFit(source, Tail(bits), k + 1, size)
  <2>1. BitsFit(source, bits, k, size) BY DEF Reads
  <2> QED BY <1>1, <2>1, NextBit
<1>3. source[k + 1] # Cell
  BY <1>2
<1>4. k \in 0 .. Len(source) - 1 /\ AtomsFit(source, atoms, k)
  BY <1>1 DEF Reads
<1>5. PICK rest :
        /\ AtomsFit(source, rest, k + 1)
        /\ AtomAt(atoms) = {[bytes |-> source[k + 1].bytes, rest |-> rest]}
  BY <1>1, <1>3, <1>4, ReadsNext
<1> DEFINE node == source[k + 1]
           first == [bytes |-> node.bytes, rest |-> rest]
<1>6. node \in Node /\ node = Atom(node.bytes)
  <2>1. node \in Node BY <1>1
  <2> QED BY <1>3, <2>1, NodeIs
<1>7. /\ Append(got, node) \in Seq(Node)
      /\ Len(Append(got, node)) = k + 1
      /\ \A i \in 1 .. k + 1 : Append(got, node)[i] = source[i]
  <2>1. got \in Seq(Node) /\ Len(got) = k /\ \A i \in 1 .. k : got[i] = source[i]
    BY DEF Reads
  <2>2. node = source[k + 1] OBVIOUS
  <2> HIDE DEF node
  <2> QED BY <1>1, <1>6, <2>1, <2>2, GoesOnLike
<1>8. open - 1 = Open(source, k + 1)
  <2>1. open = Open(source, k) BY DEF Reads
  <2> QED BY <1>1, <1>3, <2>1, OpenIs
<1>9. changed <=> size # Len(StructureBytes(source))
  BY DEF Reads
<1>10. Reads(source, Append(got, node), open - 1, rest, Tail(bits), changed,
             k + 1, size)
  <2>1. k + 1 <= Len(source) BY <1>1
  <2> HIDE DEF node
  <2> QED BY <1>2, <1>5, <1>7, <1>8, <1>9, <2>1 DEF Reads
<1>11. AtomAt(atoms) = {first} /\ Atom(first.bytes) = node /\ first.rest = rest
  BY <1>5, <1>6
<1> QED BY <1>10, <1>11

\* The structure is too short only if bytes of it were lost.
LEMMA ReadsFail ==
  ASSUME NEW source, NEW got, NEW open, NEW atoms, NEW bits, NEW changed,
         NEW k \in Nat, NEW size \in Nat, IsNoun(source),
         Reads(source, got, open, atoms, bits, changed, k, size),
         open > 0, bits = <<>>
  PROVE  changed
<1>1. source \in Seq(Node) /\ Len(source) \in Nat /\ k < Len(source)
  BY ReadsMore
<1>2. k + Len(bits) = size * ByteBits
  BY DEF Reads, BitsFit
<1>3. k = size * ByteBits
  BY <1>2
<1>4. Len(StructureBytes(source)) * ByteBits >= Len(source)
  BY <1>1, StructureBytesAre
<1>5. size # Len(StructureBytes(source))
  <2> SUFFICES ASSUME size = Len(StructureBytes(source)) PROVE FALSE
    OBVIOUS
  <2>1. size * ByteBits >= Len(source) BY <1>4
  <2>2. k >= Len(source) BY <1>3, <2>1
  <2> QED BY <1>1, <2>2
<1> QED BY <1>5 DEF Reads

\* All is used up at the end if and only if nothing was lost or added.
LEMMA ReadsEnd ==
  ASSUME NEW source, NEW got, NEW atoms, NEW bits, NEW changed \in BOOLEAN,
         NEW k \in Nat, NEW size \in Nat, IsNoun(source),
         Reads(source, got, 0, atoms, bits, changed, k, size)
  PROVE  /\ Exhausted(atoms, bits) <=> ~ changed
         /\ got = source
<1>1. source \in Seq(Node) /\ Len(source) \in Nat /\ k = Len(source)
  BY ReadsMore
<1>2. got = source
  <2>1. got \in Seq(Node) /\ Len(got) = k /\ \A i \in 1 .. k : got[i] = source[i]
    BY DEF Reads
  <2> QED BY <1>1, <2>1, SeqEqual
<1>3. atoms = <<>>
  <2> DEFINE all == AtomsEncoding(source, Len(source))
  <2>1. all = all \o atoms /\ atoms \in Seq(Byte)
    BY <1>1 DEF Reads, AtomsFit
  <2>2. all \in Seq(Byte)
    <3>1. Len(source) \in 0 .. Len(source) BY <1>1
    <3> QED BY <1>1, <3>1, EncodingGrows
  <2> HIDE DEF all
  <2>3. PICK m \in Nat, n \in Nat : m = Len(all) /\ n = Len(atoms)
    BY <2>1, <2>2
  <2>4. Len(all \o atoms) = m + n
    BY <2>1, <2>2, <2>3
  <2>5. n = 0 BY <2>1, <2>3, <2>4
  <2> QED BY <2>1, <2>3, <2>5
<1>4. ByteBits \in Nat /\ ByteBits > 0
  BY NumbersAssumption
<1>5. PICK n \in Nat, m \in Nat :
         n = Len(bits) /\ m = Len(StructureBytes(source))
         /\ Len(source) + n = size * ByteBits
         /\ m * ByteBits >= Len(source) /\ m * ByteBits < Len(source) + ByteBits
         /\ (changed <=> size # m)
  <2>1. bits \in Seq({0, 1}) /\ k + Len(bits) = size * ByteBits
    BY DEF Reads, BitsFit
  <2>2. StructureBytes(source) \in Seq(Byte)
        /\ Len(StructureBytes(source)) * ByteBits >= Len(source)
        /\ Len(StructureBytes(source)) * ByteBits < Len(source) + ByteBits
    BY <1>1, StructureBytesAre
  <2>3. changed <=> size # Len(StructureBytes(source))
    BY DEF Reads
  <2>4. PICK n \in Nat, m \in Nat :
          n = Len(bits) /\ m = Len(StructureBytes(source))
    BY <2>1, <2>2
  <2> QED BY <1>1, <2>1, <2>2, <2>3, <2>4
<1>6. n < ByteBits <=> size = m
  <2>1. CASE size = m
    <3>1. Len(source) + n < Len(source) + ByteBits BY <1>5, <2>1
    <3> QED BY <1>1, <1>4, <2>1, <3>1
  <2>2. CASE size > m
    <3>1. PICK c \in Nat : size = m + 1 + c
      <4>1. size - m - 1 \in Nat /\ size = m + 1 + (size - m - 1) BY <2>2
      <4> QED BY <4>1
    <3>2. size * ByteBits = m * ByteBits + ByteBits + c * ByteBits
      BY <1>4, <3>1
    <3>3. c * ByteBits \in Nat /\ m * ByteBits \in Nat
      BY <1>4
    <3>4. n >= ByteBits BY <1>1, <1>4, <1>5, <3>2, <3>3
    <3> QED BY <1>4, <2>2, <3>4
  <2>3. CASE size < m
    <3>1. PICK c \in Nat : m = size + 1 + c
      <4>1. m - size - 1 \in Nat /\ m = size + 1 + (m - size - 1) BY <2>3
      <4> QED BY <4>1
    <3>2. m * ByteBits = size * ByteBits + ByteBits + c * ByteBits
      BY <1>4, <3>1
    <3>3. c * ByteBits \in Nat /\ size * ByteBits \in Nat
      BY <1>4
    <3>4. FALSE BY <1>1, <1>4, <1>5, <3>2, <3>3
    <3> QED BY <3>4
  <2> QED BY <2>1, <2>2, <2>3
<1>7. Exhausted(atoms, bits) <=> ~ changed
  BY <1>3, <1>5, <1>6 DEF Exhausted
<1> QED BY <1>2, <1>7

\* What serialize lets through takes no more than MaxLength.
LEMMA EncodingBounded ==
  ASSUME NEW source \in Seq(Node), Serializable(source)
  PROVE  Len(AtomsEncoding(source, Len(source))) <= MaxLength
<1> DEFINE Bounded(k) == Len(AtomsEncoding(source, k)) <= MaxLength
           T == {k \in Nat : k <= Len(source) => Bounded(k)}
<1>1. Len(source) \in Nat /\ MaxLength \in Nat
  BY CodecAssumption
<1>2. 0 \in T
  <2>1. AtomsEncoding(source, 0) = <<>> BY EncodingGrows
  <2>2. Len(<<>>) = 0 OBVIOUS
  <2> QED BY <1>1, <2>1, <2>2
<1>3. ASSUME NEW k \in Nat, k \in T PROVE k + 1 \in T
  <2> SUFFICES ASSUME k + 1 <= Len(source) PROVE Bounded(k + 1)
    OBVIOUS
  <2>1. k \in 0 .. Len(source) - 1 /\ k \in 0 .. Len(source) /\ k + 1 \in 1 .. Len(source)
    BY <1>1
  <2> DEFINE e == AtomsEncoding(source, k)
             node == source[k + 1]
  <2>2. e \in Seq(Byte) /\ Len(e) \in Nat
    BY <2>1, EncodingGrows
  <2>3. AtomsEncoding(source, k + 1) = e \o NodeEncoding(node)
    BY <2>1, EncodingGrows
  <2>4. Len(e) <= MaxLength
    <3>1. k <= Len(source) BY <1>1, <2>1
    <3> QED BY <1>3, <3>1
  <2>5. node \in Node BY <2>1
  <2>6. node = Cell \/ AtomFits(e, node.bytes)
    BY <2>1 DEF Serializable
  <2>7. Len(e \o NodeEncoding(node)) <= MaxLength
    <3> HIDE DEF e, node
    <3>1. CASE node = Cell
      <4>1. NodeEncoding(node) = <<>> BY <3>1 DEF NodeEncoding
      <4> QED BY <2>2, <2>4, <4>1
    <3>2. CASE node # Cell
      <4> DEFINE bytes == node.bytes
                 u == AtomEncoding(bytes)
      <4>1. bytes \in Seq(Byte) /\ NodeEncoding(node) = u /\ AtomFits(e, bytes)
        BY <2>5, <2>6, <3>2, NodeIs
      <4>2. u \in Seq(Byte) /\ Len(bytes) \in Nat
        BY <4>1, AtomEncodingIs
      <4>3. Len(e \o u) = Len(e) + Len(u) /\ Len(u) \in Nat
        <5> HIDE DEF u
        <5> QED BY <2>2, <4>2
      <4>4. Len(e) + Len(u) <= MaxLength
        <5>1. CASE IsLiteral(bytes)
          <6>1. Len(e) < MaxLength BY <4>1, <5>1 DEF AtomFits
          <6>2. u = <<bytes[1]>> BY <4>1, <5>1, AtomEncodingIs
          <6>3. Len(u) = 1
            <7> HIDE DEF u, bytes
            <7> QED BY <6>2
          <6> QED BY <1>1, <2>2, <6>1, <6>3
        <5>2. CASE ~ IsLiteral(bytes)
          <6>1. Len(e) + Len(Header(Len(bytes))) < MaxLength - Len(bytes)
            BY <4>1, <5>2 DEF AtomFits
          <6>2. Header(Len(bytes)) \in Seq(Byte) BY <4>2, HeaderIs
          <6>3. u = Header(Len(bytes)) \o bytes BY <4>1, <5>2, AtomEncodingIs
          <6> HIDE DEF u, bytes
          <6>4. Len(u) = Len(Header(Len(bytes))) + Len(bytes)
                /\ Len(Header(Len(bytes))) \in Nat
            BY <4>1, <6>2, <6>3
          <6> QED BY <1>1, <2>2, <4>2, <6>1, <6>4
        <5> QED BY <5>1, <5>2
      <4> HIDE DEF u
      <4> QED BY <4>1, <4>3, <4>4
    <3> QED BY <3>1, <3>2
  <2> QED BY <2>3, <2>7
<1> HIDE DEF T
<1>4. \A k \in Nat : k \in T
  BY <1>2, <1>3, Induct
<1> USE DEF T
<1> QED BY <1>1, <1>4

-----------------------------------------------------------------------------
(* The reader of a noun whose length it took for another one.              *)

\* What follows the length in a serialization.
Contents(source) == AtomsEncoding(source, Len(source)) \o StructureBytes(source)

\* The atoms among the first j nodes are read, atoms is what is left of the m
\* bytes taken for atoms.  "met" is the number of nodes read less that of nouns
\* to come, which a cell leaves as it is and an atom raises by two.
Within(source, met, atoms, m, j) ==
  /\ atoms \in Seq(Byte)
  /\ AtomsEncoding(source, j) \o atoms = SubSeq(Contents(source), 1, m)
  /\ met = j - Open(source, j)

\* The state of a reader that took the first m bytes for atoms: it has read
\* atoms of the noun, if into another tree, or has gone past the last of them.
Strays(source, got, open, atoms, bits, m) ==
  /\ \E S : got \in Seq(S)
  /\ open \in Int
  /\ bits \in Seq({0, 1})
  /\ Len(got) + Len(bits) = (Len(Contents(source)) - m) * ByteBits
  /\ \/ \E j \in 0 .. Len(source) : Within(source, Len(got) - open, atoms, m, j)
     \/ m > LengthOf(source) /\ Len(got) - open >= Len(source)

\* After j nodes there is another atom, or the encoding has come to its end.
LEMMA NextAtom ==
  ASSUME NEW source, IsNoun(source), NEW j \in 0 .. Len(source)
  PROVE  \/ /\ AtomsEncoding(source, j) = AtomsEncoding(source, Len(source))
            /\ j - Open(source, j) = Len(source)
         \/ \E i \in 0 .. Len(source) - 1 :
              /\ source[i + 1] # Cell
              /\ AtomsEncoding(source, i) = AtomsEncoding(source, j)
              /\ i - Open(source, i) = j - Open(source, j)
<1> DEFINE len == Len(source)
           Ends(k) == /\ AtomsEncoding(source, k) = AtomsEncoding(source, len)
                      /\ k - Open(source, k) = len
           Meets(k) == \E i \in 0 .. len - 1 :
                         /\ source[i + 1] # Cell
                         /\ AtomsEncoding(source, i) = AtomsEncoding(source, k)
                         /\ i - Open(source, i) = k - Open(source, k)
           T == {d \in Nat : d <= len => Ends(len - d) \/ Meets(len - d)}
<1>1. source \in Seq(Node) /\ len \in Nat /\ Open(source, len) = 0
  BY DEF IsNoun
<1>2. \A k \in 0 .. len - 1 : source[k + 1] = Cell =>
        /\ AtomsEncoding(source, k + 1) = AtomsEncoding(source, k)
        /\ (k + 1) - Open(source, k + 1) = k - Open(source, k)
  <2> SUFFICES ASSUME NEW k \in 0 .. len - 1, source[k + 1] = Cell
               PROVE  /\ AtomsEncoding(source, k + 1) = AtomsEncoding(source, k)
                      /\ (k + 1) - Open(source, k + 1) = k - Open(source, k)
    OBVIOUS
  <2>1. k \in 0 .. len /\ k \in Nat BY <1>1
  <2>2. AtomsEncoding(source, k) \in Seq(Byte)
        /\ AtomsEncoding(source, k + 1)
             = AtomsEncoding(source, k) \o NodeEncoding(source[k + 1])
    BY <1>1, <2>1, EncodingGrows
  <2>3. NodeEncoding(source[k + 1]) = <<>> BY DEF NodeEncoding
  <2>4. Open(source, k + 1) = Open(source, k) + 1 /\ Open(source, k) \in Int
    BY <2>1, OpenIs
  <2> QED BY <2>1, <2>2, <2>3, <2>4
<1>3. 0 \in T
  <2>1. len - 0 = len BY <1>1
  <2>2. Ends(len) BY <1>1
  <2> HIDE DEF Ends, Meets
  <2> QED BY <2>1, <2>2
<1> HIDE DEF len
<1>4. ASSUME NEW d \in Nat, d \in T PROVE d + 1 \in T
  <2> SUFFICES ASSUME d + 1 <= len PROVE Ends(len - (d + 1)) \/ Meets(len - (d + 1))
    <3> HIDE DEF Ends, Meets
    <3> QED OBVIOUS
  <2> DEFINE k == len - (d + 1)
  <2>1. k \in 0 .. len - 1 /\ k + 1 = len - d BY <1>1
  <2>2. Ends(k + 1) \/ Meets(k + 1)
    <3>1. d <= len BY <1>1
    <3> HIDE DEF Ends, Meets, k
    <3> QED BY <1>4, <2>1, <3>1
  <2> HIDE DEF k
  <2>3. CASE source[k + 1] # Cell
    <3>1. Meets(k) BY <2>1, <2>3
    <3> QED BY <3>1 DEF k
  <2>4. CASE source[k + 1] = Cell
    <3>1. AtomsEncoding(source, k + 1) = AtomsEncoding(source, k)
          /\ (k + 1) - Open(source, k + 1) = k - Open(source, k)
      BY <1>2, <2>1, <2>4
    <3>2. Ends(k) \/ Meets(k)
      BY <2>2, <3>1
    <3> QED BY <3>2 DEF k
  <2> QED BY <2>3, <2>4
<1>5. \A d \in Nat : d \in T
  <2> HIDE DEF T
  <2> QED BY <1>3, <1>4, Induct
<1>6. len - j \in Nat /\ len - (len - j) = j /\ len - j <= len
  BY <1>1 DEF len
<1>7. Ends(j) \/ Meets(j)
  <2> HIDE DEF Ends, Meets
  <2> QED BY <1>5, <1>6
<1> QED BY <1>7 DEF len

\* What can be left of three sequences that were put together and cut off,
\* after the first of them.
LEMMA PartOfThree ==
  \A e, u, t, a \in Seq(Byte) : \A m \in 0 .. Len(e \o (u \o t)) :
    e \o a = SubSeq(e \o (u \o t), 1, m) =>
      \/ a = <<>>
      \/ \E j \in 0 .. Len(u) - 1 : a = SubSeq(u, 1, j)
      \/ \E r \in Seq(Byte) : a = u \o r
<1>a. \A v, w \in Seq(Byte) : \A j \in 0 .. Len(v \o w) :
        SubSeq(v \o w, 1, j) =
          IF j <= Len(v) THEN SubSeq(v, 1, j) ELSE v \o SubSeq(w, 1, j - Len(v))
  BY ONLY FrontOfBoth
<1>b. \A j, h, f, g \in Seq(Byte) :
        j \o f = h \o g /\ Len(j) = Len(h) => j = h /\ f = g
  BY ONLY EqualParts
<1>c. \A v, w \in Seq(Byte) : v \o w \in Seq(Byte) /\ Len(v \o w) = Len(v) + Len(w)
  OBVIOUS
<1>d. \A v \in Seq(Byte) : Len(v) \in Nat /\ (Len(v) = 0 => v = <<>>)
                           /\ SubSeq(v, 1, Len(v)) = v /\ v \o <<>> = v
  OBVIOUS
<1>e. <<>> \in Seq(Byte) OBVIOUS
<1> TAKE e, u, t, a \in Seq(Byte)
<1> DEFINE w == u \o t
<1> TAKE m \in 0 .. Len(e \o w)
<1> HAVE e \o a = SubSeq(e \o w, 1, m)
<1>1. w \in Seq(Byte) /\ Len(w) = Len(u) + Len(t)
  BY <1>c
<1> HIDE DEF w
<1>2. PICK x \in Nat, y \in Nat, z \in Nat, q \in Nat :
         x = Len(e) /\ y = Len(w) /\ z = Len(a) /\ q = Len(u)
  BY <1>1, <1>d
<1>3. Len(e \o w) = x + y /\ Len(e \o a) = x + z
  BY ONLY <1>1, <1>2, <1>c, e \in Seq(Byte), a \in Seq(Byte)
<1>4. m \in Nat /\ m <= x + y BY <1>3
<1>5. Len(SubSeq(e \o w, 1, m)) = m
  <2>1. e \o w \in Seq(Byte) BY <1>1
  <2> QED BY <2>1, <1>3, <1>4
<1>6. m = x + z BY <1>3, <1>5
<1>7. CASE z = 0
  <2>1. a = <<>> BY ONLY <1>2, <1>7, <1>d, a \in Seq(Byte)
  <2> QED BY <2>1
<1>8. CASE z > 0
  <2>1. ~ (m <= Len(e)) /\ m - Len(e) = z /\ z <= y BY <1>2, <1>4, <1>6, <1>8
  <2>2. SubSeq(e \o w, 1, m) = e \o SubSeq(w, 1, z) BY <1>a, <1>1, <2>1
  <2>3. SubSeq(w, 1, z) \in Seq(Byte) BY <1>1, <1>2, <2>1
  <2>4. a = SubSeq(w, 1, z)
    <3> DEFINE b == SubSeq(w, 1, z)
    <3>1. e \o a = e \o b /\ b \in Seq(Byte) BY <2>2, <2>3
    <3> HIDE DEF b
    <3>2. a = b BY <1>b, <3>1
    <3> QED BY <3>2 DEF b
  <2>5. z \in 0 .. Len(u \o t) BY <1>2, <2>1 DEF w
  <2>6. a = IF z <= Len(u) THEN SubSeq(u, 1, z) ELSE u \o SubSeq(t, 1, z - Len(u))
    BY <1>a, <2>4, <2>5 DEF w
  <2>7. CASE z < Len(u)
    <3>1. z \in 0 .. Len(u) - 1 BY <2>7
    <3> QED BY <2>6, <2>7, <3>1
  <2>8. CASE z = Len(u)
    <3>1. a = SubSeq(u, 1, Len(u)) BY <2>6, <2>8
    <3>2. SubSeq(u, 1, Len(u)) = u /\ u \o <<>> = u BY <1>d
    <3> QED BY <1>e, <3>1, <3>2
  <2>9. CASE z > Len(u)
    <3>1. a = u \o SubSeq(t, 1, z - Len(u)) BY <2>6, <2>9
    <3>2. z - Len(u) \in 0 .. Len(t) BY <1>1, <1>2, <2>1, <2>9
    <3>3. SubSeq(t, 1, z - Len(u)) \in Seq(Byte) BY <3>2
    <3> QED BY <3>1, <3>3
  <2>10. z < Len(u) \/ z = Len(u) \/ z > Len(u) BY ONLY <1>2, z \in Nat, q \in Nat
  <2> QED BY <2>7, <2>8, <2>9, <2>10
<1>9. z = 0 \/ z > 0 OBVIOUS
<1> QED BY <1>7, <1>8, <1>9

\* Of the bytes taken for atoms an atom of the noun is read, or none.
LEMMA NextOfPart ==
  ASSUME NEW source \in Seq(Node), NEW i \in 0 .. Len(source) - 1,
         source[i + 1] # Cell, Measurable(LengthOf(source)),
         NEW m \in 0 .. Len(Contents(source)), NEW atoms \in Seq(Byte),
         AtomsEncoding(source, i) \o atoms = SubSeq(Contents(source), 1, m),
         NEW first \in AtomAt(atoms)
  PROVE  /\ first.rest \in Seq(Byte)
         /\ AtomsEncoding(source, i + 1) \o first.rest = SubSeq(Contents(source), 1, m)
<1>b. \A j, h, l \in Seq(Byte) : (j \o h) \o l = j \o (h \o l) /\ h \o l \in Seq(Byte)
  BY ONLY ConcatAssociative
<1> DEFINE node == source[i + 1]
           e == AtomsEncoding(source, i)
           bytes == node.bytes
           u == AtomEncoding(bytes)
<1>1. node \in Node /\ i \in 0 .. Len(source) /\ i + 1 \in 0 .. Len(source)
  OBVIOUS
<1>2. bytes \in Seq(Byte) /\ NodeEncoding(node) = u
  BY <1>1, NodeIs
<1>3. u \in Seq(Byte)
  BY <1>2, AtomEncodingIs
<1>4. e \in Seq(Byte) /\ AtomsEncoding(source, i + 1) = e \o u
  BY <1>1, <1>2, EncodingGrows
<1>5. PICK rest \in Seq(Byte) :
         AtomsEncoding(source, Len(source)) = AtomsEncoding(source, i + 1) \o rest
  BY <1>1, EncodingGoesOn
<1>6. StructureBytes(source) \in Seq(Byte)
  BY StructureBytesAre
<1> DEFINE t == rest \o StructureBytes(source)
<1>7. t \in Seq(Byte) /\ Contents(source) = e \o (u \o t)
  <2>1. Contents(source) = ((e \o u) \o rest) \o StructureBytes(source)
    BY <1>4, <1>5 DEF Contents
  <2> HIDE DEF e, u
  <2>2. e \o u \in Seq(Byte) BY <1>3, <1>4
  <2>3. ((e \o u) \o rest) \o StructureBytes(source) = (e \o u) \o t /\ t \in Seq(Byte)
    BY ONLY <1>b, <1>6, <2>2, rest \in Seq(Byte)
  <2> HIDE DEF t
  <2>4. (e \o u) \o t = e \o (u \o t) BY ONLY <1>b, <1>3, <1>4, <2>3
  <2> QED BY <2>1, <2>3, <2>4
<1>8. Len(Digits(Len(bytes), Half)) <= MaxChunks
  BY <1>1, AtomMeasurable DEF Measurable
<1> HIDE DEF t, e
<1>9. \/ atoms = <<>>
      \/ \E j \in 0 .. Len(u) - 1 : atoms = SubSeq(u, 1, j)
      \/ \E r \in Seq(Byte) : atoms = u \o r
  <2> HIDE DEF u
  <2>1. e \o atoms = SubSeq(e \o (u \o t), 1, m) /\ m \in 0 .. Len(e \o (u \o t))
    BY <1>7 DEF e
  <2>2. \A k \in 0 .. Len(e \o (u \o t)) :
           e \o atoms = SubSeq(e \o (u \o t), 1, k) =>
             \/ atoms = <<>>
             \/ \E j \in 0 .. Len(u) - 1 : atoms = SubSeq(u, 1, j)
             \/ \E r \in Seq(Byte) : atoms = u \o r
    <3>1. \A u1, t1, a1 \in Seq(Byte) : \A k \in 0 .. Len(e \o (u1 \o t1)) :
             e \o a1 = SubSeq(e \o (u1 \o t1), 1, k) =>
               \/ a1 = <<>>
               \/ \E j \in 0 .. Len(u1) - 1 : a1 = SubSeq(u1, 1, j)
               \/ \E r \in Seq(Byte) : a1 = u1 \o r
      BY ONLY <1>4, PartOfThree, Zenon
    <3>2. u \in Seq(Byte) /\ t \in Seq(Byte) BY <1>3, <1>7
    <3> QED BY ONLY <3>1, <3>2, atoms \in Seq(Byte), Zenon
  <2> QED BY ONLY <2>1, <2>2
<1>10. CASE atoms = <<>>
  <2>1. AtomAt(atoms) = {} BY <1>10 DEF AtomAt
  <2> QED BY <2>1
<1>11. CASE \E j \in 0 .. Len(u) - 1 : atoms = SubSeq(u, 1, j)
  <2>1. AtomAt(atoms) = {} BY <1>2, <1>11, AtomCutOff
  <2> QED BY <2>1
<1>12. CASE \E r \in Seq(Byte) : atoms = u \o r
  <2>1. PICK r \in Seq(Byte) : atoms = u \o r BY <1>12
  <2>2. AtomAt(atoms) = {[bytes |-> bytes, rest |-> r]}
    <3> HIDE DEF bytes
    <3> QED BY <1>2, <1>8, <2>1, AtomRead DEF u
  <2>3. first.rest = r
    <3> HIDE DEF bytes
    <3> QED BY <2>2
  <2>4. (e \o u) \o r = e \o atoms
    <3> HIDE DEF u
    <3> QED BY <1>b, <1>3, <1>4, <2>1
  <2> QED BY <1>4, <2>3, <2>4 DEF e
<1> QED BY <1>9, <1>10, <1>11, <1>12

\* The next bit, whatever it stands for.
LEMMA StrayBit ==
  ASSUME NEW S, NEW got \in Seq(S), NEW node, NEW bits \in Seq({0, 1}),
         bits # <<>>, NEW size, Len(got) + Len(bits) = size
  PROVE  /\ Append(got, node) \in Seq(S \cup {node})
         /\ Len(Append(got, node)) = Len(got) + 1
         /\ Tail(bits) \in Seq({0, 1})
         /\ Len(Append(got, node)) + Len(Tail(bits)) = size
<1>1. PICK n \in Nat, k \in Nat : n = Len(bits) /\ n > 0 /\ k = Len(got)
  OBVIOUS
<1>2. Tail(bits) \in Seq({0, 1}) /\ Len(Tail(bits)) = n - 1
  BY <1>1
<1>3. Append(got, node) \in Seq(S \cup {node}) /\ Len(Append(got, node)) = k + 1
  <2>1. got \in Seq(S \cup {node}) OBVIOUS
  <2> QED BY <1>1, <2>1
<1> QED BY <1>1, <1>2, <1>3

\* The state that ReadLength leaves.
LEMMA StraysBegin ==
  ASSUME NEW source, IsNoun(source), NEW m \in 0 .. Len(Contents(source))
  PROVE  LET contents == Contents(source)
         IN Strays(source, <<>>, 1, SubSeq(contents, 1, m),
                   StructureBits(SubSeq(contents, m + 1, Len(contents))), m)
<1> DEFINE contents == Contents(source)
           atoms == SubSeq(contents, 1, m)
           structure == SubSeq(contents, m + 1, Len(contents))
<1>1. source \in Seq(Node) /\ Len(source) \in Nat
  BY DEF IsNoun
<1>2. contents \in Seq(Byte)
  BY <1>1, SerializationIs DEF Contents
<1>3. PICK n \in Nat : n = Len(contents)
  BY <1>2
<1> HIDE DEF contents
<1>4. /\ atoms \in Seq(Byte) /\ structure \in Seq(Byte)
      /\ Len(structure) = n - m
  BY <1>2, <1>3 DEF contents
<1>5. /\ StructureBits(structure) \in Seq({0, 1})
      /\ Len(StructureBits(structure)) = (n - m) * ByteBits
      /\ Len(StructureBits(structure)) \in Nat
  <2> HIDE DEF structure
  <2> QED BY <1>4, StructureBitsAre
<1>6. Within(source, 0 - 1, atoms, m, 0)
  <2>1. AtomsEncoding(source, 0) = <<>> BY <1>1, EncodingGrows
  <2>2. Open(source, 0) = 1 BY OpenIs
  <2>3. <<>> \o atoms = atoms
    <3> HIDE DEF atoms
    <3> QED BY <1>4
  <2> HIDE DEF atoms
  <2>4. AtomsEncoding(source, 0) \o atoms = atoms BY <2>1, <2>3
  <2> QED BY <1>4, <2>2, <2>4 DEF Within, atoms, contents
<1>7. /\ <<>> \in Seq({}) /\ Len(<<>>) = 0 /\ 0 \in 0 .. Len(source)
  BY <1>1
<1>8. Len(<<>>) + Len(StructureBits(structure)) = (Len(contents) - m) * ByteBits
  <2> DEFINE bits == StructureBits(structure)
  <2> HIDE DEF bits
  <2>1. Len(bits) \in Nat /\ Len(bits) = (n - m) * ByteBits BY <1>5 DEF bits
  <2>2. Len(<<>>) + Len(bits) = Len(bits) BY <1>7, <2>1
  <2> QED BY <1>3, <2>1, <2>2 DEF bits
<1> DEFINE bits == StructureBits(structure)
<1> HIDE DEF atoms, structure
<1>9. Strays(source, <<>>, 1, atoms, bits, m)
  <2>1. \E S : <<>> \in Seq(S) BY <1>7
  <2>2. \E j \in 0 .. Len(source) : Within(source, Len(<<>>) - 1, atoms, m, j)
    BY <1>6, <1>7
  <2> HIDE DEF bits
  <2> QED BY <1>5, <1>8, <2>1, <2>2 DEF Strays, contents, bits
<1> QED BY <1>9 DEF atoms, structure, contents

\* ReadCell raises the nodes read and the nouns to come alike.
LEMMA StraysCell ==
  ASSUME NEW source, NEW got, NEW open, NEW atoms, NEW bits, NEW m,
         Strays(source, got, open, atoms, bits, m), bits # <<>>
  PROVE  Strays(source, Append(got, Cell), open + 1, atoms, Tail(bits), m)
<1>1. PICK S : got \in Seq(S) BY DEF Strays
<1>2. PICK n \in Nat : n = Len(got) BY <1>1
<1>3. /\ \E T : Append(got, Cell) \in Seq(T)
      /\ Len(Append(got, Cell)) = n + 1
      /\ Tail(bits) \in Seq({0, 1})
      /\ Len(Append(got, Cell)) + Len(Tail(bits))
           = (Len(Contents(source)) - m) * ByteBits
  <2>1. /\ bits \in Seq({0, 1})
        /\ Len(got) + Len(bits) = (Len(Contents(source)) - m) * ByteBits
    BY DEF Strays
  <2> DEFINE size == (Len(Contents(source)) - m) * ByteBits
  <2>2. Len(got) + Len(bits) = size BY <2>1
  <2> HIDE DEF size
  <2>3. /\ Append(got, Cell) \in Seq(S \cup {Cell})
        /\ Len(Append(got, Cell)) = Len(got) + 1
        /\ Tail(bits) \in Seq({0, 1})
        /\ Len(Append(got, Cell)) + Len(Tail(bits)) = size
    BY ONLY <1>1, <2>1, <2>2, bits # <<>>, StrayBit
  <2> QED BY <1>2, <2>3 DEF size
<1>4. open \in Int /\ open + 1 \in Int /\ (n + 1) - (open + 1) = n - open
  BY DEF Strays
<1>5. Len(Append(got, Cell)) - (open + 1) = Len(got) - open
  BY <1>2, <1>3, <1>4
<1>6. \/ \E j \in 0 .. Len(source) : Within(source, Len(got) - open, atoms, m, j)
      \/ m > LengthOf(source) /\ Len(got) - open >= Len(source)
  BY DEF Strays
<1> QED BY <1>3, <1>4, <1>5, <1>6 DEF Strays

\* ReadAtom takes the next atom of the noun, or reads what no atom of it is
\* once all of them are taken.
LEMMA StraysAtom ==
  ASSUME NEW source, IsNoun(source), Measurable(LengthOf(source)),
         NEW got, NEW open, NEW atoms, NEW bits,
         NEW m \in 0 .. Len(Contents(source)),
         Strays(source, got, open, atoms, bits, m), bits # <<>>, m # LengthOf(source),
         NEW first \in AtomAt(atoms), NEW node
  PROVE  Strays(source, Append(got, node), open - 1, first.rest, Tail(bits), m)
<1>1. PICK S : got \in Seq(S) BY DEF Strays
<1>2. PICK n \in Nat : n = Len(got) BY <1>1
<1>3. /\ \E T : Append(got, node) \in Seq(T)
      /\ Len(Append(got, node)) = n + 1
      /\ Tail(bits) \in Seq({0, 1})
      /\ Len(Append(got, node)) + Len(Tail(bits))
           = (Len(Contents(source)) - m) * ByteBits
  <2>1. /\ bits \in Seq({0, 1})
        /\ Len(got) + Len(bits) = (Len(Contents(source)) - m) * ByteBits
    BY DEF Strays
  <2> DEFINE size == (Len(Contents(source)) - m) * ByteBits
  <2>2. Len(got) + Len(bits) = size BY <2>1
  <2> HIDE DEF size
  <2>3. /\ Append(got, node) \in Seq(S \cup {node})
        /\ Len(Append(got, node)) = Len(got) + 1
        /\ Tail(bits) \in Seq({0, 1})
        /\ Len(Append(got, node)) + Len(Tail(bits)) = size
    BY ONLY <1>1, <2>1, <2>2, bits # <<>>, StrayBit
  <2> QED BY <1>2, <2>3 DEF size
<1>4. open \in Int /\ open - 1 \in Int /\ (n + 1) - (open - 1) = (n - open) + 2
  BY DEF Strays
<1>5. source \in Seq(Node) /\ Len(source) \in Nat
  BY DEF IsNoun
<1>6. CASE m > LengthOf(source) /\ n - open >= Len(source)
  <2>1. (n + 1) - (open - 1) >= Len(source) BY <1>4, <1>5, <1>6
  <2> QED BY <1>3, <1>4, <1>6, <2>1 DEF Strays
<1>7. CASE \E j \in 0 .. Len(source) : Within(source, n - open, atoms, m, j)
  <2>1. PICK j \in 0 .. Len(source) : Within(source, n - open, atoms, m, j)
    BY <1>7
  <2>2. /\ atoms \in Seq(Byte) /\ n - open = j - Open(source, j)
        /\ AtomsEncoding(source, j) \o atoms = SubSeq(Contents(source), 1, m)
    BY <2>1 DEF Within
  <2>3. CASE /\ AtomsEncoding(source, j) = AtomsEncoding(source, Len(source))
             /\ j - Open(source, j) = Len(source)
    <3> DEFINE all == AtomsEncoding(source, Len(source))
    <3>1. all \o atoms = SubSeq(Contents(source), 1, m) BY <2>2, <2>3
    <3>2. all \in Seq(Byte) /\ Contents(source) \in Seq(Byte)
      BY <1>5, SerializationIs DEF Contents
    <3>3. Len(SubSeq(Contents(source), 1, m)) = m BY <3>2
    <3>4. LengthOf(source) = Len(all) BY DEF LengthOf
    <3> HIDE DEF all
    <3>5. Len(all \o atoms) = Len(all) + Len(atoms) /\ Len(all) \in Nat /\ Len(atoms) \in Nat
      BY <2>2, <3>2
    <3>6. m > LengthOf(source) BY <3>1, <3>3, <3>4, <3>5
    <3>7. n - open >= Len(source) BY <1>5, <2>2, <2>3
    <3> QED BY <1>6, <3>6, <3>7
  <2>4. CASE \E i \in 0 .. Len(source) - 1 :
               /\ source[i + 1] # Cell
               /\ AtomsEncoding(source, i) = AtomsEncoding(source, j)
               /\ i - Open(source, i) = j - Open(source, j)
    <3>1. PICK i \in 0 .. Len(source) - 1 :
               /\ source[i + 1] # Cell
               /\ AtomsEncoding(source, i) = AtomsEncoding(source, j)
               /\ i - Open(source, i) = j - Open(source, j)
      BY <2>4
    <3>2. AtomsEncoding(source, i) \o atoms = SubSeq(Contents(source), 1, m)
      BY <2>2, <3>1
    <3>3. /\ first.rest \in Seq(Byte)
          /\ AtomsEncoding(source, i + 1) \o first.rest = SubSeq(Contents(source), 1, m)
      BY <1>5, <2>2, <3>1, <3>2, NextOfPart
    <3>4. i \in Nat /\ i + 1 \in 0 .. Len(source) BY <1>5
    <3>5. Open(source, i + 1) = Open(source, i) - 1 /\ Open(source, i) \in Int
      BY <3>1, <3>4, OpenIs
    <3>6. (i + 1) - Open(source, i + 1) = (n + 1) - (open - 1)
      BY <1>4, <2>2, <3>1, <3>4, <3>5
    <3>7. Within(source, (n + 1) - (open - 1), first.rest, m, i + 1)
      BY <3>3, <3>6 DEF Within
    <3> QED BY <1>3, <1>4, <3>4, <3>7 DEF Strays
  <2> QED BY <2>3, <2>4, NextAtom
<1>8. \/ \E j \in 0 .. Len(source) : Within(source, n - open, atoms, m, j)
      \/ m > LengthOf(source) /\ n - open >= Len(source)
  BY <1>2 DEF Strays
<1> QED BY <1>6, <1>7, <1>8

\* More structure than the noun has cannot be used up with fewer of its atoms,
\* nor can more than its atoms go with less structure.
LEMMA NotUsedUp ==
  ASSUME NEW b \in Nat \ {0}, NEW l \in Nat, NEW s \in Nat, NEW len \in Nat,
         s * b >= len, s * b < len + b,
         NEW m \in 0 .. l + s, m # l, NEW n \in Nat, NEW rest \in Nat,
         n + rest = ((l + s) - m) * b, rest < b,
         m < l => n <= len, m > l => n >= len
  PROVE  FALSE
<1>1. CASE m < l
  <2>1. PICK c \in Nat : l = m + 1 + c
    <3>1. l - m - 1 \in Nat /\ l = m + 1 + (l - m - 1) BY <1>1
    <3> QED BY <3>1
  <2>2. (l + s) - m = s + 1 + c BY <2>1
  <2>3. PICK p \in Nat, q \in Nat : p = s * b /\ q = c * b OBVIOUS
  <2>4. (s + 1 + c) * b = p + b + q BY <2>3
  <2> QED BY <1>1, <2>2, <2>3, <2>4
<1>2. CASE m > l
  <2>1. PICK c \in Nat : m = l + 1 + c
    <3>1. m - l - 1 \in Nat /\ m = l + 1 + (m - l - 1) BY <1>2
    <3> QED BY <3>1
  <2>2. PICK d \in Nat : s = d + 1 + c /\ (l + s) - m = d
    <3>1. s - 1 - c \in Nat /\ s = (s - 1 - c) + 1 + c /\ (l + s) - m = s - 1 - c
      BY <2>1
    <3> QED BY <3>1
  <2>3. PICK p \in Nat, q \in Nat : p = d * b /\ q = c * b OBVIOUS
  <2>4. s * b = p + b + q BY <2>2, <2>3
  <2>5. n + rest = p BY <2>2, <2>3
  <2> QED BY <1>2, <2>3, <2>4, <2>5
<1> QED BY <1>1, <1>2

\* Atoms and structure are never used up together.
LEMMA StraysEnd ==
  ASSUME NEW source, IsNoun(source), NEW got, NEW atoms, NEW bits,
         NEW m \in 0 .. Len(Contents(source)), m # LengthOf(source),
         Strays(source, got, 0, atoms, bits, m)
  PROVE  ~ Exhausted(atoms, bits)
<1> SUFFICES ASSUME atoms = <<>>, Len(bits) < ByteBits PROVE FALSE
  BY DEF Exhausted
<1> DEFINE all == AtomsEncoding(source, Len(source))
           structure == StructureBytes(source)
<1>1. source \in Seq(Node) /\ Open(source, Len(source)) = 0
      /\ \A k \in 0 .. Len(source) - 1 : Open(source, k) > 0
  BY DEF IsNoun
<1>2. PICK len \in Nat : len = Len(source) BY <1>1
<1>3. PICK S : got \in Seq(S) BY DEF Strays
<1>4. PICK n \in Nat : n = Len(got) BY <1>3
<1>5. PICK rest \in Nat : rest = Len(bits)
  <2>1. bits \in Seq({0, 1}) BY DEF Strays
  <2> QED BY <2>1
<1>6. all \in Seq(Byte) /\ structure \in Seq(Byte)
      /\ LengthOf(source) = Len(all) /\ Contents(source) = all \o structure
  BY <1>1, SerializationIs DEF LengthOf, Contents
<1>7. Len(structure) * ByteBits >= Len(source)
      /\ Len(structure) * ByteBits < Len(source) + ByteBits
  BY <1>1, StructureBytesAre
<1> HIDE DEF all, structure
<1>8. PICK l \in Nat, s \in Nat :
         l = LengthOf(source) /\ s = Len(structure) /\ Len(Contents(source)) = l + s
  BY <1>6
<1>9. n + rest = ((l + s) - m) * ByteBits
  BY <1>4, <1>5, <1>8 DEF Strays
<1>10. \/ \E j \in 0 .. len : Within(source, n - 0, atoms, m, j)
       \/ m > l /\ n - 0 >= len
  BY <1>2, <1>4, <1>8 DEF Strays
<1>11. ASSUME NEW j \in 0 .. len, Within(source, n - 0, atoms, m, j)
       PROVE  m < l /\ n <= len
  <2>1. AtomsEncoding(source, j) \o atoms = SubSeq(Contents(source), 1, m)
        /\ n = j - Open(source, j)
    BY <1>11 DEF Within
  <2>2. Len(AtomsEncoding(source, j)) = m
    <3> DEFINE part == AtomsEncoding(source, j)
    <3>1. part \in Seq(Byte) BY <1>1, <1>2, EncodingGrows
    <3> HIDE DEF part
    <3>2. part \o atoms = part BY <3>1
    <3>3. Contents(source) \in Seq(Byte) BY <1>6
    <3>4. Len(SubSeq(Contents(source), 1, m)) = m BY <3>3
    <3> QED BY <2>1, <3>2, <3>4 DEF part
  <2>3. m <= l
    <3>1. PICK r \in Seq(Byte) : all = AtomsEncoding(source, j) \o r
      BY <1>1, <1>2, EncodingGoesOn DEF all
    <3> DEFINE part == AtomsEncoding(source, j)
    <3>2. part \in Seq(Byte) BY <1>1, <1>2, EncodingGrows
    <3>3. Len(part) = m /\ all = part \o r BY <2>2, <3>1
    <3> HIDE DEF part
    <3>4. Len(part \o r) = Len(part) + Len(r) /\ Len(r) \in Nat BY <3>2
    <3> QED BY <1>6, <1>8, <3>3, <3>4
  <2>4. m < l BY <1>8, <2>3
  <2>5. Open(source, j) \in Int BY OpenIs
  <2>6. Open(source, j) >= 0
    <3>1. CASE j = len BY <1>1, <1>2, <3>1
    <3>2. CASE j # len
      <4>1. j \in 0 .. Len(source) - 1 BY <1>2, <3>2
      <4> QED BY <1>1, <2>5, <4>1
    <3> QED BY <3>1, <3>2
  <2>7. n <= len BY <2>1, <2>5, <2>6
  <2> QED BY <2>4, <2>7
<1>12. m < l => n <= len
  BY <1>10, <1>11
<1>13. m > l => n >= len
  <2>1. n - 0 = n OBVIOUS
  <2> QED BY <1>10, <1>11, <2>1
<1>14. ByteBits \in Nat \ {0} BY NumbersAssumption
<1>15. s * ByteBits >= len /\ s * ByteBits < len + ByteBits BY <1>2, <1>7, <1>8
<1>16. m \in 0 .. l + s /\ m # l /\ rest < ByteBits BY <1>5, <1>8
<1>17. len \in Nat /\ n \in Nat /\ rest \in Nat /\ l \in Nat /\ s \in Nat
  OBVIOUS
<1> QED
  BY ONLY <1>9, <1>12, <1>13, <1>14, <1>15, <1>16, <1>17, NotUsedUp

-----------------------------------------------------------------------------
(* The machine.                                                            *)

\* Of what is stored the noun and its bytes are known until the end.
Kept ==
  /\ stage \in Stages
  /\ altered \in BOOLEAN
  /\ stage \in {"empty", "exceeded"} => ~ altered
  /\ stage # "empty" => noun \in Nouns
  /\ stage \notin {"empty", "exceeded"} =>
       /\ Serializable(noun)
       /\ altered => buffer \in Changed(Serialization(noun))
       /\ ~ altered => buffer = Serialization(noun)

\* The reader has read k nodes of the noun.
Reading(k, size) ==
  Reads(noun, nodes, pending, atom_buffer, structure_buffer, altered, k, size)

\* What is being read is the noun, as far as it has been read; it is rejected
\* only if its bytes were altered, and accepted only as what it was.
Outcome ==
  LengthReads(noun) =>
    /\ stage = "reading" => \E k \in Nat, size \in Nat : Reading(k, size)
    /\ stage = "rejected" => altered
    /\ stage = "accepted" => ~ altered /\ nodes = noun

\* Nothing is stored at first.
LEMMA KeptInitially == Init => Kept
BY DEF Init, Kept, Stages

\* Every step keeps Kept.
LEMMA KeptAlways == Kept /\ [Next]_vars => Kept'
<1> SUFFICES ASSUME Kept, [Next]_vars PROVE Kept'
  OBVIOUS
<1> USE DEF Kept, Stages
<1>1. ASSUME NEW source \in Nouns, Serialize(source) PROVE Kept'
  BY <1>1 DEF Serialize
<1>2. ASSUME NEW bytes \in Alterations, Alter(bytes) PROVE Kept'
  <2>1. bytes \in Changed(buffer)
    BY DEF Alterations, Changed
  <2> QED BY <1>2, <2>1 DEF Alter
<1>3. CASE ReadLength
  BY <1>3 DEF ReadLength
<1>4. CASE ReadFailure
  BY <1>4 DEF ReadFailure
<1>5. CASE ReadCell
  BY <1>5 DEF ReadCell
<1>6. CASE ReadAtom
  BY <1>6 DEF ReadAtom
<1>7. CASE CheckExhausted
  BY <1>7 DEF CheckExhausted
<1>8. CASE UNCHANGED vars
  BY <1>8 DEF vars, readerVars
<1> QED BY <1>1, <1>2, <1>3, <1>4, <1>5, <1>6, <1>7, <1>8 DEF Next

\* What the limits mean for the length of what is stored.
LEMMA StoredLength ==
  ASSUME Kept, stage \notin {"empty", "exceeded"}
  PROVE  /\ IsNoun(noun) /\ noun \in Seq(Node)
         /\ LengthOf(noun) \in Nat
         /\ LengthOf(noun) <= MaxLength
         /\ Measurable(LengthOf(noun))
<1>1. IsNoun(noun) /\ Serializable(noun) BY NounsAssumption DEF Kept
<1>2. noun \in Seq(Node) BY <1>1 DEF IsNoun
<1>3. LengthOf(noun) \in Nat BY <1>2, SerializationIs DEF LengthOf
<1>4. LengthOf(noun) <= MaxLength BY <1>1, <1>2, EncodingBounded DEF LengthOf
<1>5. LengthOf(noun) \in 0 .. MaxLength BY <1>3, <1>4, CodecAssumption
<1> QED BY <1>1, <1>2, <1>3, <1>4, <1>5, AllowedMeasurable

\* What is read first from what has been stored.
LEMMA SplitStored ==
  ASSUME Kept, stage = "stored", LengthReads(noun)
  PROVE  \/ SplitAt(buffer) = {} /\ altered
         \/ \E split : \E size \in Nat :
              /\ SplitAt(buffer) = {split}
              /\ Reads(noun, <<>>, 1, split.atoms, StructureBits(split.structure),
                       altered, 0, size)
<1> DEFINE atoms == AtomsEncoding(noun, Len(noun))
           prefix == AtomEncoding(FromUsizeCompact(Len(atoms)))
           structure == StructureBytes(noun)
<1>1. /\ IsNoun(noun) /\ altered \in BOOLEAN
      /\ altered => buffer \in Changed(Serialization(noun))
      /\ ~ altered => buffer = Serialization(noun)
  BY NounsAssumption DEF Kept
<1>2. noun \in Seq(Node)
  BY <1>1 DEF IsNoun
<1>3. /\ atoms \in Seq(Byte) /\ structure \in Seq(Byte)
      /\ Serialization(noun) = prefix \o (atoms \o structure)
      /\ Len(atoms) \in Nat
  BY <1>2, SerializationIs
<1>4. ReadsBack(Len(atoms)) /\ Measurable(Len(atoms))
  BY DEF LengthReads, LengthOf
<1>5. ASSUME NEW read \in Seq(Byte),
             SplitAt(buffer) = {[atoms |-> atoms, structure |-> read]},
             altered <=> Len(read) # Len(structure),
             \A i \in 1 .. Len(read) : i <= Len(structure) => read[i] = structure[i]
      PROVE  \E split : \E size \in Nat :
               /\ SplitAt(buffer) = {split}
               /\ Reads(noun, <<>>, 1, split.atoms, StructureBits(split.structure),
                        altered, 0, size)
  <2> DEFINE split == [atoms |-> atoms, structure |-> read]
  <2>1. Reads(noun, <<>>, 1, atoms, StructureBits(read), altered, 0, Len(read))
    BY <1>1, <1>5, ReadsBegin
  <2>2. split.atoms = atoms /\ split.structure = read /\ Len(read) \in Nat
    OBVIOUS
  <2>3. Reads(noun, <<>>, 1, split.atoms, StructureBits(split.structure), altered, 0,
              Len(read))
    <3> HIDE DEF atoms
    <3> QED BY <2>1
  <2>4. SplitAt(buffer) = {split} BY <1>5
  <2>5. PICK size \in Nat : size = Len(read) BY <2>2
  <2>6. Reads(noun, <<>>, 1, split.atoms, StructureBits(split.structure), altered, 0,
              size)
    BY <2>3, <2>5
  <2> HIDE DEF atoms, split
  <2> QED BY <2>4, <2>6
<1>6. CASE ~ altered
  <2>1. buffer = prefix \o (atoms \o structure) BY <1>1, <1>3, <1>6
  <2>2. SplitAt(buffer) = {[atoms |-> atoms, structure |-> structure]}
    <3> HIDE DEF structure
    <3>1. SplitAt(prefix \o (atoms \o structure))
            = {[atoms |-> atoms, structure |-> structure]}
      <4> HIDE DEF atoms
      <4> QED BY <1>3, <1>4, SplitWhole
    <3> HIDE DEF atoms, prefix
    <3> QED BY <2>1, <3>1
  <2>3. altered <=> Len(structure) # Len(structure) BY <1>6
  <2> HIDE DEF atoms, structure
  <2> QED BY <1>3, <1>5, <2>2, <2>3
<1>7. CASE altered
  <2>1. buffer \in Changed(prefix \o (atoms \o structure)) BY <1>1, <1>3, <1>7
  <2>2. \/ SplitAt(buffer) = {}
        \/ \E read \in Seq(Byte) :
             /\ SplitAt(buffer) = {[atoms |-> atoms, structure |-> read]}
             /\ Len(read) # Len(structure)
             /\ \A i \in 1 .. Len(read) : i <= Len(structure) => read[i] = structure[i]
    <3> HIDE DEF structure, atoms
    <3> QED BY <1>3, <1>4, <2>1, SplitChanged
  <2>3. CASE SplitAt(buffer) = {} BY <1>7, <2>3
  <2>4. CASE \E read \in Seq(Byte) :
               /\ SplitAt(buffer) = {[atoms |-> atoms, structure |-> read]}
               /\ Len(read) # Len(structure)
               /\ \A i \in 1 .. Len(read) : i <= Len(structure) => read[i] = structure[i]
    <3> HIDE DEF structure, atoms
    <3> QED BY <1>5, <1>7, <2>4
  <2> HIDE DEF structure, atoms
  <2> QED BY <2>2, <2>3, <2>4
<1> HIDE DEF atoms, structure, prefix
<1> QED BY <1>1, <1>6, <1>7

\* Nothing is being read at first.
LEMMA OutcomeInitially == Init => Outcome
BY DEF Init, Outcome

\* Every step keeps Outcome: reading a length establishes Reads, a node goes
\* on with it, a failure and the end follow from it.
LEMMA OutcomeAlways == Kept /\ Outcome /\ [Next]_vars => Outcome'
<1> SUFFICES ASSUME Kept, Outcome, [Next]_vars PROVE Outcome'
  OBVIOUS
<1>1. CASE \E source \in Nouns : Serialize(source)
  BY <1>1 DEF Serialize, Outcome
<1>2. CASE \E bytes \in Alterations : Alter(bytes)
  BY <1>2 DEF Alter, Outcome
<1>3. CASE UNCHANGED vars
  <2>1. \A k \in Nat, size \in Nat : Reading(k, size) => Reading(k, size)'
    BY <1>3 DEF vars, readerVars, Reading
  <2>2. LengthReads(noun)' <=> LengthReads(noun)
    BY <1>3 DEF vars
  <2> QED BY <1>3, <2>1, <2>2 DEF vars, readerVars, Outcome
<1>4. ASSUME stage \in {"stored", "reading"}, noun' = noun,
             LengthReads(noun) => Outcome'
      PROVE  Outcome'
  BY <1>4 DEF Outcome
<1>5. CASE ReadLength
  <2>1. stage = "stored" /\ noun' = noun /\ altered' = altered BY <1>5 DEF ReadLength
  <2> SUFFICES ASSUME LengthReads(noun) PROVE Outcome'
    BY <1>4, <2>1
  <2>2. CASE SplitAt(buffer) = {} /\ altered
    BY <1>5, <2>2 DEF ReadLength, Outcome
  <2>3. CASE \E split : \E size \in Nat :
               /\ SplitAt(buffer) = {split}
               /\ Reads(noun, <<>>, 1, split.atoms, StructureBits(split.structure),
                        altered, 0, size)
    <3>0. PICK split :
            \E size \in Nat :
               /\ SplitAt(buffer) = {split}
               /\ Reads(noun, <<>>, 1, split.atoms, StructureBits(split.structure),
                        altered, 0, size)
      BY <2>3
    <3>1. PICK size \in Nat :
               /\ SplitAt(buffer) = {split}
               /\ Reads(noun, <<>>, 1, split.atoms, StructureBits(split.structure),
                        altered, 0, size)
      BY <3>0
    <3>2. /\ stage' = "reading" /\ atom_buffer' = split.atoms
          /\ structure_buffer' = StructureBits(split.structure)
          /\ pending' = 1 /\ nodes' = <<>>
      BY <1>5, <3>1 DEF ReadLength
    <3>3. Reading(0, size)' BY <2>1, <3>1, <3>2 DEF Reading
    <3> QED BY <3>2, <3>3 DEF Outcome
  <2> QED BY <2>1, <2>2, <2>3, SplitStored
<1>6. ASSUME stage = "reading", LengthReads(noun)
      PROVE  /\ IsNoun(noun)
             /\ Measurable(LengthOf(noun))
             /\ altered \in BOOLEAN
             /\ \E k \in Nat, size \in Nat : Reading(k, size)
  BY <1>6, NounsAssumption DEF Kept, Outcome, LengthReads
<1>7. CASE ReadFailure
  <2>1. stage = "reading" /\ noun' = noun /\ altered' = altered /\ stage' = "rejected"
    BY <1>7 DEF ReadFailure
  <2> SUFFICES ASSUME LengthReads(noun) PROVE Outcome'
    BY <1>4, <2>1
  <2>2. PICK k \in Nat, size \in Nat : Reading(k, size) BY <1>6, <2>1
  <2>3. IsNoun(noun) /\ Measurable(LengthOf(noun)) BY <1>6, <2>1
  <2>4. CASE structure_buffer = <<>>
    <3>1. pending > 0 BY <1>7 DEF ReadFailure
    <3>2. altered BY <2>2, <2>3, <2>4, <3>1, ReadsFail DEF Reading
    <3> QED BY <2>1, <3>2 DEF Outcome
  <2>5. CASE /\ structure_buffer # <<>> /\ Head(structure_buffer) = 0
             /\ AtomAt(atom_buffer) = {}
    <3>1. pending > 0 BY <1>7 DEF ReadFailure
    <3>2. PICK first :
            /\ AtomAt(atom_buffer) = {first}
            /\ Reads(noun, Append(nodes, Atom(first.bytes)), pending - 1, first.rest,
                     Tail(structure_buffer), altered, k + 1, size)
      BY <2>2, <2>3, <2>5, <3>1, ReadsAtom DEF Reading
    <3> QED BY <2>5, <3>2
  <2> QED BY <1>7, <2>4, <2>5 DEF ReadFailure
<1>8. CASE ReadCell
  <2>1. /\ stage = "reading" /\ noun' = noun /\ altered' = altered
        /\ stage' = "reading" /\ pending > 0 /\ structure_buffer # <<>>
        /\ Head(structure_buffer) = 1
        /\ structure_buffer' = Tail(structure_buffer)
        /\ nodes' = Append(nodes, Cell)
        /\ pending' = pending + 1 /\ atom_buffer' = atom_buffer
    BY <1>8 DEF ReadCell
  <2> SUFFICES ASSUME LengthReads(noun) PROVE Outcome'
    BY <1>4, <2>1
  <2>2. PICK k \in Nat, size \in Nat : Reading(k, size) BY <1>6, <2>1
  <2>3. IsNoun(noun) /\ Measurable(LengthOf(noun)) BY <1>6, <2>1
  <2>4. Reads(noun, Append(nodes, Cell), pending + 1, atom_buffer,
              Tail(structure_buffer), altered, k + 1, size)
    BY <2>1, <2>2, <2>3, ReadsCell DEF Reading
  <2>5. Reading(k + 1, size)' BY <2>1, <2>4 DEF Reading
  <2>6. k + 1 \in Nat OBVIOUS
  <2> QED BY <2>1, <2>5, <2>6 DEF Outcome
<1>9. CASE ReadAtom
  <2>1. /\ stage = "reading" /\ noun' = noun /\ altered' = altered
        /\ stage' = "reading" /\ pending > 0 /\ structure_buffer # <<>>
        /\ Head(structure_buffer) = 0
        /\ structure_buffer' = Tail(structure_buffer)
        /\ pending' = pending - 1
        /\ \E first \in AtomAt(atom_buffer) :
             /\ atom_buffer' = first.rest
             /\ nodes' = Append(nodes, Atom(first.bytes))
    BY <1>9 DEF ReadAtom
  <2> SUFFICES ASSUME LengthReads(noun) PROVE Outcome'
    BY <1>4, <2>1
  <2>2. PICK k \in Nat, size \in Nat : Reading(k, size) BY <1>6, <2>1
  <2>3. IsNoun(noun) /\ Measurable(LengthOf(noun)) BY <1>6, <2>1
  <2>4. PICK first :
          /\ AtomAt(atom_buffer) = {first}
          /\ Reads(noun, Append(nodes, Atom(first.bytes)), pending - 1, first.rest,
                   Tail(structure_buffer), altered, k + 1, size)
    BY <2>1, <2>2, <2>3, ReadsAtom DEF Reading
  <2>5. Reading(k + 1, size)' BY <2>1, <2>4 DEF Reading
  <2>6. k + 1 \in Nat OBVIOUS
  <2> QED BY <2>1, <2>5, <2>6 DEF Outcome
<1>10. CASE CheckExhausted
  <2>1. /\ stage = "reading" /\ pending = 0 /\ noun' = noun /\ altered' = altered
        /\ nodes' = nodes
        /\ stage' = IF Exhausted(atom_buffer, structure_buffer)
                    THEN "accepted" ELSE "rejected"
    BY <1>10 DEF CheckExhausted, readerVars
  <2> SUFFICES ASSUME LengthReads(noun) PROVE Outcome'
    BY <1>4, <2>1
  <2>2. PICK k \in Nat, size \in Nat : Reading(k, size) BY <1>6, <2>1
  <2>3. IsNoun(noun) /\ altered \in BOOLEAN BY <1>6, <2>1
  <2>4. /\ Exhausted(atom_buffer, structure_buffer) <=> ~ altered
        /\ nodes = noun
    BY <2>1, <2>2, <2>3, ReadsEnd DEF Reading
  <2> QED BY <2>1, <2>4 DEF Outcome
<1> QED BY <1>1, <1>2, <1>3, <1>5, <1>7, <1>8, <1>9, <1>10 DEF Next

\* What else may be read as a length, from what was not altered.
LEMMA SplitMisread ==
  ASSUME Kept, stage = "stored", ~ altered, ~ ReadsBack(LengthOf(noun)),
         NEW split \in SplitAt(buffer)
  PROVE  \E m \in 0 .. Len(Contents(noun)) :
           /\ m # LengthOf(noun)
           /\ Strays(noun, <<>>, 1, split.atoms, StructureBits(split.structure), m)
<1> DEFINE whole == Contents(noun)
           compact == FromUsizeCompact(LengthOf(noun))
           first == [bytes |-> compact, rest |-> whole]
           Cuts(f) == {[atoms     |-> SubSeq(f.rest, 1, m),
                        structure |-> SubSeq(f.rest, m + 1, Len(f.rest))] :
                         m \in {k \in AsUsize(f.bytes) : k <= Len(f.rest)}}
<1>1. /\ IsNoun(noun) /\ noun \in Seq(Node) /\ LengthOf(noun) \in Nat
      /\ Measurable(LengthOf(noun))
  BY StoredLength
<1>2. buffer = Serialization(noun) BY DEF Kept
<1>3. /\ whole \in Seq(Byte)
      /\ Serialization(noun) = AtomEncoding(compact) \o whole
  BY <1>1, SerializationIs DEF Contents, LengthOf
<1>4. compact \in Seq(Byte) BY <1>1, CompactIs
<1>5. Len(Digits(Len(compact), Half)) <= MaxChunks
  BY <1>1, PrefixMeasurable DEF Measurable
<1> HIDE DEF whole, compact
<1>6. AtomAt(buffer) = {first} BY <1>2, <1>3, <1>4, <1>5, AtomRead
<1>7. SplitAt(buffer) = UNION {Cuts(f) : f \in AtomAt(buffer)} BY DEF SplitAt
<1>8. split \in Cuts(first)
  <2> HIDE DEF Cuts, first
  <2> QED BY <1>6, <1>7
<1>9. PICK m : /\ m \in AsUsize(compact) /\ m <= Len(whole)
               /\ split = [atoms     |-> SubSeq(whole, 1, m),
                           structure |-> SubSeq(whole, m + 1, Len(whole))]
  BY <1>8
<1>10. m \in Nat /\ AsUsize(compact) = {m}
  <2>1. AsUsize(compact) = {ValueOf(compact, Base)} BY <1>9 DEF AsUsize
  <2>2. compact \in Seq(Nat) /\ Base \in Nat BY <1>4, BaseIs DEF Byte
  <2>3. ValueOf(compact, Base) \in Nat
    <3>1. PICK value : IsValue(value, compact, Base) BY <2>2, ValueIs
    <3>2. Len(compact) \in 0 .. Len(compact) BY <2>2
    <3> QED BY <3>1, <3>2 DEF IsValue
  <2> QED BY <1>9, <2>1, <2>3
<1>11. m # LengthOf(noun) BY <1>10 DEF ReadsBack, compact
<1>12. m \in 0 .. Len(whole) BY <1>3, <1>9, <1>10
<1>13. Strays(noun, <<>>, 1, SubSeq(whole, 1, m),
              StructureBits(SubSeq(whole, m + 1, Len(whole))), m)
  BY <1>1, <1>12, StraysBegin DEF whole
<1> QED BY <1>9, <1>11, <1>12, <1>13 DEF whole

\* The reader has taken m bytes for atoms, not as many as there are.
Straying(m) ==
  /\ m # LengthOf(noun)
  /\ Strays(noun, nodes, pending, atom_buffer, structure_buffer, m)

\* Of what was not altered but has a length that is misread nothing comes.
Astray ==
  ~ altered /\ ~ ReadsBack(LengthOf(noun)) =>
    /\ stage = "reading" => \E m \in 0 .. Len(Contents(noun)) : Straying(m)
    /\ stage # "accepted"

\* Nothing is being read at first.
LEMMA AstrayInitially == Init => Astray
BY DEF Init, Astray

\* Every step keeps Astray.
LEMMA AstrayAlways == Kept /\ Astray /\ [Next]_vars => Astray'
<1> SUFFICES ASSUME Kept, Astray, [Next]_vars PROVE Astray'
  OBVIOUS
<1>1. CASE \E source \in Nouns : Serialize(source)
  BY <1>1 DEF Serialize, Astray
<1>2. CASE \E bytes \in Alterations : Alter(bytes)
  BY <1>2 DEF Alter, Astray
<1>3. CASE UNCHANGED vars
  <2>1. \A m : Straying(m) => Straying(m)'
    BY <1>3 DEF vars, readerVars, Straying
  <2>2. /\ ReadsBack(LengthOf(noun))' <=> ReadsBack(LengthOf(noun))
        /\ Contents(noun)' = Contents(noun)
    BY <1>3 DEF vars
  <2> QED BY <1>3, <2>1, <2>2 DEF vars, readerVars, Astray
<1>4. ASSUME noun' = noun, altered' = altered,
             ~ altered /\ ~ ReadsBack(LengthOf(noun)) => Astray'
      PROVE  Astray'
  BY <1>4 DEF Astray
<1>5. ASSUME stage = "reading", ~ altered, ~ ReadsBack(LengthOf(noun))
      PROVE  /\ IsNoun(noun) /\ Measurable(LengthOf(noun))
             /\ \E m \in 0 .. Len(Contents(noun)) : Straying(m)
  BY <1>5, StoredLength DEF Astray
<1>6. CASE ReadLength
  <2>1. stage = "stored" /\ noun' = noun /\ altered' = altered BY <1>6 DEF ReadLength
  <2> SUFFICES ASSUME ~ altered, ~ ReadsBack(LengthOf(noun)) PROVE Astray'
    BY <1>4, <2>1
  <2>2. CASE stage' = "rejected" BY <2>2 DEF Astray
  <2>3. CASE \E split \in SplitAt(buffer) :
               /\ stage' = "reading"
               /\ atom_buffer' = split.atoms
               /\ structure_buffer' = StructureBits(split.structure)
               /\ pending' = 1
               /\ nodes' = <<>>
    <3>1. PICK split \in SplitAt(buffer) :
               /\ stage' = "reading"
               /\ atom_buffer' = split.atoms
               /\ structure_buffer' = StructureBits(split.structure)
               /\ pending' = 1
               /\ nodes' = <<>>
      BY <2>3
    <3>2. PICK m \in 0 .. Len(Contents(noun)) :
            /\ m # LengthOf(noun)
            /\ Strays(noun, <<>>, 1, split.atoms, StructureBits(split.structure), m)
      BY <2>1, SplitMisread
    <3>3. Straying(m)' BY <2>1, <3>1, <3>2 DEF Straying
    <3> QED BY <2>1, <3>1, <3>3 DEF Astray
  <2> QED BY <1>6, <2>2, <2>3 DEF ReadLength
<1>7. CASE ReadFailure
  BY <1>7 DEF ReadFailure, Astray
<1>8. CASE ReadCell
  <2>1. /\ stage = "reading" /\ noun' = noun /\ altered' = altered
        /\ stage' = "reading" /\ structure_buffer # <<>>
        /\ structure_buffer' = Tail(structure_buffer)
        /\ nodes' = Append(nodes, Cell)
        /\ pending' = pending + 1 /\ atom_buffer' = atom_buffer
    BY <1>8 DEF ReadCell
  <2> SUFFICES ASSUME ~ altered, ~ ReadsBack(LengthOf(noun)) PROVE Astray'
    BY <1>4, <2>1
  <2>2. PICK m \in 0 .. Len(Contents(noun)) : Straying(m) BY <1>5, <2>1
  <2>3. Strays(noun, Append(nodes, Cell), pending + 1, atom_buffer,
               Tail(structure_buffer), m)
    BY <2>1, <2>2, StraysCell DEF Straying
  <2>4. Straying(m)' BY <2>1, <2>2, <2>3 DEF Straying
  <2> QED BY <2>1, <2>4 DEF Astray
<1>9. CASE ReadAtom
  <2>1. /\ stage = "reading" /\ noun' = noun /\ altered' = altered
        /\ stage' = "reading" /\ structure_buffer # <<>>
        /\ structure_buffer' = Tail(structure_buffer)
        /\ pending' = pending - 1
        /\ \E first \in AtomAt(atom_buffer) :
             /\ atom_buffer' = first.rest
             /\ nodes' = Append(nodes, Atom(first.bytes))
    BY <1>9 DEF ReadAtom
  <2> SUFFICES ASSUME ~ altered, ~ ReadsBack(LengthOf(noun)) PROVE Astray'
    BY <1>4, <2>1
  <2>2. PICK m \in 0 .. Len(Contents(noun)) : Straying(m) BY <1>5, <2>1
  <2>3. IsNoun(noun) /\ Measurable(LengthOf(noun)) BY <1>5, <2>1
  <2>4. PICK first \in AtomAt(atom_buffer) :
             /\ atom_buffer' = first.rest
             /\ nodes' = Append(nodes, Atom(first.bytes))
    BY <2>1
  <2>5. Strays(noun, Append(nodes, Atom(first.bytes)), pending - 1, first.rest,
               Tail(structure_buffer), m)
    BY <2>1, <2>2, <2>3, StraysAtom DEF Straying
  <2>6. Straying(m)' BY <2>1, <2>2, <2>4, <2>5 DEF Straying
  <2> QED BY <2>1, <2>6 DEF Astray
<1>10. CASE CheckExhausted
  <2>1. /\ stage = "reading" /\ pending = 0 /\ noun' = noun /\ altered' = altered
        /\ stage' = IF Exhausted(atom_buffer, structure_buffer)
                    THEN "accepted" ELSE "rejected"
    BY <1>10 DEF CheckExhausted
  <2> SUFFICES ASSUME ~ altered, ~ ReadsBack(LengthOf(noun)) PROVE Astray'
    BY <1>4, <2>1
  <2>2. PICK m \in 0 .. Len(Contents(noun)) : Straying(m) BY <1>5, <2>1
  <2>3. IsNoun(noun) BY <1>5, <2>1
  <2>4. ~ Exhausted(atom_buffer, structure_buffer)
    BY <2>1, <2>2, <2>3, StraysEnd DEF Straying
  <2> QED BY <2>1, <2>4 DEF Astray
<1> QED BY <1>1, <1>2, <1>3, <1>6, <1>7, <1>8, <1>9, <1>10 DEF Next

\* What SameBothWays means for a noun that is read.
LEMMA LengthReadsIf ==
  ASSUME Kept, stage \notin {"empty", "exceeded"}
  PROVE  /\ SameBothWays(LengthOf(noun)) <=> ReadsBack(LengthOf(noun))
         /\ SameBothWays(LengthOf(noun)) <=> LengthReads(noun)
BY StoredLength, ReadBackIfSymmetric DEF LengthReads

-----------------------------------------------------------------------------
(* Theorems.                                                               *)

\* The inductive invariant of the codec.
THEOREM Invariant == Spec => [](Kept /\ Outcome /\ Astray)
<1>1. Init => Kept /\ Outcome /\ Astray
  BY KeptInitially, OutcomeInitially, AstrayInitially
<1>2. (Kept /\ Outcome /\ Astray) /\ [Next]_vars => (Kept /\ Outcome /\ Astray)'
  BY KeptAlways, OutcomeAlways, AstrayAlways
<1> QED BY <1>1, <1>2, PTL DEF Spec

\* deserialize gives back every noun that serialize has written as what it
\* was, if the length of its atoms is the same number both ways, and rejects
\* it if not; it never makes another noun of it.
THEOREM ReadBackAsItWas == Spec => []ReadBackOrRejected
<1>1. Kept /\ Outcome /\ Astray => ReadBackOrRejected
  <2> SUFFICES ASSUME Kept, Outcome, Astray, ~ altered,
                      stage \in {"accepted", "rejected"}
               PROVE  /\ stage = "accepted" => nodes = noun /\ SameBothWays(LengthOf(noun))
                      /\ stage = "rejected" => ~ SameBothWays(LengthOf(noun))
    BY DEF ReadBackOrRejected
  <2>1. /\ SameBothWays(LengthOf(noun)) <=> ReadsBack(LengthOf(noun))
        /\ SameBothWays(LengthOf(noun)) <=> LengthReads(noun)
    BY LengthReadsIf
  <2> QED BY <2>1 DEF Outcome, Astray
<1> QED BY <1>1, Invariant, PTL

\* deserialize accepts no such noun after bytes were lost at its end or one
\* was added, wherever the cut was made.
THEOREM NoChangeOfLengthUnnoticed == Spec => []LengthChangeNoticed
<1>1. Kept /\ Outcome => LengthChangeNoticed
  <2>1. Kept /\ stage = "accepted" /\ SameBothWays(LengthOf(noun)) => LengthReads(noun)
    BY LengthReadsIf
  <2> QED BY <2>1 DEF Outcome, LengthChangeNoticed
<1> QED BY <1>1, Invariant, PTL

\* The check that serialize_noun makes before each atom bounds all of them by
\* maximum_atom_encoding_length, the literal ones included.
THEOREM AtomsBounded == Spec => []MemoryBounded
<1>1. Kept => MemoryBounded
  BY StoredLength DEF MemoryBounded
<1> QED BY <1>1, Invariant, PTL

\* No other noun has the serialization of the one that is stored, however
\* long: what STORE_BY_HASH and equal rest on.
THEOREM NoTwoNounsAlike == Spec => []SerializationIdentifies
<1>1. Kept => SerializationIdentifies
  <2> SUFFICES ASSUME Kept, stage = "stored", ~ altered,
                      NEW other \in Nouns, Encodings[other] = buffer
               PROVE  other = noun
    BY DEF SerializationIdentifies
  <2>1. IsNoun(noun) /\ IsNoun(other) /\ buffer = Serialization(noun)
    BY NounsAssumption DEF Kept
  <2>2. Serialization(other) = Serialization(noun) BY <2>1 DEF Encodings
  <2> QED BY <2>1, <2>2, SerializationInjective
<1> QED BY <1>1, Invariant, PTL
=============================================================================
