-------------------------- MODULE TlsSessionProofs --------------------------
(***************************************************************************)
(* Proofs about the layers below the MQTT client: the reader of packets    *)
(* never writes behind the buffer, it stays in step with the packets that  *)
(* are sent, and with the start of the connection it implements PacketLink.*)
(*                                                                         *)
(* Power, Encode and FlattenSeq are recursive functions.  What is needed   *)
(* of them is proved by induction over sets of numbers, and their          *)
(* existence from a theorem on recursion whose step is a function.         *)
(***************************************************************************)
EXTENDS TlsSession, TlsGlueProofs, Integers, SequenceTheorems, WellFoundedInduction

-----------------------------------------------------------------------------
\* Induction and recursion.

Below == {p \in Nat \X Nat : p[1] < p[2]}

LEMMA BelowWellFounded == IsWellFoundedOn(Below, Nat)
<1>1. IsWellFoundedOn(OpToRel(<, Nat), Nat)
  BY NatLessThanWellFounded
<1>2. QED BY <1>1 DEF OpToRel, Below

LEMMA LeastMissing ==
  ASSUME NEW S, S # Nat, S \subseteq Nat
  PROVE  \E x \in Nat \ S : \A y \in Nat \ S : <<y, x>> \notin Below
<1> DEFINE T == Nat \ S
<1>1. T \subseteq Nat /\ T # {}
  OBVIOUS
<1>2. \E x \in T : \A y \in T : ~ (<<y, x>> \in Below)
  <2> HIDE DEF T
  <2>1. QED BY <1>1, BelowWellFounded, WFMin
<1>3. QED BY <1>2

\* Induction, with a set for the induction hypothesis.
LEMMA SetInduction ==
  ASSUME NEW S, S \subseteq Nat, 0 \in S, \A n \in S : n + 1 \in S
  PROVE  S = Nat
<1> SUFFICES ASSUME S # Nat PROVE FALSE
  OBVIOUS
<1>1. PICK x \in Nat \ S : \A y \in Nat \ S : <<y, x>> \notin Below
  BY LeastMissing
<1>2. \A y \in Nat \ S : ~ (y < x)
  BY <1>1 DEF Below
<1>3. x - 1 \in Nat /\ x - 1 < x
  OBVIOUS
<1>4. QED BY <1>2, <1>3

\* f follows the recursion up to n.
Follows(f, n, b, s) == f[0] = b /\ \A i \in 0..(n - 1) : f[i + 1] = s[i][f[i]]

LEMMA FollowsExists ==
  ASSUME NEW V, NEW b \in V, NEW s \in [Nat -> [V -> V]]
  PROVE  \A n \in Nat : \E f \in [Nat -> V] : Follows(f, n, b, s)
<1> DEFINE S == {n \in Nat : \E f \in [Nat -> V] : Follows(f, n, b, s)}
<1>1. 0 \in S
  <2>1. [n \in Nat |-> b] \in [Nat -> V] /\ Follows([n \in Nat |-> b], 0, b, s)
    BY DEF Follows
  <2>2. QED BY <2>1
<1>2. ASSUME NEW n \in S PROVE n + 1 \in S
  <2>1. PICK f \in [Nat -> V] : Follows(f, n, b, s)
    OBVIOUS
  <2> DEFINE g == [f EXCEPT ![n + 1] = s[n][f[n]]]
  <2>2. g \in [Nat -> V]
    OBVIOUS
  <2>3. g[n + 1] = s[n][f[n]] /\ \A i \in 0..n : g[i] = f[i]
    OBVIOUS
  <2> HIDE DEF g
  <2>4. g[0] = b
    BY <2>1, <2>3 DEF Follows
  <2>5. ASSUME NEW i \in 0..n PROVE g[i + 1] = s[i][g[i]]
    <3>1. CASE i = n
      BY <3>1, <2>3
    <3>2. CASE i # n
      <4>1. i \in 0..(n - 1) /\ i + 1 \in 0..n
        BY <3>2
      <4>2. QED BY <4>1, <2>1, <2>3 DEF Follows
    <3>3. QED BY <3>1, <3>2
  <2>6. Follows(g, n + 1, b, s)
    BY <2>4, <2>5 DEF Follows
  <2>7. QED BY <2>2, <2>6
<1> HIDE DEF S
<1>3. S = Nat
  <2>1. S \subseteq Nat
    BY DEF S
  <2>2. QED BY <2>1, <1>1, <1>2, SetInduction
<1>4. QED BY <1>3 DEF S

OneResult(V, n, b, s) ==
    \A f, h \in [Nat -> V] : Follows(f, n, b, s) /\ Follows(h, n, b, s) => f[n] = h[n]

LEMMA FollowsUnique ==
  ASSUME NEW V, NEW b \in V, NEW s \in [Nat -> [V -> V]]
  PROVE  \A n \in Nat : OneResult(V, n, b, s)
<1> DEFINE S == {n \in Nat : OneResult(V, n, b, s)}
<1>1. 0 \in S
  BY DEF Follows, OneResult
<1>2. ASSUME NEW n \in S PROVE n + 1 \in S
  <2>1. ASSUME NEW f \in [Nat -> V], NEW h \in [Nat -> V],
               Follows(f, n + 1, b, s), Follows(h, n + 1, b, s)
        PROVE  f[n + 1] = h[n + 1]
    <3>1. Follows(f, n, b, s) /\ Follows(h, n, b, s)
      BY <2>1 DEF Follows
    <3>2. f[n] = h[n]
      BY <3>1 DEF OneResult
    <3>3. n \in 0..n /\ f[n + 1] = s[n][f[n]] /\ h[n + 1] = s[n][h[n]]
      BY <2>1 DEF Follows
    <3>4. QED BY <3>2, <3>3
  <2>2. QED BY <2>1 DEF OneResult
<1> HIDE DEF S
<1>3. S = Nat
  <2>1. S \subseteq Nat
    BY DEF S
  <2>2. QED BY <2>1, <1>1, <1>2, SetInduction
<1>4. QED BY <1>3 DEF S

Recursion(f, b, s) == f[0] = b /\ \A n \in Nat : f[n + 1] = s[n][f[n]]

\* A function can be defined by its value for 0 and a step from n to n + 1.
LEMMA PrimitiveRecursion ==
  ASSUME NEW V, NEW b \in V, NEW s \in [Nat -> [V -> V]]
  PROVE  \E f \in [Nat -> V] : Recursion(f, b, s)
<1>1. PICK F \in [Nat -> [Nat -> V]] : \A n \in Nat : Follows(F[n], n, b, s)
  <2> DEFINE F == [n \in Nat |-> CHOOSE f \in [Nat -> V] : Follows(f, n, b, s)]
  <2>1. ASSUME NEW n \in Nat PROVE F[n] \in [Nat -> V] /\ Follows(F[n], n, b, s)
    <3>1. \E f \in [Nat -> V] : Follows(f, n, b, s)
      BY FollowsExists
    <3>2. QED BY <3>1, Zenon
  <2> HIDE DEF F
  <2>2. F \in [Nat -> [Nat -> V]]
    BY <2>1 DEF F
  <2>3. QED BY <2>1, <2>2
<1> DEFINE g == [n \in Nat |-> F[n][n]]
<1>2. g \in [Nat -> V]
  OBVIOUS
<1>3. g[0] = b
  BY <1>1 DEF Follows
<1>4. ASSUME NEW n \in Nat PROVE g[n + 1] = s[n][g[n]]
  <2>1. Follows(F[n + 1], n + 1, b, s) /\ Follows(F[n], n, b, s)
    BY <1>1
  <2>2. Follows(F[n + 1], n, b, s)
    BY <2>1 DEF Follows
  <2>3. F[n] \in [Nat -> V] /\ F[n + 1] \in [Nat -> V]
    OBVIOUS
  <2>4. F[n + 1][n] = F[n][n]
    <3>1. OneResult(V, n, b, s)
      BY FollowsUnique
    <3>2. QED BY <3>1, <2>1, <2>2, <2>3 DEF OneResult
  <2>5. F[n + 1][n + 1] = s[n][F[n + 1][n]]
    <3>1. n \in 0..((n + 1) - 1)
      OBVIOUS
    <3>2. QED BY <2>1, <3>1 DEF Follows
  <2>6. QED BY <2>4, <2>5
<1> HIDE DEF g
<1>5. QED BY <1>2, <1>3, <1>4 DEF Recursion

-----------------------------------------------------------------------------
\* Power.

IsPower(f) == f = [n \in Nat |-> IF n = 0 THEN 1 ELSE Base * f[n - 1]]

LEMMA PowerDef == IsPower(Power)
<1> DEFINE s == [n \in Nat |-> [v \in Nat |-> Base * v]]
<1>1. s \in [Nat -> [Nat -> Nat]] /\ 1 \in Nat
  BY BaseAssumption
<1>2. PICK f \in [Nat -> Nat] : Recursion(f, 1, s)
  <2> HIDE DEF s
  <2>1. QED BY <1>1, PrimitiveRecursion
<1>3. ASSUME NEW n \in Nat PROVE f[n] = IF n = 0 THEN 1 ELSE Base * f[n - 1]
  <2>1. CASE n = 0
    BY <2>1, <1>2 DEF Recursion
  <2>2. CASE n # 0
    <3>1. n - 1 \in Nat /\ (n - 1) + 1 = n
      BY <2>2
    <3>2. f[n] = s[n - 1][f[n - 1]]
      BY <1>2, <3>1 DEF Recursion
    <3>3. QED BY <3>1, <3>2
  <2>3. QED BY <2>1, <2>2
<1>4. IsPower(f)
  BY <1>3 DEF IsPower
<1>5. Power = CHOOSE g : IsPower(g)
  BY DEF Power, IsPower
<1>6. QED BY <1>4, <1>5

LEMMA PowerStep ==
  /\ Power[0] = 1
  /\ \A n \in Nat : Power[n + 1] = Base * Power[n]
<1>1. ASSUME NEW n \in Nat PROVE Power[n] = IF n = 0 THEN 1 ELSE Base * Power[n - 1]
  BY PowerDef, Zenon DEF IsPower
<1>2. Power[0] = 1
  BY <1>1
<1>3. ASSUME NEW n \in Nat PROVE Power[n + 1] = Base * Power[n]
  <2>1. n + 1 \in Nat /\ n + 1 # 0 /\ (n + 1) - 1 = n
    OBVIOUS
  <2>2. QED BY <2>1, <1>1
<1>4. QED BY <1>2, <1>3

LEMMA PowerPositive == ASSUME NEW n \in Nat PROVE Power[n] \in Nat /\ Power[n] > 0
<1> DEFINE S == {k \in Nat : Power[k] \in Nat /\ Power[k] > 0}
<1>1. 0 \in S
  BY PowerStep
<1>2. ASSUME NEW k \in S PROVE k + 1 \in S
  <2>1. Power[k + 1] = Base * Power[k] /\ Power[k] \in Nat /\ Power[k] > 0
    BY PowerStep
  <2>2. Base * Power[k] \in Nat /\ Base * Power[k] > 0
    BY <2>1, BaseAssumption
  <2>3. QED BY <2>1, <2>2
<1> HIDE DEF S
<1>3. S = Nat
  <2>1. S \subseteq Nat
    BY DEF S
  <2>2. QED BY <2>1, <1>1, <1>2, SetInduction
<1>4. QED BY <1>3 DEF S

LEMMA PowerMonotonic ==
  ASSUME NEW m \in Nat, NEW n \in Nat, m <= n
  PROVE  Power[m] <= Power[n]
<1> DEFINE S == {k \in Nat : Power[m] <= Power[m + k]}
<1>1. 0 \in S
  BY PowerPositive
<1>2. ASSUME NEW k \in S PROVE k + 1 \in S
  <2>1. m + k \in Nat /\ m + (k + 1) = (m + k) + 1 /\ k \in Nat
    OBVIOUS
  <2>2. Power[m + (k + 1)] = Base * Power[m + k]
    BY <2>1, PowerStep
  <2>3. Power[m + k] \in Nat /\ Power[m] \in Nat /\ Power[m] <= Power[m + k]
    BY <2>1, PowerPositive
  <2>4. Power[m + k] <= Base * Power[m + k]
    BY <2>3, BaseAssumption
  <2>5. QED BY <2>1, <2>2, <2>3, <2>4, BaseAssumption
<1> HIDE DEF S
<1>3. S = Nat
  <2>1. S \subseteq Nat
    BY DEF S
  <2>2. QED BY <2>1, <1>1, <1>2, SetInduction
<1>4. n - m \in S /\ m + (n - m) = n
  BY <1>3
<1>5. QED BY <1>4 DEF S

-----------------------------------------------------------------------------
\* Encode.

LEMMA DivMod ==
  ASSUME NEW n \in Nat
  PROVE  /\ n \div Base \in Nat
         /\ n % Base \in 0..(Base - 1)
         /\ n = (Base * (n \div Base)) + (n % Base)
<1>1. n \div Base \in Nat
  BY BaseAssumption
<1>2. n % Base \in 0..(Base - 1)
  BY BaseAssumption
<1>3. n = (Base * (n \div Base)) + (n % Base)
  BY BaseAssumption
<1>4. QED BY <1>1, <1>2, <1>3

LEMMA DivSmaller == ASSUME NEW n \in Nat, n > 0 PROVE n \div Base < n
  BY BaseAssumption

LEMMA DigitBound ==
  ASSUME NEW q \in Nat, NEW r \in Nat, NEW x \in Nat, (Base * q) + r < Base * x
  PROVE  q < x
<1> SUFFICES ASSUME ~ (q < x) PROVE FALSE
  OBVIOUS
<1>1. PICK d \in Nat : q = x + d
  <2>1. q - x \in Nat /\ q = x + (q - x)
    OBVIOUS
  <2>2. QED BY <2>1
<1>2. Base * q = (Base * x) + (Base * d)
  BY <1>1, BaseAssumption
<1>3. Base * d \in Nat /\ Base * x \in Nat /\ Base * q \in Nat
  BY BaseAssumption
<1>4. QED BY <1>2, <1>3

\* The bytes of n, if f has those of n \div Base.
Digits(f, n) == IF n < Base THEN <<n>> ELSE <<Base + (n % Base)>> \o f[n \div Base]

IsEncode(f) == f = [n \in Nat |-> Digits(f, n)]

LEMMA DigitsType ==
  ASSUME NEW f \in [Nat -> Seq(Bytes)], NEW n \in Nat
  PROVE  Digits(f, n) \in Seq(Bytes)
<1>1. CASE n < Base
  <2>1. n \in Bytes
    BY <1>1, BaseAssumption DEF Bytes
  <2>2. QED BY <1>1, <2>1 DEF Digits
<1>2. CASE ~ (n < Base)
  <2>1. n \div Base \in Nat /\ n % Base \in 0..(Base - 1)
    BY DivMod
  <2>2. Base + (n % Base) \in Bytes
    BY <2>1, BaseAssumption DEF Bytes
  <2>3. <<Base + (n % Base)>> \in Seq(Bytes) /\ f[n \div Base] \in Seq(Bytes)
    BY <2>1, <2>2
  <2>4. QED BY <1>2, <2>3 DEF Digits
<1>3. QED BY <1>1, <1>2

LEMMA EncodeExists == \E f \in [Nat -> Seq(Bytes)] : IsEncode(f)
<1> DEFINE V == [Nat -> Seq(Bytes)]
           b == [n \in Nat |-> << >>]
           s == [k \in Nat |-> [f \in V |-> [n \in Nat |-> Digits(f, n)]]]
<1>1. b \in V
  OBVIOUS
<1>2. s \in [Nat -> [V -> V]]
  <2>1. \A f \in V : [n \in Nat |-> Digits(f, n)] \in V
    BY DigitsType
  <2> HIDE DEF V
  <2>2. QED BY <2>1
<1>3. PICK g \in [Nat -> V] : Recursion(g, b, s)
  <2> HIDE DEF V, b, s
  <2>1. QED BY <1>1, <1>2, PrimitiveRecursion
<1>4. \A k \in Nat : \A n \in Nat : g[k + 1][n] = Digits(g[k], n)
  <2>1. ASSUME NEW k \in Nat, NEW n \in Nat PROVE g[k + 1][n] = Digits(g[k], n)
    <3>1. g[k + 1] = s[k][g[k]]
      BY <1>3 DEF Recursion
    <3>2. g[k] \in V
      OBVIOUS
    <3>3. \A f \in V : s[k][f] = [i \in Nat |-> Digits(f, i)]
      <4> HIDE DEF V
      <4>1. QED OBVIOUS
    <3> HIDE DEF V, s
    <3>4. g[k + 1] = [i \in Nat |-> Digits(g[k], i)]
      BY <3>1, <3>2, <3>3
    <3>5. QED BY <3>4
  <2>2. QED BY <2>1
<1>5. g \in [Nat -> [Nat -> Seq(Bytes)]]
  OBVIOUS
<1> DEFINE Stays(k) == \A n \in 0..(k - 1) : g[k][n] = g[n + 1][n]
           S == {k \in Nat : \A j \in 0..k : Stays(j)}
           F == [n \in Nat |-> g[n + 1][n]]
<1> HIDE DEF V, b, s
\* After n steps the bytes of the numbers below n are there to stay.
<1>6. S = Nat
  <2>1. 0 \in S
    OBVIOUS
  <2>2. ASSUME NEW k \in S PROVE k + 1 \in S
    <3>1. ASSUME NEW n \in 0..k PROVE g[k + 1][n] = g[n + 1][n]
      <4>1. CASE n = k
        BY <4>1
      <4>2. CASE n # k /\ n < Base
        <5>1. g[k + 1][n] = Digits(g[k], n) /\ g[n + 1][n] = Digits(g[n], n)
          BY <1>4
        <5>2. QED BY <5>1, <4>2 DEF Digits
      <4>3. CASE n # k /\ ~ (n < Base)
        <5>1. /\ n \div Base \in Nat /\ n \div Base < n
              /\ n \in 0..k /\ k \in Nat /\ n \in 0..(k - 1)
          BY <4>3, DivMod, DivSmaller, BaseAssumption
        <5>2. Stays(k) /\ Stays(n)
          BY <5>1
        <5>3. n \div Base \in 0..(k - 1) /\ n \div Base \in 0..(n - 1)
          BY <5>1
        <5>4. g[k][n \div Base] = g[n][n \div Base]
          BY <5>2, <5>3
        <5>5. g[k + 1][n] = Digits(g[k], n) /\ g[n + 1][n] = Digits(g[n], n)
          BY <1>4
        <5>6. QED BY <5>4, <5>5 DEF Digits
      <4>4. QED BY <4>1, <4>2, <4>3
    <3>2. Stays(k + 1)
      BY <3>1
    <3> HIDE DEF Stays
    <3>3. ASSUME NEW j \in 0..(k + 1) PROVE Stays(j)
      <4>1. CASE j = k + 1
        BY <4>1, <3>2
      <4>2. CASE j # k + 1
        BY <4>2
      <4>3. QED BY <4>1, <4>2
    <3>4. QED BY <3>3
  <2> HIDE DEF S
  <2>3. S \subseteq Nat
    BY DEF S
  <2>4. QED BY <2>1, <2>2, <2>3, SetInduction
<1>7. F \in [Nat -> Seq(Bytes)]
  BY <1>5
<1>8. ASSUME NEW n \in Nat PROVE F[n] = Digits(F, n)
  <2>1. F[n] = Digits(g[n], n)
    BY <1>4
  <2>2. CASE n < Base
    BY <2>1, <2>2 DEF Digits
  <2>3. CASE ~ (n < Base)
    <3>1. n \div Base \in Nat /\ n \div Base < n
      BY <2>3, DivMod, DivSmaller, BaseAssumption
    <3>2. Stays(n)
      <4>1. n \in S
        BY <1>6
      <4>2. n \in 0..n
        OBVIOUS
      <4>3. QED BY <4>1, <4>2
    <3>3. n \div Base \in 0..(n - 1)
      BY <3>1
    <3>4. g[n][n \div Base] = F[n \div Base]
      BY <3>1, <3>2, <3>3
    <3> HIDE DEF F
    <3>5. QED BY <2>1, <3>4 DEF Digits
  <2>4. QED BY <2>2, <2>3
<1> HIDE DEF F
<1>9. IsEncode(F)
  BY <1>7, <1>8 DEF IsEncode
<1>10. QED BY <1>7, <1>9

LEMMA EncodeDef == \A n \in Nat : Encode[n] = Digits(Encode, n)
<1>1. Encode = CHOOSE f : IsEncode(f)
  BY DEF Encode, IsEncode, Digits
<1>2. IsEncode(Encode)
  BY <1>1, EncodeExists
<1>3. QED BY <1>2, Zenon DEF IsEncode

LEMMA EncodeShort == ASSUME NEW n \in Nat, n < Base PROVE Encode[n] = <<n>>
  BY EncodeDef DEF Digits

LEMMA EncodeLong ==
  ASSUME NEW n \in Nat, ~ (n < Base)
  PROVE  Encode[n] = <<Base + (n % Base)>> \o Encode[n \div Base]
  BY EncodeDef DEF Digits

\* The bytes of a number below Base^k, of which there are at most k.
LEMMA EncodeUpTo ==
  ASSUME NEW k \in Nat
  PROVE  \A n \in 0..(Power[k + 1] - 1) : Encode[n] \in Seq(Bytes) /\ Len(Encode[n]) \in 1..(k + 1)
<1> DEFINE Short(j) == \A n \in 0..(Power[j + 1] - 1) :
                           Encode[n] \in Seq(Bytes) /\ Len(Encode[n]) \in 1..(j + 1)
           S == {j \in Nat : Short(j)}
<1>1. 0 \in S
  <2>1. Power[0 + 1] = Base
    BY PowerStep, BaseAssumption
  <2>2. ASSUME NEW n \in 0..(Base - 1)
        PROVE  Encode[n] \in Seq(Bytes) /\ Len(Encode[n]) \in 1..(0 + 1)
    <3>1. n \in Nat /\ n < Base /\ n \in Bytes
      BY BaseAssumption DEF Bytes
    <3>2. Encode[n] = <<n>>
      BY <3>1, EncodeShort
    <3>3. QED BY <3>1, <3>2
  <2>3. QED BY <2>1, <2>2
<1>2. ASSUME NEW j \in S PROVE j + 1 \in S
  <2>1. ASSUME NEW n \in 0..(Power[(j + 1) + 1] - 1)
        PROVE  Encode[n] \in Seq(Bytes) /\ Len(Encode[n]) \in 1..((j + 1) + 1)
    <3>1. n \in Nat /\ j \in Nat
      BY PowerPositive
    <3>2. CASE n < Base
      <4>1. n \in Bytes
        BY <3>1, <3>2, BaseAssumption DEF Bytes
      <4>2. Encode[n] = <<n>>
        BY <3>1, <3>2, EncodeShort
      <4>3. QED BY <3>1, <4>1, <4>2
    <3>3. CASE ~ (n < Base)
      <4> DEFINE q == n \div Base
                 r == n % Base
      <4>1. q \in Nat /\ r \in 0..(Base - 1) /\ n = (Base * q) + r
        BY <3>1, DivMod
      <4>2. Encode[n] = <<Base + r>> \o Encode[q]
        BY <3>1, <3>3, EncodeLong
      <4> HIDE DEF q, r
      <4>3. q < Power[j + 1]
        <5>1. j + 1 \in Nat
          BY <3>1
        <5>2. Power[j + 1] \in Nat
          BY <5>1, PowerPositive
        <5>3. Power[(j + 1) + 1] = Base * Power[j + 1]
          BY <5>1, PowerStep
        <5>4. n < Base * Power[j + 1]
          BY <5>2, <5>3, BaseAssumption
        <5>5. QED BY <5>2, <5>4, <4>1, DigitBound
      <4>4. Encode[q] \in Seq(Bytes) /\ Len(Encode[q]) \in 1..(j + 1)
        BY <4>1, <4>3, <3>1, PowerPositive
      <4>5. <<Base + r>> \in Seq(Bytes) /\ Len(<<Base + r>>) = 1
        BY <4>1, BaseAssumption DEF Bytes
      <4>6. Encode[n] \in Seq(Bytes) /\ Len(Encode[n]) = 1 + Len(Encode[q])
        BY <4>2, <4>4, <4>5, ConcatProperties
      <4>7. QED BY <4>4, <4>6, <3>1
    <3>4. QED BY <3>2, <3>3
  <2>2. QED BY <2>1
<1> HIDE DEF S
<1>3. S = Nat
  <2>1. S \subseteq Nat
    BY DEF S
  <2>2. QED BY <2>1, <1>1, <1>2, SetInduction
<1>4. QED BY <1>3 DEF S

-----------------------------------------------------------------------------
\* FlattenSeq, of the library of sequences.

IsFlat(f, s) == f = [i \in 1..Len(s) |-> IF i = 1 THEN s[i] ELSE f[i - 1] \o s[i]]

Flat(s) == CHOOSE f : IsFlat(f, s)

LEMMA FlattenSeqDef == ASSUME NEW s, Len(s) # 0 PROVE FlattenSeq(s) = Flat(s)[Len(s)]
  BY DEF FlattenSeq, Flat, IsFlat

LEMMA FlatExists == ASSUME NEW B, NEW s \in Seq(Seq(B)) PROVE \E f : IsFlat(f, s)
<1> DEFINE V == Seq(B)
           step == [n \in Nat |-> [v \in V |-> IF n + 1 \in 1..Len(s) THEN v \o s[n + 1] ELSE v]]
<1>1. << >> \in V
  OBVIOUS
<1>2. step \in [Nat -> [V -> V]]
  OBVIOUS
<1>3. PICK g \in [Nat -> V] : Recursion(g, << >>, step)
  <2> HIDE DEF V, step
  <2>1. QED BY <1>1, <1>2, PrimitiveRecursion
<1>4. ASSUME NEW i \in 1..Len(s) PROVE g[i] = g[i - 1] \o s[i]
  <2>1. i - 1 \in Nat /\ (i - 1) + 1 = i
    OBVIOUS
  <2>2. g[i] = step[i - 1][g[i - 1]]
    BY <2>1, <1>3 DEF Recursion
  <2>3. g[i - 1] \in V
    BY <2>1
  <2>4. QED BY <2>1, <2>2, <2>3
<1> DEFINE f == [i \in 1..Len(s) |-> g[i]]
<1>5. ASSUME NEW i \in 1..Len(s) PROVE f[i] = IF i = 1 THEN s[i] ELSE f[i - 1] \o s[i]
  <2>1. CASE i = 1
    <3>1. g[0] = << >> /\ i - 1 = 0
      BY <2>1, <1>3 DEF Recursion
    <3>2. s[i] \in Seq(B)
      OBVIOUS
    <3>3. << >> \o s[i] = s[i]
      BY <3>2, ConcatEmptySeq
    <3>4. QED BY <2>1, <3>1, <3>3, <1>4
  <2>2. CASE i # 1
    <3>1. i - 1 \in 1..Len(s)
      BY <2>2
    <3>2. QED BY <3>1, <2>2, <1>4
  <2>3. QED BY <2>1, <2>2
<1>6. f = [i \in 1..Len(s) |-> IF i = 1 THEN s[i] ELSE f[i - 1] \o s[i]]
  <2>1. f = [i \in 1..Len(s) |-> f[i]]
    OBVIOUS
  <2> HIDE DEF f
  <2>2. QED BY <1>5, <2>1
<1>7. QED BY <1>6 DEF IsFlat

LEMMA FlatStep ==
  ASSUME NEW B, NEW s \in Seq(Seq(B))
  PROVE  \A i \in 1..Len(s) : Flat(s)[i] = IF i = 1 THEN s[i] ELSE Flat(s)[i - 1] \o s[i]
<1>1. IsFlat(Flat(s), s)
  BY FlatExists, Zenon DEF Flat
<1>2. QED BY <1>1, Zenon DEF IsFlat

LEMMA FlatType ==
  ASSUME NEW B, NEW s \in Seq(Seq(B))
  PROVE  \A i \in 1..Len(s) : Flat(s)[i] \in Seq(B)
<1> DEFINE S == {n \in Nat : n \in 1..Len(s) => Flat(s)[n] \in Seq(B)}
<1>1. 0 \in S
  OBVIOUS
<1>2. ASSUME NEW n \in S PROVE n + 1 \in S
  <2>1. ASSUME n + 1 \in 1..Len(s) PROVE Flat(s)[n + 1] \in Seq(B)
    <3>1. s[n + 1] \in Seq(B)
      BY <2>1
    <3>2. CASE n = 0
      BY <3>1, <3>2, <2>1, FlatStep
    <3>3. CASE n # 0
      <4>1. n \in 1..Len(s) /\ (n + 1) - 1 = n /\ n + 1 # 1
        BY <2>1, <3>3
      <4>2. Flat(s)[n + 1] = Flat(s)[n] \o s[n + 1]
        BY <2>1, <4>1, FlatStep
      <4>3. Flat(s)[n] \in Seq(B)
        BY <4>1
      <4>4. QED BY <3>1, <4>2, <4>3
    <3>4. QED BY <3>2, <3>3
  <2>2. QED BY <2>1
<1> HIDE DEF S
<1>3. S = Nat
  <2>1. S \subseteq Nat
    BY DEF S
  <2>2. QED BY <2>1, <1>1, <1>2, SetInduction
<1>4. QED BY <1>3 DEF S

LEMMA FlatPrefix ==
  ASSUME NEW B, NEW s \in Seq(Seq(B)), NEW e \in Seq(B)
  PROVE  \A i \in 1..Len(s) : Flat(Append(s, e))[i] = Flat(s)[i]
<1> DEFINE t == Append(s, e)
           S == {n \in Nat : n \in 1..Len(s) => Flat(t)[n] = Flat(s)[n]}
<1>1. t \in Seq(Seq(B)) /\ Len(t) = Len(s) + 1 /\ \A i \in 1..Len(s) : t[i] = s[i]
  OBVIOUS
<1>2. 0 \in S
  OBVIOUS
<1> HIDE DEF t
<1>3. ASSUME NEW n \in S PROVE n + 1 \in S
  <2>1. ASSUME n + 1 \in 1..Len(s) PROVE Flat(t)[n + 1] = Flat(s)[n + 1]
    <3>1. n + 1 \in 1..Len(t) /\ t[n + 1] = s[n + 1]
      BY <1>1, <2>1
    <3>2. CASE n = 0
      BY <3>1, <3>2, <2>1, <1>1, FlatStep
    <3>3. CASE n # 0
      <4>1. n \in 1..Len(s) /\ (n + 1) - 1 = n /\ n + 1 # 1
        BY <2>1, <3>3
      <4>2. Flat(s)[n + 1] = Flat(s)[n] \o s[n + 1]
        BY <2>1, <4>1, FlatStep
      <4>3. Flat(t)[n + 1] = Flat(t)[n] \o t[n + 1]
        BY <3>1, <4>1, <1>1, FlatStep
      <4>4. Flat(t)[n] = Flat(s)[n]
        BY <4>1
      <4>5. QED BY <3>1, <4>2, <4>3, <4>4
    <3>4. QED BY <3>2, <3>3
  <2>2. QED BY <2>1
<1> HIDE DEF S
<1>4. S = Nat
  <2>1. S \subseteq Nat
    BY DEF S
  <2>2. QED BY <2>1, <1>2, <1>3, SetInduction
<1>5. QED BY <1>4 DEF S, t

LEMMA FlattenSeqEmpty == FlattenSeq(<< >>) = << >>
  BY DEF FlattenSeq

LEMMA FlattenSeqType ==
  ASSUME NEW B, NEW s \in Seq(Seq(B))
  PROVE  FlattenSeq(s) \in Seq(B)
<1>1. CASE Len(s) = 0
  BY <1>1 DEF FlattenSeq
<1>2. CASE Len(s) # 0
  <2>1. Len(s) \in 1..Len(s)
    BY <1>2
  <2>2. QED BY <1>2, <2>1, FlattenSeqDef, FlatType
<1>3. QED BY <1>1, <1>2

LEMMA FlattenSeqAppend ==
  ASSUME NEW B, NEW s \in Seq(Seq(B)), NEW e \in Seq(B)
  PROVE  FlattenSeq(Append(s, e)) = FlattenSeq(s) \o e
<1> DEFINE t == Append(s, e)
<1>1. t \in Seq(Seq(B)) /\ Len(t) = Len(s) + 1 /\ t[Len(t)] = e /\ Len(t) # 0
  OBVIOUS
<1>2. \A i \in 1..Len(s) : Flat(t)[i] = Flat(s)[i]
  BY FlatPrefix
<1> HIDE DEF t
<1>3. FlattenSeq(t) = Flat(t)[Len(t)] /\ Len(t) \in 1..Len(t)
  BY <1>1, FlattenSeqDef
<1>4. CASE Len(s) = 0
  <2>1. Flat(t)[Len(t)] = e
    BY <1>1, <1>3, <1>4, FlatStep
  <2>2. FlattenSeq(s) = << >>
    BY <1>4, EmptySeq DEF FlattenSeq
  <2>3. << >> \o e = e
    BY ConcatEmptySeq
  <2>4. QED BY <1>3, <2>1, <2>2, <2>3 DEF t
<1>5. CASE Len(s) # 0
  <2>1. Len(t) # 1 /\ Len(t) - 1 = Len(s) /\ Len(s) \in 1..Len(s)
    BY <1>1, <1>5
  <2>2. Flat(t)[Len(t)] = Flat(t)[Len(s)] \o e
    BY <1>1, <1>3, <2>1, FlatStep
  <2>3. FlattenSeq(s) = Flat(s)[Len(s)]
    BY <1>5, FlattenSeqDef
  <2>4. QED BY <1>2, <1>3, <2>1, <2>2, <2>3 DEF t
<1>6. QED BY <1>4, <1>5

-----------------------------------------------------------------------------
\* The types of the reader.  tmpPacketLen is bounded by the digits read so far.

LengthInv ==
    netPc = "length" =>
        /\ Len(buffer) = 1 /\ cntBytes < MaxLenBytes
        /\ tmpPacketLen < Power[cntBytes]

NetTypeInv == NetTypeOK /\ LengthInv

LEMMA LengthsNat ==
  /\ MaxLenBytes \in Nat /\ MaxLenBytes > 0
  /\ Power[MaxLenBytes] \in Nat /\ Power[MaxLenBytes] > 0
  /\ Lengths \subseteq 0..(Power[MaxLenBytes] - 1)
  /\ Types \subseteq Bytes
<1>1. MaxLenBytes \in Nat /\ MaxLenBytes > 0
  BY BufferAssumption
<1>2. Power[MaxLenBytes] \in Nat /\ Power[MaxLenBytes] > 0
  BY <1>1, PowerPositive
<1>3. QED BY <1>1, <1>2, PacketAssumption DEF Bytes

LEMMA EncodeLength ==
  ASSUME NEW n \in 0..(Power[MaxLenBytes] - 1)
  PROVE  Encode[n] \in Seq(Bytes) /\ Len(Encode[n]) \in 1..MaxLenBytes
<1>1. MaxLenBytes - 1 \in Nat /\ (MaxLenBytes - 1) + 1 = MaxLenBytes
  BY LengthsNat
<1>2. QED BY <1>1, EncodeUpTo

LEMMA PayloadType ==
  ASSUME NEW n \in Nat
  PROVE  Payload(n) \in Seq(Bytes) /\ Len(Payload(n)) = n
<1>1. \A i \in 1..n : i % (2 * Base) \in Bytes
  BY BaseAssumption DEF Bytes
<1>2. QED BY <1>1 DEF Payload

LEMMA ConcatBytes ==
  ASSUME NEW a \in Seq(Bytes), NEW b \in Seq(Bytes), NEW c \in Seq(Bytes)
  PROVE  (a \o b) \o c = a \o (b \o c)
  BY ConcatAssociative

LEMMA PacketType ==
  ASSUME NEW t \in Types, NEW n \in Lengths
  PROVE  /\ Packet(t, n) \in Seq(Bytes)
         /\ Len(Packet(t, n)) = 1 + Len(Encode[n]) + n
<1>1. n \in Nat /\ n \in 0..(Power[MaxLenBytes] - 1) /\ t \in Bytes
  BY LengthsNat
<1>2. Encode[n] \in Seq(Bytes) /\ Len(Encode[n]) \in Nat
  BY <1>1, EncodeLength
<1>3. Payload(n) \in Seq(Bytes) /\ Len(Payload(n)) = n
  BY <1>1, PayloadType
<1>4. <<t>> \in Seq(Bytes) /\ Len(<<t>>) = 1
  BY <1>1
<1>5. <<t>> \o Encode[n] \in Seq(Bytes) /\ Len(<<t>> \o Encode[n]) = 1 + Len(Encode[n])
  BY <1>2, <1>4, ConcatProperties
<1> DEFINE header == <<t>> \o Encode[n]
<1>6. Packet(t, n) = header \o Payload(n)
  BY DEF Packet
<1> HIDE DEF header
<1>7. header \in Seq(Bytes) /\ Len(header) = 1 + Len(Encode[n])
  BY <1>5 DEF header
<1>8. /\ header \o Payload(n) \in Seq(Bytes)
      /\ Len(header \o Payload(n)) = Len(header) + Len(Payload(n))
  BY <1>3, <1>7, ConcatProperties
<1>9. QED BY <1>3, <1>6, <1>7, <1>8

LEMMA TakeType ==
  ASSUME stream \in Seq(Bytes), NEW n \in Nat, Take(n)
  PROVE  /\ stream' \in Seq(Bytes)
         /\ SubSeq(stream, 1, n) \in Seq(Bytes)
         /\ Len(SubSeq(stream, 1, n)) = n
<1>1. Len(stream) \in Nat /\ Len(stream) >= n /\ stream' = SubSeq(stream, n + 1, Len(stream))
  BY DEF Take
<1>2. SubSeq(stream, n + 1, Len(stream)) \in Seq(Bytes)
  BY <1>1, SubSeqProperties
<1>3. SubSeq(stream, 1, n) \in Seq(Bytes) /\ Len(SubSeq(stream, 1, n)) = n
  BY <1>1, SubSeqProperties
<1>4. QED BY <1>1, <1>2, <1>3

LEMMA HeadByte ==
  ASSUME stream \in Seq(Bytes), Take(1)
  PROVE  /\ Head(stream) \in Bytes /\ Head(stream) \in Nat
         /\ Head(stream) % Base \in 0..(Base - 1)
<1>1. Len(stream) >= 1
  BY DEF Take
<1>2. Head(stream) \in Bytes
  BY <1>1
<1>3. Head(stream) \in Nat
  BY <1>2, BaseAssumption DEF Bytes
<1>4. QED BY <1>2, <1>3, DivMod

LEMMA DigitAdded ==
  ASSUME NEW d \in 0..(Base - 1), NEW x \in Nat, NEW v \in Nat, v < x
  PROVE  v + d * x \in Nat /\ v + d * x < Base * x
<1>1. PICK e \in Nat : Base = (d + e) + 1
  <2>1. (Base - 1) - d \in Nat /\ Base = (d + ((Base - 1) - d)) + 1
    BY BaseAssumption
  <2>2. QED BY <2>1
<1>2. Base * x = ((d * x) + (e * x)) + x
  BY <1>1
<1>3. d * x \in Nat /\ e * x \in Nat
  OBVIOUS
<1>4. QED BY <1>2, <1>3

\* One more digit.
LEMMA WithByteType ==
  ASSUME NetTypeInv, netPc = "length", NEW byte \in Nat
  PROVE  /\ WithByte(byte) \in Nat
         /\ WithByte(byte) < Power[cntBytes + 1]
         /\ WithByte(byte) \in 0..(Power[MaxLenBytes] - 1)
<1>1. /\ cntBytes \in Nat /\ cntBytes + 1 \in Nat /\ cntBytes + 1 <= MaxLenBytes
      /\ tmpPacketLen \in Nat /\ tmpPacketLen < Power[cntBytes]
  BY LengthsNat DEF NetTypeInv, NetTypeOK, LengthInv
<1>2. byte % Base \in 0..(Base - 1)
  BY DivMod
<1>3. Power[cntBytes] \in Nat /\ Power[cntBytes + 1] \in Nat
  BY <1>1, PowerPositive
<1>4. Power[cntBytes + 1] = Base * Power[cntBytes]
  BY <1>1, PowerStep
<1>5. WithByte(byte) \in Nat /\ WithByte(byte) < Power[cntBytes + 1]
  BY <1>1, <1>2, <1>3, <1>4, DigitAdded DEF WithByte
<1>6. Power[cntBytes + 1] <= Power[MaxLenBytes]
  BY <1>1, LengthsNat, PowerMonotonic
<1>7. QED BY <1>3, <1>5, <1>6, LengthsNat

\* buffer \o Encode[len] fits: the header is one byte, and the buffer is longer
\* than the longest length.
LEMMA LengthFits ==
  ASSUME NetTypeInv, netPc = "length", NEW n \in 0..(Power[MaxLenBytes] - 1)
  PROVE  /\ buffer \o Encode[n] \in Seq(Bytes)
         /\ Len(buffer \o Encode[n]) = 1 + Len(Encode[n])
         /\ Len(buffer \o Encode[n]) \in 0..BufferSize
<1>1. buffer \in Seq(Bytes) /\ Len(buffer) = 1
  BY DEF NetTypeInv, NetTypeOK, LengthInv
<1>2. Encode[n] \in Seq(Bytes) /\ Len(Encode[n]) \in 1..MaxLenBytes
  BY EncodeLength
<1>3. Len(buffer \o Encode[n]) = 1 + Len(Encode[n]) /\ buffer \o Encode[n] \in Seq(Bytes)
  BY <1>1, <1>2, ConcatProperties
<1>4. QED BY <1>2, <1>3, BufferAssumption

LEMMA NetInitType == NetInit => NetTypeInv
<1>1. << >> \in Seq(Bytes) /\ << >> \in Seq(Seq(Bytes)) /\ Len(<< >>) = 0
  OBVIOUS
<1>2. 0 \in 0..(Power[MaxLenBytes] - 1) /\ 0 \in 0..MaxLenBytes /\ 0 <= BufferSize
  BY LengthsNat, BufferAssumption
<1>3. QED BY <1>1, <1>2 DEF NetInit, NetTypeInv, NetTypeOK, LengthInv

LEMMA PeerSendsType == ASSUME NetTypeInv, PeerSends PROVE NetTypeInv'
<1>1. PICK t \in Types, n \in Lengths :
          stream' = stream \o Packet(t, n) /\ sent' = Append(sent, Packet(t, n))
  BY DEF PeerSends
<1>2. Packet(t, n) \in Seq(Bytes)
  BY PacketType
<1>3. stream' \in Seq(Bytes)
  BY <1>1, <1>2, ConcatProperties DEF NetTypeInv, NetTypeOK
<1>4. sent' \in Seq(Seq(Bytes))
  BY <1>1, <1>2 DEF NetTypeInv, NetTypeOK
<1>5. QED BY <1>3, <1>4 DEF PeerSends, lenVars, NetTypeInv, NetTypeOK, LengthInv

LEMMA ReadHeaderType == ASSUME NetTypeInv, ReadHeader PROVE NetTypeInv'
<1>1. Take(1) /\ stream \in Seq(Bytes) /\ 1 \in Nat
  BY DEF ReadHeader, NetTypeInv, NetTypeOK
<1>2. stream' \in Seq(Bytes) /\ Head(stream) \in Bytes
  BY <1>1, TakeType, HeadByte
<1>3. buffer' \in Seq(Bytes) /\ Len(buffer') = 1
  BY <1>2 DEF ReadHeader
<1>4. 0 \in 0..(Power[MaxLenBytes] - 1) /\ 0 \in 0..MaxLenBytes /\ 0 < MaxLenBytes /\ 1 <= BufferSize
  BY LengthsNat, BufferAssumption
<1>5. 0 < Power[0]
  BY PowerStep
<1>6. NetTypeOK'
  BY <1>2, <1>3, <1>4 DEF ReadHeader, NetTypeInv, NetTypeOK
<1>7. LengthInv'
  BY <1>3, <1>4, <1>5 DEF ReadHeader, LengthInv
<1>8. QED BY <1>6, <1>7 DEF NetTypeInv

LEMMA ReadLengthByteType == ASSUME NetTypeInv, ReadLengthByte PROVE NetTypeInv'
<1> DEFINE len == WithByte(Head(stream))
<1>1. Take(1) /\ stream \in Seq(Bytes) /\ 1 \in Nat /\ netPc = "length"
  BY DEF ReadLengthByte, NetTypeInv, NetTypeOK
<1>2. stream' \in Seq(Bytes) /\ Head(stream) \in Nat
  BY <1>1, TakeType, HeadByte
<1>3. len \in 0..(Power[MaxLenBytes] - 1) /\ len < Power[cntBytes + 1]
  BY <1>1, <1>2, WithByteType
<1>4. cntBytes + 1 \in 0..MaxLenBytes
  BY <1>1, LengthsNat DEF NetTypeInv, NetTypeOK, LengthInv
<1>5. tmpPacketLen' = len /\ cntBytes' = cntBytes + 1 /\ sent' = sent
  BY DEF ReadLengthByte
<1> HIDE DEF len
<1>6. CASE LengthKnown(len)
  <2>1. buffer' = buffer \o Encode[len] /\ payloadLen' = len
    BY <1>6 DEF LengthKnown
  <2>2. buffer' \in Seq(Bytes) /\ Len(buffer') \in 0..BufferSize
    BY <2>1, <1>1, <1>3, LengthFits
  <2>3. CASE len = 0
    <3>1. /\ netPc' = "idle" /\ netRet' = "packet" /\ inStep' = inStep
          /\ received' = Append(received, buffer')
      BY <1>6, <2>3 DEF LengthKnown, ReturnPacket, EndRead
    <3>2. received' \in Seq(Seq(Bytes))
      BY <3>1, <2>2 DEF NetTypeInv, NetTypeOK
    <3>3. QED BY <3>1, <3>2, <2>1, <2>2, <1>2, <1>3, <1>4, <1>5, BufferAssumption
              DEF NetTypeInv, NetTypeOK, LengthInv
  <2>4. CASE len # 0 /\ Fits(len, Len(buffer'))
    <3>1. netPc' = "payload" /\ UNCHANGED <<netRet, received, inStep>>
      BY <1>6, <2>4 DEF LengthKnown
    <3>2. Len(buffer') + payloadLen' <= BufferSize
      BY <2>1, <2>2, <2>4, <1>3, LengthsNat, BufferAssumption DEF Fits
    <3>3. QED BY <3>1, <3>2, <2>1, <2>2, <1>2, <1>3, <1>4, <1>5, BufferAssumption
              DEF NetTypeInv, NetTypeOK, LengthInv
  <2>5. CASE len # 0 /\ ~ Fits(len, Len(buffer'))
    <3>1. /\ netPc' = "idle" /\ netRet' = "MQTT_BUFFER_OVERFLOW"
          /\ inStep' = FALSE /\ received' = received
      BY <1>6, <2>5 DEF LengthKnown, Abandon, EndRead
    <3>2. /\ Len(buffer') <= BufferSize /\ payloadLen' \in 0..(Power[MaxLenBytes] - 1)
          /\ sent' \in Seq(Seq(Bytes)) /\ received' \in Seq(Seq(Bytes))
      BY <3>1, <2>1, <2>2, <1>3, <1>5, BufferAssumption DEF NetTypeInv, NetTypeOK
    <3>3. NetTypeOK'
      BY <3>1, <3>2, <2>2, <1>2, <1>3, <1>4, <1>5 DEF NetTypeOK
    <3>4. QED BY <3>1, <3>3 DEF NetTypeInv, LengthInv
  <2>6. QED BY <2>3, <2>4, <2>5
<1>7. CASE UNCHANGED <<buffer, payloadLen>> /\ cntBytes' < MaxLenBytes
           /\ UNCHANGED <<netPc, netRet, received, inStep>>
  <2>1. netPc' = "length" /\ Len(buffer') = 1
    BY <1>7, <1>1 DEF NetTypeInv, LengthInv
  <2>2. LengthInv'
    BY <2>1, <1>3, <1>5, <1>7 DEF LengthInv
  <2>3. NetTypeOK'
    BY <2>1, <1>2, <1>3, <1>4, <1>5, <1>7 DEF NetTypeInv, NetTypeOK
  <2>4. QED BY <2>2, <2>3 DEF NetTypeInv
<1>8. CASE UNCHANGED <<buffer, payloadLen>> /\ Abandon("MQTT_FAILURE")
  <2>1. netPc' = "idle" /\ netRet' = "MQTT_FAILURE" /\ inStep' = FALSE /\ received' = received
    BY <1>8 DEF Abandon, EndRead
  <2>2. /\ buffer' \in Seq(Bytes) /\ Len(buffer') <= BufferSize
        /\ payloadLen' \in 0..(Power[MaxLenBytes] - 1)
    BY <1>8 DEF NetTypeInv, NetTypeOK
  <2>3. NetTypeOK'
    BY <2>1, <2>2, <1>2, <1>3, <1>4, <1>5 DEF NetTypeInv, NetTypeOK
  <2>4. QED BY <2>1, <2>3 DEF NetTypeInv, LengthInv
<1>9. QED BY <1>5, <1>6, <1>7, <1>8 DEF ReadLengthByte

LEMMA ReadPayloadType == ASSUME NetTypeInv, ReadPayload PROVE NetTypeInv'
<1>1. /\ Take(payloadLen) /\ stream \in Seq(Bytes) /\ payloadLen \in Nat
      /\ buffer \in Seq(Bytes) /\ Len(buffer) + payloadLen <= BufferSize
      /\ buffer' = buffer \o SubSeq(stream, 1, payloadLen)
  BY LengthsNat DEF ReadPayload, NetTypeInv, NetTypeOK
<1>2. /\ stream' \in Seq(Bytes) /\ SubSeq(stream, 1, payloadLen) \in Seq(Bytes)
      /\ Len(SubSeq(stream, 1, payloadLen)) = payloadLen
  BY <1>1, TakeType
<1>3. buffer' \in Seq(Bytes) /\ Len(buffer') <= BufferSize
  BY <1>1, <1>2, ConcatProperties
<1>4. /\ netPc' = "idle" /\ netRet' = "packet" /\ inStep' = inStep
      /\ received' = Append(received, buffer') /\ UNCHANGED <<lenVars, payloadLen, sent>>
  BY DEF ReadPayload, ReturnPacket, EndRead
<1>5. received' \in Seq(Seq(Bytes))
  BY <1>3, <1>4 DEF NetTypeInv, NetTypeOK
<1>6. QED BY <1>2, <1>3, <1>4, <1>5 DEF lenVars, NetTypeInv, NetTypeOK, LengthInv

LEMMA ReadFailsType == ASSUME NetTypeInv, ReadFails PROVE NetTypeInv'
<1>1. PICK k \in 0..(IF netPc = "payload" THEN payloadLen - 1 ELSE 0) : Take(k)
  BY DEF ReadFails
<1>2. k \in Nat /\ stream \in Seq(Bytes)
  BY LengthsNat DEF NetTypeInv, NetTypeOK
<1>3. stream' \in Seq(Bytes)
  BY <1>1, <1>2, TakeType
<1>4. /\ netPc' = "idle" /\ netRet' = "error" /\ inStep' \in BOOLEAN
      /\ UNCHANGED <<buffer, lenVars, payloadLen, sent, received>>
  BY DEF ReadFails, EndRead, NetTypeInv, NetTypeOK
<1>5. QED BY <1>3, <1>4 DEF lenVars, NetTypeInv, NetTypeOK, LengthInv

LEMMA NetTypeStep == ASSUME NetTypeInv, [NetNext]_netVars PROVE NetTypeInv'
<1>1. CASE PeerSends
  BY <1>1, PeerSendsType
<1>2. CASE MQTT_network_readPacket
  BY <1>2 DEF MQTT_network_readPacket, lenVars, NetTypeInv, NetTypeOK, LengthInv
<1>3. CASE ReadHeader
  BY <1>3, ReadHeaderType
<1>4. CASE ReadLengthByte
  BY <1>4, ReadLengthByteType
<1>5. CASE ReadPayload
  BY <1>5, ReadPayloadType
<1>6. CASE ReadFails
  BY <1>6, ReadFailsType
<1>7. CASE UNCHANGED netVars
  BY <1>7 DEF netVars, lenVars, NetTypeInv, NetTypeOK, LengthInv
<1>8. QED BY <1>1, <1>2, <1>3, <1>4, <1>5, <1>6, <1>7 DEF NetNext

-----------------------------------------------------------------------------
\* What is left of the flattened sequence behind its first k elements.

RestAfter(s, k, rest) == FlattenSeq(SubSeq(s, 1, k)) \o rest = FlattenSeq(s)

LEMMA CutConcat ==
  ASSUME NEW B, NEW a \in Seq(B), NEW b \in Seq(B)
  PROVE  /\ SubSeq(a \o b, 1, Len(a)) = a
         /\ SubSeq(a \o b, Len(a) + 1, Len(a \o b)) = b
<1> DEFINE c == a \o b
<1>1. /\ c \in Seq(B) /\ Len(c) = Len(a) + Len(b) /\ Len(a) \in Nat /\ Len(b) \in Nat
      /\ \A i \in 1..Len(c) : c[i] = IF i <= Len(a) THEN a[i] ELSE b[i - Len(a)]
  BY ConcatProperties
<1> HIDE DEF c
<1>2. SubSeq(c, 1, Len(a)) = a
  <2>1. /\ SubSeq(c, 1, Len(a)) \in Seq(B) /\ Len(SubSeq(c, 1, Len(a))) = Len(a)
        /\ \A i \in 1..Len(a) : SubSeq(c, 1, Len(a))[i] = c[i]
    BY <1>1, SubSeqProperties
  <2>2. \A i \in 1..Len(a) : SubSeq(c, 1, Len(a))[i] = a[i]
    BY <1>1, <2>1
  <2>3. QED BY <2>1, <2>2, SeqEqual
<1>3. SubSeq(c, Len(a) + 1, Len(c)) = b
  <2>1. /\ SubSeq(c, Len(a) + 1, Len(c)) \in Seq(B)
        /\ Len(SubSeq(c, Len(a) + 1, Len(c))) = Len(b)
        /\ \A i \in 1..Len(b) : SubSeq(c, Len(a) + 1, Len(c))[i] = c[Len(a) + i]
    BY <1>1, SubSeqProperties, SMTT(30)
  <2>2. \A i \in 1..Len(b) : SubSeq(c, Len(a) + 1, Len(c))[i] = b[i]
    BY <1>1, <2>1, SMTT(30)
  <2>3. QED BY <2>1, <2>2, SeqEqual
<1>4. QED BY <1>2, <1>3 DEF c

LEMMA FirstElements ==
  ASSUME NEW S, NEW s \in Seq(S), NEW k \in 0..Len(s)
  PROVE  SubSeq(s, 1, k) \in Seq(S) /\ Len(SubSeq(s, 1, k)) = k
  BY SubSeqProperties

LEMMA OneMoreElement ==
  ASSUME NEW S, NEW s \in Seq(S), NEW k \in 0..(Len(s) - 1)
  PROVE  SubSeq(s, 1, k + 1) = Append(SubSeq(s, 1, k), s[k + 1])
<1>1. 1 \in 1..Len(s) /\ k + 1 \in 1..Len(s) /\ (k + 1) - 1 = k /\ k \in 0..Len(s)
  OBVIOUS
<1>2. SubSeq(s, 1, k + 1) = SubSeq(s, 1, k) \o <<s[k + 1]>>
  BY <1>1, SubSeqRecursiveSecond
<1>3. SubSeq(s, 1, k) \in Seq(S) /\ s[k + 1] \in S
  BY <1>1, FirstElements
<1>4. QED BY <1>2, <1>3, AppendIsConcat

LEMMA FirstOfAppend ==
  ASSUME NEW S, NEW s \in Seq(S), NEW e \in S, NEW k \in 0..Len(s)
  PROVE  SubSeq(Append(s, e), 1, k) = SubSeq(s, 1, k)
<1>1. /\ Append(s, e) \in Seq(S) /\ Len(Append(s, e)) = Len(s) + 1
      /\ \A i \in 1..Len(s) : Append(s, e)[i] = s[i]
  BY AppendProperties
<1>2. /\ SubSeq(s, 1, k) \in Seq(S) /\ Len(SubSeq(s, 1, k)) = k
      /\ \A i \in 1..k : SubSeq(s, 1, k)[i] = s[i]
  BY SubSeqProperties
<1>3. /\ SubSeq(Append(s, e), 1, k) \in Seq(S) /\ Len(SubSeq(Append(s, e), 1, k)) = k
      /\ \A i \in 1..k : SubSeq(Append(s, e), 1, k)[i] = Append(s, e)[i]
  BY <1>1, SubSeqProperties
<1>4. QED BY <1>1, <1>2, <1>3, SeqEqual

LEMMA RestNext ==
  ASSUME NEW s \in Seq(Seq(Bytes)), NEW k \in 0..(Len(s) - 1), NEW rest \in Seq(Bytes),
         RestAfter(s, k + 1, rest)
  PROVE  RestAfter(s, k, s[k + 1] \o rest)
<1>1. SubSeq(s, 1, k) \in Seq(Seq(Bytes)) /\ s[k + 1] \in Seq(Bytes)
  BY FirstElements
<1>2. FlattenSeq(SubSeq(s, 1, k + 1)) = FlattenSeq(SubSeq(s, 1, k)) \o s[k + 1]
  BY <1>1, OneMoreElement, FlattenSeqAppend
<1>3. FlattenSeq(SubSeq(s, 1, k)) \in Seq(Bytes)
  BY <1>1, FlattenSeqType
<1>4. (FlattenSeq(SubSeq(s, 1, k)) \o s[k + 1]) \o rest
        = FlattenSeq(SubSeq(s, 1, k)) \o (s[k + 1] \o rest)
  BY <1>1, <1>3, ConcatBytes
<1>5. FlattenSeq(SubSeq(s, 1, k + 1)) \o rest = FlattenSeq(s)
  BY Zenon DEF RestAfter
<1>6. FlattenSeq(SubSeq(s, 1, k)) \o (s[k + 1] \o rest) = FlattenSeq(s)
  BY <1>2, <1>4, <1>5, Zenon
<1>7. QED BY <1>6, Zenon DEF RestAfter

LEMMA RestExists ==
  ASSUME NEW s \in Seq(Seq(Bytes)), NEW k \in 0..Len(s)
  PROVE  \E rest \in Seq(Bytes) : RestAfter(s, k, rest)
<1> DEFINE S == {n \in Nat : n <= Len(s) => \E rest \in Seq(Bytes) : RestAfter(s, Len(s) - n, rest)}
<1>1. 0 \in S
  <2>1. Len(s) - 0 = Len(s) /\ SubSeq(s, 1, Len(s)) = s
    BY SubSeqFull
  <2>2. FlattenSeq(s) \o << >> = FlattenSeq(s) /\ << >> \in Seq(Bytes)
    BY FlattenSeqType, ConcatEmptySeq
  <2>3. RestAfter(s, Len(s) - 0, << >>)
    BY <2>1, <2>2 DEF RestAfter
  <2>4. QED BY <2>2, <2>3
<1>2. ASSUME NEW n \in S PROVE n + 1 \in S
  <2>1. ASSUME n + 1 <= Len(s)
        PROVE  \E rest \in Seq(Bytes) : RestAfter(s, Len(s) - (n + 1), rest)
    <3> DEFINE j == Len(s) - (n + 1)
    <3>1. j \in 0..(Len(s) - 1) /\ j + 1 = Len(s) - n /\ n <= Len(s)
      BY <2>1
    <3>2. PICK rest \in Seq(Bytes) : RestAfter(s, j + 1, rest)
      BY <3>1
    <3> HIDE DEF j
    <3>3. RestAfter(s, j, s[j + 1] \o rest)
      BY <3>1, <3>2, RestNext
    <3>4. s[j + 1] \o rest \in Seq(Bytes)
      <4>1. s[j + 1] \in Seq(Bytes)
        BY <3>1
      <4>2. QED BY <4>1, ConcatProperties
    <3>5. QED BY <3>3, <3>4 DEF j
  <2>2. QED BY <2>1
<1> HIDE DEF S
<1>3. S = Nat
  <2>1. S \subseteq Nat
    BY DEF S
  <2>2. QED BY <2>1, <1>1, <1>2, SetInduction
<1>4. Len(s) - k \in S /\ Len(s) - k <= Len(s) /\ Len(s) - (Len(s) - k) = k
  BY <1>3
<1>5. QED BY <1>4 DEF S

LEMMA RestUnique ==
  ASSUME NEW s \in Seq(Seq(Bytes)), NEW k \in 0..Len(s),
         NEW r \in Seq(Bytes), NEW q \in Seq(Bytes), RestAfter(s, k, r), RestAfter(s, k, q)
  PROVE  r = q
<1> DEFINE f == FlattenSeq(SubSeq(s, 1, k))
<1>1. f \in Seq(Bytes)
  BY FirstElements, FlattenSeqType
<1>2. f \o r = f \o q
  BY DEF RestAfter
<1> HIDE DEF f
<1>3. QED BY <1>1, <1>2, ConcatSimplifications

LEMMA RestAppend ==
  ASSUME NEW s \in Seq(Seq(Bytes)), NEW k \in 0..Len(s), NEW rest \in Seq(Bytes),
         NEW e \in Seq(Bytes), RestAfter(s, k, rest)
  PROVE  RestAfter(Append(s, e), k, rest \o e)
<1> DEFINE f == FlattenSeq(SubSeq(s, 1, k))
<1>1. f \in Seq(Bytes)
  BY FirstElements, FlattenSeqType
<1>2. f \o rest = FlattenSeq(s)
  BY DEF RestAfter
<1>3. FlattenSeq(Append(s, e)) = FlattenSeq(s) \o e
  BY FlattenSeqAppend
<1>4. SubSeq(Append(s, e), 1, k) = SubSeq(s, 1, k)
  BY FirstOfAppend
<1> HIDE DEF f
<1>5. (f \o rest) \o e = f \o (rest \o e)
  BY <1>1, ConcatBytes
<1>6. QED BY <1>2, <1>3, <1>4, <1>5 DEF RestAfter, f

LEMMA RestEnd ==
  ASSUME NEW s \in Seq(Seq(Bytes)), NEW rest \in Seq(Bytes), RestAfter(s, Len(s), rest)
  PROVE  rest = << >>
<1>1. SubSeq(s, 1, Len(s)) = s
  BY SubSeqFull
<1>2. FlattenSeq(s) \o rest = FlattenSeq(s) /\ FlattenSeq(s) \in Seq(Bytes)
  BY <1>1, FlattenSeqType DEF RestAfter
<1>3. QED BY <1>2, ConcatSimplifications

-----------------------------------------------------------------------------
\* The reader in step: where it is in the packet that follows the ones received.

SentInv == \A i \in 1..Len(sent) : \E t \in Types, n \in Lengths : sent[i] = Packet(t, n)

\* The next packet, and what is sent behind it.
Current(t, n, rest) ==
    /\ Len(received) < Len(sent)
    /\ sent[Len(received) + 1] = Packet(t, n)
    /\ RestAfter(sent, Len(received) + 1, rest)

\* m is the part of the length that was not read yet.
AtLength(t, n, m, rest) ==
    /\ buffer = <<t>>
    /\ n = tmpPacketLen + m * Power[cntBytes]
    /\ m < Power[MaxLenBytes - cntBytes]
    /\ stream = Encode[m] \o (Payload(n) \o rest)

AtPayload(t, n, rest) ==
    /\ buffer = <<t>> \o Encode[n]
    /\ payloadLen = n
    /\ stream = Payload(n) \o rest

ReceivedInv == Len(received) <= Len(sent) /\ received = SubSeq(sent, 1, Len(received))

BetweenInv == netPc \in {"idle", "header"} => RestAfter(sent, Len(received), stream)

InPacketInv ==
    /\ netPc = "length" =>
           \E t \in Types, n \in Lengths, rest \in Seq(Bytes), m \in Nat :
               Current(t, n, rest) /\ AtLength(t, n, m, rest)
    /\ netPc = "payload" =>
           \E t \in Types, n \in Lengths, rest \in Seq(Bytes) :
               Current(t, n, rest) /\ AtPayload(t, n, rest)

ReaderInv == inStep => ReceivedInv /\ BetweenInv /\ InPacketInv

NetInv == NetTypeInv /\ SentInv /\ ReaderInv

LEMMA NetInitInv == NetInit => NetInv
<1> SUFFICES ASSUME NetInit PROVE NetInv
  OBVIOUS
<1>1. NetTypeInv
  BY NetInitType
<1>2. sent = << >> /\ received = << >> /\ stream = << >> /\ netPc = "idle" /\ Len(<< >>) = 0
  BY DEF NetInit
<1>3. SentInv
  BY <1>2 DEF SentInv
<1>4. SubSeq(<< >>, 1, 0) = << >>
  BY SubSeqEmpty
<1>5. << >> \o << >> = << >>
  OBVIOUS
<1>6. ReceivedInv
  BY <1>2, <1>4 DEF ReceivedInv
<1>7. BetweenInv
  BY <1>2, <1>4, <1>5, FlattenSeqEmpty DEF BetweenInv, RestAfter
<1>8. InPacketInv
  BY <1>2 DEF InPacketInv
<1>9. QED BY <1>1, <1>3, <1>6, <1>7, <1>8 DEF NetInv, ReaderInv

LEMMA SentStep == ASSUME NetTypeInv, SentInv, [NetNext]_netVars PROVE SentInv'
<1>1. CASE PeerSends
  <2>1. PICK t \in Types, n \in Lengths : sent' = Append(sent, Packet(t, n))
    BY <1>1 DEF PeerSends
  <2>2. sent \in Seq(Seq(Bytes)) /\ Packet(t, n) \in Seq(Bytes)
    BY PacketType DEF NetTypeInv, NetTypeOK
  <2>3. /\ Len(sent') = Len(sent) + 1 /\ Len(sent) \in Nat
        /\ sent'[Len(sent) + 1] = Packet(t, n)
        /\ \A i \in 1..Len(sent) : sent'[i] = sent[i]
    BY <2>1, <2>2, AppendProperties
  <2>4. ASSUME NEW i \in 1..Len(sent')
        PROVE  \E u \in Types, k \in Lengths : sent'[i] = Packet(u, k)
    <3>1. CASE i = Len(sent) + 1
      BY <3>1, <2>3
    <3>2. CASE i # Len(sent) + 1
      <4>1. i \in 1..Len(sent) /\ sent'[i] = sent[i]
        BY <3>2, <2>3
      <4>2. QED BY <4>1 DEF SentInv
    <3>3. QED BY <3>1, <3>2
  <2>5. QED BY <2>4 DEF SentInv
<1>2. CASE ~ PeerSends
  <2>1. sent' = sent
    BY <1>2 DEF NetNext, netVars, MQTT_network_readPacket, ReadHeader, ReadLengthByte,
                ReadPayload, ReadFails
  <2>2. QED BY <2>1 DEF SentInv
<1>3. QED BY <1>1, <1>2

\* A packet that is sent goes behind everything that is left.
LEMMA PeerSendsReader == ASSUME NetInv, PeerSends PROVE ReaderInv'
<1>1. PICK t \in Types, n \in Lengths :
          stream' = stream \o Packet(t, n) /\ sent' = Append(sent, Packet(t, n))
  BY DEF PeerSends
<1> DEFINE p == Packet(t, n)
<1>2. /\ p \in Seq(Bytes) /\ sent \in Seq(Seq(Bytes)) /\ stream \in Seq(Bytes)
      /\ received \in Seq(Seq(Bytes))
  BY PacketType DEF NetInv, NetTypeInv, NetTypeOK
<1>3. UNCHANGED <<netPc, buffer, tmpPacketLen, cntBytes, payloadLen, received, inStep>>
  BY DEF PeerSends, lenVars
<1>4. stream' = stream \o p /\ sent' = Append(sent, p)
  BY <1>1
<1> HIDE DEF p
<1>5. /\ Len(sent') = Len(sent) + 1 /\ Len(sent) \in Nat /\ Len(received) \in Nat
      /\ \A i \in 1..Len(sent) : sent'[i] = sent[i]
  BY <1>2, <1>4, AppendProperties
<1> SUFFICES ASSUME inStep PROVE (ReceivedInv /\ BetweenInv /\ InPacketInv)'
  BY <1>3 DEF ReaderInv
<1>6. ReceivedInv /\ BetweenInv /\ InPacketInv
  BY DEF NetInv, ReaderInv
<1>7. ReceivedInv'
  <2>1. Len(received) \in 0..Len(sent)
    BY <1>5, <1>6 DEF ReceivedInv
  <2>2. SubSeq(sent', 1, Len(received)) = SubSeq(sent, 1, Len(received))
    BY <1>2, <1>4, <2>1, FirstOfAppend
  <2>3. QED BY <1>3, <1>5, <1>6, <2>2 DEF ReceivedInv
<1>8. BetweenInv'
  <2>1. Len(received) \in 0..Len(sent)
    BY <1>5, <1>6 DEF ReceivedInv
  <2>2. ASSUME netPc \in {"idle", "header"} PROVE RestAfter(sent', Len(received), stream')
    <3>1. RestAfter(sent, Len(received), stream)
      BY <2>2, <1>6 DEF BetweenInv
    <3>2. QED BY <1>2, <1>4, <2>1, <3>1, RestAppend
  <2>3. QED BY <2>2, <1>3 DEF BetweenInv
<1>9. ASSUME NEW u \in Types, NEW k \in Lengths, NEW rest \in Seq(Bytes), Current(u, k, rest)
      PROVE  rest \o p \in Seq(Bytes) /\ Current(u, k, rest \o p)'
  <2>1. /\ Len(received) < Len(sent) /\ sent[Len(received) + 1] = Packet(u, k)
        /\ RestAfter(sent, Len(received) + 1, rest)
    BY <1>9 DEF Current
  <2>2. Len(received) + 1 \in 1..Len(sent) /\ Len(received) + 1 \in 0..Len(sent)
    BY <2>1, <1>5
  <2>3. sent'[Len(received) + 1] = Packet(u, k)
    BY <2>1, <2>2, <1>5
  <2>4. RestAfter(sent', Len(received) + 1, rest \o p)
    BY <1>2, <1>4, <2>1, <2>2, RestAppend
  <2>5. rest \o p \in Seq(Bytes)
    BY <1>2, ConcatProperties
  <2>6. QED BY <2>1, <2>3, <2>4, <2>5, <1>3, <1>5 DEF Current
<1>10. ASSUME NEW k \in Lengths, NEW rest \in Seq(Bytes)
       PROVE  (Payload(k) \o rest) \o p = Payload(k) \o (rest \o p)
  <2>1. k \in Nat
    BY LengthsNat
  <2>2. Payload(k) \in Seq(Bytes)
    BY <2>1, PayloadType
  <2>3. QED BY <2>2, <1>2, ConcatBytes
<1>11. ASSUME netPc = "length"
       PROVE  \E u \in Types, k \in Lengths, rest \in Seq(Bytes), m \in Nat :
                  (Current(u, k, rest) /\ AtLength(u, k, m, rest))'
  <2>1. PICK u \in Types, k \in Lengths, rest \in Seq(Bytes), m \in Nat :
            Current(u, k, rest) /\ AtLength(u, k, m, rest)
    BY <1>6, <1>11 DEF InPacketInv
  <2>2. stream' = (Encode[m] \o (Payload(k) \o rest)) \o p
    BY <2>1, <1>4 DEF AtLength
  <2>3. Encode[m] \in Seq(Bytes)
    <3>1. cntBytes \in Nat /\ MaxLenBytes - cntBytes \in Nat /\ MaxLenBytes - cntBytes <= MaxLenBytes
      BY <1>11, LengthsNat DEF NetInv, NetTypeInv, NetTypeOK, LengthInv
    <3>2. Power[MaxLenBytes - cntBytes] \in Nat /\ Power[MaxLenBytes - cntBytes] <= Power[MaxLenBytes]
      BY <3>1, LengthsNat, PowerPositive, PowerMonotonic
    <3>3. m < Power[MaxLenBytes - cntBytes]
      BY <2>1 DEF AtLength
    <3>4. m \in 0..(Power[MaxLenBytes] - 1)
      BY <3>2, <3>3, LengthsNat
    <3>5. QED BY <3>4, EncodeLength
  <2>4. Payload(k) \o rest \in Seq(Bytes)
    BY LengthsNat, PayloadType, ConcatProperties
  <2> DEFINE a == Encode[m]
             b == Payload(k) \o rest
  <2>5. stream' = a \o (b \o p)
    <3>1. a \in Seq(Bytes) /\ b \in Seq(Bytes) /\ stream' = (a \o b) \o p
      BY <2>2, <2>3, <2>4
    <3> HIDE DEF a, b
    <3>2. QED BY <3>1, <1>2, ConcatBytes, ZenonT(40)
  <2>6. AtLength(u, k, m, rest \o p)'
    BY <2>1, <2>5, <1>3, <1>10 DEF AtLength
  <2>7. QED BY <2>1, <2>6, <1>9
<1>12. ASSUME netPc = "payload"
       PROVE  \E u \in Types, k \in Lengths, rest \in Seq(Bytes) :
                  (Current(u, k, rest) /\ AtPayload(u, k, rest))'
  <2>1. PICK u \in Types, k \in Lengths, rest \in Seq(Bytes) :
            Current(u, k, rest) /\ AtPayload(u, k, rest)
    BY <1>6, <1>12 DEF InPacketInv
  <2>2. AtPayload(u, k, rest \o p)'
    BY <2>1, <1>3, <1>4, <1>10 DEF AtPayload
  <2>3. QED BY <2>1, <2>2, <1>9
<1>13. InPacketInv'
  BY <1>3, <1>11, <1>12 DEF InPacketInv
<1>14. QED BY <1>7, <1>8, <1>13

\* Taking the byte or the bytes that come first.
LEMMA TakeFront ==
  ASSUME NEW a \in Seq(Bytes), NEW b \in Seq(Bytes), stream = a \o b, Take(Len(a))
  PROVE  SubSeq(stream, 1, Len(a)) = a /\ stream' = b
  BY CutConcat DEF Take

LEMMA TakeByte ==
  ASSUME NEW byte \in Bytes, NEW b \in Seq(Bytes), stream = <<byte>> \o b, Take(1)
  PROVE  Head(stream) = byte /\ stream' = b
<1>1. <<byte>> \in Seq(Bytes) /\ Len(<<byte>>) = 1
  OBVIOUS
<1>2. stream' = b
  BY <1>1, TakeFront
<1>3. (<<byte>> \o b)[1] = byte
  BY <1>1, ConcatProperties
<1>4. QED BY <1>2, <1>3

\* A packet that is sent, its length known to be one the reader takes.
LEMMA CurrentType ==
  ASSUME NetTypeInv, NEW t \in Types, NEW n \in Lengths
  PROVE  /\ n \in Nat /\ n \in 0..(Power[MaxLenBytes] - 1) /\ t \in Bytes
         /\ Payload(n) \in Seq(Bytes) /\ Len(Payload(n)) = n
         /\ Encode[n] \in Seq(Bytes) /\ Len(Encode[n]) \in Nat
         /\ sent \in Seq(Seq(Bytes)) /\ received \in Seq(Seq(Bytes))
         /\ stream \in Seq(Bytes) /\ Len(sent) \in Nat /\ Len(received) \in Nat
<1>1. n \in Nat /\ n \in 0..(Power[MaxLenBytes] - 1) /\ t \in Bytes
  BY LengthsNat
<1>2. Payload(n) \in Seq(Bytes) /\ Len(Payload(n)) = n
  BY <1>1, PayloadType
<1>3. Encode[n] \in Seq(Bytes) /\ Len(Encode[n]) \in Nat
  BY <1>1, EncodeLength
<1>4. /\ sent \in Seq(Seq(Bytes)) /\ received \in Seq(Seq(Bytes))
      /\ stream \in Seq(Bytes) /\ Len(sent) \in Nat /\ Len(received) \in Nat
  BY DEF NetTypeInv, NetTypeOK
<1>5. QED BY <1>1, <1>2, <1>3, <1>4

\* In step the next byte, if there is one, begins a packet.
LEMMA ReadHeaderReader == ASSUME NetInv, ReadHeader PROVE ReaderInv'
<1>1. /\ netPc = "header" /\ netPc' = "length" /\ Take(1)
      /\ buffer' = <<Head(stream)>> /\ tmpPacketLen' = 0 /\ cntBytes' = 0
      /\ UNCHANGED <<sent, received, inStep>>
  BY DEF ReadHeader
<1> SUFFICES ASSUME inStep PROVE (ReceivedInv /\ BetweenInv /\ InPacketInv)'
  BY <1>1 DEF ReaderInv
<1> DEFINE k == Len(received)
<1>2. /\ k <= Len(sent) /\ received = SubSeq(sent, 1, k) /\ RestAfter(sent, k, stream)
  BY <1>1 DEF NetInv, ReaderInv, ReceivedInv, BetweenInv
<1>3. /\ sent \in Seq(Seq(Bytes)) /\ stream \in Seq(Bytes)
      /\ Len(sent) \in Nat /\ k \in Nat /\ Len(stream) >= 1
  BY <1>1 DEF NetInv, NetTypeInv, NetTypeOK, Take
<1> HIDE DEF k
<1>4. k < Len(sent)
  <2>1. ASSUME k = Len(sent) PROVE FALSE
    <3>1. stream = << >>
      BY <2>1, <1>2, <1>3, RestEnd
    <3>2. QED BY <3>1, <1>3
  <2>2. QED BY <2>1, <1>2, <1>3
<1>5. k + 1 \in 1..Len(sent) /\ k + 1 \in 0..Len(sent) /\ k \in 0..(Len(sent) - 1) /\ k \in 0..Len(sent)
  BY <1>3, <1>4
<1>6. PICK t \in Types, n \in Lengths : sent[k + 1] = Packet(t, n)
  BY <1>5 DEF NetInv, SentInv
<1>7. PICK rest \in Seq(Bytes) : RestAfter(sent, k + 1, rest)
  BY <1>3, <1>5, RestExists
<1> DEFINE payload == Payload(n)
           length == Encode[n]
<1>8. payload \in Seq(Bytes) /\ length \in Seq(Bytes) /\ t \in Bytes /\ n \in Nat
      /\ n \in 0..(Power[MaxLenBytes] - 1)
  BY CurrentType DEF NetInv
<1>9. sent[k + 1] = (<<t>> \o length) \o payload /\ sent[k + 1] \in Seq(Bytes)
  BY <1>6, PacketType DEF Packet
<1>10. stream = sent[k + 1] \o rest
  <2>1. RestAfter(sent, k, sent[k + 1] \o rest)
    BY <1>3, <1>5, <1>7, RestNext
  <2>2. sent[k + 1] \o rest \in Seq(Bytes)
    BY <1>9, ConcatProperties
  <2>3. QED BY <2>1, <2>2, <1>2, <1>3, <1>5, RestUnique
<1>11. stream = <<t>> \o (length \o (payload \o rest))
  <2> HIDE DEF payload, length
  <2>1. <<t>> \in Seq(Bytes)
    BY <1>8
  <2>2. /\ payload \o rest \in Seq(Bytes) /\ length \o payload \in Seq(Bytes)
        /\ <<t>> \o length \in Seq(Bytes)
    BY <2>1, <1>8, ConcatProperties
  <2>3. stream = (<<t>> \o length) \o (payload \o rest)
    BY <1>8, <1>9, <1>10, <2>2, ConcatBytes, SMTT(30)
  <2>4. QED BY <1>8, <2>1, <2>2, <2>3, ConcatBytes, SMTT(30)
<1>12. Head(stream) = t /\ stream' = length \o (payload \o rest)
  <2> HIDE DEF payload, length
  <2>1. payload \o rest \in Seq(Bytes)
    BY <1>8, ConcatProperties
  <2>2. length \o (payload \o rest) \in Seq(Bytes)
    BY <2>1, <1>8, ConcatProperties
  <2>3. QED BY <2>2, <1>1, <1>8, <1>11, TakeByte
<1>13. Current(t, n, rest)'
  BY <1>1, <1>4, <1>6, <1>7 DEF Current, k
<1>14. AtLength(t, n, n, rest)'
  <2>1. n = 0 + n * Power[0]
    BY <1>8, PowerStep
  <2>2. n < Power[MaxLenBytes - 0]
    BY <1>8, LengthsNat
  <2>3. QED BY <2>1, <2>2, <1>1, <1>12 DEF AtLength
<1>15. InPacketInv'
  BY <1>1, <1>8, <1>13, <1>14 DEF InPacketInv
<1>16. ReceivedInv'
  BY <1>1, <1>2 DEF ReceivedInv, k
<1>17. BetweenInv'
  BY <1>1 DEF BetweenInv
<1>18. QED BY <1>15, <1>16, <1>17

\* The packet is complete.
LEMMA PacketComplete ==
  ASSUME NetInv, inStep, NEW t \in Types, NEW n \in Lengths, NEW rest \in Seq(Bytes),
         Current(t, n, rest), stream' = rest, buffer' = Packet(t, n), sent' = sent, ReturnPacket
  PROVE  ReaderInv'
<1> DEFINE k == Len(received)
<1>1. /\ sent \in Seq(Seq(Bytes)) /\ received \in Seq(Seq(Bytes)) /\ Len(sent) \in Nat /\ k \in Nat
  BY DEF NetInv, NetTypeInv, NetTypeOK
<1>2. received = SubSeq(sent, 1, k)
  BY DEF NetInv, ReaderInv, ReceivedInv
<1>3. k < Len(sent) /\ sent[k + 1] = Packet(t, n) /\ RestAfter(sent, k + 1, rest)
  BY DEF Current
<1>4. netPc' = "idle" /\ inStep' = inStep /\ received' = Append(received, sent[k + 1])
  BY <1>3 DEF ReturnPacket, EndRead
<1>5. Len(received') = k + 1
  BY <1>1, <1>3, <1>4, PacketType, AppendProperties
<1> HIDE DEF k
<1>6. received' = SubSeq(sent, 1, k + 1)
  <2>1. k \in 0..(Len(sent) - 1)
    BY <1>1, <1>3
  <2>2. QED BY <2>1, <1>1, <1>2, <1>4, OneMoreElement
<1>7. ReceivedInv'
  BY <1>1, <1>3, <1>5, <1>6 DEF ReceivedInv
<1>8. BetweenInv'
  BY <1>3, <1>5 DEF BetweenInv
<1>9. InPacketInv'
  BY <1>4 DEF InPacketInv
<1>10. QED BY <1>7, <1>8, <1>9 DEF ReaderInv

\* In step the payload that is read completes the next packet.
LEMMA PayloadWhole ==
  ASSUME NetInv, inStep, ReadPayload
  PROVE  \E t \in Types, n \in Lengths, rest \in Seq(Bytes) :
             Current(t, n, rest) /\ stream' = rest /\ buffer' = Packet(t, n)
<1>1. /\ netPc = "payload" /\ Take(payloadLen)
      /\ buffer' = buffer \o SubSeq(stream, 1, payloadLen)
  BY DEF ReadPayload
<1>2. PICK t \in Types, n \in Lengths, rest \in Seq(Bytes) :
          Current(t, n, rest) /\ AtPayload(t, n, rest)
  BY <1>1 DEF NetInv, ReaderInv, InPacketInv
<1>3. Payload(n) \in Seq(Bytes) /\ Len(Payload(n)) = n
  BY CurrentType DEF NetInv
<1>4. SubSeq(stream, 1, n) = Payload(n) /\ stream' = rest
  <2>1. stream = Payload(n) \o rest /\ Take(Len(Payload(n)))
    BY <1>1, <1>2, <1>3 DEF AtPayload
  <2>2. SubSeq(stream, 1, Len(Payload(n))) = Payload(n) /\ stream' = rest
    BY <2>1, <1>3, TakeFront
  <2>3. QED BY <2>2, <1>3
<1>5. buffer' = Packet(t, n)
  BY <1>1, <1>2, <1>4 DEF AtPayload, Packet
<1>6. QED BY <1>2, <1>4, <1>5

LEMMA ReadPayloadReader == ASSUME NetInv, ReadPayload PROVE ReaderInv'
<1>1. sent' = sent /\ inStep' = inStep /\ ReturnPacket
  BY DEF ReadPayload, ReturnPacket
<1> SUFFICES ASSUME inStep PROVE ReaderInv'
  BY <1>1 DEF ReaderInv
<1>2. PICK t \in Types, n \in Lengths, rest \in Seq(Bytes) :
          Current(t, n, rest) /\ stream' = rest /\ buffer' = Packet(t, n)
  BY PayloadWhole
<1>3. QED BY <1>1, <1>2, PacketComplete

LEMMA ReadFailsReader == ASSUME NetInv, ReadFails PROVE ReaderInv'
<1>1. /\ netPc' = "idle" /\ UNCHANGED <<sent, received>>
      /\ inStep' = (inStep /\ netPc = "header")
  BY DEF ReadFails, EndRead
<1> SUFFICES ASSUME inStep, netPc = "header" PROVE (ReceivedInv /\ BetweenInv /\ InPacketInv)'
  BY <1>1 DEF ReaderInv
<1>2. stream' = stream
  <2>1. PICK i \in 0..0 : Take(i)
    BY DEF ReadFails
  <2>2. stream' = SubSeq(stream, 1, Len(stream)) /\ stream \in Seq(Bytes)
    BY <2>1 DEF Take, NetInv, NetTypeInv, NetTypeOK
  <2>3. QED BY <2>2, SubSeqFull
<1>3. ReceivedInv /\ BetweenInv
  BY DEF NetInv, ReaderInv
<1>4. QED BY <1>1, <1>2, <1>3 DEF ReceivedInv, BetweenInv, InPacketInv

\* The first byte of the part of a length that is left, and what is behind it.
LEMMA LengthByteTaken ==
  ASSUME NetInv, ReadLengthByte, NEW t \in Types, NEW n \in Lengths, NEW rest \in Seq(Bytes),
         NEW m \in Nat, AtLength(t, n, m, rest)
  PROVE  /\ m < Base => Head(stream) = m /\ stream' = Payload(n) \o rest
         /\ ~ (m < Base) => /\ Head(stream) = Base + (m % Base)
                            /\ stream' = Encode[m \div Base] \o (Payload(n) \o rest)
<1> DEFINE b == Payload(n) \o rest
<1>1. b \in Seq(Bytes)
  <2>1. Payload(n) \in Seq(Bytes)
    BY CurrentType DEF NetInv
  <2>2. QED BY <2>1, ConcatProperties
<1>2. stream = Encode[m] \o b /\ Take(1)
  BY DEF AtLength, ReadLengthByte
<1>3. m < Power[MaxLenBytes - cntBytes] /\ cntBytes \in Nat /\ cntBytes < MaxLenBytes
  BY DEF AtLength, ReadLengthByte, NetInv, NetTypeInv, NetTypeOK, LengthInv
<1>4. m \in 0..(Power[MaxLenBytes] - 1)
  <2>1. MaxLenBytes - cntBytes \in Nat /\ MaxLenBytes - cntBytes <= MaxLenBytes
    BY <1>3, LengthsNat
  <2>2. Power[MaxLenBytes - cntBytes] \in Nat /\ Power[MaxLenBytes - cntBytes] <= Power[MaxLenBytes]
    BY <2>1, LengthsNat, PowerPositive, PowerMonotonic
  <2>3. QED BY <1>3, <2>2, LengthsNat
<1> HIDE DEF b
<1>5. CASE m < Base
  <2>1. stream = <<m>> \o b /\ m \in Bytes
    <3>1. Encode[m] = <<m>>
      BY <1>5, EncodeShort
    <3>2. m \in Bytes
      BY <1>5, BaseAssumption DEF Bytes
    <3>3. QED BY <3>1, <3>2, <1>2
  <2>2. QED BY <2>1, <1>1, <1>2, <1>5, TakeByte DEF b
<1>6. CASE ~ (m < Base)
  <2> DEFINE q == m \div Base
             r == m % Base
  <2>1. q \in Nat /\ r \in 0..(Base - 1) /\ q <= m
    <3>1. q \in Nat /\ r \in 0..(Base - 1)
      BY DivMod
    <3>2. q < m
      BY <1>6, DivSmaller, BaseAssumption
    <3> HIDE DEF q, r
    <3>3. QED BY <3>1, <3>2
  <2>2. stream = (<<Base + r>> \o Encode[q]) \o b
    BY <1>2, <1>6, EncodeLong
  <2> HIDE DEF q, r
  <2>3. Encode[q] \in Seq(Bytes)
    <3>1. q \in 0..(Power[MaxLenBytes] - 1)
      BY <1>4, <2>1, LengthsNat
    <3>2. QED BY <3>1, EncodeLength
  <2>4. Base + r \in Bytes /\ <<Base + r>> \in Seq(Bytes)
    <3>1. Base + r \in Bytes
      BY <2>1, BaseAssumption DEF Bytes
    <3>2. QED BY <3>1
  <2>5. Encode[q] \o b \in Seq(Bytes)
    BY <2>3, <1>1, ConcatProperties
  <2>6. stream = <<Base + r>> \o (Encode[q] \o b)
    BY <2>2, <2>3, <2>4, <1>1, ConcatBytes, ZenonT(40)
  <2>7. Head(stream) = Base + r /\ stream' = Encode[q] \o b
    BY <2>4, <2>5, <2>6, <1>2, TakeByte
  <2>8. QED BY <2>7, <1>6 DEF b, q, r
<1>7. QED BY <1>5, <1>6

\* The last digit makes the length of the packet known.
LEMMA LastDigit ==
  ASSUME NetInv, ReadLengthByte, NEW t \in Types, NEW n \in Lengths, NEW rest \in Seq(Bytes),
         NEW m \in Nat, AtLength(t, n, m, rest), m < Base
  PROVE  LengthKnown(n) /\ stream' = Payload(n) \o rest
<1>1. Head(stream) = m /\ stream' = Payload(n) \o rest
  BY LengthByteTaken
<1>2. m % Base = m
  BY BaseAssumption
<1>3. WithByte(m) = n
  BY <1>2 DEF WithByte, AtLength
<1>4. LengthKnown(tmpPacketLen') /\ tmpPacketLen' = WithByte(m)
  BY <1>1 DEF ReadLengthByte
<1>5. QED BY <1>1, <1>3, <1>4

\* Another digit: there is room for it, and one part less of the length is left.
LEMMA OneDigit ==
  ASSUME NetInv, inStep, ReadLengthByte, NEW t \in Types, NEW n \in Lengths,
         NEW rest \in Seq(Bytes), NEW m \in Nat, AtLength(t, n, m, rest), ~ (m < Base)
  PROVE  /\ AtLength(t, n, m \div Base, rest)'
         /\ UNCHANGED <<netPc, netRet, sent, received, inStep>>
<1> DEFINE q == m \div Base
           r == m % Base
           left == MaxLenBytes - cntBytes
           P == Power[cntBytes]
<1>1. q \in Nat /\ r \in 0..(Base - 1) /\ r \in Nat /\ m = (Base * q) + r
  <2>1. q \in Nat /\ r \in 0..(Base - 1) /\ m = (Base * q) + r
    BY DivMod
  <2> HIDE DEF q, r
  <2>2. QED BY <2>1, BaseAssumption
<1>2. Head(stream) = Base + r /\ stream' = Encode[q] \o (Payload(n) \o rest)
  BY LengthByteTaken
<1>3. /\ cntBytes \in Nat /\ left \in Nat /\ left >= 1 /\ m < Power[left]
      /\ tmpPacketLen \in Nat /\ n = tmpPacketLen + m * P /\ buffer = <<t>>
  BY LengthsNat DEF AtLength, ReadLengthByte, NetInv, NetTypeInv, NetTypeOK, LengthInv
<1>4. P \in Nat /\ Power[cntBytes + 1] = Base * P
  BY <1>3, PowerPositive, PowerStep
<1> HIDE DEF q, r, P
<1>5. ~ (Head(stream) < Base)
  BY <1>1, <1>2, BaseAssumption
<1>6. (Base + r) % Base = r
  BY <1>1, BaseAssumption
<1>7. tmpPacketLen' = tmpPacketLen + r * P /\ cntBytes' = cntBytes + 1 /\ sent' = sent
  BY <1>2, <1>6 DEF ReadLengthByte, WithByte, P
<1>8. left # 1
  <2>1. Power[1] = Base
    <3>1. 0 \in Nat /\ 0 + 1 = 1
      OBVIOUS
    <3>2. Power[1] = Base * Power[0]
      BY <3>1, PowerStep
    <3>3. QED BY <3>2, PowerStep, BaseAssumption
  <2> HIDE DEF left
  <2>2. QED BY <2>1, <1>3
<1>9. left - 1 \in Nat /\ (left - 1) + 1 = left /\ left - 1 = MaxLenBytes - cntBytes'
      /\ cntBytes' < MaxLenBytes
  BY <1>3, <1>7, <1>8, LengthsNat
<1>10. UNCHANGED <<netPc, netRet, received, inStep, buffer>>
  BY <1>5, <1>9 DEF ReadLengthByte
<1>11. q < Power[MaxLenBytes - cntBytes']
  <2>1. Power[left] = Base * Power[left - 1] /\ Power[left - 1] \in Nat
    <3> HIDE DEF left
    <3>1. left - 1 \in Nat /\ (left - 1) + 1 = left
      BY <1>9
    <3>2. Power[(left - 1) + 1] = Base * Power[left - 1] /\ Power[left - 1] \in Nat
      BY <3>1, PowerStep, PowerPositive
    <3>3. QED BY <3>1, <3>2
  <2>2. (Base * q) + r < Base * Power[left - 1]
    BY <2>1, <1>1, <1>3
  <2>3. q < Power[left - 1]
    BY <2>1, <2>2, <1>1, DigitBound
  <2>4. QED BY <2>3, <1>9
<1>12. n = tmpPacketLen' + q * Power[cntBytes']
  <2>1. m * P = ((Base * q) * P) + (r * P)
    BY <1>1, <1>4, BaseAssumption
  <2>2. (Base * q) * P = q * (Base * P)
    BY <1>1, <1>4, BaseAssumption
  <2>3. r * P \in Nat /\ q * (Base * P) \in Nat
    BY <1>1, <1>4, BaseAssumption
  <2>4. Power[cntBytes'] = Base * P
    BY <1>4, <1>7
  <2>5. QED BY <2>1, <2>2, <2>3, <2>4, <1>3, <1>7
<1>13. AtLength(t, n, q, rest)'
  BY <1>2, <1>3, <1>10, <1>11, <1>12 DEF AtLength
<1>14. QED BY <1>7, <1>10, <1>13 DEF q

\* What a byte of the length leads to while the reader is in step.  A packet is
\* given up only if it is longer than the buffer.
LengthByteResult ==
    \/ netPc' = "length" /\ UNCHANGED <<received, inStep>>
    \/ netPc' = "payload" /\ UNCHANGED <<received, inStep>>
    \/ /\ netPc' = "idle" /\ netRet' = "packet" /\ inStep' = inStep
       /\ received' = Append(received, sent[Len(received) + 1])
    \/ /\ inStep' = FALSE /\ UNCHANGED received
       /\ Len(sent[Len(received) + 1]) > BufferSize

LEMMA ReadLengthByteReader ==
  ASSUME NetInv, inStep, ReadLengthByte
  PROVE  ReaderInv' /\ LengthByteResult /\ Len(received) < Len(sent) /\ sent' = sent
<1>1. netPc = "length" /\ sent' = sent
  BY DEF ReadLengthByte
<1>2. ReceivedInv /\ InPacketInv
  BY DEF NetInv, ReaderInv
<1>3. PICK t \in Types, n \in Lengths, rest \in Seq(Bytes), m \in Nat :
          Current(t, n, rest) /\ AtLength(t, n, m, rest)
  BY <1>1, <1>2 DEF InPacketInv
<1>4. Len(received) < Len(sent) /\ sent[Len(received) + 1] = Packet(t, n)
  BY <1>3 DEF Current
<1>5. CASE ~ (m < Base)
  <2>1. AtLength(t, n, m \div Base, rest)' /\ UNCHANGED <<netPc, netRet, sent, received, inStep>>
    BY <1>3, <1>5, OneDigit
  <2>2. m \div Base \in Nat
    BY DivMod
  <2>3. Current(t, n, rest)'
    BY <2>1, <1>3 DEF Current
  <2>4. InPacketInv'
    BY <2>1, <2>2, <2>3, <1>1 DEF InPacketInv
  <2>5. ReaderInv'
    BY <2>1, <2>4, <1>1, <1>2 DEF ReaderInv, ReceivedInv, BetweenInv
  <2>6. QED BY <2>1, <2>5, <1>1, <1>4 DEF LengthByteResult
<1>6. CASE m < Base
  <2>1. LengthKnown(n) /\ stream' = Payload(n) \o rest
    BY <1>3, <1>6, LastDigit
  <2>2. buffer' = <<t>> \o Encode[n] /\ payloadLen' = n
    BY <2>1, <1>3 DEF LengthKnown, AtLength
  <2>3. /\ n \in Nat /\ Encode[n] \in Seq(Bytes) /\ Len(Encode[n]) \in Nat /\ t \in Bytes
        /\ Payload(n) \in Seq(Bytes) /\ Len(Payload(n)) = n
    BY CurrentType DEF NetInv
  <2>4. CASE n = 0
    <3>1. Payload(n) = << >>
      BY <2>3, <2>4, EmptySeq
    <3>2. <<t>> \o Encode[n] \in Seq(Bytes)
      BY <2>3, ConcatProperties
    <3>3. stream' = rest /\ buffer' = Packet(t, n)
      BY <2>1, <2>2, <3>1, <3>2, ConcatEmptySeq DEF Packet
    <3>4. ReturnPacket
      BY <2>1, <2>4 DEF LengthKnown
    <3>5. ReaderInv'
      BY <3>3, <3>4, <1>1, <1>3, PacketComplete
    <3>6. QED BY <3>3, <3>4, <3>5, <1>1, <1>4 DEF ReturnPacket, EndRead, LengthByteResult
  <2>5. CASE n # 0 /\ Fits(n, Len(buffer'))
    <3>1. netPc' = "payload" /\ UNCHANGED <<netRet, received, inStep>>
      BY <2>1, <2>5 DEF LengthKnown
    <3>2. Current(t, n, rest)'
      BY <3>1, <1>1, <1>3 DEF Current
    <3>3. AtPayload(t, n, rest)'
      BY <2>1, <2>2 DEF AtPayload
    <3>4. InPacketInv'
      BY <3>1, <3>2, <3>3 DEF InPacketInv
    <3>5. ReaderInv'
      BY <3>1, <3>4, <1>1, <1>2 DEF ReaderInv, ReceivedInv, BetweenInv
    <3>6. QED BY <3>1, <3>5, <1>1, <1>4 DEF LengthByteResult
  <2>6. CASE n # 0 /\ ~ Fits(n, Len(buffer'))
    <3>1. inStep' = FALSE /\ UNCHANGED received
      BY <2>1, <2>6 DEF LengthKnown, Abandon
    <3>2. Len(buffer') = 1 + Len(Encode[n])
      <4>1. <<t>> \in Seq(Bytes) /\ Len(<<t>>) = 1
        BY <2>3
      <4>2. QED BY <4>1, <2>2, <2>3, ConcatProperties
    <3>3. Len(Packet(t, n)) = 1 + Len(Encode[n]) + n
      BY PacketType
    <3>4. Len(Packet(t, n)) > BufferSize
      BY <2>3, <2>6, <3>2, <3>3, BufferAssumption DEF Fits
    <3>5. QED BY <3>1, <3>4, <1>1, <1>4 DEF ReaderInv, LengthByteResult
  <2>7. QED BY <2>4, <2>5, <2>6
<1>7. QED BY <1>5, <1>6

LEMMA NetStepInv == ASSUME NetInv, [NetNext]_netVars PROVE NetInv'
<1>1. NetTypeInv'
  BY NetTypeStep DEF NetInv
<1>2. SentInv'
  BY SentStep DEF NetInv
<1>3. ReaderInv'
  <2>1. CASE PeerSends
    BY <2>1, PeerSendsReader
  <2>2. CASE MQTT_network_readPacket
    BY <2>2 DEF MQTT_network_readPacket, lenVars, NetInv, ReaderInv, ReceivedInv, BetweenInv,
                InPacketInv
  <2>3. CASE ReadHeader
    BY <2>3, ReadHeaderReader
  <2>4. CASE ReadLengthByte
    <3>1. CASE inStep
      BY <2>4, <3>1, ReadLengthByteReader
    <3>2. CASE ~ inStep
      <4>1. ~ inStep'
        BY <2>4, <3>2 DEF ReadLengthByte, LengthKnown, ReturnPacket, Abandon
      <4>2. QED BY <4>1 DEF ReaderInv
    <3>3. QED BY <3>1, <3>2
  <2>5. CASE ReadPayload
    BY <2>5, ReadPayloadReader
  <2>6. CASE ReadFails
    BY <2>6, ReadFailsReader
  <2>7. CASE UNCHANGED netVars
    <3>1. /\ UNCHANGED <<stream, netPc, buffer, tmpPacketLen, cntBytes, payloadLen>>
          /\ UNCHANGED <<sent, received, inStep>>
      BY <2>7 DEF netVars, lenVars
    <3>2. InPacketInv => InPacketInv'
      BY <3>1 DEF InPacketInv, Current, AtLength, AtPayload
    <3>3. QED BY <3>1, <3>2 DEF NetInv, ReaderInv, ReceivedInv, BetweenInv
  <2>8. QED BY <2>1, <2>2, <2>3, <2>4, <2>5, <2>6, <2>7 DEF NetNext
<1>4. QED BY <1>1, <1>2, <1>3 DEF NetInv

LEMMA NetInvariant == NetSpec => []NetInv
  BY NetInitInv, NetStepInv, PTL DEF NetSpec

-----------------------------------------------------------------------------
\* What the reader promises.

\* Types of the reader, for every base, buffer and length that can be encoded:
\* MQTT_network_readPacket never writes behind the end of the caller's buffer,
\* in step or not.
THEOREM NetTypeCorrect == NetSpec => []NetTypeOK
<1>1. NetInv => NetTypeOK
  BY DEF NetInv, NetTypeInv
<1>2. QED BY <1>1, NetInvariant, PTL

LEMMA InStepFraming == NetInv => FramingKept
<1> SUFFICES ASSUME NetInv, inStep
             PROVE  /\ IsPrefix(received, sent)
                    /\ netPc = "idle" => FlattenSeq(received) \o stream = FlattenSeq(sent)
  BY DEF FramingKept
<1>1. /\ Len(received) <= Len(sent) /\ received = SubSeq(sent, 1, Len(received))
      /\ received \in Seq(Seq(Bytes))
  BY DEF NetInv, ReaderInv, ReceivedInv, NetTypeInv, NetTypeOK
<1>2. SubSeq(received, 1, Len(received)) = received
  BY <1>1, SubSeqFull
<1>3. IsPrefix(received, sent)
  BY <1>1, <1>2 DEF IsPrefix
<1>4. ASSUME netPc = "idle" PROVE FlattenSeq(received) \o stream = FlattenSeq(sent)
  <2>1. RestAfter(sent, Len(received), stream)
    BY <1>4 DEF NetInv, ReaderInv, BetweenInv
  <2>2. QED BY <2>1, <1>1 DEF RestAfter
<1>5. QED BY <1>3, <1>4

\* Until a packet is abandoned half way MQTT_network_readPacket returns the
\* packets that were sent, whole and in order, however they are cut into reads.
THEOREM FramingKeptInvariant == NetSpec => []FramingKept
  BY NetInvariant, InStepFraming, PTL

RejectsOnlyTooLarge ==
    inStep /\ netRet' \in {"MQTT_FAILURE", "MQTT_BUFFER_OVERFLOW"} /\ netPc = "length" /\ netPc' = "idle"
        => Len(sent[Len(received) + 1]) > BufferSize

LEMMA RejectionStep == ASSUME NetInv, NetNext PROVE RejectsOnlyTooLarge
<1> SUFFICES ASSUME inStep, netRet' \in {"MQTT_FAILURE", "MQTT_BUFFER_OVERFLOW"},
                    netPc = "length", netPc' = "idle"
             PROVE  Len(sent[Len(received) + 1]) > BufferSize
  BY DEF RejectsOnlyTooLarge
<1>1. ReadLengthByte \/ ReadFails
  BY DEF NetNext, PeerSends, MQTT_network_readPacket, ReadHeader, ReadPayload
<1>2. netRet' # "error"
  OBVIOUS
<1>3. ReadLengthByte
  BY <1>1, <1>2 DEF ReadFails, EndRead
<1>4. LengthByteResult
  BY <1>3, ReadLengthByteReader
<1>5. QED BY <1>4 DEF LengthByteResult

\* While in step the reader gives a packet up only if it is longer than the
\* buffer: every length that can be encoded is accepted, and a packet may fill
\* the buffer to the last byte.
THEOREM OnlyTooLargeRejectedProperty == NetSpec => OnlyTooLargeRejected
<1>1. NetInv /\ [NetNext]_netVars => [RejectsOnlyTooLarge]_netVars
  BY RejectionStep
<1>2. NetSpec => [][RejectsOnlyTooLarge]_netVars
  BY <1>1, NetInvariant, PTL DEF NetSpec
<1>3. QED BY <1>2 DEF OnlyTooLargeRejected, RejectsOnlyTooLarge

-----------------------------------------------------------------------------
\* The start of the connection and the reader together.

\* In the session the start of the connection and the reader behave as they do
\* alone, so that everything that is proved of them holds there.
THEOREM SessionUsesParts == SessionSpec => TlsSpec /\ NetSpec
<1>1. SessionInit => TlsInit /\ NetInit
  BY DEF SessionInit
<1>2. [SessionNext]_sessionVars => [TlsNext]_tlsVars
  BY DEF SessionNext, sessionVars, StackStep, ConnectStep, BrokerSends, ReadStep, TlsNext
<1>3. [SessionNext]_sessionVars => [NetNext]_netVars
  BY DEF SessionNext, sessionVars, StackStep, ConnectStep, BrokerSends, ReadStep, NetNext
<1>4. QED BY <1>1, <1>2, <1>3, PTL DEF SessionSpec, TlsSpec, NetSpec

\* Nothing leaves "ready": the connection is opened once.
LEMMA ReadyStays == ASSUME Connected, SessionNext PROVE Connected'
<1>1. ~ GlueStep
  BY DEF Connected, GlueStep, InitCrypto, InitTls, Call, WaitForNetworkStackInit, CreateSocket,
         ConnectSocket, WaitForEvent, PendingFails, NoPendingEvents, PendingEvents, CloseSocket,
         Handshake
<1>2. pc' = pc
  BY <1>1 DEF SessionNext, StackStep, StackStarts, LinkStep, ConnectStep, BrokerSends, ReadStep,
              tlsVars
<1>3. QED BY <1>2 DEF Connected

LEMMA AppendExtends ==
  ASSUME NEW B, NEW s \in Seq(Seq(B)), NEW e \in Seq(B)
  PROVE  Link!Extends(s, Append(s, e))
<1>1. Len(Append(s, e)) = Len(s) + 1 /\ Len(s) \in 0..Len(s)
  BY AppendProperties
<1>2. SubSeq(Append(s, e), 1, Len(s)) = SubSeq(s, 1, Len(s))
  BY <1>1, FirstOfAppend
<1>3. SubSeq(s, 1, Len(s)) = s
  BY SubSeqFull
<1>4. QED BY <1>1, <1>2, <1>3 DEF Link!Extends

\* In step a packet that is returned is the next one that was sent.
LEMMA ReadPayloadReturns ==
  ASSUME NetInv, inStep, ReadPayload
  PROVE  /\ Len(received) < Len(sent)
         /\ received' = Append(received, sent[Len(received) + 1])
         /\ inStep' = inStep /\ sent' = sent
<1>1. sent' = sent /\ inStep' = inStep /\ received' = Append(received, buffer')
  BY DEF ReadPayload, ReturnPacket
<1>2. QED BY <1>1, PayloadWhole DEF Current

\* Out of step anything may be returned, and the framing stays broken.
LEMMA OutOfStep ==
  ASSUME NetInv, ~ inStep, ReadLengthByte \/ ReadPayload
  PROVE  /\ ~ inStep' /\ sent' = sent
         /\ received' = received \/ received' = Append(received, buffer')
<1>1. CASE ReadLengthByte
  BY <1>1 DEF ReadLengthByte, LengthKnown, ReturnPacket, Abandon
<1>2. CASE ReadPayload
  BY <1>2 DEF ReadPayload, ReturnPacket
<1>3. QED BY <1>1, <1>2

\* A step of the reader on the open link is one of the link, or none.
LEMMA ReadStepLink ==
  ASSUME NetInv, NetInv', ReadStep
  PROVE  [Link!PacketLinkNext]_(Link!linkVars)
<1> USE DEF Link!linkVars, Link!PacketLinkNext, Link!Receive, Link!BreakFraming,
            Link!ReceiveGarbage
<1>1. Connected /\ Connected' /\ inStep \in BOOLEAN /\ inStep' \in BOOLEAN
      /\ Connected \in BOOLEAN /\ Connected' \in BOOLEAN
  BY DEF ReadStep, tlsVars, Connected, NetInv, NetTypeInv, NetTypeOK
<1>2. Connected' = Connected
  BY <1>1
<1>3. /\ received \in Seq(Seq(Bytes)) /\ buffer' \in Seq(Bytes)
      /\ Len(received) \in Nat /\ Len(sent) \in Nat
  BY DEF NetInv, NetTypeInv, NetTypeOK
<1>4. CASE MQTT_network_readPacket \/ ReadHeader
  BY <1>2, <1>4 DEF MQTT_network_readPacket, ReadHeader
<1>5. CASE ReadFails
  <2>1. UNCHANGED <<sent, received>> /\ inStep' = (inStep /\ netPc = "header")
    BY <1>5 DEF ReadFails
  <2>2. CASE inStep' = inStep
    BY <2>1, <2>2, <1>2
  <2>3. CASE inStep' # inStep
    <3>1. inStep /\ inStep' = FALSE
      BY <2>1, <2>3, <1>1
    <3>2. QED BY <3>1, <2>1, <1>1, <1>2
  <2>4. QED BY <2>2, <2>3
<1>6. CASE inStep /\ ReadLengthByte
  <2>1. LengthByteResult /\ Len(received) < Len(sent) /\ sent' = sent
    BY <1>6, ReadLengthByteReader
  <2>2. \/ UNCHANGED <<received, inStep>>
        \/ inStep' = inStep /\ received' = Append(received, sent[Len(received) + 1])
        \/ inStep' = FALSE /\ UNCHANGED received
    BY <2>1 DEF LengthByteResult
  <2>3. QED BY <2>1, <2>2, <1>1, <1>2, <1>6
<1>7. CASE inStep /\ ReadPayload
  <2>1. /\ Len(received) < Len(sent) /\ inStep' = inStep /\ sent' = sent
        /\ received' = Append(received, sent[Len(received) + 1])
    BY <1>7, ReadPayloadReturns
  <2>2. QED BY <2>1, <1>1, <1>2, <1>7
<1>8. CASE ~ inStep /\ (ReadLengthByte \/ ReadPayload)
  <2>1. /\ ~ inStep' /\ sent' = sent
        /\ received' = received \/ received' = Append(received, buffer')
    BY <1>8, OutOfStep
  <2>2. inStep' = inStep
    BY <2>1, <1>1, <1>8
  <2>3. CASE received' = received
    BY <2>1, <2>2, <2>3, <1>2
  <2>4. CASE received' = Append(received, buffer')
    <3>1. Link!Extends(received, received')
      BY <2>4, <1>3, AppendExtends
    <3>2. QED BY <3>1, <2>1, <2>2, <1>1, <1>2, <1>8
  <2>5. QED BY <2>1, <2>3, <2>4
<1>9. QED BY <1>4, <1>5, <1>6, <1>7, <1>8 DEF ReadStep

LEMMA SessionStepLink ==
  ASSUME NetInv, NetInv', [SessionNext]_sessionVars
  PROVE  [Link!PacketLinkNext]_(Link!linkVars)
<1>1. CASE StackStep
  <2>1. pc' = pc /\ UNCHANGED netVars
    BY <1>1 DEF StackStep, StackStarts, LinkStep
  <2>2. QED BY <2>1 DEF Connected, netVars, Link!linkVars
<1>2. CASE ConnectStep
  <2>1. UNCHANGED <<sent, received, inStep>>
    BY <1>2 DEF ConnectStep, netVars
  <2>2. CASE Connected
    <3>1. Connected'
      BY <1>2, <2>2, ReadyStays DEF SessionNext
    <3>2. QED BY <2>1, <2>2, <3>1 DEF Connected, Link!linkVars
  <2>3. CASE ~ Connected /\ Connected'
    BY <2>1, <2>3 DEF Connected, Link!PacketLinkNext, Link!OpenLink
  <2>4. CASE ~ Connected /\ ~ Connected'
    BY <2>1, <2>4 DEF Connected, Link!linkVars
  <2>5. QED BY <2>2, <2>3, <2>4
<1>3. CASE BrokerSends
  <2>1. PICK t \in Types, n \in Lengths : sent' = Append(sent, Packet(t, n))
    BY <1>3 DEF BrokerSends, PeerSends
  <2>2. Packet(t, n) \in Seq(Bytes) /\ sent \in Seq(Seq(Bytes))
    BY PacketType DEF NetInv, NetTypeInv, NetTypeOK
  <2>3. Link!Extends(sent, sent')
    BY <2>1, <2>2, AppendExtends
  <2>4. Connected /\ pc' = pc /\ UNCHANGED <<received, inStep>>
    BY <1>3 DEF BrokerSends, PeerSends, tlsVars
  <2>5. QED BY <2>3, <2>4 DEF Connected, Link!PacketLinkNext, Link!BrokerSends
<1>4. CASE ReadStep
  BY <1>4, ReadStepLink
<1>5. CASE UNCHANGED sessionVars
  BY <1>5 DEF sessionVars, tlsVars, netVars, Connected, Link!linkVars
<1>6. QED BY <1>1, <1>2, <1>3, <1>4, <1>5 DEF SessionNext

\* glue_tls_init, the handshake and MQTT_network_readPacket together are the
\* link that Wan takes for granted: opened once, before anything is read, then
\* the packets of the broker, whole and in order, until a packet is abandoned.
THEOREM SessionImplementsLink == SessionSpec => LinkPromise
<1>1. SessionInit => Link!PacketLinkInit
  BY DEF SessionInit, TlsInit, NetInit, Connected, Link!PacketLinkInit
<1>2. NetInv /\ NetInv' /\ [SessionNext]_sessionVars => [Link!PacketLinkNext]_(Link!linkVars)
  BY SessionStepLink
<1>3. SessionSpec => []NetInv
  BY SessionUsesParts, NetInvariant, PTL
<1>4. QED BY <1>1, <1>2, <1>3, PTL DEF SessionSpec, LinkPromise, Link!PacketLinkSpec

\* What the run of the session checks, in one statement about the session.
THEOREM SessionSafety ==
  SessionSpec =>
    /\ [](TlsTypeOK /\ SocketMatchesResult /\ HandshakeOnConnection /\ GivesUpForAReason)
    /\ [](NetTypeOK /\ FramingKept)
    /\ OnlyTooLargeRejected
  BY SessionUsesParts, TlsTypeCorrect, SocketMatchesResultInvariant, HandshakeOnConnectionInvariant,
     GivesUpForAReasonInvariant, NetTypeCorrect, FramingKeptInvariant,
     OnlyTooLargeRejectedProperty, PTL

=============================================================================
