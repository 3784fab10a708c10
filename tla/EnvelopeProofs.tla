--------------------------- MODULE EnvelopeProofs ---------------------------
(***************************************************************************)
(* Proofs about Envelope for every set of rule files, every kind of record *)
(* and every precision of the floats.                                      *)
(***************************************************************************)
EXTENDS Envelope, SequenceTheorems, FiniteSetTheorems, WellFoundedInduction, TLAPS

-----------------------------------------------------------------------------
(* Powers of two.                                                          *)

\* A set of natural numbers has a least element.
LEMMA Least ==
  ASSUME NEW T, T \subseteq Nat, T # {}
  PROVE  \E n \in T : \A m \in T : n <= m
<1> DEFINE R == {ss \in Nat \X Nat : ss[1] < ss[2]}
<1>1. IsWellFoundedOn(R, Nat)
  BY NatLessThanWellFounded DEF OpToRel
<1>2. PICK x \in T : \A y \in T : ~(<<y, x>> \in R)
  BY <1>1, WFMin
<1>3. ASSUME NEW y \in T PROVE x <= y
  <2>1. ~(y < x)
    BY <1>2
  <2> QED  BY <2>1
<1> QED  BY <1>2, <1>3

\* Induction, as a fact about sets of natural numbers.
LEMMA Induct ==
  ASSUME NEW T, 0 \in T, \A n \in Nat : n \in T => n + 1 \in T
  PROVE  Nat \subseteq T
<1> SUFFICES ASSUME ~(Nat \subseteq T) PROVE FALSE
  OBVIOUS
<1> DEFINE U == Nat \ T
<1>1. U \subseteq Nat /\ U # {}
  OBVIOUS
<1> HIDE DEF U
<1>2. PICK n \in U : \A m \in U : n <= m
  BY <1>1, Least
<1>3. n \in Nat /\ n \notin T /\ n # 0
  BY <1>2 DEF U
<1>4. n - 1 \in Nat /\ n - 1 + 1 = n /\ ~(n <= n - 1)
  BY <1>3
<1>5. n - 1 \in T
  BY <1>2, <1>4 DEF U
<1> QED  BY <1>3, <1>4, <1>5

\* h computes Pow2 up to n.
Approx(n, h) ==
  /\ h \in [0 .. n -> Nat]
  /\ h[0] = 1
  /\ \A i \in 1 .. n : h[i] = 2 * h[i - 1]

\* Pow2 can be computed up to any n ...
LEMMA ApproxExists == \A n \in Nat : \E h : Approx(n, h)
<1> DEFINE T == {n \in Nat : \E h : Approx(n, h)}
<1>1. 0 \in T
  <2>1. Approx(0, [i \in 0 .. 0 |-> 1])
    BY DEF Approx
  <2> QED  BY <2>1
<1>2. ASSUME NEW n \in Nat, n \in T PROVE n + 1 \in T
  <2>1. PICK h : Approx(n, h)
    BY <1>2
  <2> DEFINE g == [i \in 0 .. n + 1 |-> IF i = n + 1 THEN 2 * h[n] ELSE h[i]]
  <2>2. h \in [0 .. n -> Nat] /\ n \in 0 .. n /\ h[n] \in Nat
    BY <2>1 DEF Approx
  <2>3. g \in [0 .. n + 1 -> Nat]
    BY <2>2
  <2>4. g[0] = 1
    BY <2>1 DEF Approx
  <2>5. ASSUME NEW i \in 1 .. n + 1 PROVE g[i] = 2 * g[i - 1]
    <3>1. CASE i = n + 1
      BY <3>1
    <3>2. CASE i # n + 1
      BY <2>1, <3>2 DEF Approx
    <3> QED  BY <3>1, <3>2
  <2>6. Approx(n + 1, g)
    BY <2>3, <2>4, <2>5 DEF Approx
  <2> QED  BY <2>6
<1> HIDE DEF T
<1>3. Nat \subseteq T
  BY <1>1, <1>2, Induct
<1> QED  BY <1>3 DEF T

\* ... in one way only ...
LEMMA ApproxUnique ==
  ASSUME NEW n \in Nat, NEW m \in Nat, NEW h, NEW g, Approx(n, h), Approx(m, g)
  PROVE  \A i \in Nat : i <= n /\ i <= m => h[i] = g[i]
<1> DEFINE T == {i \in Nat : i <= n /\ i <= m => h[i] = g[i]}
<1>1. 0 \in T
  BY DEF Approx
<1>2. ASSUME NEW i \in Nat, i \in T PROVE i + 1 \in T
  <2> SUFFICES ASSUME i + 1 <= n, i + 1 <= m PROVE h[i + 1] = g[i + 1]
    OBVIOUS
  <2>1. h[i] = g[i]
    BY <1>2
  <2>2. i + 1 \in 1 .. n /\ i + 1 \in 1 .. m /\ i + 1 - 1 = i
    OBVIOUS
  <2>3. h[i + 1] = 2 * h[i] /\ g[i + 1] = 2 * g[i]
    BY <2>2 DEF Approx
  <2> QED  BY <2>1, <2>3
<1> HIDE DEF T
<1>3. Nat \subseteq T
  BY <1>1, <1>2, Induct
<1> QED  BY <1>3 DEF T

\* ... so Pow2 is what its recursive definition says.
LEMMA Pow2Rec ==
  /\ Pow2 \in [Nat -> Nat]
  /\ Pow2[0] = 1
  /\ \A n \in Nat : Pow2[n + 1] = 2 * Pow2[n]
<1> DEFINE A(n) == CHOOSE h : Approx(n, h)
           g == [n \in Nat |-> A(n)[n]]
           D(f) == [n \in Nat |-> IF n = 0 THEN 1 ELSE 2 * f[n - 1]]
<1>1. \A n \in Nat : Approx(n, A(n))
  BY ApproxExists
<1> HIDE DEF A
<1>2. g \in [Nat -> Nat]
  BY <1>1 DEF Approx
<1>3. g[0] = 1
  BY <1>1 DEF Approx
<1>4. ASSUME NEW n \in Nat PROVE g[n + 1] = 2 * g[n]
  <2>1. A(n + 1)[n + 1] = 2 * A(n + 1)[n]
    <3>1. Approx(n + 1, A(n + 1)) /\ n + 1 \in 1 .. n + 1 /\ n + 1 - 1 = n
      BY <1>1
    <3> QED  BY <3>1 DEF Approx
  <2>2. A(n + 1)[n] = A(n)[n]
    <3>1. Approx(n + 1, A(n + 1)) /\ Approx(n, A(n)) /\ n <= n /\ n <= n + 1 /\ n + 1 \in Nat
      BY <1>1
    <3> QED  BY <3>1, ApproxUnique
  <2> QED  BY <2>1, <2>2
<1>5. g = D(g)
  <2>1. ASSUME NEW n \in Nat PROVE g[n] = D(g)[n]
    <3>1. CASE n = 0
      BY <1>3, <3>1
    <3>2. CASE n # 0
      <4>1. n - 1 \in Nat /\ n - 1 + 1 = n
        BY <3>2
      <4>2. g[n - 1 + 1] = 2 * g[n - 1]
        BY <1>4, <4>1
      <4> QED  BY <3>2, <4>1, <4>2
    <3> QED  BY <3>1, <3>2
  <2> QED  BY <2>1
<1> HIDE DEF g
<1>6. Pow2 = CHOOSE f : f = D(f)
  BY DEF Pow2
<1>7. Pow2 = D(Pow2)
  BY <1>5, <1>6
<1> HIDE DEF D
<1> DEFINE T == {n \in Nat : Pow2[n] \in Nat}
<1>8. \A n \in Nat : Pow2[n] = IF n = 0 THEN 1 ELSE 2 * Pow2[n - 1]
  BY <1>7 DEF D
<1>9. Pow2[0] = 1
  BY <1>8
<1>10. \A n \in Nat : Pow2[n + 1] = 2 * Pow2[n]
  <2> SUFFICES ASSUME NEW n \in Nat PROVE Pow2[n + 1] = 2 * Pow2[n]
    OBVIOUS
  <2>1. n + 1 \in Nat /\ n + 1 # 0 /\ n + 1 - 1 = n
    OBVIOUS
  <2> QED  BY <1>8, <2>1
<1>11. 0 \in T /\ \A n \in Nat : n \in T => n + 1 \in T
  BY <1>9, <1>10
<1> HIDE DEF T
<1>12. Nat \subseteq T
  BY <1>11, Induct
<1>13. DOMAIN Pow2 = Nat /\ Pow2 = [n \in Nat |-> Pow2[n]]
  BY <1>7 DEF D
<1>14. Pow2 \in [Nat -> Nat]
  BY <1>12, <1>13 DEF T
<1> QED  BY <1>9, <1>10, <1>14

\* Powers of two are positive and grow with their exponent.
LEMMA Pow2Grows ==
  /\ \A n \in Nat : Pow2[n] \in Nat \ {0}
  /\ \A n, m \in Nat : n <= m => Pow2[n] <= Pow2[m]
<1> DEFINE T == {n \in Nat : Pow2[n] \in Nat \ {0}}
<1>1. 0 \in T
  BY Pow2Rec
<1>2. \A n \in Nat : n \in T => n + 1 \in T
  <2> SUFFICES ASSUME NEW n \in Nat, n \in T PROVE n + 1 \in T
    OBVIOUS
  <2>1. Pow2[n] \in Nat \ {0} /\ Pow2[n + 1] = 2 * Pow2[n]
    BY Pow2Rec
  <2> QED  BY <2>1
<1> HIDE DEF T
<1>3. \A n \in Nat : Pow2[n] \in Nat \ {0}
  BY <1>1, <1>2, Induct DEF T
<1>4. ASSUME NEW n \in Nat, NEW m \in Nat, n <= m PROVE Pow2[n] <= Pow2[m]
  <2> DEFINE U == {d \in Nat : Pow2[n] <= Pow2[n + d]}
  <2>1. 0 \in U
    BY <1>3
  <2>2. ASSUME NEW d \in Nat, d \in U PROVE d + 1 \in U
    <3>1. Pow2[n + d] \in Nat /\ Pow2[n] \in Nat /\ Pow2[n] <= Pow2[n + d]
      BY <1>3, <2>2
    <3>2. Pow2[n + d + 1] = 2 * Pow2[n + d] /\ n + d + 1 = n + (d + 1)
      BY Pow2Rec
    <3> QED  BY <3>1, <3>2
  <2> HIDE DEF U
  <2>3. m - n \in U
    BY <1>4, <2>1, <2>2, Induct
  <2> QED  BY <1>4, <2>3 DEF U
<1> QED  BY <1>3, <1>4

\* Powers multiply as their exponents add.
LEMMA Pow2Product == \A n, m \in Nat : Pow2[n + m] = Pow2[n] * Pow2[m]
<1> SUFFICES ASSUME NEW n \in Nat PROVE \A m \in Nat : Pow2[n + m] = Pow2[n] * Pow2[m]
  OBVIOUS
<1> DEFINE T == {m \in Nat : Pow2[n + m] = Pow2[n] * Pow2[m]}
<1>1. 0 \in T
  BY Pow2Rec
<1>2. ASSUME NEW m \in Nat, m \in T PROVE m + 1 \in T
  <2> DEFINE x == Pow2[n]
             y == Pow2[m]
  <2>1. x \in Nat /\ y \in Nat /\ Pow2[n + m] = x * y
    BY <1>2, Pow2Rec
  <2>2. Pow2[n + (m + 1)] = 2 * Pow2[n + m] /\ Pow2[m + 1] = 2 * y
    <3>1. n + (m + 1) = (n + m) + 1 /\ n + m \in Nat
      OBVIOUS
    <3> QED  BY <3>1, Pow2Rec
  <2> HIDE DEF x, y
  <2>3. 2 * (x * y) = x * (2 * y)
    BY <2>1
  <2> QED  BY <2>1, <2>2, <2>3 DEF x
<1> HIDE DEF T
<1> QED  BY <1>1, <1>2, Induct DEF T

-----------------------------------------------------------------------------
(* Rounding.                                                               *)

\* Division with remainder.
LEMMA Quotient ==
  ASSUME NEW n \in Nat, NEW q \in Nat \ {0}
  PROVE  /\ n \div q \in Nat
         /\ (n \div q) * q <= n /\ n < (n \div q) * q + q
OBVIOUS

\* Nearest is one of the two multiples around n.
LEMMA NearestType ==
  ASSUME NEW n \in Nat, NEW q \in Nat \ {0}
  PROVE  \/ Nearest(n, q) = (n \div q) * q
         \/ Nearest(n, q) = (n \div q) * q + q
BY DEF Nearest

\* Rounding to multiples of q keeps the order.
LEMMA NearestMonotone ==
  ASSUME NEW q \in Nat \ {0}, NEW n \in Nat, NEW m \in Nat, n <= m
  PROVE  Nearest(n, q) <= Nearest(m, q)
<1> DEFINE a == n \div q
           b == m \div q
<1>1. a \in Nat /\ b \in Nat
      /\ a * q <= n /\ n < a * q + q /\ b * q <= m /\ m < b * q + q
  BY Quotient
<1>2. CASE a = b
  <2>1. a * q \in Nat
    BY <1>1
  <2> QED  BY <1>1, <1>2, <2>1 DEF Nearest
<1>3. CASE a < b
  <2>1. a * q + q <= b * q /\ a * q \in Nat /\ b * q \in Nat
    <3> HIDE DEF a, b
    <3>1. a + 1 <= b
      BY <1>1, <1>3
    <3>2. (a + 1) * q <= b * q
      BY <1>1, <3>1
    <3>3. (a + 1) * q = a * q + q
      BY <1>1
    <3> QED  BY <1>1, <3>2, <3>3
  <2>2. Nearest(n, q) <= a * q + q /\ b * q <= Nearest(m, q)
    <3>1. Nearest(n, q) = a * q \/ Nearest(n, q) = a * q + q
      BY NearestType
    <3>2. Nearest(m, q) = b * q \/ Nearest(m, q) = b * q + q
      BY NearestType
    <3> HIDE DEF a, b
    <3> QED  BY <2>1, <3>1, <3>2
  <2>3. Nearest(n, q) \in Nat /\ Nearest(m, q) \in Nat
    <3>1. Nearest(n, q) = a * q \/ Nearest(n, q) = a * q + q
      BY NearestType
    <3>2. Nearest(m, q) = b * q \/ Nearest(m, q) = b * q + q
      BY NearestType
    <3> HIDE DEF a, b
    <3> QED  BY <2>1, <3>1, <3>2
  <2> HIDE DEF a, b
  <2> QED  BY <2>1, <2>2, <2>3
<1>4. CASE b < a
  <2> HIDE DEF a, b
  <2>1. b + 1 <= a
    BY <1>1, <1>4
  <2>2. (b + 1) * q <= a * q /\ (b + 1) * q = b * q + q
    BY <1>1, <2>1
  <2>3. a * q \in Nat /\ b * q \in Nat
    BY <1>1
  <2> QED  BY <1>1, <2>2, <2>3
<1> QED  BY <1>1, <1>2, <1>3, <1>4

\* A multiple of q is its own nearest multiple.
LEMMA NearestExact ==
  ASSUME NEW q \in Nat \ {0}, NEW c \in Nat
  PROVE  Nearest(c * q, q) = c * q
<1> DEFINE n == c * q
           a == n \div q
<1>0. n \in Nat
  OBVIOUS
<1>1. a \in Nat /\ a * q <= n /\ n < a * q + q
  BY <1>0, Quotient
<1>2. a = c
  <2> HIDE DEF a
  <2>1. a * q <= c * q /\ c * q < a * q + q
    BY <1>1
  <2>2. ~(a < c)
    <3> SUFFICES ASSUME a + 1 <= c PROVE FALSE
      BY <1>1
    <3>1. (a + 1) * q <= c * q /\ (a + 1) * q = a * q + q
      BY <1>1
    <3> QED  BY <1>1, <2>1, <3>1
  <2>3. ~(c < a)
    <3> SUFFICES ASSUME c + 1 <= a PROVE FALSE
      BY <1>1
    <3>1. (c + 1) * q <= a * q /\ (c + 1) * q = c * q + q
      BY <1>1
    <3> QED  BY <1>1, <2>1, <3>1
  <2> QED  BY <1>1, <2>2, <2>3
<1>3. n - a * q = 0
  BY <1>0, <1>2
<1> HIDE DEF n
<1> QED  BY <1>0, <1>2, <1>3 DEF Nearest, n

\* The numbers of i bits more than b are rounded to multiples of 2^i ...
LEMMA RoundToBinade ==
  ASSUME NEW b \in Nat \ {0}, NEW i \in 1 .. IntBits,
         NEW n \in Pow2[b + i - 1] .. Pow2[b + i] - 1
  PROVE  RoundTo(n, b) = Nearest(n, Pow2[i])
<1> DEFINE In(j) == n \in Pow2[b + j - 1] .. Pow2[b + j] - 1
           e == CHOOSE j \in 1 .. IntBits : In(j)
<1>0. IntBits \in Nat
  BY EnvelopeAssumption
<1>1. e \in 1 .. IntBits /\ In(e)
  OBVIOUS
<1>2. /\ Pow2[b] \in Nat /\ Pow2[b + i - 1] \in Nat /\ Pow2[b + i] \in Nat
      /\ Pow2[b] <= Pow2[b + i - 1]
  <2>1. b + i - 1 \in Nat /\ b <= b + i - 1 /\ b + i \in Nat /\ b \in Nat
    BY <1>0
  <2> QED  BY <2>1, Pow2Grows
<1>3. ~(n < Pow2[b])
  BY <1>2
<1>4. e = i
  <2> HIDE DEF e
  <2>1. /\ b + e - 1 \in Nat /\ b + e \in Nat /\ b + i - 1 \in Nat /\ b + i \in Nat
    BY <1>0, <1>1
  <2>2. /\ Pow2[b + e - 1] \in Nat /\ Pow2[b + e] \in Nat
    BY <2>1, Pow2Grows
  <2>3. ~(e < i)
    <3> SUFFICES ASSUME e < i PROVE FALSE
      OBVIOUS
    <3>1. b + e <= b + i - 1
      BY <1>0, <1>1
    <3>2. Pow2[b + e] <= Pow2[b + i - 1]
      BY <2>1, <3>1, Pow2Grows
    <3> QED  BY <1>1, <1>2, <2>2, <3>2
  <2>4. ~(i < e)
    <3> SUFFICES ASSUME i < e PROVE FALSE
      OBVIOUS
    <3>1. b + i <= b + e - 1
      BY <1>0, <1>1
    <3>2. Pow2[b + i] <= Pow2[b + e - 1]
      BY <2>1, <3>1, Pow2Grows
    <3> QED  BY <1>1, <1>2, <2>2, <3>2
  <2> QED  BY <1>0, <1>1, <2>3, <2>4
<1> QED  BY <1>3, <1>4 DEF RoundTo

\* ... and stay between the powers of two around them.
LEMMA RoundToStays ==
  ASSUME NEW b \in Nat \ {0}, NEW i \in 1 .. IntBits,
         NEW n \in Pow2[b + i - 1] .. Pow2[b + i] - 1
  PROVE  RoundTo(n, b) \in Pow2[b + i - 1] .. Pow2[b + i]
<1> DEFINE q == Pow2[i]
           c == Pow2[b - 1]
           d == Pow2[b]
<1>0. i \in Nat /\ b - 1 \in Nat /\ b \in Nat
  BY EnvelopeAssumption
<1>1. q \in Nat \ {0} /\ c \in Nat /\ d \in Nat
  BY <1>0, Pow2Grows
<1>2. Pow2[b + i - 1] = c * q /\ Pow2[b + i] = d * q
  <2>1. b + i - 1 = (b - 1) + i
    BY <1>0
  <2> QED  BY <1>0, <2>1, Pow2Product
<1>3. RoundTo(n, b) = Nearest(n, q)
  BY RoundToBinade
<1> HIDE DEF q, c, d
<1>4. c * q \in Nat /\ d * q \in Nat
  BY <1>1
<1>5. n \in Nat /\ c * q <= n /\ n <= d * q
  BY <1>2, <1>4
<1>6. Nearest(c * q, q) = c * q /\ Nearest(d * q, q) = d * q
  BY <1>1, NearestExact
<1>7. Nearest(c * q, q) <= Nearest(n, q) /\ Nearest(n, q) <= Nearest(d * q, q)
  BY <1>1, <1>4, <1>5, NearestMonotone
<1>8. Nearest(n, q) \in Nat
  <2>1. n \div q \in Nat
    BY <1>1, <1>5, Quotient
  <2>2. (n \div q) * q \in Nat
    BY <1>1, <2>1
  <2>3. \/ Nearest(n, q) = (n \div q) * q
        \/ Nearest(n, q) = (n \div q) * q + q
    BY <1>1, <1>5, NearestType
  <2> QED  BY <1>1, <2>2, <2>3
<1> QED  BY <1>2, <1>3, <1>4, <1>6, <1>7, <1>8

\* A number with more than b bits, but not too many, has i bits more for some i.
LEMMA BinadeExists ==
  ASSUME NEW b \in Nat \ {0}, NEW n \in Nat, Pow2[b] <= n, n < Pow2[b + IntBits]
  PROVE  \E i \in 1 .. IntBits : n \in Pow2[b + i - 1] .. Pow2[b + i] - 1
<1> DEFINE T == {i \in Nat : n < Pow2[b + i]}
<1>0. IntBits \in Nat
  BY EnvelopeAssumption
<1>1. T \subseteq Nat /\ IntBits \in T
  BY <1>0
<1> HIDE DEF T
<1>2. PICK i \in T : \A j \in T : i <= j
  BY <1>1, Least
<1>3. i \in Nat /\ n < Pow2[b + i] /\ i <= IntBits
  BY <1>1, <1>2 DEF T
<1>4. i # 0
  <2> SUFFICES ASSUME i = 0 PROVE FALSE
    OBVIOUS
  <2>1. b + i = b /\ Pow2[b] \in Nat
    BY Pow2Grows
  <2> QED  BY <1>3, <2>1
<1>5. i - 1 \in Nat /\ ~(i <= i - 1) /\ b + (i - 1) = b + i - 1
  BY <1>3, <1>4
<1>6. ~(n < Pow2[b + i - 1])
  BY <1>2, <1>5 DEF T
<1>7. Pow2[b + i - 1] \in Nat /\ Pow2[b + i] \in Nat
  <2>1. b + i - 1 \in Nat /\ b + i \in Nat
    BY <1>3, <1>5
  <2> QED  BY <2>1, Pow2Grows
<1>8. i \in 1 .. IntBits /\ n \in Pow2[b + i - 1] .. Pow2[b + i] - 1
  BY <1>0, <1>3, <1>4, <1>6, <1>7
<1> QED  BY <1>8

\* Rounding keeps the order of any two numbers.
LEMMA RoundToMonotone ==
  ASSUME NEW b \in Nat \ {0}, NEW n \in Nat, NEW m \in Nat, n <= m, m < Pow2[b + IntBits]
  PROVE  RoundTo(n, b) \in Nat /\ RoundTo(m, b) \in Nat /\ RoundTo(n, b) <= RoundTo(m, b)
<1>0. IntBits \in Nat /\ Pow2[b] \in Nat /\ Pow2[b + IntBits] \in Nat
  <2>1. IntBits \in Nat
    BY EnvelopeAssumption
  <2>2. b \in Nat /\ b + IntBits \in Nat
    BY <2>1
  <2> QED  BY <2>1, <2>2, Pow2Grows
<1>1. \A k \in Nat : k < Pow2[b] => RoundTo(k, b) = k
  BY DEF RoundTo
<1>2. CASE m < Pow2[b]
  <2>1. n < Pow2[b]
    BY <1>0, <1>2
  <2> QED  BY <1>1, <1>2, <2>1
<1>3. CASE ~(m < Pow2[b])
  <2>1. PICK j \in 1 .. IntBits : m \in Pow2[b + j - 1] .. Pow2[b + j] - 1
    <3>1. Pow2[b] <= m
      BY <1>0, <1>3
    <3> QED  BY <3>1, BinadeExists
  <2>2. b + j - 1 \in Nat /\ b + j \in Nat /\ b \in Nat /\ b <= b + j - 1 /\ j \in Nat
    BY <1>0
  <2>3. Pow2[b + j - 1] \in Nat /\ Pow2[b + j] \in Nat /\ Pow2[b] <= Pow2[b + j - 1]
    BY <2>2, Pow2Grows
  <2>4. RoundTo(m, b) \in Pow2[b + j - 1] .. Pow2[b + j]
    BY <2>1, RoundToStays
  <2>5. RoundTo(m, b) \in Nat /\ Pow2[b + j - 1] <= RoundTo(m, b)
    BY <2>3, <2>4
  <2>6. CASE n < Pow2[b]
    <3>1. RoundTo(n, b) = n
      BY <1>1, <2>6
    <3> QED  BY <1>0, <2>3, <2>5, <2>6, <3>1
  <2>7. CASE ~(n < Pow2[b])
    <3>1. PICK i \in 1 .. IntBits : n \in Pow2[b + i - 1] .. Pow2[b + i] - 1
      <4>1. Pow2[b] <= n /\ n < Pow2[b + IntBits]
        BY <1>0, <2>7
      <4> QED  BY <4>1, BinadeExists
    <3>2. b + i - 1 \in Nat /\ b + i \in Nat /\ i \in Nat
      BY <1>0
    <3>3. Pow2[b + i - 1] \in Nat /\ Pow2[b + i] \in Nat
      BY <3>2, Pow2Grows
    <3>4. RoundTo(n, b) \in Pow2[b + i - 1] .. Pow2[b + i]
      BY <3>1, RoundToStays
    <3>5. RoundTo(n, b) \in Nat /\ RoundTo(n, b) <= Pow2[b + i]
      BY <3>3, <3>4
    <3>6. CASE i = j
      <4>1. RoundTo(n, b) = Nearest(n, Pow2[j]) /\ RoundTo(m, b) = Nearest(m, Pow2[j])
        BY <2>1, <3>1, <3>6, RoundToBinade
      <4>2. Pow2[j] \in Nat \ {0}
        BY <2>2, Pow2Grows
      <4>3. Nearest(n, Pow2[j]) <= Nearest(m, Pow2[j])
        BY <4>2, NearestMonotone
      <4> QED  BY <2>5, <3>5, <4>1, <4>3
    <3>7. CASE i < j
      <4>1. b + i <= b + j - 1
        BY <2>2, <3>2, <3>7
      <4>2. Pow2[b + i] <= Pow2[b + j - 1]
        BY <2>2, <3>2, <4>1, Pow2Grows
      <4> QED  BY <2>3, <2>5, <3>3, <3>5, <4>2
    <3>8. CASE j < i
      <4>1. b + j <= b + i - 1
        BY <2>2, <3>2, <3>8
      <4>2. Pow2[b + j] <= Pow2[b + i - 1]
        BY <2>2, <3>2, <4>1, Pow2Grows
      <4> QED  BY <2>1, <2>3, <3>1, <3>3, <4>2
    <3> QED  BY <2>2, <3>2, <3>6, <3>7, <3>8
  <2> QED  BY <2>6, <2>7
<1> QED  BY <1>2, <1>3

\* Up to 2^b nothing is rounded.
LEMMA RoundToExact ==
  ASSUME NEW b \in Nat \ {0}, NEW n \in Nat, n <= Pow2[b]
  PROVE  RoundTo(n, b) = n
<1>1. CASE n < Pow2[b]
  BY <1>1 DEF RoundTo
<1>2. CASE n = Pow2[b]
  <2>0. IntBits \in Nat \ {0}
    BY EnvelopeAssumption
  <2>1. 1 \in 1 .. IntBits /\ b + 1 - 1 = b /\ b - 1 \in Nat /\ b - 1 + 1 = b /\ b \in Nat
    BY <2>0
  <2>2. /\ Pow2[1] = 2 /\ Pow2[b] = 2 * Pow2[b - 1] /\ Pow2[b + 1] = 2 * Pow2[b]
        /\ Pow2[b - 1] \in Nat \ {0}
    <3>1. Pow2[0 + 1] = 2 * Pow2[0] /\ Pow2[0] = 1 /\ 0 + 1 = 1
      BY Pow2Rec
    <3>2. Pow2[b - 1 + 1] = 2 * Pow2[b - 1] /\ Pow2[b + 1] = 2 * Pow2[b]
      BY <2>1, Pow2Rec
    <3> QED  BY <2>1, <3>1, <3>2, Pow2Grows
  <2>3. n \in Pow2[b + 1 - 1] .. Pow2[b + 1] - 1
    BY <1>2, <2>1, <2>2
  <2>4. RoundTo(n, b) = Nearest(n, Pow2[1])
    BY <2>1, <2>3, RoundToBinade
  <2>5. n = Pow2[b - 1] * 2 /\ Pow2[1] = 2
    BY <1>2, <2>2
  <2>6. Nearest(Pow2[b - 1] * 2, 2) = Pow2[b - 1] * 2
    BY <2>2, NearestExact
  <2> QED  BY <2>4, <2>5, <2>6
<1> QED
  <2>1. Pow2[b] \in Nat
    BY Pow2Grows
  <2> QED  BY <1>1, <1>2, <2>1

\* No number is rounded past a power of two.
LEMMA RoundToSide ==
  ASSUME NEW b \in Nat \ {0}, NEW n \in Nat, n < Pow2[b + IntBits], NEW c \in Nat
  PROVE  /\ n < Pow2[c] => RoundTo(n, b) <= Pow2[c]
         /\ Pow2[c] <= n => Pow2[c] <= RoundTo(n, b)
<1>0. IntBits \in Nat /\ Pow2[b] \in Nat /\ Pow2[c] \in Nat
  BY EnvelopeAssumption, Pow2Grows
<1>1. CASE n < Pow2[b]
  <2>1. RoundTo(n, b) = n
    BY <1>1 DEF RoundTo
  <2> QED  BY <1>0, <2>1
<1>2. CASE ~(n < Pow2[b])
  <2>1. PICK i \in 1 .. IntBits : n \in Pow2[b + i - 1] .. Pow2[b + i] - 1
    <3>1. Pow2[b] <= n
      BY <1>0, <1>2
    <3> QED  BY <3>1, BinadeExists
  <2>2. b + i - 1 \in Nat /\ b + i \in Nat
    BY <1>0
  <2>3. Pow2[b + i - 1] \in Nat /\ Pow2[b + i] \in Nat
    BY <2>2, Pow2Grows
  <2>4. RoundTo(n, b) \in Pow2[b + i - 1] .. Pow2[b + i]
    BY <2>1, RoundToStays
  <2>5. CASE c <= b + i - 1
    <3>1. Pow2[c] <= Pow2[b + i - 1]
      BY <2>2, <2>5, Pow2Grows
    <3> QED  BY <1>0, <2>1, <2>3, <2>4, <3>1
  <2>6. CASE b + i <= c
    <3>1. Pow2[b + i] <= Pow2[c]
      BY <2>2, <2>6, Pow2Grows
    <3> QED  BY <1>0, <2>1, <2>3, <2>4, <3>1
  <2> QED  BY <2>2, <2>5, <2>6
<1> QED  BY <1>1, <1>2

-----------------------------------------------------------------------------
(* The inductive invariant.                                                *)

\* ApplyJSON under the rules R, as a relation: w is what v may become.
RulesIn(R, s, t) == {r \in R : r.schema = s /\ r.table = t}

LookupTail(R, tail) ==
  IF RulesIn(R, NoSchema, tail) # {} THEN RulesIn(R, NoSchema, tail)
  ELSE {r \in R : r.table = tail}

Lookup(R, v) ==
  IF v.table # "" /\ v.schema # NoSchema /\ RulesIn(R, v.schema, v.table) # {}
  THEN RulesIn(R, v.schema, v.table)
  ELSE IF v.table # "" /\ RulesIn(R, NoSchema, v.table) # {}
  THEN RulesIn(R, NoSchema, v.table)
  ELSE LookupTail(R, v.tail)

Mapped(R, v) == v.value = "envelope" /\ Lookup(R, v) # {}

Maps(R, v, w) ==
  IF Mapped(R, v)
  THEN \E r \in Lookup(R, v) : \E image \in renameKeys(r.fields) : w = Rewritten(v, image)
  ELSE w = v

\* What Load accepts.
Loaded(R) ==
  /\ IsFiniteSet(R)
  /\ \A f \in R : f.table # ""
  /\ \A f, g \in R : f.schema = g.schema /\ f.table = g.table => f = g

IsPair == \E s \in Shapes, l, n \in Lsns : l < n /\ recs = <<RecordOf(s, l), RecordOf(s, n)>>

\* An entry of seen is an event of what its record may become under its rules.
Explained(x) ==
  /\ x.rec \in {1, 2}
  /\ Loaded(x.rules)
  /\ \E w : Maps(x.rules, recs[x.rec], w) /\ x.event = Decode(w)

EnvelopeInv ==
  /\ files \in FileSets
  /\ Loaded(rules)
  /\ IsPair
  /\ \E S : seen \in Seq(S)
  /\ \A a \in DOMAIN seen : Explained(seen[a])

\* ApplyJSON does what Maps says, or fails.
LEMMA ApplyJSONMaps ==
  ASSUME NEW v, NEW w \in ApplyJSON(v)
  PROVE  Maps(rules, v, w)
<1>1. \A s, t : RulesFor(s, t) = RulesIn(rules, s, t)
  BY DEF RulesFor, RulesIn
<1>2. \A t : lookupByTopicTail(t) = LookupTail(rules, t)
  BY <1>1 DEF lookupByTopicTail, LookupTail
<1>3. lookupForPayload(v) = Lookup(rules, v)
  BY <1>1, <1>2 DEF lookupForPayload, Lookup
<1>4. CASE v.value = "envelope" /\ lookupForPayload(v) # {}
  <2>1. ApplyJSON(v) = UNION {{Rewritten(v, image) : image \in renameKeys(r.fields)} :
                                r \in lookupForPayload(v)}
    BY <1>4 DEF ApplyJSON
  <2>2. PICK r \in lookupForPayload(v) : \E image \in renameKeys(r.fields) : w = Rewritten(v, image)
    BY <2>1
  <2> QED  BY <1>3, <1>4, <2>2 DEF Maps, Mapped
<1>5. CASE ~(v.value = "envelope" /\ lookupForPayload(v) # {})
  <2>1. w = v
    BY <1>5 DEF ApplyJSON
  <2> QED  BY <1>3, <1>5, <2>1 DEF Maps, Mapped
<1> QED  BY <1>4, <1>5

\* The rules Load leaves behind have one rule for a source.
LEMMA LoadLoads ==
  ASSUME EnvelopeInv, Load
  PROVE  Loaded(rules')
<1>1. CASE LoadFails
  <2>1. rules' = {} /\ IsFiniteSet({})
    BY <1>1, FS_EmptySet DEF Load
  <2> QED  BY <2>1 DEF Loaded
<1>2. CASE ~LoadFails
  <2>1. rules' = RuleFiles /\ RuleFiles \subseteq files
    BY <1>2 DEF Load, RuleFiles
  <2>2. IsFiniteSet(files)
    BY EnvelopeAssumption DEF EnvelopeInv
  <2>3. IsFiniteSet(RuleFiles)
    BY <2>1, <2>2, FS_Subset
  <2>4. /\ \A f \in RuleFiles : f.table # ""
        /\ \A f, g \in RuleFiles : f.schema = g.schema /\ f.table = g.table => f = g
    BY <1>2 DEF LoadFails
  <2> QED  BY <2>1, <2>3, <2>4 DEF Loaded
<1> QED  BY <1>1, <1>2

\* Every step keeps the invariant.
LEMMA EnvelopeStep == EnvelopeInv /\ [Next]_vars => EnvelopeInv'
<1> SUFFICES ASSUME EnvelopeInv, [Next]_vars PROVE EnvelopeInv'
  OBVIOUS
<1>0. ASSUME UNCHANGED <<recs, seen>>
      PROVE  /\ IsPair' /\ (\E S : seen \in Seq(S))'
             /\ (\A a \in DOMAIN seen : Explained(seen[a]))'
  BY <1>0 DEF EnvelopeInv, IsPair, Explained
<1>1. CASE Load
  <2>1. UNCHANGED <<files, recs, seen>>
    BY <1>1 DEF Load
  <2> QED  BY <1>0, <1>1, <2>1, LoadLoads DEF EnvelopeInv
<1>2. ASSUME NEW F \in FileSets, Redeploy(F) PROVE EnvelopeInv'
  <2>1. UNCHANGED <<recs, seen>> /\ files' = F /\ rules' = {}
    BY <1>2 DEF Redeploy
  <2>2. Loaded(rules')
    BY <2>1, FS_EmptySet DEF Loaded
  <2> QED  BY <1>0, <2>1, <2>2 DEF EnvelopeInv
<1>3. ASSUME NEW i \in {1, 2}, Deliver(i) PROVE EnvelopeInv'
  <2>1. UNCHANGED <<files, rules, recs>>
    BY <1>3 DEF Deliver
  <2>2. PICK v \in ApplyJSON(recs[i]) :
          seen' = Append(seen, [rec |-> i, rules |-> rules, event |-> Decode(v)])
    BY <1>3 DEF Deliver
  <2> DEFINE e == [rec |-> i, rules |-> rules, event |-> Decode(v)]
  <2>3. Explained(e)
    BY ApplyJSONMaps DEF Explained, EnvelopeInv
  <2>4. PICK S : seen \in Seq(S)
    BY DEF EnvelopeInv
  <2> HIDE DEF e
  <2>5. seen \in Seq(S \cup {e}) /\ e \in S \cup {e}
    BY <2>4
  <2>6. seen' = Append(seen, e)
    BY <2>2 DEF e
  <2>7. /\ seen' \in Seq(S \cup {e})
        /\ \A a \in DOMAIN seen' : seen'[a] = e \/ (a \in DOMAIN seen /\ seen'[a] = seen[a])
    BY <2>5, <2>6, AppendProperties, LenProperties
  <2>8. \A a \in DOMAIN seen' : Explained(seen'[a])
    BY <2>3, <2>7 DEF EnvelopeInv
  <2> QED  BY <2>1, <2>7, <2>8 DEF EnvelopeInv, IsPair, Explained
<1>4. CASE UNCHANGED vars
  BY <1>0, <1>4 DEF vars, EnvelopeInv
<1> QED  BY <1>1, <1>2, <1>3, <1>4 DEF Next

\* The invariant holds of every behaviour.
LEMMA Invariance == Spec => []EnvelopeInv
<1>1. Init => EnvelopeInv
  <2> SUFFICES ASSUME Init PROVE EnvelopeInv
    OBVIOUS
  <2>1. Loaded(rules)
    BY FS_EmptySet DEF Init, Loaded
  <2>2. seen = <<>> /\ seen \in Seq({}) /\ DOMAIN seen = {}
    BY DEF Init
  <2>3. IsPair /\ files \in FileSets
    BY DEF Init, IsPair
  <2> QED  BY <2>1, <2>2, <2>3 DEF EnvelopeInv
<1> QED  BY <1>1, EnvelopeStep, PTL DEF Spec

-----------------------------------------------------------------------------
(* What the invariant gives.                                               *)

\* An LSN is a number that RoundTo can round.
LEMMA LsnFits ==
  ASSUME NEW n \in Lsns
  PROVE  /\ n \in Nat /\ n < Pow2[Mantissa + IntBits]
         /\ Mantissa \in Nat \ {0} /\ IntBits \in Nat
<1>1. Mantissa \in Nat \ {0} /\ IntBits \in Nat
  BY EnvelopeAssumption
<1>2. IntBits + 1 \in Nat /\ Mantissa + IntBits \in Nat /\ IntBits + 1 <= Mantissa + IntBits
  BY <1>1
<1>3. /\ Pow2[IntBits + 1] \in Nat /\ Pow2[Mantissa + IntBits] \in Nat
      /\ Pow2[IntBits + 1] <= Pow2[Mantissa + IntBits]
  BY <1>2, Pow2Grows
<1>4. n \in 0 .. Pow2[IntBits + 1] - 1
  BY EnvelopeAssumption
<1> QED  BY <1>1, <1>3, <1>4

\* A record the mapper touches loses nothing but digits and field names.
LEMMA MappedRecord ==
  ASSUME NEW s, NEW n, NEW R, NEW w, Maps(R, RecordOf(s, n), w)
  PROVE  /\ w.value = s.value /\ w.hasLsn = s.hasLsn /\ w.pk = s.pk
         /\ w.lsn = IF Mapped(R, RecordOf(s, n)) THEN ThroughFloat64(n) ELSE n
<1> DEFINE v == RecordOf(s, n)
<1>1. v.value = s.value /\ v.hasLsn = s.hasLsn /\ v.pk = s.pk /\ v.lsn = n
  BY DEF RecordOf
<1>2. CASE Mapped(R, v)
  <2>1. PICK image : w = [v EXCEPT !.lsn = ThroughFloat64(v.lsn), !.image = image]
    BY <1>2 DEF Maps, Rewritten
  <2>2. /\ w.value = v.value /\ w.hasLsn = v.hasLsn /\ w.pk = v.pk
        /\ w.lsn = ThroughFloat64(v.lsn)
    BY <2>1 DEF RecordOf
  <2> QED  BY <1>1, <1>2, <2>2
<1>3. CASE ~Mapped(R, v)
  <2>1. w = v
    BY <1>3 DEF Maps
  <2> QED  BY <1>1, <1>3, <2>1
<1> QED  BY <1>2, <1>3

\* The class of a record before and after it was mapped.
LEMMA ClassKept ==
  ASSUME NEW s, NEW n \in Lsns, NEW R, NEW w, Maps(R, RecordOf(s, n), w)
  PROVE  \/ Decode(w).class = Decode(RecordOf(s, n)).class
         \/ ThroughFloat64(n) = Pow2[IntBits]
<1> DEFINE v == RecordOf(s, n)
           f == ThroughFloat64(n)
<1>1. v.value = s.value /\ v.hasLsn = s.hasLsn /\ v.pk = s.pk /\ v.lsn = n
  BY DEF RecordOf
<1>2. /\ w.value = s.value /\ w.hasLsn = s.hasLsn /\ w.pk = s.pk
      /\ w.lsn = f \/ w.lsn = n
  BY MappedRecord
<1>3. /\ n < Pow2[IntBits] => f <= Pow2[IntBits]
      /\ Pow2[IntBits] <= n => Pow2[IntBits] <= f
  BY LsnFits, RoundToSide DEF ThroughFloat64
<1>4. n \in Nat /\ f \in Nat /\ Pow2[IntBits] \in Nat
  BY LsnFits, RoundToMonotone, Pow2Grows DEF ThroughFloat64
<1> HIDE DEF v, f
<1>5. f = Pow2[IntBits] \/ (w.lsn < Pow2[IntBits] <=> v.lsn < Pow2[IntBits])
  BY <1>1, <1>2, <1>3, <1>4
<1>6. ASSUME w.lsn < Pow2[IntBits] <=> v.lsn < Pow2[IntBits]
      PROVE  Decode(w).class = Decode(v).class
  <2>1. LsnParses(w) <=> LsnParses(v)
    BY <1>1, <1>2, <1>6 DEF LsnParses
  <2>2. CASE s.value \in {"nil", "null"}
    BY <1>1, <1>2, <2>2 DEF Decode
  <2>3. CASE s.value \notin {"nil", "null"}
    <3>1. CASE LsnParses(v) /\ s.pk = "id"
      BY <1>1, <1>2, <2>1, <2>3, <3>1 DEF Decode
    <3>2. CASE ~(LsnParses(v) /\ s.pk = "id")
      BY <1>1, <1>2, <2>1, <2>3, <3>2 DEF Decode
    <3> QED  BY <3>1, <3>2
  <2> QED  BY <2>2, <2>3
<1> QED  BY <1>5, <1>6 DEF v, f

\* The mapper changes no decision of the sink: what Decode makes of a record is
\* of the class it would have been without the transformer, for every rule set,
\* except that an LSN just below an int64's limit may be rounded up to it.
THEOREM ClassIsKept == Spec => []MappingKeepsClass
<1>1. EnvelopeInv => MappingKeepsClass
  <2> SUFFICES ASSUME EnvelopeInv, NEW a \in DOMAIN seen
               PROVE  \/ seen[a].event.class = Decode(recs[seen[a].rec]).class
                      \/ ThroughFloat64(recs[seen[a].rec].lsn) = Pow2[IntBits]
    BY DEF MappingKeepsClass
  <2>1. PICK s \in Shapes, l \in Lsns, n \in Lsns : recs = <<RecordOf(s, l), RecordOf(s, n)>>
    BY DEF EnvelopeInv, IsPair
  <2>2. Explained(seen[a])
    BY DEF EnvelopeInv
  <2>3. PICK k \in Lsns : recs[seen[a].rec] = RecordOf(s, k)
    BY <2>1, <2>2 DEF Explained
  <2>4. PICK w : Maps(seen[a].rules, recs[seen[a].rec], w) /\ seen[a].event = Decode(w)
    BY <2>2 DEF Explained
  <2>5. RecordOf(s, k).lsn = k
    BY DEF RecordOf
  <2> QED  BY <2>3, <2>4, <2>5, ClassKept
<1> QED  BY <1>1, Invariance, PTL

\* An event of a record carries the LSN the record has once it was mapped.
LEMMA EventLsn ==
  ASSUME NEW s, NEW n, NEW R, NEW w, Maps(R, RecordOf(s, n), w), Decode(w).class = "event"
  PROVE  Decode(w).lsn = IF Mapped(R, RecordOf(s, n)) THEN ThroughFloat64(n) ELSE n
<1>1. Tombstone.class # "event" /\ Refused.class # "event"
  BY DEF Tombstone, Refused
<1>2. Decode(w) = [class |-> "event", lsn |-> w.lsn, image |-> w.image]
  BY <1>1 DEF Decode
<1>3. Decode(w).lsn = w.lsn
  BY <1>2
<1> QED  BY <1>3, MappedRecord

\* The rules look at the shape of a record, not at its LSN.
LEMMA MappedByShape ==
  ASSUME NEW s, NEW l, NEW n, NEW R
  PROVE  Mapped(R, RecordOf(s, l)) <=> Mapped(R, RecordOf(s, n))
<1>1. \A k : /\ RecordOf(s, k).value = s.value /\ RecordOf(s, k).schema = s.schema
             /\ RecordOf(s, k).table = s.table /\ RecordOf(s, k).tail = s.tail
  BY DEF RecordOf
<1>2. Lookup(R, RecordOf(s, l)) = Lookup(R, RecordOf(s, n))
  BY <1>1 DEF Lookup
<1> QED  BY <1>1, <1>2 DEF Mapped

\* The LSN gate compares what float64 has left of the LSNs.  For every precision
\* and every rule set that is enough: the newer of two changes of a row never
\* comes out with a smaller LSN than the older one, and with an equal one only
\* where neither is exact any more.
THEOREM OrderIsKept == Spec => []OrderSurvivesRounding
<1>1. EnvelopeInv => OrderSurvivesRounding
  <2> SUFFICES ASSUME EnvelopeInv, NEW a \in DOMAIN seen, NEW b \in DOMAIN seen,
                      seen[a].rec = 1, seen[a].event.class = "event",
                      seen[b].rec = 2, seen[b].event.class = "event"
               PROVE  /\ recs[2].lsn <= Pow2[Mantissa] => seen[a].event.lsn < seen[b].event.lsn
                      /\ seen[a].rules = seen[b].rules => seen[a].event.lsn <= seen[b].event.lsn
    BY DEF OrderSurvivesRounding
  <2>1. PICK s \in Shapes, l \in Lsns, n \in Lsns :
          l < n /\ recs = <<RecordOf(s, l), RecordOf(s, n)>>
    BY DEF EnvelopeInv, IsPair
  <2>2. recs[1] = RecordOf(s, l) /\ recs[2] = RecordOf(s, n) /\ recs[2].lsn = n
    BY <2>1 DEF RecordOf
  <2>3. Explained(seen[a]) /\ Explained(seen[b])
    BY DEF EnvelopeInv
  <2> DEFINE A == Mapped(seen[a].rules, RecordOf(s, l))
             B == Mapped(seen[b].rules, RecordOf(s, n))
             f == ThroughFloat64(l)
             g == ThroughFloat64(n)
  <2>4. seen[a].event.lsn = IF A THEN f ELSE l
    <3>1. PICK w : Maps(seen[a].rules, RecordOf(s, l), w) /\ seen[a].event = Decode(w)
      BY <2>2, <2>3 DEF Explained
    <3> QED  BY <3>1, EventLsn
  <2>5. seen[b].event.lsn = IF B THEN g ELSE n
    <3>1. PICK w : Maps(seen[b].rules, RecordOf(s, n), w) /\ seen[b].event = Decode(w)
      BY <2>2, <2>3 DEF Explained
    <3> QED  BY <3>1, EventLsn
  <2>6. seen[a].rules = seen[b].rules => (A <=> B)
    BY MappedByShape
  <2>7. l \in Nat /\ n \in Nat /\ l < n /\ f \in Nat /\ g \in Nat /\ f <= g
    <3>1. l \in Nat /\ n \in Nat /\ n < Pow2[Mantissa + IntBits] /\ Mantissa \in Nat \ {0}
      BY LsnFits
    <3>2. l <= n
      BY <2>1, <3>1
    <3> QED  BY <2>1, <3>1, <3>2, RoundToMonotone DEF ThroughFloat64
  <2>8. n <= Pow2[Mantissa] => f = l /\ g = n
    <3>1. Mantissa \in Nat \ {0} /\ Pow2[Mantissa] \in Nat
      BY LsnFits, Pow2Grows
    <3>2. ASSUME n <= Pow2[Mantissa] PROVE l <= Pow2[Mantissa]
      BY <2>7, <3>1, <3>2
    <3> QED  BY <2>7, <3>1, <3>2, RoundToExact DEF ThroughFloat64
  <2> HIDE DEF A, B, f, g
  <2> QED  BY <2>2, <2>4, <2>5, <2>6, <2>7, <2>8
<1> QED  BY <1>1, Invariance, PTL

\* A finite set with at most one element has no two.
LEMMA AtMostOne ==
  ASSUME NEW S, IsFiniteSet(S), Cardinality(S) <= 1, NEW x \in S, NEW y \in S
  PROVE  x = y
<1> SUFFICES ASSUME x # y PROVE FALSE
  OBVIOUS
<1>1. IsFiniteSet({x}) /\ Cardinality({x}) = 1
  BY FS_Singleton
<1>2. IsFiniteSet({x, y}) /\ Cardinality({x, y}) = 2
  <2>1. {x, y} = {x} \cup {y} /\ y \notin {x}
    OBVIOUS
  <2> QED  BY <1>1, <2>1, FS_AddElement
<1>3. Cardinality({x, y}) <= Cardinality(S) /\ Cardinality(S) \in Nat
  BY FS_Subset, FS_CardinalityType
<1> QED  BY <1>2, <1>3

\* Under unambiguous rules there is one rule for a record at most ...
LEMMA OneRule ==
  ASSUME NEW R, NEW v, Loaded(R), Unambiguous(R, v)
  PROVE  \A r, q \in Lookup(R, v) : r = q
<1>1. \A s, t : \A r, q \in RulesIn(R, s, t) : r = q
  BY DEF Loaded, RulesIn
<1>2. CASE \E r \in R : r.table = v.table /\ r.schema \in {v.schema, NoSchema}
  <2>1. PICK r \in R : r.table = v.table /\ r.schema \in {v.schema, NoSchema}
    BY <1>2
  <2>2. v.table # ""
    BY <2>1 DEF Loaded
  <2>3. RulesIn(R, v.schema, v.table) # {} \/ RulesIn(R, NoSchema, v.table) # {}
    BY <2>1 DEF RulesIn
  <2>4. \/ Lookup(R, v) = RulesIn(R, v.schema, v.table)
        \/ Lookup(R, v) = RulesIn(R, NoSchema, v.table)
    BY <2>2, <2>3 DEF Lookup
  <2> QED  BY <1>1, <2>4
<1>3. CASE Cardinality({r \in R : r.table = v.tail}) <= 1
  <2> DEFINE T == {r \in R : r.table = v.tail}
  <2>1. IsFiniteSet(T)
    BY FS_Subset DEF Loaded
  <2>2. \A r, q \in T : r = q
    BY <1>3, <2>1, AtMostOne
  <2>3. \/ Lookup(R, v) = RulesIn(R, v.schema, v.table)
        \/ Lookup(R, v) = RulesIn(R, NoSchema, v.table)
        \/ Lookup(R, v) = RulesIn(R, NoSchema, v.tail)
        \/ Lookup(R, v) = T
    BY DEF Lookup, LookupTail
  <2> HIDE DEF T
  <2> QED  BY <1>1, <2>2, <2>3
<1> QED  BY <1>2, <1>3 DEF Unambiguous

\* ... and one image, so one result.
LEMMA OneResult ==
  ASSUME NEW R, NEW v, Loaded(R), Unambiguous(R, v),
         NEW u, NEW w, Maps(R, v, u), Maps(R, v, w)
  PROVE  u = w
<1>1. CASE Mapped(R, v)
  <2>1. PICK r \in Lookup(R, v) : \E image \in renameKeys(r.fields) : u = Rewritten(v, image)
    BY <1>1 DEF Maps
  <2>2. PICK q \in Lookup(R, v) : \E image \in renameKeys(q.fields) : w = Rewritten(v, image)
    BY <1>1 DEF Maps
  <2>3. r = q
    BY OneRule
  <2>4. PICK i \in renameKeys(r.fields), j \in renameKeys(r.fields) :
          u = Rewritten(v, i) /\ w = Rewritten(v, j)
    BY <2>1, <2>2, <2>3
  <2>5. r \in R
    BY DEF Lookup, LookupTail, RulesIn
  <2>6. i = j
    <3> DEFINE targets == {r.fields[f] : f \in Field}
    <3>1. /\ i \in [targets -> Field] /\ j \in [targets -> Field]
          /\ \A t \in targets : r.fields[i[t]] = t /\ r.fields[j[t]] = t
      BY DEF renameKeys
    <3>2. \A f, g \in Field : f # g => r.fields[f] # r.fields[g]
      BY <2>5 DEF Unambiguous
    <3> HIDE DEF targets
    <3>3. \A t \in targets : i[t] = j[t]
      BY <3>1, <3>2
    <3> QED  BY <3>1, <3>3
  <2> QED  BY <2>4, <2>6
<1>2. CASE ~Mapped(R, v)
  BY <1>2 DEF Maps
<1> QED  BY <1>1, <1>2

\* Redelivery is harmless to the content: under the same unambiguous rules a
\* record gives the sink the same event every time, whatever the order of the
\* maps ApplyJSON iterates over and however often the rules changed in between.
THEOREM RedeliveryGivesTheSame == Spec => []RedeliveryIsIdentical
<1>1. EnvelopeInv => RedeliveryIsIdentical
  <2> SUFFICES ASSUME EnvelopeInv, NEW a \in DOMAIN seen, NEW b \in DOMAIN seen,
                      seen[a].rec = seen[b].rec, seen[a].rules = seen[b].rules,
                      Unambiguous(seen[a].rules, recs[seen[a].rec])
               PROVE  seen[a].event = seen[b].event
    BY DEF RedeliveryIsIdentical
  <2>1. Explained(seen[a]) /\ Explained(seen[b])
    BY DEF EnvelopeInv
  <2>2. PICK u : Maps(seen[a].rules, recs[seen[a].rec], u) /\ seen[a].event = Decode(u)
    BY <2>1 DEF Explained
  <2>3. PICK w : Maps(seen[a].rules, recs[seen[a].rec], w) /\ seen[b].event = Decode(w)
    BY <2>1 DEF Explained
  <2>4. Loaded(seen[a].rules)
    BY <2>1 DEF Explained
  <2> QED  BY <2>2, <2>3, <2>4, OneResult
<1> QED  BY <1>1, Invariance, PTL
=============================================================================
