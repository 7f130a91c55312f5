------------------------- MODULE ConversionProofs -------------------------
(***************************************************************************)
(* Proofs about Conversions: results keep to their types, no loss goes     *)
(* unreported and what the table calls lossless is, for integers and       *)
(* significands of any widths and all values.                              *)
(***************************************************************************)
EXTENDS Conversions, WellFoundedInduction, TLAPS

-----------------------------------------------------------------------------
(* Powers of two.                                                          *)

(* A set of naturals has a least element. *)
LEMMA Least ==
    ASSUME NEW T, T \subseteq Nat, T # {}
    PROVE  \E x \in T : \A y \in T : x <= y
<1>1. PICK x \in T : \A y \in T : ~(<<y, x>> \in OpToRel(<, Nat))
    BY NatLessThanWellFounded, WFMin
<1>2. \A y \in T : ~(y < x)
    BY <1>1, Zenon DEF OpToRel
<1> QED
    BY <1>2

(* A chain of n doublings.                                                 *)
Doubling(f, n) == /\ f \in [0 .. n -> Nat] /\ f[0] = 1
                  /\ \A i \in 1 .. n : f[i] = 2 * f[i - 1]

(* Powers of two by a chain of doublings, which the proofs about Pow2 use. *)
LEMMA DoublingExists == \A n \in Nat : \E f : Doubling(f, n)
<1> DEFINE T == {n \in Nat : ~ \E f : Doubling(f, n)}
<1>1. ASSUME T # {} PROVE FALSE
  <2>1. PICK n \in T : \A m \in T : n <= m
    BY <1>1, Least
  <2>2. n \in Nat /\ ~ \E f : Doubling(f, n)
    OBVIOUS
  <2>3. n # 0
    <3>1. PICK f : f = [i \in 0 .. 0 |-> 1]
      OBVIOUS
    <3>2. Doubling(f, 0)
      BY <3>1 DEF Doubling
    <3> QED
      BY <2>2, <3>2
  <2>4. n - 1 \in Nat /\ n - 1 \notin T
    BY <2>1, <2>2, <2>3
  <2>5. PICK f : Doubling(f, n - 1)
    BY <2>4
  <2>6. PICK g : g = [i \in 0 .. n |-> IF i = n THEN 2 * f[n - 1] ELSE f[i]]
    OBVIOUS
  <2>7. Doubling(g, n)
    BY <2>2, <2>3, <2>5, <2>6 DEF Doubling
  <2> QED
    BY <2>2, <2>7
<1> QED
    BY <1>1

(* Two chains agree as far as both go.                                     *)
LEMMA DoublingUnique ==
    ASSUME NEW m \in Nat, NEW n \in Nat, m <= n,
           NEW f, NEW g, Doubling(f, m), Doubling(g, n)
    PROVE  \A i \in 0 .. m : f[i] = g[i]
<1> DEFINE T == {i \in Nat : i <= m /\ f[i] # g[i]}
<1>1. ASSUME T # {} PROVE FALSE
  <2>1. PICK i \in T : \A j \in T : i <= j
    BY <1>1, Least
  <2>2. i \in Nat /\ i <= m /\ f[i] # g[i]
    OBVIOUS
  <2>3. i # 0
    BY <2>2 DEF Doubling
  <2>4. i - 1 \in Nat /\ i - 1 \notin T
    BY <2>1, <2>2, <2>3
  <2>5. f[i - 1] = g[i - 1]
    BY <2>2, <2>4
  <2>6. i \in 1 .. m /\ i \in 1 .. n
    BY <2>2, <2>3
  <2> HIDE DEF T
  <2> QED
    BY <2>2, <2>5, <2>6 DEF Doubling
<1> QED
    BY <1>1

(* Pow2 is the function its recursion describes: chains give its values.   *)
LEMMA Pow2Def == Pow2 = [n \in Nat |-> IF n = 0 THEN 1 ELSE 2 * Pow2[n - 1]]
<1> DEFINE C(n) == CHOOSE f : Doubling(f, n)
           F == [n \in Nat |-> C(n)[n]]
<1>1. \A n \in Nat : Doubling(C(n), n)
    BY DoublingExists
<1>2. \A n \in Nat : F[n] = C(n)[n]
    OBVIOUS
<1> HIDE DEF C
<1>3. ASSUME NEW n \in Nat, n # 0 PROVE C(n)[n] = 2 * C(n - 1)[n - 1]
  <2>1. n - 1 \in Nat /\ n \in 1 .. n
    BY <1>3
  <2>2. C(n)[n] = 2 * C(n)[n - 1]
    BY <1>1, <2>1 DEF Doubling
  <2>3. C(n - 1)[n - 1] = C(n)[n - 1]
    BY <1>1, <2>1, DoublingUnique
  <2> QED
    BY <2>2, <2>3
<1>4. C(0)[0] = 1
    BY <1>1 DEF Doubling
<1>5. F = [n \in Nat |-> IF n = 0 THEN 1 ELSE 2 * F[n - 1]]
    BY <1>3, <1>4
<1> HIDE DEF F
<1> QED
    BY <1>5 DEF Pow2

(* The first power of two, and the next ones.                              *)
LEMMA Pow2Facts ==
    /\ Pow2[0] = 1
    /\ \A n \in Nat : Pow2[n] \in Nat /\ Pow2[n] >= 1 /\ Pow2[n + 1] = 2 * Pow2[n]
<1>1. Pow2[0] = 1
    BY Pow2Def
<1>2. \A n \in Nat : Pow2[n + 1] = 2 * Pow2[n]
  <2>1. ASSUME NEW n \in Nat PROVE Pow2[n + 1] = 2 * Pow2[n]
    <3>1. n + 1 \in Nat /\ n + 1 # 0 /\ (n + 1) - 1 = n
      OBVIOUS
    <3> QED
      BY <3>1, Pow2Def
  <2> QED
    BY <2>1
<1> DEFINE T == {n \in Nat : ~(Pow2[n] \in Nat /\ Pow2[n] >= 1)}
<1>3. ASSUME T # {} PROVE FALSE
  <2>1. PICK n \in T : \A m \in T : n <= m
    BY <1>3, Least
  <2>2. n \in Nat /\ ~(Pow2[n] \in Nat /\ Pow2[n] >= 1)
    OBVIOUS
  <2>3. n # 0
    BY <1>1, <2>2
  <2>4. n - 1 \in Nat /\ n - 1 \notin T /\ (n - 1) + 1 = n
    BY <2>1, <2>2, <2>3
  <2>5. Pow2[n - 1] \in Nat /\ Pow2[n - 1] >= 1
    BY <2>4
  <2>6. Pow2[n] = 2 * Pow2[n - 1]
    BY <1>2, <2>4
  <2> QED
    BY <2>2, <2>5, <2>6
<1> QED
    BY <1>1, <1>2, <1>3

(* A product of powers of two is one.                                      *)
LEMMA Pow2Sum ==
    ASSUME NEW m \in Nat, NEW n \in Nat
    PROVE  Pow2[m + n] = Pow2[m] * Pow2[n]
<1> DEFINE T == {i \in Nat : Pow2[m + i] # Pow2[m] * Pow2[i]}
<1>1. ASSUME T # {} PROVE FALSE
  <2>1. PICK i \in T : \A j \in T : i <= j
    BY <1>1, Least
  <2>2. i \in Nat /\ Pow2[m + i] # Pow2[m] * Pow2[i]
    OBVIOUS
  <2>3. i # 0
    BY <2>2, Pow2Facts
  <2>4. i - 1 \in Nat /\ i - 1 \notin T /\ (i - 1) + 1 = i
    BY <2>1, <2>2, <2>3
  <2>5. Pow2[m + (i - 1)] = Pow2[m] * Pow2[i - 1]
    BY <2>4
  <2>6. m + (i - 1) \in Nat /\ (m + (i - 1)) + 1 = m + i
    BY <2>4
  <2>7. Pow2[m + i] = 2 * Pow2[m + (i - 1)] /\ Pow2[i] = 2 * Pow2[i - 1]
    BY <2>4, <2>6, Pow2Facts
  <2>8. PICK a \in Nat, b \in Nat, c \in Nat : a = Pow2[m] /\ b = Pow2[i - 1] /\ c = Pow2[m + (i - 1)]
    BY <2>4, <2>6, Pow2Facts
  <2>9. 2 * (a * b) = a * (2 * b)
    OBVIOUS
  <2> QED
    BY <2>2, <2>5, <2>7, <2>8, <2>9
<1> QED
    BY <1>1

(* Powers of two at least double with the exponent.                        *)
LEMMA Pow2Grows ==
    ASSUME NEW m \in Nat, NEW n \in Nat, m < n
    PROVE  2 * Pow2[m] <= Pow2[n]
<1>1. n - (m + 1) \in Nat /\ (m + 1) + (n - (m + 1)) = n
    OBVIOUS
<1>2. Pow2[n] = Pow2[m + 1] * Pow2[n - (m + 1)]
    BY <1>1, Pow2Sum
<1>3. PICK a \in Nat, b \in Nat : a = Pow2[m + 1] /\ b = Pow2[n - (m + 1)] /\ b >= 1
    BY <1>1, Pow2Facts
<1>4. a <= a * b
    BY <1>3
<1> QED
    BY <1>2, <1>3, <1>4, Pow2Facts

(* A natural is below its power of two.                                    *)
LEMMA Pow2Exceeds == \A n \in Nat : n < Pow2[n]
<1> DEFINE T == {n \in Nat : ~(n < Pow2[n])}
<1>1. ASSUME T # {} PROVE FALSE
  <2>1. PICK n \in T : \A m \in T : n <= m
    BY <1>1, Least
  <2>2. n \in Nat /\ ~(n < Pow2[n])
    OBVIOUS
  <2>3. n # 0
    BY <2>2, Pow2Facts
  <2>4. n - 1 \in Nat /\ n - 1 \notin T /\ (n - 1) + 1 = n
    BY <2>1, <2>2, <2>3
  <2>5. n - 1 < Pow2[n - 1]
    BY <2>4
  <2>6. Pow2[n] = 2 * Pow2[n - 1] /\ Pow2[n - 1] \in Nat
    BY <2>4, Pow2Facts
  <2> HIDE DEF T
  <2>7. n < Pow2[n]
    BY <2>2, <2>3, <2>5, <2>6
  <2> QED
    BY <2>2, <2>7
<1> QED
    BY <1>1

-----------------------------------------------------------------------------
(* Rounding.                                                               *)

(* Every natural has an exponent.                                          *)
LEMMA ExponentFacts ==
    ASSUME NEW a \in Nat, NEW m \in Nat
    PROVE  /\ Exponent(a, m) \in Nat
           /\ a < Pow2[m + Exponent(a, m)]
           /\ Exponent(a, m) = 0 \/ a >= Pow2[m + Exponent(a, m) - 1]
<1> DEFINE T == {i \in Nat : a < Pow2[m + i]}
<1>1. a \in T
  <2>1. PICK c \in Nat, d \in Nat : c = Pow2[m] /\ d = Pow2[a] /\ c >= 1 /\ a < d
    BY Pow2Facts, Pow2Exceeds
  <2>2. d <= c * d
    BY <2>1
  <2>3. Pow2[m + a] = c * d
    BY <2>1, Pow2Sum
  <2> QED
    BY <2>1, <2>2, <2>3
<1>2. PICK e \in T : \A j \in T : e <= j
    BY <1>1, Least
<1>3. e \in 0 .. a /\ a < Pow2[m + e]
    BY <1>1, <1>2
<1>4. e = 0 \/ a >= Pow2[m + e - 1]
  <2>1. CASE e # 0
    <3>1. e - 1 \in Nat /\ e - 1 \notin T
      BY <1>2, <1>3, <2>1
    <3>2. ~(a < Pow2[m + (e - 1)]) /\ m + (e - 1) = m + e - 1 /\ m + e - 1 \in Nat
      BY <1>3, <3>1
    <3> QED
      BY <3>2, Pow2Facts
  <2> QED
    BY <2>1
<1> HIDE DEF T
<1>5. \E i \in 0 .. a : a < Pow2[m + i] /\ (i = 0 \/ a >= Pow2[m + i - 1])
    BY <1>3, <1>4
<1>6. /\ Exponent(a, m) \in 0 .. a
      /\ a < Pow2[m + Exponent(a, m)]
      /\ Exponent(a, m) = 0 \/ a >= Pow2[m + Exponent(a, m) - 1]
    BY <1>5 DEF Exponent
<1> QED
    BY <1>6

(* The nearest multiple: a number that is one is its own, and no multiple  *)
(* is passed.                                                              *)
LEMMA NearestFacts ==
    ASSUME NEW a \in Nat, NEW d \in Nat, d >= 1
    PROVE  /\ \E k \in Nat : Nearest(a, d) = k * d
           /\ \A k \in Nat : a = k * d => Nearest(a, d) = a
           /\ \A k \in Nat : a <= k * d => Nearest(a, d) <= k * d
<1>1. PICK q \in Nat, r \in Nat : q = a \div d /\ r = a % d /\ r < d /\ a = q * d + r
  <2>1. a \div d \in Nat
    OBVIOUS
  <2>2. a % d \in Nat /\ a % d < d
    OBVIOUS
  <2>3. a = d * (a \div d) + (a % d)
    OBVIOUS
  <2> QED
    BY <2>1, <2>2, <2>3
<1>2. PICK x \in {q, q + 1} : Nearest(a, d) = x * d /\ (r = 0 => x = q)
    BY <1>1 DEF Nearest
<1>3. ASSUME NEW k \in Nat, a <= k * d PROVE /\ r = 0 => q <= k
                                             /\ r # 0 => q + 1 <= k
  <2>1. CASE r = 0 /\ k < q
    <3>1. (k + 1) * d <= q * d
      BY <2>1
    <3>2. (k + 1) * d = k * d + d
      OBVIOUS
    <3> QED
      BY <1>1, <1>3, <2>1, <3>1, <3>2
  <2>2. CASE r # 0 /\ k < q + 1
    <3>1. k * d <= q * d
      BY <2>2
    <3> QED
      BY <1>1, <1>3, <2>2, <3>1
  <2> QED
    BY <2>1, <2>2
<1>4. ASSUME NEW k \in Nat, a <= k * d PROVE Nearest(a, d) <= k * d
  <2>1. x <= k /\ x \in Nat
    BY <1>2, <1>3, <1>4
  <2>2. x * d <= k * d
    BY <2>1
  <2> QED
    BY <1>2, <2>2
<1>5. ASSUME NEW k \in Nat, a = k * d PROVE Nearest(a, d) = a
  <2>1. r = 0
    BY <1>1, <1>5
  <2> QED
    BY <1>1, <1>2, <2>1
<1>6. \E k \in Nat : Nearest(a, d) = k * d
    BY <1>2
<1> QED
    BY <1>4, <1>5, <1>6

(* The nearest multiple is one.                                            *)
LEMMA NearestMultiple ==
    ASSUME NEW a \in Nat, NEW d \in Nat, d >= 1
    PROVE  \E k \in Nat : Nearest(a, d) = k * d
    BY NearestFacts

(* Rounding keeps the sign; it is the nearest multiple of a power of two.  *)
LEMMA RoundMeaning ==
    ASSUME NEW h \in Int, NEW m \in Nat
    PROVE  \E a, d, e \in Nat :
             /\ a = Magnitude(h) /\ e = Exponent(a, m) /\ d = Pow2[e] /\ d >= 1
             /\ Nearest(a, d) \in Nat
             /\ Round(h, m) = IF h < 0 THEN -Nearest(a, d) ELSE Nearest(a, d)
             /\ Magnitude(Round(h, m)) = Nearest(a, d)
<1>1. PICK a \in Nat : a = Magnitude(h)
    BY DEF Magnitude
<1>2. PICK e \in Nat : e = Exponent(a, m)
    BY ExponentFacts
<1>3. PICK d \in Nat : d = Pow2[e] /\ d >= 1
    BY Pow2Facts
<1>4. PICK n \in Nat : n = Nearest(a, d)
  <2>1. PICK k \in Nat : Nearest(a, d) = k * d
    BY <1>3, NearestFacts
  <2> QED
    BY <2>1
<1>5. Round(h, m) = IF h < 0 THEN -n ELSE n
    BY <1>1, <1>2, <1>3, <1>4 DEF Round, WithSign
<1>6. Magnitude(Round(h, m)) = n
  <2>1. h < 0 => n >= 0
    OBVIOUS
  <2> QED
    BY <1>5 DEF Magnitude
<1> QED
    BY <1>1, <1>2, <1>3, <1>4, <1>5, <1>6

(* Rounding passes no power of two.                                        *)
LEMMA RoundBound ==
    ASSUME NEW h \in Int, NEW m \in Nat, m >= 1, NEW k \in Nat, Magnitude(h) <= Pow2[k]
    PROVE  Round(h, m) \in Int /\ Magnitude(Round(h, m)) <= Pow2[k]
<1>1. PICK a \in Nat, d \in Nat, e \in Nat :
        /\ a = Magnitude(h) /\ e = Exponent(a, m) /\ d = Pow2[e] /\ d >= 1
        /\ Nearest(a, d) \in Nat
        /\ Round(h, m) = IF h < 0 THEN -Nearest(a, d) ELSE Nearest(a, d)
        /\ Magnitude(Round(h, m)) = Nearest(a, d)
    BY RoundMeaning
<1>2. CASE e <= k
  <2>1. k - e \in Nat /\ (k - e) + e = k
    BY <1>2
  <2>2. Pow2[k] = Pow2[k - e] * d /\ Pow2[k - e] \in Nat
    <3>1. Pow2[(k - e) + e] = Pow2[k - e] * Pow2[e]
      BY <2>1, Pow2Sum
    <3> QED
      BY <1>1, <2>1, <3>1, Pow2Facts
  <2>3. Nearest(a, d) <= Pow2[k - e] * d
    <3>1. \A j \in Nat : a <= j * d => Nearest(a, d) <= j * d
      BY <1>1, NearestFacts
    <3>2. PICK j \in Nat : j = Pow2[k - e]
      BY <2>2
    <3>3. a <= j * d
      BY <1>1, <2>2, <3>2
    <3> QED
      BY <3>1, <3>2, <3>3
  <2> QED
    BY <1>1, <2>2, <2>3
<1>3. CASE k < e
  <2>1. a >= Pow2[m + e - 1]
    <3>1. Exponent(a, m) = 0 \/ a >= Pow2[m + Exponent(a, m) - 1]
      BY ExponentFacts
    <3> QED
      BY <1>1, <1>3, <3>1
  <2>2. m + e - 1 \in Nat /\ k < m + e - 1
    BY <1>3
  <2>3. 2 * Pow2[k] <= Pow2[m + e - 1] /\ Pow2[k] \in Nat /\ Pow2[k] >= 1
    BY <2>2, Pow2Grows, Pow2Facts
  <2>4. Pow2[m + e - 1] \in Nat
    BY <2>2, Pow2Facts
  <2> QED
    BY <1>1, <2>1, <2>3, <2>4
<1> QED
    BY <1>1, <1>2, <1>3

(* Rounding keeps a number even.                                           *)
LEMMA RoundEven ==
    ASSUME NEW h \in Int, NEW m \in Nat, h % 2 = 0
    PROVE  Round(h, m) % 2 = 0
<1>1. PICK a \in Nat, d \in Nat, e \in Nat :
        /\ a = Magnitude(h) /\ e = Exponent(a, m) /\ d = Pow2[e] /\ d >= 1
        /\ Nearest(a, d) \in Nat
        /\ Round(h, m) = IF h < 0 THEN -Nearest(a, d) ELSE Nearest(a, d)
        /\ Magnitude(Round(h, m)) = Nearest(a, d)
    BY RoundMeaning
<1>2. PICK n \in Nat : n = Nearest(a, d)
    BY <1>1
<1>3. n % 2 = 0
  <2>1. CASE e = 0
    <3>1. a = a * d
      BY <1>1, <2>1, Pow2Facts
    <3>2. n = a
      <4>1. \A k \in Nat : a = k * d => Nearest(a, d) = a
        BY <1>1, NearestFacts
      <4> QED
        BY <1>2, <3>1, <4>1
    <3>3. a % 2 = 0
      BY <1>1 DEF Magnitude
    <3> QED
      BY <3>2, <3>3
  <2>2. CASE e # 0
    <3>1. e - 1 \in Nat /\ (e - 1) + 1 = e
      BY <2>2
    <3>2. PICK c \in Nat : d = 2 * c
      BY <1>1, <3>1, Pow2Facts
    <3>3. PICK k \in Nat : Nearest(a, d) = k * d
      BY <1>1, NearestMultiple
    <3>4. k * (2 * c) = 2 * (k * c) /\ k * c \in Nat
      OBVIOUS
    <3>5. n = 2 * (k * c)
      BY <1>2, <3>2, <3>3, <3>4
    <3> QED
      BY <3>4, <3>5
  <2> QED
    BY <2>1, <2>2
<1> QED
    BY <1>1, <1>2, <1>3

(* A number of at most m significant bits is not changed.                  *)
LEMMA RoundFixed ==
    ASSUME NEW h \in Int, NEW m \in Nat, m >= 1, NEW k \in Nat, NEW e \in Nat,
           k <= Pow2[m], Magnitude(h) = k * Pow2[e]
    PROVE  Round(h, m) = h
<1>1. PICK a \in Nat, d \in Nat, i \in Nat :
        /\ a = Magnitude(h) /\ i = Exponent(a, m) /\ d = Pow2[i] /\ d >= 1
        /\ Nearest(a, d) \in Nat
        /\ Round(h, m) = IF h < 0 THEN -Nearest(a, d) ELSE Nearest(a, d)
        /\ Magnitude(Round(h, m)) = Nearest(a, d)
    BY RoundMeaning
<1>2. \E c \in Nat : a = c * d
  <2>1. CASE i <= e
    <3>1. e - i \in Nat /\ (e - i) + i = e
      BY <2>1
    <3>2. PICK b \in Nat : b = Pow2[e - i]
      BY <3>1, Pow2Facts
    <3>3. Pow2[e] = b * d
      <4>1. Pow2[(e - i) + i] = Pow2[e - i] * Pow2[i]
        BY <3>1, Pow2Sum
      <4> QED
        BY <1>1, <3>1, <3>2, <4>1
    <3>4. k * (b * d) = (k * b) * d /\ k * b \in Nat
      OBVIOUS
    <3> QED
      BY <1>1, <3>3, <3>4
  <2>2. CASE e < i
    <3>1. m + i - 1 \in Nat /\ m + e <= m + i - 1 /\ m + i - 1 = (m - 1) + i /\ m - 1 \in Nat
      BY <2>2
    <3>2. a >= Pow2[m + i - 1]
      <4>1. Exponent(a, m) = 0 \/ a >= Pow2[m + Exponent(a, m) - 1]
        BY ExponentFacts
      <4> QED
        BY <1>1, <2>2, <4>1
    <3>3. Pow2[m + e] <= Pow2[m + i - 1]
      <4>1. CASE m + e < m + i - 1
        BY <3>1, <4>1, Pow2Grows, Pow2Facts
      <4>2. CASE m + e = m + i - 1
        <5>1. PICK j \in Nat : j = m + e /\ j = m + i - 1
          BY <3>1, <4>2
        <5>2. Pow2[j] \in Nat
          BY Pow2Facts
        <5> QED
          BY <5>1, <5>2
      <4> QED
        BY <3>1, <4>1, <4>2
    <3>4. a <= Pow2[m + e]
      <4>1. PICK p \in Nat, q \in Nat : p = Pow2[m] /\ q = Pow2[e]
        BY Pow2Facts
      <4>2. k * q <= p * q
        BY <4>1
      <4>3. Pow2[m + e] = p * q
        BY <4>1, Pow2Sum
      <4> QED
        BY <1>1, <4>1, <4>2, <4>3
    <3>5. a = Pow2[m + i - 1]
      <4>1. Pow2[m + i - 1] \in Nat /\ Pow2[m + e] \in Nat
        BY <3>1, Pow2Facts
      <4> QED
        BY <3>2, <3>3, <3>4, <4>1
    <3>6. Pow2[(m - 1) + i] = Pow2[m - 1] * Pow2[i] /\ Pow2[m - 1] \in Nat
      BY <3>1, Pow2Sum, Pow2Facts
    <3> QED
      BY <1>1, <3>1, <3>5, <3>6
  <2> QED
    BY <2>1, <2>2
<1>3. Nearest(a, d) = a
  <2>1. \A c \in Nat : a = c * d => Nearest(a, d) = a
    BY <1>1, NearestFacts
  <2> QED
    BY <1>2, <2>1
<1> QED
    BY <1>1, <1>3 DEF Magnitude

(* A rounded number has at most m significant bits.                        *)
LEMMA RoundForm ==
    ASSUME NEW h \in Int, NEW m \in Nat
    PROVE  /\ Round(h, m) \in Int
           /\ \E k, e \in Nat : k <= Pow2[m] /\ Magnitude(Round(h, m)) = k * Pow2[e]
<1>1. PICK a \in Nat, d \in Nat, e \in Nat :
        /\ a = Magnitude(h) /\ e = Exponent(a, m) /\ d = Pow2[e] /\ d >= 1
        /\ Nearest(a, d) \in Nat
        /\ Round(h, m) = IF h < 0 THEN -Nearest(a, d) ELSE Nearest(a, d)
        /\ Magnitude(Round(h, m)) = Nearest(a, d)
    BY RoundMeaning
<1>2. PICK k \in Nat : Nearest(a, d) = k * d
    BY <1>1, NearestMultiple
<1>3. PICK p \in Nat : p = Pow2[m]
    BY Pow2Facts
<1>4. a <= p * d
  <2>1. a < Pow2[m + Exponent(a, m)]
    BY ExponentFacts
  <2>2. Pow2[m + e] = Pow2[m] * Pow2[e]
    BY Pow2Sum
  <2> QED
    BY <1>1, <1>3, <2>1, <2>2
<1>5. k * d <= p * d
    BY <1>1, <1>2, <1>3, <1>4, NearestFacts
<1>6. k <= p
  <2>1. CASE p < k
    <3>1. (p + 1) * d <= k * d
      BY <2>1
    <3>2. (p + 1) * d = p * d + d
      OBVIOUS
    <3> QED
      BY <1>1, <1>5, <3>1, <3>2
  <2> QED
    BY <2>1
<1>7. Round(h, m) \in Int
    BY <1>1
<1>8. k <= Pow2[m] /\ Magnitude(Round(h, m)) = k * Pow2[e]
    BY <1>1, <1>2, <1>3, <1>6
<1> QED
    BY <1>7, <1>8

(* A float is one of any wider significand, and a rounded number is one.   *)
LEMMA RoundIdempotent ==
    ASSUME NEW h \in Int, NEW m \in Nat, NEW w \in Nat, 1 <= m, m <= w
    PROVE  Round(h, m) \in Floats(w)
<1>1. PICK f \in Int : f = Round(h, m)
    BY RoundForm
<1>2. PICK k \in Nat, e \in Nat : k <= Pow2[m] /\ Magnitude(f) = k * Pow2[e]
  <2>1. \E k, e \in Nat : k <= Pow2[m] /\ Magnitude(Round(h, m)) = k * Pow2[e]
    BY RoundForm
  <2> QED
    BY <1>1, <2>1
<1>3. k <= Pow2[w]
  <2>1. CASE m = w
    BY <1>2, <2>1
  <2>2. CASE m < w
    BY <1>2, <2>2, Pow2Grows, Pow2Facts
  <2> QED
    BY <2>1, <2>2
<1>4. Round(f, w) = f
    BY <1>2, <1>3, RoundFixed
<1> QED
    BY <1>1, <1>4 DEF Floats

-----------------------------------------------------------------------------
(* The machine's numbers.                                                  *)

(* The limits of the integers.                                             *)
LEMMA Limits ==
    /\ {W32, W64, M32, M64} \subseteq Nat
    /\ 1 <= M32 /\ M32 <= M64 /\ 1 <= M64 /\ W32 <= M64
    /\ \E s, p \in Nat :
          /\ s = Pow2[W32 - 1] /\ Pow2[W32] = 2 * s /\ s >= 2
          /\ p = Pow2[W64 - 1] /\ Pow2[W64] = 2 * p /\ 2 * s <= p
          /\ Pow2[W64 + 1] = 4 * p
          /\ Int32 = -s .. s - 1 /\ Uint32 = 0 .. 2 * s - 1
          /\ Int64 = -p .. p - 1 /\ Uint64 = 0 .. 2 * p - 1
<1>1. /\ W32 \in Nat /\ W64 \in Nat /\ M32 \in Nat /\ M64 \in Nat
      /\ 1 < M32 /\ M32 < W32 /\ W32 <= M64 /\ M64 < W64
    BY WidthAssumption
<1>2. /\ W32 - 1 \in Nat /\ (W32 - 1) + 1 = W32 /\ 0 < W32 - 1
      /\ W64 - 1 \in Nat /\ (W64 - 1) + 1 = W64 /\ W32 - 1 < W64 - 1
    BY <1>1
<1>3. PICK s \in Nat, p \in Nat : s = Pow2[W32 - 1] /\ p = Pow2[W64 - 1]
    BY <1>2, Pow2Facts
<1>4. Pow2[W32] = 2 * s /\ Pow2[W64] = 2 * p /\ Pow2[W64 + 1] = 2 * Pow2[W64]
    BY <1>1, <1>2, <1>3, Pow2Facts
<1>5. 2 * s <= p
    BY <1>2, <1>3, Pow2Grows
<1>6. s >= 2
  <2>1. 2 * Pow2[0] <= Pow2[W32 - 1]
    BY <1>2, Pow2Grows
  <2> QED
    BY <1>3, <2>1, Pow2Facts
<1>7. /\ Int32 = -s .. s - 1 /\ Uint32 = 0 .. 2 * s - 1
      /\ Int64 = -p .. p - 1 /\ Uint64 = 0 .. 2 * p - 1
    BY <1>3, <1>4 DEF Int32, Uint32, Int64, Uint64
<1>8. Pow2[W64 + 1] = 4 * p
    BY <1>4
<1>9. 1 <= M32 /\ M32 <= M64 /\ 1 <= M64 /\ W32 <= M64
    BY <1>1
<1> QED
    BY <1>1, <1>3, <1>4, <1>5, <1>6, <1>7, <1>8, <1>9

(* The sizes of the significands.                                          *)
LEMMA Significands ==
    /\ M32 \in Nat /\ M64 \in Nat /\ W64 \in Nat
    /\ 1 <= M32 /\ M32 <= M64 /\ 1 <= M64
    BY WidthAssumption

(* Truncation is exact for a whole number, and the machine's choice is in  *)
(* the range.                                                              *)
LEMMA TruncFacts ==
    ASSUME NEW h \in Int
    PROVE  /\ Trunc(h) \in Int
           /\ Integral(h) => 2 * Trunc(h) = h
           /\ \A range : \A i \in ToRange(h, range) :
                i \in range /\ (Trunc(h) \in range => i = Trunc(h))
<1>1. Trunc(h) \in Int
    BY DEF Trunc, WithSign, Magnitude
<1>2. Integral(h) => 2 * Trunc(h) = h
    BY DEF Integral, Trunc, WithSign, Magnitude
<1>3. \A range : \A i \in ToRange(h, range) :
         i \in range /\ (Trunc(h) \in range => i = Trunc(h))
    BY DEF ToRange
<1> QED
    BY <1>1, <1>2, <1>3

(* The low bits of a number, read with and without a sign.                 *)
LEMMA LowFacts ==
    ASSUME NEW n \in Int
    PROVE  /\ LowSigned(n, W32) \in Int32 /\ Low(n, W32) \in Uint32
           /\ LowSigned(n, W64) \in Int64 /\ Low(n, W64) \in Uint64
<1>1. PICK s \in Nat, p \in Nat :
        /\ s = Pow2[W32 - 1] /\ Pow2[W32] = 2 * s /\ s >= 2
        /\ p = Pow2[W64 - 1] /\ Pow2[W64] = 2 * p /\ 2 * s <= p
        /\ Int32 = -s .. s - 1 /\ Uint32 = 0 .. 2 * s - 1
        /\ Int64 = -p .. p - 1 /\ Uint64 = 0 .. 2 * p - 1
    BY Limits
<1>2. ASSUME NEW c \in Nat, c >= 1
      PROVE  /\ n % (2 * c) \in 0 .. 2 * c - 1
             /\ n % (2 * c) >= c => (n % (2 * c)) - 2 * c \in -c .. c - 1
             /\ n % (2 * c) < c => n % (2 * c) \in -c .. c - 1
  <2>1. PICK d \in Nat : d = 2 * c /\ d >= 1
    BY <1>2
  <2>2. (n % d) \in Nat /\ (n % d) < d
    BY <2>1
  <2>3. PICK x \in Nat : x = n % d
    BY <2>2
  <2>4. x < 2 * c
    BY <2>1, <2>2, <2>3
  <2>5. /\ x \in 0 .. 2 * c - 1
        /\ x >= c => x - 2 * c \in -c .. c - 1
        /\ x < c => x \in -c .. c - 1
    BY <1>2, <2>4
  <2> QED
    BY <2>1, <2>3, <2>5
<1>3. Low(n, W32) = n % (2 * s) /\ Low(n, W64) = n % (2 * p) /\ p >= 1 /\ s >= 1
  <2>1. Low(n, W32) = n % (2 * s)
    <3>1. Pow2[W32] = 2 * s
      BY <1>1
    <3> QED
      BY <3>1 DEF Low
  <2>2. Low(n, W64) = n % (2 * p)
    <3>1. Pow2[W64] = 2 * p
      BY <1>1
    <3> QED
      BY <3>1 DEF Low
  <2>3. s >= 1
    BY <1>1
  <2>4. p >= 1
    BY <1>1, <2>3
  <2> QED
    BY <2>1, <2>2, <2>3, <2>4
<1>4. LowSigned(n, W32) = IF n % (2 * s) >= s THEN (n % (2 * s)) - 2 * s ELSE n % (2 * s)
    BY <1>1, <1>3 DEF LowSigned
<1>5. LowSigned(n, W64) = IF n % (2 * p) >= p THEN (n % (2 * p)) - 2 * p ELSE n % (2 * p)
    BY <1>1, <1>3 DEF LowSigned
<1>6. PICK x, y : x = n % (2 * s) /\ y = n % (2 * p)
    OBVIOUS
<1>7. /\ x \in 0 .. 2 * s - 1
      /\ x >= s => x - 2 * s \in -s .. s - 1
      /\ x < s => x \in -s .. s - 1
    BY <1>2, <1>3, <1>6
<1>8. /\ y \in 0 .. 2 * p - 1
      /\ y >= p => y - 2 * p \in -p .. p - 1
      /\ y < p => y \in -p .. p - 1
    BY <1>2, <1>3, <1>6
<1>9. LowSigned(n, W32) \in Int32 /\ Low(n, W32) \in Uint32
  <2>1. LowSigned(n, W32) = IF x >= s THEN x - 2 * s ELSE x
    BY <1>4, <1>6
  <2>2. LowSigned(n, W32) \in -s .. s - 1
    BY <1>7, <2>1
  <2> QED
    BY <1>1, <1>3, <1>6, <1>7, <2>2
<1>10. LowSigned(n, W64) \in Int64 /\ Low(n, W64) \in Uint64
  <2>1. LowSigned(n, W64) = IF y >= p THEN y - 2 * p ELSE y
    BY <1>5, <1>6
  <2>2. LowSigned(n, W64) \in -p .. p - 1
    BY <1>8, <2>1
  <2> QED
    BY <1>1, <1>3, <1>6, <1>8, <2>2
<1> QED
    BY <1>9, <1>10

(* A 64-bit integer as a float: whole, and at most the power of two above  *)
(* the largest one.                                                        *)
LEMMA IntegerRounded ==
    ASSUME NEW n, n \in Int64 \cup Uint64
    PROVE  /\ Round(2 * n, M64) \in Floats(M64)
           /\ Integral(Round(2 * n, M64))
           /\ n \in Int64 => /\ Round(2 * n, M64) >= -(2 * Pow2[W64 - 1])
                             /\ Round(2 * n, M64) <= 2 * Pow2[W64 - 1]
           /\ n \in Uint64 => Round(2 * n, M64) >= 0 /\ Round(2 * n, M64) <= 2 * Pow2[W64]
<1>1. PICK p \in Nat : /\ p = Pow2[W64 - 1] /\ Pow2[W64] = 2 * p /\ Pow2[W64 + 1] = 4 * p
                       /\ Int64 = -p .. p - 1 /\ Uint64 = 0 .. 2 * p - 1
    BY Limits
<1>2. PICK m \in Nat : m = M64 /\ 1 <= m
    BY Limits
<1>3. PICK h \in Int : h = 2 * n /\ h % 2 = 0
    BY <1>1
<1>4. Round(h, m) \in Floats(m)
    BY <1>2, RoundIdempotent
<1>5. Integral(Round(h, m))
    BY <1>3, RoundEven DEF Integral
<1>6. PICK f \in Int : f = Round(h, m)
    BY RoundForm
<1>7. ASSUME n \in Int64 PROVE f >= -(2 * p) /\ f <= 2 * p
  <2>1. Magnitude(h) <= Pow2[W64] /\ W64 \in Nat
    <3>1. h >= -(2 * p) /\ h <= 2 * p
      BY <1>1, <1>3, <1>7
    <3>2. Magnitude(h) <= 2 * p
      BY <3>1 DEF Magnitude
    <3> QED
      BY <1>1, <3>2, Significands
  <2>2. Magnitude(f) <= 2 * p
    BY <1>1, <1>2, <1>6, <2>1, RoundBound
  <2> QED
    BY <2>2 DEF Magnitude
<1>8. ASSUME n \in Uint64 PROVE f >= 0 /\ f <= 4 * p
  <2>1. Magnitude(h) <= Pow2[W64 + 1] /\ W64 + 1 \in Nat
    <3>1. h >= 0 /\ h <= 4 * p
      BY <1>1, <1>3, <1>8
    <3>2. Magnitude(h) <= 4 * p
      BY <3>1 DEF Magnitude
    <3> QED
      <4>1. W64 + 1 \in Nat
        BY Significands
      <4> QED
        BY <1>1, <3>2, <4>1
  <2>2. Magnitude(f) <= 4 * p
    BY <1>1, <1>2, <1>6, <2>1, RoundBound
  <2>3. f >= 0
    <3>1. h >= 0
      BY <1>1, <1>3, <1>8
    <3> QED
      BY <1>6, <3>1, RoundMeaning
  <2> QED
    BY <2>2, <2>3 DEF Magnitude
<1> QED
    BY <1>1, <1>2, <1>3, <1>4, <1>5, <1>6, <1>7, <1>8

-----------------------------------------------------------------------------
(* The helpers of coerceValue.                                             *)

Kinds == {Lossless, SafeCoerce, Lossy}

(* The number of v that is a power of two where float comparisons fail.    *)
FloatAtLimit(v) ==
    v.go \in {"float64", "float32"} /\ v.n \in {2 * Pow2[W64 - 1], 2 * Pow2[W64]}

(* An integer that rounds up to the power of two above its type.           *)
IntegerAtLimit(v) ==
    \/ v.go = "int64" /\ Round(2 * v.n, M64) = 2 * Pow2[W64 - 1]
    \/ v.go = "uint64" /\ Round(2 * v.n, M64) = 2 * Pow2[W64]

(* h halves with kind k are what v is, or it is reported and permitted.    *)
Faithful(v, h, k, lossiness) ==
    v.go \in Machine => \/ Halves(v) = h
                        \/ k = Lossy /\ lossiness = "permissive"
                        \/ FloatAtLimit(v)

(* The 64-bit results of type go for v.                                    *)
IntegerResult(r, v, go, range, lossiness) ==
    \/ r = Err
    \/ \E i \in range, k \in Kinds :
          r = Ok(go, i, k) /\ Faithful(v, 2 * i, k, lossiness)

(* Numbers of the integer types and of the floats.                         *)
LEMMA CarriedFacts ==
    ASSUME NEW v, v.n \in GoRange(v.go)
    PROVE  /\ v.go = "int32" => v.n \in Int32
           /\ v.go = "int64" => v.n \in Int64
           /\ v.go = "uint32" => v.n \in Uint32
           /\ v.go = "uint64" => v.n \in Uint64
           /\ v.go = "float32" => v.n \in Floats(M32)
           /\ v.go = "float64" => v.n \in Floats(M64)
           /\ v.go \in {"float32", "float64"} => v.n \in Int
           /\ v.go = "bool" => v.n \in {0, 1}
           /\ v.go = "text" => v.n \in Int
           /\ v.go \in NonFinite => v.n \in -1 .. 1
    BY DEF GoRange, NonFinite, Floats

(* Which of the narrower integers are 64-bit ones.                         *)
LEMMA Widening ==
    /\ Int32 \subseteq Int64 /\ Uint32 \subseteq Int64 /\ Uint32 \subseteq Uint64
    /\ {0, 1} \subseteq Int32 \cap Uint32
    /\ \A n \in Int64 : n >= 0 => n \in Uint64
    /\ Int64 \subseteq Int /\ Uint64 \subseteq Int /\ Int32 \subseteq Int /\ Uint32 \subseteq Int
<1>1. PICK s \in Nat, p \in Nat :
        /\ s >= 2 /\ 2 * s <= p
        /\ Int32 = -s .. s - 1 /\ Uint32 = 0 .. 2 * s - 1
        /\ Int64 = -p .. p - 1 /\ Uint64 = 0 .. 2 * p - 1
    BY Limits
<1> QED
    BY <1>1

(* A float to int64 (coerceToInt64).                                       *)
LEMMA FloatToInt64Facts ==
    ASSUME NEW v, v.go \in {"float32", "float64"}, v.n \in Int, NEW lossiness,
           NEW r, r \in FloatToInt64(v.n, lossiness)
    PROVE  IntegerResult(r, v, "int64", Int64, lossiness)
<1>1. PICK h \in Int : h = v.n
    OBVIOUS
<1>2. CASE r = Err
    BY <1>2 DEF IntegerResult
<1>3. CASE r # Err
  <2>1. /\ Integral(h) \/ lossiness = "permissive"
        /\ ~OutOfInt64(h)
    BY <1>1, <1>3 DEF FloatToInt64
  <2>2. PICK i \in ToRange(h, Int64) :
          r = Ok("int64", i, IF Integral(h) THEN SafeCoerce ELSE Lossy)
    BY <1>1, <2>1 DEF FloatToInt64
  <2>3. i \in Int64 /\ (Trunc(h) \in Int64 => i = Trunc(h))
    BY TruncFacts
  <2>4. ASSUME Integral(h) PROVE h = 2 * i \/ FloatAtLimit(v)
    <3>1. PICK p \in Nat : p = Pow2[W64 - 1] /\ p >= 1 /\ Int64 = -p .. p - 1
      <4>1. PICK s \in Nat, p \in Nat :
              s >= 2 /\ 2 * s <= p /\ p = Pow2[W64 - 1] /\ Int64 = -p .. p - 1
        BY Limits
      <4> QED
        BY <4>1
    <3>2. Round(2 * (p - 1), M64) <= 2 * p
      <4>1. p - 1 \in Int64
        BY <3>1
      <4> QED
        BY <3>1, <4>1, IntegerRounded
    <3>3. Round(2 * (p - 1), M64) \in Int
      <4>1. 2 * (p - 1) \in Int /\ M64 \in Nat
        BY <3>1, Significands
      <4> QED
        BY <4>1, RoundForm
    <3>4. h <= 2 * p /\ h >= -(2 * p)
      <4>1. PICK x \in Int : x = Round(2 * (p - 1), M64)
        BY <3>3
      <4>2. ~(h > x) /\ ~(h < -(2 * p))
        BY <2>1, <3>1, <4>1 DEF OutOfInt64
      <4> QED
        BY <3>2, <4>1, <4>2
    <3>5. CASE h = 2 * p
      BY <1>1, <3>1, <3>5 DEF FloatAtLimit
    <3>6. CASE h # 2 * p
      <4>1. 2 * Trunc(h) = h /\ Trunc(h) \in Int
        BY <2>4, TruncFacts
      <4>2. Trunc(h) \in Int64
        BY <3>1, <3>4, <3>6, <4>1
      <4> QED
        BY <2>3, <4>1, <4>2
    <3> QED
      BY <3>5, <3>6
  <2>5. CASE Integral(h)
    <3>1. r = Ok("int64", i, SafeCoerce) /\ Faithful(v, 2 * i, SafeCoerce, lossiness)
      BY <1>1, <2>2, <2>4, <2>5 DEF Faithful, Halves
    <3> QED
      BY <2>3, <3>1 DEF IntegerResult, Kinds
  <2>6. CASE ~Integral(h)
    <3>1. r = Ok("int64", i, Lossy) /\ Faithful(v, 2 * i, Lossy, lossiness)
      BY <2>1, <2>2, <2>6 DEF Faithful
    <3> QED
      BY <2>3, <3>1 DEF IntegerResult, Kinds
  <2> QED
    BY <2>5, <2>6
<1> QED
    BY <1>2, <1>3

(* Any value to int64.                                                     *)
LEMMA ToInt64Facts ==
    ASSUME NEW v, v.n \in GoRange(v.go), NEW lossiness, NEW r, r \in ToInt64(v, lossiness)
    PROVE  IntegerResult(r, v, "int64", Int64, lossiness)
<1>1. CASE v.go \in {"int64", "int32", "uint32"}
  <2>1. v.n \in Int64
    BY <1>1, CarriedFacts, Widening
  <2>2. r = Ok("int64", v.n, Lossless)
    BY <1>1 DEF ToInt64
  <2>3. Faithful(v, 2 * v.n, Lossless, lossiness)
    BY <1>1 DEF Faithful, Halves
  <2> QED
    BY <2>1, <2>2, <2>3 DEF IntegerResult, Kinds
<1>2. CASE v.go = "uint64"
  <2>1. v.n \in Int
    BY <1>2, CarriedFacts, Widening
  <2>2. CASE v.n \in Int64
    <3>1. r = Ok("int64", v.n, SafeCoerce)
      BY <1>2, <2>2 DEF ToInt64
    <3>2. Faithful(v, 2 * v.n, SafeCoerce, lossiness)
      BY <1>2 DEF Faithful, Halves
    <3> QED
      BY <2>2, <3>1, <3>2 DEF IntegerResult, Kinds
  <2>3. CASE v.n \notin Int64 /\ lossiness = "permissive"
    <3>1. r = Ok("int64", LowSigned(v.n, W64), Lossy)
      BY <1>2, <2>3 DEF ToInt64
    <3>2. Faithful(v, 2 * LowSigned(v.n, W64), Lossy, lossiness)
      BY <2>3 DEF Faithful
    <3>3. LowSigned(v.n, W64) \in Int64
      BY <2>1, LowFacts
    <3> QED
      BY <3>1, <3>2, <3>3 DEF IntegerResult, Kinds
  <2>4. CASE v.n \notin Int64 /\ lossiness # "permissive"
    BY <1>2, <2>4 DEF ToInt64, IntegerResult
  <2> QED
    BY <2>2, <2>3, <2>4
<1>3. CASE v.go \in {"float32", "float64"}
  <2>1. v.n \in Int
    BY <1>3, CarriedFacts
  <2>2. r \in FloatToInt64(v.n, lossiness)
    BY <1>3 DEF ToInt64
  <2> QED
    BY <1>3, <2>1, <2>2, FloatToInt64Facts
<1>4. CASE v.go = "bool"
  <2>1. r = Ok("int64", v.n, SafeCoerce) /\ v.n \in Int64
    BY <1>4, CarriedFacts, Widening DEF ToInt64
  <2>2. v.go \notin Machine
    BY <1>4 DEF Machine
  <2> QED
    BY <2>1, <2>2 DEF IntegerResult, Faithful, Kinds
<1>5. CASE v.go = "text" /\ Integral(v.n) /\ Trunc(v.n) \in Int64
  <2>1. r = Ok("int64", Trunc(v.n), SafeCoerce)
    BY <1>5 DEF ToInt64
  <2>2. v.go \notin Machine
    BY <1>5 DEF Machine
  <2> QED
    BY <1>5, <2>1, <2>2 DEF IntegerResult, Faithful, Kinds
<1>6. CASE /\ v.go \notin {"int64", "int32", "uint32", "uint64", "float32", "float64", "bool"}
           /\ ~(v.go = "text" /\ Integral(v.n) /\ Trunc(v.n) \in Int64)
  <2>1. r = Err
    BY <1>6 DEF ToInt64
  <2> QED
    BY <2>1 DEF IntegerResult
<1> QED
    BY <1>1, <1>2, <1>3, <1>4, <1>5, <1>6

(* A signed number as an unsigned one (coerceToUint64).                    *)
LEMMA SignedToUint64Facts ==
    ASSUME NEW v, NEW n \in Int64, NEW k \in Kinds, NEW lossiness,
           Faithful(v, 2 * n, k, lossiness),
           NEW r, r \in SignedToUint64(n, k, lossiness)
    PROVE  IntegerResult(r, v, "uint64", Uint64, lossiness)
<1>1. n \in Int
    BY Widening
<1>2. CASE n >= 0
  <2>1. r = Ok("uint64", n, k) /\ n \in Uint64
    BY <1>2, Widening DEF SignedToUint64
  <2> QED
    BY <2>1 DEF IntegerResult
<1>3. CASE ~(n >= 0) /\ lossiness = "permissive"
  <2>1. r = Ok("uint64", Low(n, W64), Lossy)
    BY <1>3 DEF SignedToUint64
  <2>2. Low(n, W64) \in Uint64
    BY <1>1, LowFacts
  <2>3. Faithful(v, 2 * Low(n, W64), Lossy, lossiness)
    BY <1>3 DEF Faithful
  <2> QED
    BY <2>1, <2>2, <2>3 DEF IntegerResult, Kinds
<1>4. CASE ~(n >= 0) /\ lossiness # "permissive"
    BY <1>4 DEF SignedToUint64, IntegerResult
<1> QED
    BY <1>2, <1>3, <1>4

(* A float64 to uint64.                                                    *)
LEMMA FloatToUint64Facts ==
    ASSUME NEW v, v.go = "float64", v.n \in Int, NEW lossiness,
           NEW r, r \in FloatToUint64(v.n, lossiness)
    PROVE  IntegerResult(r, v, "uint64", Uint64, lossiness)
<1>1. PICK h \in Int : h = v.n
    OBVIOUS
<1>2. CASE r = Err
    BY <1>2 DEF IntegerResult
<1>3. CASE r # Err /\ (h < 0 \/ ~Integral(h))
  <2>1. lossiness = "permissive"
    BY <1>1, <1>3 DEF FloatToUint64
  <2>2. PICK u \in ToRange(h, Uint64) : r = Ok("uint64", u, Lossy)
    BY <1>1, <1>3, <2>1 DEF FloatToUint64
  <2>3. u \in Uint64
    BY TruncFacts
  <2>4. Faithful(v, 2 * u, Lossy, lossiness)
    BY <2>1 DEF Faithful
  <2> QED
    BY <2>2, <2>3, <2>4 DEF IntegerResult, Kinds
<1>4. CASE r # Err /\ h >= 0 /\ Integral(h)
  <2>1. ~(h > Round(2 * (Pow2[W64] - 1), M64))
    BY <1>1, <1>4 DEF FloatToUint64
  <2>2. PICK u \in ToRange(h, Uint64) : r = Ok("uint64", u, SafeCoerce)
    BY <1>1, <1>4, <2>1 DEF FloatToUint64
  <2>3. u \in Uint64 /\ (Trunc(h) \in Uint64 => u = Trunc(h))
    BY TruncFacts
  <2>4. PICK q \in Nat : q = Pow2[W64] /\ q >= 1 /\ Uint64 = 0 .. q - 1
    <3>1. PICK s \in Nat, p \in Nat :
            s >= 2 /\ 2 * s <= p /\ Pow2[W64] = 2 * p /\ Uint64 = 0 .. 2 * p - 1
      BY Limits
    <3> QED
      BY <3>1
  <2>5. Round(2 * (q - 1), M64) <= 2 * q
    <3>1. q - 1 \in Uint64
      BY <2>4
    <3> QED
      BY <2>4, <3>1, IntegerRounded
  <2>6. Round(2 * (q - 1), M64) \in Int
    <3>1. 2 * (q - 1) \in Int /\ M64 \in Nat
      BY <2>4, Significands
    <3> QED
      BY <3>1, RoundForm
  <2>7. h <= 2 * q
    BY <2>1, <2>4, <2>5, <2>6
  <2>8. h = 2 * u \/ FloatAtLimit(v)
    <3>1. CASE h = 2 * q
      BY <1>1, <2>4, <3>1 DEF FloatAtLimit
    <3>2. CASE h # 2 * q
      <4>1. 2 * Trunc(h) = h /\ Trunc(h) \in Int
        BY <1>4, TruncFacts
      <4>2. Trunc(h) \in Uint64
        BY <1>4, <2>4, <2>7, <3>2, <4>1
      <4> QED
        BY <2>3, <4>1, <4>2
    <3> QED
      BY <3>1, <3>2
  <2>9. Faithful(v, 2 * u, SafeCoerce, lossiness)
    BY <1>1, <2>8 DEF Faithful, Halves
  <2> QED
    BY <2>2, <2>3, <2>9 DEF IntegerResult, Kinds
<1> QED
    BY <1>2, <1>3, <1>4

(* Any value to uint64.                                                    *)
LEMMA ToUint64Facts ==
    ASSUME NEW v, v.n \in GoRange(v.go), NEW lossiness, NEW r, r \in ToUint64(v, lossiness)
    PROVE  IntegerResult(r, v, "uint64", Uint64, lossiness)
<1>1. CASE v.go \in {"uint64", "uint32"}
  <2>1. v.n \in Uint64
    BY <1>1, CarriedFacts, Widening
  <2>2. r = Ok("uint64", v.n, Lossless)
    BY <1>1 DEF ToUint64
  <2>3. Faithful(v, 2 * v.n, Lossless, lossiness)
    BY <1>1 DEF Faithful, Halves
  <2> QED
    BY <2>1, <2>2, <2>3 DEF IntegerResult, Kinds
<1>2. CASE v.go \in {"int64", "int32"}
  <2>1. v.n \in Int64
    BY <1>2, CarriedFacts, Widening
  <2>2. r \in SignedToUint64(v.n, SafeCoerce, lossiness)
    BY <1>2 DEF ToUint64
  <2>3. Faithful(v, 2 * v.n, SafeCoerce, lossiness)
    BY <1>2 DEF Faithful, Halves
  <2>4. SafeCoerce \in Kinds
    BY DEF Kinds
  <2> QED
    BY <2>1, <2>2, <2>3, <2>4, SignedToUint64Facts
<1>3. CASE v.go = "float64"
  <2>1. v.n \in Int /\ r \in FloatToUint64(v.n, lossiness)
    BY <1>3, CarriedFacts DEF ToUint64
  <2> QED
    BY <1>3, <2>1, FloatToUint64Facts
<1>4. CASE v.go = "nonfinite64" /\ r # Err
  <2>1. PICK u \in Uint64 : r = Ok("uint64", u, Lossy)
    BY <1>4 DEF ToUint64
  <2>2. Faithful(v, 2 * u, Lossy, lossiness)
    BY <1>4 DEF Faithful, Machine
  <2> QED
    BY <2>1, <2>2 DEF IntegerResult, Kinds
<1>5. CASE /\ v.go \notin {"uint64", "uint32", "int64", "int32", "float64", "nonfinite64"}
           /\ r # Err
  <2>1. r \in UNION {IF s.ok THEN SignedToUint64(s.val.n, s.kind, lossiness)
                     ELSE {Err} : s \in ToInt64(v, lossiness)}
    BY <1>5 DEF ToUint64
  <2>2. PICK s \in ToInt64(v, lossiness) :
          s.ok /\ r \in SignedToUint64(s.val.n, s.kind, lossiness)
    BY <1>5, <2>1
  <2>3. IntegerResult(s, v, "int64", Int64, lossiness)
    BY ToInt64Facts
  <2>4. PICK i \in Int64, k \in Kinds :
          s = Ok("int64", i, k) /\ Faithful(v, 2 * i, k, lossiness)
    BY <2>2, <2>3 DEF IntegerResult, Err
  <2>5. s.val.n = i /\ s.kind = k
    BY <2>4 DEF Ok, Value
  <2> QED
    BY <2>2, <2>4, <2>5, SignedToUint64Facts
<1>6. CASE r = Err
    BY <1>6 DEF IntegerResult
<1> QED
    BY <1>1, <1>2, <1>3, <1>4, <1>5, <1>6

(* f halves with kind k are what v is, or its rounding is permitted and    *)
(* reported, a uint64's possibly as a safe coercion.                       *)
Rounded(v, f, k, lossiness) ==
    v.go \in Machine => \/ Halves(v) = f
                        \/ lossiness # "strict" /\ (k = Lossy \/ v.go = "uint64")
                        \/ IntegerAtLimit(v)

(* The results of type float64 for v.                                      *)
FloatResult(r, v, lossiness) ==
    \/ r = Err
    \/ \E f \in Floats(M64), k \in Kinds :
          r = Ok("float64", f, k) /\ Rounded(v, f, k, lossiness)
    \/ \E f \in -1 .. 1, k \in Kinds :
          r = Ok("nonfinite64", f, k) /\ v.go \notin Machine

(* A 64-bit integer to float64, checked by converting it back.             *)
LEMMA IntegerToFloat64Facts ==
    ASSUME NEW v, NEW range, NEW lossiness,
           NEW r, r \in IntegerToFloat64(v.n, range, lossiness), v.n \in range,
           \/ v.go = "int64" /\ range = Int64
           \/ v.go = "uint64" /\ range = Uint64
    PROVE  FloatResult(r, v, lossiness)
<1>1. PICK n \in Int : n = v.n
    BY Widening
<1>2. PICK f \in Int : f = Round(2 * n, M64)
  <2>1. 2 * n \in Int /\ M64 \in Nat
    BY Significands
  <2> QED
    BY <2>1, RoundForm
<1>3. f \in Floats(M64) /\ Integral(f)
    BY <1>1, <1>2, IntegerRounded
<1>4. PICK back \in ToRange(f, range) :
        r = IF back = n THEN Ok("float64", f, SafeCoerce)
            ELSE IF lossiness = "strict" THEN Err
            ELSE Ok("float64", f, IF range = Int64 THEN Lossy ELSE SafeCoerce)
    BY <1>1, <1>2 DEF IntegerToFloat64
<1>5. Trunc(f) \in range => back = Trunc(f)
    BY TruncFacts
<1>6. 2 * Trunc(f) = f /\ Trunc(f) \in Int
    BY <1>3, TruncFacts
<1>7. Trunc(f) \in range \/ IntegerAtLimit(v)
  <2>1. PICK p \in Nat : /\ p = Pow2[W64 - 1] /\ Pow2[W64] = 2 * p
                         /\ Int64 = -p .. p - 1 /\ Uint64 = 0 .. 2 * p - 1
    BY Limits
  <2>2. CASE v.go = "int64" /\ range = Int64
    <3>1. f >= -(2 * p) /\ f <= 2 * p
      BY <1>1, <1>2, <2>1, <2>2, IntegerRounded
    <3>2. CASE f = 2 * p
      BY <1>1, <1>2, <2>1, <2>2, <3>2 DEF IntegerAtLimit
    <3>3. CASE f # 2 * p
      <4>1. PICK t \in Int : t = Trunc(f) /\ 2 * t = f
        BY <1>6
      <4>2. t \in -p .. p - 1
        BY <3>1, <3>3, <4>1
      <4> QED
        BY <2>1, <2>2, <4>1, <4>2
    <3> QED
      BY <3>2, <3>3
  <2>3. CASE v.go = "uint64" /\ range = Uint64
    <3>1. f >= 0 /\ f <= 4 * p
      <4>1. Round(2 * n, M64) >= 0 /\ Round(2 * n, M64) <= 2 * Pow2[W64]
        BY <1>1, <2>3, IntegerRounded
      <4> QED
        BY <1>2, <2>1, <4>1
    <3>2. CASE f = 4 * p
      <4>1. Round(2 * v.n, M64) = 2 * Pow2[W64]
        BY <1>1, <1>2, <2>1, <3>2
      <4> QED
        BY <2>3, <4>1 DEF IntegerAtLimit
    <3>3. CASE f # 4 * p
      <4>1. PICK t \in Int : t = Trunc(f) /\ 2 * t = f
        BY <1>6
      <4>2. t \in 0 .. 2 * p - 1
        BY <3>1, <3>3, <4>1
      <4> QED
        BY <2>1, <2>3, <4>1, <4>2
    <3> QED
      BY <3>2, <3>3
  <2> QED
    BY <2>2, <2>3
<1>8. CASE back = n
  <2>1. r = Ok("float64", f, SafeCoerce)
    BY <1>4, <1>8
  <2>2. Halves(v) = 2 * n
    BY <1>1 DEF Halves
  <2>3. Rounded(v, f, SafeCoerce, lossiness)
    BY <1>5, <1>6, <1>7, <1>8, <2>2 DEF Rounded
  <2> QED
    BY <1>3, <2>1, <2>3 DEF FloatResult, Kinds
<1>9. CASE back # n /\ lossiness = "strict"
    BY <1>4, <1>9 DEF FloatResult
<1>10. CASE back # n /\ lossiness # "strict"
  <2>1. PICK k \in Kinds : r = Ok("float64", f, k) /\ (k = Lossy \/ v.go = "uint64")
    BY <1>4, <1>10 DEF Kinds
  <2>2. Rounded(v, f, k, lossiness)
    BY <1>10, <2>1 DEF Rounded
  <2> QED
    BY <1>3, <2>1, <2>2 DEF FloatResult
<1> QED
    BY <1>8, <1>9, <1>10

(* A float with the smaller significand is one with the larger.            *)
LEMMA FloatsGrow == Floats(M32) \subseteq Floats(M64)
<1>1. M32 \in Nat /\ M64 \in Nat /\ 1 <= M32 /\ M32 <= M64
    BY Significands
<1>2. ASSUME NEW h \in Floats(M32) PROVE h \in Floats(M64)
  <2>1. h \in Int /\ Round(h, M32) = h
    BY DEF Floats
  <2>2. Round(h, M32) \in Floats(M64)
    BY <1>1, <2>1, RoundIdempotent
  <2> QED
    BY <2>1, <2>2
<1> QED
    BY <1>2

(* A 32-bit integer is a float64.                                          *)
LEMMA SmallIntegers == \A n \in Int32 \cup Uint32 : 2 * n \in Floats(M64)
<1>1. PICK w \in Nat, m \in Nat : w = W32 /\ m = M64 /\ 1 <= m /\ w <= m
    BY Limits
<1>2. PICK s \in Nat : Pow2[W32] = 2 * s /\ Int32 = -s .. s - 1 /\ Uint32 = 0 .. 2 * s - 1
    BY Limits
<1>3. ASSUME NEW n \in Int32 \cup Uint32 PROVE 2 * n \in Floats(M64)
  <2>1. n \in Int /\ 2 * n \in Int /\ Magnitude(n) \in Nat /\ Magnitude(n) <= Pow2[W32]
    BY <1>2 DEF Magnitude
  <2>2. Pow2[W32] <= Pow2[m]
    <3>1. CASE w = m
      BY <1>1, <1>2, <3>1
    <3>2. CASE w < m
      <4>1. 2 * Pow2[w] <= Pow2[m]
        BY <1>1, <3>2, Pow2Grows
      <4>2. Pow2[m] \in Nat
        BY Pow2Facts
      <4> QED
        BY <1>1, <1>2, <4>1, <4>2
    <3> QED
      BY <1>1, <3>1, <3>2
  <2>3. Magnitude(n) <= Pow2[m]
    <3>1. Pow2[m] \in Nat
      BY Pow2Facts
    <3> QED
      BY <1>2, <2>1, <2>2, <3>1
  <2>4. Magnitude(2 * n) = Magnitude(n) * Pow2[1]
    <3>1. Pow2[1] = 2
      <4>1. Pow2[0 + 1] = 2 * Pow2[0] /\ Pow2[0] = 1
        BY Pow2Facts
      <4> QED
        BY <4>1
    <3>2. Magnitude(2 * n) = Magnitude(n) * 2
      BY <2>1 DEF Magnitude
    <3> QED
      BY <3>1, <3>2
  <2>5. Round(2 * n, m) = 2 * n
    BY <1>1, <2>1, <2>3, <2>4, RoundFixed
  <2> QED
    BY <1>1, <2>1, <2>5 DEF Floats
<1> QED
    BY <1>3

(* Any value to float64.                                                   *)
LEMMA ToFloat64Facts ==
    ASSUME NEW v, v.n \in GoRange(v.go), NEW lossiness, NEW r, r \in ToFloat64(v, lossiness)
    PROVE  FloatResult(r, v, lossiness)
<1>1. CASE v.go \in {"float64", "float32"}
  <2>1. v.n \in Floats(M64)
    BY <1>1, CarriedFacts, FloatsGrow
  <2>2. PICK k \in Kinds : r = Ok("float64", v.n, k)
    BY <1>1 DEF ToFloat64, Kinds
  <2>3. Rounded(v, v.n, k, lossiness)
    BY <1>1 DEF Rounded, Halves
  <2> QED
    BY <2>1, <2>2, <2>3 DEF FloatResult
<1>2. CASE v.go \in {"nonfinite64", "nonfinite32"}
  <2>1. v.n \in -1 .. 1 /\ v.go \notin Machine
    BY <1>2, CarriedFacts DEF NonFinite, Machine
  <2>2. PICK k \in Kinds : r = Ok("nonfinite64", v.n, k)
    BY <1>2 DEF ToFloat64, Kinds
  <2> QED
    BY <2>1, <2>2 DEF FloatResult
<1>3. CASE v.go = "int64"
  <2>1. v.n \in Int64 /\ r \in IntegerToFloat64(v.n, Int64, lossiness)
    BY <1>3, CarriedFacts DEF ToFloat64
  <2> QED
    BY <1>3, <2>1, IntegerToFloat64Facts
<1>4. CASE v.go = "uint64"
  <2>1. v.n \in Uint64 /\ r \in IntegerToFloat64(v.n, Uint64, lossiness)
    BY <1>4, CarriedFacts DEF ToFloat64
  <2> QED
    BY <1>4, <2>1, IntegerToFloat64Facts
<1>5. CASE v.go \in {"int32", "uint32"}
  <2>1. v.n \in Int32 \cup Uint32
    BY <1>5, CarriedFacts
  <2>2. 2 * v.n \in Floats(M64)
    BY <2>1, SmallIntegers
  <2>3. r = Ok("float64", 2 * v.n, Lossless)
    BY <1>5 DEF ToFloat64
  <2>4. Rounded(v, 2 * v.n, Lossless, lossiness)
    BY <1>5 DEF Rounded, Halves
  <2> QED
    BY <2>2, <2>3, <2>4 DEF FloatResult, Kinds
<1>6. CASE v.go = "text"
  <2>1. v.n \in Int /\ M64 \in Nat /\ 1 <= M64 /\ M64 <= M64
    <3>1. M64 \in Nat /\ 1 <= M64
      BY Significands
    <3>2. v.n \in Int
      BY <1>6, CarriedFacts
    <3> QED
      BY <3>1, <3>2
  <2>2. Round(v.n, M64) \in Floats(M64)
    BY <2>1, RoundIdempotent
  <2>3. r = Ok("float64", Round(v.n, M64), SafeCoerce)
    BY <1>6 DEF ToFloat64
  <2>4. Rounded(v, Round(v.n, M64), SafeCoerce, lossiness)
    BY <1>6 DEF Rounded, Machine
  <2> QED
    BY <2>2, <2>3, <2>4 DEF FloatResult, Kinds
<1>7. CASE v.go \notin {"float64", "float32", "nonfinite64", "nonfinite32", "int64",
                        "uint64", "int32", "uint32", "text"}
  <2>1. r = Err
    BY <1>7 DEF ToFloat64
  <2> QED
    BY <2>1 DEF FloatResult
<1> QED
    BY <1>1, <1>2, <1>3, <1>4, <1>5, <1>6, <1>7

-----------------------------------------------------------------------------
(* coerceValue.                                                            *)

(* What a result o of a conversion to the type "to" is: its number is one  *)
(* of its type, and a change of v is permitted and reported.               *)
Sound(o, v, to, lossiness) ==
    /\ o.val.go \in Machine => o.val.n \in GoRange(o.val.go)
    /\ (o.ok /\ {v.go, o.val.go} \subseteq Machine /\ Halves(v) # Halves(o.val)) =>
          \/ FloatAtLimit(v)
          \/ to \in IsFloat /\ IntegerAtLimit(v)
          \/ /\ lossiness # "strict"
             /\ \/ o.kind = Lossy \/ o.note = Lossy
                \/ v.go = "uint64" /\ to \in IsFloat

(* The ranges of the machine's types.                                      *)
LEMMA RangeFacts ==
    /\ GoRange("int64") = Int64 /\ GoRange("int32") = Int32
    /\ GoRange("uint64") = Uint64 /\ GoRange("uint32") = Uint32
    /\ GoRange("float64") = Floats(M64) /\ GoRange("float32") = Floats(M32)
    BY DEF GoRange, NonFinite

(* Results that are sound whatever was converted.                          *)
LEMMA PlainSound ==
    ASSUME NEW o, NEW v, NEW to, NEW lossiness,
           o.val.go \notin Machine \/ (o.val.go = v.go /\ o.val.n = v.n /\ v.n \in GoRange(v.go))
    PROVE  Sound(o, v, to, lossiness)
    BY DEF Sound, Halves

(* A 64-bit integer result.                                                *)
LEMMA IntegerSound ==
    ASSUME NEW v, NEW to, NEW lossiness, NEW r, NEW go, NEW range,
           \/ go = "int64" /\ range = Int64
           \/ go = "uint64" /\ range = Uint64,
           IntegerResult(r, v, go, range, lossiness)
    PROVE  Sound(r, v, to, lossiness)
<1>1. CASE r = Err
    BY <1>1 DEF Sound, Err, Value, Machine
<1>2. CASE r # Err
  <2>1. PICK i \in range, k \in Kinds :
          r = Ok(go, i, k) /\ Faithful(v, 2 * i, k, lossiness)
    BY <1>2 DEF IntegerResult
  <2>2. r.val.go = go /\ r.val.n = i /\ r.kind = k
    BY <2>1 DEF Ok, Value
  <2>3. i \in GoRange(go) /\ Halves(r.val) = 2 * i
    BY <2>2, RangeFacts DEF Halves
  <2> QED
    BY <2>1, <2>2, <2>3 DEF Sound, Faithful
<1> QED
    BY <1>1, <1>2

(* A 32-bit integer result.                                                *)
LEMMA NarrowSound ==
    ASSUME NEW v, NEW to, NEW lossiness, NEW r,
           NEW wide, NEW wideRange, NEW go, NEW range,
           \/ wide = "int64" /\ wideRange = Int64 /\ go = "int32" /\ range = Int32
           \/ wide = "uint64" /\ wideRange = Uint64 /\ go = "uint32" /\ range = Uint32,
           IntegerResult(r, v, wide, wideRange, lossiness)
    PROVE  Sound(Narrow(r, go, range, W32, lossiness), v, to, lossiness)
<1>1. CASE Narrow(r, go, range, W32, lossiness) = Err
    BY <1>1 DEF Sound, Err, Value, Machine
<1>2. CASE Narrow(r, go, range, W32, lossiness) # Err
  <2>1. r.ok
    BY <1>2 DEF Narrow
  <2>2. PICK i \in wideRange, k \in Kinds :
          r = Ok(wide, i, k) /\ Faithful(v, 2 * i, k, lossiness)
    BY <2>1 DEF IntegerResult, Err
  <2>3. r.val.n = i /\ r.kind = k
    BY <2>2 DEF Ok, Value
  <2>4. CASE i \in range
    <3>1. Narrow(r, go, range, W32, lossiness) = Ok(go, i, k)
      BY <2>1, <2>3, <2>4 DEF Narrow
    <3>2. IntegerResult(Ok(go, i, k), v, go, range, lossiness)
      BY <2>2, <2>4 DEF IntegerResult
    <3>3. /\ Ok(go, i, k).val.go = go /\ Ok(go, i, k).val.n = i
          /\ Ok(go, i, k).kind = k
      BY DEF Ok, Value
    <3>4. i \in GoRange(go) /\ Halves(Ok(go, i, k).val) = 2 * i
      BY <2>4, <3>3, RangeFacts DEF Halves
    <3> QED
      BY <2>2, <3>1, <3>3, <3>4 DEF Sound, Faithful
  <2>5. CASE i \notin range
    <3>1. lossiness = "permissive"
      BY <1>2, <2>1, <2>3, <2>5 DEF Narrow
    <3>2. PICK x : x = IF go = "int32" THEN LowSigned(i, W32) ELSE Low(i, W32)
      OBVIOUS
    <3>3. Narrow(r, go, range, W32, lossiness) = [Ok(go, x, k) EXCEPT !.note = Lossy]
      BY <2>1, <2>3, <2>5, <3>1, <3>2 DEF Narrow
    <3>4. i \in Int
      BY Widening
    <3>5. x \in range
      BY <3>2, <3>4, LowFacts
    <3>6. x \in GoRange(go)
      BY <3>5, RangeFacts
    <3>7. PICK o : o = Narrow(r, go, range, W32, lossiness)
      OBVIOUS
    <3>8. o.val.go = go /\ o.val.n = x /\ o.note = Lossy
      BY <3>3, <3>7 DEF Ok, Value
    <3> QED
      BY <3>1, <3>6, <3>7, <3>8 DEF Sound
  <2> QED
    BY <2>4, <2>5
<1> QED
    BY <1>1, <1>2

(* A float64 result.                                                       *)
LEMMA FloatSound ==
    ASSUME NEW v, NEW to \in IsFloat, NEW lossiness, NEW r, FloatResult(r, v, lossiness)
    PROVE  Sound(r, v, to, lossiness)
<1>1. CASE r = Err
    BY <1>1 DEF Sound, Err, Value, Machine
<1>2. ASSUME NEW f \in Floats(M64), NEW k \in Kinds,
             r = Ok("float64", f, k), Rounded(v, f, k, lossiness)
      PROVE  Sound(r, v, to, lossiness)
  <2>1. r.val.go = "float64" /\ r.val.n = f /\ r.kind = k
    BY <1>2 DEF Ok, Value
  <2>2. f \in GoRange("float64") /\ Halves(r.val) = f
    BY <2>1, RangeFacts DEF Halves
  <2> QED
    BY <1>2, <2>1, <2>2 DEF Sound, Rounded
<1>3. ASSUME NEW f, NEW k, r = Ok("nonfinite64", f, k)
      PROVE  Sound(r, v, to, lossiness)
    BY <1>3 DEF Sound, Ok, Value, Machine
<1> QED
    BY <1>1, <1>2, <1>3 DEF FloatResult

(* A float32 result.                                                       *)
LEMMA Float32Sound ==
    ASSUME NEW v, NEW to \in IsFloat, NEW lossiness, NEW r, FloatResult(r, v, lossiness)
    PROVE  Sound(ToFloat32(r, lossiness), v, to, lossiness)
<1>1. CASE ToFloat32(r, lossiness) = Err
    BY <1>1 DEF Sound, Err, Value, Machine
<1>2. CASE ToFloat32(r, lossiness) # Err /\ r.val.go = "nonfinite64"
  <2>1. ToFloat32(r, lossiness).val.go = "nonfinite32"
    BY <1>2 DEF ToFloat32, Ok, Value
  <2> QED
    BY <2>1 DEF Sound, Machine
<1>3. CASE ToFloat32(r, lossiness) # Err /\ r.val.go # "nonfinite64"
  <2>1. r.ok
    BY <1>3 DEF ToFloat32
  <2>2. PICK h \in Floats(M64), k \in Kinds :
          r = Ok("float64", h, k) /\ Rounded(v, h, k, lossiness)
    BY <1>3, <2>1 DEF FloatResult, Err, Ok, Value
  <2>3. r.val.n = h /\ r.kind = k
    BY <2>2 DEF Ok, Value
  <2>4. PICK f \in Floats(M32) : f = Round(h, M32)
    <3>1. h \in Int
      BY DEF Floats
    <3>2. M32 \in Nat /\ 1 <= M32
      BY Significands
    <3>3. M32 <= M32
      BY <3>2
    <3> QED
      BY <3>1, <3>2, <3>3, RoundIdempotent
  <2>5. PICK o : o = ToFloat32(r, lossiness)
    OBVIOUS
  <2>6. f \in GoRange("float32")
    BY RangeFacts
  <2>7. CASE f = h
    <3>1. o = Ok("float32", f, k)
      BY <1>3, <2>1, <2>3, <2>4, <2>5, <2>7 DEF ToFloat32
    <3>2. o.val.go = "float32" /\ o.val.n = f /\ o.kind = k
      BY <3>1 DEF Ok, Value
    <3>3. Halves(o.val) = h
      BY <2>7, <3>2 DEF Halves
    <3> QED
      BY <2>2, <2>5, <2>6, <3>2, <3>3 DEF Sound, Rounded
  <2>8. CASE f # h
    <3>1. o = Ok("float32", f, Lossy) /\ lossiness # "strict"
      BY <1>3, <2>1, <2>3, <2>4, <2>5, <2>8 DEF ToFloat32
    <3>2. o.val.go = "float32" /\ o.val.n = f /\ o.kind = Lossy
      BY <3>1 DEF Ok, Value
    <3> QED
      BY <2>5, <2>6, <3>1, <3>2 DEF Sound
  <2> QED
    BY <2>7, <2>8
<1> QED
    BY <1>1, <1>2, <1>3

(* The parts of a result.                                                  *)
Form(o) ==
    /\ DOMAIN o = {"ok", "val", "kind", "note"}
    /\ o.kind \in Lossless .. Unsupported
    /\ o.note \in Lossless .. Unsupported

(* The kinds of results.                                                   *)
LEMMA KindFacts ==
    /\ Kinds \subseteq Lossless .. Unsupported
    /\ Lossy \in Kinds /\ SafeCoerce \in Kinds /\ Lossless \in Kinds
    /\ Unsupported \in Lossless .. Unsupported
    BY DEF Kinds, Lossless, SafeCoerce, Lossy, Unsupported

(* A result that is no refusal, and its parts.                             *)
LEMMA OkForm ==
    ASSUME NEW g, NEW x, NEW k \in Kinds
    PROVE  /\ Form(Ok(g, x, k))
           /\ Ok(g, x, k).ok /\ Ok(g, x, k).val.go = g /\ Ok(g, x, k).val.n = x
           /\ Ok(g, x, k).kind = k /\ Ok(g, x, k).note = Lossless
<1>1. /\ DOMAIN Ok(g, x, k) = {"ok", "val", "kind", "note"}
      /\ Ok(g, x, k).ok /\ Ok(g, x, k).val = Value(g, x)
      /\ Ok(g, x, k).kind = k /\ Ok(g, x, k).note = Lossless
    BY DEF Ok
<1>2. Ok(g, x, k).val.go = g /\ Ok(g, x, k).val.n = x
    BY <1>1 DEF Value
<1>3. k \in Lossless .. Unsupported /\ Lossless \in Lossless .. Unsupported
    BY KindFacts
<1> QED
    BY <1>1, <1>2, <1>3 DEF Form

(* A refusal, and the notes that are added to results.                     *)
LEMMA ErrForm == Form(Err) /\ ~Err.ok /\ Err.val.go \notin Machine
    BY KindFacts DEF Form, Err, Value, Machine

(* What changes kind and note of a result keeps its value.                 *)
LEMMA NotedForm ==
    ASSUME NEW o, Form(o), NEW k \in Lossless .. Unsupported, NEW n \in Lossless .. Unsupported
    PROVE  /\ Form([o EXCEPT !.note = n])
           /\ LET c == [o EXCEPT !.kind = k, !.note = n]
              IN  c.ok = o.ok /\ c.val = o.val /\ c.kind = k /\ c.note = n
    BY DEF Form

(* The forms of the helpers' results.                                      *)
LEMMA HelperForms ==
    ASSUME NEW v, NEW lossiness, NEW r
    PROVE  /\ \A go, range : IntegerResult(r, v, go, range, lossiness) =>
                /\ Form(r)
                /\ \A g, rg, w : Form(Narrow(r, g, rg, w, lossiness))
           /\ FloatResult(r, v, lossiness) => Form(r) /\ Form(ToFloat32(r, lossiness))
<1>1. ASSUME NEW go, NEW range, IntegerResult(r, v, go, range, lossiness)
      PROVE  /\ Form(r)
             /\ \A g, rg, w : Form(Narrow(r, g, rg, w, lossiness))
  <2>1. CASE r = Err
    BY <2>1, ErrForm DEF Narrow
  <2>2. CASE r # Err
    <3>1. PICK i \in range, k \in Kinds : r = Ok(go, i, k)
      BY <1>1, <2>2 DEF IntegerResult
    <3>2. Form(Ok(go, i, k)) /\ Ok(go, i, k).kind = k
      BY OkForm
    <3>3. Form(r) /\ r.kind \in Kinds
      BY <3>1, <3>2
    <3>4. ASSUME NEW g, NEW rg, NEW w PROVE Form(Narrow(r, g, rg, w, lossiness))
      <4>1. PICK x : x = IF g = "int32" THEN LowSigned(i, w) ELSE Low(i, w)
        OBVIOUS
      <4>2. r.val.n = i /\ r.kind = k
        BY <3>1, OkForm
      <4>3. \/ Narrow(r, g, rg, w, lossiness) = Err
            \/ Narrow(r, g, rg, w, lossiness) = Ok(g, i, k)
            \/ Narrow(r, g, rg, w, lossiness) = [Ok(g, x, k) EXCEPT !.note = Lossy]
        BY <4>1, <4>2 DEF Narrow
      <4>4. Form(Ok(g, i, k)) /\ Form(Ok(g, x, k))
        BY OkForm
      <4>5. Form([Ok(g, x, k) EXCEPT !.note = Lossy])
        BY <4>4, KindFacts, NotedForm
      <4> QED
        BY <4>3, <4>4, <4>5, ErrForm
    <3> QED
      BY <3>3, <3>4
  <2> QED
    BY <2>1, <2>2
<1>2. ASSUME FloatResult(r, v, lossiness)
      PROVE  Form(r) /\ Form(ToFloat32(r, lossiness))
  <2>1. CASE r = Err
    BY <2>1, ErrForm DEF ToFloat32
  <2>2. CASE r # Err
    <3>1. PICK g, x : \E k \in Kinds : r = Ok(g, x, k)
      BY <1>2, <2>2 DEF FloatResult
    <3>2. PICK k \in Kinds : r = Ok(g, x, k)
      BY <3>1
    <3>3. Form(Ok(g, x, k)) /\ Ok(g, x, k).kind = k
      BY OkForm
    <3>4. Form(r) /\ r.kind \in Kinds
      BY <3>2, <3>3
    <3>5. PICK h, c : \E d \in Kinds :
            ToFloat32(r, lossiness) \in {Err, Ok(h, c, d)}
      BY <3>4, KindFacts DEF ToFloat32
    <3>6. PICK d \in Kinds : ToFloat32(r, lossiness) \in {Err, Ok(h, c, d)}
      BY <3>5
    <3>7. Form(Ok(h, c, d))
      BY OkForm
    <3> QED
      BY <3>4, <3>6, <3>7, ErrForm
  <2> QED
    BY <2>1, <2>2
<1> QED
    BY <1>1, <1>2

(* The kinds of types are apart from each other.                           *)
LEMMA TypesApart ==
    ASSUME NEW t
    PROVE  /\ t \in Signed32 => t \notin Signed64 \cup Unsigned32 \cup Unsigned64 \cup IsFloat
           /\ t \in Signed64 => t \notin Unsigned32 \cup Unsigned64 \cup IsFloat
           /\ t \in Unsigned32 => t \notin Unsigned64 \cup IsFloat
           /\ t \in Unsigned64 => t \notin IsFloat
           /\ t \in IsInteger \cup IsFloat => t \notin Texts \cup {"Boolean", "Bytes", "Null", "Unknown"}
           /\ t \in Texts => t \notin {"Boolean", "Bytes", "Null", "Unknown"}
    BY DEF Signed32, Signed64, Unsigned32, Unsigned64, IsInteger, IsFloat, Texts, IsLogical

(* What the target types make of a value.                                  *)
LEMMA SwitchCases ==
    ASSUME NEW v, NEW to, NEW kind, NEW lossiness
    PROVE  /\ to \in Signed32 => Switch(v, to, kind, lossiness) =
                {Narrow(r, "int32", Int32, W32, lossiness) : r \in ToInt64(v, lossiness)}
           /\ to \in Signed64 => Switch(v, to, kind, lossiness) = ToInt64(v, lossiness)
           /\ to \in Unsigned32 => Switch(v, to, kind, lossiness) =
                {Narrow(r, "uint32", Uint32, W32, lossiness) : r \in ToUint64(v, lossiness)}
           /\ to \in Unsigned64 => Switch(v, to, kind, lossiness) = ToUint64(v, lossiness)
           /\ to = "Float32" => Switch(v, to, kind, lossiness) =
                {ToFloat32(r, lossiness) : r \in ToFloat64(v, lossiness)}
           /\ to = "Float64" => Switch(v, to, kind, lossiness) = ToFloat64(v, lossiness)
           /\ to \in Texts => Switch(v, to, kind, lossiness) =
                {IF v.go \in GoText THEN Ok(v.go, v.n, kind)
                 ELSE Ok(Printed(v).go, Printed(v).n, SafeCoerce)}
           /\ to = "Boolean" => Switch(v, to, kind, lossiness) = ToBoolean(v, kind)
           /\ to = "Null" => Switch(v, to, kind, lossiness) = {Ok("nil", 0, kind)}
           /\ to \notin IsInteger \cup IsFloat \cup Texts \cup {"Boolean", "Null"} =>
                Switch(v, to, kind, lossiness) = {Ok(v.go, v.n, kind)}
<1>1. to \in IsFloat <=> to \in {"Float32", "Float64"}
    BY DEF IsFloat
<1>2. IsInteger = Signed32 \cup Signed64 \cup Unsigned32 \cup Unsigned64
    BY DEF IsInteger
<1>3. CASE to \in Signed32
    BY <1>1, <1>2, <1>3, TypesApart DEF Switch
<1>4. CASE to \in Signed64
    BY <1>1, <1>2, <1>4, TypesApart DEF Switch
<1>5. CASE to \in Unsigned32
    BY <1>1, <1>2, <1>5, TypesApart DEF Switch
<1>6. CASE to \in Unsigned64
    BY <1>1, <1>2, <1>6, TypesApart DEF Switch
<1>7. CASE to \in IsFloat
    BY <1>1, <1>2, <1>7, TypesApart DEF Switch
<1>8. CASE to \in Texts
    BY <1>1, <1>2, <1>8, TypesApart DEF Switch
<1>9. CASE to \notin IsInteger \cup IsFloat \cup Texts
    BY <1>1, <1>2, <1>9 DEF Switch
<1> QED
    BY <1>2, <1>3, <1>4, <1>5, <1>6, <1>7, <1>8, <1>9

(* A text is no machine number.                                            *)
LEMMA PrintedFacts == \A v : Printed(v).go \notin Machine /\ GoText \cap Machine = {}
    BY DEF Printed, Value, Machine, GoText, NonFinite

(* Results that are sound whatever was converted.                          *)
LEMMA OkSound ==
    ASSUME NEW v, NEW to, NEW lossiness, NEW g, NEW x, NEW k \in Kinds,
           g \notin Machine \/ (g = v.go /\ x = v.n /\ v.n \in GoRange(v.go))
    PROVE  Form(Ok(g, x, k)) /\ Sound(Ok(g, x, k), v, to, lossiness)
<1>1. /\ Form(Ok(g, x, k))
      /\ Ok(g, x, k).val.go = g /\ Ok(g, x, k).val.n = x
    BY OkForm
<1>2. Sound(Ok(g, x, k), v, to, lossiness)
    BY <1>1, PlainSound
<1> QED
    BY <1>1, <1>2

(* Every result of the switch is sound.                                    *)
LEMMA SwitchSound ==
    ASSUME NEW v, v.n \in GoRange(v.go), NEW to, NEW kind \in Kinds, NEW lossiness,
           NEW o, o \in Switch(v, to, kind, lossiness)
    PROVE  Form(o) /\ Sound(o, v, to, lossiness)
<1>1. CASE to \in Signed32
  <2>1. PICK r \in ToInt64(v, lossiness) : o = Narrow(r, "int32", Int32, W32, lossiness)
    BY <1>1, SwitchCases
  <2>2. IntegerResult(r, v, "int64", Int64, lossiness)
    BY ToInt64Facts
  <2> QED
    BY <2>1, <2>2, NarrowSound, HelperForms
<1>2. CASE to \in Signed64
  <2>1. IntegerResult(o, v, "int64", Int64, lossiness)
    BY <1>2, SwitchCases, ToInt64Facts
  <2> QED
    BY <2>1, IntegerSound, HelperForms
<1>3. CASE to \in Unsigned32
  <2>1. PICK r \in ToUint64(v, lossiness) : o = Narrow(r, "uint32", Uint32, W32, lossiness)
    BY <1>3, SwitchCases
  <2>2. IntegerResult(r, v, "uint64", Uint64, lossiness)
    BY ToUint64Facts
  <2> QED
    BY <2>1, <2>2, NarrowSound, HelperForms
<1>4. CASE to \in Unsigned64
  <2>1. IntegerResult(o, v, "uint64", Uint64, lossiness)
    BY <1>4, SwitchCases, ToUint64Facts
  <2> QED
    BY <2>1, IntegerSound, HelperForms
<1>5. CASE to = "Float32"
  <2>1. PICK r \in ToFloat64(v, lossiness) : o = ToFloat32(r, lossiness)
    BY <1>5, SwitchCases
  <2>2. FloatResult(r, v, lossiness) /\ to \in IsFloat
    BY <1>5, ToFloat64Facts DEF IsFloat
  <2> QED
    BY <2>1, <2>2, Float32Sound, HelperForms
<1>6. CASE to = "Float64"
  <2>1. o \in ToFloat64(v, lossiness) /\ to \in IsFloat
    BY <1>6, SwitchCases DEF IsFloat
  <2>2. FloatResult(o, v, lossiness)
    BY <2>1, ToFloat64Facts
  <2> QED
    BY <2>1, <2>2, FloatSound, HelperForms
<1>7. CASE to \in Texts
  <2>1. PICK g, x : \E k \in Kinds : o = Ok(g, x, k) /\ g \notin Machine
    BY <1>7, SwitchCases, PrintedFacts, KindFacts
  <2> QED
    BY <2>1, OkSound
<1>8. CASE to = "Boolean"
  <2>1. o \in ToBoolean(v, kind)
    BY <1>8, SwitchCases
  <2>2. CASE o = Ok(v.go, v.n, kind)
    BY <2>2, OkSound
  <2>3. CASE o # Ok(v.go, v.n, kind)
    <3>1. o = Err \/ \E x : o = Ok("bool", x, SafeCoerce)
      BY <2>1, <2>3 DEF ToBoolean
    <3>2. "bool" \notin Machine
      BY DEF Machine
    <3>3. CASE o = Err
      <4>1. Sound(Err, v, to, lossiness)
        BY ErrForm, PlainSound
      <4> QED
        BY <3>3, <4>1, ErrForm
    <3>4. ASSUME NEW x, o = Ok("bool", x, SafeCoerce)
          PROVE  Form(o) /\ Sound(o, v, to, lossiness)
      BY <3>2, <3>4, OkSound, KindFacts
    <3> QED
      BY <3>1, <3>3, <3>4
  <2> QED
    BY <2>2, <2>3
<1>9. CASE to = "Null"
  <2>1. o = Ok("nil", 0, kind) /\ "nil" \notin Machine
    BY <1>9, SwitchCases DEF Machine
  <2> QED
    BY <2>1, OkSound
<1>10. CASE to \notin IsInteger \cup IsFloat \cup Texts \cup {"Boolean", "Null"}
  <2>1. o = Ok(v.go, v.n, kind)
    BY <1>10, SwitchCases
  <2> QED
    BY <2>1, OkSound
<1> QED
    BY <1>1, <1>2, <1>3, <1>4, <1>5, <1>6, <1>7, <1>8, <1>9, <1>10 DEF IsInteger, IsFloat

(* A value has a Go type of its schema type, and a number this one holds.  *)
Carries(v, from) ==
    v = Value(v.go, v.n) /\ v.go \in GoOf(from) /\ v.n \in GoRange(v.go)

(* The kinds of the table's entries: the one that rounds a 64-bit unsigned *)
(* number to float32 is lossy.                                             *)
KindOf(from, to) ==
    LET entry == LookupCompat(from, to)
    IN  IF from = to \/ from = "Unknown" \/ entry.lossless THEN Lossless
        ELSE IF entry.safe THEN SafeCoerce ELSE Lossy

(* The Go types of the schema types.                                       *)
LEMMA GoOfFacts ==
    ASSUME NEW t
    PROVE  /\ t \in Signed32 => GoOf(t) = {"int32"}
           /\ t \in Signed64 => GoOf(t) = {"int64"}
           /\ t \in Unsigned32 => GoOf(t) = {"uint32"}
           /\ t \in Unsigned64 => GoOf(t) = {"uint64"}
           /\ t = "Float32" => GoOf(t) = {"float32", "nonfinite32"}
           /\ t = "Float64" => GoOf(t) = {"float64", "nonfinite64"}
           /\ t = "Boolean" => GoOf(t) = {"bool"}
           /\ t = "Bytes" => GoOf(t) = {"bytes"}
           /\ t \in Texts => GoOf(t) = GoText
           /\ t \notin IsInteger \cup IsFloat \cup Texts \cup {"Boolean", "Bytes"} =>
                GoOf(t) = {"nil"}
<1>1. t \in IsFloat <=> t \in {"Float32", "Float64"}
    BY DEF IsFloat
<1>2. IsInteger = Signed32 \cup Signed64 \cup Unsigned32 \cup Unsigned64
    BY DEF IsInteger
<1>3. CASE t \in Signed32
    BY <1>1, <1>2, <1>3, TypesApart DEF GoOf
<1>4. CASE t \in Signed64
    BY <1>1, <1>2, <1>4, TypesApart DEF GoOf
<1>5. CASE t \in Unsigned32
    BY <1>1, <1>2, <1>5, TypesApart DEF GoOf
<1>6. CASE t \in Unsigned64
    BY <1>1, <1>2, <1>6, TypesApart DEF GoOf
<1>7. CASE t \in IsFloat
    BY <1>1, <1>2, <1>7, TypesApart DEF GoOf
<1>8. CASE t \in Texts
    BY <1>1, <1>2, <1>8, TypesApart DEF GoOf
<1>9. CASE t \notin IsInteger \cup IsFloat \cup Texts
    BY <1>1, <1>2, <1>9 DEF GoOf
<1> QED
    BY <1>2, <1>3, <1>4, <1>5, <1>6, <1>7, <1>8, <1>9

(* A 64-bit unsigned number to float32 is lossy by the table.              *)
LEMMA UnsignedToFloat32 ==
    ASSUME NEW from, "uint64" \in GoOf(from)
    PROVE  KindOf(from, "Float32") = Lossy
<1>1. from \in Unsigned64
    BY GoOfFacts DEF IsInteger, IsFloat, GoText
<1>2. from \in {"UInt64", "Fixed64"} /\ from \in IsInteger /\ "Float32" \in IsFloat
    BY <1>1 DEF Unsigned64, IsInteger, IsFloat
<1>3. "Float32" \notin IsInteger
    BY DEF IsInteger, Signed32, Signed64, Unsigned32, Unsigned64
<1>4. <<from, "Float32">> \notin CompatTable
    BY DEF CompatTable
<1>5. from \notin {"Float32", "Float64", "Null"} /\ from \notin IsLogical
    BY <1>2 DEF IsLogical
<1>6. /\ {from, "Float32"} # {"Bytes", "String"}
      /\ {from, "Float32"} # {"Enum", "String"}
  <2>1. "Float32" \in {from, "Float32"}
    OBVIOUS
  <2> QED
    BY <2>1
<1>7. from # "Float32" /\ from \notin IsFloat
    BY <1>5 DEF IsFloat
<1>8. LookupCompat(from, "Float32") = Entry(TRUE, FALSE, "Float32" = "Float64")
    BY <1>2, <1>3, <1>4, <1>5, <1>6, <1>7 DEF LookupCompat
<1>9. ~LookupCompat(from, "Float32").lossless /\ ~LookupCompat(from, "Float32").safe
  <2>1. \A b : ~b => ~Entry(TRUE, FALSE, b).lossless /\ ~Entry(TRUE, FALSE, b).safe
    BY DEF Entry
  <2>2. PICK b : b = ("Float32" = "Float64")
    OBVIOUS
  <2>3. ~b
    BY <2>2
  <2>4. LookupCompat(from, "Float32") = Entry(TRUE, FALSE, b)
    BY <1>8, <2>2
  <2> QED
    BY <2>1, <2>3, <2>4
<1> QED
    BY <1>2, <1>5, <1>9 DEF KindOf

(* The zero of a type is a number of its Go type.                          *)
LEMMA ZeroFits ==
    ASSUME NEW g \in Machine
    PROVE  0 \in GoRange(g)
<1>1. 0 \in Int32 /\ 0 \in Int64 /\ 0 \in Uint32 /\ 0 \in Uint64
    BY Widening
<1>2. 0 \in Floats(M64) /\ 0 \in Floats(M32)
  <2>1. ASSUME NEW m \in Nat, m >= 1 PROVE Round(0, m) = 0
    <3>1. PICK p \in Nat : p = Pow2[m] /\ p >= 1
      BY Pow2Facts
    <3>2. Pow2[0] = 1 /\ Magnitude(0) = 0
      BY Pow2Facts DEF Magnitude
    <3>3. Magnitude(0) = 0 * Pow2[0] /\ 0 <= Pow2[m]
      BY <3>1, <3>2
    <3> QED
      BY <2>1, <3>3, RoundFixed
  <2>2. M32 \in Nat /\ M64 \in Nat /\ M32 >= 1 /\ M64 >= 1
    BY Significands
  <2> QED
    BY <2>1, <2>2 DEF Floats
<1> QED
    BY <1>1, <1>2, RangeFacts DEF Machine

(* How a result is reported: loss by its kind or by a note.                *)
Reported(o) == MergeKind(o.kind, o.note) >= Lossy

(* What the table and a note add to a result of the switch.                *)
LEMMA ThroughSwitch ==
    ASSUME NEW v, NEW from, NEW to, NEW lossiness, NEW bytes, v.n \in GoRange(v.go),
           v.go # "nil", from # "Null", to # "Bytes", ~(to = "String" /\ from = "Bytes"),
           NEW o, o \in CoerceValue(v, from, to, lossiness, bytes)
    PROVE  /\ KindOf(from, to) \in Kinds
           /\ \E r \in Switch(v, to, KindOf(from, to), lossiness) :
                /\ o.ok = r.ok /\ o.val = r.val
                /\ \/ r.kind = Lossy \/ r.note = Lossy
                   \/ KindOf(from, to) = Lossy /\ to \in IsFloat
                   => Reported(o)
<1>1. PICK kind : kind = KindOf(from, to)
    OBVIOUS
<1>2. kind \in Kinds
    BY <1>1, KindFacts DEF KindOf
<1>3. PICK r \in Switch(v, to, kind, lossiness) : \E forced \in BOOLEAN :
        o = [r EXCEPT !.kind = IF to \in IsInteger \cup IsFloat
                               THEN MergeKind(kind, r.kind) ELSE r.kind,
                      !.note = IF forced THEN Lossy ELSE @]
    BY <1>1 DEF CoerceValue, KindOf
<1>4. PICK forced \in BOOLEAN :
        o = [r EXCEPT !.kind = IF to \in IsInteger \cup IsFloat
                               THEN MergeKind(kind, r.kind) ELSE r.kind,
                      !.note = IF forced THEN Lossy ELSE r.note]
    BY <1>3
<1>5. Form(r)
    BY <1>2, SwitchSound
<1>6. PICK k, n : /\ k = IF to \in IsInteger \cup IsFloat
                         THEN MergeKind(kind, r.kind) ELSE r.kind
                  /\ n = IF forced THEN Lossy ELSE r.note
    OBVIOUS
<1>7. /\ k \in Lossless .. Unsupported /\ n \in Lossless .. Unsupported
      /\ r.kind = Lossy => k >= Lossy
      /\ r.note = Lossy => n = Lossy
      /\ (kind = Lossy /\ to \in IsFloat) => k >= Lossy
    BY <1>2, <1>5, <1>6, KindFacts
       DEF Form, MergeKind, Lossless, SafeCoerce, Lossy, Unsupported
<1>8. o.ok = r.ok /\ o.val = r.val /\ o.kind = k /\ o.note = n
  <2>1. o = [r EXCEPT !.kind = k, !.note = n]
    BY <1>4, <1>6
  <2> QED
    BY <1>5, <1>7, <2>1, NotedForm
<1>9. (k >= Lossy \/ n = Lossy) => Reported(o)
    BY <1>7, <1>8 DEF Reported, MergeKind, Lossless, Lossy, Unsupported
<1> QED
    BY <1>1, <1>2, <1>7, <1>8, <1>9

(* What LossIsReported and ConversionTyped ask of a result.                *)
Correct(o, v, to, lossiness) ==
    /\ o.val.go \in Machine => o.val.n \in GoRange(o.val.go)
    /\ (o.ok /\ {v.go, o.val.go} \subseteq Machine /\ Halves(v) # Halves(o.val)) =>
          \/ FloatAtLimit(v)
          \/ to \in IsFloat /\ IntegerAtLimit(v)
          \/ /\ lossiness # "strict"
             /\ Reported(o) \/ (v.go = "uint64" /\ to = "Float64")

(* Every conversion is correct.                                            *)
LEMMA CoerceCorrect ==
    ASSUME NEW v, NEW from, NEW to, NEW lossiness, NEW bytes, Carries(v, from),
           NEW o, o \in CoerceValue(v, from, to, lossiness, bytes)
    PROVE  Correct(o, v, to, lossiness)
<1>1. CASE v.go = "nil" \/ from = "Null"
  <2>1. PICK z : z = ZeroForType(to)
    OBVIOUS
  <2>2. o = Ok(z.go, z.n, Lossless)
    BY <1>1, <2>1 DEF CoerceValue
  <2>3. z.n = 0
    BY <2>1 DEF ZeroForType, Value
  <2>4. o.val.go = z.go /\ o.val.n = 0
    BY <2>2, <2>3, OkForm, KindFacts
  <2>5. v.go \notin Machine
    <3>1. from = "Null" => GoOf(from) = {"nil"}
      BY GoOfFacts, TypesApart
    <3> QED
      BY <1>1, <3>1 DEF Carries, Machine
  <2> QED
    BY <2>4, <2>5, ZeroFits DEF Correct
<1>2. CASE ~(v.go = "nil" \/ from = "Null") /\ to = "Bytes"
  <2>1. o \in CoerceBytes(v, bytes)
    BY <1>2 DEF CoerceValue
  <2>2. o = Err \/ \E x : \E k \in Kinds : o = Ok("bytes", x, k)
    BY <2>1, KindFacts DEF CoerceBytes
  <2>3. o.val.go \notin Machine
    <3>1. ASSUME NEW x, NEW k \in Kinds PROVE Ok("bytes", x, k).val.go \notin Machine
      BY <3>1, OkForm DEF Machine
    <3> QED
      BY <2>2, <3>1, ErrForm
  <2> QED
    BY <2>3 DEF Correct
<1>3. CASE ~(v.go = "nil" \/ from = "Null") /\ to = "String" /\ from = "Bytes"
  <2>1. o \in BytesToText(v, bytes)
    BY <1>3 DEF CoerceValue
  <2>2. o = Err \/ \E g, x : o = Ok(g, x, SafeCoerce) /\ g \notin Machine
    BY <2>1, PrintedFacts DEF BytesToText, Machine
  <2>3. o.val.go \notin Machine
    <3>1. ASSUME NEW g, NEW x PROVE Ok(g, x, SafeCoerce).val.go = g
      BY <3>1, OkForm, KindFacts
    <3> QED
      BY <2>2, <3>1, ErrForm
  <2> QED
    BY <2>3 DEF Correct
<1>4. CASE /\ ~(v.go = "nil" \/ from = "Null")
           /\ to # "Bytes" /\ ~(to = "String" /\ from = "Bytes")
  <2>1. PICK r \in Switch(v, to, KindOf(from, to), lossiness) :
          /\ o.ok = r.ok /\ o.val = r.val
          /\ \/ r.kind = Lossy \/ r.note = Lossy
             \/ KindOf(from, to) = Lossy /\ to \in IsFloat
             => Reported(o)
    BY <1>4, ThroughSwitch DEF Carries
  <2>2. Sound(r, v, to, lossiness)
    <3>1. KindOf(from, to) \in Kinds
      BY <1>4, ThroughSwitch DEF Carries
    <3> QED
      BY <3>1, SwitchSound DEF Carries
  <2>3. (v.go = "uint64" /\ to = "Float32") => Reported(o)
    <3>1. "Float32" \in IsFloat
      BY DEF IsFloat
    <3> QED
      BY <2>1, <3>1, UnsignedToFloat32 DEF Carries
  <2>4. to \in IsFloat <=> to \in {"Float32", "Float64"}
    BY DEF IsFloat
  <2> QED
    BY <2>1, <2>2, <2>3, <2>4 DEF Sound, Correct
<1> QED
    BY <1>1, <1>2, <1>3, <1>4

-----------------------------------------------------------------------------
(* The type of a result.                                                   *)

GoTypes == Machine \cup NonFinite \cup GoText \cup {"bytes", "nil", "bool"}

(* The values are those of the Go types.                                   *)
LEMMA ValuesFacts ==
    /\ \A g \in GoTypes : \A n \in GoRange(g) : Value(g, n) \in Values
    /\ \A v \in Values : /\ v = Value(v.go, v.n)
                         /\ v.go \in GoTypes /\ v.n \in GoRange(v.go)
<1>1. \A g : \A n \in GoRange(g) : Value(g, n) \in GoValues(g)
    BY DEF GoValues, Value
<1>2. \A g : \A v \in GoValues(g) : v = Value(v.go, v.n) /\ v.go = g /\ v.n \in GoRange(g)
    BY DEF GoValues, Value
<1>3. \A x : x \in Values <=> \E g \in GoTypes : x \in GoValues(g)
    BY DEF Values, GoTypes, Machine, NonFinite, GoText
<1> QED
    BY <1>1, <1>2, <1>3

(* The numbers of the Go types that are no machine's.                      *)
LEMMA OtherRanges ==
    /\ GoRange("bytes") = {0} /\ GoRange("nil") = {0} /\ GoRange("bool") = {0, 1}
    /\ GoRange("truth") = {0, 1} /\ GoRange("word") = {0, 1} /\ GoRange("text") = Int
    /\ GoRange("nonfinite32") = -1 .. 1 /\ GoRange("nonfinite64") = -1 .. 1
    BY DEF GoRange, NonFinite

(* fmt.Sprint gives a text.                                                *)
LEMMA PrintedTyped ==
    ASSUME NEW v \in Values
    PROVE  Printed(v) \in Values /\ Printed(v).go \in GoText
<1>1. /\ v.go \in GoTypes /\ v.n \in GoRange(v.go)
      /\ GoText = {"text", "word", "truth"} /\ GoText \subseteq GoTypes
    BY ValuesFacts DEF GoText, GoTypes
<1>2. CASE v.go \in GoText
  <2>1. Printed(v) = v
    BY <1>1, <1>2 DEF Printed, NonFinite
  <2> QED
    BY <1>2, <2>1
<1>3. CASE v.go \in {"float32", "float64"}
  <2>1. Printed(v) = Value("text", v.n) /\ v.n \in Int
    BY <1>1, <1>3, CarriedFacts DEF Printed, NonFinite
  <2> QED
    BY <1>1, <2>1, ValuesFacts, OtherRanges DEF Value
<1>4. CASE v.go = "bool"
  <2>1. Printed(v) = Value("truth", v.n) /\ v.n \in {0, 1}
    BY <1>1, <1>4, CarriedFacts DEF Printed, NonFinite
  <2> QED
    BY <1>1, <2>1, ValuesFacts, OtherRanges DEF Value
<1>5. CASE v.go \in NonFinite \cup {"bytes"}
  <2>1. Printed(v) = Value("word", 0)
    BY <1>1, <1>5 DEF Printed, NonFinite
  <2> QED
    BY <1>1, <2>1, ValuesFacts, OtherRanges DEF Value
<1>6. CASE v.go \in {"int64", "int32", "uint64", "uint32", "nil"}
  <2>1. v.n \in Int
    BY <1>1, <1>6, CarriedFacts, OtherRanges DEF Int64, Int32, Uint64, Uint32
  <2>2. Printed(v) = Value("text", 2 * v.n)
    BY <1>1, <1>6 DEF Printed, NonFinite
  <2>3. 2 * v.n \in GoRange("text")
    BY <2>1, OtherRanges
  <2> QED
    BY <1>1, <2>2, <2>3, ValuesFacts DEF Value
<1> QED
    BY <1>1, <1>2, <1>3, <1>4, <1>5, <1>6 DEF GoTypes, Machine

(* A result of the type "to" that is asked for, if it is no refusal.       *)
Typed(o, to) ==
    o.ok => /\ o.val \in Values
            /\ to \in ScalarTypes \ {"Boolean"} => o.val.go \in GoOf(to)

(* Results of one Go type, and of which target types it is.                *)
LEMMA OkTyped ==
    ASSUME NEW g \in GoTypes, NEW n \in GoRange(g), NEW k, NEW to,
           to \in ScalarTypes \ {"Boolean"} => g \in GoOf(to)
    PROVE  Typed(Ok(g, n, k), to)
<1>1. Ok(g, n, k).val = Value(g, n) /\ Value(g, n).go = g
    BY DEF Ok, Value
<1> QED
    BY <1>1, ValuesFacts DEF Typed

(* The Go type of a number that is converted to a number's type.           *)
LEMMA NumberTyped ==
    ASSUME NEW v \in Values, NEW to \in IsInteger \cup IsFloat, NEW kind, NEW lossiness,
           NEW o, o \in Switch(v, to, kind, lossiness), o.ok
    PROVE  /\ o.val = Value(o.val.go, o.val.n) /\ o.val.go \in GoOf(to)
           /\ o.val.go \in NonFinite => o.val.n \in -1 .. 1
<1>0. v.n \in GoRange(v.go) /\ ~Err.ok
    BY ValuesFacts DEF Err
<1>1. ASSUME NEW r, NEW go, NEW range, IntegerResult(r, v, go, range, lossiness), r.ok
      PROVE  r.val = Value(r.val.go, r.val.n) /\ r.val.go = go
    BY <1>0, <1>1 DEF IntegerResult, Ok, Value
<1>2. ASSUME NEW r, NEW go, NEW range, NEW w, Narrow(r, go, range, w, lossiness).ok
      PROVE  LET c == Narrow(r, go, range, w, lossiness)
             IN  c.val = Value(c.val.go, c.val.n) /\ c.val.go = go
  <2>1. \E n, k : Narrow(r, go, range, w, lossiness) \in
            {Err, Ok(go, n, k), [Ok(go, n, k) EXCEPT !.note = Lossy]}
    BY DEF Narrow
  <2> QED
    BY <1>0, <1>2, <2>1 DEF Ok, Value
<1>3. CASE to \in Signed32
  <2>1. \E r : o = Narrow(r, "int32", Int32, W32, lossiness)
    BY <1>3, SwitchCases
  <2> QED
    BY <1>2, <1>3, <2>1, GoOfFacts DEF NonFinite
<1>4. CASE to \in Unsigned32
  <2>1. \E r : o = Narrow(r, "uint32", Uint32, W32, lossiness)
    BY <1>4, SwitchCases
  <2> QED
    BY <1>2, <1>4, <2>1, GoOfFacts DEF NonFinite
<1>5. CASE to \in Signed64
  <2>1. IntegerResult(o, v, "int64", Int64, lossiness)
    BY <1>0, <1>5, SwitchCases, ToInt64Facts
  <2> QED
    BY <1>1, <1>5, <2>1, GoOfFacts DEF NonFinite
<1>6. CASE to \in Unsigned64
  <2>1. IntegerResult(o, v, "uint64", Uint64, lossiness)
    BY <1>0, <1>6, SwitchCases, ToUint64Facts
  <2> QED
    BY <1>1, <1>6, <2>1, GoOfFacts DEF NonFinite
<1>7. ASSUME NEW r, FloatResult(r, v, lossiness), r.ok
      PROVE  /\ r.val = Value(r.val.go, r.val.n)
             /\ r.val.go \in {"float64", "nonfinite64"}
             /\ r.val.go = "nonfinite64" => r.val.n \in -1 .. 1
    BY <1>0, <1>7 DEF FloatResult, Ok, Value
<1>8. CASE to = "Float64"
  <2>1. FloatResult(o, v, lossiness)
    BY <1>0, <1>8, SwitchCases, ToFloat64Facts
  <2> QED
    BY <1>7, <1>8, <2>1, GoOfFacts DEF NonFinite
<1>9. CASE to = "Float32"
  <2>1. PICK r \in ToFloat64(v, lossiness) : o = ToFloat32(r, lossiness)
    BY <1>9, SwitchCases
  <2>2. r.ok /\ FloatResult(r, v, lossiness)
    BY <1>0, <2>1, ToFloat64Facts DEF ToFloat32
  <2>3. \/ r.val.go = "nonfinite64" /\ \E k : o = Ok("nonfinite32", r.val.n, k)
        \/ \E n, k : o = Ok("float32", n, k)
    BY <1>0, <2>1 DEF ToFloat32
  <2>4. o.val = Value(o.val.go, o.val.n)
    BY <2>3 DEF Ok, Value
  <2>5. \/ o.val.go = "nonfinite32" /\ o.val.n \in -1 .. 1
        \/ o.val.go = "float32"
    <3>1. ASSUME NEW k, r.val.go = "nonfinite64", o = Ok("nonfinite32", r.val.n, k)
          PROVE  o.val.go = "nonfinite32" /\ o.val.n \in -1 .. 1
      BY <1>7, <2>2, <3>1 DEF Ok, Value
    <3>2. ASSUME NEW n, NEW k, o = Ok("float32", n, k)
          PROVE  o.val.go = "float32"
      BY <3>2 DEF Ok, Value
    <3> QED
      BY <2>3, <3>1, <3>2
  <2> QED
    BY <1>9, <2>4, <2>5, GoOfFacts DEF NonFinite
<1> QED
    BY <1>3, <1>4, <1>5, <1>6, <1>8, <1>9 DEF IsInteger, IsFloat

(* Every result of the switch has the type that was asked for.             *)
LEMMA SwitchTyped ==
    ASSUME NEW v \in Values, NEW to, to # "Bytes", NEW kind \in Kinds, NEW lossiness,
           NEW o, o \in Switch(v, to, kind, lossiness)
    PROVE  Typed(o, to)
<1>0. v.go \in GoTypes /\ v.n \in GoRange(v.go)
    BY ValuesFacts
<1>1. CASE to \in IsInteger \cup IsFloat
  <2> SUFFICES ASSUME o.ok PROVE o.val \in Values /\ o.val.go \in GoOf(to)
    BY DEF Typed
  <2>1. /\ o.val = Value(o.val.go, o.val.n) /\ o.val.go \in GoOf(to)
        /\ o.val.go \in NonFinite => o.val.n \in -1 .. 1
    BY <1>1, NumberTyped
  <2>2. o.val.go \in Machine => o.val.n \in GoRange(o.val.go)
    BY <1>0, SwitchSound DEF Sound
  <2>3. GoOf(to) \subseteq Machine \cup NonFinite
    BY <1>1, GoOfFacts DEF IsInteger, IsFloat, Machine, NonFinite
  <2>4. o.val.n \in GoRange(o.val.go) /\ o.val.go \in GoTypes
    BY <2>1, <2>2, <2>3, OtherRanges DEF GoTypes, NonFinite
  <2> QED
    BY <2>1, <2>4, ValuesFacts
<1>2. CASE to \in Texts
  <2>1. GoOf(to) = GoText /\ GoText \subseteq GoTypes
    BY <1>2, GoOfFacts DEF GoTypes
  <2>2. PICK g \in GoText : \E n \in GoRange(g) : \E k : o = Ok(g, n, k)
    BY <1>0, <1>2, SwitchCases, PrintedTyped, ValuesFacts
  <2> QED
    BY <2>1, <2>2, OkTyped
<1>3. CASE to = "Boolean"
  <2>1. o \in ToBoolean(v, kind)
    BY <1>3, SwitchCases
  <2>2. CASE o = Ok(v.go, v.n, kind)
    BY <1>0, <1>3, <2>2, OkTyped
  <2>3. CASE o # Ok(v.go, v.n, kind)
    <3>1. \/ o = Err
          \/ \E x \in {0, 1} : o = Ok("bool", x, SafeCoerce)
      <4>1. v.go = "truth" => v.n \in {0, 1}
        BY <1>0, OtherRanges
      <4>2. v.n \in {0, 2} => v.n \div 2 \in {0, 1}
        OBVIOUS
      <4> QED
        BY <2>1, <2>3, <4>1, <4>2 DEF ToBoolean
    <3>2. "bool" \in GoTypes /\ GoRange("bool") = {0, 1}
      BY OtherRanges DEF GoTypes
    <3>3. \A x \in {0, 1} : Typed(Ok("bool", x, SafeCoerce), to)
      BY <1>3, <3>2, OkTyped
    <3>4. Typed(Err, to)
      BY DEF Typed, Err
    <3> QED
      BY <3>1, <3>3, <3>4
  <2> QED
    BY <2>2, <2>3
<1>4. CASE to = "Null"
  <2>1. o = Ok("nil", 0, kind)
    BY <1>4, SwitchCases
  <2>2. GoOf(to) = {"nil"} /\ "nil" \in GoTypes /\ 0 \in GoRange("nil")
    BY <1>4, GoOfFacts, TypesApart, OtherRanges DEF GoTypes
  <2> QED
    BY <2>1, <2>2, OkTyped
<1>5. CASE to \notin IsInteger \cup IsFloat \cup Texts \cup {"Boolean", "Null"}
  <2>1. o = Ok(v.go, v.n, kind) /\ to \notin ScalarTypes
    BY <1>5, SwitchCases DEF ScalarTypes
  <2> QED
    BY <1>0, <2>1, OkTyped
<1> QED
    BY <1>1, <1>2, <1>3, <1>4, <1>5

(* Every conversion that succeeds has the type that was asked for, and a   *)
(* result says what it is.                                                 *)
LEMMA CoerceTyped ==
    ASSUME NEW v \in Values, NEW from, NEW to, NEW lossiness, NEW bytes,
           NEW o, o \in CoerceValue(v, from, to, lossiness, bytes)
    PROVE  Typed(o, to)
<1>0. v.go \in GoTypes /\ v.n \in GoRange(v.go)
    BY ValuesFacts
<1>1. CASE v.go = "nil" \/ from = "Null"
  <2>1. PICK z : z = ZeroForType(to)
    OBVIOUS
  <2>2. o = Ok(z.go, z.n, Lossless)
    BY <1>1, <2>1 DEF CoerceValue
  <2>3. CASE to \in IsFloat \cup IsInteger \cup {"Boolean", "Bytes"}
    <3>1. PICK g : g = CHOOSE h \in GoOf(to) : h \notin NonFinite
      OBVIOUS
    <3>2. \E h \in GoOf(to) : h \notin NonFinite
      BY <2>3, GoOfFacts DEF IsInteger, IsFloat, NonFinite
    <3>3. g \in GoOf(to) /\ g \notin NonFinite
      BY <3>1, <3>2
    <3>4. g \in Machine \cup {"bool", "bytes"}
      BY <2>3, <3>3, GoOfFacts DEF IsInteger, IsFloat, NonFinite, Machine
    <3>5. g \in GoTypes /\ 0 \in GoRange(g)
      BY <3>4, ZeroFits, OtherRanges DEF GoTypes
    <3>6. z = Value(g, 0)
      BY <2>1, <2>3, <3>1, TypesApart DEF ZeroForType
    <3> QED
      BY <2>2, <3>3, <3>5, <3>6, OkTyped DEF Value
  <2>4. CASE to \in Texts
    <3>1. z = Value("word", 0)
      BY <2>1, <2>4, TypesApart DEF ZeroForType
    <3>2. "word" \in GoOf(to) /\ "word" \in GoTypes /\ 0 \in GoRange("word")
      BY <2>4, GoOfFacts, OtherRanges DEF GoText, GoTypes
    <3> QED
      BY <2>2, <3>1, <3>2, OkTyped DEF Value
  <2>5. CASE to \notin IsFloat \cup IsInteger \cup Texts \cup {"Boolean", "Bytes"}
    <3>1. z = Value("nil", 0)
      BY <2>1, <2>5 DEF ZeroForType
    <3>2. "nil" \in GoOf(to) /\ "nil" \in GoTypes /\ 0 \in GoRange("nil")
      BY <2>5, GoOfFacts, OtherRanges DEF GoTypes
    <3> QED
      BY <2>2, <3>1, <3>2, OkTyped DEF Value
  <2> QED
    BY <2>3, <2>4, <2>5
<1>2. CASE ~(v.go = "nil" \/ from = "Null") /\ to = "Bytes"
  <2>1. o \in CoerceBytes(v, bytes)
    BY <1>2 DEF CoerceValue
  <2>2. v.go = "bytes" => v.n = 0
    BY <1>0, OtherRanges
  <2>3. o = Err \/ \E k : o = Ok("bytes", 0, k)
    BY <2>1, <2>2 DEF CoerceBytes
  <2>4. "bytes" \in GoOf(to) /\ "bytes" \in GoTypes /\ 0 \in GoRange("bytes")
    BY <1>2, GoOfFacts, OtherRanges DEF GoTypes
  <2>5. Typed(Err, to)
    BY DEF Typed, Err
  <2> QED
    BY <2>3, <2>4, <2>5, OkTyped
<1>3. CASE ~(v.go = "nil" \/ from = "Null") /\ to = "String" /\ from = "Bytes"
  <2>1. o \in BytesToText(v, bytes)
    BY <1>3 DEF CoerceValue
  <2>2. PICK p : p = Printed(v)
    OBVIOUS
  <2>3. p.go \in GoText /\ p.n \in GoRange(p.go)
    BY <2>2, PrintedTyped, ValuesFacts
  <2>4. o = Err \/ o = Ok(p.go, p.n, SafeCoerce) \/ o = Ok("word", 1, SafeCoerce)
    BY <2>1, <2>2 DEF BytesToText
  <2>5. /\ GoOf(to) = GoText /\ GoText \subseteq GoTypes
        /\ "word" \in GoText /\ 1 \in GoRange("word")
    BY <1>3, GoOfFacts, OtherRanges DEF GoTypes, GoText, Texts
  <2>6. Typed(Err, to)
    BY DEF Typed, Err
  <2> QED
    BY <2>3, <2>4, <2>5, <2>6, OkTyped
<1>4. CASE /\ ~(v.go = "nil" \/ from = "Null")
           /\ to # "Bytes" /\ ~(to = "String" /\ from = "Bytes")
  <2>1. KindOf(from, to) \in Kinds
    BY <1>0, <1>4, ThroughSwitch
  <2>2. PICK r \in Switch(v, to, KindOf(from, to), lossiness) : o.ok = r.ok /\ o.val = r.val
    BY <1>0, <1>4, ThroughSwitch
  <2>3. Typed(r, to)
    BY <1>4, <2>1, SwitchTyped
  <2> QED
    BY <2>2, <2>3 DEF Typed
<1> QED
    BY <1>1, <1>2, <1>3, <1>4

(* The pairs of types that the table calls lossless.                       *)
LosslessPair(from, to) ==
    \/ from = to
    \/ from \in Signed32 /\ to \in Signed32 \cup Signed64 \cup {"Float64"}
    \/ from \in Signed64 /\ to \in Signed64
    \/ from \in Unsigned32 /\ to \in Unsigned32 \cup Unsigned64
    \/ from \in Unsigned64 /\ to \in Unsigned64
    \/ from = "Boolean" /\ to \in Signed32 \cup Signed64
    \/ from = "Float32" /\ to = "Float64"
    \/ from \in Texts /\ to \in Texts

(* There are no other lossless pairs (LookupCompat).                       *)
LEMMA LosslessTable ==
    ASSUME NEW from, NEW to, from # "Null", LookupCompat(from, to).lossless
    PROVE  LosslessPair(from, to)
<1>1. \A a, b : ~Entry(a, FALSE, b).lossless
    BY DEF Entry
<1>2. \A b : ~b => ~Entry(TRUE, b, b).lossless
    BY DEF Entry
<1>3. CASE from = to
    BY <1>3 DEF LosslessPair
<1>4. CASE <<from, to>> \in CompatTable
  <2>1. /\ "Int32" \in Signed32 /\ "Int64" \in Signed64
        /\ from \in {"Int32", "Boolean"} /\ to \in {"Int32", "Int64", "Float64"}
        /\ to = "Float64" => from = "Int32"
    BY <1>4 DEF CompatTable, Signed32, Signed64
  <2> QED
    BY <2>1 DEF LosslessPair
<1>5. CASE from # to /\ <<from, to>> \notin CompatTable
  <2>1. CASE from \in IsInteger /\ to \in IsInteger
    <3>1. from \notin IsFloat /\ to \notin IsFloat \cup IsLogical \cup {"String", "Enum"}
          /\ from \notin IsLogical \cup {"String", "Enum", "Bytes"}
      <4>1. ASSUME NEW t \in IsInteger
            PROVE  t \notin IsFloat /\ t \notin Texts /\ t # "Bytes"
        BY <4>1, TypesApart DEF IsInteger
      <4> QED
        BY <2>1, <4>1 DEF Texts
    <3>2. to \notin {"Float32", "Float64"} /\ from \notin {"Float32", "Float64"}
      BY <3>1 DEF IsFloat
    <3>3. {from, to} # {"Bytes", "String"} /\ {from, to} # {"Enum", "String"}
      BY <3>1
    <3>4. PICK b : b = Widens(from, to)
      OBVIOUS
    <3>5. LookupCompat(from, to) = Entry(TRUE, b, b)
      BY <1>5, <2>1, <3>1, <3>2, <3>3, <3>4 DEF LookupCompat
    <3>6. Widens(from, to)
      <4>1. Entry(TRUE, b, b).lossless
        BY <3>5
      <4>2. b
        BY <1>2, <4>1
      <4> QED
        BY <3>4, <4>2
    <3>7. /\ Width(to) >= Width(from) /\ IsUnsigned(from) = IsUnsigned(to)
      BY <3>6 DEF Widens
    <3>8. \A t \in IsInteger :
            /\ IsUnsigned(t) <=> t \in Unsigned32 \cup Unsigned64
            /\ Width(t) = IF t \in Signed32 \cup Unsigned32 THEN 32 ELSE 64
      BY DEF IsUnsigned, Width
    <3>9. CASE from \in Signed32
      <4>1. ~IsUnsigned(from)
        BY <2>1, <3>8, <3>9, TypesApart
      <4>2. ~IsUnsigned(to)
        BY <3>7, <4>1
      <4> QED
        BY <2>1, <3>8, <3>9, <4>2 DEF IsInteger, LosslessPair
    <3>10. CASE from \in Unsigned32
      <4>1. IsUnsigned(from)
        BY <2>1, <3>8, <3>10
      <4>2. IsUnsigned(to)
        BY <3>7, <4>1
      <4> QED
        BY <2>1, <3>8, <3>10, <4>2 DEF LosslessPair
    <3>11. CASE from \in Signed64
      <4>1. ~IsUnsigned(from) /\ Width(from) = 64
        BY <2>1, <3>8, <3>11, TypesApart
      <4>2. ~IsUnsigned(to) /\ Width(to) >= 64
        BY <3>7, <4>1
      <4>3. to \notin Signed32 \cup Unsigned32
        BY <2>1, <3>8, <4>2
      <4> QED
        BY <2>1, <3>8, <3>11, <4>2, <4>3 DEF IsInteger, LosslessPair
    <3>12. CASE from \in Unsigned64
      <4>1. IsUnsigned(from) /\ Width(from) = 64
        BY <2>1, <3>8, <3>12, TypesApart
      <4>2. IsUnsigned(to) /\ Width(to) >= 64
        BY <3>7, <4>1
      <4>3. to \notin Signed32 \cup Unsigned32
        BY <2>1, <3>8, <4>2
      <4> QED
        BY <2>1, <3>8, <3>12, <4>2, <4>3 DEF LosslessPair
    <3> QED
      BY <2>1, <3>9, <3>10, <3>11, <3>12 DEF IsInteger
  <2>2. CASE ~(from \in IsInteger /\ to \in IsInteger)
    <3>1. CASE from = "Float32" /\ to = "Float64"
      BY <3>1 DEF LosslessPair
    <3>2. CASE from \in {"Enum", "String"} /\ to \in {"Enum", "String"}
      BY <3>2 DEF LosslessPair, Texts
    <3>3. CASE from \in IsLogical /\ to \in IsLogical \cup {"String"}
      BY <3>3 DEF LosslessPair, Texts
    <3>4. CASE /\ ~(from = "Float32" /\ to = "Float64")
               /\ ~(from \in {"Enum", "String"} /\ to \in {"Enum", "String"})
               /\ ~(from \in IsLogical /\ to \in IsLogical \cup {"String"})
      <4>1. {from, to} # {"Enum", "String"}
        <5>1. from \in {from, to} /\ to \in {from, to}
          OBVIOUS
        <5> QED
          BY <3>4, <5>1
      <4>2. {from, to} # {"Enum", "String"} /\ from # to /\ from # "Null"
        BY <1>5, <4>1
      <4>3. PICK e : e = LookupCompat(from, to)
        OBVIOUS
      <4>4. CASE from \in IsInteger /\ to \in IsFloat
        BY <1>1, <1>5, <2>2, <3>4, <4>2, <4>3, <4>4, TypesApart DEF LookupCompat, IsFloat
      <4>5. CASE from \in IsFloat /\ to \in IsInteger
        BY <1>1, <1>5, <2>2, <3>4, <4>2, <4>3, <4>5, TypesApart DEF LookupCompat, IsFloat
      <4>6. CASE from = "Float64" /\ to = "Float32"
        BY <1>1, <1>5, <2>2, <3>4, <4>2, <4>3, <4>6, TypesApart DEF LookupCompat, IsFloat
      <4>7. CASE {from, to} = {"Bytes", "String"}
        BY <1>1, <1>5, <2>2, <3>4, <4>2, <4>3, <4>7, TypesApart DEF LookupCompat, IsFloat
      <4>8. CASE /\ ~(from \in IsInteger /\ to \in IsFloat)
                 /\ ~(from \in IsFloat /\ to \in IsInteger)
                 /\ ~(from = "Float64" /\ to = "Float32")
                 /\ {from, to} # {"Bytes", "String"}
        BY <1>1, <1>5, <2>2, <3>4, <4>2, <4>3, <4>8 DEF LookupCompat
      <4> QED
        BY <4>4, <4>5, <4>6, <4>7, <4>8
    <3> QED
      BY <3>1, <3>2, <3>3, <3>4
  <2> QED
    BY <2>1, <2>2
<1> QED
    BY <1>3, <1>4, <1>5

(* The number is kept, or the text.                                        *)
Kept(o, v) ==
    /\ o.ok
    /\ IF {v.go, o.val.go} \subseteq Machine
       THEN Halves(v) = Halves(o.val) ELSE v.n = o.val.n

(* Results that keep what was converted.                                   *)
LEMMA OkKept ==
    ASSUME NEW v, NEW g, NEW x, NEW k \in Kinds,
           \/ x = v.n /\ (g \in {"float32", "float64"} <=> v.go \in {"float32", "float64"})
           \/ x = v.n /\ v.go \notin Machine
           \/ x = v.n /\ g \notin Machine
           \/ x = 2 * v.n /\ v.go = "int32" /\ g = "float64"
    PROVE  Kept(Ok(g, x, k), v)
<1>1. Ok(g, x, k).ok /\ Ok(g, x, k).val.go = g /\ Ok(g, x, k).val.n = x
    BY OkForm
<1>2. Halves(Ok(g, x, k).val) = IF g \in {"float64", "float32"} THEN x ELSE 2 * x
    BY <1>1 DEF Halves
<1> QED
    BY <1>1, <1>2 DEF Kept, Halves, Machine

(* A lossless pair keeps every value, whatever the policy is.              *)
LEMMA SwitchKeeps ==
    ASSUME NEW v, NEW from, NEW to, NEW kind \in Kinds, NEW lossiness,
           Carries(v, from), LosslessPair(from, to), v.go # "nil", to # "Bytes",
           NEW o, o \in Switch(v, to, kind, lossiness)
    PROVE  Kept(o, v)
<1>1. v.go \in GoOf(from) /\ v.n \in GoRange(v.go)
    BY DEF Carries
<1>2. ASSUME to \in Signed32, v.go \in {"int32", "bool"} PROVE Kept(o, v)
  <2>1. v.n \in Int32
    BY <1>1, <1>2, CarriedFacts, Widening
  <2>2. PICK k \in Kinds : ToInt64(v, lossiness) = {Ok("int64", v.n, k)}
    BY <1>2, KindFacts DEF ToInt64
  <2>3. o = Narrow(Ok("int64", v.n, k), "int32", Int32, W32, lossiness)
    BY <1>2, <2>2, SwitchCases
  <2>4. /\ Ok("int64", v.n, k).ok /\ Ok("int64", v.n, k).val.n = v.n
        /\ Ok("int64", v.n, k).kind = k
    BY OkForm
  <2>5. o = Ok("int32", v.n, k)
    BY <2>1, <2>3, <2>4 DEF Narrow
  <2>6. v.go \notin {"float32", "float64"}
    BY <1>2
  <2> QED
    BY <2>5, <2>6, OkKept
<1>3. ASSUME to \in Signed64, v.go \in {"int32", "int64", "bool"} PROVE Kept(o, v)
  <2>1. PICK k \in Kinds : o = Ok("int64", v.n, k)
    BY <1>3, SwitchCases, KindFacts DEF ToInt64
  <2>2. v.go \notin {"float32", "float64"}
    BY <1>3
  <2> QED
    BY <2>1, <2>2, OkKept
<1>4. ASSUME to \in Unsigned32, v.go = "uint32" PROVE Kept(o, v)
  <2>1. v.n \in Uint32
    BY <1>1, <1>4, CarriedFacts
  <2>2. PICK k \in Kinds : ToUint64(v, lossiness) = {Ok("uint64", v.n, k)}
    BY <1>4, KindFacts DEF ToUint64
  <2>3. o = Narrow(Ok("uint64", v.n, k), "uint32", Uint32, W32, lossiness)
    BY <1>4, <2>2, SwitchCases
  <2>4. /\ Ok("uint64", v.n, k).ok /\ Ok("uint64", v.n, k).val.n = v.n
        /\ Ok("uint64", v.n, k).kind = k
    BY OkForm
  <2>5. o = Ok("uint32", v.n, k)
    BY <2>1, <2>3, <2>4 DEF Narrow
  <2> QED
    BY <1>4, <2>5, OkKept
<1>5. ASSUME to \in Unsigned64, v.go \in {"uint32", "uint64"} PROVE Kept(o, v)
  <2>1. PICK k \in Kinds : o = Ok("uint64", v.n, k)
    BY <1>5, SwitchCases, KindFacts DEF ToUint64
  <2>2. v.go \notin {"float32", "float64"}
    BY <1>5
  <2> QED
    BY <2>1, <2>2, OkKept
<1>6. ASSUME to = "Float64", v.go = "int32" PROVE Kept(o, v)
  <2>1. o = Ok("float64", 2 * v.n, Lossless)
    BY <1>6, SwitchCases DEF ToFloat64
  <2> QED
    BY <1>6, <2>1, OkKept, KindFacts
<1>7. ASSUME to = "Float64", v.go \in {"float32", "float64"} PROVE Kept(o, v)
  <2>1. PICK k \in Kinds : o = Ok("float64", v.n, k)
    BY <1>7, SwitchCases, KindFacts DEF ToFloat64
  <2> QED
    BY <1>7, <2>1, OkKept
<1>8. ASSUME to = "Float64", v.go \in NonFinite PROVE Kept(o, v)
  <2>1. PICK k \in Kinds : o = Ok("nonfinite64", v.n, k)
    BY <1>8, SwitchCases, KindFacts DEF ToFloat64, NonFinite
  <2>2. v.go \notin Machine
    BY <1>8 DEF NonFinite, Machine
  <2> QED
    BY <2>1, <2>2, OkKept
<1>9. ASSUME to = "Float32", v.go \in {"float32", "nonfinite32"} PROVE Kept(o, v)
  <2>1. PICK r \in ToFloat64(v, lossiness) : o = ToFloat32(r, lossiness)
    BY <1>9, SwitchCases
  <2>2. CASE v.go = "float32"
    <3>1. r = Ok("float64", v.n, SafeCoerce)
      BY <2>1, <2>2 DEF ToFloat64
    <3>2. r.ok /\ r.val.go = "float64" /\ r.val.n = v.n /\ r.kind = SafeCoerce
      BY <3>1, OkForm, KindFacts
    <3>3. Round(v.n, M32) = v.n
      BY <1>1, <2>2, CarriedFacts DEF Floats
    <3>4. o = Ok("float32", v.n, SafeCoerce)
      BY <2>1, <3>2, <3>3 DEF ToFloat32
    <3> QED
      BY <2>2, <3>4, OkKept, KindFacts
  <2>3. CASE v.go = "nonfinite32"
    <3>1. r = Ok("nonfinite64", v.n, SafeCoerce)
      BY <2>1, <2>3 DEF ToFloat64
    <3>2. r.ok /\ r.val.go = "nonfinite64" /\ r.val.n = v.n /\ r.kind = SafeCoerce
      BY <3>1, OkForm, KindFacts
    <3>3. PICK k \in Kinds : o = Ok("nonfinite32", v.n, k)
      BY <2>1, <3>2, KindFacts DEF ToFloat32
    <3>4. v.go \notin Machine
      BY <2>3 DEF Machine
    <3> QED
      BY <3>3, <3>4, OkKept
  <2> QED
    BY <1>9, <2>2, <2>3
<1>10. ASSUME to \in Texts, v.go \in GoText PROVE Kept(o, v)
  <2>1. o = Ok(v.go, v.n, kind)
    BY <1>10, SwitchCases
  <2> QED
    BY <2>1, OkKept
<1>11. ASSUME to = "Boolean", v.go = "bool" PROVE Kept(o, v)
  <2>1. o = Ok(v.go, v.n, kind)
    BY <1>11, SwitchCases DEF ToBoolean
  <2> QED
    BY <2>1, OkKept
<1>12. CASE from \in Signed32 \cup Signed64 \cup Unsigned32 \cup Unsigned64
  <2>1. /\ from \in Signed32 => v.go = "int32"
        /\ from \in Signed64 => v.go = "int64"
        /\ from \in Unsigned32 => v.go = "uint32"
        /\ from \in Unsigned64 => v.go = "uint64"
    BY <1>1, GoOfFacts
  <2>2. from \notin Texts \cup {"Boolean", "Float32"}
    BY <1>12, TypesApart DEF IsInteger, IsFloat
  <2>3. \/ from \in Signed32 /\ to \in Signed32 \cup Signed64 \cup {"Float64"}
        \/ from \in Signed64 /\ to \in Signed64
        \/ from \in Unsigned32 /\ to \in Unsigned32 \cup Unsigned64
        \/ from \in Unsigned64 /\ to \in Unsigned64
    BY <1>12, <2>2 DEF LosslessPair
  <2> QED
    BY <1>2, <1>3, <1>4, <1>5, <1>6, <2>1, <2>3
<1>13. CASE from = "Boolean"
  <2>1. v.go = "bool"
    BY <1>1, <1>13, GoOfFacts
  <2>2. to = "Boolean" \/ to \in Signed32 \cup Signed64
    BY <1>13, TypesApart DEF LosslessPair, IsInteger
  <2> QED
    BY <1>2, <1>3, <1>11, <2>1, <2>2
<1>14. CASE from \in {"Float32", "Float64"}
  <2>1. /\ from = "Float32" => v.go \in {"float32", "nonfinite32"}
        /\ from = "Float64" => v.go \in {"float64", "nonfinite64"}
    BY <1>1, GoOfFacts
  <2>2. from \in IsFloat
    BY <1>14 DEF IsFloat
  <2>3. to = "Float64" \/ (from = "Float32" /\ to = "Float32")
    BY <1>14, <2>2, TypesApart DEF LosslessPair
  <2> QED
    <3>1. CASE to = "Float32"
      BY <1>9, <2>1, <2>3, <3>1
    <3>2. CASE to = "Float64" /\ v.go \in {"float32", "float64"}
      BY <1>7, <3>2
    <3>3. CASE to = "Float64" /\ v.go \in {"nonfinite32", "nonfinite64"}
      <4>1. v.go \in NonFinite
        BY <3>3 DEF NonFinite
      <4> QED
        BY <1>8, <3>3, <4>1
    <3> QED
      BY <1>14, <2>1, <2>3, <3>1, <3>2, <3>3
<1>15. CASE from \in Texts
  <2>1. v.go \in GoText
    BY <1>1, <1>15, GoOfFacts
  <2>2. from \notin IsInteger \cup IsFloat \cup {"Boolean"}
    BY <1>15, TypesApart
  <2>3. to \in Texts
    BY <1>15, <2>2 DEF LosslessPair, IsInteger, IsFloat
  <2> QED
    BY <1>10, <2>1, <2>3
<1>16. CASE from \notin IsInteger \cup IsFloat \cup Texts \cup {"Boolean"}
  <2>1. from = to
    BY <1>16 DEF LosslessPair, IsInteger, IsFloat
  <2>2. GoOf(from) = {"nil"}
    BY <1>16, <2>1, GoOfFacts
  <2> QED
    BY <1>1, <2>2
<1> QED
    BY <1>12, <1>13, <1>14, <1>15, <1>16 DEF IsInteger, IsFloat

(* A conversion that the table calls lossless keeps the value.              *)
LEMMA CoerceKeeps ==
    ASSUME NEW v, NEW from, NEW to, NEW lossiness, NEW bytes, Carries(v, from),
           from # "Null", LookupCompat(from, to).lossless,
           NEW o, o \in CoerceValue(v, from, to, lossiness, bytes)
    PROVE  Kept(o, v)
<1>1. LosslessPair(from, to)
    BY LosslessTable
<1>2. CASE v.go = "nil"
  <2>1. PICK z : z = ZeroForType(to)
    OBVIOUS
  <2>2. o = Ok(z.go, z.n, Lossless)
    BY <1>2, <2>1 DEF CoerceValue
  <2>3. z.n = 0
    BY <2>1 DEF ZeroForType, Value
  <2>4. v.n = 0 /\ v.go \notin Machine
    BY <1>2 DEF Carries, GoRange, NonFinite, Machine
  <2> QED
    BY <2>2, <2>3, <2>4, OkKept, KindFacts
<1>3. CASE v.go # "nil" /\ to = "Bytes"
  <2>1. from = "Bytes"
    BY <1>1, <1>3, TypesApart DEF LosslessPair, IsInteger
  <2>2. v.go = "bytes"
    BY <2>1, GoOfFacts DEF Carries
  <2>3. o = Ok("bytes", v.n, Lossless)
    <3>1. o \in CoerceBytes(v, bytes)
      BY <1>3 DEF CoerceValue
    <3> QED
      BY <2>2, <3>1 DEF CoerceBytes, GoText
  <2> QED
    BY <2>2, <2>3, OkKept, KindFacts
<1>4. CASE v.go # "nil" /\ to # "Bytes"
  <2>1. ~(to = "String" /\ from = "Bytes")
    <3>1. "Bytes" \notin IsInteger \cup Texts
      BY TypesApart
    <3> QED
      BY <1>1, <3>1 DEF LosslessPair, IsInteger
  <2>2. KindOf(from, to) \in Kinds
    BY <1>4, <2>1, ThroughSwitch DEF Carries
  <2>3. PICK r \in Switch(v, to, KindOf(from, to), lossiness) : o.ok = r.ok /\ o.val = r.val
    BY <1>4, <2>1, ThroughSwitch DEF Carries
  <2>4. Kept(r, v)
    BY <1>1, <1>4, <2>2, SwitchKeeps
  <2> QED
    BY <2>3, <2>4 DEF Kept
<1> QED
    BY <1>2, <1>3, <1>4

-----------------------------------------------------------------------------
(* The behaviours.                                                         *)

(* A task of a conversion, and at its end a result of it.                  *)
ConversionInv ==
    /\ task \in Tasks /\ task.do = "coerce"
    /\ stage = "done" =>
          output \in CoerceValue(task.val, task.from, task.to, task.lossiness, task.bytes)

(* The task stays what it is, and no result comes from elsewhere.          *)
THEOREM Invariance == ConversionSpec => []ConversionInv
<1>1. ConversionInit => ConversionInv
    BY DEF ConversionInit, ConversionInv
<1>2. ConversionInv /\ [Convert]_<<task, stage, output>> => ConversionInv'
  <2> SUFFICES ASSUME ConversionInv, [Convert]_<<task, stage, output>>
               PROVE  ConversionInv'
    OBVIOUS
  <2>1. CASE Convert
    <3>1. /\ task' = task
          /\ output' \in CoerceValue(task.val, task.from, task.to, task.lossiness, task.bytes)
      BY <2>1 DEF Convert, At
    <3> QED
      BY <3>1 DEF ConversionInv
  <2>2. CASE UNCHANGED <<task, stage, output>>
    BY <2>2 DEF ConversionInv
  <2> QED
    BY <2>1, <2>2
<1> QED
    BY <1>1, <1>2, PTL DEF ConversionSpec

(* At its end, every conversion is correct and keeps what it must.         *)
LEMMA AtTheEnd ==
    ASSUME ConversionInv, stage = "done"
    PROVE  /\ Correct(output, task.val, task.to, task.lossiness)
           /\ Typed(output, task.to)
           /\ (task.from # "Null" /\ LookupCompat(task.from, task.to).lossless) =>
                 Kept(output, task.val)
<1>1. Carries(task.val, task.from)
    BY TasksAssumption DEF ConversionInv, Carries
<1>3. task.val \in Values
  <2>1. GoOf(task.from) \subseteq GoTypes
    BY GoOfFacts DEF GoTypes, Machine, NonFinite, GoText, IsInteger, IsFloat
  <2> QED
    BY <1>1, <2>1, ValuesFacts DEF Carries
<1>2. output \in CoerceValue(task.val, task.from, task.to, task.lossiness, task.bytes)
    BY DEF ConversionInv
<1> QED
    BY <1>1, <1>2, <1>3, CoerceCorrect, CoerceKeeps, CoerceTyped

(* Every result has the Go type of the type that was asked for and is a    *)
(* value of it, for all widths: no conversion of coerceValue leaves an     *)
(* integer that its type cannot hold, a float with too many significant    *)
(* bits, or a value of another type than the schema's.                     *)
THEOREM ResultsFit == ConversionSpec => []ConversionTyped
<1>1. ConversionInv => ConversionTyped
    BY AtTheEnd DEF ConversionTyped, Typed
<1> QED
    BY <1>1, Invariance, PTL

(* No conversion of any number changes it unreported, or at all under the  *)
(* strict policy: narrowing, change of sign, truncation and rounding, for  *)
(* integers and significands of all widths.  The exceptions are those that *)
(* AtTheLimit and LossIsReported name.                                     *)
THEOREM LossReported == ConversionSpec => []LossIsReported
<1>1. ConversionInv => LossIsReported
  <2> SUFFICES ASSUME ConversionInv, stage = "done", output.ok,
                      {task.val.go, output.val.go} \subseteq Machine,
                      Halves(task.val) # Halves(output.val), ~AtTheLimit
               PROVE  /\ task.lossiness # "strict"
                      /\ \/ MergeKind(output.kind, output.note) >= Lossy
                         \/ task.val.go = "uint64" /\ task.to = "Float64"
    BY DEF LossIsReported
  <2>1. Correct(output, task.val, task.to, task.lossiness)
    BY AtTheEnd
  <2>2. ~FloatAtLimit(task.val) /\ ~(task.to \in IsFloat /\ IntegerAtLimit(task.val))
    BY DEF AtTheLimit, FloatAtLimit, IntegerAtLimit
  <2> QED
    BY <2>1, <2>2 DEF Correct, Reported
<1> QED
    BY <1>1, Invariance, PTL

(* What the table calls lossless keeps every value of the source type, for *)
(* integers and significands of all widths.                                *)
THEOREM LosslessKeeps == ConversionSpec => []LosslessEntriesHold
<1>1. ConversionInv => LosslessEntriesHold
    BY AtTheEnd DEF LosslessEntriesHold, Kept
<1> QED
    BY <1>1, Invariance, PTL
=============================================================================
