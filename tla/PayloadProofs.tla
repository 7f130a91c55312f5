--------------------------- MODULE PayloadProofs ---------------------------
(***************************************************************************)
(* Proofs about the numbers and heads of payloads, and about schemas:      *)
(* their comparison, and the projection of data onto them.                 *)
(***************************************************************************)
EXTENDS ConversionProofs, Calculations, Heads

-----------------------------------------------------------------------------
(* Recursion.                                                              *)

(* f is what the recursion B says wherever the measure h is below n.       *)
Follow(f, n, X, h, B) == \A x \in X : h[x] < n => f[x] = B[f][x]

(* The value at x depends only on the values of smaller measure.           *)
Recursion(X, V, h, B) ==
    /\ h \in [X -> Nat] /\ B \in [[X -> V] -> [X -> V]]
    /\ \A f, g \in [X -> V] : \A x \in X :
           (\A y \in X : h[y] < h[x] => f[y] = g[y]) => B[f][x] = B[g][x]

Solution(X, V, B, F) == F \in [X -> V] /\ F = B[F]

(* Such a recursion has a solution, which is what the recursive functions  *)
(* of the model are.                                                       *)
LEMMA FixedPoint ==
    ASSUME NEW X, NEW V, NEW v \in V, NEW h, NEW B, Recursion(X, V, h, B)
    PROVE  \E F : Solution(X, V, B, F)
<1>0. /\ h \in [X -> Nat] /\ B \in [[X -> V] -> [X -> V]]
      /\ \A f, g \in [X -> V] : \A x \in X :
             (\A y \in X : h[y] < h[x] => f[y] = g[y]) => B[f][x] = B[g][x]
    BY DEF Recursion
<1> DEFINE T == {n \in Nat : ~ \E f \in [X -> V] : Follow(f, n, X, h, B)}
<1>1. ASSUME T # {} PROVE FALSE
  <2>1. PICK n \in T : \A m \in T : n <= m
    BY <1>1, Least
  <2>2. n \in Nat /\ ~ \E f \in [X -> V] : Follow(f, n, X, h, B)
    OBVIOUS
  <2>3. n # 0
    <3>0. \A x \in X : ~(h[x] < 0)
      BY <1>0
    <3>1. [x \in X |-> v] \in [X -> V]
      OBVIOUS
    <3>2. Follow([x \in X |-> v], 0, X, h, B)
      BY <3>0 DEF Follow
    <3> QED
      BY <2>2, <3>1, <3>2
  <2>4. n - 1 \in Nat /\ n - 1 \notin T
    BY <2>1, <2>2, <2>3
  <2>5. PICK f \in [X -> V] : Follow(f, n - 1, X, h, B)
    BY <2>4
  <2>6. B[f] \in [X -> V]
    BY <1>0
  <2>7. ASSUME NEW x \in X, h[x] < n PROVE B[f][x] = B[B[f]][x]
    <3>1. \A y \in X : h[y] < h[x] => f[y] = B[f][y]
      BY <1>0, <2>2, <2>5, <2>7 DEF Follow
    <3> QED
      BY <1>0, <2>6, <3>1
  <2>8. Follow(B[f], n, X, h, B)
    BY <2>7 DEF Follow
  <2> QED
    BY <2>2, <2>6, <2>8
<1>2. ASSUME NEW f \in [X -> V], NEW g \in [X -> V], NEW m \in Nat, NEW n \in Nat,
             Follow(f, m, X, h, B), Follow(g, n, X, h, B)
      PROVE  \A x \in X : h[x] < m /\ h[x] < n => f[x] = g[x]
  <2> DEFINE D == {i \in Nat : \E x \in X : i = h[x] /\ i < m /\ i < n /\ f[x] # g[x]}
  <2>1. ASSUME D # {} PROVE FALSE
    <3>1. PICK i \in D : \A j \in D : i <= j
      BY <2>1, Least
    <3>2. PICK x \in X : i = h[x] /\ i < m /\ i < n /\ f[x] # g[x]
      OBVIOUS
    <3>3. ASSUME NEW y \in X, h[y] < h[x] PROVE f[y] = g[y]
      <4>1. PICK j \in Nat : j = h[y]
        BY <1>0
      <4>2. j < i /\ j \notin D
        BY <3>1, <3>2, <3>3, <4>1
      <4> QED
        BY <3>2, <4>1, <4>2
    <3>4. B[f][x] = B[g][x]
      BY <1>0, <3>3
    <3> QED
      BY <1>2, <3>2, <3>4 DEF Follow
  <2> QED
    BY <1>0, <2>1
<1> DEFINE C(n) == CHOOSE f \in [X -> V] : Follow(f, n, X, h, B)
           F == [x \in X |-> C(h[x] + 1)[x]]
<1>3. \A n \in Nat : C(n) \in [X -> V] /\ Follow(C(n), n, X, h, B)
    BY <1>1
<1> HIDE DEF C
<1>4. F \in [X -> V]
    BY <1>0, <1>3
<1>5. ASSUME NEW x \in X PROVE F[x] = B[F][x]
  <2>1. PICK n \in Nat : n = h[x] + 1
    BY <1>0
  <2>2. C(n) \in [X -> V] /\ Follow(C(n), n, X, h, B)
    BY <1>3
  <2>3. F[x] = B[C(n)][x]
    BY <1>0, <2>1, <2>2 DEF Follow
  <2>4. ASSUME NEW y \in X, h[y] < h[x] PROVE F[y] = C(n)[y]
    <3>1. PICK m \in Nat : m = h[y] + 1
      BY <1>0
    <3>2. C(m) \in [X -> V] /\ Follow(C(m), m, X, h, B)
      BY <1>3
    <3>3. h[y] < m /\ h[y] < n
      BY <1>0, <2>1, <2>4, <3>1
    <3>4. C(m)[y] = C(n)[y]
      BY <1>2, <2>2, <3>2, <3>3
    <3> QED
      BY <3>1, <3>4
  <2>5. B[F][x] = B[C(n)][x]
    BY <1>0, <1>4, <2>2, <2>4
  <2> QED
    BY <2>3, <2>5
<1> HIDE DEF F
<1>6. B[F] \in [X -> V]
    BY <1>0, <1>4
<1>7. F = B[F]
    BY <1>4, <1>5, <1>6
<1> QED
    BY <1>4, <1>7 DEF Solution

-----------------------------------------------------------------------------
(* Digits.                                                                 *)

(* The sums of a sequence are those its recursion describes.               *)
LEMMA SumsFacts ==
    ASSUME NEW s \in Seq(Int)
    PROVE  /\ Sums(s)[0] = 0
           /\ \A k \in 0 .. Len(s) : Sums(s)[k] \in Int
           /\ \A k \in 1 .. Len(s) : Sums(s)[k] = Sums(s)[k - 1] + s[k]
<1> DEFINE X == 0 .. Len(s)
           h == [k \in X |-> k]
           B == [f \in [X -> Int] |-> [k \in X |-> IF k = 0 THEN 0 ELSE f[k - 1] + s[k]]]
<1>1. /\ h \in [X -> Nat] /\ Len(s) \in Nat
      /\ \A k \in X : k # 0 => k - 1 \in X /\ s[k] \in Int
    OBVIOUS
<1>2. B \in [[X -> Int] -> [X -> Int]]
  <2>1. ASSUME NEW f \in [X -> Int], NEW k \in X
        PROVE  (IF k = 0 THEN 0 ELSE f[k - 1] + s[k]) \in Int
    BY <1>1, SMTT(30)
  <2> QED
    BY <2>1, Zenon
<1>3. Recursion(X, Int, h, B)
  <2>1. ASSUME NEW f \in [X -> Int], NEW g \in [X -> Int], NEW k \in X,
               \A y \in X : h[y] < h[k] => f[y] = g[y]
        PROVE  B[f][k] = B[g][k]
    <3>1. k # 0 => h[k - 1] < h[k]
      BY <1>1
    <3>2. k # 0 => f[k - 1] = g[k - 1]
      BY <1>1, <2>1, <3>1
    <3> QED
      BY <3>2
  <2> QED
    BY <1>1, <1>2, <2>1 DEF Recursion
<1>4. PICK F : Solution(X, Int, B, F)
  <2>1. 0 \in Int
    OBVIOUS
  <2> HIDE DEF B, X, h
  <2> QED
    BY <1>3, <2>1, FixedPoint, Zenon
<1>5. F = [k \in 0 .. Len(s) |-> IF k = 0 THEN 0 ELSE F[k - 1] + s[k]]
    BY <1>4 DEF Solution
<1>6. Sums(s) = [k \in 0 .. Len(s) |-> IF k = 0 THEN 0 ELSE Sums(s)[k - 1] + s[k]]
    BY <1>5 DEF Sums
<1> DEFINE S == Sums(s)
<1>7. /\ S[0] = 0
      /\ \A k \in 1 .. Len(s) : S[k] = S[k - 1] + s[k]
  <2> HIDE DEF S, B, h
  <2>1. S = [k \in 0 .. Len(s) |-> IF k = 0 THEN 0 ELSE S[k - 1] + s[k]]
    BY <1>6 DEF S
  <2>2. /\ S[0] = 0
        /\ \A k \in 0 .. Len(s) : k # 0 => S[k] = S[k - 1] + s[k]
    BY <1>1, <2>1
  <2> QED
    BY <1>1, <2>2
<1> HIDE DEF S
<1> DEFINE T == {k \in Nat : k <= Len(s) /\ S[k] \notin Int}
<1>8. ASSUME T # {} PROVE FALSE
  <2>1. PICK k \in T : \A m \in T : k <= m
    BY <1>8, Least
  <2>2. k \in Nat /\ k <= Len(s) /\ S[k] \notin Int
    OBVIOUS
  <2>3. k # 0
    BY <1>7, <2>2
  <2>4. k - 1 \in Nat /\ k - 1 \notin T /\ k \in 1 .. Len(s)
    BY <1>1, <2>1, <2>2, <2>3
  <2>5. S[k - 1] \in Int /\ s[k] \in Int
    BY <1>1, <2>2, <2>4
  <2> QED
    BY <1>7, <2>2, <2>4, <2>5
<1> QED
    BY <1>1, <1>7, <1>8 DEF S

(* Quotient and remainder are determined by what they are made for.        *)
LEMMA DivUnique ==
    ASSUME NEW n \in Int, NEW d \in Nat, d >= 1, NEW q \in Int, NEW r \in 0 .. d - 1,
           n = q * d + r
    PROVE  n \div d = q /\ n % d = r
<1>1. PICK x \in Int, y \in Nat : x = n \div d /\ y = n % d /\ y < d /\ n = x * d + y
    OBVIOUS
<1>2. ASSUME x < q PROVE FALSE
  <2>1. (x + 1) * d <= q * d
    BY <1>2
  <2>2. (x + 1) * d = x * d + d
    OBVIOUS
  <2> QED
    BY <1>1, <2>1, <2>2
<1>3. ASSUME q < x PROVE FALSE
  <2>1. (q + 1) * d <= x * d
    BY <1>3
  <2>2. (q + 1) * d = q * d + d
    OBVIOUS
  <2> QED
    BY <1>1, <2>1, <2>2
<1>4. x = q
    BY <1>2, <1>3
<1> QED
    BY <1>1, <1>4

(* A digit with and without the bit above it.                              *)
LEMMA DigitMod ==
    ASSUME NEW m \in Nat \ {0}, NEW u \in 0 .. m - 1
    PROVE  u % m = u /\ (u + m) % m = u
<1>1. u = 0 * m + u /\ u + m = 1 * m + u /\ u \in Int /\ u + m \in Int /\ m >= 1
    OBVIOUS
<1>2. u % m = u
  <2>1. 0 \in Int /\ m \in Nat
    OBVIOUS
  <2> QED
    BY <1>1, <2>1, DivUnique
<1>3. (u + m) % m = u
  <2>1. 1 \in Int /\ m \in Nat
    OBVIOUS
  <2> QED
    BY <1>1, <2>1, DivUnique
<1> QED
    BY <1>2, <1>3

(* Quotient and remainder of a natural number.                             *)
LEMMA Quotient ==
    ASSUME NEW n \in Nat, NEW d \in Nat \ {0}
    PROVE  /\ n \div d \in Nat /\ n % d \in Nat /\ n % d < d /\ n % d <= n
           /\ n = (n \div d) * d + (n % d)
<1>1. PICK q \in Int : q = n \div d
    OBVIOUS
<1>2. PICK r \in Nat : r = n % d
    OBVIOUS
<1>3. r < d /\ n = q * d + r
    BY <1>1, <1>2
<1>4. q >= 0
  <2>1. ASSUME q < 0 PROVE FALSE
    <3>1. PICK c \in Nat : q = -(c + 1)
      <4>1. -q - 1 \in Nat /\ q = -((-q - 1) + 1)
        BY <2>1
      <4> QED
        BY <4>1
    <3>2. q * d = -(c * d) - d /\ c * d \in Nat
      BY <3>1
    <3> QED
      BY <1>3, <3>2
  <2> QED
    BY <2>1
<1>5. q * d \in Nat
    BY <1>4
<1>6. /\ q \in Nat /\ r \in Nat /\ r < d /\ r <= n
      /\ n = q * d + r
    BY <1>3, <1>4, <1>5
<1> QED
    BY <1>1, <1>2, <1>6, Zenon

(* Division in two steps.                                                  *)
LEMMA DivTwice ==
    ASSUME NEW n \in Int, NEW a \in Nat, a >= 1, NEW b \in Nat, b >= 1
    PROVE  /\ n \div (a * b) = (n \div a) \div b
           /\ n % (a * b) = (n % a) + ((n \div a) % b) * a
<1>1. PICK q \in Int, r \in Nat : q = n \div a /\ r = n % a /\ r < a /\ n = q * a + r
    OBVIOUS
<1>2. PICK x \in Int, y \in Nat : x = q \div b /\ y = q % b /\ y < b /\ q = x * b + y
    OBVIOUS
<1>3. PICK c \in Nat : c = a * b /\ c >= 1
  <2>1. a * b \in Nat /\ a <= a * b
    OBVIOUS
  <2> QED
    BY <2>1
<1>4. PICK z \in Nat : z = y * a + r
    OBVIOUS
<1>5. z < c
  <2>1. (y + 1) * a <= b * a
    BY <1>2
  <2>2. (y + 1) * a = y * a + a /\ b * a = c
    BY <1>3
  <2> QED
    BY <1>1, <1>4, <2>1, <2>2
<1>6. n = x * c + z
  <2>1. n = (x * b + y) * a + r
    BY <1>1, <1>2
  <2>2. (x * b + y) * a = x * (a * b) + y * a
    OBVIOUS
  <2> QED
    BY <1>3, <1>4, <2>1, <2>2
<1>7. n \div c = x /\ n % c = z
    BY <1>3, <1>5, <1>6, DivUnique
<1>8. n \div c = q \div b /\ n % c = r + (q % b) * a
  <2>1. (q % b) * a = y * a
    BY <1>2
  <2> QED
    BY <1>2, <1>4, <1>7, <2>1
<1> QED
  <2>1. a * b = c
    BY <1>3
  <2> QED
    BY <1>1, <1>8, <2>1

(* The digits of a number.                                                 *)
LEMMA DigitRange ==
    ASSUME NEW n \in Int, NEW g \in Nat, NEW i \in Nat \ {0}
    PROVE  Digit(n, g, i) \in 0 .. Pow2[g] - 1
<1>1. g * (i - 1) \in Nat
    OBVIOUS
<1>2. PICK p \in Nat, b \in Nat : p = Pow2[g * (i - 1)] /\ p >= 1 /\ b = Pow2[g] /\ b >= 1
    BY <1>1, Pow2Facts
<1>3. (n \div p) \in Int
    BY <1>2
<1>4. ((n \div p) % b) \in 0 .. b - 1
    BY <1>2, <1>3
<1> QED
    BY <1>2, <1>4 DEF Digit

(* The powers of two of g more bits.                                       *)
LEMMA Pow2Group ==
    ASSUME NEW g \in Nat, NEW i \in Nat \ {0}
    PROVE  /\ g * (i - 1) \in Nat /\ g * i \in Nat
           /\ \E a, b \in Nat : /\ a = Pow2[g * (i - 1)] /\ b = Pow2[g]
                                /\ Pow2[g * i] = a * b /\ a >= 1 /\ b >= 1
<1>1. g * (i - 1) \in Nat /\ g * i \in Nat /\ g * (i - 1) + g = g * i
    OBVIOUS
<1>2. Pow2[g * i] = Pow2[g * (i - 1)] * Pow2[g]
    BY <1>1, Pow2Sum
<1> QED
    BY <1>1, <1>2, Pow2Facts

(* What the sums that make a number add up.                                *)
Parts(d, g) == [i \in DOMAIN d |-> d[i] * Pow2[g * (i - 1)]]

(* The number of the digits is the last of their sums, an integer.         *)
LEMMA PartsFacts ==
    ASSUME NEW d \in Seq(Nat), NEW g \in Nat
    PROVE  /\ Parts(d, g) \in Seq(Int) /\ Len(Parts(d, g)) = Len(d)
           /\ \A k \in 1 .. Len(d) : Parts(d, g)[k] = d[k] * Pow2[g * (k - 1)]
           /\ Number(d, g) = Sums(Parts(d, g))[Len(d)]
           /\ Number(d, g) \in Int
<1>1. Len(d) \in Nat /\ DOMAIN d = 1 .. Len(d)
    OBVIOUS
<1>2. ASSUME NEW k \in 1 .. Len(d) PROVE d[k] * Pow2[g * (k - 1)] \in Int
  <2>1. d[k] \in Nat /\ k \in Nat \ {0}
    BY <1>1
  <2>2. Pow2[g * (k - 1)] \in Nat
    BY <2>1, Pow2Group
  <2> QED
    BY <2>1, <2>2
<1>3. Parts(d, g) = [k \in 1 .. Len(d) |-> d[k] * Pow2[g * (k - 1)]]
    BY <1>1 DEF Parts
<1>4. Parts(d, g) \in [1 .. Len(d) -> Int]
    BY <1>2, <1>3
<1>5. Parts(d, g) \in Seq(Int) /\ Len(Parts(d, g)) = Len(d)
    BY <1>1, <1>3, <1>4
<1>6. Number(d, g) = Sums(Parts(d, g))[Len(d)]
    BY DEF Number, Parts
<1>7. Sums(Parts(d, g))[Len(d)] \in Int
  <2>1. Len(d) \in 0 .. Len(Parts(d, g))
    BY <1>1, <1>5
  <2> QED
    BY <1>5, <2>1, SumsFacts
<1> QED
    BY <1>1, <1>3, <1>5, <1>6, <1>7

(* The first k digits of n make up the low bits of n.                      *)
LEMMA DigitSums ==
    ASSUME NEW n \in Int, NEW g \in Nat, NEW d \in Seq(Nat),
           \A i \in DOMAIN d : d[i] = Digit(n, g, i)
    PROVE  \A k \in 0 .. Len(d) : Sums(Parts(d, g))[k] = n % Pow2[g * k]
<1> DEFINE S == Sums(Parts(d, g))
           T == {k \in Nat : k <= Len(d) /\ S[k] # n % Pow2[g * k]}
<1>1. /\ S[0] = 0
      /\ \A k \in 1 .. Len(d) : S[k] = S[k - 1] + d[k] * Pow2[g * (k - 1)]
      /\ Len(d) \in Nat /\ DOMAIN d = 1 .. Len(d)
    BY PartsFacts, SumsFacts
<1> HIDE DEF S
<1>2. ASSUME T # {} PROVE FALSE
  <2>1. PICK k \in T : \A m \in T : k <= m
    BY <1>2, Least
  <2>2. k \in Nat /\ k <= Len(d) /\ S[k] # n % Pow2[g * k]
    OBVIOUS
  <2>3. k # 0
    <3>1. g * 0 = 0 /\ n % 1 = 0
      OBVIOUS
    <3> QED
      BY <1>1, <2>2, <3>1, Pow2Facts
  <2>4. k - 1 \in Nat /\ k - 1 \notin T /\ k \in 1 .. Len(d) /\ k \in Nat \ {0}
    BY <1>1, <2>1, <2>2, <2>3
  <2>5. S[k - 1] = n % Pow2[g * (k - 1)]
    BY <1>1, <2>2, <2>4
  <2>6. PICK a \in Nat, b \in Nat : /\ a = Pow2[g * (k - 1)] /\ b = Pow2[g]
                                  /\ Pow2[g * k] = a * b /\ a >= 1 /\ b >= 1
    BY <2>4, Pow2Group
  <2>7. S[k] = (n % a) + ((n \div a) % b) * a
    BY <1>1, <2>4, <2>5, <2>6 DEF Digit
  <2>8. n % (a * b) = (n % a) + ((n \div a) % b) * a
    BY <2>6, DivTwice
  <2> QED
    BY <2>2, <2>6, <2>7, <2>8
<1> QED
    BY <1>1, <1>2 DEF S

(* A digit below b before one that is below a.                             *)
LEMMA DigitBelow ==
    ASSUME NEW a \in Nat, NEW b \in Nat, NEW x \in Nat, NEW y \in Nat, x < b, y < a
    PROVE  y + x * a \in 0 .. a * b - 1
<1>1. PICK z \in Nat : b = x + 1 + z
  <2>1. b - (x + 1) \in Nat /\ b = x + 1 + (b - (x + 1))
    OBVIOUS
  <2> QED
    BY <2>1
<1>2. a * b = x * a + a + z * a
    BY <1>1
<1>3. x * a \in Nat /\ z * a \in Nat
    OBVIOUS
<1> QED
    BY <1>2, <1>3

(* Digits of which all are below the base stay below its power.            *)
LEMMA SumBound ==
    ASSUME NEW g \in Nat, NEW d \in Seq(Nat), \A i \in DOMAIN d : d[i] < Pow2[g]
    PROVE  \A k \in 0 .. Len(d) : Sums(Parts(d, g))[k] \in 0 .. Pow2[g * k] - 1
<1> DEFINE S == Sums(Parts(d, g))
           T == {k \in Nat : k <= Len(d) /\ S[k] \notin 0 .. Pow2[g * k] - 1}
<1>1. /\ S[0] = 0
      /\ \A k \in 1 .. Len(d) : S[k] = S[k - 1] + d[k] * Pow2[g * (k - 1)]
      /\ Len(d) \in Nat /\ DOMAIN d = 1 .. Len(d)
    BY PartsFacts, SumsFacts
<1> HIDE DEF S
<1>2. ASSUME T # {} PROVE FALSE
  <2>1. PICK k \in T : \A m \in T : k <= m
    BY <1>2, Least
  <2>2. k \in Nat /\ k <= Len(d) /\ S[k] \notin 0 .. Pow2[g * k] - 1
    OBVIOUS
  <2>3. k # 0
    <3>1. g * 0 = 0
      OBVIOUS
    <3> QED
      BY <1>1, <2>2, <3>1, Pow2Facts, SMTT(30)
  <2>4. k - 1 \in Nat /\ k - 1 \notin T /\ k \in 1 .. Len(d) /\ k \in Nat \ {0}
    BY <1>1, <2>1, <2>2, <2>3
  <2>5. S[k - 1] \in 0 .. Pow2[g * (k - 1)] - 1
    BY <1>1, <2>2, <2>4
  <2>6. PICK a \in Nat, b \in Nat : /\ a = Pow2[g * (k - 1)] /\ b = Pow2[g]
                                  /\ Pow2[g * k] = a * b /\ a >= 1 /\ b >= 1
    BY <2>4, Pow2Group
  <2>7. PICK x \in Nat, y \in Nat : x = d[k] /\ y = S[k - 1] /\ x < b /\ y < a
    <3>1. k \in DOMAIN d
      BY <1>1, <2>4
    <3>2. d[k] \in Nat
      BY <3>1
    <3>3. d[k] < b
      BY <2>6, <3>1
    <3>4. S[k - 1] \in 0 .. a - 1
      BY <2>5, <2>6
    <3> QED
      BY <3>2, <3>3, <3>4
  <2>8. S[k] = y + x * a
    BY <1>1, <2>4, <2>6, <2>7
  <2>9. y + x * a \in 0 .. a * b - 1
    BY <2>7, DigitBelow
  <2> QED
    BY <2>2, <2>6, <2>8, <2>9
<1> QED
    BY <1>1, <1>2 DEF S

(* A last digit below a smaller power keeps the number below a smaller one. *)
LEMMA NumberBound ==
    ASSUME NEW g \in Nat, NEW r \in Nat, NEW d \in Seq(Nat), d # <<>>,
           \A i \in DOMAIN d : d[i] < Pow2[g], d[Len(d)] < Pow2[r]
    PROVE  Number(d, g) \in 0 .. Pow2[g * (Len(d) - 1) + r] - 1
<1> DEFINE S == Sums(Parts(d, g))
<1>1. Len(d) \in Nat \ {0} /\ Len(d) - 1 \in 0 .. Len(d) /\ Len(d) \in DOMAIN d
    OBVIOUS
<1>2. /\ Number(d, g) = S[Len(d)]
      /\ S[Len(d)] = S[Len(d) - 1] + d[Len(d)] * Pow2[g * (Len(d) - 1)]
  <2>1. Len(d) \in 1 .. Len(Parts(d, g))
    BY <1>1, PartsFacts
  <2>2. S[Len(d)] = S[Len(d) - 1] + Parts(d, g)[Len(d)]
    BY <2>1, PartsFacts, SumsFacts
  <2> QED
    BY <1>1, <2>2, PartsFacts
<1>3. S[Len(d) - 1] \in 0 .. Pow2[g * (Len(d) - 1)] - 1
    BY <1>1, SumBound
<1> HIDE DEF S
<1>4. PICK e \in Nat : e = g * (Len(d) - 1)
    BY <1>1, Pow2Group
<1>5. PICK a \in Nat, b \in Nat : a = Pow2[e] /\ b = Pow2[r] /\ Pow2[e + r] = a * b
    BY <1>4, Pow2Facts, Pow2Sum
<1>6. PICK x \in Nat, y \in Nat : x = d[Len(d)] /\ y = S[Len(d) - 1] /\ x < b /\ y < a
  <2>1. d[Len(d)] \in Nat
    BY <1>1
  <2>2. d[Len(d)] < b
    BY <1>5
  <2>3. S[Len(d) - 1] \in 0 .. a - 1
    BY <1>3, <1>4, <1>5
  <2> QED
    BY <2>1, <2>2, <2>3
<1>7. Number(d, g) = y + x * a
    BY <1>2, <1>4, <1>5, <1>6
<1> QED
  <2>1. y + x * a \in 0 .. a * b - 1
    BY <1>6, DigitBelow
  <2> QED
    BY <1>4, <1>5, <1>7, <2>1

(* The number of the digits of n is n, as far as they go.                  *)
LEMMA NumberOfDigits ==
    ASSUME NEW n \in Int, NEW g \in Nat, NEW d \in Seq(Nat),
           \A i \in DOMAIN d : d[i] = Digit(n, g, i)
    PROVE  Number(d, g) = Low(n, g * Len(d))
<1>1. Len(d) \in 0 .. Len(d)
    OBVIOUS
<1>2. Sums(Parts(d, g))[Len(d)] = n % Pow2[g * Len(d)]
    BY <1>1, DigitSums
<1> QED
    BY <1>2, PartsFacts DEF Low

(* A number that a width holds is its own low bits.                        *)
LEMMA LowSame ==
    ASSUME NEW w \in Nat, NEW n \in 0 .. Pow2[w] - 1
    PROVE  Low(n, w) = n
<1>1. PICK p \in Nat : p = Pow2[w] /\ p >= 1
    BY Pow2Facts
<1>2. n = 0 * p + n /\ n \in Int /\ n \in 0 .. p - 1
    BY <1>1
<1>3. n % p = n
    BY <1>1, <1>2, DivUnique
<1> QED
    BY <1>1, <1>3 DEF Low

-----------------------------------------------------------------------------
(* Varints.                                                                *)

(* How the groups of a varint fill the width of a number.                  *)
LEMMA Grouping ==
    /\ Group \in Nat \ {0} /\ VarBits \in Nat \ {0} /\ LastIndex \in Nat \ {0}
    /\ Group * LastIndex \in Nat /\ Group * LastIndex < VarBits
    /\ VarBits <= Group * (LastIndex + 1)
    /\ VarBits - Group * LastIndex \in 1 .. Group
    /\ More \in Nat \ {0} /\ LastLimit \in Nat /\ LastLimit < More
    /\ LastLimit + 1 = Pow2[VarBits - Group * LastIndex]
<1>1. PICK g \in Nat \ {0}, b \in Nat \ {0} : g = Group /\ b = VarBits /\ g < b
  <2>1. VarBits \in Nat \ {0}
    BY ByteAssumption DEF VarBits
  <2> QED
    BY <2>1, VarintAssumption
<1>2. PICK q \in Int, r \in 0 .. g - 1 : q = (b - 1) \div g /\ b - 1 = q * g + r
    BY <1>1
<1>3. q \in Nat \ {0}
  <2>1. ASSUME q <= 0 PROVE FALSE
    <3>1. PICK z \in Nat : q = -z
      <4>1. -q \in Nat /\ q = -(-q)
        BY <2>1
      <4> QED
        BY <4>1
    <3>2. q * g = -(z * g) /\ z * g \in Nat
      BY <3>1
    <3> QED
      BY <1>1, <1>2, <3>2
  <2> QED
    BY <2>1
<1>4. g * q \in Nat /\ g * q < b /\ b <= g * (q + 1) /\ b - g * q \in 1 .. g
  <2>1. g * q = q * g /\ g * (q + 1) = q * g + g /\ q * g \in Nat
    BY <1>3
  <2> QED
    BY <1>2, <2>1
<1>5. LastIndex = q /\ More = Pow2[g] /\ LastLimit = Pow2[b - g * q] - 1
    BY <1>1, <1>2 DEF LastIndex, More, LastLimit
<1>6. Pow2[b - g * q] \in Nat \ {0} /\ Pow2[g] \in Nat \ {0}
    BY <1>4, Pow2Facts
<1>7. Pow2[b - g * q] <= Pow2[g]
  <2>1. CASE b - g * q = g
    BY <1>6, <2>1
  <2>2. CASE b - g * q < g
    BY <1>4, <1>6, <2>2, Pow2Grows
  <2> QED
    BY <1>4, <2>1, <2>2
<1> QED
    BY <1>1, <1>3, <1>4, <1>5, <1>6, <1>7

(* The powers of two do not fall.                                          *)
LEMMA Pow2Monotone ==
    ASSUME NEW m \in Nat, NEW n \in Nat, m <= n
    PROVE  Pow2[m] \in Nat /\ Pow2[n] \in Nat /\ Pow2[m] <= Pow2[n]
<1>1. Pow2[m] \in Nat /\ Pow2[n] \in Nat
    BY Pow2Facts
<1>2. CASE m = n
    BY <1>1, <1>2
<1>3. CASE m < n
    BY <1>1, <1>3, Pow2Grows
<1> QED
    BY <1>1, <1>2, <1>3

(* A number below 64 bits needs so many groups and no fewer.               *)
LEMMA PlacesFacts ==
    ASSUME NEW x \in 0 .. Pow2[VarBits] - 1
    PROVE  /\ Places(x) \in 1 .. LastIndex + 1
           /\ x < Pow2[Group * Places(x)]
           /\ \A j \in 1 .. Places(x) - 1 : x >= Pow2[Group * j]
<1> DEFINE T == {i \in Nat \ {0} : x < Pow2[Group * i]}
<1>1. LastIndex + 1 \in T
  <2>1. Group * (LastIndex + 1) \in Nat /\ VarBits \in Nat
    BY Grouping
  <2>2. /\ Pow2[VarBits] \in Nat /\ Pow2[Group * (LastIndex + 1)] \in Nat
        /\ Pow2[VarBits] <= Pow2[Group * (LastIndex + 1)]
    BY <2>1, Grouping, Pow2Monotone
  <2>3. x < Pow2[Group * (LastIndex + 1)]
    BY <2>2
  <2> QED
    BY <2>3, Grouping
<1>2. PICK i \in T : \A j \in T : i <= j
    BY <1>1, Least
<1>3. i \in Nat \ {0} /\ x < Pow2[Group * i] /\ i <= LastIndex + 1
    BY <1>1, <1>2
<1>4. i \in 1 .. LastIndex + 1
    BY <1>3, Grouping
<1>5. \A j \in 1 .. i - 1 : x >= Pow2[Group * j]
  <2>1. ASSUME NEW j \in 1 .. i - 1 PROVE x >= Pow2[Group * j]
    <3>1. j \in Nat \ {0} /\ j \notin T
      BY <1>2, <1>3
    <3>2. Group * j \in Nat
      BY <3>1, Grouping
    <3>3. Pow2[Group * j] \in Nat
      BY <3>2, Pow2Facts
    <3> QED
      BY <3>1, <3>3
  <2> QED
    BY <2>1
<1> DEFINE P(i_) == x < Pow2[Group * i_] /\ \A j \in 1 .. i_ - 1 : x >= Pow2[Group * j]
<1>6. \E k \in 1 .. LastIndex + 1 : P(k)
    BY <1>3, <1>4, <1>5
<1>7. Places(x) = CHOOSE k \in 1 .. LastIndex + 1 : P(k)
    BY DEF Places
<1>8. Places(x) \in 1 .. LastIndex + 1 /\ P(Places(x))
  <2> HIDE DEF P
  <2> QED
    BY <1>6, <1>7
<1> QED
    BY <1>8

(* The bytes of a varint: its groups, all but the last one continued.      *)
LEMMA EncodeFacts ==
    ASSUME NEW x \in 0 .. Pow2[VarBits] - 1
    PROVE  /\ EncodeVarint(x) \in Seq(0 .. 2 * More - 1)
           /\ Len(EncodeVarint(x)) = Places(x)
           /\ \A i \in 1 .. Places(x) : EncodeVarint(x)[i] % More = Digit(x, Group, i)
           /\ \A i \in 1 .. Places(x) - 1 : EncodeVarint(x)[i] >= More
           /\ EncodeVarint(x)[Places(x)] = Digit(x, Group, Places(x))
           /\ EncodeVarint(x)[Places(x)] < More
<1>1. PICK m \in Nat \ {0} : m = More
    BY Grouping
<1>2. PICK l \in Nat \ {0} : l = Places(x)
    BY PlacesFacts, Grouping
<1>3. x \in Int
    BY Grouping
<1>4. \A i \in 1 .. l : Digit(x, Group, i) \in 0 .. m - 1
  <2>1. \A i \in Nat \ {0} : Digit(x, Group, i) \in 0 .. m - 1
    BY <1>1, <1>3, Grouping, DigitRange DEF More
  <2> QED
    BY <2>1
<1> DEFINE e == EncodeVarint(x)
<1>5. e = [i \in 1 .. l |-> Digit(x, Group, i) + IF i < l THEN m ELSE 0]
    BY <1>1, <1>2 DEF EncodeVarint
<1> HIDE DEF e
<1>6. ASSUME NEW i \in 1 .. l
      PROVE  /\ e[i] \in 0 .. 2 * m - 1 /\ e[i] % m = Digit(x, Group, i)
             /\ i < l => e[i] >= m
             /\ i = l => e[i] = Digit(x, Group, i) /\ e[i] < m
  <2>1. PICK u \in 0 .. m - 1 : u = Digit(x, Group, i)
    BY <1>4
  <2>2. CASE i < l
    <3>1. e[i] = u + m
      BY <1>5, <2>1, <2>2
    <3>2. e[i] % m = u
      BY <3>1, DigitMod
    <3> QED
      BY <2>1, <2>2, <3>1, <3>2
  <2>3. CASE i = l
    <3>1. e[i] = u
      BY <1>5, <2>1, <2>3
    <3>2. e[i] % m = u
      BY <3>1, DigitMod
    <3> QED
      BY <2>1, <2>3, <3>1, <3>2
  <2> QED
    BY <2>2, <2>3
<1>7. e \in Seq(0 .. 2 * m - 1) /\ Len(e) = l
    BY <1>5, <1>6
<1> QED
    BY <1>1, <1>2, <1>6, <1>7 DEF e

(* The first byte that is not continued ends a varint.                     *)
LEMMA EndFacts ==
    ASSUME NEW d \in Seq(Nat), Ends(d) # {}
    PROVE  /\ End(d) \in DOMAIN d /\ d[End(d)] < More
           /\ \A j \in DOMAIN d : j < End(d) => d[j] >= More
<1>1. Ends(d) \subseteq Nat /\ More \in Nat
    BY Grouping DEF Ends
<1>2. \E i \in Ends(d) : \A j \in Ends(d) : i <= j
    BY <1>1, Least
<1>3. End(d) \in Ends(d) /\ \A j \in Ends(d) : End(d) <= j
    BY <1>2, Zenon DEF End
<1>4. ASSUME NEW j \in DOMAIN d, j < End(d) PROVE d[j] >= More
  <2>1. j \in Nat /\ End(d) \in Nat /\ j \notin Ends(d)
    BY <1>1, <1>3, <1>4
  <2>2. ~(d[j] < More) /\ d[j] \in Nat
    BY <2>1 DEF Ends
  <2> QED
    BY <1>1, <2>2
<1> QED
    BY <1>3, <1>4 DEF Ends

(* And is the only one that does.                                          *)
LEMMA EndAt ==
    ASSUME NEW d \in Seq(Nat), NEW l \in DOMAIN d, d[l] < More,
           \A j \in 1 .. l - 1 : d[j] >= More
    PROVE  Ends(d) # {} /\ End(d) = l
<1>1. l \in Ends(d)
    BY DEF Ends
<1>2. /\ End(d) \in DOMAIN d /\ d[End(d)] < More
      /\ \A j \in DOMAIN d : j < End(d) => d[j] >= More
    BY <1>1, EndFacts
<1>3. End(d) \in Nat \ {0} /\ l \in Nat \ {0} /\ More \in Nat
    BY <1>2, Grouping
<1>4. ~(End(d) < l)
  <2>1. ASSUME End(d) < l PROVE FALSE
    <3>1. End(d) \in 1 .. l - 1
      BY <1>3, <2>1
    <3>2. d[End(d)] >= More /\ d[End(d)] \in Nat
      BY <1>2, <3>1
    <3> QED
      BY <1>2, <1>3, <3>2
  <2> QED
    BY <2>1
<1>5. ~(l < End(d))
  <2>1. ASSUME l < End(d) PROVE FALSE
    <3>1. d[l] >= More /\ d[l] \in Nat
      BY <1>2, <2>1
    <3> QED
      BY <1>3, <3>1
  <2> QED
    BY <2>1
<1> QED
    BY <1>1, <1>3, <1>4, <1>5

(* The groups of bytes.                                                    *)
LEMMA GroupsFacts ==
    ASSUME NEW d \in Seq(Nat)
    PROVE  /\ [i \in DOMAIN d |-> d[i] % More] \in Seq(Nat)
           /\ Len([i \in DOMAIN d |-> d[i] % More]) = Len(d)
           /\ \A i \in DOMAIN d : d[i] % More < Pow2[Group]
           /\ Denoted(d) \in Int
<1>1. PICK m \in Nat \ {0} : m = More
    BY Grouping
<1>2. \A i \in DOMAIN d : d[i] \in Nat
    OBVIOUS
<1>3. \A i \in DOMAIN d : d[i] % m \in Nat /\ d[i] % m < m
    BY <1>2
<1> DEFINE t == [i \in DOMAIN d |-> d[i] % More]
<1>4. t \in Seq(Nat) /\ Len(t) = Len(d)
    BY <1>1, <1>3
<1> HIDE DEF t
<1>5. Number(t, Group) \in Int
    BY <1>4, Grouping, PartsFacts
<1> QED
    BY <1>1, <1>3, <1>4, <1>5 DEF t, Denoted, More

(* What decodeVarint accepts fits into 64 bits.                            *)
LEMMA AcceptedFits ==
    ASSUME NEW d \in Seq(Nat), NEW l \in DOMAIN d, l <= LastIndex + 1, d[l] < More,
           ~(l = LastIndex + 1 /\ d[l] > LastLimit)
    PROVE  Denoted(SubSeq(d, 1, l)) \in 0 .. Pow2[VarBits] - 1
<1> DEFINE s == SubSeq(d, 1, l)
           t == [i \in DOMAIN s |-> s[i] % More]
<1>1. s \in Seq(Nat) /\ Len(s) = l /\ s[l] = d[l] /\ l \in Nat \ {0} /\ l \in DOMAIN s
    OBVIOUS
<1> HIDE DEF s
<1>2. t \in Seq(Nat) /\ Len(t) = l /\ \A i \in DOMAIN t : t[i] < Pow2[Group]
    BY <1>1, GroupsFacts
<1>3. t[l] = d[l] % More
    BY <1>1
<1>4. Denoted(s) = Number(t, Group)
    BY DEF Denoted
<1> HIDE DEF t
<1>5. PICK m \in Nat \ {0}, x \in Nat : m = More /\ x = d[l] /\ x < m
  <2>1. d[l] \in Nat
    OBVIOUS
  <2> QED
    BY <2>1, Grouping
<1>6. t[l] = x
  <2>1. x \in 0 .. m - 1
    BY <1>5
  <2>2. x % m = x
    BY <2>1, DigitMod
  <2> QED
    BY <1>3, <1>5, <2>2
<1>7. \E r \in Nat : /\ x < Pow2[r] /\ Group * (l - 1) + r \in Nat
                     /\ Group * (l - 1) + r <= VarBits
  <2>1. CASE l = LastIndex + 1
    <3>1. PICK r \in Nat : r = VarBits - Group * LastIndex
      BY Grouping
    <3>2. x <= LastLimit
      BY <1>5, <2>1, Grouping
    <3>3. x < Pow2[r]
      BY <3>1, <3>2, <1>5, Grouping
    <3>4. Group * (l - 1) = Group * LastIndex
      BY <2>1, Grouping
    <3>5. Group * (l - 1) + r = VarBits
      BY <3>1, <3>4, Grouping
    <3>6. VarBits \in Nat /\ VarBits <= VarBits
      BY Grouping
    <3> QED
      BY <3>3, <3>5, <3>6
  <2>2. CASE l <= LastIndex
    <3>1. x < Pow2[Group]
      BY <1>5 DEF More
    <3>2. PICK g \in Nat \ {0}, q \in Nat \ {0} : g = Group /\ q = LastIndex /\ g * q < VarBits
      BY Grouping
    <3>3. PICK z \in Nat : q = l + z
      <4>1. q - l \in Nat /\ q = l + (q - l)
        BY <1>1, <2>2, <3>2
      <4> QED
        BY <4>1
    <3>4. g * q = g * (l - 1) + g + z * g /\ z * g \in Nat /\ g * (l - 1) \in Nat
      BY <1>1, <3>3, SMTT(30)
    <3>5. Group * (l - 1) + Group \in Nat /\ Group * (l - 1) + Group <= VarBits
      BY <3>2, <3>4, Grouping, SMTT(30)
    <3> QED
      BY <3>1, <3>5, Grouping
  <2> QED
    BY <1>1, <2>1, <2>2, Grouping
<1>8. PICK r \in Nat : /\ x < Pow2[r] /\ Group * (l - 1) + r \in Nat
                       /\ Group * (l - 1) + r <= VarBits
    BY <1>7
<1>9. Number(t, Group) \in 0 .. Pow2[Group * (l - 1) + r] - 1
  <2>1. t # <<>> /\ t[Len(t)] < Pow2[r] /\ Group \in Nat
    BY <1>1, <1>2, <1>6, <1>8, Grouping
  <2> QED
    BY <1>2, <2>1, NumberBound
<1>10. /\ Pow2[Group * (l - 1) + r] \in Nat /\ Pow2[VarBits] \in Nat
       /\ Pow2[Group * (l - 1) + r] <= Pow2[VarBits]
    BY <1>8, Grouping, Pow2Monotone
<1>11. Number(t, Group) \in 0 .. Pow2[VarBits] - 1
    BY <1>9, <1>10
<1> QED
    BY <1>4, <1>11 DEF s

(* The three answers of decodeVarint.                                      *)
LEMMA DecodeCases ==
    ASSUME NEW d \in Seq(Nat)
    PROVE  \/ DecodeVarint(d) = NoVarint /\ Ends(d) = {}
           \/ /\ DecodeVarint(d) = NoVarint /\ Ends(d) # {}
              /\ End(d) > LastIndex + 1 \/ (End(d) = LastIndex + 1 /\ d[End(d)] > LastLimit)
           \/ /\ Ends(d) # {} /\ End(d) <= LastIndex + 1
              /\ ~(End(d) = LastIndex + 1 /\ d[End(d)] > LastLimit)
              /\ Denoted(SubSeq(d, 1, End(d))) \in 0 .. Pow2[VarBits] - 1
              /\ DecodeVarint(d) = Varint(Denoted(SubSeq(d, 1, End(d))), End(d))
<1>1. CASE Ends(d) = {}
    BY <1>1 DEF DecodeVarint
<1>2. CASE Ends(d) # {} /\ (End(d) > LastIndex + 1
                            \/ (End(d) = LastIndex + 1 /\ d[End(d)] > LastLimit))
    BY <1>2 DEF DecodeVarint
<1>3. CASE Ends(d) # {} /\ ~(End(d) > LastIndex + 1
                             \/ (End(d) = LastIndex + 1 /\ d[End(d)] > LastLimit))
  <2>1. End(d) \in DOMAIN d /\ d[End(d)] < More
    BY <1>3, EndFacts
  <2>2. End(d) \in Nat /\ LastIndex \in Nat
    BY <2>1, Grouping
  <2>3. End(d) <= LastIndex + 1
    BY <1>3, <2>2
  <2>4. Denoted(SubSeq(d, 1, End(d))) \in 0 .. Pow2[VarBits] - 1
    BY <1>3, <2>1, <2>3, AcceptedFits
  <2>5. Low(Denoted(SubSeq(d, 1, End(d))), VarBits) = Denoted(SubSeq(d, 1, End(d)))
    BY <2>4, Grouping, LowSame
  <2>6. DecodeVarint(d) = Varint(Denoted(SubSeq(d, 1, End(d))), End(d))
    BY <1>3, <2>5 DEF DecodeVarint, Value64
  <2> QED
    BY <1>3, <2>3, <2>4, <2>6
<1> QED
    BY <1>1, <1>2, <1>3

(* The last group of a number of 64 bits is within the limit.              *)
LEMMA LastGroup ==
    ASSUME NEW x \in 0 .. Pow2[VarBits] - 1
    PROVE  Digit(x, Group, LastIndex + 1) <= LastLimit
<1>1. PICK e \in Nat, r \in Nat : e = Group * LastIndex /\ r = VarBits - e /\ e + r = VarBits
    BY Grouping
<1>2. PICK a \in Nat \ {0}, b \in Nat \ {0} : /\ a = Pow2[e] /\ b = Pow2[r]
                                              /\ Pow2[VarBits] = a * b
  <2>1. Pow2[e + r] = Pow2[e] * Pow2[r]
    BY Pow2Sum
  <2>2. Pow2[e] \in Nat \ {0} /\ Pow2[r] \in Nat \ {0} /\ Pow2[VarBits] = Pow2[e + r]
    BY <1>1, Pow2Facts
  <2> QED
    BY <2>1, <2>2
<1>3. x \in Nat /\ x < a * b
    BY <1>2
<1>4. PICK q \in Nat, z \in Nat : q = x \div a /\ z < a /\ x = q * a + z
    BY <1>3, Quotient
<1>5. q < b
  <2>1. ASSUME b <= q PROVE FALSE
    <3>1. PICK c \in Nat : q = b + c
      <4>1. q - b \in Nat /\ q = b + (q - b)
        BY <2>1
      <4> QED
        BY <4>1
    <3>2. q * a = a * b + c * a /\ c * a \in Nat
      BY <3>1
    <3> QED
      BY <1>3, <1>4, <3>2
  <2> QED
    BY <2>1
<1>6. q % Pow2[Group] \in Nat /\ q % Pow2[Group] <= q
  <2>1. Pow2[Group] \in Nat \ {0}
    BY Grouping DEF More
  <2> QED
    BY <2>1, Quotient
<1>7. Digit(x, Group, LastIndex + 1) = q % Pow2[Group]
  <2>1. (LastIndex + 1) - 1 = LastIndex
    BY Grouping
  <2> QED
    BY <1>1, <1>2, <1>4, <2>1 DEF Digit
<1>8. LastLimit = b - 1
    BY <1>1, <1>2 DEF LastLimit
<1> QED
    BY <1>5, <1>6, <1>7, <1>8

(* Bytes that begin with a varint of encodeVarint are read to its end.     *)
LEMMA ReadsVarint ==
    ASSUME NEW d \in Seq(Nat), NEW x \in 0 .. Pow2[VarBits] - 1,
           Places(x) \in DOMAIN d,
           \A i \in 1 .. Places(x) : d[i] = EncodeVarint(x)[i]
    PROVE  /\ DecodeVarint(d).ok /\ Ends(d) # {} /\ End(d) = Places(x)
           /\ DecodeVarint(d) = Varint(Denoted(SubSeq(d, 1, Places(x))), Places(x))
<1> DEFINE l == Places(x)
<1>1. l \in Nat \ {0} /\ l <= LastIndex + 1 /\ l \in 1 .. l
    BY PlacesFacts, Grouping
<1> HIDE DEF l
<1>2. d[l] = Digit(x, Group, l) /\ d[l] < More
    BY <1>1, EncodeFacts DEF l
<1>3. \A j \in 1 .. l - 1 : d[j] >= More
  <2>1. \A j \in 1 .. l - 1 : j \in 1 .. l
    BY <1>1
  <2> QED
    BY <2>1, EncodeFacts DEF l
<1>4. Ends(d) # {} /\ End(d) = l
    BY <1>2, <1>3, EndAt DEF l
<1>5. ~(l > LastIndex + 1) /\ ~(l = LastIndex + 1 /\ d[l] > LastLimit)
  <2>1. l = LastIndex + 1 => d[l] <= LastLimit
    BY <1>2, LastGroup
  <2>2. d[l] \in Nat
    BY DEF l
  <2> QED
    BY <1>1, <2>1, <2>2, Grouping
<1>6. DecodeVarint(d) = Varint(Denoted(SubSeq(d, 1, l)), l)
    BY <1>4, <1>5, DecodeCases
<1> QED
    BY <1>4, <1>6 DEF l, Varint

(* The bytes of encodeVarint denote the number.                            *)
LEMMA EncodedDenotes ==
    ASSUME NEW x \in 0 .. Pow2[VarBits] - 1
    PROVE  Denoted(EncodeVarint(x)) = x
<1> DEFINE e == EncodeVarint(x)
           t == [i \in DOMAIN e |-> e[i] % More]
<1>1. e \in Seq(Nat) /\ Len(e) = Places(x) /\ DOMAIN e = 1 .. Places(x)
  <2>1. 2 * More - 1 \in Nat
    BY Grouping
  <2> QED
    BY <2>1, EncodeFacts
<1>2. t \in Seq(Nat) /\ Len(t) = Places(x) /\ DOMAIN t = 1 .. Places(x)
    BY <1>1, GroupsFacts
<1>3. \A i \in DOMAIN t : t[i] = Digit(x, Group, i)
    BY <1>1, EncodeFacts
<1>4. Denoted(e) = Number(t, Group)
    BY DEF Denoted
<1> HIDE DEF t
<1>5. Number(t, Group) = Low(x, Group * Places(x))
  <2>1. x \in Int /\ Group \in Nat
    BY Grouping
  <2> QED
    BY <1>2, <1>3, <2>1, NumberOfDigits
<1>6. Group * Places(x) \in Nat /\ x \in 0 .. Pow2[Group * Places(x)] - 1
  <2>1. Group * Places(x) \in Nat
    BY PlacesFacts, Grouping
  <2>2. Pow2[Group * Places(x)] \in Nat /\ x < Pow2[Group * Places(x)]
    BY <2>1, PlacesFacts, Pow2Facts
  <2> QED
    BY <2>1, <2>2
<1> QED
    BY <1>4, <1>5, <1>6, LowSame

(* A number of 64 bits is read back from the bytes written for it, and the *)
(* bytes after it are left.                                                *)
THEOREM VarintRoundTrip ==
    ASSUME NEW x \in 0 .. Pow2[VarBits] - 1, NEW rest \in Seq(Nat)
    PROVE  DecodeVarint(EncodeVarint(x) \o rest) = Varint(x, Len(EncodeVarint(x)))
<1> DEFINE e == EncodeVarint(x)
           d == e \o rest
<1>1. e \in Seq(Nat) /\ Len(e) = Places(x) /\ Places(x) \in Nat \ {0}
  <2>1. 2 * More - 1 \in Nat
    BY Grouping
  <2>2. Places(x) \in Nat \ {0}
    BY PlacesFacts, Grouping
  <2> QED
    BY <2>1, <2>2, EncodeFacts
<1>2. Denoted(e) = x
    BY EncodedDenotes
<1> HIDE DEF e
<1>3. d \in Seq(Nat) /\ Places(x) \in DOMAIN d
    BY <1>1
<1>4. \A i \in 1 .. Places(x) : d[i] = e[i]
    BY <1>1
<1>5. SubSeq(d, 1, Places(x)) = e
    BY <1>1
<1>6. DecodeVarint(d) = Varint(Denoted(SubSeq(d, 1, Places(x))), Places(x))
    BY <1>3, <1>4, ReadsVarint DEF e
<1> QED
    BY <1>1, <1>2, <1>5, <1>6 DEF e

(* decodeVarint on any bytes: the number they denote, or there is none of  *)
(* 64 bits whose bytes these begin with.                                   *)
LEMMA VarintCorrect ==
    ASSUME NEW d \in Seq(0 .. 2 * More - 1)
    PROVE  IF DecodeVarint(d).ok
           THEN Denoted(SubSeq(d, 1, DecodeVarint(d).len)) = DecodeVarint(d).x
           ELSE ~\E l \in DOMAIN d :
                     /\ Denoted(SubSeq(d, 1, l)) < Pow2[VarBits]
                     /\ SubSeq(d, 1, l) = EncodeVarint(Denoted(SubSeq(d, 1, l)))
<1>1. d \in Seq(Nat)
  <2>1. 2 * More - 1 \in Nat
    BY Grouping
  <2> QED
    BY <2>1
<1>2. CASE DecodeVarint(d).ok
    BY <1>1, <1>2, DecodeCases DEF Varint, NoVarint
<1>3. ASSUME ~DecodeVarint(d).ok, NEW l \in DOMAIN d,
             Denoted(SubSeq(d, 1, l)) < Pow2[VarBits],
             SubSeq(d, 1, l) = EncodeVarint(Denoted(SubSeq(d, 1, l)))
      PROVE  FALSE
  <2> DEFINE s == SubSeq(d, 1, l)
             t == [i \in DOMAIN s |-> s[i] % More]
             x == Denoted(s)
  <2>1. s \in Seq(Nat) /\ Len(s) = l /\ s # <<>> /\ \A i \in 1 .. l : s[i] = d[i]
    BY <1>1
  <2>2. x \in 0 .. Pow2[VarBits] - 1
    <3>1. t \in Seq(Nat) /\ Len(t) = l /\ \A i \in DOMAIN t : t[i] < Pow2[Group]
      BY <2>1, GroupsFacts
    <3>2. x = Number(t, Group)
      BY DEF Denoted
    <3> HIDE DEF t
    <3>3. t # <<>> /\ t[Len(t)] < Pow2[Group] /\ Group \in Nat
      BY <2>1, <3>1, Grouping
    <3>4. Number(t, Group) \in 0 .. Pow2[Group * (Len(t) - 1) + Group] - 1
      BY <3>1, <3>3, NumberBound
    <3>5. Pow2[VarBits] \in Nat
      BY Grouping, Pow2Facts
    <3> QED
      BY <1>3, <3>2, <3>4, <3>5
  <2> HIDE DEF x
  <2>3. s = EncodeVarint(x)
    BY <1>3 DEF x
  <2> HIDE DEF s
  <2>4. Places(x) = l
    BY <2>1, <2>2, <2>3, EncodeFacts
  <2>5. \A i \in 1 .. Places(x) : d[i] = EncodeVarint(x)[i]
    BY <2>1, <2>3, <2>4
  <2> QED
    BY <1>1, <1>3, <2>2, <2>4, <2>5, ReadsVarint
<1> QED
    BY <1>2, <1>3

(* Every varint that a run reads is read exactly.                          *)
THEOREM VarintsAreExact == CalculationSpec => []VarintExact
<1> DEFINE I == task \in Tasks /\ VarintExact
<1>1. CalculationInit => I
    BY DEF CalculationInit, VarintExact
<1>2. I /\ [ReadNumber \/ Compare \/ Project \/ ProjectAgain]_<<task, stage, tree, output>> => I'
  <2> SUFFICES ASSUME I,
                      [ReadNumber \/ Compare \/ Project \/ ProjectAgain]_<<task, stage, tree, output>>
               PROVE  I'
    OBVIOUS
  <2>1. CASE ReadNumber
    <3>1. /\ task.do = "varint" /\ task' = task /\ stage' = "done"
          /\ output' = DecodeVarint(task.bytes)
      BY <2>1 DEF ReadNumber, At
    <3>2. task.bytes \in Seq(0 .. 2 * More - 1)
      BY <3>1, CalculationAssumption
    <3>3. VarintExact'
      BY <3>1, <3>2, VarintCorrect DEF VarintExact
    <3> QED
      BY <3>1, <3>3
  <2>2. CASE Compare
    <3>1. task.do = "diff" /\ task' = task
      BY <2>2 DEF Compare, At
    <3> QED
      BY <3>1 DEF VarintExact
  <2>3. CASE Project \/ ProjectAgain
    <3>1. task.do = "project" /\ task' = task
      BY <2>3 DEF Project, ProjectAgain, At
    <3> QED
      BY <3>1 DEF VarintExact
  <2>4. CASE UNCHANGED <<task, stage, tree, output>>
    BY <2>4 DEF VarintExact
  <2> QED
    BY <2>1, <2>2, <2>3, <2>4
<1> QED
    BY <1>1, <1>2, PTL DEF CalculationSpec

-----------------------------------------------------------------------------
(* The numbers of Protobuf and Avro.                                       *)

(* The low bits of a number, and those of them.                            *)
LEMMA LowTwice ==
    ASSUME NEW n \in Int, NEW w \in Nat, NEW v \in Nat, w <= v
    PROVE  /\ Low(n, v) \in 0 .. Pow2[v] - 1 /\ Low(n, v) \in Int
           /\ Low(Low(n, v), w) = Low(n, w)
<1>1. PICK u \in Nat : v = w + u
  <2>1. v - w \in Nat /\ v = w + (v - w)
    OBVIOUS
  <2> QED
    BY <2>1
<1>2. PICK a \in Nat \ {0}, b \in Nat \ {0} : a = Pow2[w] /\ b = Pow2[u] /\ Pow2[v] = a * b
  <2>1. Pow2[w + u] = Pow2[w] * Pow2[u]
    BY Pow2Sum
  <2>2. Pow2[w] \in Nat \ {0} /\ Pow2[u] \in Nat \ {0} /\ Pow2[w + u] = Pow2[v]
    BY <1>1, Pow2Facts
  <2> QED
    BY <2>1, <2>2
<1>3. PICK c \in Nat \ {0} : c = a * b
  <2>1. a <= a * b
    OBVIOUS
  <2> QED
    BY <2>1
<1>4. PICK y \in Nat : y = n % c /\ y < c
    BY <1>3
<1>5. n % (a * b) = (n % a) + ((n \div a) % b) * a
  <2>1. a \in Nat /\ a >= 1 /\ b \in Nat /\ b >= 1
    OBVIOUS
  <2> QED
    BY <2>1, DivTwice
<1>6. PICK r \in Nat : r = n % a /\ r < a
    OBVIOUS
<1>7. PICK q \in Int : q = (n \div a) % b
    OBVIOUS
<1>8. y = q * a + r
    BY <1>3, <1>4, <1>5, <1>6, <1>7
<1>9. y % a = r
  <2>1. a \in Nat /\ a >= 1 /\ r \in 0 .. a - 1 /\ y \in Int
    BY <1>6
  <2> QED
    BY <1>8, <2>1, DivUnique
<1>10. Low(n, v) = y /\ Low(n, w) = r
    BY <1>2, <1>3, <1>4, <1>6 DEF Low
<1>11. Low(y, w) = r
    BY <1>2, <1>9 DEF Low
<1>12. y \in 0 .. Pow2[v] - 1 /\ y \in Int
    BY <1>2, <1>3, <1>4
<1> QED
    BY <1>10, <1>11, <1>12

(* A number that a width holds with its sign is its own low bits.          *)
LEMMA SignedSame ==
    ASSUME NEW w \in Nat \ {0}, NEW n \in -Pow2[w - 1] .. Pow2[w - 1] - 1
    PROVE  n \in Int /\ LowSigned(n, w) = n
<1>1. PICK p \in Nat \ {0} : p = Pow2[w - 1] /\ Pow2[w] = 2 * p
  <2>1. w - 1 \in Nat /\ (w - 1) + 1 = w
    OBVIOUS
  <2> QED
    BY <2>1, Pow2Facts
<1>2. n \in Int /\ n >= -p /\ n < p
    BY <1>1
<1>3. CASE n >= 0
  <2>1. n = 0 * (2 * p) + n /\ n \in 0 .. 2 * p - 1
    BY <1>2, <1>3
  <2>2. n % (2 * p) = n
    BY <1>2, <2>1, DivUnique
  <2> QED
    BY <1>1, <1>2, <2>2 DEF LowSigned, Low
<1>4. CASE n < 0
  <2>1. PICK q \in Int, t \in Nat, r \in Nat : q = -1 /\ t = 2 * p /\ r = n + 2 * p
    BY <1>2
  <2>2. n = q * t + r /\ r \in 0 .. t - 1 /\ t >= 1
    BY <1>2, <1>4, <2>1
  <2>3. n % t = r
    BY <1>2, <2>2, DivUnique
  <2>4. n % (2 * p) = n + 2 * p
    BY <2>1, <2>3
  <2> QED
    BY <1>1, <1>2, <2>4 DEF LowSigned, Low
<1> QED
    BY <1>2, <1>3, <1>4

(* The zigzag of a number of 64 bits has 64 bits, and undoes it.           *)
LEMMA ZigzagFacts ==
    ASSUME NEW x \in -Pow2[VarBits - 1] .. Pow2[VarBits - 1] - 1
    PROVE  /\ Zigzag(x) \in 0 .. Pow2[VarBits] - 1
           /\ Unzigzag(Zigzag(x)) = x
<1>1. PICK p \in Nat \ {0} : p = Pow2[VarBits - 1] /\ Pow2[VarBits] = 2 * p
  <2>1. VarBits - 1 \in Nat /\ (VarBits - 1) + 1 = VarBits
    BY Grouping
  <2> QED
    BY <2>1, Pow2Facts
<1>2. x \in Int /\ x >= -p /\ x < p
    BY <1>1
<1>3. CASE x >= 0
  <2>1. Zigzag(x) = 2 * x /\ (2 * x) % 2 = 0 /\ (2 * x) \div 2 = x
    BY <1>2, <1>3 DEF Zigzag
  <2> QED
    BY <1>1, <1>2, <1>3, <2>1 DEF Unzigzag
<1>4. CASE x < 0
  <2>1. /\ Zigzag(x) = -2 * x - 1 /\ (-2 * x - 1) % 2 = 1
        /\ ((-2 * x - 1) + 1) \div 2 = -x
    BY <1>2, <1>4 DEF Zigzag
  <2> QED
    BY <1>1, <1>2, <1>4, <2>1 DEF Unzigzag
<1> QED
    BY <1>2, <1>3, <1>4

(* Avro's longs are read back, and the bytes after them left.              *)
THEOREM LongRoundTrip ==
    ASSUME NEW x \in -Pow2[VarBits - 1] .. Pow2[VarBits - 1] - 1, NEW rest \in Seq(Nat)
    PROVE  ReadLong(WriteLong(x) \o rest) = Varint(x, Len(WriteLong(x)))
<1> DEFINE z == Zigzag(x)
           e == EncodeVarint(z)
           d == e \o rest
<1>1. z \in 0 .. Pow2[VarBits] - 1 /\ Unzigzag(z) = x
    BY ZigzagFacts
<1> HIDE DEF z
<1>2. e \in Seq(Nat) /\ Len(e) = Places(z) /\ Places(z) \in Nat \ {0}
      /\ Places(z) <= LastIndex + 1
  <2>1. 2 * More - 1 \in Nat
    BY Grouping
  <2>2. Places(z) \in Nat \ {0} /\ Places(z) <= LastIndex + 1
    BY <1>1, PlacesFacts, Grouping
  <2> QED
    BY <1>1, <2>1, <2>2, EncodeFacts
<1>3. Denoted(e) = z
    BY <1>1, EncodedDenotes
<1> HIDE DEF e
<1>4. d \in Seq(Nat) /\ Places(z) \in DOMAIN d /\ SubSeq(d, 1, Places(z)) = e
    BY <1>2
<1>5. \A i \in 1 .. Places(z) : d[i] = e[i]
    BY <1>2
<1>6. Ends(d) # {} /\ End(d) = Places(z)
    BY <1>1, <1>4, <1>5, ReadsVarint DEF e
<1>7. Low(z, VarBits) = z
    BY <1>1, Grouping, LowSame
<1>8. ~(End(d) > LastIndex + 2) /\ Value64(d) = z
  <2>1. ~(Places(z) > LastIndex + 2)
    BY <1>2, Grouping
  <2>2. Value64(d) = Low(Denoted(e), VarBits)
    BY <1>4, <1>6 DEF Value64
  <2> QED
    BY <1>3, <1>6, <1>7, <2>1, <2>2
<1>9. ReadLong(d) = Varint(x, Places(z))
    BY <1>1, <1>6, <1>8 DEF ReadLong
<1>10. WriteLong(x) = e
    BY DEF WriteLong, e, z
<1> QED
    BY <1>2, <1>9, <1>10

(* The bytes of a fixed-size number make up its low bits.                  *)
LEMMA FixedBack ==
    ASSUME NEW x \in Int, NEW k \in Nat \ {0}, NEW rest \in Seq(Nat)
    PROVE  /\ Fixed(x, k) \in Seq(Nat) /\ Len(Fixed(x, k)) = k
           /\ Len(Fixed(x, k) \o rest) >= k
           /\ FixedValue(Fixed(x, k) \o rest, k) = Low(x, ByteBits * k)
           /\ Drop(Fixed(x, k) \o rest, k) = rest
<1> DEFINE e == Fixed(x, k)
<1>1. ByteBits \in Nat
    BY ByteAssumption
<1>2. e = [i \in 1 .. k |-> Digit(x, ByteBits, i)]
    BY DEF Fixed, Digits
<1>3. \A i \in 1 .. k : Digit(x, ByteBits, i) \in Nat
  <2>1. ASSUME NEW i \in 1 .. k PROVE Digit(x, ByteBits, i) \in Nat
    <3>0. i \in Nat \ {0}
      OBVIOUS
    <3>1. Pow2[ByteBits] \in Nat /\ Digit(x, ByteBits, i) \in 0 .. Pow2[ByteBits] - 1
      BY <1>1, <3>0, DigitRange, Pow2Facts
    <3> QED
      BY <3>1
  <2> QED
    BY <2>1
<1> HIDE DEF e
<1>4. e \in Seq(Nat) /\ Len(e) = k
    BY <1>2, <1>3
<1>5. SubSeq(e \o rest, 1, k) = e /\ Len(e \o rest) >= k
    BY <1>4
<1>6. Drop(e \o rest, k) = rest
    BY <1>4 DEF Drop
<1>7. Number(e, ByteBits) = Low(x, ByteBits * k)
  <2>1. \A i \in DOMAIN e : e[i] = Digit(x, ByteBits, i)
    BY <1>2
  <2> QED
    BY <1>1, <1>4, <2>1, NumberOfDigits
<1> QED
    BY <1>4, <1>5, <1>6, <1>7 DEF e, FixedValue

(* What a varint leaves behind, and what a field makes of one.             *)
LEMMA VarintField ==
    ASSUME NEW f, NEW u \in 0 .. Pow2[VarBits] - 1, NEW rest \in Seq(Nat)
    PROVE  /\ Drop(EncodeVarint(u) \o rest, Len(EncodeVarint(u))) = rest
           /\ ReadNumberField(f, 0, EncodeVarint(u) \o rest)
                  = Read(DecodeVarintField(f, u), rest)
<1> DEFINE e == EncodeVarint(u)
           d == e \o rest
<1>1. DecodeVarint(d) = Varint(u, Len(e))
    BY VarintRoundTrip
<1>2. e \in Seq(Nat)
  <2>1. 2 * More - 1 \in Nat
    BY Grouping
  <2> QED
    BY <2>1, EncodeFacts
<1> HIDE DEF e
<1>3. Drop(d, Len(e)) = rest
    BY <1>2 DEF Drop
<1>4. DecodeVarint(d).ok /\ DecodeVarint(d).x = u /\ DecodeVarint(d).len = Len(e)
    BY <1>1 DEF Varint
<1>5. ReadNumberField(f, 0, d) = Read(DecodeVarintField(f, u), rest)
  <2> HIDE DEF d
  <2>1. Drop(d, DecodeVarint(d).len) = rest
    BY <1>3, <1>4
  <2> QED
    BY <1>4, <2>1 DEF ReadNumberField
<1> QED
    BY <1>3, <1>5 DEF e

(* And of a fixed-size number.                                             *)
LEMMA FixedField ==
    ASSUME NEW f, NEW x \in Int, NEW rest \in Seq(Nat)
    PROVE  /\ ReadNumberField(f, 1, Fixed(x, 8) \o rest)
                  = Read(DecodeFixed64Field(f, Low(x, VarBits)), rest)
           /\ ReadNumberField(f, 5, Fixed(x, 4) \o rest)
                  = Read(DecodeFixed32Field(f, Low(x, HalfBits)), rest)
<1>1. ByteBits * 8 = VarBits /\ ByteBits * 4 = HalfBits
    BY ByteAssumption DEF VarBits, HalfBits
<1>2. PICK d, e : d = Fixed(x, 8) \o rest /\ e = Fixed(x, 4) \o rest
    OBVIOUS
<1>3. Len(d) >= 8 /\ FixedValue(d, 8) = Low(x, VarBits) /\ Drop(d, 8) = rest
    BY <1>1, <1>2, FixedBack
<1>4. Len(e) >= 4 /\ FixedValue(e, 4) = Low(x, HalfBits) /\ Drop(e, 4) = rest
    BY <1>1, <1>2, FixedBack
<1>5. ReadNumberField(f, 1, d) = Read(DecodeFixed64Field(f, Low(x, VarBits)), rest)
    BY <1>3 DEF ReadNumberField
<1>6. ReadNumberField(f, 5, e) = Read(DecodeFixed32Field(f, Low(x, HalfBits)), rest)
    BY <1>4 DEF ReadNumberField
<1> QED
    BY <1>2, <1>5, <1>6

(* The numbers that a field type has.                                      *)
Unsigned(w) == 0 .. Pow2[w] - 1
Signed(w) == -Pow2[w - 1] .. Pow2[w - 1] - 1

FieldNumbers(type) ==
    CASE type \in {"sint32", "int32", "sfixed32", "enum"} -> Signed(HalfBits)
      [] type \in {"sint64", "int64", "sfixed64"} -> Signed(VarBits)
      [] type \in {"uint32", "fixed32", "float"} -> Unsigned(HalfBits)
      [] type \in {"uint64", "fixed64", "double"} -> Unsigned(VarBits)
      [] type = "bool" -> {0, 1}

NumberFieldTypes == {"sint32", "int32", "sfixed32", "enum", "sint64", "int64", "sfixed64",
                     "uint32", "fixed32", "float", "uint64", "fixed64", "double", "bool"}

(* The node that a field's number is, in the type of the field.            *)
FieldNode(f, x) ==
    CASE f.type = "sint32" -> NumberTree(f.key, "SInt32", "int32", x)
      [] f.type = "int32" -> NumberTree(f.key, "Int32", "int32", x)
      [] f.type = "sfixed32" -> NumberTree(f.key, "SFixed32", "int32", x)
      [] f.type = "enum" -> EnumValue(f, x)
      [] f.type = "sint64" -> NumberTree(f.key, "SInt64", "int64", x)
      [] f.type = "int64" -> NumberTree(f.key, "Int64", "int64", x)
      [] f.type = "sfixed64" -> NumberTree(f.key, "SFixed64", "int64", x)
      [] f.type = "uint32" -> NumberTree(f.key, "UInt32", "uint32", x)
      [] f.type = "fixed32" -> NumberTree(f.key, "Fixed32", "uint32", x)
      [] f.type = "float" -> NumberTree(f.key, "Float32", "float32", x)
      [] f.type = "uint64" -> NumberTree(f.key, "UInt64", "uint64", x)
      [] f.type = "fixed64" -> NumberTree(f.key, "Fixed64", "uint64", x)
      [] f.type = "double" -> NumberTree(f.key, "Float64", "float64", x)
      [] f.type = "bool" -> BoolTree(f.key, x)

(* Signed and unsigned numbers of 32 bits, in 32 and in 64 bits.           *)
LEMMA HalfFacts ==
    /\ HalfBits \in Nat \ {0} /\ VarBits \in Nat \ {0} /\ HalfBits < VarBits
    /\ Signed(HalfBits) \subseteq Signed(VarBits)
    /\ Unsigned(HalfBits) \subseteq Unsigned(VarBits)
    /\ {0, 1} \subseteq Unsigned(VarBits)
    /\ \A u \in Unsigned(VarBits) : u \in Int
<1>1. HalfBits \in Nat \ {0} /\ VarBits \in Nat \ {0} /\ HalfBits < VarBits
    BY ByteAssumption DEF HalfBits, VarBits
<1>2. PICK a \in Nat, b \in Nat : a = Pow2[HalfBits] /\ b = Pow2[VarBits] /\ 2 * a <= b /\ a >= 1
    BY <1>1, Pow2Facts, Pow2Grows
<1>3. PICK c \in Nat, e \in Nat : c = Pow2[HalfBits - 1] /\ e = Pow2[VarBits - 1] /\ c <= e
  <2>1. HalfBits - 1 \in Nat /\ VarBits - 1 \in Nat /\ HalfBits - 1 <= VarBits - 1
    BY <1>1
  <2> QED
    BY <2>1, Pow2Monotone
<1>4. -c .. c - 1 \subseteq -e .. e - 1
    BY <1>3
<1>5. 0 .. a - 1 \subseteq 0 .. b - 1 /\ {0, 1} \subseteq 0 .. b - 1 /\ 0 .. b - 1 \subseteq Int
    BY <1>2
<1> QED
    BY <1>1, <1>2, <1>3, <1>4, <1>5 DEF Signed, Unsigned

(* A 32-bit number is what int32 makes of its 64 bits.                     *)
LEMMA Int32Back ==
    ASSUME NEW x \in Signed(HalfBits)
    PROVE  /\ x \in Int /\ Int32Of(x) = x
           /\ Low(x, VarBits) \in Unsigned(VarBits) /\ Int32Of(Low(x, VarBits)) = x
           /\ Int32Of(Low(x, HalfBits)) = x
<1>1. x \in Int /\ LowSigned(x, HalfBits) = x
    BY HalfFacts, SignedSame DEF Signed
<1>2. /\ Low(x, VarBits) \in 0 .. Pow2[VarBits] - 1
      /\ Low(Low(x, VarBits), HalfBits) = Low(x, HalfBits)
      /\ Low(Low(x, HalfBits), HalfBits) = Low(x, HalfBits)
    BY <1>1, HalfFacts, LowTwice
<1> QED
    BY <1>1, <1>2 DEF Int32Of, LowSigned, Unsigned

(* A 64-bit number is what int64 makes of its 64 bits.                     *)
LEMMA Int64Back ==
    ASSUME NEW x \in Signed(VarBits)
    PROVE  /\ x \in Int /\ Low(x, VarBits) \in Unsigned(VarBits)
           /\ LowSigned(Low(x, VarBits), VarBits) = x
<1>1. x \in Int /\ LowSigned(x, VarBits) = x
    BY HalfFacts, SignedSame DEF Signed
<1>2. /\ Low(x, VarBits) \in 0 .. Pow2[VarBits] - 1
      /\ Low(Low(x, VarBits), VarBits) = Low(x, VarBits)
    BY <1>1, HalfFacts, LowTwice
<1> QED
    BY <1>1, <1>2 DEF LowSigned, Unsigned

(* The value of a number field is read back after its tag.                 *)
LEMMA NumberFieldBack ==
    ASSUME NEW f, f.type \in NumberFieldTypes, NEW x \in FieldNumbers(f.type),
           NEW rest \in Seq(Nat)
    PROVE  /\ EncodeNumber(f.type, x) \in Seq(Nat)
           /\ ReadNumberField(f, WireType(f.type), EncodeNumber(f.type, x) \o rest)
                  = Read(FieldNode(f, x), rest)
<1>1. ASSUME NEW u \in Unsigned(VarBits), EncodeNumber(f.type, x) = EncodeVarint(u),
             DecodeVarintField(f, u) = FieldNode(f, x), WireType(f.type) = 0
      PROVE  /\ EncodeNumber(f.type, x) \in Seq(Nat)
             /\ ReadNumberField(f, WireType(f.type), EncodeNumber(f.type, x) \o rest)
                    = Read(FieldNode(f, x), rest)
  <2>1. u \in 0 .. Pow2[VarBits] - 1
    BY DEF Unsigned
  <2>2. EncodeVarint(u) \in Seq(Nat)
    <3>1. 2 * More - 1 \in Nat
      BY Grouping
    <3> QED
      BY <2>1, <3>1, EncodeFacts
  <2>3. ReadNumberField(f, 0, EncodeVarint(u) \o rest) = Read(DecodeVarintField(f, u), rest)
    BY <2>1, VarintField
  <2> QED
    BY <1>1, <2>2, <2>3
<1>2. ASSUME x \in Int, EncodeNumber(f.type, x) = Fixed(x, 4), WireType(f.type) = 5,
             DecodeFixed32Field(f, Low(x, HalfBits)) = FieldNode(f, x)
      PROVE  /\ EncodeNumber(f.type, x) \in Seq(Nat)
             /\ ReadNumberField(f, WireType(f.type), EncodeNumber(f.type, x) \o rest)
                    = Read(FieldNode(f, x), rest)
  <2>1. Fixed(x, 4) \in Seq(Nat)
    BY <1>2, FixedBack
  <2> QED
    BY <1>2, <2>1, FixedField
<1>3. ASSUME x \in Int, EncodeNumber(f.type, x) = Fixed(x, 8), WireType(f.type) = 1,
             DecodeFixed64Field(f, Low(x, VarBits)) = FieldNode(f, x)
      PROVE  /\ EncodeNumber(f.type, x) \in Seq(Nat)
             /\ ReadNumberField(f, WireType(f.type), EncodeNumber(f.type, x) \o rest)
                    = Read(FieldNode(f, x), rest)
  <2>1. Fixed(x, 8) \in Seq(Nat)
    BY <1>3, FixedBack
  <2> QED
    BY <1>3, <2>1, FixedField
<1> USE DEF FieldNode, EncodeNumber, WireType, FixedTypes32, FixedTypes64, Lengthy
<1>4. CASE f.type \in {"sint32", "sint64"}
  <2>1. x \in Signed(VarBits) /\ (f.type = "sint32" => x \in Signed(HalfBits))
    BY <1>4, HalfFacts DEF FieldNumbers
  <2>2. Zigzag(x) \in Unsigned(VarBits) /\ Unzigzag(Zigzag(x)) = x
    BY <2>1, ZigzagFacts DEF Signed, Unsigned
  <2>3. f.type = "sint32" => Int32Of(x) = x
    BY <2>1, Int32Back
  <2>4. DecodeVarintField(f, Zigzag(x)) = FieldNode(f, x)
    BY <1>4, <2>2, <2>3 DEF DecodeVarintField
  <2>5. EncodeNumber(f.type, x) = EncodeVarint(Zigzag(x)) /\ WireType(f.type) = 0
    BY <1>4
  <2> QED
    BY <1>1, <2>2, <2>4, <2>5
<1>5. CASE f.type \in {"int32", "enum"}
  <2>1. x \in Signed(HalfBits)
    BY <1>5 DEF FieldNumbers
  <2>2. Low(x, VarBits) \in Unsigned(VarBits) /\ Int32Of(Low(x, VarBits)) = x
    BY <2>1, Int32Back
  <2>3. DecodeVarintField(f, Low(x, VarBits)) = FieldNode(f, x)
    BY <1>5, <2>2 DEF DecodeVarintField
  <2>4. EncodeNumber(f.type, x) = EncodeVarint(Low(x, VarBits)) /\ WireType(f.type) = 0
    BY <1>5
  <2> QED
    BY <1>1, <2>2, <2>3, <2>4
<1>6. CASE f.type = "int64"
  <2>1. x \in Signed(VarBits)
    BY <1>6 DEF FieldNumbers
  <2>2. Low(x, VarBits) \in Unsigned(VarBits) /\ LowSigned(Low(x, VarBits), VarBits) = x
    BY <2>1, Int64Back
  <2>3. DecodeVarintField(f, Low(x, VarBits)) = FieldNode(f, x)
    BY <1>6, <2>2 DEF DecodeVarintField
  <2>4. EncodeNumber(f.type, x) = EncodeVarint(Low(x, VarBits)) /\ WireType(f.type) = 0
    BY <1>6
  <2> QED
    BY <1>1, <2>2, <2>3, <2>4
<1>7. CASE f.type \in {"uint32", "uint64", "bool"}
  <2>1. /\ x \in Unsigned(VarBits) /\ (f.type = "uint32" => x \in Unsigned(HalfBits))
        /\ (f.type = "bool" => x \in {0, 1})
    BY <1>7, HalfFacts DEF FieldNumbers
  <2>2. Low(x, VarBits) = x
    BY <2>1, HalfFacts, LowSame DEF Unsigned
  <2>3. f.type = "uint32" => Low(x, HalfBits) = x
    BY <2>1, HalfFacts, LowSame DEF Unsigned
  <2>4. f.type = "bool" => BoolTree(f.key, IF x # 0 THEN 1 ELSE 0) = BoolTree(f.key, x)
    BY <2>1
  <2>5. DecodeVarintField(f, x) = FieldNode(f, x)
    BY <1>7, <2>3, <2>4 DEF DecodeVarintField
  <2>6. EncodeNumber(f.type, x) = EncodeVarint(x) /\ WireType(f.type) = 0
    BY <1>7, <2>2
  <2> QED
    BY <1>1, <2>1, <2>5, <2>6
<1>8. CASE f.type \in {"fixed32", "sfixed32", "float"}
  <2>1. /\ (f.type = "sfixed32" => x \in Signed(HalfBits))
        /\ (f.type # "sfixed32" => x \in Unsigned(HalfBits))
    BY <1>8 DEF FieldNumbers
  <2>2. x \in Int
    BY <2>1, HalfFacts, Int32Back
  <2>3. f.type = "sfixed32" => Int32Of(Low(x, HalfBits)) = x
    BY <2>1, Int32Back
  <2>4. f.type # "sfixed32" => Low(x, HalfBits) = x
    BY <2>1, HalfFacts, LowSame DEF Unsigned
  <2>5. DecodeFixed32Field(f, Low(x, HalfBits)) = FieldNode(f, x)
    BY <1>8, <2>3, <2>4 DEF DecodeFixed32Field
  <2>6. EncodeNumber(f.type, x) = Fixed(x, 4) /\ WireType(f.type) = 5
    BY <1>8
  <2> QED
    BY <1>2, <2>2, <2>5, <2>6
<1>9. CASE f.type \in {"fixed64", "sfixed64", "double"}
  <2>1. /\ (f.type = "sfixed64" => x \in Signed(VarBits))
        /\ (f.type # "sfixed64" => x \in Unsigned(VarBits))
    BY <1>9 DEF FieldNumbers
  <2>2. x \in Int
    BY <2>1, HalfFacts, Int64Back
  <2>3. f.type = "sfixed64" => LowSigned(Low(x, VarBits), VarBits) = x
    BY <2>1, Int64Back
  <2>4. f.type # "sfixed64" => Low(x, VarBits) = x
    BY <2>1, HalfFacts, LowSame DEF Unsigned
  <2>5. DecodeFixed64Field(f, Low(x, VarBits)) = FieldNode(f, x)
    BY <1>9, <2>3, <2>4 DEF DecodeFixed64Field
  <2>6. EncodeNumber(f.type, x) = Fixed(x, 8) /\ WireType(f.type) = 1
    BY <1>9
  <2> QED
    BY <1>3, <2>2, <2>5, <2>6
<1> QED
    BY <1>4, <1>5, <1>6, <1>7, <1>8, <1>9 DEF NumberFieldTypes

(* A number field of Protobuf, written with its tag, is read as the number *)
(* it was: the tag names the field and the wire type, and the value comes  *)
(* back in the type of the field, with the bytes after it left.            *)
THEOREM NumberFieldRoundTrip ==
    ASSUME NEW f, f.type \in NumberFieldTypes, NEW x \in FieldNumbers(f.type),
           f.number \in Nat, 8 * f.number + 7 < Pow2[VarBits], NEW rest \in Seq(Nat)
    PROVE  LET body == EncodeNumber(f.type, x) \o rest
               head == DecodeVarint(Tag(f) \o body)
           IN  /\ head.ok /\ head.x \div 8 = f.number /\ head.x % 8 = WireType(f.type)
               /\ Drop(Tag(f) \o body, head.len) = body
               /\ ReadNumberField(f, head.x % 8, body) = Read(FieldNode(f, x), rest)
<1> DEFINE body == EncodeNumber(f.type, x) \o rest
           u == 8 * f.number + WireType(f.type)
<1>1. body \in Seq(Nat)
  <2>1. EncodeNumber(f.type, x) \in Seq(Nat)
    BY NumberFieldBack
  <2> QED
    BY <2>1
<1>2. ReadNumberField(f, WireType(f.type), body) = Read(FieldNode(f, x), rest)
    BY NumberFieldBack
<1> HIDE DEF body
<1>3. PICK w \in 0 .. 7 : w = WireType(f.type)
  <2>1. WireType(f.type) \in {0, 1, 2, 5}
    BY DEF WireType
  <2> QED
    BY <2>1
<1>4. PICK n \in Nat : n = f.number /\ u = n * 8 + w
    BY <1>3
<1>5. u \in 0 .. Pow2[VarBits] - 1
  <2>1. Pow2[VarBits] \in Nat
    BY Grouping, Pow2Facts
  <2> QED
    BY <1>4, <2>1, SMTT(30)
<1>6. u \div 8 = f.number /\ u % 8 = WireType(f.type)
  <2>1. 8 \in Nat /\ 8 >= 1 /\ n \in Int /\ w \in 0 .. 8 - 1 /\ u \in Int
    BY <1>4
  <2>2. u \div 8 = n /\ u % 8 = w
    BY <1>4, <2>1, DivUnique
  <2> QED
    BY <1>3, <1>4, <2>2
<1>7. Tag(f) = EncodeVarint(u)
    BY DEF Tag
<1> HIDE DEF u
<1>8. DecodeVarint(Tag(f) \o body) = Varint(u, Len(Tag(f)))
    BY <1>1, <1>5, <1>7, VarintRoundTrip
<1>9. Drop(Tag(f) \o body, Len(Tag(f))) = body
    BY <1>1, <1>5, <1>7, VarintField
<1> DEFINE head == DecodeVarint(Tag(f) \o body)
<1>10. head.ok /\ head.x = u /\ head.len = Len(Tag(f))
    BY <1>8 DEF Varint
<1> HIDE DEF head
<1>11. /\ head.ok /\ head.x \div 8 = f.number /\ head.x % 8 = WireType(f.type)
       /\ Drop(Tag(f) \o body, head.len) = body
       /\ ReadNumberField(f, head.x % 8, body) = Read(FieldNode(f, x), rest)
    BY <1>2, <1>6, <1>9, <1>10
<1> QED
    BY <1>11 DEF head, body

-----------------------------------------------------------------------------
(* The heads of MessagePack and CBOR.                                      *)

(* The elements of the two formats' streams.                               *)
Majors == {"unsigned", "negative", "bytes", "text", "array", "map"}
HeadKinds == {"byte", "nil", "true", "false", "simple"}
         \cup DOMAIN Follows \cup DOMAIN Holds \cup Majors
Elements == HeadKinds \X Int
Stream == Seq(Elements)

(* What streams are made of: numbered heads and raw bytes.                 *)
LEMMA ElementFacts ==
    ASSUME NEW n \in Int
    PROVE  /\ <<"byte", n>> \in Elements
           /\ \A h \in DOMAIN Follows \cup DOMAIN Holds \cup Majors : <<h, n>> \in Elements
<1>1. "byte" \in HeadKinds /\ \A h \in DOMAIN Follows \cup DOMAIN Holds \cup Majors : h \in HeadKinds
    BY Zenon DEF HeadKinds
<1> QED
    BY <1>1 DEF Elements

(* The big-endian bytes of a number, read back as one without and with a   *)
(* sign, leave the bytes after them.                                       *)
LEMMA BigEndianBack ==
    ASSUME NEW x \in Int, NEW w \in Nat \ {0}, NEW rest \in Stream
    PROVE  /\ BigEndian(x, w) \in Stream /\ Len(BigEndian(x, w)) = w
           /\ IsRaw(BigEndian(x, w) \o rest, w)
           /\ Drop(BigEndian(x, w) \o rest, w) = rest
           /\ UnsignedOf(BigEndian(x, w) \o rest, w) = Low(x, ByteBits * w)
           /\ SignedOf(BigEndian(x, w) \o rest, w) = LowSigned(Low(x, ByteBits * w), ByteBits * w)
<1> DEFINE e == BigEndian(x, w)
           d == e \o rest
           n == [i \in 1 .. w |-> d[w - i + 1][2]]
<1>1. ByteBits \in Nat
    BY ByteAssumption
<1>2. e = [i \in 1 .. w |-> <<"byte", Digit(x, ByteBits, w - i + 1)>>]
    BY DEF BigEndian, Byte
<1> HIDE DEF e
<1>3. ASSUME NEW i \in 1 .. w
      PROVE  /\ Digit(x, ByteBits, i) \in Nat
             /\ w - i + 1 \in 1 .. w /\ w - (w - i + 1) + 1 = i
  <2>1. i \in Nat \ {0} /\ w - i + 1 \in 1 .. w /\ w - (w - i + 1) + 1 = i
    OBVIOUS
  <2>2. Pow2[ByteBits] \in Nat /\ Digit(x, ByteBits, i) \in 0 .. Pow2[ByteBits] - 1
    BY <1>1, <2>1, DigitRange, Pow2Facts
  <2> QED
    BY <2>1, <2>2
<1>4. \A i \in 1 .. w : e[i] = <<"byte", Digit(x, ByteBits, w - i + 1)>>
    BY <1>2
<1>5. e \in Stream /\ Len(e) = w
  <2>1. ASSUME NEW i \in 1 .. w
        PROVE  <<"byte", Digit(x, ByteBits, w - i + 1)>> \in Elements
    <3>1. Digit(x, ByteBits, w - i + 1) \in Int
      BY <1>3
    <3> QED
      BY <3>1, ElementFacts
  <2>2. e \in [1 .. w -> Elements]
    BY <1>2, <2>1
  <2>3. e \in Seq(Elements) /\ Len(e) = w
    BY <2>2
  <2> QED
    BY <2>3 DEF Stream
<1>6. d \in Stream /\ Len(d) >= w /\ \A i \in 1 .. w : d[i] = e[i]
    BY <1>5 DEF Stream
<1>7. IsRaw(d, w)
  <2>1. \A i \in 1 .. w : d[i][1] = "byte"
    BY <1>4, <1>6
  <2> QED
    BY <1>6, <2>1 DEF IsRaw
<1>8. Drop(d, w) = rest
    BY <1>5 DEF Drop, Stream
<1>9. \A i \in 1 .. w : d[w - i + 1][2] = Digit(x, ByteBits, i)
  <2>1. ASSUME NEW i \in 1 .. w PROVE d[w - i + 1][2] = Digit(x, ByteBits, i)
    <3>1. w - i + 1 \in 1 .. w /\ w - (w - i + 1) + 1 = i
      BY <1>3
    <3>2. d[w - i + 1] = <<"byte", Digit(x, ByteBits, i)>>
      BY <1>4, <1>6, <3>1
    <3> QED
      BY <3>2
  <2> QED
    BY <2>1
<1> HIDE DEF d
<1>10. n \in Seq(Nat) /\ Len(n) = w /\ \A i \in DOMAIN n : n[i] = Digit(x, ByteBits, i)
  <2>1. \A i \in 1 .. w : d[w - i + 1][2] \in Nat
    BY <1>3, <1>9
  <2> QED
    BY <1>9, <2>1
<1>11. UnsignedOf(d, w) = Number(n, ByteBits)
    BY DEF UnsignedOf
<1> HIDE DEF n
<1>12. Number(n, ByteBits) = Low(x, ByteBits * w)
    BY <1>1, <1>10, NumberOfDigits
<1>13. SignedOf(d, w) = LowSigned(Low(x, ByteBits * w), ByteBits * w)
    BY <1>11, <1>12 DEF SignedOf
<1> QED
    BY <1>5, <1>7, <1>8, <1>11, <1>12, <1>13 DEF d, e

(* A head that a number follows is read with it, and none without all of   *)
(* its bytes.                                                              *)
LEMMA WideBack ==
    ASSUME NEW h \in DOMAIN Follows, NEW what, NEW w \in Nat \ {0}, Follows[h] = <<what, w>>,
           NEW x \in Int, NEW rest \in Stream
    PROVE  /\ ReadHead(Wide(h, x, w) \o rest)
                  = Announced(what, IF what = "int" THEN LowSigned(Low(x, ByteBits * w), ByteBits * w)
                                    ELSE Low(x, ByteBits * w), rest)
           /\ Len(Wide(h, x, w)) = w + 1
           /\ \A k \in 0 .. w : ~ReadHead(SubSeq(Wide(h, x, w), 1, k)).ok
<1> DEFINE e == BigEndian(x, w)
           d == e \o rest
<1>1. /\ e \in Stream /\ Len(e) = w /\ IsRaw(d, w) /\ Drop(d, w) = rest
      /\ UnsignedOf(d, w) = Low(x, ByteBits * w)
      /\ SignedOf(d, w) = LowSigned(Low(x, ByteBits * w), ByteBits * w)
    BY BigEndianBack
<1> HIDE DEF e
<1>2. /\ <<h, 0>> \in Elements /\ h \notin DOMAIN Holds
      /\ Follows[h][1] = what /\ Follows[h][2] = w
  <2>1. h \notin DOMAIN Holds
    BY DEF Follows, Holds
  <2>2. <<h, 0>> \in Elements
    <3>1. 0 \in Int
      OBVIOUS
    <3> QED
      BY <3>1, ElementFacts, Zenon
  <2> QED
    BY <2>1, <2>2
<1> DEFINE a == Wide(h, x, w)
<1>3. a = <<<<h, 0>>>> \o e
    BY DEF Wide, Lead, e
<1> HIDE DEF a
<1>4. a \in Seq(Elements) /\ Len(a) = w + 1 /\ a[1] = <<h, 0>>
  <2>1. <<<<h, 0>>>> \in Seq(Elements)
    BY <1>2
  <2> QED
    BY <1>1, <1>3, <2>1 DEF Stream
<1> HIDE DEF d
<1>5. a \o rest # <<>> /\ (a \o rest)[1] = <<h, 0>> /\ Tail(a \o rest) = d
  <2>1. a \o rest = <<<<h, 0>>>> \o d
    BY <1>1, <1>2, <1>3 DEF Stream, d
  <2>2. d \in Seq(Elements)
    BY <1>1 DEF Stream, d
  <2> QED
    BY <1>2, <2>1, <2>2
<1>6. ReadHead(a \o rest)
          = Announced(what, IF what = "int" THEN SignedOf(d, w) ELSE UnsignedOf(d, w), Drop(d, w))
  <2> DEFINE data == a \o rest
  <2> HIDE DEF data
  <2>1. data # <<>> /\ data[1][1] = h /\ Tail(data) = d
    BY <1>5 DEF data
  <2>2. ReadHead(data)
          = Announced(what, IF what = "int" THEN SignedOf(d, w) ELSE UnsignedOf(d, w), Drop(d, w))
    BY <1>1, <1>2, <2>1 DEF ReadHead
  <2> QED
    BY <2>2 DEF data
<1>7. ASSUME NEW k \in 0 .. w PROVE ~ReadHead(SubSeq(a, 1, k)).ok
  <2> DEFINE c == SubSeq(a, 1, k)
  <2>1. CASE k = 0
    <3>1. c = <<>>
      BY <1>4, <2>1
    <3> QED
      BY <3>1 DEF ReadHead, NoHead
  <2>2. CASE k # 0
    <3>1. c \in Seq(Elements) /\ Len(c) = k /\ c[1] = <<h, 0>>
      BY <1>4, <2>2
    <3> HIDE DEF c
    <3>2. c # <<>> /\ c[1][1] = h /\ Len(Tail(c)) = k - 1
      BY <2>2, <3>1
    <3>3. ~IsRaw(Tail(c), w)
      BY <3>2 DEF IsRaw
    <3>4. ReadHead(c) = NoHead
      BY <1>2, <3>2, <3>3 DEF ReadHead
    <3> QED
      BY <3>4 DEF NoHead, c
  <2> QED
    BY <2>1, <2>2
<1> QED
    BY <1>1, <1>4, <1>6, <1>7 DEF a

(* A head is read as what it announces whatever follows, and no part of it *)
(* is a head.                                                              *)
HeadReads(head, what, n) ==
    /\ \A rest \in Stream : ReadHead(head \o rest) = Announced(what, n, rest)
    /\ \A k \in 0 .. Len(head) - 1 : ~ReadHead(SubSeq(head, 1, k)).ok

(* A head that holds its number.                                           *)
LEMMA HeldReads ==
    ASSUME NEW h \in DOMAIN Holds, NEW x \in Int
    PROVE  HeadReads(<<Lead(h, x)>>, Holds[h], x)
<1> DEFINE a == <<<<h, x>>>>
<1>1. <<h, x>> \in Elements
    BY ElementFacts, Zenon
<1>2. a \in Seq(Elements) /\ Len(a) = 1 /\ a[1] = <<h, x>>
    BY <1>1
<1>3. ASSUME NEW rest \in Stream
      PROVE  ReadHead(a \o rest) = Announced(Holds[h], x, rest)
  <2> DEFINE data == a \o rest
  <2>1. data # <<>> /\ data[1] = <<h, x>> /\ Tail(data) = rest
    BY <1>1 DEF Stream
  <2> HIDE DEF data
  <2>2. data[1][1] = h /\ data[1][2] = x /\ h \notin DOMAIN Follows
    <3>1. h \notin DOMAIN Follows
      BY DEF Holds, Follows
    <3> QED
      BY <2>1, <3>1
  <2>3. ReadHead(data) = Announced(Holds[h], x, rest)
    BY <2>1, <2>2 DEF ReadHead
  <2> QED
    BY <2>3 DEF data
<1>4. ASSUME NEW k \in 0 .. Len(a) - 1 PROVE ~ReadHead(SubSeq(a, 1, k)).ok
  <2>1. k = 0
    BY <1>2
  <2>2. SubSeq(a, 1, k) = <<>>
    BY <1>2, <2>1
  <2> QED
    BY <2>2 DEF ReadHead, NoHead
<1> QED
    BY <1>3, <1>4 DEF HeadReads, Lead

(* The integers of w bytes.                                                *)
LEMMA ByteFacts ==
    ASSUME NEW w \in Nat \ {0}
    PROVE  /\ ByteBits * w \in Nat \ {0} /\ MaxUint(w) \in Nat /\ MaxInt(w) \in Nat
           /\ MinInt(w) \in Int /\ MaxUint(w) = 2 * MaxInt(w) + 1 /\ MinInt(w) = -MaxInt(w) - 1
<1>1. ByteBits * w \in Nat \ {0}
  <2>1. ByteBits \in Nat /\ ByteBits >= 1 /\ ByteBits <= ByteBits * w
    BY ByteAssumption
  <2> QED
    BY <2>1
<1>2. PICK b \in Nat : b + 1 = ByteBits * w /\ b = ByteBits * w - 1
  <2>1. ByteBits * w - 1 \in Nat
    BY <1>1
  <2> QED
    BY <1>1, <2>1
<1>3. Pow2[b] \in Nat /\ Pow2[b] >= 1 /\ Pow2[b + 1] = 2 * Pow2[b]
    BY Pow2Facts
<1> QED
    BY <1>1, <1>2, <1>3 DEF MaxUint, MaxInt, MinInt

(* A head that a number of its width follows.                              *)
LEMMA UnsignedReads ==
    ASSUME NEW h \in DOMAIN Follows, NEW what, NEW w \in Nat \ {0}, Follows[h] = <<what, w>>,
           what # "int", NEW x \in 0 .. MaxUint(w)
    PROVE  HeadReads(Wide(h, x, w), what, x)
<1>1. x \in Int /\ Low(x, ByteBits * w) = x
    BY ByteFacts, LowSame DEF MaxUint
<1>2. Len(Wide(h, x, w)) = w + 1 /\ \A k \in 0 .. w : ~ReadHead(SubSeq(Wide(h, x, w), 1, k)).ok
  <2>1. <<>> \in Stream
    BY DEF Stream
  <2> QED
    BY <1>1, <2>1, WideBack
<1>3. \A rest \in Stream : ReadHead(Wide(h, x, w) \o rest) = Announced(what, x, rest)
    BY <1>1, WideBack
<1>4. Len(Wide(h, x, w)) - 1 = w
    BY <1>2
<1> QED
    BY <1>2, <1>3, <1>4 DEF HeadReads

(* A head with a signed number after it reads back.                        *)
LEMMA SignedReads ==
    ASSUME NEW h \in DOMAIN Follows, NEW w \in Nat \ {0}, Follows[h] = <<"int", w>>,
           NEW x \in MinInt(w) .. MaxInt(w)
    PROVE  HeadReads(Wide(h, x, w), "int", x)
<1>1. ByteBits * w \in Nat \ {0}
    BY ByteFacts
<1>2. x \in Int /\ LowSigned(x, ByteBits * w) = x
  <2>1. x \in -Pow2[ByteBits * w - 1] .. Pow2[ByteBits * w - 1] - 1
    BY DEF MinInt, MaxInt
  <2> QED
    BY <1>1, <2>1, SignedSame
<1>3. LowSigned(Low(x, ByteBits * w), ByteBits * w) = x
  <2>1. Low(Low(x, ByteBits * w), ByteBits * w) = Low(x, ByteBits * w)
    BY <1>1, <1>2, LowTwice
  <2> QED
    BY <1>2, <2>1 DEF LowSigned
<1>4. Len(Wide(h, x, w)) = w + 1 /\ \A k \in 0 .. w : ~ReadHead(SubSeq(Wide(h, x, w), 1, k)).ok
  <2>1. <<>> \in Stream
    BY DEF Stream
  <2> QED
    BY <1>2, <2>1, WideBack
<1>5. \A rest \in Stream : ReadHead(Wide(h, x, w) \o rest) = Announced("int", x, rest)
    BY <1>2, <1>3, WideBack
<1>6. Len(Wide(h, x, w)) - 1 = w
    BY <1>4
<1> QED
    BY <1>4, <1>5, <1>6 DEF HeadReads

(* The widths that the model uses hold more and more.                      *)
LEMMA WidthsGrow ==
    ASSUME NEW v \in Nat \ {0}, NEW w \in Nat \ {0}, v <= w
    PROVE  MaxUint(v) <= MaxUint(w) /\ MaxInt(v) <= MaxInt(w) /\ MinInt(w) <= MinInt(v)
<1>1. ByteBits * v \in Nat /\ ByteBits * w \in Nat /\ ByteBits * v <= ByteBits * w
  <2>1. PICK u \in Nat : w = v + u
    <3>1. w - v \in Nat /\ w = v + (w - v)
      OBVIOUS
    <3> QED
      BY <3>1
  <2>2. ByteBits * w = ByteBits * v + ByteBits * u /\ ByteBits * u \in Nat
        /\ ByteBits * v \in Nat
    BY <2>1, ByteAssumption
  <2> QED
    BY <2>2
<1>2. Pow2[ByteBits * v] \in Nat /\ Pow2[ByteBits * w] \in Nat
      /\ Pow2[ByteBits * v] <= Pow2[ByteBits * w]
    BY <1>1, Pow2Monotone
<1>3. MaxUint(v) <= MaxUint(w)
    BY <1>2 DEF MaxUint
<1> QED
    BY <1>3, ByteFacts

(* The first width that holds a number is one that does.                   *)
LEMMA FewestFacts ==
    ASSUME NEW widths \in Seq(Nat \ {0}), NEW x \in Nat, NEW k \in DOMAIN widths,
           x <= MaxUint(widths[k])
    PROVE  Fewest(widths, x) \in DOMAIN widths /\ x <= MaxUint(widths[Fewest(widths, x)])
<1> DEFINE T == {i \in DOMAIN widths : x <= MaxUint(widths[i])}
           P(i_) == /\ x <= MaxUint(widths[i_])
                    /\ \A j \in 1 .. i_ - 1 : x > MaxUint(widths[j])
<1>1. PICK i \in T : \A j \in T : i <= j
  <2>1. T \subseteq Nat /\ k \in T
    OBVIOUS
  <2> QED
    BY <2>1, Least
<1>2. \A j \in 1 .. i - 1 : x > MaxUint(widths[j])
  <2>1. ASSUME NEW j \in 1 .. i - 1 PROVE x > MaxUint(widths[j])
    <3>1. j \in DOMAIN widths /\ j \notin T /\ widths[j] \in Nat \ {0}
      BY <1>1
    <3>2. MaxUint(widths[j]) \in Nat /\ ~(x <= MaxUint(widths[j]))
      BY <3>1, ByteFacts
    <3> QED
      BY <3>2
  <2> QED
    BY <2>1
<1>3. i \in DOMAIN widths /\ P(i)
    BY <1>2
<1>4. Fewest(widths, x) = CHOOSE j \in DOMAIN widths : P(j)
    BY DEF Fewest
<1> HIDE DEF P
<1>5. Fewest(widths, x) \in DOMAIN widths /\ P(Fewest(widths, x))
    BY <1>3, <1>4
<1> QED
    BY <1>5 DEF P

(* Signed numbers of 64 bits: the head GenerateMessagePack chooses for one *)
(* is read as the number.                                                  *)
LEMMA SignedHeads ==
    ASSUME NEW x \in MinInt(8) .. MaxInt(8)
    PROVE  HeadReads(GenerateSigned(x), "int", x)
<1>1. x \in Int
    BY ByteFacts
<1>2. HeadReads(<<Lead("fixint", x)>>, "int", x) /\ HeadReads(<<Lead("negfixint", x)>>, "int", x)
  <2>1. /\ "fixint" \in DOMAIN Holds /\ Holds["fixint"] = "int"
        /\ "negfixint" \in DOMAIN Holds /\ Holds["negfixint"] = "int"
    BY DEF Holds
  <2> QED
    BY <1>1, <2>1, HeldReads
<1>3. /\ "int8" \in DOMAIN Follows /\ Follows["int8"] = <<"int", 1>>
      /\ "int16" \in DOMAIN Follows /\ Follows["int16"] = <<"int", 2>>
      /\ "int32" \in DOMAIN Follows /\ Follows["int32"] = <<"int", 4>>
      /\ "int64" \in DOMAIN Follows /\ Follows["int64"] = <<"int", 8>>
    BY DEF Follows
<1>4. InInt(x, 1) => HeadReads(Wide("int8", x, 1), "int", x)
    BY <1>3, SignedReads DEF InInt
<1>5. InInt(x, 2) => HeadReads(Wide("int16", x, 2), "int", x)
    BY <1>3, SignedReads DEF InInt
<1>6. InInt(x, 4) => HeadReads(Wide("int32", x, 4), "int", x)
    BY <1>3, SignedReads DEF InInt
<1>7. HeadReads(Wide("int64", x, 8), "int", x)
    BY <1>3, SignedReads
<1>8. \/ GenerateSigned(x) = <<Lead("fixint", x)>>
      \/ GenerateSigned(x) = <<Lead("negfixint", x)>>
      \/ InInt(x, 1) /\ GenerateSigned(x) = Wide("int8", x, 1)
      \/ InInt(x, 2) /\ GenerateSigned(x) = Wide("int16", x, 2)
      \/ InInt(x, 4) /\ GenerateSigned(x) = Wide("int32", x, 4)
      \/ GenerateSigned(x) = Wide("int64", x, 8)
    BY DEF GenerateSigned
<1> QED
    BY <1>2, <1>4, <1>5, <1>6, <1>7, <1>8

(* And unsigned ones, of which the smallest cannot be told from signed.    *)
LEMMA UnsignedHeads ==
    ASSUME NEW x \in 0 .. MaxUint(8)
    PROVE  HeadReads(GenerateUnsigned(x), IF x <= FixInt THEN "int" ELSE "uint", x)
<1>1. x \in Nat
    BY ByteFacts
<1>2. HeadReads(<<Lead("fixint", x)>>, "int", x)
  <2>1. "fixint" \in DOMAIN Holds /\ Holds["fixint"] = "int"
    BY DEF Holds
  <2> QED
    BY <1>1, <2>1, HeldReads
<1>3. /\ "uint8" \in DOMAIN Follows /\ Follows["uint8"] = <<"uint", 1>>
      /\ "uint16" \in DOMAIN Follows /\ Follows["uint16"] = <<"uint", 2>>
      /\ "uint32" \in DOMAIN Follows /\ Follows["uint32"] = <<"uint", 4>>
      /\ "uint64" \in DOMAIN Follows /\ Follows["uint64"] = <<"uint", 8>>
    BY DEF Follows
<1>4. x <= MaxUint(1) => HeadReads(Wide("uint8", x, 1), "uint", x)
    BY <1>1, <1>3, ByteFacts, UnsignedReads
<1>5. x <= MaxUint(2) => HeadReads(Wide("uint16", x, 2), "uint", x)
    BY <1>1, <1>3, ByteFacts, UnsignedReads
<1>6. x <= MaxUint(4) => HeadReads(Wide("uint32", x, 4), "uint", x)
    BY <1>1, <1>3, ByteFacts, UnsignedReads
<1>7. HeadReads(Wide("uint64", x, 8), "uint", x)
    BY <1>3, UnsignedReads
<1>8. PICK f \in Nat, a \in Nat, b \in Nat, c \in Nat :
         /\ f = FixInt /\ a = MaxUint(1) /\ b = MaxUint(2) /\ c = MaxUint(4)
         /\ f <= a /\ a <= b /\ b <= c
  <2>1. MaxUint(1) \in Nat /\ MaxUint(2) \in Nat /\ MaxUint(4) \in Nat
    BY ByteFacts
  <2>2. MaxUint(1) <= MaxUint(2) /\ MaxUint(2) <= MaxUint(4)
    BY WidthsGrow
  <2>3. FixInt \in Nat /\ FixInt <= MaxUint(1)
    BY HeadAssumption, ByteFacts
  <2> QED
    BY <2>1, <2>2, <2>3
<1>9. CASE x <= FixInt
  <2>1. GenerateUnsigned(x) = <<Lead("fixint", x)>>
    BY <1>1, <1>8, <1>9 DEF GenerateUnsigned
  <2> QED
    BY <1>2, <1>9, <2>1
<1>10. CASE ~(x <= FixInt)
  <2>1. \/ x <= MaxUint(1) /\ GenerateUnsigned(x) = Wide("uint8", x, 1)
        \/ x <= MaxUint(2) /\ GenerateUnsigned(x) = Wide("uint16", x, 2)
        \/ x <= MaxUint(4) /\ GenerateUnsigned(x) = Wide("uint32", x, 4)
        \/ GenerateUnsigned(x) = Wide("uint64", x, 8)
    BY <1>1, <1>8, <1>10 DEF GenerateUnsigned
  <2>2. HeadReads(GenerateUnsigned(x), "uint", x)
    BY <1>4, <1>5, <1>6, <1>7, <2>1
  <2> QED
    BY <1>10, <2>2
<1> QED
    BY <1>9, <1>10

(* Lengths that a head holds, or the fewest bytes after one.               *)
LEMMA SizedReads ==
    ASSUME NEW fix, NEW max \in Int, NEW heads \in Seq(DOMAIN Follows), NEW what,
           NEW widths, widths = [i \in DOMAIN heads |-> Follows[heads[i]][2]],
           widths \in Seq(Nat \ {0}), what # "int",
           max >= 0 => fix \in DOMAIN Holds /\ Holds[fix] = what,
           \A i \in DOMAIN heads : Follows[heads[i]] = <<what, widths[i]>>,
           NEW l \in Nat, NEW k \in DOMAIN heads, l <= MaxUint(widths[k])
    PROVE  HeadReads(Sized(fix, max, heads, l), what, l)
<1>1. CASE l <= max
  <2>1. HeadReads(<<Lead(fix, l)>>, what, l)
    BY <1>1, HeldReads
  <2> QED
    BY <1>1, <2>1 DEF Sized
<1>2. CASE ~(l <= max)
  <2> DEFINE i == Fewest(widths, l)
  <2>1. i \in DOMAIN widths /\ l <= MaxUint(widths[i])
    <3>1. k \in DOMAIN widths
      OBVIOUS
    <3> QED
      BY <3>1, FewestFacts
  <2> HIDE DEF i
  <2>2. i \in DOMAIN heads /\ widths[i] \in Nat \ {0}
    BY <2>1
  <2>3. l \in 0 .. MaxUint(widths[i])
    BY <2>1, <2>2, ByteFacts
  <2>4. heads[i] \in DOMAIN Follows /\ Follows[heads[i]] = <<what, widths[i]>>
    BY <2>2
  <2>5. HeadReads(Wide(heads[i], l, widths[i]), what, l)
    BY <2>2, <2>3, <2>4, UnsignedReads
  <2>6. Sized(fix, max, heads, l) = Wide(heads[i], l, widths[i])
    BY <1>2 DEF Sized, i
  <2> QED
    BY <2>5, <2>6
<1> QED
    BY <1>1, <1>2

(* Lengths of 32 bits of texts and bytes, arrays and maps.                 *)
LEMMA LengthHeads ==
    ASSUME NEW l \in 0 .. MaxUint(4)
    PROVE  /\ HeadReads(TextHead(l), "str", l) /\ HeadReads(BytesHead(l), "bin", l)
           /\ HeadReads(ArrayHead(l), "array", l) /\ HeadReads(MapHead(l), "map", l)
<1>1. l \in Nat /\ l <= MaxUint(4)
    BY ByteFacts
<1>2. FixStr \in Int /\ FixSize \in Int /\ -1 \in Int
    BY HeadAssumption, ByteFacts
<1>3. ASSUME NEW heads, NEW fix, NEW max \in Int, NEW what, NEW b1, NEW b2, NEW b3,
             heads = <<b1, b2, b3>>, what # "int",
             {b1, b2, b3} \subseteq DOMAIN Follows, Follows[b1] = <<what, 1>>,
             Follows[b2] = <<what, 2>>, Follows[b3] = <<what, 4>>,
             max >= 0 => fix \in DOMAIN Holds /\ Holds[fix] = what
      PROVE  HeadReads(Sized(fix, max, heads, l), what, l)
  <2> DEFINE widths == [i \in DOMAIN heads |-> Follows[heads[i]][2]]
  <2>1. heads \in Seq(DOMAIN Follows) /\ DOMAIN heads = {1, 2, 3}
    BY <1>3
  <2>2. /\ \A i \in DOMAIN heads : i = 1 \/ i = 2 \/ i = 3
        /\ heads[1] = b1 /\ heads[2] = b2 /\ heads[3] = b3
    BY <1>3, <2>1
  <2>3. widths = <<1, 2, 4>>
    BY <1>3, <2>1, <2>2
  <2> HIDE DEF widths
  <2>4. /\ widths \in Seq(Nat \ {0}) /\ 3 \in DOMAIN heads /\ widths[3] = 4
        /\ widths[1] = 1 /\ widths[2] = 2
    BY <2>1, <2>3
  <2>5. \A i \in DOMAIN heads : Follows[heads[i]] = <<what, widths[i]>>
    BY <1>3, <2>2, <2>4
  <2>6. widths = [i \in DOMAIN heads |-> Follows[heads[i]][2]]
    BY DEF widths
  <2>7. l <= MaxUint(widths[3])
    BY <1>1, <2>4
  <2> QED
    BY <1>1, <1>3, <2>1, <2>4, <2>5, <2>6, <2>7, SizedReads, ZenonT(40)
<1>4. ASSUME NEW heads, NEW fix, NEW max \in Int, NEW what, NEW b1, NEW b2,
             heads = <<b1, b2>>, what # "int",
             {b1, b2} \subseteq DOMAIN Follows, Follows[b1] = <<what, 2>>,
             Follows[b2] = <<what, 4>>,
             max >= 0 => fix \in DOMAIN Holds /\ Holds[fix] = what
      PROVE  HeadReads(Sized(fix, max, heads, l), what, l)
  <2> DEFINE widths == [i \in DOMAIN heads |-> Follows[heads[i]][2]]
  <2>1. heads \in Seq(DOMAIN Follows) /\ DOMAIN heads = {1, 2}
    BY <1>4
  <2>2. /\ \A i \in DOMAIN heads : i = 1 \/ i = 2
        /\ heads[1] = b1 /\ heads[2] = b2
    BY <1>4, <2>1
  <2>3. widths = <<2, 4>>
    BY <1>4, <2>1, <2>2
  <2> HIDE DEF widths
  <2>4. /\ widths \in Seq(Nat \ {0}) /\ 2 \in DOMAIN heads /\ widths[2] = 4 /\ widths[1] = 2
    BY <2>1, <2>3
  <2>5. \A i \in DOMAIN heads : Follows[heads[i]] = <<what, widths[i]>>
    BY <1>4, <2>2, <2>4
  <2>6. widths = [i \in DOMAIN heads |-> Follows[heads[i]][2]]
    BY DEF widths
  <2>7. l <= MaxUint(widths[2])
    BY <1>1, <2>4
  <2> QED
    BY <1>1, <1>4, <2>1, <2>4, <2>5, <2>6, <2>7, SizedReads, ZenonT(40)
<1>5. HeadReads(TextHead(l), "str", l)
  <2>1. /\ StrHeads = <<"str8", "str16", "str32">> /\ "str" # "int"
        /\ {"str8", "str16", "str32"} \subseteq DOMAIN Follows
        /\ Follows["str8"] = <<"str", 1>> /\ Follows["str16"] = <<"str", 2>>
        /\ Follows["str32"] = <<"str", 4>>
        /\ "fixstr" \in DOMAIN Holds /\ Holds["fixstr"] = "str"
    BY DEF StrHeads, Follows, Holds
  <2> QED
    BY <1>2, <1>3, <2>1 DEF TextHead
<1>6. HeadReads(BytesHead(l), "bin", l)
  <2>1. /\ BinHeads = <<"bin8", "bin16", "bin32">> /\ "bin" # "int"
        /\ {"bin8", "bin16", "bin32"} \subseteq DOMAIN Follows
        /\ Follows["bin8"] = <<"bin", 1>> /\ Follows["bin16"] = <<"bin", 2>>
        /\ Follows["bin32"] = <<"bin", 4>> /\ ~(-1 >= 0)
    BY DEF BinHeads, Follows
  <2> QED
    BY <1>2, <1>3, <2>1 DEF BytesHead
<1>7. HeadReads(ArrayHead(l), "array", l)
  <2>1. /\ ArrayHeads = <<"array16", "array32">> /\ "array" # "int"
        /\ {"array16", "array32"} \subseteq DOMAIN Follows
        /\ Follows["array16"] = <<"array", 2>> /\ Follows["array32"] = <<"array", 4>>
        /\ "fixarray" \in DOMAIN Holds /\ Holds["fixarray"] = "array"
    BY DEF ArrayHeads, Follows, Holds
  <2> QED
    BY <1>2, <1>4, <2>1 DEF ArrayHead
<1>8. HeadReads(MapHead(l), "map", l)
  <2>1. /\ MapHeads = <<"map16", "map32">> /\ "map" # "int"
        /\ {"map16", "map32"} \subseteq DOMAIN Follows
        /\ Follows["map16"] = <<"map", 2>> /\ Follows["map32"] = <<"map", 4>>
        /\ "fixmap" \in DOMAIN Holds /\ Holds["fixmap"] = "map"
    BY DEF MapHeads, Follows, Holds
  <2> QED
    BY <1>2, <1>4, <2>1 DEF MapHead
<1> QED
    BY <1>5, <1>6, <1>7, <1>8

(* The heads of MessagePack: whatever number GenerateMessagePack writes    *)
(* and whatever follows it, ParseMessagePack finds that number and what    *)
(* follows, and never takes a part of a head for one.                      *)
THEOREM MessagePackHeads ==
    /\ \A x \in MinInt(8) .. MaxInt(8) : HeadReads(GenerateSigned(x), "int", x)
    /\ \A x \in 0 .. MaxUint(8) :
           HeadReads(GenerateUnsigned(x), IF x <= FixInt THEN "int" ELSE "uint", x)
    /\ \A l \in 0 .. MaxUint(4) :
           /\ HeadReads(TextHead(l), "str", l) /\ HeadReads(BytesHead(l), "bin", l)
           /\ HeadReads(ArrayHead(l), "array", l) /\ HeadReads(MapHead(l), "map", l)
    BY SignedHeads, UnsignedHeads, LengthHeads

(* CBOR: a head is read as its major type and its number, whatever follows *)
(* it, and no part of it is one.                                           *)
CborReads(head, major, n) ==
    /\ \A rest \in Stream : ReadCborHead(head \o rest) = Announced(major, n, rest)
    /\ \A k \in 0 .. Len(head) - 1 : ~ReadCborHead(SubSeq(head, 1, k)).ok

(* The heads of CBOR, for every number of 64 bits.                         *)
THEOREM CborHeads ==
    ASSUME NEW major \in Majors, NEW x \in 0 .. MaxUint(8)
    PROVE  CborReads(CborHead(major, x), major, x)
<1>1. x \in Nat /\ Small \in Nat /\ major \notin {"simple", "byte"}
    BY HeadAssumption, ByteFacts DEF Majors
<1>2. \A n \in Int : <<major, n>> \in Elements
    BY ElementFacts, Zenon
<1>3. ASSUME x < Small PROVE CborReads(CborHead(major, x), major, x)
  <2> DEFINE a == <<<<major, x>>>>
  <2>1. a \in Seq(Elements) /\ Len(a) = 1 /\ CborHead(major, x) = a
    BY <1>1, <1>2, <1>3 DEF CborHead, Lead
  <2>2. ASSUME NEW rest \in Stream
        PROVE  ReadCborHead(a \o rest) = Announced(major, x, rest)
    <3> DEFINE data == a \o rest
    <3>1. data # <<>> /\ data[1] = <<major, x>> /\ Tail(data) = rest
      BY <1>1, <1>2 DEF Stream
    <3> HIDE DEF data
    <3>2. data[1][1] = major /\ data[1][2] = x
      BY <3>1
    <3>3. ReadCborHead(data) = Announced(major, x, rest)
      BY <1>1, <1>3, <3>1, <3>2 DEF ReadCborHead
    <3> QED
      BY <3>3 DEF data
  <2>3. ASSUME NEW k \in 0 .. Len(a) - 1 PROVE ~ReadCborHead(SubSeq(a, 1, k)).ok
    <3>1. SubSeq(a, 1, k) = <<>>
      BY <2>1
    <3> QED
      BY <3>1 DEF ReadCborHead, NoHead
  <2> QED
    BY <2>1, <2>2, <2>3 DEF CborReads
<1>4. ASSUME ~(x < Small) PROVE CborReads(CborHead(major, x), major, x)
  <2>1. PICK i \in 1 .. 4 : i = Fewest(Widths, x) /\ x <= MaxUint(Widths[i])
    <3>1. Widths \in Seq(Nat \ {0}) /\ DOMAIN Widths = 1 .. 4 /\ 4 \in DOMAIN Widths
          /\ Widths[4] = 8
      BY DEF Widths
    <3>2. x <= MaxUint(Widths[4])
      BY <3>1, ByteFacts
    <3> QED
      BY <1>1, <3>1, <3>2, FewestFacts
  <2>2. PICK w \in Nat \ {0} : w = Widths[i]
    BY DEF Widths
  <2>3. DOMAIN Widths = 1 .. 4
    BY DEF Widths
  <2>4. PICK c \in Int : c = WidthCode(i) /\ ~(c < Small) /\ c - Small + 1 = i
    BY <1>1 DEF WidthCode
  <2> DEFINE e == BigEndian(x, w)
             a == <<<<major, c>>>> \o e
  <2>5. CborHead(major, x) = a
    BY <1>4, <2>1, <2>2, <2>4 DEF CborHead, Lead
  <2>6. <<>> \in Stream
    BY DEF Stream
  <2>7. e \in Seq(Elements) /\ Len(e) = w
    <3>1. x \in Int
      BY <1>1
    <3>2. e \in Stream /\ Len(e) = w
      BY <2>6, <3>1, BigEndianBack
    <3> QED
      BY <3>2 DEF Stream
  <2>8. Low(x, ByteBits * w) = x
    BY <1>1, <2>1, <2>2, ByteFacts, LowSame DEF MaxUint
  <2>9. \A rest \in Stream : /\ IsRaw(e \o rest, w) /\ Drop(e \o rest, w) = rest
                             /\ UnsignedOf(e \o rest, w) = x
    BY <1>1, <2>8, BigEndianBack
  <2> HIDE DEF e
  <2>10. <<<<major, c>>>> \in Seq(Elements)
    BY <1>2
  <2>11. a \in Seq(Elements) /\ Len(a) = w + 1 /\ a[1] = <<major, c>>
    BY <2>7, <2>10
  <2>12. ASSUME NEW rest \in Stream
         PROVE  ReadCborHead(a \o rest) = Announced(major, x, rest)
    <3> DEFINE data == a \o rest
               d == e \o rest
    <3>1. d \in Seq(Elements)
      BY <2>7 DEF Stream
    <3>2. data = <<<<major, c>>>> \o d
      BY <2>7, <2>10 DEF Stream
    <3>3. IsRaw(d, w) /\ Drop(d, w) = rest /\ UnsignedOf(d, w) = x
      BY <2>9
    <3> HIDE DEF data, d
    <3>4. data # <<>> /\ data[1] = <<major, c>> /\ Tail(data) = d
      BY <1>2, <3>1, <3>2
    <3>5. data[1][1] = major /\ data[1][2] = c
      BY <3>4
    <3>6. ReadCborHead(data) = Announced(major, x, rest)
      BY <1>1, <2>2, <2>3, <2>4, <3>3, <3>4, <3>5 DEF ReadCborHead
    <3> QED
      BY <3>6 DEF data
  <2>13. ASSUME NEW k \in 0 .. Len(a) - 1 PROVE ~ReadCborHead(SubSeq(a, 1, k)).ok
    <3> DEFINE b == SubSeq(a, 1, k)
    <3>1. CASE k = 0
      <4>1. b = <<>>
        BY <2>11, <3>1
      <4> QED
        BY <4>1 DEF ReadCborHead, NoHead
    <3>2. CASE k # 0
      <4>1. b \in Seq(Elements) /\ Len(b) = k /\ b[1] = <<major, c>> /\ k \in Nat /\ k <= w
        BY <2>11, <3>2
      <4> HIDE DEF b
      <4>2. b # <<>> /\ Len(Tail(b)) = k - 1
        BY <3>2, <4>1
      <4>3. ~IsRaw(Tail(b), w)
        BY <4>1, <4>2 DEF IsRaw
      <4>4. ReadCborHead(b) = NoHead
        BY <1>1, <2>2, <2>3, <2>4, <4>1, <4>2, <4>3 DEF ReadCborHead
      <4> QED
        BY <4>4 DEF NoHead, b
    <3> QED
      BY <3>1, <3>2
  <2> QED
    BY <2>5, <2>12, <2>13 DEF CborReads
<1> QED
    BY <1>3, <1>4

-----------------------------------------------------------------------------
(* The classes of compatibility.                                           *)

(* A node's field of a name: there is one, and it is lower.                *)
LEMMA ChildFacts ==
    ASSUME NEW a \in Nodes
    PROVE  /\ \A k \in Keys(a) : /\ Indexed(a, k) \in Nodes /\ Height[Indexed(a, k)] \in Nat
                                /\ Height[Indexed(a, k)] < Height[a]
                                /\ Indexed(a, k) \in Range(a.ch) /\ Indexed(a, k).key = k
                                /\ k \in {n.key : n \in Nodes}
           /\ \A c \in Range(a.ch) : c.key \in Keys(a) /\ c = Indexed(a, c.key)
           /\ Height[a] \in Nat
<1>1. /\ a.ch \in Seq(Nodes) /\ Height \in [Nodes -> Nat]
      /\ \A i \in DOMAIN a.ch : Height[a.ch[i]] < Height[a]
      /\ \A i, j \in DOMAIN a.ch : a.ch[i].key = a.ch[j].key => i = j
    BY NodesAssumption
<1>2. \A i \in DOMAIN a.ch : a.ch[i] \in Nodes
    BY <1>1
<1>3. ASSUME NEW i \in DOMAIN a.ch PROVE Indexed(a, a.ch[i].key) = a.ch[i]
  <2> DEFINE k == a.ch[i].key
             P(i_) == a.ch[i_].key = k /\ \A j \in DOMAIN a.ch : j > i_ => a.ch[j].key # k
  <2>1. P(i)
    <3>1. \A j \in DOMAIN a.ch : j > i => j # i
      BY <1>1
    <3> QED
      BY <1>1, <3>1
  <2>2. \A j \in DOMAIN a.ch : P(j) => j = i
    BY <1>1
  <2> HIDE DEF P
  <2>3. (CHOOSE j \in DOMAIN a.ch : P(j)) = i
    BY <2>1, <2>2
  <2>4. Indexed(a, k) = a.ch[CHOOSE j \in DOMAIN a.ch : P(j)]
    BY DEF Indexed, P
  <2> QED
    BY <2>3, <2>4
<1>4. ASSUME NEW k \in Keys(a)
      PROVE  /\ Indexed(a, k) \in Nodes /\ Height[Indexed(a, k)] \in Nat
             /\ Height[Indexed(a, k)] < Height[a]
             /\ Indexed(a, k) \in Range(a.ch) /\ Indexed(a, k).key = k
             /\ k \in {n.key : n \in Nodes}
  <2>1. PICK i \in DOMAIN a.ch : k = a.ch[i].key
    BY DEF Keys
  <2>2. Indexed(a, k) = a.ch[i]
    BY <1>3, <2>1
  <2> QED
    BY <1>1, <1>2, <2>1, <2>2 DEF Range
<1>5. ASSUME NEW c \in Range(a.ch) PROVE c.key \in Keys(a) /\ c = Indexed(a, c.key)
  <2>1. PICK i \in DOMAIN a.ch : c = a.ch[i]
    BY DEF Range
  <2> QED
    BY <1>3, <2>1 DEF Keys
<1> QED
    BY <1>1, <1>4, <1>5

(* The walk's recursion.                                                   *)
Walks == FieldPaths \X Nodes \X Nodes
Changes == [path : FieldPaths, kind : {"added", "removed", "changed"}]

UnderKey(F, path, a, b, k) ==
    CASE k \notin Keys(a) -> {Change(Append(path, k), "added")}
      [] k \notin Keys(b) -> {Change(Append(path, k), "removed")}
      [] OTHER -> F[<<Append(path, k), Indexed(a, k), Indexed(b, k)>>]

WalkBody(F, path, a, b) ==
    (IF Differs(a, b) /\ path # <<>> THEN {Change(path, "changed")} ELSE {})
    \cup UNION {UnderKey(F, path, a, b, k) : k \in Keys(a) \cup Keys(b)}

(* Where the comparison goes next: longer paths, lower nodes.              *)
LEMMA WalkStep ==
    ASSUME NEW path \in FieldPaths, NEW a \in Nodes, NEW b \in Nodes
    PROVE  /\ \A k \in Keys(a) \cup Keys(b) : Append(path, k) \in FieldPaths
           /\ \A k \in Keys(a) \cap Keys(b) :
                  /\ <<Append(path, k), Indexed(a, k), Indexed(b, k)>> \in Walks
                  /\ Height[Indexed(a, k)] < Height[a]
<1>1. \A k \in Keys(a) \cup Keys(b) : Append(path, k) \in FieldPaths
    BY ChildFacts DEF FieldPaths
<1> QED
    BY <1>1, ChildFacts DEF Walks

(* The comparison satisfies its recursion.                                 *)
LEMMA WalkEquation ==
    /\ DiffWalk \in [Walks -> SUBSET Changes]
    /\ \A path \in FieldPaths, a \in Nodes, b \in Nodes :
           DiffWalk[<<path, a, b>>] = WalkBody(DiffWalk, path, a, b)
<1> DEFINE V == SUBSET Changes
           h == [w \in Walks |-> Height[w[2]]]
           B == [F \in [Walks -> V] |-> [w \in Walks |-> WalkBody(F, w[1], w[2], w[3])]]
<1>1. \A w \in Walks : /\ w[1] \in FieldPaths /\ w[2] \in Nodes /\ w[3] \in Nodes
                        /\ w = <<w[1], w[2], w[3]>>
    BY DEF Walks
<1>2. h \in [Walks -> Nat]
    BY <1>1, ChildFacts
<1>3. ASSUME NEW F, NEW path \in FieldPaths, NEW a \in Nodes, NEW b \in Nodes,
             \A y \in Walks : Height[y[2]] < Height[a] => F[y] \subseteq Changes
      PROVE  WalkBody(F, path, a, b) \in V
  <2>1. ASSUME NEW k \in Keys(a) \cup Keys(b) PROVE UnderKey(F, path, a, b, k) \subseteq Changes
    <3>1. Change(Append(path, k), "added") \in Changes /\ Change(Append(path, k), "removed") \in Changes
      BY WalkStep DEF Change, Changes
    <3>2. CASE k \notin Keys(a)
      <4>1. UnderKey(F, path, a, b, k) = {Change(Append(path, k), "added")}
        BY <3>2 DEF UnderKey
      <4> QED
        BY <3>1, <4>1
    <3>3. CASE k \in Keys(a) /\ k \notin Keys(b)
      <4>1. UnderKey(F, path, a, b, k) = {Change(Append(path, k), "removed")}
        BY <3>3 DEF UnderKey
      <4> QED
        BY <3>1, <4>1
    <3>4. CASE k \in Keys(a) /\ k \in Keys(b)
      <4> DEFINE y == <<Append(path, k), Indexed(a, k), Indexed(b, k)>>
      <4>1. y \in Walks /\ Height[y[2]] < Height[a]
        BY <3>4, WalkStep
      <4>2. UnderKey(F, path, a, b, k) = F[y]
        BY <3>4 DEF UnderKey
      <4> QED
        BY <1>3, <4>1, <4>2
    <3> QED
      BY <3>2, <3>3, <3>4
  <2>2. Change(path, "changed") \in Changes
    BY DEF Change, Changes
  <2> QED
    BY <2>1, <2>2 DEF WalkBody
<1>4. B \in [[Walks -> V] -> [Walks -> V]]
  <2>1. ASSUME NEW F \in [Walks -> V], NEW w \in Walks
        PROVE  WalkBody(F, w[1], w[2], w[3]) \in V
    <3>1. \A y \in Walks : F[y] \subseteq Changes
      OBVIOUS
    <3> QED
      BY <1>1, <1>3, <3>1
  <2> HIDE DEF V
  <2> QED
    BY <2>1, Zenon
<1>5. ASSUME NEW f \in [Walks -> V], NEW g \in [Walks -> V], NEW w \in Walks,
             \A y \in Walks : h[y] < h[w] => f[y] = g[y]
      PROVE  B[f][w] = B[g][w]
  <2>1. PICK path \in FieldPaths, a \in Nodes, b \in Nodes : w = <<path, a, b>>
    BY <1>1
  <2>2. ASSUME NEW k \in Keys(a) \cup Keys(b)
        PROVE  UnderKey(f, path, a, b, k) = UnderKey(g, path, a, b, k)
    <3>1. CASE k \notin Keys(a) \/ k \notin Keys(b)
      BY <3>1 DEF UnderKey
    <3>2. CASE k \in Keys(a) /\ k \in Keys(b)
      <4> DEFINE y == <<Append(path, k), Indexed(a, k), Indexed(b, k)>>
      <4>1. y \in Walks /\ Height[y[2]] < Height[a]
        BY <3>2, WalkStep
      <4>2. h[y] = Height[y[2]] /\ h[w] = Height[a]
        BY <2>1, <4>1
      <4>3. f[y] = g[y]
        BY <1>5, <4>1, <4>2
      <4> QED
        BY <3>2, <4>3 DEF UnderKey
    <3> QED
      BY <3>1, <3>2
  <2>3. WalkBody(f, path, a, b) = WalkBody(g, path, a, b)
    BY <2>2 DEF WalkBody
  <2>4. B[f][w] = WalkBody(f, path, a, b) /\ B[g][w] = WalkBody(g, path, a, b)
    BY <2>1
  <2> QED
    BY <2>3, <2>4
<1>6. Recursion(Walks, V, h, B)
    BY <1>2, <1>4, <1>5 DEF Recursion
<1>7. PICK F : Solution(Walks, V, B, F)
  <2>1. {} \in V
    OBVIOUS
  <2> HIDE DEF B, V, h
  <2> QED
    BY <1>6, <2>1, FixedPoint, Zenon
<1>8. F = [w \in Walks |-> WalkBody(F, w[1], w[2], w[3])] /\ F \in [Walks -> V]
    BY <1>7 DEF Solution
<1>9. DiffWalk = CHOOSE f : f = [w \in Walks |-> WalkBody(f, w[1], w[2], w[3])]
    BY DEF DiffWalk, WalkBody, UnderKey, Walks
<1>10. DiffWalk = [w \in Walks |-> WalkBody(DiffWalk, w[1], w[2], w[3])]
    BY <1>8, <1>9
<1>11. \A path \in FieldPaths, a \in Nodes, b \in Nodes :
           DiffWalk[<<path, a, b>>] = WalkBody(DiffWalk, path, a, b)
  <2>1. ASSUME NEW path \in FieldPaths, NEW a \in Nodes, NEW b \in Nodes
        PROVE  DiffWalk[<<path, a, b>>] = WalkBody(DiffWalk, path, a, b)
    <3>1. <<path, a, b>> \in Walks
      BY DEF Walks
    <3> QED
      BY <1>10, <3>1
  <2> QED
    BY <2>1
<1> DEFINE T == {n \in Nat : \E w \in Walks : h[w] = n /\ DiffWalk[w] \notin V}
<1>12. ASSUME T # {} PROVE FALSE
  <2>1. PICK n \in T : \A m \in T : n <= m
    BY <1>12, Least
  <2>2. PICK path \in FieldPaths, a \in Nodes, b \in Nodes :
           h[<<path, a, b>>] = n /\ DiffWalk[<<path, a, b>>] \notin V /\ <<path, a, b>> \in Walks
    <3>1. PICK w \in Walks : h[w] = n /\ DiffWalk[w] \notin V
      OBVIOUS
    <3> HIDE DEF h, V
    <3>2. w[1] \in FieldPaths /\ w[2] \in Nodes /\ w[3] \in Nodes /\ w = <<w[1], w[2], w[3]>>
      BY <1>1
    <3> QED
      BY <3>1, <3>2, Zenon
  <2>3. ASSUME NEW y \in Walks, Height[y[2]] < Height[a] PROVE DiffWalk[y] \subseteq Changes
    <3>1. h[y] \in Nat /\ h[y] = Height[y[2]] /\ h[<<path, a, b>>] = Height[a] /\ n \in Nat
      BY <1>2, <2>2
    <3>2. h[y] \notin T
      BY <2>1, <2>2, <2>3, <3>1
    <3> QED
      BY <3>1, <3>2
  <2>4. WalkBody(DiffWalk, path, a, b) \in V
    BY <1>3, <2>3
  <2> QED
    BY <1>11, <2>2, <2>4
<1>13. \A w \in Walks : DiffWalk[w] \in V
    BY <1>2, <1>12
<1> QED
  <2>1. DiffWalk \in [Walks -> V]
    BY <1>10, <1>13
  <2> QED
    BY <1>11, <2>1

(* The declarations' recursion.                                            *)
Spots == FieldPaths \X Nodes

(* What a node with its path declares, and all below it.                   *)
AllOf(F, path, c) == {Declared(path, c)} \cup F[<<path, c>>]
PathsBody(F, path, a) == UNION {AllOf(F, Append(path, c.key), c) : c \in Range(a.ch)}

(* Where the declarations go next.                                         *)
LEMMA PlaceStep ==
    ASSUME NEW path \in FieldPaths, NEW a \in Nodes, NEW c \in Range(a.ch)
    PROVE  /\ Append(path, c.key) \in FieldPaths /\ <<Append(path, c.key), c>> \in Spots
           /\ Height[c] < Height[a] /\ c \in Nodes
<1>1. c.key \in Keys(a) /\ c = Indexed(a, c.key)
    BY ChildFacts
<1>2. c \in Nodes /\ Height[c] < Height[a] /\ c.key \in {n.key : n \in Nodes}
    BY <1>1, ChildFacts
<1>3. Append(path, c.key) \in FieldPaths
    BY <1>2 DEF FieldPaths
<1> QED
    BY <1>2, <1>3 DEF Spots

(* The declarations satisfy their recursion.                               *)
LEMMA PathsEquation ==
    \A path \in FieldPaths, a \in Nodes : Paths[<<path, a>>] = PathsBody(Paths, path, a)
<1> DEFINE D == {Declared(w[1], w[2]) : w \in Spots}
           V == SUBSET D
           h == [w \in Spots |-> Height[w[2]]]
           B == [F \in [Spots -> V] |-> [w \in Spots |-> PathsBody(F, w[1], w[2])]]
<1>1. \A w \in Spots : w[1] \in FieldPaths /\ w[2] \in Nodes /\ w = <<w[1], w[2]>>
    BY DEF Spots
<1>2. h \in [Spots -> Nat]
    BY <1>1, ChildFacts
<1>3. ASSUME NEW F \in [Spots -> V], NEW path \in FieldPaths, NEW a \in Nodes
      PROVE  PathsBody(F, path, a) \in V
  <2>1. ASSUME NEW c \in Range(a.ch) PROVE AllOf(F, Append(path, c.key), c) \subseteq D
    <3>1. <<Append(path, c.key), c>> \in Spots
      BY PlaceStep
    <3>2. Declared(Append(path, c.key), c) \in D
      <4>1. PICK w \in Spots : w[1] = Append(path, c.key) /\ w[2] = c
        BY <3>1
      <4>2. Declared(w[1], w[2]) \in D
        OBVIOUS
      <4> QED
        BY <4>1, <4>2
    <3>3. F[<<Append(path, c.key), c>>] \subseteq D
      BY <3>1
    <3> QED
      BY <3>2, <3>3 DEF AllOf
  <2> QED
    BY <2>1 DEF PathsBody
<1>4. B \in [[Spots -> V] -> [Spots -> V]]
  <2>1. \A F \in [Spots -> V] : \A w \in Spots : PathsBody(F, w[1], w[2]) \in V
    BY <1>1, <1>3
  <2> HIDE DEF V
  <2> QED
    BY <2>1, Zenon
<1>5. ASSUME NEW f \in [Spots -> V], NEW g \in [Spots -> V], NEW w \in Spots,
             \A y \in Spots : h[y] < h[w] => f[y] = g[y]
      PROVE  B[f][w] = B[g][w]
  <2>1. PICK path \in FieldPaths, a \in Nodes : w = <<path, a>>
    BY <1>1
  <2>2. ASSUME NEW c \in Range(a.ch)
        PROVE  AllOf(f, Append(path, c.key), c) = AllOf(g, Append(path, c.key), c)
    <3> DEFINE y == <<Append(path, c.key), c>>
    <3>1. y \in Spots /\ Height[y[2]] < Height[a]
      BY PlaceStep
    <3>2. h[y] = Height[y[2]] /\ h[w] = Height[a]
      BY <2>1, <3>1
    <3>3. f[y] = g[y]
      BY <1>5, <3>1, <3>2
    <3> QED
      BY <3>3 DEF AllOf
  <2>3. PathsBody(f, path, a) = PathsBody(g, path, a)
    BY <2>2 DEF PathsBody
  <2>4. B[f][w] = PathsBody(f, path, a) /\ B[g][w] = PathsBody(g, path, a)
    BY <2>1
  <2> QED
    BY <2>3, <2>4
<1>6. Recursion(Spots, V, h, B)
    BY <1>2, <1>4, <1>5 DEF Recursion
<1>7. PICK F : Solution(Spots, V, B, F)
  <2>1. {} \in V
    OBVIOUS
  <2> HIDE DEF B, V, h
  <2> QED
    BY <1>6, <2>1, FixedPoint, Zenon
<1>8. F = [w \in Spots |-> PathsBody(F, w[1], w[2])]
    BY <1>7 DEF Solution
<1>9. Paths = CHOOSE f : f = [w \in Spots |-> PathsBody(f, w[1], w[2])]
    BY DEF Paths, PathsBody, AllOf, Spots
<1>10. Paths = [w \in Spots |-> PathsBody(Paths, w[1], w[2])]
    BY <1>8, <1>9
<1> QED
  <2>1. ASSUME NEW path \in FieldPaths, NEW a \in Nodes
        PROVE  Paths[<<path, a>>] = PathsBody(Paths, path, a)
    <3>1. <<path, a>> \in Spots
      BY DEF Spots
    <3> QED
      BY <1>10, <3>1
  <2> QED
    BY <2>1

(* What a schema declares, field by field.                                 *)
LEMMA PathsMember ==
    ASSUME NEW path \in FieldPaths, NEW a \in Nodes
    PROVE  /\ \A e : e \in Paths[<<path, a>>] <=>
                      \E k \in Keys(a) : \/ e = Declared(Append(path, k), Indexed(a, k))
                                        \/ e \in Paths[<<Append(path, k), Indexed(a, k)>>]
           /\ \A k \in Keys(a) : Append(path, k) \in FieldPaths /\ Indexed(a, k) \in Nodes
<1>1. Paths[<<path, a>>] = PathsBody(Paths, path, a)
    BY PathsEquation
<1>2. ASSUME NEW e, e \in Paths[<<path, a>>]
      PROVE  \E k \in Keys(a) : \/ e = Declared(Append(path, k), Indexed(a, k))
                               \/ e \in Paths[<<Append(path, k), Indexed(a, k)>>]
  <2>1. PICK c \in Range(a.ch) : e \in AllOf(Paths, Append(path, c.key), c)
    BY <1>1, <1>2 DEF PathsBody
  <2>2. c.key \in Keys(a) /\ c = Indexed(a, c.key)
    BY ChildFacts
  <2>3. e = Declared(Append(path, c.key), c) \/ e \in Paths[<<Append(path, c.key), c>>]
    BY <2>1 DEF AllOf
  <2> QED
    BY <2>2, <2>3
<1>3. ASSUME NEW e, NEW k \in Keys(a),
             \/ e = Declared(Append(path, k), Indexed(a, k))
             \/ e \in Paths[<<Append(path, k), Indexed(a, k)>>]
      PROVE  e \in Paths[<<path, a>>]
  <2>1. PICK c \in Range(a.ch) : c = Indexed(a, k) /\ c.key = k
    BY ChildFacts
  <2>2. e \in AllOf(Paths, Append(path, c.key), c)
    BY <1>3, <2>1 DEF AllOf
  <2> QED
    BY <1>1, <2>2 DEF PathsBody
<1>4. \A k \in Keys(a) : Append(path, k) \in FieldPaths /\ Indexed(a, k) \in Nodes
    BY WalkStep, ChildFacts
<1> QED
    BY <1>2, <1>3, <1>4

(* A path that goes on below another.                                      *)
Below(p, path) == /\ Len(p) > Len(path)
                  /\ \A i \in 1 .. Len(path) : p[i] = path[i]

(* All that is declared below a node has a path below the node's.          *)
LEMMA PathsBelow ==
    \A a \in Nodes : \A path \in FieldPaths : \A e \in Paths[<<path, a>>] :
        e[1] \in FieldPaths /\ Below(e[1], path)
<1> DEFINE T == {n \in Nat : \E a \in Nodes : /\ Height[a] = n
                    /\ ~ \A path \in FieldPaths : \A e \in Paths[<<path, a>>] :
                              e[1] \in FieldPaths /\ Below(e[1], path)}
<1>1. ASSUME T # {} PROVE FALSE
  <2>1. PICK n \in T : \A m \in T : n <= m
    BY <1>1, Least
  <2>2. \E a \in Nodes, path \in FieldPaths : \E e \in Paths[<<path, a>>] :
           Height[a] = n /\ ~(e[1] \in FieldPaths /\ Below(e[1], path))
    <3>1. PICK a \in Nodes : /\ Height[a] = n
                    /\ ~ \A path \in FieldPaths : \A e \in Paths[<<path, a>>] :
                              e[1] \in FieldPaths /\ Below(e[1], path)
      OBVIOUS
    <3> QED
      BY <3>1
  <2>3. PICK a \in Nodes, path \in FieldPaths : \E e \in Paths[<<path, a>>] :
           Height[a] = n /\ ~(e[1] \in FieldPaths /\ Below(e[1], path))
    BY <2>2
  <2>4. PICK e \in Paths[<<path, a>>] :
           Height[a] = n /\ ~(e[1] \in FieldPaths /\ Below(e[1], path))
    BY <2>3
  <2>5. PICK k \in Keys(a) : \/ e = Declared(Append(path, k), Indexed(a, k))
                             \/ e \in Paths[<<Append(path, k), Indexed(a, k)>>]
    BY PathsMember
  <2> DEFINE q == Append(path, k)
             c == Indexed(a, k)
  <2>6. /\ q \in FieldPaths /\ c \in Nodes /\ Height[c] \in Nat /\ Height[c] < n /\ n \in Nat
    BY <2>4, ChildFacts, WalkStep
  <2>7. Below(q, path) /\ Len(q) = Len(path) + 1 /\ \A i \in 1 .. Len(path) : q[i] = path[i]
    BY DEF Below, FieldPaths
  <2>8. CASE e = Declared(q, c)
    <3>1. e[1] = q
      BY <2>8 DEF Declared
    <3> QED
      BY <2>4, <2>6, <2>7, <3>1
  <2>9. CASE e \in Paths[<<q, c>>]
    <3>1. Height[c] \notin T
      BY <2>1, <2>6
    <3>2. e[1] \in FieldPaths /\ Below(e[1], q)
      BY <2>6, <2>9, <3>1
    <3> HIDE DEF q
    <3>3. Len(e[1]) \in Nat /\ Len(path) \in Nat
      BY <3>2 DEF FieldPaths
    <3>4. Len(e[1]) > Len(path)
      BY <2>7, <3>2, <3>3 DEF Below
    <3>5. ASSUME NEW i \in 1 .. Len(path) PROVE e[1][i] = path[i]
      <4>1. i \in 1 .. Len(q)
        BY <2>7, <3>3
      <4> QED
        BY <2>7, <3>2, <4>1 DEF Below
    <3> QED
      BY <2>4, <3>2, <3>4, <3>5 DEF Below
  <2> QED
    BY <2>5, <2>8, <2>9
<1> QED
    BY <1>1, ChildFacts

(* A field of a has a field of b of that name, of the same type and with   *)
(* all that it declares.                                                   *)
CarriesOver(path, a, b, k) ==
    /\ k \in Keys(b) /\ ~Differs(Indexed(a, k), Indexed(b, k))
    /\ Paths[<<Append(path, k), Indexed(a, k)>>] \subseteq Paths[<<Append(path, k), Indexed(b, k)>>]

(* Declarations contain others when those of each field do.                *)
LEMMA PathsContained ==
    ASSUME NEW path \in FieldPaths, NEW a \in Nodes, NEW b \in Nodes
    PROVE  Paths[<<path, a>>] \subseteq Paths[<<path, b>>]
               <=> \A k \in Keys(a) : CarriesOver(path, a, b, k)
<1>1. ASSUME \A k \in Keys(a) : CarriesOver(path, a, b, k), NEW e \in Paths[<<path, a>>]
      PROVE  e \in Paths[<<path, b>>]
  <2>1. PICK k \in Keys(a) : \/ e = Declared(Append(path, k), Indexed(a, k))
                             \/ e \in Paths[<<Append(path, k), Indexed(a, k)>>]
    BY PathsMember
  <2>2. CarriesOver(path, a, b, k)
    BY <1>1
  <2>3. Declared(Append(path, k), Indexed(a, k)) = Declared(Append(path, k), Indexed(b, k))
    BY <2>2 DEF CarriesOver, Differs, Declared
  <2>4. \/ e = Declared(Append(path, k), Indexed(b, k))
        \/ e \in Paths[<<Append(path, k), Indexed(b, k)>>]
    BY <2>1, <2>2, <2>3 DEF CarriesOver
  <2>5. k \in Keys(b)
    BY <2>2 DEF CarriesOver
  <2> QED
    BY <2>4, <2>5, PathsMember
<1>2. ASSUME Paths[<<path, a>>] \subseteq Paths[<<path, b>>], NEW k \in Keys(a)
      PROVE  CarriesOver(path, a, b, k)
  <2> DEFINE q == Append(path, k)
  <2>1. q \in FieldPaths /\ Indexed(a, k) \in Nodes
    BY PathsMember
  <2>2. Len(q) = Len(path) + 1 /\ q[Len(path) + 1] = k /\ Len(path) \in Nat
    BY DEF FieldPaths
  <2>3. ASSUME NEW m \in Keys(b)
        PROVE  /\ Append(path, m) \in FieldPaths /\ Indexed(b, m) \in Nodes
               /\ Len(Append(path, m)) = Len(path) + 1 /\ Append(path, m)[Len(path) + 1] = m
    <3>1. Append(path, m) \in FieldPaths /\ Indexed(b, m) \in Nodes
      BY PathsMember
    <3>2. Len(Append(path, m)) = Len(path) + 1 /\ Append(path, m)[Len(path) + 1] = m
      BY DEF FieldPaths
    <3> QED
      BY <3>1, <3>2
  <2>4. ASSUME NEW m \in Keys(b), NEW e \in Paths[<<Append(path, m), Indexed(b, m)>>]
        PROVE  Len(e[1]) > Len(path) + 1 /\ e[1][Len(path) + 1] = m
    <3> DEFINE p == Append(path, m)
    <3>1. p \in FieldPaths /\ Indexed(b, m) \in Nodes /\ Len(p) = Len(path) + 1
          /\ p[Len(path) + 1] = m
      BY <2>3
    <3> HIDE DEF p
    <3>2. Below(e[1], p)
      <4>1. e \in Paths[<<p, Indexed(b, m)>>]
        BY DEF p
      <4> QED
        BY <3>1, <4>1, PathsBelow
    <3>3. Len(path) + 1 \in 1 .. Len(p)
      BY <2>2, <3>1
    <3> QED
      BY <3>1, <3>2, <3>3 DEF Below
  <2>5. k \in Keys(b) /\ ~Differs(Indexed(a, k), Indexed(b, k))
    <3> DEFINE e == Declared(q, Indexed(a, k))
    <3>1. e[1] = q
      BY DEF Declared
    <3>2. e \in Paths[<<path, b>>]
      BY <1>2, PathsMember
    <3>3. PICK m \in Keys(b) : \/ e = Declared(Append(path, m), Indexed(b, m))
                               \/ e \in Paths[<<Append(path, m), Indexed(b, m)>>]
      BY <3>2, PathsMember
    <3>4. e = Declared(Append(path, m), Indexed(b, m))
      <4>1. ASSUME e \in Paths[<<Append(path, m), Indexed(b, m)>>] PROVE FALSE
        <5>1. Len(e[1]) > Len(path) + 1
          BY <2>4, <4>1
        <5> HIDE DEF e, q
        <5> QED
          BY <2>2, <3>1, <5>1
      <4> QED
        BY <3>3, <4>1
    <3>5. q = Append(path, m)
      BY <3>1, <3>4 DEF Declared
    <3>6. k = m
      <4> HIDE DEF q
      <4> QED
        BY <2>2, <2>3, <3>5
    <3>7. ~Differs(Indexed(a, k), Indexed(b, m))
      BY <3>4 DEF Declared, Differs
    <3> QED
      BY <3>6, <3>7
  <2>6. ASSUME NEW e \in Paths[<<q, Indexed(a, k)>>] PROVE e \in Paths[<<q, Indexed(b, k)>>]
    <3>1. Len(e[1]) > Len(path) + 1 /\ e[1][Len(path) + 1] = k
      <4> HIDE DEF q
      <4>1. Below(e[1], q)
        BY <2>1, PathsBelow
      <4>2. Len(path) + 1 \in 1 .. Len(q)
        BY <2>2
      <4> QED
        BY <2>2, <4>1, <4>2 DEF Below
    <3>2. e \in Paths[<<path, b>>]
      BY <1>2, PathsMember
    <3>3. PICK m \in Keys(b) : \/ e = Declared(Append(path, m), Indexed(b, m))
                               \/ e \in Paths[<<Append(path, m), Indexed(b, m)>>]
      BY <3>2, PathsMember
    <3>4. e \in Paths[<<Append(path, m), Indexed(b, m)>>]
      <4>1. ASSUME e = Declared(Append(path, m), Indexed(b, m)) PROVE FALSE
        <5>1. e[1] = Append(path, m)
          BY <4>1 DEF Declared
        <5>2. Len(e[1]) = Len(path) + 1
          BY <2>3, <5>1
        <5> QED
          BY <2>2, <3>1, <5>2
      <4> QED
        BY <3>3, <4>1
    <3>5. k = m
      BY <2>4, <3>1, <3>4
    <3> QED
      BY <3>4, <3>5
  <2> QED
    BY <2>5, <2>6 DEF CarriesOver
<1> QED
    BY <1>1, <1>2

(* Changes of none of these kinds.                                         *)
Clean(D, kinds) == \A c \in D : c.kind \notin kinds

(* A walk without removals and changes, or without additions and changes,  *)
(* field by field.                                                         *)
LEMMA CleanWalk ==
    ASSUME NEW path \in FieldPaths, NEW a \in Nodes, NEW b \in Nodes,
           NEW gone \in {"added", "removed"}
    PROVE  Clean(DiffWalk[<<path, a, b>>], {gone, "changed"}) <=>
               /\ path # <<>> => ~Differs(a, b)
               /\ IF gone = "removed" THEN Keys(a) \subseteq Keys(b) ELSE Keys(b) \subseteq Keys(a)
               /\ \A k \in Keys(a) \cap Keys(b) :
                      Clean(DiffWalk[<<Append(path, k), Indexed(a, k), Indexed(b, k)>>],
                            {gone, "changed"})
<1> DEFINE W == DiffWalk[<<path, a, b>>]
           U(k) == UnderKey(DiffWalk, path, a, b, k)
           N == {gone, "changed"}
<1>1. /\ gone \in {"added", "removed"} /\ gone # "changed"
      /\ \A kind \in {"added", "removed"} : kind \in N <=> kind = gone
    OBVIOUS
<1>2. W = WalkBody(DiffWalk, path, a, b)
    BY WalkEquation
<1> HIDE DEF W
<1>3. Clean(W, N) <=> /\ path # <<>> => ~Differs(a, b)
                      /\ \A k \in Keys(a) \cup Keys(b) : Clean(U(k), N)
  <2>1. Change(path, "changed").kind \in N
    BY DEF Change
  <2> HIDE DEF N
  <2>2. \A c : c \in W <=> \/ Differs(a, b) /\ path # <<>> /\ c = Change(path, "changed")
                           \/ \E k \in Keys(a) \cup Keys(b) : c \in U(k)
    BY <1>2 DEF WalkBody
  <2> HIDE DEF U
  <2> QED
    BY <2>1, <2>2 DEF Clean
<1>4. ASSUME NEW k \in Keys(a) \cap Keys(b)
      PROVE  U(k) = DiffWalk[<<Append(path, k), Indexed(a, k), Indexed(b, k)>>]
    BY DEF UnderKey
<1>5. ASSUME NEW k \in Keys(a), k \notin Keys(b) PROVE Clean(U(k), N) <=> gone # "removed"
  <2>1. U(k) = {Change(Append(path, k), "removed")}
    BY <1>5 DEF UnderKey
  <2>2. Change(Append(path, k), "removed").kind = "removed"
    BY DEF Change
  <2> HIDE DEF U
  <2> QED
    BY <1>1, <2>1, <2>2 DEF Clean
<1>6. ASSUME NEW k \in Keys(b), k \notin Keys(a) PROVE Clean(U(k), N) <=> gone # "added"
  <2>1. U(k) = {Change(Append(path, k), "added")}
    BY <1>6 DEF UnderKey
  <2>2. Change(Append(path, k), "added").kind = "added"
    BY DEF Change
  <2> HIDE DEF U
  <2> QED
    BY <1>1, <2>1, <2>2 DEF Clean
<1> HIDE DEF U, N
<1>7. (\A k \in Keys(a) \cup Keys(b) : Clean(U(k), N)) <=>
          /\ IF gone = "removed" THEN Keys(a) \subseteq Keys(b) ELSE Keys(b) \subseteq Keys(a)
          /\ \A k \in Keys(a) \cap Keys(b) : Clean(U(k), N)
  <2>1. CASE gone = "removed"
    BY <1>5, <1>6, <2>1
  <2>2. CASE gone = "added"
    BY <1>5, <1>6, <2>2
  <2> QED
    BY <1>1, <2>1, <2>2
<1>8. (\A k \in Keys(a) \cap Keys(b) : Clean(U(k), N)) <=>
          \A k \in Keys(a) \cap Keys(b) :
              Clean(DiffWalk[<<Append(path, k), Indexed(a, k), Indexed(b, k)>>], N)
    BY <1>4
<1>9. Clean(W, N) <=>
          /\ path # <<>> => ~Differs(a, b)
          /\ IF gone = "removed" THEN Keys(a) \subseteq Keys(b) ELSE Keys(b) \subseteq Keys(a)
          /\ \A k \in Keys(a) \cap Keys(b) :
                 Clean(DiffWalk[<<Append(path, k), Indexed(a, k), Indexed(b, k)>>], N)
    BY <1>3, <1>7, <1>8
<1> QED
    BY <1>9 DEF W, N

(* The nodes of a height.                                                  *)
Contained(path, a, b) ==
    /\ Clean(DiffWalk[<<path, a, b>>], {"removed", "changed"}) <=>
           /\ path # <<>> => ~Differs(a, b)
           /\ Paths[<<path, a>>] \subseteq Paths[<<path, b>>]
    /\ Clean(DiffWalk[<<path, a, b>>], {"added", "changed"}) <=>
           /\ path # <<>> => ~Differs(a, b)
           /\ Paths[<<path, b>>] \subseteq Paths[<<path, a>>]

(* Changes of no kind but one mean that declarations contain others, at    *)
(* any depth.                                                              *)
LEMMA WalkContainment ==
    \A path \in FieldPaths, a \in Nodes, b \in Nodes : Contained(path, a, b)
<1> DEFINE T == {n \in Nat : \E path \in FieldPaths, a \in Nodes, b \in Nodes :
                               Height[a] = n /\ ~Contained(path, a, b)}
<1>1. ASSUME T # {} PROVE FALSE
  <2>1. PICK n \in T : \A m \in T : n <= m
    BY <1>1, Least
  <2>2. PICK path \in FieldPaths, a \in Nodes, b \in Nodes :
           Height[a] = n /\ ~Contained(path, a, b)
    OBVIOUS
  <2>3. ASSUME NEW k \in Keys(a) \cap Keys(b)
        PROVE  Contained(Append(path, k), Indexed(a, k), Indexed(b, k))
    <3>1. /\ Append(path, k) \in FieldPaths /\ Indexed(a, k) \in Nodes /\ Indexed(b, k) \in Nodes
          /\ Height[Indexed(a, k)] \in Nat /\ Height[Indexed(a, k)] < n /\ n \in Nat
      BY <2>2, ChildFacts, WalkStep
    <3>2. Height[Indexed(a, k)] \notin T
      BY <2>1, <3>1
    <3> QED
      BY <3>1, <3>2
  <2>4. \A k \in Keys(a) \cap Keys(b) : Append(path, k) # <<>>
    BY DEF FieldPaths
  <2>5. Clean(DiffWalk[<<path, a, b>>], {"removed", "changed"}) <=>
            /\ path # <<>> => ~Differs(a, b)
            /\ Paths[<<path, a>>] \subseteq Paths[<<path, b>>]
    <3>1. Clean(DiffWalk[<<path, a, b>>], {"removed", "changed"}) <=>
              /\ path # <<>> => ~Differs(a, b)
              /\ Keys(a) \subseteq Keys(b)
              /\ \A k \in Keys(a) \cap Keys(b) :
                     Clean(DiffWalk[<<Append(path, k), Indexed(a, k), Indexed(b, k)>>],
                           {"removed", "changed"})
      BY CleanWalk
    <3>2. \A k \in Keys(a) \cap Keys(b) :
              Clean(DiffWalk[<<Append(path, k), Indexed(a, k), Indexed(b, k)>>],
                    {"removed", "changed"}) <=> CarriesOver(path, a, b, k)
      BY <2>3, <2>4 DEF Contained, CarriesOver
    <3>3. (\A k \in Keys(a) : CarriesOver(path, a, b, k)) <=>
              Keys(a) \subseteq Keys(b) /\ \A k \in Keys(a) \cap Keys(b) : CarriesOver(path, a, b, k)
      BY DEF CarriesOver
    <3> QED
      BY <3>1, <3>2, <3>3, PathsContained
  <2>6. Clean(DiffWalk[<<path, a, b>>], {"added", "changed"}) <=>
            /\ path # <<>> => ~Differs(a, b)
            /\ Paths[<<path, b>>] \subseteq Paths[<<path, a>>]
    <3>1. Clean(DiffWalk[<<path, a, b>>], {"added", "changed"}) <=>
              /\ path # <<>> => ~Differs(a, b)
              /\ Keys(b) \subseteq Keys(a)
              /\ \A k \in Keys(a) \cap Keys(b) :
                     Clean(DiffWalk[<<Append(path, k), Indexed(a, k), Indexed(b, k)>>],
                           {"added", "changed"})
      BY CleanWalk
    <3>2. \A k \in Keys(a) \cap Keys(b) :
              Clean(DiffWalk[<<Append(path, k), Indexed(a, k), Indexed(b, k)>>],
                    {"added", "changed"}) <=> CarriesOver(path, b, a, k)
      BY <2>3, <2>4 DEF Contained, CarriesOver, Differs
    <3>3. (\A k \in Keys(b) : CarriesOver(path, b, a, k)) <=>
              Keys(b) \subseteq Keys(a) /\ \A k \in Keys(a) \cap Keys(b) : CarriesOver(path, b, a, k)
      BY DEF CarriesOver
    <3> QED
      BY <3>1, <3>2, <3>3, PathsContained
  <2> QED
    BY <2>2, <2>5, <2>6 DEF Contained
<1> QED
    BY <1>1, ChildFacts

(* The class of two versions is what their declarations' containment says. *)
LEMMA ClassCorrect ==
    ASSUME NEW old \in Nodes, NEW new \in Nodes
    PROVE  LET before == Paths[<<<<>>, old>>]
               after == Paths[<<<<>>, new>>]
           IN  CompatibilityClass(old, new)
                   = CASE before = after -> "full"
                       [] before # after /\ before \subseteq after -> "backward"
                       [] before # after /\ after \subseteq before -> "forward"
                       [] OTHER -> "breaking"
<1> DEFINE D == DiffWalk[<<<<>>, old, new>>]
           kinds == {c.kind : c \in D}
           before == Paths[<<<<>>, old>>]
           after == Paths[<<<<>>, new>>]
<1>1. <<>> \in FieldPaths /\ <<<<>>, old, new>> \in Walks
  <2>1. <<>> \in FieldPaths
    BY DEF FieldPaths
  <2> QED
    BY <2>1 DEF Walks
<1>2. \A c \in D : c.kind \in {"added", "removed", "changed"}
  <2>1. D \in SUBSET Changes
    BY <1>1, WalkEquation
  <2> QED
    BY <2>1 DEF Changes
<1>3. /\ Clean(D, {"removed", "changed"}) <=> before \subseteq after
      /\ Clean(D, {"added", "changed"}) <=> after \subseteq before
  <2>1. Contained(<<>>, old, new)
    BY <1>1, WalkContainment
  <2> QED
    BY <2>1 DEF Contained
<1>4. CompatibilityClass(old, new) = CASE kinds = {} -> "full"
                                       [] kinds = {"added"} -> "backward"
                                       [] kinds = {"removed"} -> "forward"
                                       [] OTHER -> "breaking"
    BY DEF CompatibilityClass
<1> HIDE DEF D, before, after
<1>5. kinds \subseteq {"added", "removed", "changed"}
    BY <1>2
<1>6. /\ ("removed" \notin kinds /\ "changed" \notin kinds) <=> before \subseteq after
      /\ ("added" \notin kinds /\ "changed" \notin kinds) <=> after \subseteq before
    BY <1>2, <1>3 DEF Clean
<1> HIDE DEF kinds
<1>7. kinds = {} <=> before = after
    BY <1>5, <1>6
<1>8. kinds = {"added"} <=> (before # after /\ before \subseteq after)
    BY <1>5, <1>6
<1>9. kinds = {"removed"} <=> (before # after /\ after \subseteq before)
    BY <1>5, <1>6
<1>10. CompatibilityClass(old, new)
           = CASE before = after -> "full"
               [] before # after /\ before \subseteq after -> "backward"
               [] before # after /\ after \subseteq before -> "forward"
               [] OTHER -> "breaking"
  <2>1. CASE before = after
    BY <1>4, <1>7, <2>1
  <2>2. CASE before # after /\ before \subseteq after
    BY <1>4, <1>7, <1>8, <1>9, <2>2
  <2>3. CASE before # after /\ after \subseteq before
    BY <1>4, <1>7, <1>8, <1>9, <2>3
  <2>4. CASE ~(before \subseteq after) /\ ~(after \subseteq before)
    BY <1>4, <1>7, <1>8, <1>9, <2>4
  <2> QED
    BY <2>1, <2>2, <2>3, <2>4
<1> QED
    BY <1>10 DEF before, after

(* Every comparison of a run finds the class that containment says.        *)
THEOREM ClassesAreContainment == CalculationSpec => []ClassIsContainment
<1> DEFINE I == task \in Tasks /\ ClassIsContainment
<1>1. CalculationInit => I
    BY DEF CalculationInit, ClassIsContainment
<1>2. I /\ [ReadNumber \/ Compare \/ Project \/ ProjectAgain]_<<task, stage, tree, output>> => I'
  <2> SUFFICES ASSUME I,
                      [ReadNumber \/ Compare \/ Project \/ ProjectAgain]_<<task, stage, tree, output>>
               PROVE  I'
    OBVIOUS
  <2>1. CASE ReadNumber
    <3>1. task.do = "varint" /\ task' = task
      BY <2>1 DEF ReadNumber, At
    <3> QED
      BY <3>1 DEF ClassIsContainment
  <2>2. CASE Compare
    <3>1. /\ task.do = "diff" /\ task' = task /\ stage' = "done"
          /\ output' = CompatibilityClass(task.old, task.new)
      BY <2>2 DEF Compare, At
    <3>2. task.old \in Nodes /\ task.new \in Nodes
      BY <3>1, CalculationAssumption
    <3>3. ClassIsContainment'
      BY <3>1, <3>2, ClassCorrect DEF ClassIsContainment
    <3> QED
      BY <3>1, <3>3
  <2>3. CASE Project \/ ProjectAgain
    <3>1. task.do = "project" /\ task' = task
      BY <2>3 DEF Project, ProjectAgain, At
    <3> QED
      BY <3>1 DEF ClassIsContainment
  <2>4. CASE UNCHANGED <<task, stage, tree, output>>
    BY <2>4 DEF ClassIsContainment
  <2> QED
    BY <2>1, <2>2, <2>3, <2>4
<1> QED
    BY <1>1, <1>2, PTL DEF CalculationSpec

-----------------------------------------------------------------------------
(* Data.                                                                   *)

(* The trees whose members are in S.                                       *)
Level(S) == [key : Names, t : Types \cup {None}, val : Values, ch : Seq(S)]

(* A chain of n levels.                                                    *)
Levels(f, n) == /\ f = [i \in 0 .. n |-> f[i]] /\ f[0] = {}
                /\ \A i \in 1 .. n : f[i] = Level(f[i - 1])

(* Chains of all lengths.                                                  *)
LEMMA LevelsExist == \A n \in Nat : \E f : Levels(f, n)
<1> DEFINE T == {n \in Nat : ~ \E f : Levels(f, n)}
<1>1. ASSUME T # {} PROVE FALSE
  <2>1. PICK n \in T : \A m \in T : n <= m
    BY <1>1, Least
  <2>2. n \in Nat /\ ~ \E f : Levels(f, n)
    OBVIOUS
  <2>3. n # 0
    <3>1. PICK f : f = [i \in 0 .. 0 |-> {}]
      OBVIOUS
    <3>2. Levels(f, 0)
      BY <3>1 DEF Levels
    <3> QED
      BY <2>2, <3>2
  <2>4. n - 1 \in Nat /\ n - 1 \notin T
    BY <2>1, <2>2, <2>3
  <2>5. PICK f : Levels(f, n - 1)
    BY <2>4
  <2>6. PICK g : g = [i \in 0 .. n |-> IF i = n THEN Level(f[n - 1]) ELSE f[i]]
    OBVIOUS
  <2>7. Levels(g, n)
    <3>1. g = [i \in 0 .. n |-> g[i]] /\ g[0] = {}
      <4>1. 0 \in 0 .. n /\ f[0] = {}
        BY <2>2, <2>5 DEF Levels
      <4>2. g = [i \in 0 .. n |-> g[i]]
        BY <2>6, Zenon
      <4> QED
        BY <2>3, <2>6, <4>1, <4>2
    <3>2. ASSUME NEW i \in 1 .. n PROVE g[i] = Level(g[i - 1])
      <4>1. g[i - 1] = f[i - 1]
        BY <2>2, <2>6
      <4>2. CASE i = n
        BY <2>2, <2>6, <4>1, <4>2
      <4>3. CASE i # n
        <5>1. i \in 1 .. n - 1 /\ g[i] = f[i]
          BY <2>2, <2>6, <4>3
        <5> QED
          BY <2>5, <4>1, <5>1 DEF Levels
      <4> QED
        BY <4>2, <4>3
    <3> QED
      BY <3>1, <3>2 DEF Levels
  <2> QED
    BY <2>2, <2>7
<1> QED
    BY <1>1

(* Two chains agree as far as both go.                                     *)
LEMMA LevelsAgree ==
    ASSUME NEW m \in Nat, NEW n \in Nat, m <= n,
           NEW f, NEW g, Levels(f, m), Levels(g, n)
    PROVE  \A i \in 0 .. m : f[i] = g[i]
<1> DEFINE T == {i \in Nat : i <= m /\ f[i] # g[i]}
<1>1. ASSUME T # {} PROVE FALSE
  <2>1. PICK i \in T : \A j \in T : i <= j
    BY <1>1, Least
  <2>2. i \in Nat /\ i <= m /\ f[i] # g[i]
    OBVIOUS
  <2>3. i # 0
    BY <2>2 DEF Levels
  <2>4. i - 1 \in Nat /\ i - 1 \notin T
    BY <2>1, <2>2, <2>3
  <2>5. f[i - 1] = g[i - 1]
    BY <2>2, <2>4
  <2>6. i \in 1 .. m /\ i \in 1 .. n
    BY <2>2, <2>3
  <2> HIDE DEF T
  <2>7. f[i] = Level(f[i - 1]) /\ g[i] = Level(g[i - 1])
    BY <2>6 DEF Levels
  <2> QED
    BY <2>2, <2>5, <2>7
<1> QED
    BY <1>1

(* DataTrees is what its recursion says.                                   *)
LEMMA TreesFacts ==
    /\ DataTrees[0] = {}
    /\ \A h \in Nat : DataTrees[h + 1] = Level(DataTrees[h])
<1> DEFINE C(n) == CHOOSE f : Levels(f, n)
           F == [n \in Nat |-> C(n)[n]]
<1>1. \A n \in Nat : Levels(C(n), n)
    BY LevelsExist
<1>2. \A n \in Nat : F[n] = C(n)[n]
    OBVIOUS
<1> HIDE DEF C
<1>3. ASSUME NEW n \in Nat, n # 0 PROVE C(n)[n] = Level(C(n - 1)[n - 1])
  <2>1. n - 1 \in Nat /\ n \in 1 .. n /\ n - 1 \in 0 .. n - 1 /\ n - 1 <= n
    BY <1>3
  <2>2. C(n)[n] = Level(C(n)[n - 1])
    BY <1>1, <2>1 DEF Levels
  <2>3. C(n - 1)[n - 1] = C(n)[n - 1]
    BY <1>1, <2>1, LevelsAgree
  <2> QED
    BY <2>2, <2>3
<1>4. C(0)[0] = {}
    BY <1>1 DEF Levels
<1>5. F = [n \in Nat |-> IF n = 0 THEN {} ELSE Level(F[n - 1])]
  <2>1. ASSUME NEW n \in Nat PROVE C(n)[n] = IF n = 0 THEN {} ELSE Level(F[n - 1])
    <3>1. n # 0 => n - 1 \in Nat
      OBVIOUS
    <3> QED
      BY <1>2, <1>3, <1>4, <3>1, Zenon
  <2> QED
    BY <2>1, Zenon
<1> HIDE DEF F
<1>6. DataTrees = CHOOSE f : f = [n \in Nat |-> IF n = 0 THEN {} ELSE Level(f[n - 1])]
    BY DEF DataTrees, Level
<1>7. DataTrees = [n \in Nat |-> IF n = 0 THEN {} ELSE Level(DataTrees[n - 1])]
    BY <1>5, <1>6
<1>8. ASSUME NEW h \in Nat PROVE DataTrees[h + 1] = Level(DataTrees[h])
  <2>1. h + 1 \in Nat /\ h + 1 # 0 /\ (h + 1) - 1 = h
    OBVIOUS
  <2>2. DataTrees[h + 1] = Level(DataTrees[(h + 1) - 1])
    BY <1>7, <2>1
  <2> QED
    BY <2>1, <2>2
<1>9. DataTrees[0] = {}
    BY <1>7
<1> QED
    BY <1>8, <1>9

(* A tree of at most m levels has at most n, if n is at least m.           *)
LEMMA TreesGrow ==
    ASSUME NEW m \in Nat, NEW n \in Nat, m <= n
    PROVE  DataTrees[m] \subseteq DataTrees[n]
<1> DEFINE T == {h \in Nat : ~(DataTrees[h] \subseteq DataTrees[h + 1])}
<1>1. ASSUME T # {} PROVE FALSE
  <2>1. PICK h \in T : \A k \in T : h <= k
    BY <1>1, Least
  <2>2. h \in Nat /\ ~(DataTrees[h] \subseteq DataTrees[h + 1])
    OBVIOUS
  <2>3. h # 0
    BY <2>2, TreesFacts
  <2>4. PICK k \in Nat : h = k + 1
    <3>1. h - 1 \in Nat /\ h = (h - 1) + 1
      BY <2>2, <2>3
    <3> QED
      BY <3>1
  <2>5. DataTrees[k] \subseteq DataTrees[k + 1]
    <3>1. k \notin T
      BY <2>1, <2>4
    <3> QED
      BY <3>1
  <2>6. DataTrees[h] = Level(DataTrees[k]) /\ DataTrees[h + 1] = Level(DataTrees[k + 1])
    BY <2>2, <2>4, TreesFacts
  <2>7. Seq(DataTrees[k]) \subseteq Seq(DataTrees[k + 1])
    BY <2>5
  <2> HIDE DEF T
  <2>8. Level(DataTrees[k]) \subseteq Level(DataTrees[k + 1])
    BY <2>7 DEF Level
  <2> QED
    BY <2>2, <2>6, <2>8
<1>2. \A h \in Nat : DataTrees[h] \subseteq DataTrees[h + 1]
    BY <1>1
<1> DEFINE U == {k \in Nat : k >= m /\ ~(DataTrees[m] \subseteq DataTrees[k])}
<1>3. ASSUME U # {} PROVE FALSE
  <2>1. PICK k \in U : \A l \in U : k <= l
    BY <1>3, Least
  <2>2. k \in Nat /\ k >= m /\ ~(DataTrees[m] \subseteq DataTrees[k])
    OBVIOUS
  <2>3. k # m
    BY <2>2
  <2>4. k - 1 \in Nat /\ k - 1 >= m /\ k - 1 \notin U /\ k = (k - 1) + 1
    BY <2>1, <2>2, <2>3
  <2>5. DataTrees[m] \subseteq DataTrees[k - 1]
    BY <2>4
  <2>6. DataTrees[k - 1] \subseteq DataTrees[k]
    BY <1>2, <2>4
  <2> QED
    BY <2>2, <2>5, <2>6
<1> QED
    BY <1>3

(* The number of levels of a tree.                                         *)
Depth(x) == CHOOSE h \in Nat : x \in DataTrees[h] /\ \A k \in Nat : x \in DataTrees[k] => h <= k

(* A tree, its depth, and its children, which are less deep.               *)
LEMMA DepthFacts ==
    ASSUME NEW H \in Nat, NEW x \in DataTrees[H]
    PROVE  /\ Depth(x) \in Nat /\ Depth(x) >= 1 /\ Depth(x) <= H
           /\ x \in DataTrees[Depth(x)]
           /\ x = Data(x.key, x.t, x.val, x.ch)
           /\ x.key \in Names /\ x.t \in Types \cup {None} /\ x.val \in Values
           /\ x.ch \in Seq(DataTrees[Depth(x) - 1])
           /\ \A i \in DOMAIN x.ch : /\ x.ch[i] \in DataTrees[H]
                                     /\ Depth(x.ch[i]) \in Nat
                                     /\ Depth(x.ch[i]) < Depth(x)
<1>1. ASSUME NEW K \in Nat, NEW y \in DataTrees[K]
      PROVE  Depth(y) \in Nat /\ y \in DataTrees[Depth(y)] /\ Depth(y) <= K /\ Depth(y) # 0
  <2> DEFINE T == {h \in Nat : y \in DataTrees[h]}
  <2>1. T # {}
    BY <1>1
  <2>2. PICK h \in T : \A k \in T : h <= k
    BY <2>1, Least
  <2>3. h \in Nat /\ y \in DataTrees[h] /\ \A k \in Nat : y \in DataTrees[k] => h <= k
    BY <2>2
  <2>4. Depth(y) \in Nat /\ y \in DataTrees[Depth(y)] /\ \A k \in Nat : y \in DataTrees[k] => Depth(y) <= k
    BY <2>3 DEF Depth
  <2> QED
    BY <1>1, <2>4, TreesFacts
<1> DEFINE D == Depth(x)
<1>2. D \in Nat /\ x \in DataTrees[D] /\ D <= H /\ D # 0
    BY <1>1
<1> HIDE DEF D
<1>3. PICK k \in Nat : D = k + 1
  <2>1. D - 1 \in Nat /\ D = (D - 1) + 1
    BY <1>2
  <2> QED
    BY <2>1
<1>4. x \in Level(DataTrees[k])
    BY <1>2, <1>3, TreesFacts
<1>5. /\ x = Data(x.key, x.t, x.val, x.ch) /\ x.key \in Names
      /\ x.t \in Types \cup {None} /\ x.val \in Values /\ x.ch \in Seq(DataTrees[k])
    BY <1>4 DEF Level, Data
<1>6. ASSUME NEW i \in DOMAIN x.ch
      PROVE  x.ch[i] \in DataTrees[H] /\ Depth(x.ch[i]) \in Nat /\ Depth(x.ch[i]) < D
  <2>1. x.ch[i] \in DataTrees[k]
    BY <1>5
  <2>2. Depth(x.ch[i]) \in Nat /\ Depth(x.ch[i]) <= k
    BY <1>1, <2>1
  <2>3. DataTrees[k] \subseteq DataTrees[H]
    BY <1>2, <1>3, TreesGrow
  <2> QED
    BY <1>3, <2>1, <2>2, <2>3
<1>7. D - 1 = k /\ D >= 1
    BY <1>3
<1> QED
    BY <1>2, <1>5, <1>6, <1>7 DEF D

(* What makes a tree of at most h levels.                                  *)
LEMMA TreeMade ==
    ASSUME NEW h \in Nat, h >= 1, NEW k \in Names, NEW t \in Types \cup {None},
           NEW v \in Values, NEW c \in Seq(DataTrees[h - 1])
    PROVE  Data(k, t, v, c) \in DataTrees[h]
<1>1. h - 1 \in Nat /\ h = (h - 1) + 1
    OBVIOUS
<1>2. DataTrees[h] = Level(DataTrees[h - 1])
    BY <1>1, TreesFacts
<1> QED
    BY <1>2 DEF Level, Data

-----------------------------------------------------------------------------
(* Schemas that data is projected with.                                    *)

(* One step of the search for a named type.                                *)
Hits(F, x) == {i \in DOMAIN x.ch : F[x.ch[i]] # None}
FindBody(F, name, x) ==
    IF x.key = name /\ x.t \in NamedKinds THEN x
    ELSE IF Hits(F, x) = {} THEN None
    ELSE F[x.ch[CHOOSE i \in Hits(F, x) : \A j \in Hits(F, x) : i <= j]]

(* The first hit is one.                                                   *)
LEMMA FirstHit ==
    ASSUME NEW x \in Nodes, NEW F, Hits(F, x) # {}
    PROVE  (CHOOSE i \in Hits(F, x) : \A j \in Hits(F, x) : i <= j) \in Hits(F, x)
<1>1. x.ch \in Seq(Nodes)
    BY NodesAssumption
<1>2. Hits(F, x) \subseteq Nat
    BY <1>1 DEF Hits
<1>3. \E i \in Hits(F, x) : \A j \in Hits(F, x) : i <= j
    BY <1>2, Least
<1> QED
    BY <1>3

(* What FindNamedType gives is a node of a schema, or None.                *)
LEMMA FindFacts ==
    ASSUME NEW name, NEW node \in Nodes
    PROVE  FindNamedType(node, name) \in Nodes \cup {None}
<1> DEFINE V == Nodes \cup {None}
           B == [F \in [Nodes -> V] |-> [x \in Nodes |-> FindBody(F, name, x)]]
<1>0. /\ Height \in [Nodes -> Nat]
      /\ \A x \in Nodes : \A i \in DOMAIN x.ch : x.ch[i] \in Nodes /\ Height[x.ch[i]] < Height[x]
    BY NodesAssumption
<1>1. ASSUME NEW F, NEW x \in Nodes, \A i \in DOMAIN x.ch : F[x.ch[i]] \in V
      PROVE  FindBody(F, name, x) \in V
  <2>1. CASE x.key = name /\ x.t \in NamedKinds
    BY <2>1 DEF FindBody
  <2>2. CASE ~(x.key = name /\ x.t \in NamedKinds) /\ Hits(F, x) = {}
    BY <2>2 DEF FindBody
  <2>3. CASE ~(x.key = name /\ x.t \in NamedKinds) /\ Hits(F, x) # {}
    <3>1. PICK i \in Hits(F, x) : FindBody(F, name, x) = F[x.ch[i]]
      BY <2>3, FirstHit DEF FindBody
    <3> QED
      BY <1>1, <3>1 DEF Hits
  <2> QED
    BY <2>1, <2>2, <2>3
<1>2. B \in [[Nodes -> V] -> [Nodes -> V]]
  <2>1. ASSUME NEW F \in [Nodes -> V], NEW x \in Nodes PROVE FindBody(F, name, x) \in V
    <3>1. \A i \in DOMAIN x.ch : F[x.ch[i]] \in V
      BY <1>0
    <3> QED
      BY <1>1, <3>1
  <2> HIDE DEF V
  <2> QED
    BY <2>1, Zenon
<1>3. ASSUME NEW f \in [Nodes -> V], NEW g \in [Nodes -> V], NEW x \in Nodes,
             \A y \in Nodes : Height[y] < Height[x] => f[y] = g[y]
      PROVE  B[f][x] = B[g][x]
  <2>1. \A i \in DOMAIN x.ch : f[x.ch[i]] = g[x.ch[i]]
    BY <1>0, <1>3
  <2>2. Hits(f, x) = Hits(g, x)
    BY <2>1 DEF Hits
  <2>3. FindBody(f, name, x) = FindBody(g, name, x)
    <3>1. CASE Hits(f, x) = {}
      BY <2>2, <3>1 DEF FindBody
    <3>2. CASE Hits(f, x) # {}
      <4>1. PICK i : i = CHOOSE k \in Hits(f, x) : \A j \in Hits(f, x) : k <= j
        OBVIOUS
      <4>2. i \in Hits(f, x)
        BY <3>2, <4>1, FirstHit
      <4>3. f[x.ch[i]] = g[x.ch[i]]
        BY <2>1, <4>2 DEF Hits
      <4> QED
        BY <2>2, <3>2, <4>1, <4>3, Zenon DEF FindBody
    <3> QED
      BY <3>1, <3>2
  <2> QED
    BY <2>3
<1>4. Recursion(Nodes, V, Height, B)
    BY <1>0, <1>2, <1>3 DEF Recursion
<1>5. PICK F : Solution(Nodes, V, B, F)
  <2>1. None \in V
    OBVIOUS
  <2> HIDE DEF B, V
  <2> QED
    BY <1>4, <2>1, FixedPoint, Zenon
<1>6. F = [x \in Nodes |-> FindBody(F, name, x)]
    BY <1>5 DEF Solution
<1>7. Finding(name) = CHOOSE f : f = [x \in Nodes |-> FindBody(f, name, x)]
    BY DEF Finding, FindBody, Hits
<1>8. PICK f : f = Finding(name)
    OBVIOUS
<1>9. f = [x \in Nodes |-> FindBody(f, name, x)]
    BY <1>6, <1>7, <1>8
<1> DEFINE T == {n \in Nat : \E x \in Nodes : Height[x] = n /\ f[x] \notin V}
<1>10. ASSUME T # {} PROVE FALSE
  <2>1. PICK n \in T : \A m \in T : n <= m
    BY <1>10, Least
  <2>2. PICK x \in Nodes : Height[x] = n /\ f[x] \notin V
    OBVIOUS
  <2>3. ASSUME NEW i \in DOMAIN x.ch PROVE f[x.ch[i]] \in V
    <3>1. x.ch[i] \in Nodes /\ Height[x.ch[i]] \in Nat /\ Height[x.ch[i]] < n /\ n \in Nat
      BY <1>0, <2>2
    <3>2. Height[x.ch[i]] \notin T
      BY <2>1, <3>1
    <3> QED
      BY <3>1, <3>2
  <2>4. FindBody(f, name, x) \in V
    BY <1>1, <2>3
  <2>5. f[x] = FindBody(f, name, x)
    BY <1>9
  <2> QED
    BY <2>2, <2>4, <2>5
<1>11. f[node] \in V
    BY <1>0, <1>10
<1> QED
    BY <1>8, <1>11 DEF FindNamedType

(* The parts of what data is projected with.                               *)
LEMMA ViewFacts ==
    /\ Nodes \subseteq Views
    /\ \A s \in Views : /\ s = [key |-> s.key, t |-> s.t, ann |-> s.ann, ch |-> s.ch]
                        /\ s.key \in Names /\ s.t \in Types /\ s.ch \in Seq(Nodes)
                        /\ s.ann.default # None => s.ann.default \in Values
                        /\ s.ann.element \in Types \cup {None}
                        /\ Element(s) \in Views
<1>1. Nodes \subseteq Views
    BY SchemaAssumption
<1>2. ASSUME NEW s \in Views
      PROVE  /\ s = [key |-> s.key, t |-> s.t, ann |-> s.ann, ch |-> s.ch]
             /\ s.key \in Names /\ s.t \in Types /\ s.ch \in Seq(Nodes)
             /\ \E n \in Nodes : s.ann = n.ann
    BY DEF Views
<1>3. ASSUME NEW s \in Views
      PROVE  /\ s.ann.default # None => s.ann.default \in Values
             /\ s.ann.element \in Types \cup {None}
  <2>1. PICK n \in Nodes : s.ann = n.ann
    BY <1>2
  <2> QED
    BY <2>1, SchemaAssumption
<1>4. ASSUME NEW s \in Views PROVE Element(s) \in Views
  <2>1. s.ch # <<>> => s.ch[1] \in Nodes
    BY <1>2
  <2> QED
    BY <1>1, <2>1 DEF Element
<1> QED
    BY <1>1, <1>2, <1>3, <1>4

(* Fields that get the type they name, and references that are resolved.   *)
LEMMA NamedFacts ==
    ASSUME NEW s \in Views, NEW root \in Nodes
    PROVE  /\ FieldSchema(s, root) \in Views
           /\ FieldSchema(s, root).key = s.key /\ FieldSchema(s, root).ann = s.ann
           /\ Resolved(s, root) \in Views
<1>1. ASSUME NEW name PROVE ResolveNamed(name, root) \in Nodes \cup {None}
    BY FindFacts DEF ResolveNamed
<1>2. PICK n \in Nodes \cup {None} : n = ResolveNamed(s.ann.named, root)
    BY <1>1
<1>3. CASE n # None
  <2>1. n \in Views /\ n.t \in Types /\ n.ch \in Seq(Nodes)
    BY <1>2, <1>3, ViewFacts
  <2>2. s.key \in Names /\ s.ann \in {m.ann : m \in Nodes}
    BY DEF Views
  <2>3. PICK v : v = [key |-> s.key, t |-> n.t, ann |-> s.ann, ch |-> n.ch]
    OBVIOUS
  <2>4. v \in Views /\ v.key = s.key /\ v.ann = s.ann
    BY <2>1, <2>2, <2>3 DEF Views
  <2>5. FieldSchema(s, root) = v \/ FieldSchema(s, root) = s
    BY <1>2, <2>3 DEF FieldSchema
  <2>6. FieldSchema(s, root) \in Views /\ FieldSchema(s, root).key = s.key /\ FieldSchema(s, root).ann = s.ann
    BY <2>4, <2>5
  <2> QED
    BY <2>6, <1>1, ViewFacts DEF Resolved
<1>4. CASE n = None
  <2>1. FieldSchema(s, root) = s
    BY <1>2, <1>4 DEF FieldSchema
  <2> QED
    BY <2>1, <1>1, ViewFacts DEF Resolved
<1> QED
    BY <1>3, <1>4

(* The node a payload is projected with is one of its schema.              *)
LEMMA PayloadTypeFacts ==
    ASSUME NEW schema \in Nodes, NEW name
    PROVE  ResolvePayloadType(schema, name) \in Nodes \cup {None}
<1>1. FindNamedType(schema, name) \in Nodes \cup {None}
    BY FindFacts
<1>2. schema.ch \in Seq(Nodes)
    BY NodesAssumption
<1>3. PICK c : c = PayloadCandidates(schema)
    OBVIOUS
<1>4. c \subseteq DOMAIN schema.ch
    BY <1>3 DEF PayloadCandidates
<1>5. c # {} => schema.ch[CHOOSE i \in c : TRUE] \in Nodes
    BY <1>2, <1>4
<1>6. ResolvePayloadType(schema, name) \in
        {FindNamedType(schema, name), schema, None}
        \cup (IF c = {} THEN {} ELSE {schema.ch[CHOOSE i \in c : TRUE]})
    BY <1>3 DEF ResolvePayloadType
<1> QED
    BY <1>1, <1>5, <1>6

-----------------------------------------------------------------------------
(* Projection.                                                             *)

(* The last of some places of a sequence.                                  *)
LEMMA Last ==
    ASSUME NEW n \in Nat, NEW T, T \subseteq 1 .. n, T # {}
    PROVE  \E i \in T : \A j \in T : j <= i
<1> DEFINE U == {k \in Nat : n - k \in T}
<1>1. PICK i \in T : TRUE
    OBVIOUS
<1>2. i \in Nat /\ n - i \in Nat /\ n - (n - i) = i
    BY <1>1
<1>3. n - i \in U
    BY <1>1, <1>2
<1>4. PICK k \in U : \A l \in U : k <= l
    BY <1>3, Least
<1>5. k \in Nat /\ n - k \in T
    OBVIOUS
<1>6. ASSUME NEW j \in T PROVE j <= n - k
  <2>1. j \in Nat /\ n - j \in Nat /\ n - (n - j) = j
    OBVIOUS
  <2>2. n - j \in U
    BY <2>1
  <2>3. k <= n - j
    BY <1>4, <2>2
  <2> QED
    BY <1>5, <2>1, <2>3
<1> QED
    BY <1>5, <1>6

(* What is found by key is a child.                                        *)
LEMMA IndexedFacts ==
    ASSUME NEW S, NEW d, d.ch \in Seq(S), NEW k \in Keys(d)
    PROVE  \E i \in DOMAIN d.ch : Indexed(d, k) = d.ch[i]
<1> DEFINE T == {i \in DOMAIN d.ch : d.ch[i].key = k}
           P(i) == d.ch[i].key = k /\ \A j \in DOMAIN d.ch : j > i => d.ch[j].key # k
<1>1. Len(d.ch) \in Nat /\ DOMAIN d.ch = 1 .. Len(d.ch)
    OBVIOUS
<1>2. T # {} /\ T \subseteq 1 .. Len(d.ch)
    BY <1>1 DEF Keys
<1>3. PICK i \in T : \A j \in T : j <= i
    BY <1>1, <1>2, Last
<1>4. i \in DOMAIN d.ch /\ P(i)
  <2>1. ASSUME NEW j \in DOMAIN d.ch, j > i PROVE d.ch[j].key # k
    <3>1. j \in Nat /\ i \in Nat
      BY <1>1
    <3> QED
      BY <1>3, <2>1, <3>1
  <2> QED
    BY <2>1
<1> HIDE DEF P
<1>5. (CHOOSE j \in DOMAIN d.ch : P(j)) \in DOMAIN d.ch
    BY <1>4
<1>6. Indexed(d, k) = d.ch[CHOOSE j \in DOMAIN d.ch : P(j)]
    BY DEF Indexed, P
<1> QED
    BY <1>5, <1>6

(* A field of a schema takes a child of the data.                          *)
LEMMA LookupFacts ==
    ASSUME NEW S, NEW d, d.ch \in Seq(S), NEW s, NEW o,
           NEW f \in LookupDataField(d, s, o)
    PROVE  \E i \in DOMAIN d.ch : f = d.ch[i]
<1>1. \E k \in Keys(d) : f = Indexed(d, k)
    BY DEF LookupDataField
<1> QED
    BY <1>1, IndexedFacts

(* One step of a projection.                                               *)
ProjectBody(F, d, v, o, root) ==
    LET s == Resolved(v, root)
    IN  CASE s.t = "Array" -> ProjectArray(d, s, o, F)
          [] s.t \in Objects -> ProjectObject(d, s, o, root, F)
          [] OTHER -> ProjectScalar(d, s, o)

(* The outcome of a field that takes the child e, whose outcome is r.      *)
Taken(s, e, r) ==
    Using(r, IF r.node = None THEN None ELSE [r.node EXCEPT !.key = s.key], e.key)

(* The object with the outcomes c of its fields.                           *)
Finish(d, s, o, c) ==
    IF o.unknown = "strict" /\ Unmatched(d, c) # <<>> THEN Failed
    ELSE Assemble(s.key, "Map", c, IF o.unknown = "preserve" THEN Unmatched(d, c) ELSE <<>>)

(* It depends on the projections of the children.                          *)
LEMMA ProjectLocal ==
    ASSUME NEW S, NEW d, d.ch \in Seq(S), NEW v \in Views, NEW o, NEW root \in Nodes,
           NEW F, NEW G,
           \A i \in DOMAIN d.ch : \A w \in Views : F[<<d.ch[i], w>>] = G[<<d.ch[i], w>>]
    PROVE  ProjectBody(F, d, v, o, root) = ProjectBody(G, d, v, o, root)
<1>1. PICK s \in Views : s = Resolved(v, root)
    BY NamedFacts
<1>2. ProjectArray(d, s, o, F) = ProjectArray(d, s, o, G)
  <2> DEFINE one(f, e) == IF OfObjects(s) THEN f[<<e, Element(s)>>]
                          ELSE Converted(e.key, s.ann.element, e, o)
  <2>1. Element(s) \in Views
    BY ViewFacts
  <2>2. \A i \in DOMAIN d.ch : one(F, d.ch[i]) = one(G, d.ch[i])
    BY <2>1
  <2>3. ASSUME NEW f
        PROVE  ProjectArray(d, s, o, f) =
                 IF d.t # "Array" THEN {Failed}
                 ELSE {Assemble(s.key, "Array", c, <<>>) :
                         c \in OneOfEach([i \in DOMAIN d.ch |-> one(f, d.ch[i])])}
    BY DEF ProjectArray
  <2> HIDE DEF one
  <2>4. [i \in DOMAIN d.ch |-> one(F, d.ch[i])] = [i \in DOMAIN d.ch |-> one(G, d.ch[i])]
    BY <2>2
  <2> QED
    BY <2>3, <2>4
<1>3. ProjectObject(d, s, o, root, F) = ProjectObject(d, s, o, root, G)
  <2>1. ASSUME NEW w \in Nodes PROVE ProjectField(d, w, o, root, F) = ProjectField(d, w, o, root, G)
    <3>1. FieldSchema(w, root) \in Views
      BY NamedFacts, ViewFacts
    <3>2. \A f \in LookupDataField(d, w, o) :
              F[<<f, FieldSchema(w, root)>>] = G[<<f, FieldSchema(w, root)>>]
      BY <3>1, LookupFacts
    <3>3. PICK found : found = LookupDataField(d, w, o)
      OBVIOUS
    <3> DEFINE taken(f, e) == {Taken(w, e, r) : r \in f[<<e, FieldSchema(w, root)>>]}
    <3>4. ASSUME NEW f
          PROVE  ProjectField(d, w, o, root, f) =
                   IF found = {} THEN {Using(r, r.node, None) : r \in ApplyMissing(w, o)}
                   ELSE UNION {taken(f, e) : e \in found}
      BY <3>3, Zenon DEF ProjectField, Taken
    <3>5. \A e \in found : taken(F, e) = taken(G, e)
      BY <3>2, <3>3, Zenon
    <3> HIDE DEF taken
    <3>6. {taken(F, e) : e \in found} = {taken(G, e) : e \in found}
      BY <3>5
    <3> QED
      BY <3>4, <3>6
  <2>2. s.ch \in Seq(Nodes)
    BY ViewFacts
  <2>3. \A i \in DOMAIN s.ch : s.ch[i] \in Nodes
    BY <2>2
  <2> DEFINE fields(f) == [i \in DOMAIN s.ch |-> ProjectField(d, s.ch[i], o, root, f)]
  <2>4. fields(F) = fields(G)
    BY <2>1, <2>3
  <2>5. ASSUME NEW f
        PROVE  ProjectObject(d, s, o, root, f) = {Finish(d, s, o, c) : c \in OneOfEach(fields(f))}
    BY DEF ProjectObject, Finish
  <2> HIDE DEF fields
  <2> QED
    BY <2>4, <2>5
<1> QED
    BY <1>1, <1>2, <1>3 DEF ProjectBody

(* What projection is below a depth of the data.                           *)
ProjectsBelow(f, n, o, root) ==
    /\ f = [x \in Inputs |-> f[x]]
    /\ \A x \in Inputs : Depth(x[1]) < n => f[x] = ProjectBody(f, x[1], x[2], o, root)

LEMMA InputFacts ==
    ASSUME NEW x \in Inputs
    PROVE  /\ x = <<x[1], x[2]>> /\ x[1] \in DataTrees[Deep + 1] /\ x[2] \in Views
           /\ Deep + 1 \in Nat /\ Depth(x[1]) \in Nat
           /\ \E S : x[1].ch \in Seq(S)
           /\ \A i \in DOMAIN x[1].ch : \A w \in Views :
                  <<x[1].ch[i], w>> \in Inputs /\ Depth(x[1].ch[i]) < Depth(x[1])
<1>1. Deep + 1 \in Nat
    BY SchemaAssumption
<1>2. x = <<x[1], x[2]>> /\ x[1] \in DataTrees[Deep + 1] /\ x[2] \in Views
    BY DEF Inputs
<1>3. /\ Depth(x[1]) \in Nat /\ x[1].ch \in Seq(DataTrees[Depth(x[1]) - 1])
      /\ \A i \in DOMAIN x[1].ch : /\ x[1].ch[i] \in DataTrees[Deep + 1]
                                   /\ Depth(x[1].ch[i]) < Depth(x[1])
    BY <1>1, <1>2, DepthFacts
<1>4. \A i \in DOMAIN x[1].ch : \A w \in Views : <<x[1].ch[i], w>> \in Inputs
    BY <1>3 DEF Inputs
<1> QED
    BY <1>1, <1>2, <1>3, <1>4

(* Projection is what its recursion says.                                  *)
LEMMA ProjectEquation ==
    ASSUME NEW o, NEW root \in Nodes
    PROVE  \A x \in Inputs : Projecting(o, root)[x] = ProjectBody(Projecting(o, root), x[1], x[2], o, root)
<1> DEFINE Step(f) == [x \in Inputs |-> ProjectBody(f, x[1], x[2], o, root)]
<1>1. ASSUME NEW f, NEW g, NEW x \in Inputs,
             \A y \in Inputs : Depth(y[1]) < Depth(x[1]) => f[y] = g[y]
      PROVE  ProjectBody(f, x[1], x[2], o, root) = ProjectBody(g, x[1], x[2], o, root)
  <2>1. ASSUME NEW i \in DOMAIN x[1].ch, NEW w \in Views
        PROVE  f[<<x[1].ch[i], w>>] = g[<<x[1].ch[i], w>>]
    <3>1. PICK y : y = <<x[1].ch[i], w>>
      OBVIOUS
    <3>2. y \in Inputs /\ Depth(y[1]) < Depth(x[1])
      BY <3>1, InputFacts
    <3> QED
      BY <1>1, <3>1, <3>2
  <2> QED
    BY <2>1, InputFacts, ProjectLocal
<1>2. \A x \in Inputs : Depth(x[1]) \in Nat
    BY InputFacts
<1> DEFINE T == {n \in Nat : ~ \E f : ProjectsBelow(f, n, o, root)}
<1>3. ASSUME T # {} PROVE FALSE
  <2>1. PICK n \in T : \A m \in T : n <= m
    BY <1>3, Least
  <2>2. n \in Nat /\ ~ \E f : ProjectsBelow(f, n, o, root)
    OBVIOUS
  <2>3. n # 0
    <3>1. PICK f : f = [x \in Inputs |-> 0]
      OBVIOUS
    <3>2. f = [x \in Inputs |-> f[x]]
      BY <3>1
    <3>3. ProjectsBelow(f, 0, o, root)
      BY <1>2, <3>2 DEF ProjectsBelow
    <3> QED
      BY <2>2, <3>3
  <2>4. n - 1 \in Nat /\ n - 1 \notin T
    BY <2>1, <2>2, <2>3
  <2>5. PICK f : ProjectsBelow(f, n - 1, o, root)
    BY <2>4
  <2>6. PICK g : g = Step(f)
    OBVIOUS
  <2>7. \A x \in Inputs : g[x] = ProjectBody(f, x[1], x[2], o, root)
    BY <2>6
  <2>8. g = [x \in Inputs |-> g[x]]
    BY <2>6
  <2> HIDE DEF T, Step
  <2>9. ASSUME NEW x \in Inputs, Depth(x[1]) < n PROVE g[x] = ProjectBody(g, x[1], x[2], o, root)
    <3>1. ASSUME NEW y \in Inputs, Depth(y[1]) < Depth(x[1]) PROVE f[y] = g[y]
      <4>1. Depth(y[1]) < n - 1
        BY <1>2, <2>2, <2>9, <3>1
      <4> QED
        BY <2>5, <2>7, <4>1 DEF ProjectsBelow
    <3> QED
      BY <1>1, <2>7, <3>1
  <2>10. ProjectsBelow(g, n, o, root)
    BY <2>8, <2>9 DEF ProjectsBelow
  <2> QED
    BY <2>2, <2>10
<1>4. ASSUME NEW f, NEW g, NEW m \in Nat, NEW n \in Nat,
             ProjectsBelow(f, m, o, root), ProjectsBelow(g, n, o, root)
      PROVE  \A x \in Inputs : Depth(x[1]) < m /\ Depth(x[1]) < n => f[x] = g[x]
  <2> DEFINE D == {i \in Nat : \E x \in Inputs : i = Depth(x[1]) /\ i < m /\ i < n /\ f[x] # g[x]}
  <2>1. ASSUME D # {} PROVE FALSE
    <3>1. PICK i \in D : \A j \in D : i <= j
      BY <2>1, Least
    <3>2. PICK x \in Inputs : i = Depth(x[1]) /\ i < m /\ i < n /\ f[x] # g[x]
      OBVIOUS
    <3>3. ASSUME NEW y \in Inputs, Depth(y[1]) < Depth(x[1]) PROVE f[y] = g[y]
      <4>1. PICK j \in Nat : j = Depth(y[1])
        BY <1>2
      <4>2. j < i /\ j \notin D /\ j < m /\ j < n
        BY <3>1, <3>2, <3>3, <4>1
      <4> QED
        BY <4>1, <4>2
    <3>4. ProjectBody(f, x[1], x[2], o, root) = ProjectBody(g, x[1], x[2], o, root)
      BY <1>1, <3>3
    <3> QED
      BY <1>4, <3>2, <3>4 DEF ProjectsBelow
  <2> QED
    BY <1>2, <2>1
<1> DEFINE C(n) == CHOOSE f : ProjectsBelow(f, n, o, root)
           F == [x \in Inputs |-> C(Depth(x[1]) + 1)[x]]
<1>5. \A n \in Nat : ProjectsBelow(C(n), n, o, root)
  <2>1. \A n \in Nat : \E f : ProjectsBelow(f, n, o, root)
    BY <1>3
  <2> QED
    BY <2>1
<1> HIDE DEF C, T, Step
<1>6. ASSUME NEW x \in Inputs PROVE F[x] = ProjectBody(F, x[1], x[2], o, root)
  <2>1. PICK n \in Nat : n = Depth(x[1]) + 1
    BY <1>2
  <2>2. ProjectsBelow(C(n), n, o, root)
    BY <1>5
  <2>3. F[x] = ProjectBody(C(n), x[1], x[2], o, root)
    BY <1>2, <2>1, <2>2 DEF ProjectsBelow
  <2>4. ASSUME NEW y \in Inputs, Depth(y[1]) < Depth(x[1]) PROVE F[y] = C(n)[y]
    <3>1. PICK m \in Nat : m = Depth(y[1]) + 1
      BY <1>2
    <3>2. ProjectsBelow(C(m), m, o, root) /\ Depth(y[1]) < m /\ Depth(y[1]) < n
      BY <1>2, <1>5, <2>1, <2>4, <3>1
    <3>3. C(m)[y] = C(n)[y]
      BY <1>4, <2>2, <3>2
    <3> QED
      BY <3>1, <3>3
  <2> HIDE DEF F
  <2> QED
    BY <1>1, <2>3, <2>4
<1>7. F = [x \in Inputs |-> ProjectBody(F, x[1], x[2], o, root)]
  <2>1. F = [x \in Inputs |-> F[x]]
    OBVIOUS
  <2> HIDE DEF F
  <2> QED
    BY <1>6, <2>1, Zenon
<1> HIDE DEF F
<1>8. Projecting(o, root) = CHOOSE f : f = [x \in Inputs |-> ProjectBody(f, x[1], x[2], o, root)]
    BY DEF Projecting, ProjectBody
<1>9. PICK p : p = Projecting(o, root)
    OBVIOUS
<1>10. p = [x \in Inputs |-> ProjectBody(p, x[1], x[2], o, root)]
    BY <1>7, <1>8, <1>9
<1>11. \A x \in Inputs : p[x] = ProjectBody(p, x[1], x[2], o, root)
    BY <1>10, Zenon
<1> QED
    BY <1>9, <1>11

-----------------------------------------------------------------------------
(* What fits.                                                              *)

(* One step of the check whether a result fits.                            *)
FitElement(F, s, e) == IF OfObjects(s) THEN F[<<e, Element(s)>>]
                       ELSE e.t = s.ann.element /\ HasType(e.val, e.t)
FitField(F, root, e, w) == \/ e.t = "Null" /\ ~Required(w)
                           \/ Defaulted(e, w)
                           \/ F[<<e, FieldSchema(w, root)>>]
FitPlace(F, root, x, s, place) == /\ Placing(x, s, place)
                                  /\ \A i \in DOMAIN x.ch : FitField(F, root, x.ch[i], s.ch[place[i]])
FitBody(F, root, x, v) ==
    LET s == Resolved(v, root)
    IN  CASE s.t = "Array" -> x.t = "Array" /\ \A i \in DOMAIN x.ch : FitElement(F, s, x.ch[i])
          [] s.t \in Objects -> /\ x.t = "Map"
                                /\ \E place \in [DOMAIN x.ch -> DOMAIN s.ch] : FitPlace(F, root, x, s, place)
          [] OTHER -> \/ x.t = "Null" /\ ~Required(s)
                      \/ x.t = s.t /\ HasType(x.val, s.t)

LEMMA ResultFacts ==
    ASSUME NEW p \in Results
    PROVE  /\ p = <<p[1], p[2]>> /\ p[1] \in DataTrees[Deep + 2] /\ p[2] \in Views
           /\ Depth(p[1]) \in Nat
           /\ \A i \in DOMAIN p[1].ch : \A w \in Views :
                  <<p[1].ch[i], w>> \in Results /\ Depth(p[1].ch[i]) < Depth(p[1])
<1>1. Deep + 2 \in Nat
    BY SchemaAssumption
<1>2. p = <<p[1], p[2]>> /\ p[1] \in DataTrees[Deep + 2] /\ p[2] \in Views
    BY DEF Results
<1>3. /\ Depth(p[1]) \in Nat
      /\ \A i \in DOMAIN p[1].ch : /\ p[1].ch[i] \in DataTrees[Deep + 2]
                                   /\ Depth(p[1].ch[i]) < Depth(p[1])
    BY <1>1, <1>2, DepthFacts
<1>4. \A i \in DOMAIN p[1].ch : \A w \in Views : <<p[1].ch[i], w>> \in Results
    BY <1>3 DEF Results
<1> QED
    BY <1>2, <1>3, <1>4

(* It depends on whether the children fit.                                 *)
LEMMA FitLocal ==
    ASSUME NEW x, NEW v \in Views, NEW root \in Nodes, NEW F, NEW G,
           \A i \in DOMAIN x.ch : \A w \in Views : F[<<x.ch[i], w>>] = G[<<x.ch[i], w>>]
    PROVE  FitBody(F, root, x, v) = FitBody(G, root, x, v)
<1>1. PICK s \in Views : s = Resolved(v, root)
    BY NamedFacts
<1>2. \A i \in DOMAIN x.ch : FitElement(F, s, x.ch[i]) = FitElement(G, s, x.ch[i])
    BY ViewFacts DEF FitElement
<1>3. ASSUME NEW i \in DOMAIN x.ch, NEW w \in Nodes
      PROVE  FitField(F, root, x.ch[i], w) = FitField(G, root, x.ch[i], w)
  <2>1. FieldSchema(w, root) \in Views
    BY NamedFacts, ViewFacts
  <2> QED
    BY <2>1 DEF FitField
<1>4. ASSUME NEW place \in [DOMAIN x.ch -> DOMAIN s.ch]
      PROVE  FitPlace(F, root, x, s, place) <=> FitPlace(G, root, x, s, place)
  <2>1. s.ch \in Seq(Nodes)
    BY ViewFacts
  <2>2. \A i \in DOMAIN x.ch : s.ch[place[i]] \in Nodes
    BY <2>1
  <2> QED
    BY <1>3, <2>2 DEF FitPlace
<1> QED
    BY <1>1, <1>2, <1>4 DEF FitBody

(* Fitting is what its recursion says.                                     *)
LEMMA FitEquation ==
    ASSUME NEW root \in Nodes
    PROVE  \A p \in Results : Fitting(root)[p] = FitBody(Fitting(root), root, p[1], p[2])
<1> DEFINE h == [p \in Results |-> Depth(p[1])]
           B == [f \in [Results -> BOOLEAN] |-> [p \in Results |-> FitBody(f, root, p[1], p[2])]]
<1>1. h \in [Results -> Nat]
    BY ResultFacts
<1>2. ASSUME NEW f \in [Results -> BOOLEAN], NEW p \in Results
      PROVE  FitBody(f, root, p[1], p[2]) \in BOOLEAN
  <2>1. PICK s \in Views : s = Resolved(p[2], root)
    BY NamedFacts, ResultFacts
  <2>2. \A i \in DOMAIN p[1].ch : FitElement(f, s, p[1].ch[i]) \in BOOLEAN
    BY ViewFacts, ResultFacts DEF FitElement
  <2> QED
    BY <2>1, <2>2 DEF FitBody
<1>3. B \in [[Results -> BOOLEAN] -> [Results -> BOOLEAN]]
    BY <1>2, Zenon
<1>4. ASSUME NEW f \in [Results -> BOOLEAN], NEW g \in [Results -> BOOLEAN], NEW p \in Results,
             \A q \in Results : h[q] < h[p] => f[q] = g[q]
      PROVE  B[f][p] = B[g][p]
  <2>1. ASSUME NEW i \in DOMAIN p[1].ch, NEW w \in Views
        PROVE  f[<<p[1].ch[i], w>>] = g[<<p[1].ch[i], w>>]
    <3>1. PICK q : q = <<p[1].ch[i], w>>
      OBVIOUS
    <3>2. q \in Results /\ Depth(q[1]) < Depth(p[1])
      BY <3>1, ResultFacts
    <3> QED
      BY <1>4, <3>1, <3>2
  <2>2. FitBody(f, root, p[1], p[2]) = FitBody(g, root, p[1], p[2])
    BY <2>1, ResultFacts, FitLocal
  <2> QED
    BY <2>2
<1>5. Recursion(Results, BOOLEAN, h, B)
    BY <1>1, <1>3, <1>4 DEF Recursion
<1>6. PICK F : Solution(Results, BOOLEAN, B, F)
  <2> HIDE DEF B, h
  <2> QED
    BY <1>5, FixedPoint, Zenon
<1>7. F = [p \in Results |-> FitBody(F, root, p[1], p[2])]
    BY <1>6 DEF Solution
<1>8. Fitting(root) = CHOOSE f : f = [p \in Results |-> FitBody(f, root, p[1], p[2])]
    BY DEF Fitting, FitBody, FitElement, FitPlace, FitField
<1>9. PICK f : f = Fitting(root)
    OBVIOUS
<1>10. f = [p \in Results |-> FitBody(f, root, p[1], p[2])]
    BY <1>7, <1>8, <1>9
<1>11. \A p \in Results : f[p] = FitBody(f, root, p[1], p[2])
    BY <1>10, Zenon
<1> QED
    BY <1>9, <1>11

(* The name of a result does not matter.                                   *)
LEMMA RenameFits ==
    ASSUME NEW root \in Nodes, NEW v \in Views, NEW k \in Names,
           NEW x \in DataTrees[Deep + 2], Fitting(root)[<<x, v>>]
    PROVE  /\ [x EXCEPT !.key = k] \in DataTrees[Deep + 2]
           /\ Fitting(root)[<<[x EXCEPT !.key = k], v>>]
           /\ \A h \in Nat : x \in DataTrees[h] => [x EXCEPT !.key = k] \in DataTrees[h]
<1>1. Deep + 2 \in Nat
    BY SchemaAssumption
<1>2. PICK y : y = [x EXCEPT !.key = k]
    OBVIOUS
<1>3. /\ x = Data(x.key, x.t, x.val, x.ch)
      /\ x.key \in Names /\ x.t \in Types \cup {None} /\ x.val \in Values
      /\ Depth(x) \in Nat /\ Depth(x) >= 1 /\ Depth(x) <= Deep + 2
      /\ x.ch \in Seq(DataTrees[Depth(x) - 1])
    BY <1>1, DepthFacts
<1>4. y = Data(k, x.t, x.val, x.ch)
    BY <1>2, <1>3 DEF Data
<1>5. y.t = x.t /\ y.val = x.val /\ y.ch = x.ch
    BY <1>4 DEF Data
<1>6. y \in DataTrees[Depth(x)]
    BY <1>3, <1>4, TreeMade
<1>7. y \in DataTrees[Deep + 2]
    BY <1>1, <1>3, <1>6, TreesGrow
<1>13. ASSUME NEW h \in Nat, x \in DataTrees[h] PROVE y \in DataTrees[h]
  <2>1. Depth(x) <= h
    BY <1>13, DepthFacts
  <2> QED
    BY <1>3, <1>6, <2>1, TreesGrow
<1>8. PICK F : F = Fitting(root)
    OBVIOUS
<1>9. FitBody(F, root, y, v) = FitBody(F, root, x, v)
  <2>1. PICK s : s = Resolved(v, root)
    OBVIOUS
  <2>2. \A place : FitPlace(F, root, y, s, place) = FitPlace(F, root, x, s, place)
    BY <1>5, Zenon DEF FitPlace, Placing
  <2>3. (\E place \in [DOMAIN y.ch -> DOMAIN s.ch] : FitPlace(F, root, y, s, place))
          = (\E place \in [DOMAIN x.ch -> DOMAIN s.ch] : FitPlace(F, root, x, s, place))
    BY <1>5, <2>2
  <2> QED
    BY <1>5, <2>1, <2>3, Zenon DEF FitBody
<1>10. <<x, v>> \in Results /\ <<y, v>> \in Results
    BY <1>7 DEF Results
<1>11. F[<<x, v>>] = FitBody(F, root, x, v) /\ F[<<y, v>>] = FitBody(F, root, y, v)
    BY <1>8, <1>10, FitEquation
<1>12. F[<<y, v>>]
    BY <1>8, <1>9, <1>11
<1> QED
    BY <1>2, <1>7, <1>8, <1>12, <1>13

-----------------------------------------------------------------------------
(* Parts of projections.                                                   *)

(* A tree without members.                                                 *)
LEMMA LeafMade ==
    ASSUME NEW k \in Names, NEW t \in Types \cup {None}, NEW v \in Values
    PROVE  Data(k, t, v, <<>>) \in DataTrees[1]
<1>1. DataTrees[0 + 1] = Level(DataTrees[0]) /\ 0 + 1 = 1
    BY TreesFacts
<1>2. <<>> \in Seq(DataTrees[0])
    OBVIOUS
<1>3. Data(k, t, v, <<>>) \in Level(DataTrees[0])
    BY <1>2 DEF Level, Data
<1> QED
    BY <1>1, <1>3

(* A value that is converted to a type has it.                             *)
LEMMA ConvertedFacts ==
    ASSUME NEW k \in Names, NEW t \in Types \cup {None}, NEW d, d.val \in Values, NEW o,
           NEW r \in Converted(k, t, d, o), r.ok
    PROVE  /\ r.node \in DataTrees[1] /\ r.node.key = k /\ r.node.t = t
           /\ HasType(r.node.val, t) /\ r.node.ch = <<>>
<1>1. PICK c \in CoerceValue(d.val, d.t, t, o.lossiness, o.bytes) :
          r = IF c.ok THEN Done(Data(k, t, c.val, <<>>), MergeKind(c.kind, c.note)) ELSE Failed
    BY DEF Converted
<1>2. c.ok /\ r = Done(Data(k, t, c.val, <<>>), MergeKind(c.kind, c.note))
    BY <1>1 DEF Failed
<1>3. Typed(c, t)
    BY CoerceTyped
<1>4. c.val \in Values /\ (t \in ScalarTypes \ {"Boolean"} => c.val.go \in GoOf(t))
    BY <1>2, <1>3 DEF Typed
<1>5. r.node = Data(k, t, c.val, <<>>)
    BY <1>2 DEF Done
<1>6. r.node \in DataTrees[1]
    BY <1>4, <1>5, LeafMade
<1>7. r.node.key = k /\ r.node.t = t /\ r.node.val = c.val /\ r.node.ch = <<>>
    BY <1>5 DEF Data
<1> QED
    BY <1>4, <1>6, <1>7 DEF HasType

(* A null.                                                                 *)
LEMMA NullFacts ==
    ASSUME NEW k \in Names
    PROVE  NullData(k) \in DataTrees[1] /\ NullData(k).t = "Null" /\ NullData(k).key = k
<1>1. Value("nil", 0) \in Values
    BY ValuesFacts, OtherRanges DEF GoTypes
<1>2. "Null" \in Types
    BY DEF Types, ScalarTypes
<1> QED
    BY <1>1, <1>2, LeafMade DEF NullData, Data

(* A scalar.                                                               *)
LEMMA ScalarStep ==
    ASSUME NEW d, d.val \in Values, NEW s \in Views, NEW o,
           NEW r \in ProjectScalar(d, s, o), r.ok
    PROVE  /\ r.node \in DataTrees[1]
           /\ \/ r.node.t = "Null" /\ ~Required(s)
              \/ r.node.t = s.t /\ HasType(r.node.val, s.t)
<1>1. s.key \in Names /\ s.t \in Types
    BY ViewFacts
<1>2. CASE d.t # "Null"
  <2>1. r \in Converted(s.key, s.t, d, o)
    BY <1>2 DEF ProjectScalar
  <2> QED
    BY <1>1, <2>1, ConvertedFacts
<1>3. CASE d.t = "Null"
  <2>1. ~Required(s) /\ r = Done(NullData(s.key), Lossless)
    BY <1>3 DEF ProjectScalar, Failed
  <2>2. r.node = NullData(s.key)
    BY <2>1 DEF Done
  <2> QED
    BY <1>1, <2>1, <2>2, NullFacts
<1> QED
    BY <1>2, <1>3

(* The value of a missing field.                                           *)
LEMMA MissingFacts ==
    ASSUME NEW s \in Views, NEW o, NEW r \in ApplyMissing(s, o), r.ok
    PROVE  \/ r.node = None /\ ~Required(s)
           \/ /\ r.node \in DataTrees[1] /\ r.node.key = s.key
              /\ \/ r.node.t = "Null" /\ ~Required(s)
                 \/ Defaulted(r.node, s)
<1>1. s.key \in Names /\ s.t \in Types /\ (s.ann.default # None => s.ann.default \in Values)
    BY ViewFacts
<1>2. CASE s.ann.default # None
  <2>1. PICK c \in CoerceValue(s.ann.default, "String", s.t, "safe", o.bytes) :
            r = Done(Data(s.key, s.t, IF c.ok THEN c.val ELSE s.ann.default, <<>>), c.note)
    BY <1>2 DEF ApplyMissing
  <2>2. PICK v : v = IF c.ok THEN c.val ELSE s.ann.default
    OBVIOUS
  <2>3. Typed(c, s.t)
    BY <1>1, <1>2, CoerceTyped
  <2>4. v \in Values /\ (HasType(v, s.t) \/ v = s.ann.default)
    BY <1>1, <1>2, <2>2, <2>3 DEF Typed, HasType
  <2>5. r.node = Data(s.key, s.t, v, <<>>)
    BY <2>1, <2>2 DEF Done
  <2>6. r.node \in DataTrees[1]
    BY <1>1, <2>4, <2>5, LeafMade
  <2>7. r.node.key = s.key /\ r.node.t = s.t /\ r.node.val = v /\ r.node.ch = <<>>
    BY <2>5 DEF Data
  <2> QED
    BY <1>2, <2>4, <2>6, <2>7 DEF Defaulted
<1>3. CASE s.ann.default = None
  <2>1. ~Required(s) /\ r = Done(IF o.emitNull THEN NullData(s.key) ELSE None, Lossless)
    BY <1>3 DEF ApplyMissing, Failed
  <2>2. r.node = None \/ r.node = NullData(s.key)
    BY <2>1 DEF Done
  <2> QED
    BY <1>1, <2>1, <2>2, NullFacts
<1> QED
    BY <1>2, <1>3

-----------------------------------------------------------------------------
(* The members of a container.                                             *)

MemberBody(f, c, n) == IF n = 0 THEN <<>>
                       ELSE IF c[n].node = None THEN f[n - 1]
                       ELSE Append(f[n - 1], c[n].node)

(* m has the nodes of the first n outcomes, in order; p says which.        *)
Filtered(m, p, c, n) ==
    /\ \A i, j \in DOMAIN m : i < j => p[i] < p[j]
    /\ \A i \in DOMAIN m : m[i] = c[p[i]].node /\ m[i] # None
    /\ \A j \in 1 .. n : c[j].node # None => \E i \in DOMAIN m : p[i] = j

LEMMA MembersFacts ==
    ASSUME NEW S, NEW c \in Seq(S), NEW T, \A i \in DOMAIN c : c[i].node # None => c[i].node \in T
    PROVE  /\ Members(c) \in Seq(T)
           /\ \E p \in [DOMAIN Members(c) -> DOMAIN c] : Filtered(Members(c), p, c, Len(c))
<1> DEFINE X == 0 .. Len(c)
           h == [n \in X |-> n]
           B == [f \in [X -> Seq(T)] |-> [n \in X |-> MemberBody(f, c, n)]]
<1>1. Len(c) \in Nat /\ DOMAIN c = 1 .. Len(c)
    OBVIOUS
<1>2. h \in [X -> Nat]
    OBVIOUS
<1>3. ASSUME NEW f \in [X -> Seq(T)], NEW n \in X PROVE MemberBody(f, c, n) \in Seq(T)
  <2>1. CASE n = 0
    BY <2>1 DEF MemberBody
  <2>2. CASE n # 0
    <3>1. n - 1 \in X /\ n \in DOMAIN c
      BY <1>1, <2>2
    <3>2. f[n - 1] \in Seq(T)
      BY <3>1
    <3> QED
      BY <2>2, <3>1, <3>2 DEF MemberBody
  <2> QED
    BY <2>1, <2>2
<1>4. B \in [[X -> Seq(T)] -> [X -> Seq(T)]]
  <2> HIDE DEF X
  <2> QED
    BY <1>3, Zenon
<1>5. ASSUME NEW f \in [X -> Seq(T)], NEW g \in [X -> Seq(T)], NEW n \in X,
             \A m \in X : h[m] < h[n] => f[m] = g[m]
      PROVE  B[f][n] = B[g][n]
  <2>1. n # 0 => n - 1 \in X /\ h[n - 1] < h[n]
    BY <1>1
  <2>2. n # 0 => f[n - 1] = g[n - 1]
    BY <1>5, <2>1
  <2>3. MemberBody(f, c, n) = MemberBody(g, c, n)
    BY <2>2 DEF MemberBody
  <2> QED
    BY <2>3
<1>6. Recursion(X, Seq(T), h, B)
    BY <1>2, <1>4, <1>5 DEF Recursion
<1>7. PICK F : Solution(X, Seq(T), B, F)
  <2>1. <<>> \in Seq(T)
    OBVIOUS
  <2> HIDE DEF B, h, X
  <2> QED
    BY <1>6, <2>1, FixedPoint, Zenon
<1>8. F = [n \in X |-> MemberBody(F, c, n)]
    BY <1>7 DEF Solution
<1>9. PICK f : f = CHOOSE g : g = [n \in X |-> MemberBody(g, c, n)]
    OBVIOUS
<1>10. f = [n \in X |-> MemberBody(f, c, n)]
    BY <1>8, <1>9
<1>11. Members(c) = f[Len(c)]
    BY <1>9 DEF Members, MemberBody
<1>12. \A n \in X : f[n] = MemberBody(f, c, n)
    BY <1>10, Zenon
<1> DEFINE Bad == {n \in Nat : n <= Len(c) /\ ~(/\ f[n] \in Seq(T)
                                               /\ \E p \in [DOMAIN f[n] -> 1 .. n] : Filtered(f[n], p, c, n))}
<1> HIDE DEF B, h
<1>13. ASSUME Bad # {} PROVE FALSE
  <2>1. PICK n \in Bad : \A m \in Bad : n <= m
    BY <1>13, Least
  <2>2. n \in Nat /\ n <= Len(c) /\ n \in X
    BY <1>1
  <2>3. ~(/\ f[n] \in Seq(T)
          /\ \E p \in [DOMAIN f[n] -> 1 .. n] : Filtered(f[n], p, c, n))
    OBVIOUS
  <2>4. CASE n = 0
    <3>1. f[n] = <<>>
      BY <1>12, <2>2, <2>4 DEF MemberBody
    <3>2. PICK p : p = [i \in {} |-> 1]
      OBVIOUS
    <3>3. p \in [DOMAIN f[n] -> 1 .. n] /\ Filtered(f[n], p, c, n)
      BY <2>4, <3>1, <3>2 DEF Filtered
    <3>4. f[n] \in Seq(T)
      BY <3>1
    <3> QED
      BY <2>3, <3>3, <3>4
  <2>5. CASE n # 0
    <3>1. n - 1 \in Nat /\ n - 1 <= Len(c) /\ n - 1 < n
      BY <2>2, <2>5
    <3>2. n - 1 \notin Bad
      BY <2>1, <2>2, <3>1
    <3>3. f[n - 1] \in Seq(T)
      BY <3>1, <3>2
    <3>4. PICK p \in [DOMAIN f[n - 1] -> 1 .. n - 1] : Filtered(f[n - 1], p, c, n - 1)
      BY <3>1, <3>2
    <3>5. PICK m \in Seq(T) : m = f[n - 1]
      BY <3>3
    <3> HIDE DEF Bad
    <3>6. p \in [DOMAIN m -> 1 .. n - 1] /\ Filtered(m, p, c, n - 1) /\ DOMAIN m = 1 .. Len(m) /\ Len(m) \in Nat
      BY <3>4, <3>5
    <3>7. CASE c[n].node = None
      <4>1. f[n] = m
        BY <1>12, <2>2, <2>5, <3>5, <3>7 DEF MemberBody
      <4>2. p \in [DOMAIN m -> 1 .. n]
        BY <2>2, <3>6
      <4>3. Filtered(m, p, c, n)
        <5>1. ASSUME NEW j \in 1 .. n, c[j].node # None PROVE j \in 1 .. n - 1
          BY <2>2, <3>7, <5>1
        <5> QED
          BY <3>6, <5>1 DEF Filtered
      <4> QED
        BY <2>3, <4>1, <4>2, <4>3
    <3>8. CASE c[n].node # None
      <4>1. f[n] = Append(m, c[n].node)
        BY <1>12, <2>2, <2>5, <3>5, <3>8 DEF MemberBody
      <4>2. c[n].node \in T
        BY <1>1, <2>2, <2>5, <3>8
      <4>13. PICK x \in T : x = c[n].node
        BY <4>2
      <4>14. Append(m, x) \in Seq(T)
        OBVIOUS
      <4>3. PICK a \in Seq(T) : a = Append(m, c[n].node)
        BY <4>13, <4>14
      <4>4. /\ Len(a) = Len(m) + 1 /\ DOMAIN a = 1 .. Len(m) + 1
            /\ a[Len(m) + 1] = c[n].node
            /\ \A i \in DOMAIN m : a[i] = m[i] /\ i \in DOMAIN a
        BY <3>6, <4>2, <4>3
      <4>5. PICK q : q = [i \in DOMAIN a |-> IF i = Len(m) + 1 THEN n ELSE p[i]]
        OBVIOUS
      <4>6. q[Len(m) + 1] = n /\ \A i \in DOMAIN m : q[i] = p[i] /\ p[i] \in 1 .. n - 1
        BY <3>6, <4>4, <4>5
      <4>7. \A i \in DOMAIN a : i \in DOMAIN m \/ i = Len(m) + 1
        BY <3>6, <4>4
      <4>8. q \in [DOMAIN a -> 1 .. n]
        <5>1. \A i \in DOMAIN a : q[i] \in 1 .. n
          BY <2>2, <2>5, <4>6, <4>7
        <5> QED
          BY <4>5, <5>1
      <4>9. \A i, j \in DOMAIN a : i < j => q[i] < q[j]
        <5> TAKE i \in DOMAIN a, j \in DOMAIN a
        <5> HAVE i < j
        <5>1. i \in DOMAIN m
          BY <3>6, <4>4
        <5>2. CASE j \in DOMAIN m
          BY <3>6, <4>6, <5>1, <5>2 DEF Filtered
        <5>3. CASE j = Len(m) + 1
          BY <2>2, <4>6, <5>1, <5>3
        <5> QED
          BY <4>7, <5>2, <5>3
      <4>10. \A i \in DOMAIN a : a[i] = c[q[i]].node /\ a[i] # None
        BY <3>6, <3>8, <4>4, <4>6, <4>7 DEF Filtered
      <4>11. ASSUME NEW j \in 1 .. n, c[j].node # None PROVE \E i \in DOMAIN a : q[i] = j
        <5>1. CASE j = n
          BY <3>6, <4>4, <4>6, <5>1
        <5>2. CASE j # n
          <6>1. j \in 1 .. n - 1
            BY <2>2, <5>2
          <6>2. PICK i \in DOMAIN m : p[i] = j
            BY <3>6, <4>11, <6>1 DEF Filtered
          <6> QED
            BY <4>4, <4>6, <6>2
        <5> QED
          BY <5>1, <5>2
      <4>12. Filtered(a, q, c, n)
        BY <4>9, <4>10, <4>11 DEF Filtered
      <4> QED
        BY <2>3, <4>1, <4>3, <4>8, <4>12
    <3> QED
      BY <3>7, <3>8
  <2> QED
    BY <2>4, <2>5
<1>14. /\ f[Len(c)] \in Seq(T)
       /\ \E p \in [DOMAIN f[Len(c)] -> 1 .. Len(c)] : Filtered(f[Len(c)], p, c, Len(c))
    BY <1>1, <1>13
<1> QED
    BY <1>1, <1>11, <1>14

-----------------------------------------------------------------------------
(* Projections fit.                                                        *)

(* What is to be shown of the projections of d.                            *)
GoodAt(o, root, d) ==
    \A v \in Views : \A r \in Projecting(o, root)[<<d, v>>] :
        r.ok => r.node \in DataTrees[Depth(d) + 1] /\ Fitting(root)[<<r.node, v>>]

(* One outcome of each.                                                    *)
LEMMA EachFacts ==
    ASSUME NEW n \in Nat, NEW f, DOMAIN f = 1 .. n, NEW c \in OneOfEach(f)
    PROVE  /\ DOMAIN c = 1 .. n /\ \A i \in 1 .. n : c[i] \in f[i]
           /\ \E S : c \in Seq(S) /\ Len(c) = n
<1>1. c \in [1 .. n -> UNION {f[i] : i \in DOMAIN f}] /\ \A i \in 1 .. n : c[i] \in f[i]
    BY DEF OneOfEach
<1>2. PICK S : S = UNION {f[i] : i \in DOMAIN f}
    OBVIOUS
<1>3. c \in Seq(S) /\ Len(c) = n
    BY <1>1, <1>2
<1> QED
    BY <1>1, <1>3

(* A container that is no error.                                           *)
LEMMA AssembleFacts ==
    ASSUME NEW key, NEW t, NEW S, NEW c \in Seq(S), NEW T, \A i \in DOMAIN c : c[i].node # None => c[i].node \in T,
           NEW r, r = Assemble(key, t, c, <<>>), r.ok
    PROVE  r.node = Data(key, t, Value("nil", 0), Members(c))
<1>1. Members(c) \in Seq(T)
    BY MembersFacts
<1>2. Members(c) \o <<>> = Members(c)
    BY <1>1
<1> QED
    BY <1>2 DEF Assemble, Done, Failed

LEMMA ContainerMade ==
    ASSUME NEW D \in Nat, NEW key \in Names, NEW t \in Types, NEW m \in Seq(DataTrees[D])
    PROVE  LET x == Data(key, t, Value("nil", 0), m)
           IN  x \in DataTrees[D + 1] /\ x.key = key /\ x.t = t /\ x.ch = m
<1>1. Value("nil", 0) \in Values
    BY ValuesFacts, OtherRanges DEF GoTypes
<1>2. DataTrees[D + 1] = Level(DataTrees[D])
    BY TreesFacts
<1> QED
    BY <1>1, <1>2 DEF Level, Data

(* The depth of what is projected, and of its children's projections.      *)
LEMMA LowerFacts ==
    ASSUME NEW o, NEW root \in Nodes, NEW d \in DataTrees[Deep + 1],
           NEW i \in DOMAIN d.ch, GoodAt(o, root, d.ch[i]),
           NEW v \in Views, NEW r \in Projecting(o, root)[<<d.ch[i], v>>], r.ok
    PROVE  /\ r.node \in DataTrees[Depth(d)] /\ r.node \in DataTrees[Deep + 2] /\ r.node # None
           /\ Fitting(root)[<<r.node, v>>]
<1>1. Deep + 1 \in Nat /\ Deep + 2 \in Nat /\ Deep \in Nat /\ None \notin DataTrees[Deep + 2]
    BY SchemaAssumption
<1>2. /\ Depth(d) \in Nat /\ Depth(d) <= Deep + 1
      /\ Depth(d.ch[i]) \in Nat /\ Depth(d.ch[i]) < Depth(d)
    BY <1>1, DepthFacts
<1>3. r.node \in DataTrees[Depth(d.ch[i]) + 1] /\ Fitting(root)[<<r.node, v>>]
    BY DEF GoodAt
<1>4. PICK k \in Nat : k = Depth(d.ch[i]) + 1
    BY <1>2
<1>5. k <= Depth(d) /\ Depth(d) <= Deep + 2 /\ r.node \in DataTrees[k]
    BY <1>1, <1>2, <1>3, <1>4
<1>6. DataTrees[k] \subseteq DataTrees[Depth(d)] /\ DataTrees[Depth(d)] \subseteq DataTrees[Deep + 2]
    BY <1>1, <1>2, <1>5, TreesGrow
<1> QED
    BY <1>1, <1>3, <1>5, <1>6

(* An element of an array of values.                                       *)
LEMMA ElementStep ==
    ASSUME NEW e \in DataTrees[Deep + 1], NEW s \in Views, NEW o,
           NEW r \in Converted(e.key, s.ann.element, e, o), r.ok
    PROVE  r.node \in DataTrees[1] /\ r.node.t = s.ann.element /\ HasType(r.node.val, s.ann.element)
<1>1. Deep + 1 \in Nat
    BY SchemaAssumption
<1>2. e.key \in Names /\ e.val \in Values
    BY <1>1, DepthFacts
<1>3. s.ann.element \in Types \cup {None}
    BY ViewFacts
<1>4. PICK k \in Names, t \in Types \cup {None} : k = e.key /\ t = s.ann.element
    BY <1>2, <1>3
<1>5. r \in Converted(k, t, e, o) /\ r.ok /\ e.val \in Values
    BY <1>2, <1>4
<1>6. r.node \in DataTrees[1] /\ r.node.t = t /\ HasType(r.node.val, t)
    BY <1>5, ConvertedFacts, SMTT(30)
<1> QED
    BY <1>4, <1>6

(* An array.                                                               *)
LEMMA ArrayStep ==
    ASSUME NEW o, NEW root \in Nodes, NEW d \in DataTrees[Deep + 1],
           \A i \in DOMAIN d.ch : GoodAt(o, root, d.ch[i]),
           NEW s \in Views, NEW r \in ProjectArray(d, s, o, Projecting(o, root)), r.ok
    PROVE  /\ r.node \in DataTrees[Depth(d) + 1] /\ r.node.t = "Array"
           /\ \A i \in DOMAIN r.node.ch : FitElement(Fitting(root), s, r.node.ch[i])
<1> DEFINE one(e) == IF OfObjects(s) THEN Projecting(o, root)[<<e, Element(s)>>]
                     ELSE Converted(e.key, s.ann.element, e, o)
           f == [i \in DOMAIN d.ch |-> one(d.ch[i])]
           D == Depth(d)
           T == {x \in DataTrees[D] : FitElement(Fitting(root), s, x)}
<1>1. Deep + 1 \in Nat
    BY SchemaAssumption
<1>2. /\ D \in Nat /\ D >= 1 /\ d.ch \in Seq(DataTrees[D - 1])
      /\ \A i \in DOMAIN d.ch : d.ch[i] \in DataTrees[Deep + 1]
    BY <1>1, DepthFacts
<1>3. /\ s.key \in Names /\ s.ann.element \in Types \cup {None} /\ Element(s) \in Views
      /\ "Array" \in Types
    BY ViewFacts DEF Types
<1>16. r \in IF d.t # "Array" THEN {Failed}
             ELSE {Assemble(s.key, "Array", c, <<>>) : c \in OneOfEach(f)}
    BY Zenon DEF ProjectArray
<1>4. PICK c \in OneOfEach(f) : r = Assemble(s.key, "Array", c, <<>>)
  <2> HIDE DEF f
  <2> QED
    BY <1>16 DEF Failed
<1>5. PICK n \in Nat : n = Len(d.ch) /\ DOMAIN d.ch = 1 .. n
    BY <1>2
<1>6. DOMAIN f = 1 .. n /\ \A i \in 1 .. n : f[i] = one(d.ch[i])
    BY <1>5
<1> HIDE DEF f
<1>17. DOMAIN c = 1 .. n /\ \A i \in 1 .. n : c[i] \in f[i]
    BY <1>4, <1>6, EachFacts
<1>18. PICK S : c \in Seq(S) /\ Len(c) = n
    BY <1>4, <1>6, EachFacts
<1>7. c \in Seq(S) /\ DOMAIN c = 1 .. n /\ \A i \in 1 .. n : c[i] \in one(d.ch[i])
    BY <1>6, <1>17, <1>18
<1>8. \A i \in 1 .. n : c[i].ok
    BY <1>4, <1>7 DEF Assemble, Failed
<1>9. ASSUME NEW i \in 1 .. n PROVE c[i].node \in T
  <2>1. c[i].ok /\ d.ch[i] \in DataTrees[Deep + 1] /\ i \in DOMAIN d.ch
    BY <1>2, <1>5, <1>8
  <2>2. CASE OfObjects(s)
    <3>1. c[i] \in Projecting(o, root)[<<d.ch[i], Element(s)>>]
      BY <1>7, <2>2
    <3>2. c[i].node \in DataTrees[D] /\ Fitting(root)[<<c[i].node, Element(s)>>]
      BY <1>3, <2>1, <3>1, LowerFacts
    <3> QED
      BY <2>2, <3>2 DEF FitElement
  <2>3. CASE ~OfObjects(s)
    <3>1. c[i] \in Converted(d.ch[i].key, s.ann.element, d.ch[i], o)
      BY <1>7, <2>3
    <3>2. /\ c[i].node \in DataTrees[1] /\ c[i].node.t = s.ann.element
          /\ HasType(c[i].node.val, s.ann.element)
      BY <2>1, <3>1, ElementStep
    <3>4. DataTrees[1] \subseteq DataTrees[D]
      BY <1>2, TreesGrow
    <3>5. FitElement(Fitting(root), s, c[i].node)
      BY <2>3, <3>2 DEF FitElement
    <3> QED
      BY <3>2, <3>4, <3>5
  <2> QED
    BY <2>2, <2>3
<1> HIDE DEF T, one
<1>10. \A i \in DOMAIN c : c[i].node # None => c[i].node \in T
    BY <1>7, <1>9
<1>11. PICK m : m = Members(c)
    OBVIOUS
<1>12. m \in Seq(T)
    BY <1>7, <1>10, <1>11, MembersFacts
<1>13. m \in Seq(DataTrees[D]) /\ \A i \in DOMAIN m : FitElement(Fitting(root), s, m[i])
    BY <1>12 DEF T
<1>14. r.node = Data(s.key, "Array", Value("nil", 0), m)
    BY <1>4, <1>7, <1>10, <1>11, AssembleFacts
<1>15. r.node \in DataTrees[D + 1] /\ r.node.t = "Array" /\ r.node.ch = m
    BY <1>2, <1>3, <1>13, <1>14, ContainerMade
<1> QED
    BY <1>13, <1>15

(* A field of an object.                                                   *)
LEMMA FieldStep ==
    ASSUME NEW o, NEW root \in Nodes, NEW d \in DataTrees[Deep + 1],
           \A i \in DOMAIN d.ch : GoodAt(o, root, d.ch[i]),
           NEW s \in Nodes, NEW r \in ProjectField(d, s, o, root, Projecting(o, root)), r.ok
    PROVE  \/ r.node = None /\ ~Required(s)
           \/ /\ r.node \in DataTrees[Depth(d)] /\ r.node.key = s.key /\ r.node # None
              /\ FitField(Fitting(root), root, r.node, s)
<1>1. Deep + 1 \in Nat /\ Deep + 2 \in Nat /\ 1 <= Deep + 2 /\ None \notin DataTrees[Deep + 2]
    BY SchemaAssumption
<1>2. Depth(d) \in Nat /\ Depth(d) >= 1 /\ d.ch \in Seq(DataTrees[Depth(d) - 1])
    BY <1>1, DepthFacts
<1>3. /\ s \in Views /\ s.key \in Names
      /\ FieldSchema(s, root) \in Views
    BY ViewFacts, NamedFacts
<1>4. PICK found : found = LookupDataField(d, s, o)
    OBVIOUS
<1>5. CASE found = {}
  <2>1. PICK q \in ApplyMissing(s, o) : r = Using(q, q.node, None)
    BY <1>4, <1>5 DEF ProjectField
  <2>2. q.ok /\ r.node = q.node
    BY <2>1 DEF Using
  <2>3. \/ r.node = None /\ ~Required(s)
        \/ /\ r.node \in DataTrees[1] /\ r.node.key = s.key
           /\ \/ r.node.t = "Null" /\ ~Required(s)
              \/ Defaulted(r.node, s)
    BY <1>3, <2>2, MissingFacts
  <2>4. DataTrees[1] \subseteq DataTrees[Depth(d)] /\ DataTrees[1] \subseteq DataTrees[Deep + 2]
    BY <1>1, <1>2, TreesGrow
  <2> QED
    BY <1>1, <2>3, <2>4 DEF FitField
<1>6. CASE found # {}
  <2> DEFINE P == Projecting(o, root)
  <2>1. r \in UNION {{Taken(s, e, q) : q \in P[<<e, FieldSchema(s, root)>>]} : e \in found}
    BY <1>4, <1>6, Zenon DEF ProjectField, Taken
  <2>2. PICK e \in found : \E q \in P[<<e, FieldSchema(s, root)>>] : r = Taken(s, e, q)
    BY <2>1
  <2>9. PICK q \in P[<<e, FieldSchema(s, root)>>] : r = Taken(s, e, q)
    BY <2>2
  <2>3. PICK i \in DOMAIN d.ch : e = d.ch[i]
    BY <1>2, <1>4, LookupFacts
  <2>4. q.ok
    BY <2>9 DEF Taken, Using
  <2>5. /\ q.node \in DataTrees[Depth(d)] /\ q.node \in DataTrees[Deep + 2] /\ q.node # None
        /\ Fitting(root)[<<q.node, FieldSchema(s, root)>>]
    BY <1>3, <2>9, <2>3, <2>4, LowerFacts
  <2>6. r.node = [q.node EXCEPT !.key = s.key]
    BY <2>9, <2>5 DEF Taken, Using
  <2>7. /\ r.node \in DataTrees[Deep + 2] /\ r.node \in DataTrees[Depth(d)]
        /\ Fitting(root)[<<r.node, FieldSchema(s, root)>>]
    <3>1. PICK x \in DataTrees[Deep + 2], v \in Views, k \in Names :
              x = q.node /\ v = FieldSchema(s, root) /\ k = s.key
      BY <1>3, <2>5
    <3>5. PICK y : y = [x EXCEPT !.key = k]
      OBVIOUS
    <3>2. Fitting(root)[<<x, v>>]
      BY <2>5, <3>1
    <3>3. /\ y \in DataTrees[Deep + 2] /\ Fitting(root)[<<y, v>>]
          /\ \A h \in Nat : x \in DataTrees[h] => y \in DataTrees[h]
      BY <3>1, <3>2, <3>5, RenameFits
    <3>4. r.node = y
      BY <2>6, <3>1, <3>5
    <3> QED
      BY <1>2, <2>5, <3>1, <3>3, <3>4
  <2>8. r.node.key = s.key
    <3>1. q.node = Data(q.node.key, q.node.t, q.node.val, q.node.ch)
      BY <1>1, <2>5, DepthFacts
    <3> QED
      BY <2>6, <3>1 DEF Data
  <2> QED
    BY <1>1, <2>7, <2>8 DEF FitField
<1> QED
    BY <1>5, <1>6

(* An object.                                                              *)
LEMMA ObjectStep ==
    ASSUME NEW o, o.unknown # "preserve", NEW root \in Nodes, NEW d \in DataTrees[Deep + 1],
           \A i \in DOMAIN d.ch : GoodAt(o, root, d.ch[i]),
           NEW s \in Views, NEW r \in ProjectObject(d, s, o, root, Projecting(o, root)), r.ok
    PROVE  /\ r.node \in DataTrees[Depth(d) + 1] /\ r.node.t = "Map"
           /\ \E place \in [DOMAIN r.node.ch -> DOMAIN s.ch] :
                  FitPlace(Fitting(root), root, r.node, s, place)
<1> DEFINE P == Projecting(o, root)
           f == [i \in DOMAIN s.ch |-> ProjectField(d, s.ch[i], o, root, P)]
           D == Depth(d)
<1>1. Deep + 1 \in Nat
    BY SchemaAssumption
<1>2. D \in Nat /\ D >= 1
    BY <1>1, DepthFacts
<1>3. s.key \in Names /\ s.ch \in Seq(Nodes) /\ "Map" \in Types
    BY ViewFacts DEF Types, Objects
<1>4. PICK n \in Nat : n = Len(s.ch) /\ DOMAIN s.ch = 1 .. n
    BY <1>3
<1>5. PICK c \in OneOfEach(f) : r = Finish(d, s, o, c)
    BY DEF ProjectObject, Finish
<1>6. r = Assemble(s.key, "Map", c, <<>>)
    BY <1>5 DEF Finish, Failed
<1>7. DOMAIN f = 1 .. n /\ \A i \in 1 .. n : f[i] = ProjectField(d, s.ch[i], o, root, P)
    BY <1>4
<1> HIDE DEF f
<1>22. DOMAIN c = 1 .. n /\ \A i \in 1 .. n : c[i] \in f[i]
    BY <1>5, <1>7, EachFacts
<1>23. PICK S : c \in Seq(S) /\ Len(c) = n
    BY <1>5, <1>7, EachFacts
<1>8. /\ c \in Seq(S) /\ DOMAIN c = 1 .. n /\ Len(c) = n
      /\ \A i \in 1 .. n : c[i] \in ProjectField(d, s.ch[i], o, root, P)
    BY <1>7, <1>22, <1>23
<1>9. \A i \in 1 .. n : c[i].ok
    BY <1>6, <1>8 DEF Assemble, Failed
<1>10. ASSUME NEW i \in 1 .. n
       PROVE  \/ c[i].node = None /\ ~Required(s.ch[i])
              \/ /\ c[i].node \in DataTrees[D] /\ c[i].node.key = s.ch[i].key /\ c[i].node # None
                 /\ FitField(Fitting(root), root, c[i].node, s.ch[i])
  <2>1. s.ch[i] \in Nodes
    BY <1>3, <1>4
  <2> QED
    BY <1>8, <1>9, <2>1, FieldStep
<1>11. \A i \in DOMAIN c : c[i].node # None => c[i].node \in DataTrees[D]
    BY <1>8, <1>10
<1>12. PICK m : m = Members(c)
    OBVIOUS
<1>13. m \in Seq(DataTrees[D]) /\ \E p \in [DOMAIN m -> DOMAIN c] : Filtered(m, p, c, n)
    BY <1>8, <1>11, <1>12, MembersFacts
<1>14. PICK p \in [DOMAIN m -> 1 .. n] : Filtered(m, p, c, n)
    BY <1>8, <1>13
<1>15. r.node = Data(s.key, "Map", Value("nil", 0), m)
    BY <1>6, <1>8, <1>11, <1>12, AssembleFacts
<1>16. r.node \in DataTrees[D + 1] /\ r.node.t = "Map" /\ r.node.ch = m
    BY <1>2, <1>3, <1>13, <1>15, ContainerMade
<1>17. ASSUME NEW i \in DOMAIN m
       PROVE  /\ m[i].key = s.ch[p[i]].key
              /\ FitField(Fitting(root), root, m[i], s.ch[p[i]])
  <2>1. p[i] \in 1 .. n /\ m[i] = c[p[i]].node /\ m[i] # None
    BY <1>14 DEF Filtered
  <2> QED
    BY <1>10, <2>1
<1>18. ASSUME NEW j \in 1 .. n, Required(s.ch[j]) PROVE \E i \in DOMAIN m : p[i] = j
  <2>1. c[j].node # None
    BY <1>10, <1>18
  <2> QED
    BY <1>14, <2>1 DEF Filtered
<1>19. Placing(r.node, s, p)
  <2>1. \A i, j \in DOMAIN m : i < j => p[i] < p[j]
    BY <1>14 DEF Filtered
  <2> QED
    BY <1>4, <1>16, <1>17, <1>18, <2>1 DEF Placing
<1>20. FitPlace(Fitting(root), root, r.node, s, p)
    BY <1>16, <1>17, <1>19 DEF FitPlace
<1>21. p \in [DOMAIN r.node.ch -> DOMAIN s.ch]
    BY <1>4, <1>16
<1> QED
    BY <1>16, <1>20, <1>21

(* One node, from what holds for its children.                             *)
LEMMA ProjectStep ==
    ASSUME NEW o, o.unknown # "preserve", NEW root \in Nodes, NEW d \in DataTrees[Deep + 1],
           \A i \in DOMAIN d.ch : GoodAt(o, root, d.ch[i])
    PROVE  GoodAt(o, root, d)
<1> SUFFICES ASSUME NEW v \in Views, NEW r \in Projecting(o, root)[<<d, v>>], r.ok
             PROVE  r.node \in DataTrees[Depth(d) + 1] /\ Fitting(root)[<<r.node, v>>]
    BY DEF GoodAt
<1>1. Deep + 1 \in Nat /\ Deep + 2 \in Nat
    BY SchemaAssumption
<1>2. Depth(d) \in Nat /\ Depth(d) <= Deep + 1 /\ d.val \in Values
    BY <1>1, DepthFacts
<1>3. PICK s \in Views : s = Resolved(v, root)
    BY NamedFacts
<1>4. r \in ProjectBody(Projecting(o, root), d, v, o, root)
  <2>1. PICK x : x = <<d, v>>
    OBVIOUS
  <2>2. x \in Inputs /\ x[1] = d /\ x[2] = v
    BY <2>1 DEF Inputs
  <2> QED
    BY <2>1, <2>2, ProjectEquation
<1>5. r.node \in DataTrees[Depth(d) + 1] /\ FitBody(Fitting(root), root, r.node, v)
  <2>1. CASE s.t = "Array"
    <3>0. s.t \notin Objects
      BY <2>1 DEF Objects
    <3>1. r \in ProjectArray(d, s, o, Projecting(o, root))
      BY <1>3, <1>4, <2>1, <3>0 DEF ProjectBody
    <3>2. /\ r.node \in DataTrees[Depth(d) + 1] /\ r.node.t = "Array"
          /\ \A i \in DOMAIN r.node.ch : FitElement(Fitting(root), s, r.node.ch[i])
      BY <3>1, ArrayStep
    <3> QED
      BY <1>3, <2>1, <3>0, <3>2 DEF FitBody
  <2>2. CASE s.t \in Objects
    <3>0. s.t # "Array"
      BY <2>2 DEF Objects
    <3>1. r \in ProjectObject(d, s, o, root, Projecting(o, root))
      BY <1>3, <1>4, <2>2, <3>0 DEF ProjectBody
    <3>2. /\ r.node \in DataTrees[Depth(d) + 1] /\ r.node.t = "Map"
          /\ \E place \in [DOMAIN r.node.ch -> DOMAIN s.ch] :
                 FitPlace(Fitting(root), root, r.node, s, place)
      BY <3>1, ObjectStep
    <3> QED
      BY <1>3, <2>2, <3>0, <3>2 DEF FitBody
  <2>3. CASE s.t # "Array" /\ s.t \notin Objects
    <3>1. r \in ProjectScalar(d, s, o)
      BY <1>3, <1>4, <2>3 DEF ProjectBody
    <3>2. /\ r.node \in DataTrees[1]
          /\ \/ r.node.t = "Null" /\ ~Required(s)
             \/ r.node.t = s.t /\ HasType(r.node.val, s.t)
      BY <1>2, <3>1, ScalarStep
    <3>3. DataTrees[1] \subseteq DataTrees[Depth(d) + 1]
      BY <1>2, TreesGrow
    <3> QED
      BY <1>3, <2>3, <3>2, <3>3 DEF FitBody
  <2> QED
    BY <2>1, <2>2, <2>3
<1>6. DataTrees[Depth(d) + 1] \subseteq DataTrees[Deep + 2]
  <2>1. PICK k \in Nat : k = Depth(d) + 1
    BY <1>2
  <2>2. k <= Deep + 2
    BY <1>1, <1>2, <2>1, SchemaAssumption
  <2> QED
    BY <1>1, <2>1, <2>2, TreesGrow
<1>7. PICK p : p = <<r.node, v>>
    OBVIOUS
<1>8. p \in Results /\ p[1] = r.node /\ p[2] = v
    BY <1>5, <1>6, <1>7 DEF Results
<1>9. Fitting(root)[p] = FitBody(Fitting(root), root, r.node, v)
    BY <1>8, FitEquation
<1> QED
    BY <1>5, <1>7, <1>9

(* All of them.                                                            *)
LEMMA ProjectGood ==
    ASSUME NEW o, o.unknown # "preserve", NEW root \in Nodes, NEW d \in DataTrees[Deep + 1]
    PROVE  GoodAt(o, root, d)
<1> DEFINE T == {n \in Nat : \E x \in DataTrees[Deep + 1] : Depth(x) = n /\ ~GoodAt(o, root, x)}
<1>1. Deep + 1 \in Nat
    BY SchemaAssumption
<1>2. ASSUME T # {} PROVE FALSE
  <2>1. PICK n \in T : \A m \in T : n <= m
    BY <1>2, Least
  <2>2. n \in Nat
    OBVIOUS
  <2>3. PICK x \in DataTrees[Deep + 1] : Depth(x) = n /\ ~GoodAt(o, root, x)
    OBVIOUS
  <2>4. ASSUME NEW i \in DOMAIN x.ch PROVE GoodAt(o, root, x.ch[i])
    <3>1. x.ch[i] \in DataTrees[Deep + 1] /\ Depth(x.ch[i]) \in Nat /\ Depth(x.ch[i]) < n
      BY <1>1, <2>3, DepthFacts
    <3>2. PICK m \in Nat : m = Depth(x.ch[i])
      BY <3>1
    <3>3. m \notin T
      BY <2>1, <2>2, <3>1, <3>2
    <3> QED
      BY <3>1, <3>2, <3>3
  <2> QED
    BY <2>3, <2>4, ProjectStep
<1>3. Depth(d) \in Nat
    BY <1>1, DepthFacts
<1> QED
    BY <1>2, <1>3

-----------------------------------------------------------------------------
(* What the results of projections are: those of the first can be          *)
(* projected again.                                                        *)
FitInv == /\ task \in Tasks
          /\ ProjectionFits
          /\ (/\ task.do = "project" /\ stage = "projected"
              /\ task.opts.unknown # "preserve" /\ output.ok) => output.node \in DataTrees[Deep + 1]

LEMMA FirstFits ==
    ASSUME NEW t \in Tasks, t.do = "project", t.opts.unknown # "preserve",
           NEW h \in Nat, h <= Deep + 1, NEW data \in DataTrees[h], NEW type,
           type = ResolvePayloadType(t.schema, t.type), type # None,
           NEW r \in ProjectNode(data, type, t.opts, t.schema), r.ok
    PROVE  r.node \in DataTrees[h + 1] /\ Fitting(t.schema)[<<r.node, type>>]
<1>1. t.schema \in Nodes
    BY CalculationAssumption
<1>2. type \in Views
    BY <1>1, PayloadTypeFacts, ViewFacts
<1>3. Deep + 1 \in Nat
    BY SchemaAssumption
<1>4. data \in DataTrees[Deep + 1] /\ Depth(data) \in Nat /\ Depth(data) <= h
    BY <1>3, TreesGrow, DepthFacts
<1>5. GoodAt(t.opts, t.schema, data)
    BY <1>1, <1>4, ProjectGood
<1>6. r.node \in DataTrees[Depth(data) + 1] /\ Fitting(t.schema)[<<r.node, type>>]
    BY <1>2, <1>5 DEF GoodAt, ProjectNode
<1>7. DataTrees[Depth(data) + 1] \subseteq DataTrees[h + 1]
    BY <1>4, TreesGrow
<1> QED
    BY <1>6, <1>7

(* Every projection that succeeds, the first and the one of its result,    *)
(* fits the schema (Project of project.go, with coerceValue, ApplyMissing, *)
(* lookupDataField and the references between types), for schemas and data *)
(* of any shape and depth and integers and floats of any widths.           *)
THEOREM ProjectionsFit == CalculationSpec => []ProjectionFits
<1>1. CalculationInit => FitInv
    BY DEF CalculationInit, FitInv, ProjectionFits
<1>2. FitInv /\ [ReadNumber \/ Compare \/ Project \/ ProjectAgain]_<<task, stage, tree, output>> => FitInv'
  <2> SUFFICES ASSUME FitInv,
                      [ReadNumber \/ Compare \/ Project \/ ProjectAgain]_<<task, stage, tree, output>>
               PROVE  FitInv'
    OBVIOUS
  <2>1. CASE ReadNumber
    BY <2>1 DEF ReadNumber, At, FitInv, ProjectionFits
  <2>2. CASE Compare
    BY <2>2 DEF Compare, At, FitInv, ProjectionFits
  <2>3. CASE Project
    <3>1. /\ task \in Tasks /\ task' = task /\ task.do = "project" /\ stage' = "projected"
          /\ output' \in Projections(task.data)
      BY <2>3 DEF Project, At, FitInv
    <3>2. Deep \in Nat /\ task.data \in DataTrees[Deep]
      BY <3>1, SchemaAssumption, CalculationAssumption
    <3>3. ASSUME task.opts.unknown # "preserve", output'.ok
          PROVE  /\ output'.node \in DataTrees[Deep + 1]
                 /\ Fitting(task.schema)[<<output'.node, ResolvePayloadType(task.schema, task.type)>>]
      <4>1. PICK type : type = ResolvePayloadType(task.schema, task.type)
        OBVIOUS
      <4>2. type # None /\ output' \in ProjectNode(task.data, type, task.opts, task.schema)
        BY <3>1, <3>3, <4>1 DEF Projections, Failed
      <4> QED
        BY <3>1, <3>2, <3>3, <4>1, <4>2, FirstFits
    <3> QED
      BY <3>1, <3>3 DEF FitInv, ProjectionFits
  <2>4. CASE ProjectAgain
    <3>1. /\ task \in Tasks /\ task' = task /\ task.do = "project" /\ stage = "projected"
          /\ stage' = "done" /\ output.ok /\ output' \in Projections(output.node)
      BY <2>4 DEF ProjectAgain, At, FitInv
    <3>2. ASSUME task.opts.unknown # "preserve", output'.ok
          PROVE  Fitting(task.schema)[<<output'.node, ResolvePayloadType(task.schema, task.type)>>]
      <4>1. PICK type : type = ResolvePayloadType(task.schema, task.type)
        OBVIOUS
      <4>2. type # None /\ output' \in ProjectNode(output.node, type, task.opts, task.schema)
        BY <3>1, <3>2, <4>1 DEF Projections, Failed
      <4>3. output.node \in DataTrees[Deep + 1] /\ Deep + 1 \in Nat /\ Deep + 1 <= Deep + 1
        BY <3>1, <3>2, SchemaAssumption DEF FitInv
      <4> QED
        BY <3>1, <3>2, <4>1, <4>2, <4>3, FirstFits
    <3> QED
      BY <3>1, <3>2 DEF FitInv, ProjectionFits
  <2>5. CASE UNCHANGED <<task, stage, tree, output>>
    BY <2>5 DEF FitInv, ProjectionFits
  <2> QED
    BY <2>1, <2>2, <2>3, <2>4, <2>5
<1>3. FitInv => ProjectionFits
    BY DEF FitInv
<1> QED
    BY <1>1, <1>2, <1>3, PTL DEF CalculationSpec
=============================================================================
