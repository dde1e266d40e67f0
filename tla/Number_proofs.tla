--------------------------- MODULE Number_proofs ---------------------------
(***************************************************************************)
(* Proofs about Number, for all widths, limits and values that its         *)
(* assumptions allow: powers of two; rounding to a mantissa keeps the      *)
(* order and loses nothing of what fits; what the initializers make; and   *)
(* that a number in its class still knows the real it was made with, from  *)
(* which comparison, equality and hashes follow.                           *)
(***************************************************************************)
EXTENDS Number, TLAPS

Ropes == INSTANCE RopeLemmas

-----------------------------------------------------------------------------
(* Powers of two.                                                          *)

(* The values up to n of the function that doubles.                        *)
Doubles(f, n) == /\ f \in [0..n -> Nat]
                 /\ \A i \in 0..n : f[i] = IF i = 0 THEN 1 ELSE 2 * f[i - 1]

LEMMA DoublesExist ==
    ASSUME NEW n \in Nat
    PROVE  \E f : Doubles(f, n)
<1> DEFINE S == {m \in 0..n : \E f : Doubles(f, m)}
<1>1. 0 \in S
  <2>1. Doubles([i \in 0..0 |-> 1], 0)
    BY DEF Doubles
  <2> QED BY <2>1
<1>2. ASSUME NEW m \in 0..n, m < n, m \in S PROVE m + 1 \in S
  <2>1. PICK f : Doubles(f, m)
    BY <1>2
  <2> DEFINE g == [i \in 0..(m + 1) |-> IF i = m + 1 THEN 2 * f[m] ELSE f[i]]
  <2>2. Doubles(g, m + 1)
    BY <2>1 DEF Doubles
  <2> HIDE DEF g
  <2>3. m + 1 \in 0..n
    BY <1>2
  <2> QED BY <2>2, <2>3
<1>3. 0..n \subseteq S
  <2> HIDE DEF S
  <2> QED BY ONLY <1>1, <1>2, n \in Nat, Ropes!Induction
<1>4. n \in S
  <2>1. n \in 0..n
    OBVIOUS
  <2> HIDE DEF S
  <2> QED BY <1>3, <2>1
<1> QED BY <1>4

LEMMA DoublesAgree ==
    ASSUME NEW n \in Nat, NEW m \in 0..n, NEW f, NEW g, Doubles(f, n), Doubles(g, m)
    PROVE  f[m] = g[m]
<1> DEFINE S == {i \in 0..m : f[i] = g[i]}
<1>1. 0 \in S
  BY DEF Doubles
<1>2. ASSUME NEW i \in 0..m, i < m, i \in S PROVE i + 1 \in S
  <2>1. i + 1 \in 0..m /\ i + 1 \in 0..n /\ i + 1 # 0 /\ (i + 1) - 1 = i
    BY <1>2
  <2>2. f[i + 1] = 2 * f[i] /\ g[i + 1] = 2 * g[i]
    BY <2>1 DEF Doubles
  <2> QED BY <1>2, <2>1, <2>2
<1>3. 0..m \subseteq S
  <2> HIDE DEF S
  <2>1. m \in Nat
    OBVIOUS
  <2> QED BY ONLY <1>1, <1>2, <2>1, Ropes!Induction
<1> QED BY <1>3

LEMMA Pow2Equation ==
    Pow2 = [n \in Nat |-> IF n = 0 THEN 1 ELSE 2 * Pow2[n - 1]]
<1> DEFINE f(n) == CHOOSE g : Doubles(g, n)
           h    == [n \in Nat |-> f(n)[n]]
<1>1. \A n \in Nat : Doubles(f(n), n)
  BY DoublesExist
<1>2. \A n \in Nat : h[n] = IF n = 0 THEN 1 ELSE 2 * h[n - 1]
  <2> SUFFICES ASSUME NEW n \in Nat PROVE h[n] = IF n = 0 THEN 1 ELSE 2 * h[n - 1]
    OBVIOUS
  <2>1. Doubles(f(n), n) /\ h[n] = f(n)[n]
    BY <1>1
  <2>2. CASE n = 0
    <3> HIDE DEF f, h
    <3> QED BY <2>1, <2>2 DEF Doubles
  <2>3. CASE n # 0
    <3>1. n - 1 \in Nat /\ n - 1 \in 0..n /\ n \in 0..n
      BY <2>3
    <3>2. Doubles(f(n - 1), n - 1) /\ h[n - 1] = f(n - 1)[n - 1]
      BY <1>1, <3>1
    <3> HIDE DEF f, h
    <3>3. f(n)[n - 1] = f(n - 1)[n - 1]
      BY ONLY <2>1, <3>1, <3>2, n \in Nat, DoublesAgree
    <3>4. f(n)[n] = 2 * f(n)[n - 1]
      BY <2>1, <2>3, <3>1 DEF Doubles
    <3> QED BY <2>1, <2>3, <3>2, <3>3, <3>4
  <2> QED BY <2>2, <2>3
<1>3. h = [n \in Nat |-> IF n = 0 THEN 1 ELSE 2 * h[n - 1]]
  <2>1. h = [n \in Nat |-> h[n]]
    OBVIOUS
  <2> HIDE DEF h, f
  <2> QED BY <1>2, <2>1
<1> HIDE DEF f, h
<1> DEFINE Is(g) == g = [n \in Nat |-> IF n = 0 THEN 1 ELSE 2 * g[n - 1]]
<1>4. Is(h)
  BY <1>3
<1>5. Pow2 = CHOOSE g : Is(g)
  BY DEF Pow2
<1>6. Is(Pow2)
  <2> HIDE DEF Is
  <2> QED BY <1>4, <1>5
<1> QED BY <1>6

LEMMA Pow2Step ==
    /\ Pow2[0] = 1
    /\ \A n \in Nat : Pow2[n + 1] = 2 * Pow2[n]
<1>1. \A n \in Nat : Pow2[n] = IF n = 0 THEN 1 ELSE 2 * Pow2[n - 1]
  BY Pow2Equation
<1>2. \A n \in Nat : Pow2[n + 1] = 2 * Pow2[n]
  <2> TAKE n \in Nat
  <2>1. n + 1 \in Nat /\ n + 1 # 0 /\ (n + 1) - 1 = n
    OBVIOUS
  <2> QED BY <1>1, <2>1
<1> QED BY <1>1, <1>2

LEMMA Pow2Positive ==
    ASSUME NEW n \in Nat
    PROVE  Pow2[n] \in Nat /\ Pow2[n] > n
<1> DEFINE S == {m \in 0..n : Pow2[m] \in Nat /\ Pow2[m] > m}
<1>1. 0 \in S
  BY Pow2Step
<1>2. ASSUME NEW m \in 0..n, m < n, m \in S PROVE m + 1 \in S
  <2>1. Pow2[m + 1] = 2 * Pow2[m] /\ m + 1 \in 0..n
    BY <1>2, Pow2Step
  <2> QED BY <1>2, <2>1
<1>3. 0..n \subseteq S
  <2> HIDE DEF S
  <2> QED BY ONLY <1>1, <1>2, n \in Nat, Ropes!Induction
<1> QED BY <1>3

LEMMA Pow2Sum ==
    ASSUME NEW m \in Nat, NEW n \in Nat
    PROVE  Pow2[m + n] = Pow2[m] * Pow2[n]
<1> DEFINE S == {i \in 0..n : Pow2[m + i] = Pow2[m] * Pow2[i]}
<1>1. 0 \in S
  BY Pow2Step, Pow2Positive
<1>2. ASSUME NEW i \in 0..n, i < n, i \in S PROVE i + 1 \in S
  <2>1. m + i \in Nat /\ (m + i) + 1 = m + (i + 1) /\ i + 1 \in 0..n
    BY <1>2
  <2>2. Pow2[m + (i + 1)] = 2 * Pow2[m + i] /\ Pow2[i + 1] = 2 * Pow2[i]
    BY <2>1, Pow2Step
  <2>3. PICK x \in Nat, y \in Nat : x = Pow2[m] /\ y = Pow2[i]
    BY Pow2Positive
  <2>4. 2 * (x * y) = x * (2 * y)
    BY ONLY <2>3
  <2>5. Pow2[m + i] = x * y
    BY <1>2, <2>3
  <2> QED BY <2>1, <2>2, <2>3, <2>4, <2>5
<1>3. 0..n \subseteq S
  <2> HIDE DEF S
  <2> QED BY ONLY <1>1, <1>2, n \in Nat, Ropes!Induction
<1> QED BY <1>3

(* A larger power is a multiple of the smaller one.                        *)
LEMMA Pow2Multiple ==
    ASSUME NEW m \in Nat, NEW n \in Nat, m <= n
    PROVE  \E c \in Nat \ {0} : Pow2[n] = c * Pow2[m] /\ (m < n => c >= 2)
<1>1. n - m \in Nat /\ n = (n - m) + m
  OBVIOUS
<1>2. Pow2[n] = Pow2[n - m] * Pow2[m]
  BY <1>1, Pow2Sum
<1>3. Pow2[n - m] \in Nat /\ Pow2[n - m] > n - m
  BY <1>1, Pow2Positive
<1>4. Pow2[n - m] \in Nat \ {0} /\ (m < n => Pow2[n - m] >= 2)
  BY <1>1, <1>3
<1> QED BY <1>2, <1>4

LEMMA ProductGrows ==
    ASSUME NEW x \in Int, NEW y \in Int, NEW c \in Nat, x <= y
    PROVE  x * c <= y * c
<1>1. PICK d \in Nat : y = x + d
  OBVIOUS
<1>2. y * c = x * c + d * c /\ d * c \in Nat /\ x * c \in Int
  BY <1>1
<1> QED BY <1>2

LEMMA Pow2Grows ==
    ASSUME NEW m \in Nat, NEW n \in Nat
    PROVE  /\ m <= n => Pow2[m] <= Pow2[n]
           /\ m < n => 2 * Pow2[m] <= Pow2[n]
           /\ Pow2[m] < Pow2[n] => m < n
<1>1. ASSUME NEW i \in Nat, NEW j \in Nat, i <= j
      PROVE  Pow2[i] <= Pow2[j] /\ (i < j => 2 * Pow2[i] <= Pow2[j])
  <2>1. PICK c \in Nat \ {0} : Pow2[j] = c * Pow2[i] /\ (i < j => c >= 2)
    BY <1>1, Pow2Multiple
  <2>2. PICK p \in Nat : p = Pow2[i]
    BY Pow2Positive
  <2>3. 1 * p <= c * p /\ (2 <= c => 2 * p <= c * p)
    BY ProductGrows
  <2> QED BY <2>1, <2>2, <2>3
<1>2. n <= m => Pow2[n] <= Pow2[m]
  BY <1>1
<1> QED BY <1>1, <1>2, Pow2Positive

-----------------------------------------------------------------------------
(* Rounding.                                                               *)

LEMMA Division ==
    ASSUME NEW x \in Nat, NEW u \in Nat \ {0}
    PROVE  /\ x \div u \in Nat /\ x % u \in 0..(u - 1)
           /\ x = ((x \div u) * u) + (x % u)
  OBVIOUS

LEMMA QuotientIsUnique ==
    ASSUME NEW u \in Nat \ {0}, NEW q \in Int, NEW p \in Int,
           NEW r \in 0..(u - 1), NEW s \in 0..(u - 1), (q * u) + r = (p * u) + s
    PROVE  q = p /\ r = s
<1>1. ASSUME NEW i \in Int, NEW j \in Int, NEW k \in 0..(u - 1), NEW l \in 0..(u - 1),
             (i * u) + k = (j * u) + l
      PROVE  ~(i < j)
  <2> SUFFICES ASSUME i < j PROVE FALSE
    OBVIOUS
  <2>1. (i + 1) * u <= j * u
    BY ProductGrows
  <2>2. (i + 1) * u = (i * u) + u
    OBVIOUS
  <2>3. i * u \in Int /\ j * u \in Int
    OBVIOUS
  <2> QED BY <1>1, <2>1, <2>2, <2>3
<1>2. ~(q < p) /\ ~(p < q)
  BY <1>1
<1>3. q = p
  BY <1>2
<1> QED BY <1>3

(* n of the units u are what x is rounded to, q what it is cut to.         *)
IsNearest(x, u, q, n) ==
    /\ q \in Nat /\ n \in {q, q + 1}
    /\ q * u <= x /\ x < (q + 1) * u
    /\ x = q * u => n = q
    /\ (2 * (x - (q * u)) > u \/ (2 * (x - (q * u)) = u /\ q % 2 = 1)) => n = q + 1

LEMMA NearestIsNearest ==
    ASSUME NEW x \in Nat, NEW u \in Nat \ {0}
    PROVE  \E q, n \in Nat : Nearest(x, u) = n * u /\ IsNearest(x, u, q, n)
<1> DEFINE q == x \div u
           r == x % u
           n == IF 2 * r > u \/ (2 * r = u /\ q % 2 = 1) THEN q + 1 ELSE q
<1>1. q \in Nat /\ r \in 0..(u - 1) /\ x = (q * u) + r
  BY Division
<1>2. Nearest(x, u) = u * n
  BY DEF Nearest
<1> HIDE DEF q, r
<1>3. q * u \in Nat /\ (q + 1) * u = (q * u) + u /\ x - (q * u) = r
  BY <1>1
<1>4. n \in Nat /\ n \in {q, q + 1}
  BY <1>1
<1>5. x = q * u => n = q
  BY <1>1, <1>3
<1>6. IsNearest(x, u, q, n)
  BY <1>1, <1>3, <1>4, <1>5 DEF IsNearest
<1>7. u * n = n * u
  BY <1>4
<1> QED BY <1>1, <1>2, <1>4, <1>6, <1>7

(* k bits are in excess of what the mantissa has room for.                 *)
Exceeds(x, bits, k) == Pow2[bits + k - 1] <= x /\ x < Pow2[bits + k]

LEMMA ExcessIsExcess ==
    ASSUME NEW width \in Nat \ {0}, NEW x \in Nat, Pow2[width] <= x
    PROVE  Excess(x, width) \in Nat \ {0} /\ Exceeds(x, width, Excess(x, width))
<1> DEFINE T == {k \in Nat : x < Pow2[width + k]}
<1>1. x \in T
  <2>1. width + x \in Nat /\ Pow2[width + x] > width + x /\ Pow2[width + x] \in Nat
    BY Pow2Positive
  <2> QED BY <2>1
<1>2. PICK k \in T : \A j \in T : k <= j
  <2>1. T \subseteq Nat /\ T # {}
    BY <1>1
  <2> HIDE DEF T
  <2> QED BY <2>1, Ropes!LeastNumber
<1>3. k # 0
  BY <1>2, Pow2Positive
<1>4. k - 1 \in Nat /\ width + k - 1 \in Nat /\ width + (k - 1) = width + k - 1
  BY <1>2, <1>3
<1>5. Pow2[width + k - 1] <= x
  <2>1. k - 1 \notin T
    BY <1>2, <1>4
  <2> QED BY <1>4, <2>1, Pow2Positive
<1>6. k \in 1..x
  <2>1. Pow2[width + k - 1] > width + k - 1 /\ Pow2[width + k - 1] \in Nat
    BY <1>4, Pow2Positive
  <2> QED BY <1>2, <1>3, <1>5, <2>1
<1>7. \E j \in 1..x : Pow2[width + j - 1] <= x /\ x < Pow2[width + j]
  BY <1>2, <1>5, <1>6
<1>8. Excess(x, width) \in 1..x /\ Exceeds(x, width, Excess(x, width))
  BY <1>7 DEF Excess, Exceeds
<1> QED BY <1>8

(* x has k bits in excess, and is rounded to n times 2^k.                  *)
RoundsTo(x, bits, k, q, n) ==
    /\ k \in Nat \ {0} /\ q \in Nat /\ n \in Nat
    /\ Exceeds(x, bits, k)
    /\ IsNearest(x, Pow2[k], q, n)
    /\ Pow2[bits - 1] <= q /\ q < Pow2[bits]

Finite(x) == Abs(x) \notin {Infinity, NaN}

LEMMA QuotientFits ==
    ASSUME NEW bits \in Nat \ {0}, NEW x \in Nat, NEW k \in Nat \ {0}, NEW q \in Nat,
           Exceeds(x, bits, k), q * Pow2[k] <= x, x < (q + 1) * Pow2[k]
    PROVE  Pow2[bits - 1] <= q /\ q < Pow2[bits]
<1>1. PICK u \in Nat \ {0}, p \in Nat : u = Pow2[k] /\ p = Pow2[bits - 1]
  <2>1. bits - 1 \in Nat
    OBVIOUS
  <2> QED BY <2>1, Pow2Positive
<1>2. Pow2[bits + k - 1] = p * u
  <2>1. bits - 1 \in Nat /\ (bits - 1) + k = bits + k - 1
    OBVIOUS
  <2> QED BY <1>1, <2>1, Pow2Sum
<1>3. Pow2[bits] \in Nat /\ Pow2[bits + k] = Pow2[bits] * u
  BY <1>1, Pow2Positive, Pow2Sum
<1>4. PICK r \in Nat : r = Pow2[bits]
  BY <1>3
<1>5. p * u <= x /\ x < r * u
  BY <1>2, <1>3, <1>4 DEF Exceeds
<1>6. p <= q
  <2> SUFFICES ASSUME q + 1 <= p PROVE FALSE
    OBVIOUS
  <2>1. (q + 1) * u <= p * u
    BY ProductGrows
  <2>2. (q + 1) * u \in Nat /\ p * u \in Nat
    OBVIOUS
  <2> QED BY <1>1, <1>5, <2>1, <2>2
<1>7. q < r
  <2> SUFFICES ASSUME r <= q PROVE FALSE
    OBVIOUS
  <2>1. r * u <= q * u
    BY ProductGrows
  <2>2. r * u \in Nat /\ q * u \in Nat
    OBVIOUS
  <2> QED BY <1>1, <1>5, <2>1, <2>2
<1> QED BY <1>1, <1>4, <1>6, <1>7

LEMMA RoundedShape ==
    ASSUME NEW bits \in Nat \ {0}, NEW x \in Nat, Finite(x), Pow2[bits] <= x
    PROVE  \E k, q, n \in Nat : /\ RoundsTo(x, bits, k, q, n)
                                /\ Rounded(x, bits) = n * Pow2[k]
<1>1. PICK k \in Nat \ {0} : k = Excess(x, bits) /\ Exceeds(x, bits, k)
  BY ExcessIsExcess
<1>2. PICK u \in Nat \ {0} : u = Pow2[k]
  BY Pow2Positive
<1>3. PICK q \in Nat, n \in Nat : Nearest(x, u) = n * u /\ IsNearest(x, u, q, n)
  BY NearestIsNearest
<1>4. Pow2[bits - 1] <= q /\ q < Pow2[bits]
  BY <1>1, <1>2, <1>3, QuotientFits DEF IsNearest
<1>5. RoundsTo(x, bits, k, q, n)
  BY <1>1, <1>2, <1>3, <1>4 DEF RoundsTo
<1>6. Rounded(x, bits) = n * Pow2[k]
  <2>1. Abs(x) = x /\ ~(x < Pow2[bits]) /\ ~(x < 0)
    BY Pow2Positive DEF Abs
  <2>2. Rounded(x, bits) = Nearest(x, Pow2[Excess(x, bits)])
    BY <2>1 DEF Rounded, Finite
  <2> QED BY <1>1, <1>2, <1>3, <2>2
<1> QED BY <1>5, <1>6

LEMMA RoundedSmall ==
    ASSUME NEW bits \in Nat \ {0}, NEW x \in Int, ~Finite(x) \/ Abs(x) < Pow2[bits]
    PROVE  Rounded(x, bits) = x
  BY DEF Rounded, Finite

(* Rounding does not depend on the sign.                                   *)
LEMMA RoundedIsOdd ==
    ASSUME NEW bits \in Nat \ {0}, NEW x \in Nat
    PROVE  /\ Rounded(x, bits) \in Nat
           /\ Rounded(-x, bits) = -Rounded(x, bits)
<1>1. Abs(x) = x /\ Abs(-x) = x
  BY DEF Abs
<1>2. CASE ~Finite(x) \/ x < Pow2[bits]
  BY <1>1, <1>2 DEF Rounded, Finite
<1>3. CASE Finite(x) /\ ~(x < Pow2[bits])
  <2>1. Pow2[bits] <= x /\ 1 <= x
    BY <1>3, Pow2Positive
  <2>2. PICK k \in Nat, q \in Nat, n \in Nat :
            RoundsTo(x, bits, k, q, n) /\ Rounded(x, bits) = n * Pow2[k]
    BY <1>3, <2>1, RoundedShape
  <2>3. Rounded(x, bits) \in Nat
    BY <2>2, Pow2Positive DEF RoundsTo
  <2>4. Rounded(x, bits) = Nearest(x, Pow2[Excess(x, bits)])
    BY <1>1, <1>3, <2>1 DEF Rounded, Finite
  <2>5. Rounded(-x, bits) = -Nearest(x, Pow2[Excess(x, bits)])
    BY <1>1, <1>3, <2>1 DEF Rounded, Finite
  <2> QED BY <2>3, <2>4, <2>5
<1> QED BY <1>2, <1>3

LEMMA RoundedIsInt ==
    ASSUME NEW bits \in Nat \ {0}, NEW x \in Int
    PROVE  Rounded(x, bits) \in Int
<1>1. x \in Nat \/ (-x \in Nat /\ x = -(-x))
  OBVIOUS
<1>2. CASE x \in Nat
  BY <1>2, RoundedIsOdd
<1>3. CASE -x \in Nat /\ x = -(-x)
  <2>1. \A y \in Nat : Rounded(-y, bits) \in Int
    <3> TAKE y \in Nat
    <3>1. Rounded(y, bits) \in Nat /\ Rounded(-y, bits) = -Rounded(y, bits)
      BY RoundedIsOdd
    <3> QED BY <3>1
  <2> QED BY <1>3, <2>1
<1> QED BY <1>1, <1>2, <1>3

LEMMA ExcessIsUnique ==
    ASSUME NEW bits \in Nat \ {0}, NEW x \in Nat, NEW k \in Nat \ {0}, NEW j \in Nat \ {0},
           Exceeds(x, bits, k), Exceeds(x, bits, j)
    PROVE  k = j
<1>1. ASSUME NEW i \in Nat \ {0}, NEW l \in Nat \ {0}, Exceeds(x, bits, i), Exceeds(x, bits, l)
      PROVE  i <= l
  <2>1. bits + i - 1 \in Nat /\ bits + l \in Nat
    OBVIOUS
  <2>2. Pow2[bits + i - 1] \in Nat /\ Pow2[bits + l] \in Nat
    BY <2>1, Pow2Positive
  <2>3. Pow2[bits + i - 1] < Pow2[bits + l]
    BY <1>1, <2>2 DEF Exceeds
  <2>4. bits + i - 1 < bits + l
    BY <2>1, <2>3, Pow2Grows
  <2> QED BY <2>4
<1>2. k <= j /\ j <= k
  BY <1>1
<1> QED BY <1>2

(* A multiple of the unit is not rounded.                                  *)
LEMMA MultipleOfUnit ==
    ASSUME NEW x \in Nat, NEW u \in Nat \ {0}, NEW q \in Nat, NEW n \in Nat, NEW m \in Nat,
           IsNearest(x, u, q, n), x = m * u
    PROVE  q = m /\ n = m
<1>1. q * u <= m * u /\ m * u < (q + 1) * u
  BY DEF IsNearest
<1>2. q * u \in Nat /\ m * u \in Nat /\ (q + 1) * u = (q * u) + u
  OBVIOUS
<1>3. (m * u) - (q * u) \in 0..(u - 1)
  BY <1>1, <1>2
<1>4. (q * u) + ((m * u) - (q * u)) = (m * u) + 0
  BY <1>2
<1>5. 0 \in 0..(u - 1)
  OBVIOUS
<1>6. q = m
  BY ONLY <1>3, <1>4, <1>5, u \in Nat \ {0}, q \in Int, m \in Int, QuotientIsUnique
<1> QED BY <1>6 DEF IsNearest

LEMMA MultipleIsExact ==
    ASSUME NEW bits \in Nat \ {0}, NEW j \in Nat, NEW c \in Nat, c < Pow2[bits]
    PROVE  Rounded(c * Pow2[j], bits) = c * Pow2[j]
<1>1. PICK v \in Nat \ {0} : v = Pow2[j]
  BY Pow2Positive
<1>2. PICK x \in Nat : x = c * v
  OBVIOUS
<1>3. CASE ~Finite(x) \/ x < Pow2[bits]
  <2>1. Abs(x) = x
    BY DEF Abs
  <2> QED BY <1>1, <1>2, <1>3, <2>1, RoundedSmall
<1>4. CASE Finite(x) /\ ~(x < Pow2[bits])
  <2>1. Pow2[bits] \in Nat /\ Pow2[bits] <= x
    BY <1>4, Pow2Positive
  <2>2. PICK k \in Nat, q \in Nat, n \in Nat :
            RoundsTo(x, bits, k, q, n) /\ Rounded(x, bits) = n * Pow2[k]
    BY <1>4, <2>1, RoundedShape
  <2>3. k # 0 /\ bits + k - 1 \in Nat /\ bits + j \in Nat
    BY <2>2 DEF RoundsTo
  <2>4. x < Pow2[bits + j]
    <3>1. PICK p \in Nat : p = Pow2[bits]
      BY <2>1
    <3>2. Pow2[bits + j] = p * v
      BY <1>1, <3>1, Pow2Sum
    <3>3. c + 1 <= p
      BY <3>1
    <3>4. (c + 1) * v <= p * v
      BY <3>3, ProductGrows
    <3>5. (c + 1) * v = x + v
      BY <1>2
    <3> QED BY <3>2, <3>4, <3>5
  <2>5. k <= j
    <3>1. Pow2[bits + k - 1] \in Nat /\ Pow2[bits + j] \in Nat
      BY <2>3, Pow2Positive
    <3>2. Pow2[bits + k - 1] < Pow2[bits + j]
      BY <2>2, <2>4, <3>1 DEF RoundsTo, Exceeds
    <3> QED BY <2>3, <3>1, <3>2, Pow2Grows
  <2>6. PICK d \in Nat \ {0} : Pow2[j] = d * Pow2[k]
    BY <2>5, Pow2Multiple
  <2>7. PICK u \in Nat \ {0} : u = Pow2[k]
    BY Pow2Positive
  <2>8. x = (c * d) * u /\ c * d \in Nat
    BY <1>1, <1>2, <2>6, <2>7
  <2>9. PICK m \in Nat : m = c * d /\ x = m * u
    BY <2>8
  <2>10. n = m
    BY <2>2, <2>7, <2>9, MultipleOfUnit DEF RoundsTo
  <2> QED BY <1>1, <1>2, <2>2, <2>7, <2>9, <2>10
<1> QED BY <1>3, <1>4

Float(x, bits) == Rounded(x, bits) = x

(* Rounding stays on one side of a number that is not rounded.             *)
LEMMA RoundedBelow ==
    ASSUME NEW bits \in Nat \ {0}, NEW y \in Nat, NEW r \in Nat, Finite(y), Finite(r),
           Float(r, bits), y <= r
    PROVE  Rounded(y, bits) <= r
<1>1. Pow2[bits] \in Nat /\ Abs(y) = y
  BY Pow2Positive DEF Abs
<1>2. CASE y < Pow2[bits]
  BY <1>1, <1>2, RoundedSmall
<1>3. CASE Pow2[bits] <= y
  <2>1. PICK k \in Nat, q \in Nat, n \in Nat :
            RoundsTo(y, bits, k, q, n) /\ Rounded(y, bits) = n * Pow2[k]
    BY <1>3, RoundedShape
  <2>2. PICK u \in Nat \ {0} : u = Pow2[k]
    BY Pow2Positive
  <2>3. k # 0 /\ n \in {q, q + 1} /\ IsNearest(y, u, q, n)
    BY <2>1, <2>2 DEF RoundsTo, IsNearest
  <2>4. CASE r < Pow2[bits + k]
    <3>1. PICK i \in Nat, p \in Nat, m \in Nat :
              RoundsTo(r, bits, i, p, m) /\ Rounded(r, bits) = m * Pow2[i]
      <4>1. Pow2[bits] <= r
        BY <1>1, <1>3
      <4> QED BY <4>1, RoundedShape
    <3>2. Exceeds(r, bits, k)
      <4>1. bits + k - 1 \in Nat
        BY <2>3
      <4>2. Pow2[bits + k - 1] \in Nat /\ Pow2[bits + k - 1] <= y
        BY <2>1, <4>1, Pow2Positive DEF RoundsTo, Exceeds
      <4> QED BY <2>4, <4>2 DEF Exceeds
    <3>3. i = k
      <4>1. i # 0 /\ Exceeds(r, bits, i)
        BY <3>1 DEF RoundsTo
      <4> QED BY <2>3, <3>2, <4>1, ExcessIsUnique
    <3>4. r = m * u
      BY <2>2, <3>1, <3>3 DEF Float
    <3>5. q <= m
      <4> SUFFICES ASSUME m + 1 <= q PROVE FALSE
        OBVIOUS
      <4>1. (m + 1) * u <= q * u
        BY ProductGrows
      <4>2. (m + 1) * u = (m * u) + u /\ m * u \in Nat /\ q * u \in Nat
        OBVIOUS
      <4>3. q * u <= y
        BY <2>3 DEF IsNearest
      <4> QED BY <3>4, <4>1, <4>2, <4>3
    <3>6. n <= m
      <4>1. CASE q = m
        <5>1. y = q * u
          <6>1. q * u <= y /\ q * u \in Nat
            BY <2>3 DEF IsNearest
          <6> QED BY <3>4, <4>1, <6>1
        <5>2. n = q
          BY <2>3, <5>1 DEF IsNearest
        <5> QED BY <4>1, <5>2
      <4>2. CASE q < m
        BY <2>3, <4>2
      <4> QED BY <3>5, <4>1, <4>2
    <3>7. n * u <= m * u
      BY <3>6, ProductGrows
    <3> QED BY <2>1, <2>2, <3>4, <3>7
  <2>5. CASE ~(r < Pow2[bits + k])
    <3>1. n <= Pow2[bits]
      BY <1>1, <2>1, <2>3 DEF RoundsTo
    <3>2. PICK p \in Nat : p = Pow2[bits]
      BY <1>1
    <3>3. n * u <= p * u
      BY <3>1, <3>2, ProductGrows
    <3>4. Pow2[bits + k] = p * u
      BY <2>2, <3>2, Pow2Sum
    <3>5. n * u \in Nat /\ p * u \in Nat
      OBVIOUS
    <3> QED BY <2>1, <2>2, <2>5, <3>3, <3>4, <3>5
  <2> QED BY <2>4, <2>5
<1> QED BY <1>1, <1>2, <1>3

LEMMA RoundedAbove ==
    ASSUME NEW bits \in Nat \ {0}, NEW y \in Nat, NEW r \in Nat, Finite(y), Finite(r),
           Float(r, bits), r <= y
    PROVE  r <= Rounded(y, bits)
<1>1. Pow2[bits] \in Nat /\ Abs(y) = y
  BY Pow2Positive DEF Abs
<1>2. CASE y < Pow2[bits]
  BY <1>1, <1>2, RoundedSmall
<1>3. CASE Pow2[bits] <= y
  <2>1. PICK k \in Nat, q \in Nat, n \in Nat :
            RoundsTo(y, bits, k, q, n) /\ Rounded(y, bits) = n * Pow2[k]
    BY <1>3, RoundedShape
  <2>2. PICK u \in Nat \ {0} : u = Pow2[k]
    BY Pow2Positive
  <2>3. k # 0 /\ q <= n /\ IsNearest(y, u, q, n)
    BY <2>1, <2>2 DEF RoundsTo, IsNearest
  <2>4. bits + k - 1 \in Nat /\ bits - 1 \in Nat /\ (bits - 1) + k = bits + k - 1
    BY <2>3
  <2>5. q * u <= n * u /\ q * u \in Nat /\ n * u \in Nat
    BY <2>3, ProductGrows
  <2>6. CASE r < Pow2[bits + k - 1]
    <3>1. PICK p \in Nat : p = Pow2[bits - 1]
      BY <2>4, Pow2Positive
    <3>2. p * u <= q * u /\ p * u \in Nat
      BY <2>1, <3>1, ProductGrows DEF RoundsTo
    <3>3. Pow2[bits + k - 1] = p * u
      BY <2>2, <2>4, <3>1, Pow2Sum
    <3> QED BY <2>1, <2>2, <2>5, <2>6, <3>2, <3>3
  <2>7. CASE ~(r < Pow2[bits + k - 1])
    <3>1. Pow2[bits + k - 1] \in Nat /\ Pow2[bits + k] \in Nat /\ Pow2[bits] <= Pow2[bits + k - 1]
      BY <2>3, <2>4, Pow2Positive, Pow2Grows
    <3>2. Exceeds(r, bits, k)
      <4>1. y < Pow2[bits + k]
        BY <2>1 DEF RoundsTo, Exceeds
      <4> QED BY <2>7, <3>1, <4>1 DEF Exceeds
    <3>3. PICK i \in Nat, p \in Nat, m \in Nat :
              RoundsTo(r, bits, i, p, m) /\ Rounded(r, bits) = m * Pow2[i]
      <4>1. Pow2[bits] <= r
        BY <1>1, <2>7, <3>1
      <4> QED BY <4>1, RoundedShape
    <3>4. i = k
      <4>1. i # 0 /\ Exceeds(r, bits, i)
        BY <3>3 DEF RoundsTo
      <4> QED BY <2>3, <3>2, <4>1, ExcessIsUnique
    <3>5. r = m * u
      BY <2>2, <3>3, <3>4 DEF Float
    <3>6. m <= q
      <4> SUFFICES ASSUME q + 1 <= m PROVE FALSE
        OBVIOUS
      <4>1. (q + 1) * u <= m * u
        BY ProductGrows
      <4>2. m * u \in Nat /\ (q + 1) * u \in Nat /\ y < (q + 1) * u
        BY <2>3 DEF IsNearest
      <4> QED BY <3>5, <4>1, <4>2
    <3>7. m * u <= q * u /\ m * u \in Nat
      BY <3>6, ProductGrows
    <3> QED BY <2>1, <2>2, <2>5, <3>5, <3>7
  <2> QED BY <2>6, <2>7
<1> QED BY <1>1, <1>2, <1>3

LEMMA ZeroIsFloat == ASSUME NEW bits \in Nat \ {0} PROVE Float(0, bits)
<1>1. Abs(0) = 0 /\ 0 < Pow2[bits]
  BY Pow2Positive DEF Abs
<1> QED BY <1>1, RoundedSmall DEF Float

LEMMA FloatOfOpposite ==
    ASSUME NEW bits \in Nat \ {0}, NEW x \in Int
    PROVE  Float(x, bits) <=> Float(-x, bits)
<1>1. \A y \in Nat : Rounded(y, bits) \in Nat /\ Rounded(-y, bits) = -Rounded(y, bits)
  <2> TAKE y \in Nat
  <2> QED BY RoundedIsOdd
<1>2. CASE x \in Nat
  BY <1>1, <1>2 DEF Float
<1>3. CASE x \notin Nat
  <2>1. PICK y \in Nat : y = -x
    BY <1>3
  <2>2. x = -y
    BY <2>1
  <2>3. Rounded(y, bits) \in Nat /\ Rounded(-y, bits) = -Rounded(y, bits)
    BY <1>1
  <2>4. Float(y, bits) <=> Float(-y, bits)
    BY <2>3 DEF Float
  <2> QED BY <2>1, <2>2, <2>4
<1> QED BY <1>2, <1>3

(* Rounding keeps the order with a number that is not rounded.             *)
LEMMA RoundedOrder ==
    ASSUME NEW width \in Nat \ {0}, NEW y \in Int, NEW r \in Int, Finite(y), Finite(r),
           Float(r, width)
    PROVE  /\ y <= r => Rounded(y, width) <= r
           /\ r <= y => r <= Rounded(y, width)
<1>1. \A x \in Nat : Rounded(x, width) \in Nat /\ Rounded(-x, width) = -Rounded(x, width)
  <2> TAKE x \in Nat
  <2> QED BY RoundedIsOdd
<1>2. CASE y \in Nat /\ r \in Nat
  BY <1>2, RoundedBelow, RoundedAbove
<1>3. CASE y \notin Nat /\ r \notin Nat
  <2>1. PICK z \in Nat, s \in Nat : z = -y /\ s = -r
    BY <1>3
  <2>2. Finite(z) /\ Finite(s)
    BY <1>3, <2>1 DEF Finite, Abs
  <2>3. Float(s, width)
    BY <2>1, FloatOfOpposite
  <2>4. (z <= s => Rounded(z, width) <= s) /\ (s <= z => s <= Rounded(z, width))
    BY <2>2, <2>3, RoundedBelow, RoundedAbove
  <2>5. Rounded(z, width) \in Nat /\ Rounded(-z, width) = -Rounded(z, width) /\ y = -z
    BY <1>1, <2>1
  <2>6. Rounded(y, width) = -Rounded(z, width)
    BY <2>5
  <2> QED BY <2>1, <2>4, <2>5, <2>6
<1>4. CASE y \in Nat /\ r \notin Nat
  BY <1>1, <1>4
<1>5. CASE y \notin Nat /\ r \in Nat
  <2>1. PICK z \in Nat : z = -y /\ y = -z
    BY <1>5
  <2>2. Rounded(z, width) \in Nat /\ Rounded(-z, width) = -Rounded(z, width)
    BY <1>1
  <2>3. Rounded(y, width) = -Rounded(z, width)
    BY <2>1, <2>2
  <2> QED BY <1>5, <2>2, <2>3
<1> QED BY <1>2, <1>3, <1>4, <1>5

(* A mantissa with more bits has room for what one with fewer has.         *)
LEMMA FloatEmbeds ==
    ASSUME NEW bits \in Nat \ {0}, NEW c \in Nat \ {0}, NEW x \in Int, bits <= c, Float(x, bits)
    PROVE  Float(x, c)
<1>1. ASSUME NEW y \in Nat, Float(y, bits) PROVE Float(y, c)
  <2>1. Pow2[bits] \in Nat /\ Pow2[c] \in Nat /\ Pow2[bits] <= Pow2[c] /\ Abs(y) = y
    BY Pow2Positive, Pow2Grows DEF Abs
  <2>2. CASE ~Finite(y) \/ y < Pow2[bits]
    BY <2>1, <2>2, RoundedSmall DEF Float
  <2>3. CASE Finite(y) /\ Pow2[bits] <= y
    <3>1. PICK k \in Nat, q \in Nat, n \in Nat :
              RoundsTo(y, bits, k, q, n) /\ Rounded(y, bits) = n * Pow2[k]
      BY <2>3, RoundedShape
    <3>2. PICK u \in Nat \ {0} : u = Pow2[k]
      BY Pow2Positive
    <3>3. IsNearest(y, u, q, n) /\ y = n * u
      BY <1>1, <3>1, <3>2 DEF RoundsTo, Float
    <3>4. q = n
      BY <3>3, MultipleOfUnit
    <3>5. n < Pow2[c]
      BY <2>1, <3>1, <3>4 DEF RoundsTo
    <3>6. Rounded(n * Pow2[k], c) = n * Pow2[k]
      BY <3>5, MultipleIsExact
    <3> QED BY <3>2, <3>3, <3>6 DEF Float
  <2> QED BY <2>1, <2>2, <2>3
<1>2. CASE x \in Nat
  BY <1>1, <1>2
<1>3. CASE x \notin Nat
  <2>1. PICK y \in Nat : y = -x
    BY <1>3
  <2> QED BY <1>1, <2>1, FloatOfOpposite
<1> QED BY <1>2, <1>3

(* A multiple of a power of two is rounded to one.                         *)
LEMMA RoundedMultiple ==
    ASSUME NEW bits \in Nat \ {0}, NEW j \in Nat, NEW i \in Int
    PROVE  \E d \in Int : Rounded(i * Pow2[j], bits) = d * Pow2[j]
<1>1. PICK v \in Nat \ {0} : v = Pow2[j]
  BY Pow2Positive
<1>2. ASSUME NEW c \in Nat PROVE \E d \in Nat : Rounded(c * v, bits) = d * v
  <2>1. PICK x \in Nat : x = c * v
    OBVIOUS
  <2>2. Abs(x) = x /\ Pow2[bits] \in Nat
    BY Pow2Positive DEF Abs
  <2>3. CASE ~Finite(x) \/ x < Pow2[bits]
    BY <2>1, <2>2, <2>3, RoundedSmall
  <2>4. CASE Finite(x) /\ Pow2[bits] <= x
    <3>1. PICK k \in Nat, q \in Nat, n \in Nat :
              RoundsTo(x, bits, k, q, n) /\ Rounded(x, bits) = n * Pow2[k]
      BY <2>4, RoundedShape
    <3>2. PICK u \in Nat \ {0} : u = Pow2[k]
      BY Pow2Positive
    <3>3. CASE j <= k
      <4>1. PICK d \in Nat : Pow2[k] = d * Pow2[j]
        BY <3>3, Pow2Multiple
      <4>2. n * (d * v) = (n * d) * v /\ n * d \in Nat
        OBVIOUS
      <4> QED BY <1>1, <2>1, <3>1, <4>1, <4>2
    <3>4. CASE k <= j
      <4>1. PICK d \in Nat : Pow2[j] = d * Pow2[k]
        BY <3>4, Pow2Multiple
      <4>2. c * (d * u) = (c * d) * u /\ c * d \in Nat
        OBVIOUS
      <4>3. PICK m \in Nat : m = c * d /\ x = m * u
        BY <1>1, <2>1, <3>2, <4>1, <4>2
      <4>4. n = m
        BY <3>1, <3>2, <4>3, MultipleOfUnit DEF RoundsTo
      <4> QED BY <2>1, <3>1, <3>2, <4>3, <4>4
    <3> QED BY <3>3, <3>4
  <2> QED BY <2>2, <2>3, <2>4
<1>3. CASE i \in Nat
  BY <1>1, <1>2, <1>3
<1>4. CASE i \notin Nat
  <2>1. PICK c \in Nat : c = -i
    BY <1>4
  <2>2. PICK d \in Nat : Rounded(c * v, bits) = d * v
    BY <1>2
  <2>3. PICK x \in Nat : x = c * v
    OBVIOUS
  <2>4. i * v = -x
    BY <2>1, <2>3
  <2>5. Rounded(-x, bits) = -Rounded(x, bits)
    BY RoundedIsOdd
  <2>6. -(d * v) = (-d) * v /\ -d \in Int
    OBVIOUS
  <2>7. Rounded(i * v, bits) = (-d) * v
    BY <2>2, <2>3, <2>4, <2>5, <2>6
  <2> QED BY <1>1, <2>6, <2>7
<1> QED BY <1>3, <1>4

-----------------------------------------------------------------------------
(* The limits of the types.                                                *)

LEMMA Widths ==
    /\ One \in Nat \ {0} /\ Infinity \in Nat /\ NaN \in Nat /\ MaxTagged \in Nat
    /\ \A t \in Signed : Max[t] \in Nat /\ Max[t] >= 1
    /\ Int32Max \in Nat /\ Int64Max \in Nat /\ UInt32Max \in Nat
    /\ Max["char"] < Max["short"] /\ Max["short"] < Int32Max
    /\ UInt32Max <= MaxTagged /\ MaxTagged < Int64Max
    /\ \A t \in FP : Bits[t] \in Nat \ {0}
    /\ Infinity < NaN
<1>1. One \in Nat \ {0}
  <2>1. One \in Nat
    BY WidthsGrow
  <2>2. PICK j \in 0..One : One = Pow2[j]
    BY WidthsGrow
  <2>3. j \in Nat
    BY <2>1
  <2> QED BY <2>1, <2>2, <2>3, Pow2Positive
<1>2. \A t \in Signed : Max[t] \in Nat /\ Max[t] >= 1
  <2> SUFFICES ASSUME NEW t \in Signed PROVE Max[t] \in Nat /\ Max[t] >= 1
    OBVIOUS
  <2>1. Max[t] \in Nat
    BY WidthsGrow
  <2>2. PICK w \in 1..(Max[t] + 1) : Max[t] + 1 = Pow2[w]
    BY WidthsGrow
  <2>3. Pow2[w] > w /\ Pow2[w] \in Nat
    BY <2>1, <2>2, Pow2Positive
  <2> QED BY <2>1, <2>2, <2>3
<1>3. Int32Max \in Nat /\ Int64Max \in Nat
  BY <1>2 DEF Int32Max, Int64Max, Signed
<1>4. Infinity \in Nat /\ NaN \in Nat /\ MaxTagged \in Nat /\ Infinity < NaN
  BY WidthsGrow
<1>5. /\ Max["char"] < Max["short"] /\ Max["short"] < Int32Max
      /\ UInt32Max <= MaxTagged /\ MaxTagged < Int64Max
  BY WidthsGrow
<1>6. \A t \in FP : Bits[t] \in Nat \ {0}
  <2>1. Bits \in [FP -> Nat \ {0}]
    BY WidthsGrow
  <2> QED BY <2>1
<1>7. UInt32Max \in Nat
  BY <1>3 DEF UInt32Max
<1> QED BY ONLY <1>1, <1>2, <1>3, <1>4, <1>5, <1>6, <1>7

LongEnd == (Int64Max + 1) * One   \* the real next to all longs

LEMMA Scales ==
    /\ \E j \in Nat : One = Pow2[j]
    /\ \E w \in Nat \ {0} : Int64Max + 1 = Pow2[w]
<1>1. "long" \in Signed
  BY DEF Signed
<1>2. PICK w \in 1..(Max["long"] + 1) : Max["long"] + 1 = Pow2[w]
  BY <1>1, WidthsGrow
<1>3. Int64Max + 1 = Pow2[w] /\ w \in Nat \ {0}
  BY <1>2, Widths DEF Int64Max
<1>4. PICK j \in 0..One : One = Pow2[j]
  BY WidthsGrow
<1>5. j \in Nat
  BY Widths
<1> QED BY <1>3, <1>4, <1>5

LEMMA LongEndNumbers ==
    /\ LongEnd \in Nat /\ LongEnd = (Int64Max * One) + One
    /\ Int64Max * One \in Nat /\ One \in Nat \ {0}
    /\ (-Int64Max - 1) * One = -LongEnd
    /\ (-(Int64Max + 1)) * One = -LongEnd
    /\ 2 * One <= LongEnd /\ 2 * LongEnd < Infinity
<1>1. PICK o \in Nat \ {0}, m \in Nat : o = One /\ m = Int64Max /\ m >= 1
  BY Widths DEF Int64Max, Signed
<1>2. 4 * o * m < Infinity
  BY <1>1, WidthsGrow
<1>3. PICK p \in Nat : p = m * o
  OBVIOUS
<1>4. (m + 1) * o = p + o /\ (-m - 1) * o = -(p + o) /\ (-(m + 1)) * o = -(p + o)
  BY <1>3
<1>5. 4 * o * m = 4 * p
  BY <1>3
<1>6. 1 * o <= m * o
  BY <1>1, ProductGrows
<1>7. Infinity \in Nat
  BY Widths
<1> QED BY <1>1, <1>2, <1>3, <1>4, <1>5, <1>6, <1>7 DEF LongEnd

LEMMA LongEndIsPower == \E m \in Nat : LongEnd = Pow2[m]
<1>1. PICK j \in Nat : One = Pow2[j]
  BY Scales
<1>2. PICK w \in Nat : Int64Max + 1 = Pow2[w]
  BY Scales
<1>3. Pow2[w + j] = Pow2[w] * Pow2[j] /\ w + j \in Nat
  BY Pow2Sum
<1> QED BY <1>1, <1>2, <1>3 DEF LongEnd

(* A power of two is never rounded.                                        *)
LEMMA PowerIsFloat ==
    ASSUME NEW bits \in Nat \ {0}, NEW m \in Nat
    PROVE  Float(Pow2[m], bits)
<1>1. 1 < Pow2[bits] /\ 1 \in Nat
  BY Pow2Positive
<1>2. Rounded(1 * Pow2[m], bits) = 1 * Pow2[m]
  BY <1>1, MultipleIsExact
<1>3. 1 * Pow2[m] = Pow2[m]
  BY Pow2Positive
<1> QED BY <1>2, <1>3 DEF Float

(* What is below a power of two is not rounded past it.                    *)
LEMMA RoundedBelowPower ==
    ASSUME NEW bits \in Nat \ {0}, NEW y \in Nat, NEW e \in Nat, Finite(y), y <= Pow2[e]
    PROVE  Rounded(y, bits) <= Pow2[e]
<1>1. Pow2[bits] \in Nat /\ Pow2[e] \in Nat /\ Abs(y) = y
  BY Pow2Positive DEF Abs
<1>2. CASE y < Pow2[bits]
  BY <1>1, <1>2, RoundedSmall
<1>3. CASE Pow2[bits] <= y
  <2>1. PICK k \in Nat, q \in Nat, n \in Nat :
            RoundsTo(y, bits, k, q, n) /\ Rounded(y, bits) = n * Pow2[k]
    BY <1>3, RoundedShape
  <2>2. PICK u \in Nat \ {0} : u = Pow2[k]
    BY Pow2Positive
  <2>3. k # 0 /\ n \in {q, q + 1} /\ q < Pow2[bits] /\ bits + k - 1 \in Nat
    BY <2>1 DEF RoundsTo, IsNearest
  <2>4. PICK p \in Nat : p = Pow2[bits]
    BY <1>1
  <2>5. n * u <= p * u /\ n * u \in Nat /\ p * u \in Nat
    <3>1. n <= p
      BY <2>3, <2>4
    <3> QED BY <3>1, ProductGrows
  <2>6. Pow2[bits + k] = p * u
    BY <2>2, <2>4, Pow2Sum
  <2>7. CASE bits + k <= e
    <3>1. Pow2[bits + k] <= Pow2[e]
      <4>1. bits + k \in Nat
        BY <2>3
      <4> QED BY <2>7, <4>1, Pow2Grows
    <3> QED BY <1>1, <2>1, <2>2, <2>5, <2>6, <3>1
  <2>8. CASE ~(bits + k <= e)
    <3>1. e <= bits + k - 1
      BY <2>3, <2>8
    <3>2. Pow2[e] <= Pow2[bits + k - 1] /\ Pow2[bits + k - 1] \in Nat
      BY <2>3, <3>1, Pow2Grows, Pow2Positive
    <3>3. Pow2[bits + k - 1] <= y
      BY <2>1 DEF RoundsTo, Exceeds
    <3>4. y = Pow2[e]
      BY <1>1, <3>2, <3>3
    <3>5. Float(Pow2[e], bits)
      BY PowerIsFloat
    <3> QED BY <1>1, <3>4, <3>5 DEF Float
  <2> QED BY <2>7, <2>8
<1> QED BY <1>1, <1>2, <1>3

LEMMA LongEndIsFloat ==
    ASSUME NEW bits \in Nat \ {0}
    PROVE  Float(LongEnd, bits) /\ Float(-LongEnd, bits) /\ Float(2 * LongEnd, bits)
<1>1. PICK m \in Nat : LongEnd = Pow2[m]
  BY LongEndIsPower
<1>2. 2 * LongEnd = Pow2[m + 1] /\ m + 1 \in Nat
  BY <1>1, Pow2Step
<1>3. Float(LongEnd, bits) /\ Float(2 * LongEnd, bits)
  BY <1>1, <1>2, PowerIsFloat
<1>4. LongEnd \in Int
  BY LongEndNumbers
<1> QED BY <1>3, <1>4, FloatOfOpposite

LEMMA Small ==
    ASSUME NEW x \in Int, -2 * LongEnd <= x, x <= 2 * LongEnd
    PROVE  Finite(x) /\ Abs(x) < Infinity
  BY Widths, LongEndNumbers DEF Finite, Abs

(* A mantissa without room for all longs: the reals from the largest long  *)
(* on are rounded to the next power of two.                                *)
LEMMA RoundedToLongEnd ==
    ASSUME NEW bits \in Nat \ {0}, Pow2[bits] <= Int64Max,
           NEW y \in Nat, Int64Max * One <= y, y <= LongEnd
    PROVE  Rounded(y, bits) = LongEnd
<1>1. PICK j \in Nat, o \in Nat \ {0} : One = Pow2[j] /\ o = One
  BY Scales, Widths
<1>2. PICK w \in Nat \ {0} : Int64Max + 1 = Pow2[w]
  BY Scales
<1>3. Pow2[bits] \in Nat /\ Pow2[w] \in Nat /\ Pow2[bits] < Pow2[w]
  BY <1>2, Widths, Pow2Positive
<1>4. bits < w
  BY <1>3, Pow2Grows
<1>5. PICK k \in Nat \ {0} : k = w + j - bits
  BY <1>4
<1>6. bits + k = w + j /\ j + 1 <= k /\ bits + k - 1 \in Nat /\ w + j \in Nat
  BY <1>4, <1>5
<1>7. PICK u \in Nat \ {0}, p \in Nat \ {0}, c \in Nat :
          u = Pow2[k] /\ p = Pow2[bits] /\ p = 2 * c
  <2>1. bits - 1 \in Nat /\ (bits - 1) + 1 = bits
    OBVIOUS
  <2>2. Pow2[bits] = 2 * Pow2[bits - 1] /\ Pow2[bits - 1] \in Nat
    BY <2>1, Pow2Step, Pow2Positive
  <2>3. Pow2[k] \in Nat \ {0} /\ Pow2[bits] \in Nat \ {0}
    BY Pow2Positive
  <2> QED BY <2>2, <2>3
<1>8. LongEnd = p * u /\ Pow2[bits + k] = LongEnd
  <2>1. LongEnd = Pow2[w + j]
    <3>1. Pow2[w + j] = Pow2[w] * Pow2[j]
      BY Pow2Sum
    <3> QED BY <1>1, <1>2, <3>1, Zenon DEF LongEnd
  <2>2. Pow2[bits + k] = Pow2[bits] * Pow2[k]
    BY Pow2Sum
  <2>3. Pow2[bits] * Pow2[k] = p * u
    BY <1>7, Zenon
  <2> QED BY <1>6, <2>1, <2>2, <2>3, Zenon
<1>9. 2 * o <= u
  <2>1. Pow2[j + 1] = 2 * o /\ j + 1 \in Nat
    BY <1>1, Pow2Step
  <2>2. Pow2[j + 1] <= Pow2[k]
    BY <1>6, <2>1, Pow2Grows
  <2> QED BY <1>7, <2>1, <2>2
<1>10. LongEnd \in Nat /\ LongEnd - o <= y
  BY <1>1, LongEndNumbers
<1>11. CASE y = LongEnd
  BY <1>11, LongEndIsFloat DEF Float
<1>12. CASE y < LongEnd
  <2>1. Exceeds(y, bits, k)
    <3>1. LongEnd = 2 * Pow2[bits + k - 1]
      <4>1. (bits + k - 1) + 1 = bits + k
        BY <1>6
      <4>2. Pow2[bits + k] = 2 * Pow2[bits + k - 1]
        BY <1>6, <4>1, Pow2Step
      <4> QED BY <1>8, <4>2, Zenon
    <3>2. Pow2[bits + k - 1] \in Nat
      BY <1>6, Pow2Positive
    <3>3. Pow2[bits + k] = LongEnd
      BY <1>8, Zenon
    <3>4. 2 * o <= LongEnd
      BY <1>1, LongEndNumbers
    <3> QED BY <1>10, <1>12, <3>1, <3>2, <3>3, <3>4 DEF Exceeds
  <2>2. Pow2[bits] <= y
    <3>1. Pow2[bits] <= Pow2[bits + k - 1] /\ Pow2[bits + k - 1] \in Nat
      BY <1>6, Pow2Grows, Pow2Positive
    <3> QED BY <1>3, <2>1, <3>1 DEF Exceeds
  <2>3. Finite(y)
    BY <1>12, LongEndNumbers, Small
  <2>4. PICK i \in Nat, q \in Nat, n \in Nat :
            RoundsTo(y, bits, i, q, n) /\ Rounded(y, bits) = n * Pow2[i]
    BY <2>2, <2>3, RoundedShape
  <2>5. i = k
    <3>1. i # 0 /\ Exceeds(y, bits, i)
      BY <2>4 DEF RoundsTo
    <3> QED BY <2>1, <3>1, ExcessIsUnique
  <2>6. IsNearest(y, u, q, n) /\ q + 1 <= p
    BY <1>7, <2>4, <2>5 DEF RoundsTo
  <2>7. q + 1 = p
    <3> SUFFICES ASSUME q + 2 <= p PROVE FALSE
      BY <2>6
    <3>1. (q + 2) * u <= p * u
      BY ProductGrows
    <3>2. (q + 2) * u = ((q + 1) * u) + u /\ (q + 1) * u \in Nat /\ p * u \in Nat
      OBVIOUS
    <3>3. y < (q + 1) * u
      BY <2>6 DEF IsNearest
    <3> QED BY <1>8, <1>9, <1>10, <3>1, <3>2, <3>3
  <2>8. n = q + 1
    <3>1. p * u = (q * u) + u /\ q * u \in Nat
      BY <2>7
    <3>2. 2 * (y - (q * u)) >= u
      BY <1>8, <1>9, <1>10, <3>1
    <3>3. q % 2 = 1
      BY <1>7, <2>7
    <3>4. 2 * (y - (q * u)) > u \/ 2 * (y - (q * u)) = u
      BY <3>1, <3>2
    <3> QED BY <2>6, <3>3, <3>4 DEF IsNearest
  <2> QED BY <1>7, <1>8, <2>4, <2>5, <2>7, <2>8
<1> QED BY <1>10, <1>11, <1>12

-----------------------------------------------------------------------------
(* Conversions to integers.                                                *)

LEMMA RemainderOfSmall ==
    ASSUME NEW m \in Nat \ {0}, NEW x \in 0..(m - 1)
    PROVE  x % m = x
<1>0. x \in Nat
  OBVIOUS
<1>1. PICK q \in Nat, r \in 0..(m - 1) : r = x % m /\ x = (q * m) + r
  <2>1. x \div m \in Nat /\ x % m \in 0..(m - 1) /\ x = ((x \div m) * m) + (x % m)
    BY ONLY <1>0, m \in Nat \ {0}, Division
  <2> QED BY <2>1
<1>2. (0 * m) + x = (q * m) + r
  BY <1>1
<1>3. x = r
  BY ONLY <1>2, x \in 0..(m - 1), r \in 0..(m - 1), m \in Nat \ {0}, q \in Int, 0 \in Int,
          QuotientIsUnique
<1> QED BY <1>1, <1>3

(* Truncation to a multiple.                                               *)
Truncated(x, u) == IF x < 0 THEN -((-x) \div u) ELSE x \div u

LEMMA Truncation ==
    ASSUME NEW x \in Int, NEW u \in Nat \ {0}
    PROVE  /\ Truncated(x, u) \in Int
           /\ x >= 0 => /\ Truncated(x, u) * u <= x /\ x < (Truncated(x, u) * u) + u
                        /\ Truncated(x, u) >= 0
           /\ x < 0  => /\ x <= Truncated(x, u) * u /\ (Truncated(x, u) * u) - u < x
                        /\ Truncated(x, u) <= 0
           /\ Truncated(x, u) * u \in Int
<1>1. CASE x >= 0
  <2>1. PICK q \in Nat, r \in 0..(u - 1) : q = x \div u /\ x = (q * u) + r
    BY <1>1, Division
  <2>2. Truncated(x, u) = q /\ q * u \in Int
    BY <1>1, <2>1 DEF Truncated
  <2> QED BY <1>1, <2>1, <2>2
<1>2. CASE x < 0
  <2>0. PICK y \in Nat : y = -x
    BY <1>2
  <2>1. PICK q \in Nat, r \in 0..(u - 1) : q = (-x) \div u /\ -x = (q * u) + r
    <3>1. /\ y \div u \in Nat /\ y % u \in 0..(u - 1)
          /\ y = ((y \div u) * u) + (y % u)
      BY Division
    <3> QED BY <2>0, <3>1
  <2>2. Truncated(x, u) = -q /\ (-q) * u = -(q * u) /\ q * u \in Int
    BY <1>2, <2>1 DEF Truncated
  <2> QED BY <1>2, <2>1, <2>2
<1> QED BY <1>1, <1>2

LEMMA MultiplesHaveNoRemainder ==
    ASSUME NEW x \in Int, NEW u \in Nat \ {0}
    PROVE  x % u = 0 <=> \E c \in Int : x = c * u
<1>1. x \div u \in Int /\ x % u \in 0..(u - 1) /\ x = (u * (x \div u)) + (x % u)
  OBVIOUS
<1>2. PICK q \in Int, r \in 0..(u - 1) : q = x \div u /\ r = x % u /\ x = (q * u) + r
  BY <1>1
<1>3. ASSUME NEW c \in Int, x = c * u PROVE r = 0
  <2>1. (q * u) + r = (c * u) + 0 /\ 0 \in 0..(u - 1)
    BY <1>2, <1>3
  <2> QED BY ONLY <2>1, q \in Int, c \in Int, r \in 0..(u - 1), u \in Nat \ {0},
                  QuotientIsUnique
<1>4. r = 0 => x = q * u
  BY <1>2
<1> QED BY <1>2, <1>3, <1>4

LEMMA TruncatedMultiple ==
    ASSUME NEW x \in Int, NEW u \in Nat \ {0}
    PROVE  x % u = 0 <=> Truncated(x, u) * u = x
<1>1. ASSUME x % u = 0 PROVE Truncated(x, u) * u = x
  <2>1. PICK c \in Int : x = c * u
    BY <1>1, MultiplesHaveNoRemainder
  <2>2. PICK i \in Int : i = Truncated(x, u)
    BY Truncation
  <2>3. i * u \in Int /\ c * u \in Int
    OBVIOUS
  <2>4. CASE x >= 0
    <3>1. i * u <= c * u /\ c * u < (i * u) + u
      BY <2>1, <2>2, <2>4, Truncation
    <3>2. (c * u) - (i * u) \in 0..(u - 1) /\ 0 \in 0..(u - 1)
      BY <2>3, <3>1
    <3>3. (i * u) + ((c * u) - (i * u)) = (c * u) + 0
      BY <2>3
    <3>4. i = c
      BY ONLY <3>2, <3>3, i \in Int, c \in Int, u \in Nat \ {0}, QuotientIsUnique
    <3> QED BY <2>1, <2>2, <3>4
  <2>5. CASE x < 0
    <3>1. c * u <= i * u /\ (i * u) - u < c * u
      BY <2>1, <2>2, <2>5, Truncation
    <3>2. (i * u) - (c * u) \in 0..(u - 1) /\ 0 \in 0..(u - 1)
      BY <2>3, <3>1
    <3>3. (c * u) + ((i * u) - (c * u)) = (i * u) + 0
      BY <2>3
    <3>4. i = c
      BY ONLY <3>2, <3>3, i \in Int, c \in Int, u \in Nat \ {0}, QuotientIsUnique
    <3> QED BY <2>1, <2>2, <3>4
  <2> QED BY <2>4, <2>5
<1>2. ASSUME Truncated(x, u) * u = x PROVE x % u = 0
  BY <1>2, Truncation, MultiplesHaveNoRemainder
<1> QED BY <1>1, <1>2

LEMMA WrappedSigned ==
    ASSUME NEW t \in Signed, NEW i \in (-Max[t] - 1)..Max[t]
    PROVE  Wrapped(t, i) = i
<1>1. PICK m \in Nat : m = Max[t]
  BY Widths
<1>2. 2 * m + 2 \in Nat \ {0} /\ i + m + 1 \in 0..((2 * m + 2) - 1)
  BY <1>1
<1>3. (i + m + 1) % (2 * m + 2) = i + m + 1
  BY <1>2, RemainderOfSmall
<1> QED BY <1>1, <1>3 DEF Wrapped

LEMMA UnsignedTypes ==
    /\ DOMAIN Unsigned = {"uchar", "ushort", "uint", "ulong"}
    /\ Unsigned["uchar"] = "char" /\ Unsigned["ushort"] = "short"
    /\ Unsigned["uint"] = "int" /\ Unsigned["ulong"] = "long"
    /\ \A t \in DOMAIN Unsigned : Unsigned[t] \in Signed /\ t \notin Signed /\ t \notin FP
<1>1. DOMAIN Unsigned = {"uchar", "ushort", "uint", "ulong"}
  BY DEF Unsigned
<1>2. /\ Unsigned["uchar"] = "char" /\ Unsigned["ushort"] = "short"
      /\ Unsigned["uint"] = "int" /\ Unsigned["ulong"] = "long"
  BY DEF Unsigned
<1>3. \A t \in {"uchar", "ushort", "uint", "ulong"} : t \notin Signed /\ t \notin FP
  BY DEF Signed, FP
<1>4. {"char", "short", "int", "long"} \subseteq Signed
  BY DEF Signed
<1> QED BY <1>1, <1>2, <1>3, <1>4

LEMMA WrappedUnsigned ==
    ASSUME NEW t \in DOMAIN Unsigned, NEW i \in 0..(2 * Max[Unsigned[t]] + 1)
    PROVE  Wrapped(t, i) = i
<1>1. PICK m \in Nat : m = Max[Unsigned[t]]
  BY Widths, UnsignedTypes
<1>2. 2 * m + 2 \in Nat \ {0} /\ i \in 0..((2 * m + 2) - 1)
  BY <1>1
<1>3. i % (2 * m + 2) = i
  BY <1>2, RemainderOfSmall
<1>4. t \notin Signed
  BY UnsignedTypes
<1> QED BY <1>1, <1>3, <1>4 DEF Wrapped

-----------------------------------------------------------------------------
(* The inductive invariant.                                                *)

(* LLONG_MAX made of the float or double 2^63.                             *)
Blurry(n) == /\ n.type \in {"float", "double"} /\ n.class = "Int64"
             /\ n.value = Int64Max /\ n.given = LongEnd

(* The value is the real a number was made with.                           *)
Exact(n) == IF n.class \in IntClass
            THEN n.given = n.value * One
            ELSE n.given = n.value /\ ObjCType(n) = n.type /\ Fits(n.type, n.value)

GivesBack(n) == n.given # NaN => RealOf(n.type, ValueAs(n.type, n)) = n.given

(* No integer of 32 bits is left out of tagged pointers.                   *)
WellTagged(n) == tps => n.class \notin {"Int32", "UInt32"}

Sound(n) == /\ n \in Instance /\ n.type \in Type
            /\ Canonical(n) /\ WellTagged(n)
            /\ (Exact(n) \/ Blurry(n)) /\ GivesBack(n)

IInv == tps \in BOOLEAN /\ \A n \in Numbers : Sound(n)

LEMMA ClassParts ==
    /\ IntClass = {"Bool", "TaggedInteger", "Int32", "Int64", "UInt32", "UInt64"}
    /\ FPClass = {"TaggedFloat", "Float", "TaggedDouble", "Double", "LongDouble"}
    /\ IntClass \cap FPClass = {}
  BY DEF IntClass, FPClass

LEMMA CanonicalParts ==
    ASSUME NEW n, n.class \in IntClass \cup FPClass
    PROVE  Canonical(n) <=>
             /\ n.class = "Bool" => n.value \in {0, 1}
             /\ n.class = "TaggedInteger" => Tagged(n.value) /\ n.value <= UInt32Max
             /\ n.class = "Int32" => n.value \in (-Int32Max - 1)..Int32Max
             /\ n.class = "UInt32" => n.value \in (Max["char"] + 1)..UInt32Max
             /\ n.class = "Int64" => /\ n.value \in (-Int64Max - 1)..Int64Max
                                     /\ n.value \notin (-Int32Max - 1)..Int32Max
             /\ n.class = "UInt64" => n.value \in (Int64Max + 1)..(2 * Int64Max + 1)
             /\ n.class \in FPClass =>
                   ~(n.value \in (-Int64Max - 1) * One .. Int64Max * One /\ n.value % One = 0)
  BY Zenon DEF Canonical, IntClass, FPClass

LEMMA ObjCTypes ==
    ASSUME NEW n, n.class \in IntClass \cup FPClass
    PROVE  /\ n.class = "Bool" => ObjCType(n) = "BOOL"
           /\ n.class = "Int32" => ObjCType(n) = "int"
           /\ n.class \in {"TaggedInteger", "Int64"} => ObjCType(n) = "long"
           /\ n.class = "UInt32" => ObjCType(n) = "uint"
           /\ n.class = "UInt64" => ObjCType(n) = "ulong"
           /\ n.class \in {"TaggedFloat", "Float"} => ObjCType(n) = "float"
           /\ n.class \in {"TaggedDouble", "Double"} => ObjCType(n) = "double"
           /\ n.class = "LongDouble" => ObjCType(n) = "long double"
  BY DEF ObjCType, IntClass, FPClass

-----------------------------------------------------------------------------
(* What the initializers make.                                             *)

LEMMA Types ==
    /\ Type = Signed \cup DOMAIN Unsigned \cup FP \cup {"BOOL"}
    /\ "BOOL" \notin Signed \cup DOMAIN Unsigned \cup FP
    /\ Signed \cap DOMAIN Unsigned = {} /\ Signed \cap FP = {} /\ DOMAIN Unsigned \cap FP = {}
<1>1. "BOOL" \notin Signed \cup FP /\ Signed \cap FP = {}
  BY DEF Signed, FP
<1>2. "BOOL" \notin DOMAIN Unsigned
  BY UnsignedTypes
<1>3. Signed \cap DOMAIN Unsigned = {} /\ DOMAIN Unsigned \cap FP = {}
  BY UnsignedTypes
<1> QED BY <1>1, <1>2, <1>3 DEF Type

LEMMA NewParts ==
    ASSUME NEW t \in Type, NEW v
    PROVE  /\ t = "BOOL" => New(t, v) = {InitWithBOOL(v)}
           /\ t \in Signed => New(t, v) = {InitWithSigned(v)}
           /\ t \in DOMAIN Unsigned => New(t, v) = {InitWithUnsigned(t, v)}
           /\ t \in FP => New(t, v) = InitWithFP(t, v)
<1>1. CASE t = "BOOL"
  <2>1. t \notin Signed /\ t \notin DOMAIN Unsigned /\ t \notin FP
    BY <1>1, Types
  <2> QED BY ONLY <1>1, <2>1, Zenon DEF New
<1>2. CASE t \in Signed
  <2>1. t # "BOOL" /\ t \notin DOMAIN Unsigned /\ t \notin FP
    BY <1>2, Types
  <2> QED BY ONLY <1>2, <2>1, Zenon DEF New
<1>3. CASE t \in DOMAIN Unsigned
  <2>1. t # "BOOL" /\ t \notin Signed /\ t \notin FP
    BY <1>3, Types
  <2> QED BY ONLY <1>3, <2>1, Zenon DEF New
<1>4. CASE t \in FP
  <2>1. t # "BOOL" /\ t \notin Signed /\ t \notin DOMAIN Unsigned
    BY <1>4, Types
  <2> QED BY ONLY <1>4, <2>1, Zenon DEF New
<1> QED BY <1>1, <1>2, <1>3, <1>4, Types

(* An object with an integer class for i.                                  *)
IsInteger(o, i) == o.class \in IntClass /\ o.value = i /\ Canonical(o) /\ WellTagged(o)

LEMMA InitWithBOOLIsInteger ==
    ASSUME NEW i \in {0, 1}
    PROVE  IsInteger(InitWithBOOL(i), i)
<1>1. InitWithBOOL(i).class = "Bool" /\ InitWithBOOL(i).value = i
  BY DEF InitWithBOOL, Object
<1>2. "Bool" \in IntClass /\ "Bool" \notin FPClass
  BY DEF IntClass, FPClass
<1> QED BY <1>1, <1>2, CanonicalParts DEF IsInteger, WellTagged

LEMMA InitWithInt32IsInteger ==
    ASSUME NEW i \in (-Int32Max - 1)..Int32Max
    PROVE  IsInteger(InitWithInt32(i), i)
<1>1. InitWithInt32(i).value = i
  BY DEF InitWithInt32, Object
<1>2. InitWithInt32(i).class = IF Tagged(i) THEN "TaggedInteger" ELSE "Int32"
  BY DEF InitWithInt32, Object
<1>3. {"TaggedInteger", "Int32"} \subseteq IntClass /\ {"TaggedInteger", "Int32"} \cap FPClass = {}
  BY DEF IntClass, FPClass
<1>4. i <= UInt32Max
  BY Widths DEF UInt32Max
<1>5. tps => Tagged(i)
  BY Widths DEF UInt32Max, Tagged
<1>6. WellTagged(InitWithInt32(i))
  BY <1>2, <1>5 DEF WellTagged
<1> QED BY <1>1, <1>2, <1>3, <1>4, <1>6, CanonicalParts DEF IsInteger

LEMMA InitWithSignedIsInteger ==
    ASSUME NEW i \in (-Int64Max - 1)..Int64Max
    PROVE  /\ IsInteger(InitWithSigned(i), i)
           /\ i = Int64Max => InitWithSigned(i).class = "Int64"
<1>1. CASE i \in (-Int32Max - 1)..Int32Max
  <2>1. InitWithSigned(i) = InitWithInt32(i) /\ i # Int64Max
    BY <1>1, Widths DEF InitWithSigned, UInt32Max
  <2> QED BY <1>1, <2>1, InitWithInt32IsInteger
<1>2. CASE i \notin (-Int32Max - 1)..Int32Max
  <2>1. InitWithSigned(i).value = i /\ InitWithSigned(i).class = "Int64"
    BY <1>2 DEF InitWithSigned, Object
  <2>2. "Int64" \in IntClass /\ "Int64" \notin FPClass
    BY DEF IntClass, FPClass
  <2> QED BY <1>2, <2>1, <2>2, CanonicalParts DEF IsInteger, WellTagged
<1> QED BY <1>1, <1>2

LEMMA InitWithUnsignedIsInteger ==
    ASSUME NEW t \in DOMAIN Unsigned, NEW i \in 0..(2 * Max[Unsigned[t]] + 1)
    PROVE  IsInteger(InitWithUnsigned(t, i), i)
<1>1. PICK m \in Nat : m = Max[Unsigned[t]]
  BY UnsignedTypes, Widths
<1>2. Max["char"] <= m /\ m <= Int64Max
  BY <1>1, UnsignedTypes, Widths DEF Int32Max, Int64Max, UInt32Max, Signed
<1>3. CASE i <= m
  <2>1. i \in (-Int64Max - 1)..Int64Max
    BY <1>1, <1>2, <1>3, Widths
  <2> QED BY <1>1, <1>3, <2>1, InitWithSignedIsInteger DEF InitWithUnsigned
<1>4. CASE ~(i <= m) /\ i <= UInt32Max
  <2>1. InitWithUnsigned(t, i) = InitWithUInt32(i)
    BY <1>1, <1>4 DEF InitWithUnsigned
  <2>2. InitWithUInt32(i).value = i
    BY DEF InitWithUInt32, Object
  <2>3. InitWithUInt32(i).class = IF Tagged(i) THEN "TaggedInteger" ELSE "UInt32"
    BY DEF InitWithUInt32, Object
  <2>4. {"TaggedInteger", "UInt32"} \subseteq IntClass /\ {"TaggedInteger", "UInt32"} \cap FPClass = {}
    BY DEF IntClass, FPClass
  <2>5. i \in (Max["char"] + 1)..UInt32Max
    BY <1>1, <1>2, <1>4, Widths DEF Signed
  <2>6. tps => Tagged(i)
    <3>1. i \in Nat
      OBVIOUS
    <3> QED BY <1>4, <3>1, Widths DEF Tagged
  <2>7. WellTagged(InitWithUInt32(i))
    BY <2>3, <2>6 DEF WellTagged
  <2> QED BY <2>1, <2>2, <2>3, <2>4, <2>5, <2>7, CanonicalParts DEF IsInteger
<1>5. CASE ~(i <= m) /\ ~(i <= UInt32Max)
  <2>1. m = Int64Max
    <3>1. CASE t = "ulong"
      BY <1>1, <3>1, UnsignedTypes DEF Int64Max
    <3>2. CASE t # "ulong"
      <4>1. m <= Int32Max
        BY <1>1, <3>2, UnsignedTypes, Widths DEF Int32Max, Signed
      <4>2. i <= UInt32Max
        BY <1>1, <4>1, Widths DEF UInt32Max
      <4> QED BY <1>5, <4>2
    <3> QED BY <3>1, <3>2
  <2>2. i \in (Int64Max + 1)..(2 * Int64Max + 1)
    BY <1>1, <1>5, <2>1
  <2>3. InitWithUnsigned(t, i).value = i /\ InitWithUnsigned(t, i).class = "UInt64"
    BY <1>1, <1>5 DEF InitWithUnsigned, Object
  <2>4. "UInt64" \in IntClass /\ "UInt64" \notin FPClass
    BY DEF IntClass, FPClass
  <2> QED BY <2>2, <2>3, <2>4, CanonicalParts DEF IsInteger, WellTagged
<1> QED BY <1>3, <1>4, <1>5

(* A number for a type, a real and an object.                              *)
IsNumber(n, t, x, o) ==
    n = [type |-> t, given |-> x, class |-> o.class, value |-> o.value]

LEMMA CanonicalOfObject ==
    ASSUME NEW n, NEW t, NEW x, NEW o, IsNumber(n, t, x, o), o.class \in IntClass \cup FPClass
    PROVE  Canonical(n) <=> Canonical(o)
<1>1. n.class = o.class /\ n.value = o.value
  BY DEF IsNumber
<1> QED BY <1>1, Zenon DEF Canonical

LEMMA IntegerFits ==
    ASSUME NEW t \in Type \ FP, NEW i, Fits(t, i)
    PROVE  /\ i \in Int
           /\ t = "BOOL" => i \in {0, 1}
           /\ t \in Signed => i \in (-Max[t] - 1)..Max[t] /\ i \in (-Int64Max - 1)..Int64Max
           /\ t \in DOMAIN Unsigned => i \in 0..(2 * Max[Unsigned[t]] + 1)
<1>1. CASE t = "BOOL"
  BY <1>1, Types DEF Fits
<1>2. CASE t \in Signed
  <2>1. i \in (-Max[t] - 1)..Max[t] /\ Max[t] \in Nat
    BY <1>2, Types, Widths DEF Fits
  <2>2. Max[t] <= Int64Max
    BY <1>2, Widths DEF Signed, Int32Max, Int64Max, UInt32Max
  <2> QED BY <1>2, <2>1, <2>2, Types, Widths
<1>3. CASE t \in DOMAIN Unsigned
  <2>1. i \in 0..(2 * Max[Unsigned[t]] + 1) /\ Max[Unsigned[t]] \in Nat
    BY <1>3, Types, UnsignedTypes, Widths DEF Fits
  <2> QED BY <1>3, <2>1, Types
<1> QED BY <1>1, <1>2, <1>3, Types

LEMMA NewInteger ==
    ASSUME NEW t \in Type \ FP, NEW i, Fits(t, i), NEW o \in New(t, i)
    PROVE  IsInteger(o, i)
<1>1. CASE t = "BOOL"
  BY <1>1, NewParts, IntegerFits, InitWithBOOLIsInteger
<1>2. CASE t \in Signed
  BY <1>2, NewParts, IntegerFits, InitWithSignedIsInteger
<1>3. CASE t \in DOMAIN Unsigned
  BY <1>3, NewParts, IntegerFits, InitWithUnsignedIsInteger
<1> QED BY <1>1, <1>2, <1>3, Types

LEMMA IntegerIsSound ==
    ASSUME NEW t \in Type \ FP, NEW i, Fits(t, i), NEW o \in New(t, i),
           NEW n, IsNumber(n, t, RealOf(t, i), o)
    PROVE  Sound(n)
<1>1. i \in Int /\ IsInteger(o, i)
  BY IntegerFits, NewInteger
<1>2. n.type = t /\ n.given = RealOf(t, i) /\ n.class = o.class /\ n.value = i
  BY <1>1 DEF IsNumber, IsInteger
<1>3. RealOf(t, i) = i * One /\ i * One \in Int
  BY <1>1, Widths DEF RealOf
<1>4. n \in Instance
  BY <1>1, <1>2, <1>3, Types DEF IsNumber, IsInteger, Instance, Type
<1>5. Canonical(n)
  BY <1>1, CanonicalOfObject DEF IsInteger
<1>6. Exact(n)
  BY <1>1, <1>2, <1>3 DEF Exact, IsInteger
<1>7. ValueAs(t, n) = i
  <2>1. CASE t = "BOOL"
    <3>1. i \in {0, 1}
      BY <2>1, IntegerFits
    <3> QED BY <1>2, <2>1, <3>1 DEF ValueAs
  <2>2. CASE t \in Signed
    <3>1. Wrapped(t, i) = i
      BY <2>2, IntegerFits, WrappedSigned
    <3> QED BY <1>2, <2>2, <3>1, Types DEF ValueAs
  <2>3. CASE t \in DOMAIN Unsigned
    <3>1. Wrapped(t, i) = i
      BY <2>3, IntegerFits, WrappedUnsigned
    <3> QED BY <1>2, <2>3, <3>1, Types DEF ValueAs
  <2> QED BY <2>1, <2>2, <2>3, Types
<1>8. GivesBack(n)
  BY <1>2, <1>7 DEF GivesBack
<1>9. WellTagged(n)
  BY <1>1, <1>2 DEF WellTagged, IsInteger
<1> QED BY <1>2, <1>4, <1>5, <1>6, <1>8, <1>9 DEF Sound

LEMMA RealFits ==
    ASSUME NEW t \in FP, NEW x, Fits(t, x)
    PROVE  /\ x \in Int /\ Float(x, Bits[t]) /\ Bits[t] \in Nat \ {0}
           /\ x \in -Infinity..Infinity \cup {NaN}
<1>1. t # "BOOL" /\ t \notin Signed /\ t \notin DOMAIN Unsigned
  BY Types
<1>2. x \in -Infinity..Infinity \cup {NaN} /\ Rounded(x, Bits[t]) = x
  BY <1>1 DEF Fits
<1> QED BY <1>2, Widths DEF Float

(* An integer that fits into a long, in units.                             *)
LongReal(x) == x \in (-Int64Max - 1) * One .. Int64Max * One /\ x % One = 0

LEMMA ConcreteObject ==
    ASSUME NEW t \in FP, NEW x
    PROVE  /\ Concrete(t, x).value = x
           /\ Concrete(t, x).class \in FPClass /\ Concrete(t, x).class \notin IntClass
           /\ \A n : n.class = Concrete(t, x).class => ObjCType(n) = t
<1>1. CASE t = "float"
  <2>1. Concrete(t, x) = Object(IF tps THEN "TaggedFloat" ELSE "Float", x)
    BY <1>1, Zenon DEF Concrete
  <2>2. Concrete(t, x).value = x /\ Concrete(t, x).class \in {"TaggedFloat", "Float"}
    BY <2>1 DEF Object
  <2>3. {"TaggedFloat", "Float"} \subseteq FPClass /\ {"TaggedFloat", "Float"} \cap IntClass = {}
    BY DEF IntClass, FPClass
  <2> QED BY <1>1, <2>2, <2>3, ObjCTypes
<1>2. CASE t = "double"
  <2>1. Concrete(t, x) = Object(IF tps /\ x \in TaggedDoubles THEN "TaggedDouble"
                                                              ELSE "Double", x)
    <3>1. t # "float"
      BY <1>2
    <3> QED BY <1>2, <3>1, Zenon DEF Concrete
  <2>2. Concrete(t, x).value = x /\ Concrete(t, x).class \in {"TaggedDouble", "Double"}
    BY <2>1 DEF Object
  <2>3. {"TaggedDouble", "Double"} \subseteq FPClass /\ {"TaggedDouble", "Double"} \cap IntClass = {}
    BY DEF IntClass, FPClass
  <2> QED BY <1>2, <2>2, <2>3, ObjCTypes
<1>3. CASE t = "long double"
  <2>1. Concrete(t, x) = Object("LongDouble", x)
    <3>1. t # "float" /\ t # "double"
      BY <1>3
    <3> QED BY <1>3, <3>1, Zenon DEF Concrete
  <2>2. Concrete(t, x).value = x /\ Concrete(t, x).class = "LongDouble"
    BY <2>1 DEF Object
  <2>3. "LongDouble" \in FPClass /\ "LongDouble" \notin IntClass
    BY DEF IntClass, FPClass
  <2> QED BY <1>3, <2>2, <2>3, ObjCTypes
<1> QED BY <1>1, <1>2, <1>3 DEF FP

LEMMA ConcreteIsSound ==
    ASSUME NEW t \in FP, NEW x, Fits(t, x), ~LongReal(x),
           NEW n, IsNumber(n, t, x, Concrete(t, x))
    PROVE  Sound(n)
<1>1. x \in Int /\ Float(x, Bits[t])
  BY RealFits
<1>2. PICK c : c = Concrete(t, x).class
  OBVIOUS
<1>3. c \in FPClass /\ c \notin IntClass
  BY <1>2, ConcreteObject
<1>4. n = [type |-> t, given |-> x, class |-> c, value |-> x]
  BY <1>2, ConcreteObject DEF IsNumber
<1>5. n.type = t /\ n.given = x /\ n.class = c /\ n.value = x /\ t \in Type
  BY <1>4, Types
<1>6. n \in Instance
  BY <1>1, <1>3, <1>4, <1>5 DEF Instance
<1>7. ObjCType(n) = t
  BY <1>2, <1>5, ConcreteObject
<1>8. Canonical(n)
  <2>1. n.class \notin {"Bool", "TaggedInteger", "Int32", "UInt32", "Int64", "UInt64"}
    BY <1>3, <1>5 DEF IntClass
  <2> QED BY <1>3, <1>5, <2>1, CanonicalParts DEF LongReal
<1>9. Exact(n)
  BY <1>3, <1>5, <1>7 DEF Exact
<1>10. GivesBack(n)
  <2>1. t # "BOOL"
    BY Types
  <2>2. Real(n) = x
    BY <1>3, <1>5 DEF Real
  <2>3. ValueAs(t, n) = Rounded(x, Bits[t])
    BY <2>1, <2>2 DEF ValueAs
  <2> QED BY <1>1, <1>5, <2>3 DEF GivesBack, RealOf, Float
<1>11. WellTagged(n)
  BY <1>3, <1>5, ClassParts DEF WellTagged
<1> QED BY <1>5, <1>6, <1>8, <1>9, <1>10, <1>11 DEF Sound

(* A number of an integer class for a long that is rounded to the real.    *)
LEMMA LongIsSound ==
    ASSUME NEW t \in FP, NEW x, Fits(t, x), NEW l \in (-Int64Max - 1)..Int64Max,
           Rounded(l * One, Bits[t]) = x,
           \/ l * One = x
           \/ l = Int64Max /\ x = LongEnd /\ t \in {"float", "double"},
           NEW n, IsNumber(n, t, x, InitWithSigned(l))
    PROVE  Sound(n)
<1>1. x \in Int /\ l \in Int
  BY RealFits, Widths
<1>2. IsInteger(InitWithSigned(l), l) /\ (l = Int64Max => InitWithSigned(l).class = "Int64")
  BY InitWithSignedIsInteger
<1>3. PICK c : c = InitWithSigned(l).class /\ c \in IntClass
  BY <1>2 DEF IsInteger
<1>4. n = [type |-> t, given |-> x, class |-> c, value |-> l]
  BY <1>2, <1>3 DEF IsNumber, IsInteger
<1>5. n.type = t /\ n.given = x /\ n.class = c /\ n.value = l /\ t \in Type
  BY <1>4, Types
<1>6. n \in Instance
  BY <1>1, <1>3, <1>4, <1>5 DEF Instance
<1>7. Canonical(n)
  BY <1>2, CanonicalOfObject DEF IsInteger
<1>8. Exact(n) \/ Blurry(n)
  BY <1>2, <1>3, <1>5 DEF Exact, Blurry
<1>9. GivesBack(n)
  <2>1. t # "BOOL"
    BY Types
  <2>2. Real(n) = l * One
    BY <1>3, <1>5 DEF Real
  <2>3. ValueAs(t, n) = Rounded(l * One, Bits[t])
    BY <2>1, <2>2 DEF ValueAs
  <2> QED BY <1>5, <2>3 DEF GivesBack, RealOf
<1>10. WellTagged(n)
  BY <1>2, <1>3, <1>5 DEF WellTagged, IsInteger
<1> QED BY <1>5, <1>6, <1>7, <1>8, <1>9, <1>10 DEF Sound

(* The integers a real in the range of the test is cut to.                 *)
LEMMA LongsOfReals ==
    ASSUME NEW x \in Int, -LongEnd <= x, x <= LongEnd
    PROVE  /\ x <= Int64Max * One =>
                  /\ ToLong(x) = {Truncated(x, One)}
                  /\ Truncated(x, One) \in (-Int64Max - 1)..Int64Max
           /\ x = LongEnd => ToLong(x) = {-(Int64Max + 1), Int64Max}
<1>1. PICK o \in Nat \ {0}, m \in Nat : o = One /\ m = Int64Max
  BY Widths
<1>2. PICK e \in Nat, f \in Nat : e = LongEnd /\ f = m * o /\ e = f + o
                                  /\ (m + 1) * o = e /\ (-m - 1) * o = -e
  BY <1>1, LongEndNumbers DEF LongEnd
<1>3. PICK i \in Int : i = Truncated(x, o)
  BY Truncation
<1>4. ToLong(x) = IF i \in (-m - 1)..m THEN {i} ELSE {-(m + 1), m}
  BY <1>1, <1>3 DEF ToLong, Truncated
<1>5. ASSUME x <= f PROVE i \in (-m - 1)..m
  <2>1. ~(m + 1 <= i)
    <3> SUFFICES ASSUME m + 1 <= i PROVE FALSE
      OBVIOUS
    <3>1. (m + 1) * o <= i * o /\ i * o \in Int
      BY ProductGrows
    <3>2. x >= 0
      BY <1>3, Truncation
    <3> QED BY <1>2, <1>3, <1>5, <3>1, <3>2, Truncation
  <2>2. ~(i <= -m - 2)
    <3> SUFFICES ASSUME i <= -m - 2 PROVE FALSE
      OBVIOUS
    <3>1. i * o <= (-m - 2) * o /\ i * o \in Int
      BY ProductGrows
    <3>2. (-m - 2) * o = ((-m - 1) * o) - o
      OBVIOUS
    <3>3. x < 0
      BY <1>3, Truncation
    <3> QED BY <1>1, <1>2, <1>3, <3>1, <3>2, <3>3, Truncation
  <2> QED BY <2>1, <2>2
<1>6. ASSUME x = e PROVE i \notin (-m - 1)..m
  <2>1. x = (m + 1) * o
    BY <1>2, <1>6
  <2>2. x % o = 0
    BY <2>1, MultiplesHaveNoRemainder
  <2>3. i * o = (m + 1) * o
    BY <1>3, <2>1, <2>2, TruncatedMultiple
  <2>4. ~(i <= m)
    <3> SUFFICES ASSUME i <= m PROVE FALSE
      OBVIOUS
    <3>1. i * o <= m * o /\ m * o \in Int /\ (m + 1) * o = (m * o) + o
      BY ProductGrows
    <3> QED BY <2>3, <3>1
  <2> QED BY <2>4
<1> QED BY <1>1, <1>2, <1>3, <1>4, <1>5, <1>6

(* The test of the range, which is rounded itself, lets the longs and the  *)
(* next power of two pass.                                                 *)
InRange(t, x) == -(Int64Max + 1) * One <= x /\ x <= Rounded(Int64Max * One, Bits[t])

LEMMA Int64MaxIsRounded ==
    ASSUME NEW bits \in Nat \ {0}
    PROVE  /\ Rounded(Int64Max * One, bits) \in Int
           /\ Rounded(Int64Max * One, bits) <= LongEnd
           /\ \A x \in Int : Float(x, bits) /\ x <= Int64Max * One => x <= Rounded(Int64Max * One, bits)
           /\ IF Pow2[bits] <= Int64Max THEN Rounded(Int64Max * One, bits) = LongEnd
                                     ELSE Rounded(Int64Max * One, bits) = Int64Max * One
<1>1. PICK f \in Nat : f = Int64Max * One /\ f <= LongEnd
  BY LongEndNumbers
<1>2. Finite(f) /\ Finite(LongEnd) /\ LongEnd \in Nat
  BY <1>1, LongEndNumbers, Small
<1>3. Rounded(f, bits) \in Int
  BY RoundedIsInt
<1>4. Rounded(f, bits) <= LongEnd
  BY <1>1, <1>2, RoundedOrder, LongEndIsFloat
<1>5. ASSUME NEW x \in Int, Float(x, bits), x <= f PROVE x <= Rounded(f, bits)
  <2>1. CASE Finite(x)
    BY <1>2, <1>5, <2>1, RoundedOrder
  <2>2. CASE ~Finite(x)
    <3>1. x < -LongEnd
      BY <1>1, <1>5, <2>2, Small, LongEndNumbers
    <3>2. Finite(-LongEnd) /\ Float(-LongEnd, bits) /\ -LongEnd \in Int
      BY <1>2, LongEndNumbers, Small, LongEndIsFloat
    <3>3. -LongEnd <= Rounded(f, bits)
      BY <1>1, <1>2, <3>2, RoundedOrder
    <3> QED BY <1>2, <1>3, <3>1, <3>3
  <2> QED BY <2>1, <2>2
<1>6. CASE Pow2[bits] <= Int64Max
  BY <1>1, <1>3, <1>4, <1>5, <1>6, RoundedToLongEnd
<1>7. CASE ~(Pow2[bits] <= Int64Max)
  <2>1. PICK j \in Nat : One = Pow2[j]
    BY Scales
  <2>2. Int64Max \in Nat /\ Int64Max < Pow2[bits]
    BY <1>7, Widths, Pow2Positive
  <2>3. Rounded(Int64Max * Pow2[j], bits) = Int64Max * Pow2[j]
    BY <2>2, MultipleIsExact
  <2> QED BY <1>1, <1>3, <1>4, <1>5, <1>7, <2>1, <2>3
<1> QED BY <1>6, <1>7

LEMMA RealIsSound ==
    ASSUME NEW t \in FP, NEW x, Fits(t, x), NEW o \in New(t, x),
           NEW n, IsNumber(n, t, x, o)
    PROVE  Sound(n)
<1>1. PICK bits \in Nat \ {0} : bits = Bits[t]
  BY Widths
<1>2. x \in Int /\ Float(x, bits)
  BY <1>1, RealFits
<1>3. o \in InitWithFP(t, x)
  BY NewParts, Types
<1>4. PICK f \in Nat, g \in Int : f = Int64Max * One /\ g = Rounded(f, bits)
  BY <1>1, LongEndNumbers, Int64MaxIsRounded
<1>5. LongEnd \in Nat /\ f < LongEnd /\ g <= LongEnd
  BY <1>4, LongEndNumbers, Int64MaxIsRounded
<1>9. InRange(t, x) <=> -LongEnd <= x /\ x <= g
  <2>1. -(Int64Max + 1) * One = -LongEnd
    BY LongEndNumbers DEF LongEnd
  <2> QED BY <1>1, <1>4, <2>1 DEF InRange
<1>6. -LongEnd <= x /\ x <= f /\ x % One = 0 <=> LongReal(x)
  BY <1>2, <1>4, LongEndNumbers DEF LongReal
<1>7. CASE ~InRange(t, x)
  <2>1. o = Concrete(t, x)
    BY <1>3, <1>7 DEF InitWithFP, InRange
  <2>2. x < -LongEnd \/ g < x
    BY <1>2, <1>4, <1>5, <1>7, <1>9
  <2>3. ~LongReal(x)
    <3>1. x <= f => x <= g
      BY <1>2, <1>4, Int64MaxIsRounded
    <3> QED BY <1>2, <1>4, <1>5, <1>6, <2>2, <3>1
  <2> QED BY <2>1, <2>3, ConcreteIsSound
<1>8. CASE InRange(t, x)
  <2>1. -LongEnd <= x /\ x <= g /\ x <= LongEnd
    BY <1>2, <1>4, <1>5, <1>8, <1>9
  <2>2. PICK l \in ToLong(x) :
            o = IF Rounded(l * One, bits) = x THEN InitWithSigned(l) ELSE Concrete(t, x)
    BY <1>1, <1>3, <1>8 DEF InitWithFP, InRange
  <2>3. CASE x <= f
    <3>1. l = Truncated(x, One) /\ l \in (-Int64Max - 1)..Int64Max /\ l \in Int
      BY <1>2, <1>4, <2>1, <2>2, <2>3, LongsOfReals, Widths
    <3>2. x % One = 0 <=> l * One = x
      BY <1>2, <3>1, Widths, TruncatedMultiple
    <3>3. CASE Rounded(l * One, bits) = x
      <4>1. PICK j \in Nat : One = Pow2[j]
        BY Scales
      <4>2. \E d \in Int : x = d * One
        <5>1. PICK d \in Int : Rounded(l * Pow2[j], bits) = d * Pow2[j]
          BY <3>1, RoundedMultiple
        <5> QED BY <3>3, <4>1, <5>1
      <4>3. x % One = 0
        BY <1>2, <4>2, Widths, MultiplesHaveNoRemainder
      <4> QED BY <1>1, <2>2, <3>1, <3>2, <3>3, <4>3, LongIsSound
    <3>4. CASE Rounded(l * One, bits) # x
      <4>1. l * One # x
        BY <1>2, <3>4 DEF Float
      <4> QED BY <1>6, <2>2, <3>2, <3>4, <4>1, ConcreteIsSound
    <3> QED BY <3>3, <3>4
  <2>4. CASE f < x
    <3>1. Pow2[bits] <= Int64Max
      <4> SUFFICES ASSUME ~(Pow2[bits] <= Int64Max) PROVE FALSE
        OBVIOUS
      <4>1. g = f
        BY <1>4, Int64MaxIsRounded
      <4> QED BY <1>2, <1>4, <2>1, <2>4, <4>1
    <3>2. x = LongEnd
      <4>1. x \in Nat
        BY <1>2, <1>4, <2>4
      <4>2. Rounded(x, bits) = LongEnd
        BY <1>4, <2>1, <2>4, <3>1, <4>1, RoundedToLongEnd
      <4> QED BY <1>2, <4>2 DEF Float
    <3>3. l \in {-(Int64Max + 1), Int64Max}
      BY <1>5, <2>2, <3>2, LongsOfReals
    <3>4. t \in {"float", "double"}
      <4> SUFFICES ASSUME t = "long double" PROVE FALSE
        BY DEF FP
      <4>1. 2 * (Int64Max + 1) <= Pow2[bits]
        BY <1>1, WidthsGrow
      <4>2. PICK p \in Nat, m \in Nat : p = Pow2[bits] /\ m = Int64Max
        BY Widths, Pow2Positive
      <4>3. p <= m /\ 2 * (m + 1) <= p
        BY ONLY <3>1, <4>1, <4>2
      <4> QED BY ONLY <4>3, p \in Nat, m \in Nat
    <3>5. ~LongReal(x)
      BY <1>2, <1>4, <1>6, <2>4
    <3>6. CASE Rounded(l * One, bits) # x
      BY <2>2, <3>5, <3>6, ConcreteIsSound
    <3>7. CASE Rounded(l * One, bits) = x
      <4>1. l = Int64Max
        <5> SUFFICES ASSUME l = -(Int64Max + 1) PROVE FALSE
          BY <3>3
        <5>1. l * One = -LongEnd
          BY LongEndNumbers
        <5>2. Rounded(-LongEnd, bits) = -LongEnd
          BY LongEndIsFloat DEF Float
        <5> QED BY <3>2, <3>7, <5>1, <5>2, LongEndNumbers
      <4>2. l \in (-Int64Max - 1)..Int64Max
        BY <4>1, Widths
      <4> QED BY <1>1, <2>2, <3>2, <3>4, <3>7, <4>1, <4>2, LongIsSound
    <3> QED BY <3>6, <3>7
  <2> QED BY <1>2, <1>4, <2>3, <2>4
<1> QED BY <1>7, <1>8

(* Every number that is made is what it was made of.                       *)
LEMMA MadeIsSound ==
    ASSUME NEW t \in Type, NEW v, Fits(t, v), NEW n \in Made(t, v)
    PROVE  Sound(n)
<1>1. PICK o \in New(t, v) : IsNumber(n, t, RealOf(t, v), o)
  BY DEF Made, IsNumber
<1>2. CASE t \in FP
  <2>1. RealOf(t, v) = v
    BY <1>2 DEF RealOf
  <2> QED BY <1>1, <1>2, <2>1, RealIsSound
<1>3. CASE t \notin FP
  BY <1>1, <1>3, IntegerIsSound
<1> QED BY <1>2, <1>3

-----------------------------------------------------------------------------
(* The invariant holds.                                                    *)

LEMMA SoundParts ==
    ASSUME NEW n, Sound(n)
    PROVE  /\ n.type \in Type /\ n.given \in Int /\ n.value \in Int
           /\ n.class \in IntClass \cup FPClass
           /\ Canonical(n) /\ WellTagged(n)
           /\ (Exact(n) \/ Blurry(n)) /\ GivesBack(n)
  BY DEF Sound, Instance

(* Integers of a class in the range of its type.                           *)
LEMMA IntegerInRange ==
    ASSUME NEW n, Sound(n), n.class \in IntClass
    PROVE  /\ n.value \in (-Int64Max - 1)..(2 * Int64Max + 1)
           /\ n.class # "UInt64" => n.value \in (-Int64Max - 1)..Int64Max
           /\ n.class = "UInt64" => n.value > Int64Max
           /\ ObjCType(n) \in Type \ FP /\ Fits(ObjCType(n), n.value)
<1>1. Canonical(n) /\ n.value \in Int /\ n.class \notin FPClass
  BY SoundParts, ClassParts
<1>2. n.class \in IntClass \cup FPClass
  OBVIOUS
<1>3. PICK m \in Nat, c \in Nat, i \in Nat : m = Int64Max /\ c = Max["char"] /\ i = Int32Max
  BY Widths DEF Signed
<1>4. c < i /\ 2 * i + 1 < m /\ MaxTagged \in Nat /\ MaxTagged < m /\ UInt32Max = 2 * i + 1
  BY <1>3, Widths DEF Signed, UInt32Max
<1>5. CASE n.class = "Bool"
  <2>1. n.value \in {0, 1} /\ ObjCType(n) = "BOOL"
    BY <1>1, <1>2, <1>5, CanonicalParts, ObjCTypes
  <2>2. n.value \in (-m - 1)..m
    BY <1>4, <2>1
  <2>3. Fits("BOOL", n.value) /\ "BOOL" \in Type \ FP
    BY <2>1, Types DEF Fits
  <2> QED BY <1>3, <1>5, <2>1, <2>2, <2>3
<1>6. CASE n.class \in {"TaggedInteger", "Int64"}
  <2>1. n.value \in (-m - 1)..m
    <3>1. CASE n.class = "TaggedInteger"
      BY <1>1, <1>2, <1>4, <3>1, CanonicalParts DEF Tagged
    <3>2. CASE n.class = "Int64"
      BY <1>1, <1>2, <1>3, <3>2, CanonicalParts
    <3> QED BY <1>6, <3>1, <3>2
  <2>2. ObjCType(n) = "long" /\ "long" \in Signed /\ Max["long"] = m
    BY <1>2, <1>3, <1>6, ObjCTypes DEF Signed, Int64Max
  <2> QED BY <1>3, <1>6, <2>1, <2>2, Types DEF Fits
<1>7. CASE n.class = "Int32"
  <2>1. n.value \in (-i - 1)..i
    BY <1>1, <1>2, <1>3, <1>7, CanonicalParts
  <2>2. ObjCType(n) = "int" /\ "int" \in Signed /\ Max["int"] = i
    BY <1>2, <1>3, <1>7, ObjCTypes DEF Signed, Int32Max
  <2> QED BY <1>3, <1>4, <1>7, <2>1, <2>2, Types DEF Fits
<1>8. CASE n.class = "UInt32"
  <2>1. n.value \in (c + 1)..(2 * i + 1)
    BY <1>1, <1>2, <1>3, <1>4, <1>8, CanonicalParts
  <2>2. ObjCType(n) = "uint" /\ Max[Unsigned["uint"]] = i
    BY <1>2, <1>3, <1>8, ObjCTypes, UnsignedTypes DEF Int32Max
  <2>3. "uint" \in DOMAIN Unsigned
    BY UnsignedTypes
  <2>4. "uint" \in Type \ FP /\ "uint" # "BOOL" /\ "uint" \notin Signed
    BY <2>3, Types
  <2> QED BY <1>3, <1>4, <1>8, <2>1, <2>2, <2>3, <2>4 DEF Fits
<1>9. CASE n.class = "UInt64"
  <2>1. n.value \in (m + 1)..(2 * m + 1)
    BY <1>1, <1>2, <1>3, <1>9, CanonicalParts
  <2>2. ObjCType(n) = "ulong" /\ Max[Unsigned["ulong"]] = m
    BY <1>2, <1>3, <1>9, ObjCTypes, UnsignedTypes DEF Int64Max
  <2>3. "ulong" \in DOMAIN Unsigned
    BY UnsignedTypes
  <2>4. "ulong" \in Type \ FP /\ "ulong" # "BOOL" /\ "ulong" \notin Signed
    BY <2>3, Types
  <2> QED BY <1>3, <1>9, <2>1, <2>2, <2>3, <2>4 DEF Fits
<1> QED BY <1>5, <1>6, <1>7, <1>8, <1>9, ClassParts

LEMMA OneFits ==
    ASSUME NEW t \in FP, NEW x \in {0, 1, NaN}
    PROVE  Fits(t, x)
<1>1. PICK bits \in Nat \ {0} : bits = Bits[t]
  BY Widths
<1>2. Pow2[bits] > 1 /\ Pow2[bits] \in Nat
  BY Pow2Positive
<1>3. Rounded(x, bits) = x
  <2>1. CASE x = NaN
    <3>1. ~Finite(x) /\ x \in Int
      BY <2>1, Widths DEF Finite, Abs
    <3> QED BY <3>1, RoundedSmall
  <2>2. CASE x \in {0, 1}
    <3>1. Abs(x) < Pow2[bits] /\ x \in Int
      BY <1>2, <2>2 DEF Abs
    <3> QED BY <3>1, RoundedSmall
  <2> QED BY <2>1, <2>2
<1>4. 1 <= Infinity /\ Infinity \in Nat /\ NaN \in Nat
  BY Widths, LongEndNumbers
<1>5. x \in -Infinity..Infinity \cup {NaN}
  BY <1>4
<1> QED BY <1>1, <1>3, <1>5, Types DEF Fits

(* What is encoded is a value of the type that is encoded with it.         *)
LEMMA EncodedFits ==
    ASSUME NEW n, Sound(n), NEW v \in Encoded(n)
    PROVE  ObjCType(n) \in Type /\ Fits(ObjCType(n), v)
<1>1. n.class \in IntClass \cup FPClass /\ IntClass \cap FPClass = {}
  BY SoundParts, ClassParts
<1>2. CASE n.class \in IntClass
  <2>1. n.class \notin {"TaggedFloat", "TaggedDouble"}
    BY <1>2, ClassParts
  <2>2. v = n.value
    BY <2>1 DEF Encoded
  <2> QED BY <1>2, <2>2, IntegerInRange
<1>3. CASE n.class \in FPClass
  <2>1. n.class \notin IntClass /\ Exact(n)
    BY <1>1, <1>3, SoundParts, ClassParts DEF Blurry
  <2>2. ObjCType(n) = n.type /\ Fits(n.type, n.value) /\ n.type \in Type
    BY <2>1, SoundParts DEF Exact
  <2>3. CASE n.class \in {"TaggedFloat", "TaggedDouble"}
    <3>1. ObjCType(n) \in FP
      BY <1>1, <2>3, ObjCTypes DEF FP
    <3>2. v \in {0, 1, NaN}
      BY <2>3 DEF Encoded, BitsOfLong
    <3> QED BY <2>2, <3>1, <3>2, OneFits
  <2>4. CASE n.class \notin {"TaggedFloat", "TaggedDouble"}
    BY <2>2, <2>4 DEF Encoded
  <2> QED BY <2>3, <2>4
<1> QED BY <1>1, <1>2, <1>3

LEMMA InitIsSound == Init => IInv
  BY DEF Init, IInv, Numbers

(* A step keeps the numbers, or takes them away, or makes one.             *)
LEMMA NextMakes ==
    ASSUME IInv, [Next]_vars
    PROVE  /\ tps' = tps
           /\ \A n \in Numbers' : \/ n \in Numbers
                                  \/ \E t \in Type : \E v : Fits(t, v) /\ n \in Made(t, v)
<1>1. ASSUME NEW t \in Type, NEW v \in Given[t], MakeFirst(t, v)
      PROVE  /\ tps' = tps
             /\ \A n \in Numbers' : n \in Numbers \/ n \in Made(t, v)
             /\ Fits(t, v)
  BY <1>1, GivenAreTyped DEF MakeFirst, Numbers
<1>2. ASSUME NEW t \in Type, NEW v \in Given[t], MakeSecond(t, v)
      PROVE  /\ tps' = tps
             /\ \A n \in Numbers' : n \in Numbers \/ n \in Made(t, v)
             /\ Fits(t, v)
  BY <1>2, GivenAreTyped DEF MakeSecond, Numbers
<1>3. ASSUME Recode
      PROVE  \E t \in Type : \E v : /\ tps' = tps
                                    /\ \A n \in Numbers' : n \in Numbers \/ n \in Made(t, v)
                                    /\ Fits(t, v)
  <2>1. PICK v \in Encoded(a) : b' \in Made(ObjCType(a), v)
    BY <1>3 DEF Recode
  <2>2. Sound(a)
    BY <1>3 DEF Recode, IInv, Numbers
  <2>3. ObjCType(a) \in Type /\ Fits(ObjCType(a), v)
    BY <2>2, EncodedFits
  <2>4. tps' = tps /\ a' = a
    BY <1>3 DEF Recode
  <2>5. \A n \in Numbers' : n \in Numbers \/ n \in Made(ObjCType(a), v)
    BY <2>1, <2>4 DEF Numbers
  <2> QED BY <2>3, <2>4, <2>5
<1>4. CASE Release
  BY <1>4 DEF Release, Numbers
<1>5. CASE UNCHANGED vars
  BY <1>5 DEF vars, Numbers
<1> QED BY <1>1, <1>2, <1>3, <1>4, <1>5 DEF Next

LEMMA SoundStays ==
    ASSUME NEW n, Sound(n), tps' = tps
    PROVE  Sound(n)'
<1>1. Canonical(n)' <=> Canonical(n)
  BY DEF Canonical, Tagged
<1> QED BY <1>1 DEF Sound, WellTagged, Exact, Blurry, GivesBack

LEMMA NextIsSound == IInv /\ [Next]_vars => IInv'
<1> SUFFICES ASSUME IInv, [Next]_vars PROVE IInv'
  OBVIOUS
<1>1. tps' = tps
  BY NextMakes
<1>2. ASSUME NEW n \in Numbers' PROVE Sound(n)'
  <2>1. Sound(n)
    <3>1. CASE n \in Numbers
      BY <3>1 DEF IInv
    <3>2. ASSUME NEW t \in Type, NEW v, Fits(t, v), n \in Made(t, v) PROVE Sound(n)
      BY <3>2, MadeIsSound
    <3> QED BY <3>1, <3>2, NextMakes
  <2> QED BY <1>1, <2>1, SoundStays
<1> QED BY <1>1, <1>2 DEF IInv

(* Every number the initializers of NSNumber make is in the class that its *)
(* value calls for: an integer that fits into a long is never a floating   *)
(* point or large unsigned number, which -isEqualToNumber: relies on.      *)
THEOREM TypeCorrect == Spec => []TypeOK
<1>1. IInv => TypeOK
  BY DEF IInv, TypeOK, Sound
<1> QED BY <1>1, InitIsSound, NextIsSound, PTL DEF Spec

(* Whatever class an initializer chose, the accessor of the type it was    *)
(* made with (-charValue, ..., -longDoubleValue) gives the value back.     *)
THEOREM ValuesComeBack == Spec => []RoundTrips
<1>1. IInv => RoundTrips
  BY DEF IInv, RoundTrips, Sound, GivesBack
<1> QED BY <1>1, InitIsSound, NextIsSound, PTL DEF Spec

-----------------------------------------------------------------------------
(* Values in the types of the comparisons.                                 *)

LEMMA LongLongOfNumber ==
    ASSUME NEW n, Sound(n), n.class \in IntClass, n.class # "UInt64"
    PROVE  LongLongValue(n) = n.value
<1>1. "long" \in Signed /\ n.value \in (-Max["long"] - 1)..Max["long"]
  BY IntegerInRange DEF Signed, Int64Max
<1> QED BY <1>1, WrappedSigned DEF LongLongValue

LEMMA IntOfNumber ==
    ASSUME NEW n, Sound(n), n.class \in {"Bool", "Int32"}
    PROVE  Wrapped("int", n.value) = n.value
<1>1. n.class \in IntClass /\ Canonical(n)
  BY SoundParts DEF IntClass
<1>2. n.value \in (-Int32Max - 1)..Int32Max
  BY <1>1, CanonicalParts, Widths DEF Signed, Int32Max
<1>3. "int" \in Signed /\ n.value \in (-Max["int"] - 1)..Max["int"]
  BY <1>2 DEF Signed, Int32Max
<1> QED BY <1>3, WrappedSigned

(* The value of a class for floating point is the real of its type.        *)
LEMMA RealOfNumber ==
    ASSUME NEW n, Sound(n)
    PROVE  /\ n.class \in FPClass =>
                 /\ n.class \notin IntClass
                 /\ Real(n) = n.value /\ n.given = n.value /\ n.value \in Int
                 /\ n.type \in FP /\ ObjCType(n) = n.type /\ Float(n.value, Bits[n.type])
                 /\ n.value \in -Infinity..Infinity \cup {NaN}
                 /\ ~LongReal(n.value)
           /\ n.class \in IntClass =>
                 /\ Real(n) = n.value * One /\ Real(n) \in Int
                 /\ -LongEnd <= Real(n) /\ Real(n) <= 2 * LongEnd
                 /\ (~Blurry(n) => n.given = Real(n))
           /\ Real(n) \in Int
<1>1. CASE n.class \in FPClass
  <2>1. n.class \notin IntClass /\ n.value \in Int /\ ~Blurry(n)
    BY <1>1, SoundParts, ClassParts DEF Blurry
  <2>2. Exact(n) /\ Canonical(n)
    BY <2>1, SoundParts
  <2>3. ObjCType(n) \in FP
    BY <1>1, ObjCTypes, ClassParts DEF FP
  <2>4. n.type \in FP /\ n.given = n.value /\ Fits(n.type, n.value) /\ ObjCType(n) = n.type
    BY <2>1, <2>2, <2>3 DEF Exact
  <2>5. Real(n) = n.value
    BY <2>1 DEF Real
  <2>6. ~LongReal(n.value)
    BY <1>1, <2>2, CanonicalParts DEF LongReal
  <2> QED BY <1>1, <2>1, <2>4, <2>5, <2>6, RealFits
<1>2. CASE n.class \in IntClass
  <2>1. n.class \notin FPClass
    BY <1>2, ClassParts
  <2>2. PICK i \in Int : i = n.value /\ i >= -Int64Max - 1 /\ i <= 2 * Int64Max + 1
    BY <1>2, IntegerInRange, SoundParts
  <2>3. Real(n) = i * One
    BY <1>2, <2>2 DEF Real
  <2>4. PICK o \in Nat \ {0}, m \in Nat : o = One /\ m = Int64Max
    BY Widths
  <2>5. (-m - 1) * o <= i * o /\ i * o <= (2 * m + 1) * o /\ i * o \in Int
    BY <2>2, <2>4, ProductGrows
  <2>6. (2 * m + 1) * o = (2 * ((m + 1) * o)) - o /\ (m + 1) * o \in Int
    BY <2>4
  <2>7. (-m - 1) * o = -((m + 1) * o)
    BY <2>4
  <2>8. LongEnd = (m + 1) * o
    BY <2>4 DEF LongEnd
  <2>9. ~Blurry(n) => n.given = Real(n)
    BY <1>2, <2>2, <2>3, SoundParts DEF Exact
  <2> QED BY <1>2, <2>1, <2>2, <2>3, <2>4, <2>5, <2>6, <2>7, <2>8, <2>9
<1> QED BY <1>1, <1>2, SoundParts

LEMMA RealIsNaN ==
    ASSUME NEW n, Sound(n)
    PROVE  /\ Real(n) = NaN <=> n.given = NaN
           /\ Real(n) = NaN => n.class \in FPClass
<1>1. CASE n.class \in FPClass
  BY <1>1, RealOfNumber
<1>2. CASE n.class \in IntClass
  <2>1. Real(n) \in Int /\ Real(n) <= 2 * LongEnd /\ n.class \in IntClass
    BY <1>2, RealOfNumber
  <2>2. Real(n) # NaN
    BY <2>1, Widths, LongEndNumbers
  <2>3. n.given # NaN
    <3>1. CASE Blurry(n)
      BY <3>1, Widths, LongEndNumbers DEF Blurry
    <3>2. CASE ~Blurry(n)
      BY <1>2, <2>2, <3>2, RealOfNumber
    <3> QED BY <3>1, <3>2
  <2> QED BY <2>2, <2>3
<1> QED BY <1>1, <1>2, SoundParts

(* A long double has room for all numbers.                                 *)
LEMMA LongDoubleIsExact ==
    ASSUME NEW n, Sound(n)
    PROVE  LongDoubleValue(n) = Real(n)
<1>1. PICK bits \in Nat \ {0} : bits = Bits["long double"]
  BY Widths DEF FP
<1>2. Float(Real(n), bits)
  <2>1. CASE n.class \in FPClass
    <3>1. PICK t \in FP : t = n.type /\ Float(n.value, Bits[t]) /\ n.value \in Int
                          /\ Real(n) = n.value
      BY <2>1, RealOfNumber
    <3>2. PICK c \in Nat \ {0} : c = Bits[t]
      BY Widths
    <3>3. c <= bits
      <4>1. \A f, d, l \in Nat : f <= d /\ d <= l => f <= l /\ l <= l
        OBVIOUS
      <4>2. Bits["float"] <= Bits["double"] /\ Bits["double"] <= Bits["long double"]
        BY WidthsGrow
      <4>3. Bits["float"] \in Nat /\ Bits["double"] \in Nat /\ Bits["long double"] \in Nat
        BY Widths DEF FP
      <4> QED BY <1>1, <3>2, <4>1, <4>2, <4>3 DEF FP
    <3> QED BY <3>1, <3>2, <3>3, FloatEmbeds
  <2>2. CASE n.class \in IntClass
    <3>1. PICK i \in Int : i = n.value /\ i >= -Int64Max - 1 /\ i <= 2 * Int64Max + 1
      BY <2>2, IntegerInRange, SoundParts
    <3>2. PICK j \in Nat : One = Pow2[j]
      BY Scales
    <3>3. PICK p \in Nat, m \in Nat : p = Pow2[bits] /\ m = Int64Max /\ 2 * (m + 1) <= p
      <4>1. 2 * (Int64Max + 1) <= Pow2[bits]
        BY <1>1, WidthsGrow
      <4> QED BY <4>1, Widths, Pow2Positive
    <3>4. PICK c \in Nat : c < p /\ (c = i \/ c = -i)
      BY <3>1, <3>3
    <3>5. Rounded(c * Pow2[j], bits) = c * Pow2[j]
      BY <3>3, <3>4, MultipleIsExact
    <3>6. Float(c * One, bits) /\ c * One \in Int
      BY <3>2, <3>5, Widths DEF Float
    <3>7. i * One = c * One \/ i * One = -(c * One)
      BY <3>4, Widths
    <3>8. Float(i * One, bits)
      BY <3>6, <3>7, FloatOfOpposite
    <3> QED BY <2>2, <3>1, <3>8, RealOfNumber
  <2> QED BY <2>1, <2>2, SoundParts
<1> QED BY <1>1, <1>2 DEF LongDoubleValue, Float

(* In a double: a float or double is exact.                                *)
FloatKind == {"TaggedFloat", "Float", "TaggedDouble", "Double"}

LEMMA DoubleIsExact ==
    ASSUME NEW n, Sound(n), n.class \in FloatKind
    PROVE  DoubleValue(n) = n.value /\ n.type \in {"float", "double"}
<1>1. n.class \in FPClass
  BY DEF FloatKind, FPClass
<1>2. /\ Real(n) = n.value /\ n.value \in Int
      /\ n.type \in FP /\ ObjCType(n) = n.type /\ Float(n.value, Bits[n.type])
  BY <1>1, RealOfNumber
<1>3. ObjCType(n) \in {"float", "double"}
  BY <1>1, ObjCTypes DEF FloatKind
<1>4. PICK f \in Nat \ {0}, d \in Nat \ {0} : f = Bits["float"] /\ d = Bits["double"]
  BY Widths DEF FP
<1>5. f <= d
  BY <1>4, WidthsGrow
<1>6. CASE n.type = "float"
  BY <1>2, <1>4, <1>5, <1>6, FloatEmbeds DEF DoubleValue, Float
<1>7. CASE n.type = "double"
  BY <1>2, <1>7 DEF DoubleValue, Float
<1> QED BY <1>2, <1>3, <1>6, <1>7

-----------------------------------------------------------------------------
(* Comparison.                                                             *)

LEMMA Kinds ==
    ASSUME NEW n, n.class \in IntClass \cup FPClass
    PROVE  /\ n.class \in {"Bool", "Int32"} => Kind(n) = "int"
           /\ n.class \in {"TaggedInteger", "Int64", "UInt32"} => Kind(n) = "long"
           /\ n.class = "UInt64" => Kind(n) = "superquad"
           /\ n.class \in FloatKind => Kind(n) = "double"
           /\ n.class = "LongDouble" => Kind(n) = "long double"
<1>1. /\ Simplified("BOOL") = "int" /\ Simplified("int") = "int"
      /\ Simplified("uint") = "long" /\ Simplified("long") = "long"
      /\ Simplified("ulong") = "superquad"
      /\ Simplified("float") = "double" /\ Simplified("double") = "double"
      /\ Simplified("long double") = "long double"
  BY DEF Simplified
<1> QED BY <1>1, ObjCTypes DEF Kind, FloatKind

LEMMA KindOfClass ==
    ASSUME NEW n, n.class \in IntClass \cup FPClass
    PROVE  /\ n.class \in IntClass <=> Kind(n) \in {"int", "long", "superquad"}
           /\ n.class \in FPClass => n.class \in FloatKind \/ n.class = "LongDouble"
           /\ Kind(n) = "superquad" <=> n.class = "UInt64"
           /\ Kind(n) = "double" <=> n.class \in FloatKind
           /\ Kind(n) = "long double" <=> n.class = "LongDouble"
           /\ Kind(n) = "int" <=> n.class \in {"Bool", "Int32"}
  BY Kinds, ClassParts DEF FloatKind

(* Which comparison is chosen.                                             *)
(* One of two numbers is of a kind.                                        *)
EitherIs(k, m, n) == k \in {Kind(m), Kind(n)}

LEMMA CompareLongDouble ==
    ASSUME NEW m, NEW n, EitherIs("long double", m, n), ~AsDoubles(m, n)
    PROVE  Compare(m, n) = CompareLongDoubles(LongDoubleValue(m), LongDoubleValue(n))
<1>0. "long double" \in {Kind(m), Kind(n)} /\ ~AsDoubles(m, n)
  BY DEF EitherIs
<1>1. ~("superquad" \in {Kind(m), Kind(n)} /\ {Kind(m), Kind(n)} \cap FP = {})
  BY <1>0 DEF FP
<1>2. {Kind(m), Kind(n)} # {"int"}
  BY <1>0
<1> QED BY <1>0, <1>1, <1>2, Zenon DEF Compare

LEMMA CompareDouble ==
    ASSUME NEW m, NEW n, AsDoubles(m, n)
    PROVE  Compare(m, n) = CompareDoubles(DoubleValue(m), DoubleValue(n))
<1>0. AsDoubles(m, n) /\ "double" \in {Kind(m), Kind(n)}
  BY DEF AsDoubles
<1>1. ~("superquad" \in {Kind(m), Kind(n)} /\ {Kind(m), Kind(n)} \cap FP = {})
  BY <1>0 DEF FP
<1>2. {Kind(m), Kind(n)} # {"int"}
  BY <1>0
<1> QED BY <1>0, <1>1, <1>2, Zenon DEF Compare

LEMMA CompareIntegers ==
    ASSUME NEW m, NEW n, Sound(m), Sound(n), m.class \in IntClass, n.class \in IntClass
    PROVE  Compare(m, n) = Ordered(m.value, n.value)
<1>1. /\ m.class \in IntClass \cup FPClass /\ n.class \in IntClass \cup FPClass
      /\ Kind(m) \in {"int", "long", "superquad"} /\ Kind(n) \in {"int", "long", "superquad"}
  BY KindOfClass
<1>2. /\ "long double" \notin {Kind(m), Kind(n)} /\ ~AsDoubles(m, n)
      /\ {Kind(m), Kind(n)} \cap FP = {}
  BY <1>1 DEF FP, AsDoubles
<1>3. CASE "superquad" \in {Kind(m), Kind(n)}
  <2>1. {Kind(m), Kind(n)} # {"int"}
    BY <1>3
  <2>2. Compare(m, n) = Ordered(SuperquadValue(m), SuperquadValue(n))
    BY <1>2, <1>3, <2>1, Zenon DEF Compare
  <2> QED BY <2>2 DEF SuperquadValue
<1>4. CASE {Kind(m), Kind(n)} = {"int"}
  <2>1. "superquad" \notin {Kind(m), Kind(n)}
    BY <1>4
  <2>2. Compare(m, n) = Ordered(Wrapped("int", m.value), Wrapped("int", n.value))
    BY <1>2, <1>4, <2>1, Zenon DEF Compare
  <2>3. m.class \in {"Bool", "Int32"} /\ n.class \in {"Bool", "Int32"}
    BY <1>1, <1>4, KindOfClass
  <2> QED BY <2>2, <2>3, IntOfNumber
<1>5. CASE "superquad" \notin {Kind(m), Kind(n)} /\ {Kind(m), Kind(n)} # {"int"}
  <2>1. Compare(m, n) = Ordered(LongLongValue(m), LongLongValue(n))
    BY <1>2, <1>5, Zenon DEF Compare
  <2>2. m.class # "UInt64" /\ n.class # "UInt64"
    BY <1>1, <1>5, KindOfClass
  <2> QED BY <2>1, <2>2, LongLongOfNumber
<1> QED BY <1>3, <1>4, <1>5

LEMMA ReverseOfOrdered ==
    ASSUME NEW x \in Int, NEW y \in Int
    PROVE  /\ Ordered(y, x) = Reverse[Ordered(x, y)]
           /\ Ordered(x, y) = "same" <=> x = y
  BY DEF Ordered, Reverse

LEMMA ComparedDoubles ==
    ASSUME NEW x \in Int, NEW y \in Int
    PROVE  /\ CompareDoubles(y, x) = Reverse[CompareDoubles(x, y)]
           /\ CompareDoubles(x, y) = "same" <=> x = y
           /\ x # NaN /\ y # NaN => CompareDoubles(x, y) = Ordered(x, y)
<1>1. /\ Reverse["same"] = "same" /\ Reverse["ascending"] = "descending"
      /\ Reverse["descending"] = "ascending"
  BY DEF Reverse
<1>2. NaN \in Int
  BY Widths
<1> QED BY <1>1, <1>2, ReverseOfOrdered DEF CompareDoubles

LEMMA ComparedLongDoubles ==
    ASSUME NEW x \in Int, NEW y \in Int
    PROVE  /\ CompareLongDoubles(x, y) = "same" <=> x = y
           /\ x # NaN /\ y # NaN => /\ CompareLongDoubles(x, y) = Ordered(x, y)
                                    /\ CompareLongDoubles(y, x) = Ordered(y, x)
<1>1. NaN \in Int
  BY Widths
<1> QED BY <1>1, ReverseOfOrdered DEF CompareLongDoubles

LEMMA OrderOfMultiples ==
    ASSUME NEW x \in Int, NEW y \in Int, NEW u \in Nat \ {0}
    PROVE  /\ x * u \in Int /\ y * u \in Int
           /\ x = y <=> x * u = y * u
           /\ x < y <=> x * u < y * u
<1>1. ASSUME NEW i \in Int, NEW j \in Int, i < j PROVE i * u < j * u
  <2>1. (i + 1) * u <= j * u
    BY <1>1, ProductGrows
  <2>2. (i + 1) * u = (i * u) + u /\ i * u \in Int /\ j * u \in Int
    OBVIOUS
  <2> QED BY <2>1, <2>2
<1>2. x * u \in Int /\ y * u \in Int
  OBVIOUS
<1>3. x < y => x * u < y * u
  BY <1>1
<1>4. y < x => y * u < x * u
  BY <1>1
<1>5. x = y => x * u = y * u
  OBVIOUS
<1>6. x < y \/ y < x \/ x = y
  OBVIOUS
<1> QED BY <1>2, <1>3, <1>4, <1>5, <1>6

(* What comes next to LLONG_MAX made of 2^63 is blurred.                   *)
LEMMA BlurryMeets ==
    ASSUME NEW m, NEW n, Sound(m), Sound(n), Blurry(m), ~Blurred(m, n)
    PROVE  /\ Real(m) = Int64Max * One /\ m.given = LongEnd
           /\ n.given < Int64Max * One \/ LongEnd < n.given
           /\ n.given = Real(n) /\ ~Blurry(n)
<1>1. PICK d \in Nat \ {0} : d = Bits["double"]
  BY Widths DEF FP
<1>2. Pow2[d] <= Int64Max
  BY <1>1, WidthsGrow
<1>3. Real(m) = Int64Max * One /\ m.given = LongEnd /\ m.type \in {"float", "double"}
  BY DEF Blurry, Real, IntClass
<1>4. PICK x \in Int : x = n.given
  BY SoundParts
<1>5. PICK f \in Nat, e \in Nat : f = Int64Max * One /\ e = LongEnd /\ f < e
  BY LongEndNumbers
<1>6. ~(f <= x /\ x <= e)
  <2> SUFFICES ASSUME f <= x, x <= e PROVE FALSE
    OBVIOUS
  <2>1. x \in Nat
    BY <1>5
  <2>2. Rounded(x, d) = LongEnd
    BY <1>2, <1>5, <2>1, RoundedToLongEnd
  <2>3. Blurs(m, n)
    BY <1>1, <1>3, <1>4, <1>5, <2>2 DEF Blurs
  <2> QED BY <2>3 DEF Blurred
<1>7. x < f \/ e < x
  BY <1>6
<1>8. ~Blurry(n)
  BY <1>4, <1>5, <1>7 DEF Blurry
<1>9. n.given = Real(n)
  BY <1>8, SoundParts, RealOfNumber
<1> QED BY <1>3, <1>4, <1>5, <1>7, <1>8, <1>9

(* The reals of the values are ordered like those the numbers were made of.*)
LEMMA RealsAreOrdered ==
    ASSUME NEW m, NEW n, Sound(m), Sound(n), ~Blurred(m, n)
    PROVE  Ordered(Real(m), Real(n)) = Ordered(m.given, n.given)
<1>1. Real(m) \in Int /\ Real(n) \in Int /\ m.given \in Int /\ n.given \in Int
  BY RealOfNumber, SoundParts
<1>2. PICK f \in Nat, e \in Nat : f = Int64Max * One /\ e = LongEnd /\ f < e
  BY LongEndNumbers
<1>3. CASE Blurry(m)
  <2>1. Real(m) = f /\ m.given = e /\ (n.given < f \/ e < n.given) /\ n.given = Real(n)
    BY <1>2, <1>3, BlurryMeets
  <2> QED BY <1>1, <1>2, <2>1 DEF Ordered
<1>4. CASE Blurry(n)
  <2>1. ~Blurred(n, m)
    BY DEF Blurred
  <2>2. Real(n) = f /\ n.given = e /\ (m.given < f \/ e < m.given) /\ m.given = Real(m)
    BY <1>2, <1>4, <2>1, BlurryMeets
  <2> QED BY <1>1, <1>2, <2>2 DEF Ordered
<1>5. CASE ~Blurry(m) /\ ~Blurry(n)
  <2>1. m.given = Real(m) /\ n.given = Real(n)
    BY <1>5, SoundParts, RealOfNumber
  <2> QED BY <2>1
<1> QED BY <1>3, <1>4, <1>5

(* An integer is rounded to a double for the comparison with one.          *)
LEMMA DoubleOfInteger ==
    ASSUME NEW m, NEW n, Sound(m), Sound(n), ~Blurred(m, n),
           m.class \in FloatKind, n.class \in IntClass, m.given # NaN
    PROVE  /\ DoubleValue(n) \in Int /\ DoubleValue(n) # NaN
           /\ Ordered(m.value, DoubleValue(n)) = Ordered(m.given, n.given)
<1>1. PICK d \in Nat \ {0} : d = Bits["double"]
  BY Widths DEF FP
<1>2. Pow2[d] <= Int64Max
  BY <1>1, WidthsGrow
<1>3. m.class \in FPClass
  BY DEF FloatKind, FPClass
<1>4. PICK x \in Int : /\ x = m.value /\ x = m.given /\ x = DoubleValue(m) /\ x = Real(m)
                       /\ m.type \in {"float", "double"}
                       /\ x \in -Infinity..Infinity /\ ~LongReal(x)
  BY <1>3, RealOfNumber, DoubleIsExact
<1>5. Float(x, d)
  BY <1>1, <1>4 DEF DoubleValue, Float
<1>6. PICK y \in Int : y = Real(n) /\ -LongEnd <= y /\ y <= 2 * LongEnd
  BY RealOfNumber
<1>7. PICK r \in Int : r = Rounded(y, d) /\ r = DoubleValue(n)
  BY <1>1, <1>6, RoundedIsInt DEF DoubleValue
<1>8. PICK e \in Nat : e = LongEnd /\ 2 * e < Infinity
  BY LongEndNumbers
<1>9. Finite(y) /\ Finite(-e) /\ Finite(2 * e)
  BY <1>6, <1>8, Small
<1>10. -e <= r /\ r <= 2 * e
  <2>1. Float(-e, d) /\ Float(2 * e, d) /\ -e \in Int /\ 2 * e \in Int
    BY <1>8, LongEndIsFloat
  <2> QED BY <1>6, <1>7, <1>8, <1>9, <2>1, RoundedOrder
<1>11. r # NaN
  BY <1>8, <1>10, Widths
<1>12. CASE Blurry(n)
  <2>1. y = Int64Max * One /\ n.given = e
    BY <1>6, <1>8, <1>12 DEF Blurry, Real, IntClass
  <2>2. y \in Nat /\ Int64Max * One <= y /\ y <= LongEnd
    BY <2>1, LongEndNumbers
  <2>3. r = e
    BY <1>2, <1>7, <1>8, <2>2, RoundedToLongEnd
  <2> QED BY <1>4, <1>7, <1>11, <2>1, <2>3
<1>13. CASE ~Blurry(n)
  <2>1. n.given = y
    BY <1>6, <1>13, RealOfNumber
  <2>2. CASE Finite(x)
    <3>1. (y <= x => r <= x) /\ (x <= y => x <= r)
      BY <1>5, <1>7, <1>9, <2>2, RoundedOrder
    <3>2. ASSUME r = x, x # y PROVE FALSE
      <4>1. PICK c \in Int : r = c * One
        <5>1. PICK j \in Nat : One = Pow2[j]
          BY Scales
        <5>2. PICK i \in Int : y = i * Pow2[j]
          <6>1. n.value \in Int /\ y = n.value * One
            BY <1>6, SoundParts, RealOfNumber
          <6> QED BY <5>1, <6>1
        <5>3. PICK c \in Int : Rounded(i * Pow2[j], d) = c * Pow2[j]
          BY RoundedMultiple
        <5> QED BY <1>7, <5>1, <5>2, <5>3
      <4>2. x % One = 0
        BY <3>2, <4>1, Widths, MultiplesHaveNoRemainder
      <4>3. ~(x <= Int64Max * One)
        BY <1>4, <1>8, <1>10, <3>2, <4>2, LongEndNumbers DEF LongReal
      <4>4. m.given > Int64Max * One
        BY <1>4, <4>3, LongEndNumbers
      <4>5. Rounded(n.given, Bits["double"]) = m.given
        BY <1>1, <1>4, <1>7, <2>1, <3>2
      <4>6. Blurs(m, n)
        BY <1>4, <4>4, <4>5 DEF Blurs
      <4> QED BY <4>6 DEF Blurred
    <3>3. Ordered(x, r) = Ordered(x, y)
      BY <3>1, <3>2 DEF Ordered
    <3> QED BY <1>4, <1>7, <1>11, <2>1, <3>3
  <2>3. CASE ~Finite(x)
    <3>1. x = Infinity \/ x = -Infinity
      BY <1>4, <2>3, Widths DEF Finite, Abs
    <3>2. Ordered(x, r) = Ordered(x, y)
      BY <1>6, <1>8, <1>10, <3>1, Widths DEF Ordered
    <3> QED BY <1>4, <1>7, <1>11, <2>1, <3>2
  <2> QED BY <2>2, <2>3
<1> QED BY <1>12, <1>13

LEMMA DoubleOfNumber ==
    ASSUME NEW n, Sound(n)
    PROVE  DoubleValue(n) \in Int /\ LongDoubleValue(n) \in Int
<1>1. Bits["double"] \in Nat \ {0} /\ Bits["long double"] \in Nat \ {0}
  BY Widths DEF FP
<1>2. Real(n) \in Int
  BY RealOfNumber
<1> QED BY <1>1, <1>2, RoundedIsInt DEF DoubleValue, LongDoubleValue

(* Two numbers are compared in one of four ways: as integers, as long      *)
(* doubles, as doubles with one that is a double, or as doubles with a     *)
(* long double number.                                                     *)
AsIntegers(m, n)    == /\ m.class \in IntClass /\ n.class \in IntClass
                       /\ Compare(m, n) = Ordered(m.value, n.value)
AsLongDoubles(m, n) == /\ "LongDouble" \in {m.class, n.class} /\ m.class \notin FloatKind
                       /\ Compare(m, n) = CompareLongDoubles(Real(m), Real(n))
Widened(m, n)       == /\ m.class \in FloatKind \/ n.class \in FloatKind
                       /\ m.class \in IntClass \cup FloatKind
                       /\ n.class \in IntClass \cup FloatKind
                       /\ Compare(m, n) = CompareDoubles(DoubleValue(m), DoubleValue(n))
Narrowed(m, n)      == /\ m.class \in FloatKind /\ n.class = "LongDouble"
                       /\ Compare(m, n) = CompareDoubles(DoubleValue(m), DoubleValue(n))

LEMMA CompareWays ==
    ASSUME NEW m, NEW n, Sound(m), Sound(n)
    PROVE  AsIntegers(m, n) \/ AsLongDoubles(m, n) \/ Widened(m, n) \/ Narrowed(m, n)
<1>1. m.class \in IntClass \cup FPClass /\ n.class \in IntClass \cup FPClass
  BY SoundParts
<1>2. /\ "LongDouble" \notin IntClass /\ "LongDouble" \notin FloatKind
      /\ \A c \in FloatKind : c \notin IntClass
  BY DEF IntClass, FloatKind
<1>3. CASE m.class \in IntClass /\ n.class \in IntClass
  BY <1>3, CompareIntegers DEF AsIntegers
<1>4. CASE m.class \in FloatKind \/ (n.class \in FloatKind /\ m.class # "LongDouble")
  <2>1. AsDoubles(m, n)
    BY <1>1, <1>4, KindOfClass DEF AsDoubles
  <2>2. Compare(m, n) = CompareDoubles(DoubleValue(m), DoubleValue(n))
    BY <2>1, CompareDouble
  <2>3. CASE n.class = "LongDouble"
    BY <1>2, <1>4, <2>2, <2>3 DEF Narrowed
  <2>4. CASE n.class # "LongDouble"
    <3>1. m.class \in IntClass \cup FloatKind /\ n.class \in IntClass \cup FloatKind
      BY <1>1, <1>2, <1>4, <2>4, KindOfClass
    <3> QED BY <1>4, <2>2, <3>1 DEF Widened
  <2> QED BY <2>3, <2>4
<1>5. CASE /\ m.class \notin FloatKind /\ "LongDouble" \in {m.class, n.class}
  <2>1. EitherIs("long double", m, n)
    BY <1>1, <1>5, KindOfClass DEF EitherIs
  <2>2. ~AsDoubles(m, n)
    <3>1. Kind(m) # "double"
      BY <1>1, <1>5, KindOfClass
    <3>2. Kind(n) = "double" => Kind(m) = "long double"
      BY <1>1, <1>2, <1>5, KindOfClass
    <3> QED BY <3>1, <3>2 DEF AsDoubles
  <2>3. LongDoubleValue(m) = Real(m) /\ LongDoubleValue(n) = Real(n)
    BY LongDoubleIsExact
  <2>4. Compare(m, n) = CompareLongDoubles(LongDoubleValue(m), LongDoubleValue(n))
    BY <2>1, <2>2, CompareLongDouble, Zenon
  <2>5. Compare(m, n) = CompareLongDoubles(Real(m), Real(n))
    BY ONLY <2>3, <2>4
  <2> QED BY <1>5, <2>5 DEF AsLongDoubles
<1>6. \/ m.class \in IntClass /\ n.class \in IntClass
      \/ m.class \in FloatKind \/ (n.class \in FloatKind /\ m.class # "LongDouble")
      \/ m.class \notin FloatKind /\ "LongDouble" \in {m.class, n.class}
  BY <1>1, KindOfClass
<1> QED BY <1>3, <1>4, <1>5, <1>6

(* A long double is rounded to a double without passing one.               *)
LEMMA RoundedReals ==
    ASSUME NEW x \in -Infinity..Infinity, NEW y \in -Infinity..Infinity,
           NEW d \in Nat \ {0}, Float(x, d)
    PROVE  /\ Rounded(y, d) \in Int /\ Rounded(y, d) # NaN
           /\ y <= x => Rounded(y, d) <= x
           /\ x <= y => x <= Rounded(y, d)
<1>1. PICK r \in Int : r = Rounded(y, d)
  BY Widths, RoundedIsInt
<1>2. PICK i \in Nat : i = Infinity /\ i < NaN
  BY Widths
<1>3. -i <= r /\ r <= i /\ (~Finite(y) => r = y)
  <2>1. PICK e \in 0..i : i = Pow2[e]
    BY <1>2, WidthsGrow
  <2>2. CASE ~Finite(y)
    <3>1. r = y
      BY <1>1, <2>2, RoundedSmall
    <3> QED BY <1>2, <3>1
  <2>3. CASE Finite(y)
    <3>1. PICK z \in Nat : z = Abs(y) /\ (y = z \/ y = -z) /\ z <= i
      BY <1>2 DEF Abs
    <3>2. Finite(z)
      BY <2>3, <3>1 DEF Finite, Abs
    <3>3. Rounded(z, d) <= i
      BY <2>1, <3>1, <3>2, RoundedBelowPower
    <3>4. Rounded(z, d) \in Nat /\ Rounded(-z, d) = -Rounded(z, d)
      BY RoundedIsOdd
    <3>5. r = Rounded(z, d) \/ r = -Rounded(z, d)
      BY <1>1, <3>1, <3>4
    <3> QED BY <2>3, <3>3, <3>4, <3>5
  <2> QED BY <2>2, <2>3
<1>4. CASE Finite(x) /\ Finite(y)
  <2>1. (y <= x => r <= x) /\ (x <= y => x <= r)
    BY <1>1, <1>4, RoundedOrder
  <2> QED BY <1>1, <1>2, <1>3, <2>1
<1>5. CASE ~Finite(y)
  BY <1>1, <1>2, <1>3, <1>5
<1>6. CASE ~Finite(x) /\ Finite(y)
  <2>1. x = i \/ x = -i
    BY <1>2, <1>6 DEF Finite, Abs
  <2>2. y # i /\ y # -i
    BY <1>2, <1>6 DEF Finite, Abs
  <2> QED BY <1>1, <1>2, <1>3, <2>1, <2>2
<1> QED BY <1>4, <1>5, <1>6

(* A float or double is compared with what a long double number is rounded *)
(* to: only when they meet is the answer another one.                      *)
LEMMA NarrowedOrder ==
    ASSUME NEW m, NEW n, Sound(m), Sound(n), Narrowed(m, n), NaN \notin {m.given, n.given}
    PROVE  Compare(m, n) = IF Meets(m, n) THEN "same" ELSE Ordered(m.given, n.given)
<1>1. m.class \in FPClass /\ n.class \in FPClass
  BY DEF Narrowed, FloatKind, FPClass
<1>2. PICK d \in Nat \ {0} : d = Bits["double"]
  BY Widths DEF FP
<1>3. PICK x \in -Infinity..Infinity : x = m.given /\ x = DoubleValue(m) /\ Float(x, d)
  <2>1. m.given = m.value /\ DoubleValue(m) = m.value /\ Real(m) = m.value
    BY <1>1, RealOfNumber, DoubleIsExact DEF Narrowed
  <2>2. m.given \in -Infinity..Infinity
    BY <1>1, RealOfNumber
  <2> QED BY <1>2, <2>1, <2>2 DEF DoubleValue, Float
<1>4. PICK y \in -Infinity..Infinity : y = n.given /\ y = Real(n)
  BY <1>1, RealOfNumber
<1>5. PICK r \in Int : r = Rounded(y, d) /\ r = DoubleValue(n)
  BY <1>2, <1>3, <1>4, RoundedReals DEF DoubleValue
<1>6. r # NaN /\ (y <= x => r <= x) /\ (x <= y => x <= r)
  <2>1. Float(x, d)
    BY <1>3
  <2>2. /\ Rounded(y, d) # NaN
        /\ y <= x => Rounded(y, d) <= x
        /\ x <= y => x <= Rounded(y, d)
    BY ONLY <2>1, d \in Nat \ {0}, x \in -Infinity..Infinity, y \in -Infinity..Infinity,
            WidthsGrow, RoundedReals
  <2>3. r = Rounded(y, d)
    BY <1>5
  <2> QED BY ONLY <2>2, <2>3
<1>7. x \in Int /\ y \in Int /\ x # NaN
  BY <1>3, Widths
<1>8. Compare(m, n) = Ordered(x, r)
  BY <1>3, <1>5, <1>6, <1>7, ComparedDoubles DEF Narrowed
<1>9. Meets(m, n) <=> r = x
  <2>1. Kind(m) = "double" /\ Kind(n) = "long double"
    BY <1>1, KindOfClass DEF Narrowed
  <2> QED BY <1>2, <1>3, <1>4, <1>5, <2>1 DEF Meets
<1>10. CASE r = x
  BY <1>8, <1>9, <1>10 DEF Ordered
<1>11. CASE r # x
  <2>1. Ordered(x, r) = Ordered(x, y)
    BY <1>6, <1>7, <1>11 DEF Ordered
  <2> QED BY <1>3, <1>4, <1>8, <1>9, <1>11, <2>1
<1> QED BY <1>10, <1>11

LEMMA BlurredBoth == ASSUME NEW m, NEW n PROVE Blurred(m, n) <=> Blurred(n, m)
  BY DEF Blurred

LEMMA IntegerMeetsNothing ==
    ASSUME NEW m, NEW n, Sound(m), Sound(n), m.class \in IntClass \/ n.class \in IntClass
    PROVE  ~Meets(m, n) /\ ~Meets(n, m)
<1>1. m.class \in IntClass \cup FPClass /\ n.class \in IntClass \cup FPClass
  BY SoundParts
<1> QED BY <1>1, KindOfClass DEF Meets

LEMMA CompareIsExact ==
    ASSUME NEW m, NEW n, Sound(m), Sound(n),
           NaN \notin {m.given, n.given}, ~Blurred(m, n), ~Meets(m, n)
    PROVE  Compare(m, n) = Ordered(m.given, n.given)
<1>1. /\ m.value \in Int /\ n.value \in Int /\ Real(m) \in Int /\ Real(n) \in Int
      /\ m.given \in Int /\ n.given \in Int
      /\ DoubleValue(m) \in Int /\ DoubleValue(n) \in Int
  BY SoundParts, RealOfNumber, DoubleOfNumber
<1>2. Ordered(Real(m), Real(n)) = Ordered(m.given, n.given)
  BY RealsAreOrdered
<1>3. Real(m) # NaN /\ Real(n) # NaN
  BY RealIsNaN
<1>4. CASE AsIntegers(m, n)
  <2>1. Real(m) = m.value * One /\ Real(n) = n.value * One
    BY <1>4, RealOfNumber DEF AsIntegers
  <2>2. /\ m.value = n.value <=> m.value * One = n.value * One
        /\ m.value < n.value <=> m.value * One < n.value * One
    BY <1>1, Widths, OrderOfMultiples
  <2>3. Ordered(m.value, n.value) = Ordered(Real(m), Real(n))
    BY <2>1, <2>2 DEF Ordered
  <2> QED BY <1>2, <1>4, <2>3 DEF AsIntegers
<1>5. CASE AsLongDoubles(m, n)
  BY <1>1, <1>2, <1>3, <1>5, ComparedLongDoubles DEF AsLongDoubles
<1>6. CASE Widened(m, n)
  <2>0. /\ m.class \in FloatKind \/ n.class \in FloatKind
        /\ m.class \in IntClass \cup FloatKind /\ n.class \in IntClass \cup FloatKind
        /\ Compare(m, n) = CompareDoubles(DoubleValue(m), DoubleValue(n))
    BY <1>6 DEF Widened
  <2>1. \A k \in {m, n} : k.class \in FloatKind =>
            DoubleValue(k) = k.value /\ k.value = k.given /\ k.class \in FPClass
    <3> SUFFICES ASSUME NEW k, Sound(k), k.class \in FloatKind
                 PROVE  DoubleValue(k) = k.value /\ k.value = k.given /\ k.class \in FPClass
      OBVIOUS
    <3>1. k.class \in FPClass
      BY DEF FloatKind, FPClass
    <3> QED BY <3>1, DoubleIsExact, RealOfNumber
  <2>2. CASE m.class \in FloatKind /\ n.class \in FloatKind
    BY <1>1, <2>0, <2>1, <2>2, ComparedDoubles
  <2>3. CASE m.class \in FloatKind /\ n.class \in IntClass
    <3>1. /\ DoubleValue(n) # NaN
          /\ Ordered(m.value, DoubleValue(n)) = Ordered(m.given, n.given)
      BY <2>3, DoubleOfInteger
    <3>2. DoubleValue(m) = m.value /\ DoubleValue(m) # NaN
      BY <2>1, <2>3
    <3> QED BY <1>1, <2>0, <3>1, <3>2, ComparedDoubles
  <2>4. CASE m.class \in IntClass /\ n.class \in FloatKind
    <3>1. /\ DoubleValue(m) # NaN
          /\ Ordered(n.value, DoubleValue(m)) = Ordered(n.given, m.given)
      BY <2>4, BlurredBoth, DoubleOfInteger
    <3>2. DoubleValue(n) = n.value /\ DoubleValue(n) # NaN
      BY <2>1, <2>4
    <3>3. Compare(m, n) = Ordered(DoubleValue(m), DoubleValue(n))
      BY <1>1, <2>0, <3>1, <3>2, ComparedDoubles
    <3>4. /\ Ordered(DoubleValue(m), DoubleValue(n))
                = Reverse[Ordered(DoubleValue(n), DoubleValue(m))]
          /\ Ordered(m.given, n.given) = Reverse[Ordered(n.given, m.given)]
      BY <1>1, ReverseOfOrdered
    <3> QED BY <3>1, <3>2, <3>3, <3>4
  <2> QED BY <2>0, <2>2, <2>3, <2>4
<1>7. CASE Narrowed(m, n)
  BY <1>7, NarrowedOrder
<1> QED BY <1>4, <1>5, <1>6, <1>7, CompareWays

(* A float or double and a long double number that do not meet.            *)
LEMMA NarrowedReverses ==
    ASSUME NEW m, NEW n, Sound(m), Sound(n), Narrowed(m, n), ~Meets(m, n),
           NaN \notin {m.given, n.given}
    PROVE  /\ Compare(m, n) = Ordered(Real(m), Real(n))
           /\ Compare(n, m) = Ordered(Real(n), Real(m))
           /\ Real(m) \in Int /\ Real(n) \in Int
<1>1. m.class \in FPClass /\ n.class \in FPClass /\ n.class \notin FloatKind
  BY DEF Narrowed, FloatKind, FPClass
<1>2. m.given = Real(m) /\ n.given = Real(n) /\ Real(m) \in Int /\ Real(n) \in Int
  BY <1>1, RealOfNumber
<1>3. Compare(m, n) = Ordered(Real(m), Real(n))
  BY <1>2, NarrowedOrder
<1>4. AsLongDoubles(n, m)
  <2>1. ~AsIntegers(n, m) /\ ~Widened(n, m) /\ ~Narrowed(n, m)
    BY <1>1 DEF AsIntegers, Widened, Narrowed, FloatKind, IntClass, FPClass
  <2> QED BY <2>1, CompareWays
<1>5. Compare(n, m) = Ordered(Real(n), Real(m))
  BY <1>2, <1>4, ComparedLongDoubles DEF AsLongDoubles
<1> QED BY <1>2, <1>3, <1>5

(* The numbers that are compared in the same way from both sides.          *)
LEMMA WaysBack ==
    ASSUME NEW m, NEW n, Sound(m), Sound(n), ~Narrowed(m, n), ~Narrowed(n, m)
    PROVE  \/ AsIntegers(m, n) /\ AsIntegers(n, m)
           \/ AsLongDoubles(m, n) /\ AsLongDoubles(n, m)
           \/ Widened(m, n) /\ Widened(n, m)
<1>1. AsIntegers(m, n) \/ AsLongDoubles(m, n) \/ Widened(m, n)
  BY CompareWays
<1>2. AsIntegers(n, m) \/ AsLongDoubles(n, m) \/ Widened(n, m)
  BY CompareWays
<1>3. "LongDouble" \notin IntClass \cup FloatKind /\ IntClass \cap FloatKind = {}
  BY DEF IntClass, FloatKind
<1> QED BY <1>1, <1>2, <1>3 DEF AsIntegers, AsLongDoubles, Widened

LEMMA CompareReverses ==
    ASSUME NEW m, NEW n, Sound(m), Sound(n), ~Meets(m, n), ~Meets(n, m),
           ~(NaN \in {m.given, n.given} /\ "LongDouble" \in {m.class, n.class})
    PROVE  Compare(n, m) = Reverse[Compare(m, n)]
<1>1. /\ m.value \in Int /\ n.value \in Int /\ Real(m) \in Int /\ Real(n) \in Int
      /\ DoubleValue(m) \in Int /\ DoubleValue(n) \in Int
  BY SoundParts, RealOfNumber, DoubleOfNumber
<1>2. CASE AsIntegers(m, n) /\ AsIntegers(n, m)
  BY <1>1, <1>2, ReverseOfOrdered DEF AsIntegers
<1>3. CASE AsLongDoubles(m, n) /\ AsLongDoubles(n, m)
  <2>1. Real(m) # NaN /\ Real(n) # NaN
    BY <1>3, RealIsNaN DEF AsLongDoubles
  <2>2. Compare(m, n) = Ordered(Real(m), Real(n)) /\ Compare(n, m) = Ordered(Real(n), Real(m))
    BY <1>1, <1>3, <2>1, ComparedLongDoubles DEF AsLongDoubles
  <2> QED BY <1>1, <2>2, ReverseOfOrdered
<1>4. CASE Widened(m, n) /\ Widened(n, m)
  BY <1>1, <1>4, ComparedDoubles DEF Widened
<1>5. CASE Narrowed(m, n)
  <2>1. NaN \notin {m.given, n.given}
    BY <1>5 DEF Narrowed
  <2>2. Compare(m, n) = Ordered(Real(m), Real(n)) /\ Compare(n, m) = Ordered(Real(n), Real(m))
    BY <1>5, <2>1, NarrowedReverses
  <2> QED BY <1>1, <2>2, ReverseOfOrdered
<1>6. CASE Narrowed(n, m)
  <2>1. NaN \notin {n.given, m.given}
    BY <1>6 DEF Narrowed
  <2>2. Compare(n, m) = Ordered(Real(n), Real(m)) /\ Compare(m, n) = Ordered(Real(m), Real(n))
    BY <1>6, <2>1, NarrowedReverses
  <2> QED BY <1>1, <2>2, ReverseOfOrdered
<1> QED BY <1>2, <1>3, <1>4, <1>5, <1>6, WaysBack

(* Who meets is the same, whatever else.                                   *)
LEMMA CompareMeets ==
    ASSUME NEW m, NEW n, Sound(m), Sound(n), Meets(m, n), NaN \notin {m.given, n.given}
    PROVE  Compare(m, n) = "same"
<1>1. m.class \in FloatKind /\ n.class = "LongDouble"
  BY SoundParts, KindOfClass DEF Meets
<1>2. ~AsIntegers(m, n) /\ ~AsLongDoubles(m, n) /\ ~Widened(m, n)
  BY <1>1 DEF AsIntegers, AsLongDoubles, Widened, FloatKind, IntClass
<1>3. Narrowed(m, n)
  BY <1>2, CompareWays
<1> QED BY <1>3, NarrowedOrder

(* -compare: orders numbers of all classes like the reals they were made   *)
(* with, and the same from either side, whatever type it compares them in; *)
(* but a float or double finds the same what it meets when a long double   *)
(* number is rounded for it.                                               *)
THEOREM ComparisonOrders == Spec => []ComparisonIsOrder
<1>1. IInv => ComparisonIsOrder
  <2> SUFFICES ASSUME IInv, NEW m \in Numbers, NEW n \in Numbers,
                      ~(NaN \in {m.given, n.given} /\ "LongDouble" \in {m.class, n.class})
               PROVE  /\ ~Meets(m, n) /\ ~Meets(n, m)
                            => Compare(n, m) = Reverse[Compare(m, n)]
                      /\ NaN \notin {m.given, n.given} /\ ~Blurred(m, n)
                            => Compare(m, n) = IF Meets(m, n) THEN "same"
                                               ELSE Ordered(m.given, n.given)
    BY DEF ComparisonIsOrder
  <2>1. Sound(m) /\ Sound(n)
    BY DEF IInv
  <2>2. ~Meets(m, n) /\ ~Meets(n, m) => Compare(n, m) = Reverse[Compare(m, n)]
    BY <2>1, CompareReverses
  <2>3. ASSUME NaN \notin {m.given, n.given}, ~Blurred(m, n)
        PROVE  Compare(m, n) = IF Meets(m, n) THEN "same" ELSE Ordered(m.given, n.given)
    BY <2>1, <2>3, CompareMeets, CompareIsExact
  <2> QED BY <2>2, <2>3
<1> QED BY <1>1, InitIsSound, NextIsSound, PTL DEF Spec

-----------------------------------------------------------------------------
(* Equality and hashes.                                                    *)

LEMMA EqualTypes ==
    ASSUME NEW n, n.class \in IntClass \cup FPClass
    PROVE  /\ n.class = "UInt64" => IsEqualType(n) = "default"
           /\ n.class \in IntClass \ {"UInt64"} => IsEqualType(n) = "long long"
           /\ n.class \in FPClass => IsEqualType(n) = "long double"
  BY ClassParts DEF IsEqualType

LEMMA SameByCompare ==
    ASSUME NEW m, NEW n, Sound(m), Sound(n), m.class \in IntClass \/ n.class \in IntClass
    PROVE  Compare(m, n) = "same" <=> Compare(n, m) = "same"
<1>1. /\ m.value \in Int /\ n.value \in Int /\ Real(m) \in Int /\ Real(n) \in Int
      /\ DoubleValue(m) \in Int /\ DoubleValue(n) \in Int
  BY SoundParts, RealOfNumber, DoubleOfNumber
<1>2. ~Narrowed(m, n) /\ ~Narrowed(n, m)
  BY DEF Narrowed, FloatKind, IntClass
<1>3. CASE AsIntegers(m, n) /\ AsIntegers(n, m)
  BY <1>1, <1>3, ReverseOfOrdered DEF AsIntegers
<1>4. CASE AsLongDoubles(m, n) /\ AsLongDoubles(n, m)
  BY <1>1, <1>4, ComparedLongDoubles DEF AsLongDoubles
<1>5. CASE Widened(m, n) /\ Widened(n, m)
  BY <1>1, <1>5, ComparedDoubles DEF Widened
<1> QED BY <1>2, <1>3, <1>4, <1>5, WaysBack

LEMMA IsEqualBoth ==
    ASSUME NEW m, NEW n, Sound(m), Sound(n)
    PROVE  IsEqual(m, n) <=> IsEqual(n, m)
<1>1. Identical(m, n) <=> Identical(n, m)
  BY DEF Identical
<1>2. ASSUME "default" \in {IsEqualType(m), IsEqualType(n)}
      PROVE  Compare(m, n) = "same" <=> Compare(n, m) = "same"
  <2>1. m.class \in IntClass \/ n.class \in IntClass
    BY <1>2, EqualTypes, SoundParts
  <2> QED BY <2>1, SameByCompare
<1>3. "default" \in {IsEqualType(m), IsEqualType(n)}
          <=> "default" \in {IsEqualType(n), IsEqualType(m)}
  OBVIOUS
<1>4. CASE Identical(m, n)
  BY <1>1, <1>4 DEF IsEqual
<1>5. CASE ~Identical(m, n) /\ "default" \in {IsEqualType(m), IsEqualType(n)}
  BY <1>1, <1>2, <1>5 DEF IsEqual
<1>6. CASE ~Identical(m, n) /\ "default" \notin {IsEqualType(m), IsEqualType(n)}
  <2>1. IsEqual(m, n) <=>
            /\ IsEqualType(m) = IsEqualType(n)
            /\ IF IsEqualType(m) = "long long" THEN LongLongValue(m) = LongLongValue(n)
               ELSE LongDoubleValue(m) = LongDoubleValue(n) /\ LongDoubleValue(m) # NaN
    BY <1>6 DEF IsEqual
  <2>2. IsEqual(n, m) <=>
            /\ IsEqualType(n) = IsEqualType(m)
            /\ IF IsEqualType(n) = "long long" THEN LongLongValue(n) = LongLongValue(m)
               ELSE LongDoubleValue(n) = LongDoubleValue(m) /\ LongDoubleValue(n) # NaN
    BY <1>1, <1>6 DEF IsEqual
  <2> QED BY <2>1, <2>2
<1> QED BY <1>4, <1>5, <1>6

(* Integers are equal if and only if their values are.                     *)
LEMMA EqualIntegers ==
    ASSUME NEW m, NEW n, Sound(m), Sound(n), m.class \in IntClass, n.class \in IntClass
    PROVE  IsEqual(m, n) <=> m.value = n.value
<1>1. m.value \in Int /\ n.value \in Int
  BY SoundParts
<1>2. CASE Identical(m, n)
  BY <1>2 DEF IsEqual, Identical
<1>3. CASE ~Identical(m, n) /\ "UInt64" \in {m.class, n.class}
  <2>1. "default" \in {IsEqualType(m), IsEqualType(n)}
    BY <1>3, EqualTypes
  <2>2. IsEqual(m, n) <=> Compare(n, m) = "same"
    BY <1>3, <2>1 DEF IsEqual
  <2>3. Compare(n, m) = Ordered(n.value, m.value)
    BY CompareIntegers
  <2> QED BY <1>1, <2>2, <2>3, ReverseOfOrdered
<1>4. CASE ~Identical(m, n) /\ "UInt64" \notin {m.class, n.class}
  <2>1. IsEqualType(m) = "long long" /\ IsEqualType(n) = "long long"
    BY <1>4, EqualTypes
  <2>2. IsEqual(m, n) <=> LongLongValue(m) = LongLongValue(n)
    BY <1>4, <2>1 DEF IsEqual
  <2> QED BY <1>4, <2>2, LongLongOfNumber
<1> QED BY <1>2, <1>3, <1>4

(* So are numbers of the classes for floating point, but NaN.              *)
LEMMA EqualReals ==
    ASSUME NEW m, NEW n, Sound(m), Sound(n), m.class \in FPClass, n.class \in FPClass
    PROVE  /\ IsEqual(m, n) => m.value = n.value
           /\ m.value = n.value /\ m.value # NaN => IsEqual(m, n)
<1>1. LongDoubleValue(m) = m.value /\ LongDoubleValue(n) = n.value
  BY LongDoubleIsExact, RealOfNumber
<1>2. IsEqualType(m) = "long double" /\ IsEqualType(n) = "long double"
  BY EqualTypes
<1>3. CASE Identical(m, n)
  BY <1>3 DEF IsEqual, Identical
<1>4. CASE ~Identical(m, n)
  <2>1. IsEqual(m, n) <=> LongDoubleValue(m) = LongDoubleValue(n) /\ LongDoubleValue(m) # NaN
    BY <1>2, <1>4 DEF IsEqual
  <2> QED BY <1>1, <2>1
<1> QED BY <1>3, <1>4

(* An integer is not equal to a number of a class for floating point,      *)
(* unless it is unsigned and large: then the two are compared.             *)
LEMMA EqualMixed ==
    ASSUME NEW m, NEW n, Sound(m), Sound(n), m.class \in IntClass, n.class \in FPClass,
           NaN \notin {m.given, n.given}, ~Blurred(m, n)
    PROVE  IsEqual(m, n) <=> m.given = n.given
<1>1. ~Identical(m, n)
  BY ClassParts DEF Identical
<1>2. m.given \in Int /\ n.given \in Int
  BY SoundParts
<1>3. CASE m.class = "UInt64"
  <2>1. "default" \in {IsEqualType(m), IsEqualType(n)}
    BY <1>3, EqualTypes
  <2>2. IsEqual(m, n) <=> Compare(n, m) = "same"
    BY <1>1, <2>1 DEF IsEqual
  <2>3. ~Meets(n, m)
    BY IntegerMeetsNothing
  <2>4. Compare(n, m) = Ordered(n.given, m.given)
    BY <2>3, BlurredBoth, CompareIsExact
  <2> QED BY <1>2, <2>2, <2>4, ReverseOfOrdered
<1>4. CASE m.class # "UInt64"
  <2>1. IsEqualType(m) = "long long" /\ IsEqualType(n) = "long double"
    BY <1>4, EqualTypes
  <2>2. ~IsEqual(m, n)
    BY <1>1, <2>1 DEF IsEqual
  <2>3. ~LongReal(n.given)
    BY RealOfNumber
  <2>4. CASE Blurry(m)
    BY <1>2, <2>2, <2>4, BlurryMeets, LongEndNumbers
  <2>5. CASE ~Blurry(m)
    <3>1. PICK i \in Int : i = m.value /\ -Int64Max - 1 <= i /\ i <= Int64Max
      BY <1>4, IntegerInRange, SoundParts
    <3>2. m.given = i * One
      BY <2>5, <3>1, RealOfNumber
    <3>3. i * One <= Int64Max * One /\ (-Int64Max - 1) * One <= i * One
      <4>1. Int64Max \in Int /\ -Int64Max - 1 \in Int /\ One \in Nat
        BY Widths
      <4> QED BY <3>1, <4>1, ProductGrows
    <3>4. (i * One) % One = 0 /\ i * One \in Int
      BY Widths, MultiplesHaveNoRemainder
    <3>5. LongReal(m.given)
      BY <3>2, <3>3, <3>4, LongEndNumbers DEF LongReal
    <3> QED BY <2>2, <2>3, <3>5
  <2> QED BY <2>4, <2>5
<1> QED BY <1>3, <1>4

LEMMA GivenOfIntegers ==
    ASSUME NEW m, NEW n, Sound(m), Sound(n), m.class \in IntClass, n.class \in IntClass,
           ~Blurred(m, n)
    PROVE  m.value = n.value <=> m.given = n.given
<1>1. /\ m.value \in Int /\ n.value \in Int /\ Real(m) \in Int /\ Real(n) \in Int
      /\ m.given \in Int /\ n.given \in Int
  BY SoundParts, RealOfNumber
<1>2. Real(m) = m.value * One /\ Real(n) = n.value * One
  BY RealOfNumber
<1>3. m.value = n.value <=> Real(m) = Real(n)
  BY <1>1, <1>2, Widths, OrderOfMultiples
<1>4. Ordered(Real(m), Real(n)) = Ordered(m.given, n.given)
  BY RealsAreOrdered
<1> QED BY <1>1, <1>3, <1>4, ReverseOfOrdered

(* -isEqualToNumber:, which decides by the class before it looks at a      *)
(* value, is symmetric and answers YES if and only if the reals are equal. *)
THEOREM EqualityIsOfReals == Spec => []EqualityIsExact
<1>1. IInv => EqualityIsExact
  <2> SUFFICES ASSUME NEW m \in Numbers, NEW n \in Numbers, Sound(m), Sound(n)
               PROVE  /\ IsEqual(m, n) = IsEqual(n, m)
                      /\ NaN \notin {m.given, n.given} /\ ~Blurred(m, n)
                            => (IsEqual(m, n) <=> m.given = n.given)
    BY DEF EqualityIsExact, IInv
  <2>1. IsEqual(m, n) \in BOOLEAN /\ IsEqual(n, m) \in BOOLEAN
    BY DEF IsEqual
  <2>2. IsEqual(m, n) = IsEqual(n, m)
    BY <2>1, IsEqualBoth
  <2>3. ASSUME NaN \notin {m.given, n.given}, ~Blurred(m, n)
        PROVE  IsEqual(m, n) <=> m.given = n.given
    <3>1. CASE m.class \in IntClass /\ n.class \in IntClass
      BY <2>3, <3>1, EqualIntegers, GivenOfIntegers
    <3>2. CASE m.class \in FPClass /\ n.class \in FPClass
      BY <2>3, <3>2, EqualReals, RealOfNumber
    <3>3. CASE m.class \in IntClass /\ n.class \in FPClass
      BY <2>3, <3>3, EqualMixed
    <3>4. CASE m.class \in FPClass /\ n.class \in IntClass
      <4>1. IsEqual(n, m) <=> n.given = m.given
        BY <2>3, <3>4, BlurredBoth, EqualMixed
      <4> QED BY <4>1, IsEqualBoth
    <3> QED BY <3>1, <3>2, <3>3, <3>4, SoundParts
  <2> QED BY <2>2, <2>3
<1> QED BY <1>1, InitIsSound, NextIsSound, PTL DEF Spec

(* With tagged pointers, -hash of equal integers is the same whatever      *)
(* class they are in, and so is that of equal numbers of one floating      *)
(* point type.                                                             *)
THEOREM EqualHash == Spec => []EqualNumbersHashAlike
<1>1. IInv => EqualNumbersHashAlike
  <2> SUFFICES ASSUME NEW m \in Numbers, NEW n \in Numbers, Sound(m), Sound(n),
                      tps, IsEqual(m, n),
                      ObjCType(m) = ObjCType(n) \/ {m.class, n.class} \subseteq IntClass
               PROVE  Hash(m) = Hash(n)
    BY DEF EqualNumbersHashAlike, IInv
  <2>1. m.class \in IntClass \cup FPClass /\ n.class \in IntClass \cup FPClass
    BY SoundParts
  <2>2. ASSUME NEW k, Sound(k), k.class \in IntClass
        PROVE  Hash(k) = {<<"integer", Wrapped("ulong", k.value)>>}
    <3>1. k.class \in {"Bool", "TaggedInteger", "Int64", "UInt64"}
      BY <2>2, SoundParts, ClassParts DEF WellTagged
    <3>2. k.class \notin {"Int32", "UInt32"}
      BY <3>1
    <3> QED BY <3>1, <3>2, Zenon DEF Hash
  <2>3. ASSUME NEW k, Sound(k), k.class \in FPClass
        PROVE  Hash(k) = FPHash(ObjCType(k), k.value)
    <3>1. k.class \notin {"Bool", "TaggedInteger", "Int64", "UInt64"}
      BY <2>3, ClassParts
    <3>2. k.class \notin {"Int32", "UInt32"}
      BY <2>3, ClassParts
    <3> QED BY <3>1, <3>2, Zenon DEF Hash
  <2>4. CASE m.class \in IntClass /\ n.class \in IntClass
    <3>1. m.value = n.value
      BY <2>4, EqualIntegers
    <3>2. /\ Hash(m) = {<<"integer", Wrapped("ulong", m.value)>>}
          /\ Hash(n) = {<<"integer", Wrapped("ulong", n.value)>>}
      BY <2>2, <2>4
    <3> QED BY <3>1, <3>2
  <2>5. CASE ~(m.class \in IntClass /\ n.class \in IntClass)
    <3>1. ObjCType(m) = ObjCType(n)
      BY <2>5
    <3>2. \A k \in {m, n} : /\ k.class \in FPClass => ObjCType(k) \in FP
                            /\ k.class \in IntClass => ObjCType(k) \notin FP
      BY RealOfNumber, IntegerInRange
    <3>3. m.class \in FPClass /\ n.class \in FPClass
      BY <2>1, <2>5, <3>1, <3>2
    <3>4. m.value = n.value
      BY <3>3, EqualReals
    <3>5. Hash(m) = FPHash(ObjCType(m), m.value) /\ Hash(n) = FPHash(ObjCType(n), n.value)
      BY <2>3, <3>3
    <3> QED BY <3>1, <3>4, <3>5
  <2> QED BY <2>4, <2>5
<1> QED BY <1>1, InitIsSound, NextIsSound, PTL DEF Spec

=============================================================================
