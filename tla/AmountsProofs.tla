--------------------------- MODULE AmountsProofs ----------------------------
(***************************************************************************)
(* What the forms make of amounts, proved for any widths of the integers,  *)
(* any rate of drops to TRX, and any balances and typed numbers.           *)
(***************************************************************************)
EXTENDS Amounts, TLAPS, WellFoundedInduction

-----------------------------------------------------------------------------
(* Integer arithmetic.                                                      *)

\* Division cuts off: x is between d times the quotient and d more than that.
LEMMA DivFacts ==
  ASSUME NEW x \in Int, NEW d \in Int, d > 0
  PROVE  /\ x \div d \in Int /\ x % d \in Int
         /\ (x \div d) * d <= x /\ x < (x \div d) * d + d
         /\ x % d = x - (x \div d) * d
  OBVIOUS

\* Inequalities can be multiplied, and a common factor left out.
LEMMA MulFacts ==
  ASSUME NEW x \in Int, NEW y \in Int, NEW d \in Int, d > 0
  PROVE  /\ x * d \in Int
         /\ x <= y => x * d <= y * d
         /\ x * d <= y * d => x <= y
         /\ x * d < y * d => x < y
         /\ (x + 1) * d = x * d + d
         /\ (x - 1) * d = x * d - d
  OBVIOUS

\* What is typed is an integer.
LEMMA TypedIntegers == \A x \in Typed : x \in Int
  BY AmountsAssumption

\* A number that fits is the same in the narrower type.
LEMMA NarrowFits ==
  ASSUME NEW half \in Nat, NEW x \in Int, -half <= x, x < half
  PROVE  Narrow(x, half) = x
  BY DEF Narrow

-----------------------------------------------------------------------------
(* Induction over the naturals, from their having least elements.           *)

Less == {ss \in Nat \X Nat : ss[1] < ss[2]}

\* There are no numbers without a least one among them.
LEMMA LeastNumber ==
  ASSUME NEW T, T \subseteq Nat, T # {}
  PROVE  \E n \in T : \A m \in T : n <= m
<1>1. IsWellFoundedOn(Less, Nat)
  BY NatLessThanWellFounded DEF OpToRel, Less
<1>2. \E n \in T : \A m \in T : ~(<<m, n>> \in Less)
  BY <1>1, WFMin
<1>3. PICK n \in T : \A m \in T : ~(m < n)
  BY <1>2 DEF Less
<1> QED
  BY <1>3

\* A set with 0 that has the successor of each of its numbers has all numbers.
LEMMA NatInductionSet ==
  ASSUME NEW S, 0 \in S, \A n \in Nat : n \in S => n + 1 \in S
  PROVE  \A n \in Nat : n \in S
<1> SUFFICES ASSUME Nat \ S # {} PROVE FALSE
  OBVIOUS
<1>1. PICK n \in Nat \ S : \A m \in Nat \ S : n <= m
  BY LeastNumber
<1>2. n # 0 /\ n - 1 \in Nat
  BY <1>1
<1>3. n - 1 \in S
  BY <1>1, <1>2
<1> QED
  BY <1>1, <1>2, <1>3

-----------------------------------------------------------------------------
(* Doubles.                                                                 *)

\* The constants.
LEMMA ConstantFacts ==
  /\ Rate \in Nat /\ Rate > 1 /\ RateOdd \in Nat /\ RateTwos \in Nat /\ Rate = RateOdd * RateTwos
  /\ Exact \in Nat /\ Exact > 7 /\ Rate <= Exact
  /\ Half32 \in Nat /\ 2 <= Half32 /\ Half64 \in Nat /\ Exact <= Half64
  /\ D \in Nat /\ D > 0 /\ D \in Units /\ RateTwos * D \in Units
  /\ \A u \in Units : u \in Nat /\ u > 0
<1>1. RateOdd \in Nat /\ RateTwos \in Nat /\ RateOdd * RateTwos \in Nat
  BY AmountsAssumption
<1>2. Rate \in Nat /\ Rate > 1 /\ Rate = RateOdd * RateTwos
  BY <1>1, AmountsAssumption DEF Rate
<1>3. D \in Units /\ RateTwos * D \in Units /\ Units \subseteq Nat \ {0}
  BY DoublesAssumption
<1>4. /\ Exact \in Nat /\ Exact > 7 /\ Rate <= Exact
      /\ 2 <= Half32 /\ Exact <= Half64
  BY DoublesAssumption
<1>5. Half32 \in Nat /\ Half64 \in Nat
  BY AmountsAssumption
<1>6. \A u \in Units : u \in Nat /\ u > 0
  BY <1>3
<1> QED
  BY <1>1, <1>2, <1>3, <1>4, <1>5, <1>6

\* What is rounded up is not more than y exactly if it was not before.
LEMMA CeilFacts ==
  ASSUME NEW x \in Int, NEW g \in Int, g > 0, NEW y \in Int
  PROVE  (x + g - 1) \div g <= y <=> x <= y * g
<1> DEFINE c == (x + g - 1) \div g
<1>1. c \in Int /\ c * g <= x + g - 1 /\ x + g - 1 < c * g + g
  BY DivFacts
<1> HIDE DEF c
<1>2. ASSUME c <= y PROVE x <= y * g
  <2>1. c * g <= y * g
    BY <1>1, <1>2, MulFacts
  <2> QED
    BY <1>1, <2>1
<1>3. ASSUME x <= y * g PROVE c <= y
  <2>1. c * g < (y + 1) * g
    BY <1>1, <1>3, MulFacts
  <2>2. c < y + 1
    BY <1>1, <2>1, MulFacts
  <2> QED
    BY <1>1, <2>2
<1> QED
  BY <1>2, <1>3 DEF c

\* There is a last place for every number that is not too large, and it is the least one.
LEMMA UnitFacts ==
  ASSUME NEW n \in Nat, NEW d \in Nat, d > 0, \E w \in Units : n <= w * (d * Exact)
  PROVE  /\ Unit(n, d) \in Units /\ n <= Unit(n, d) * (d * Exact)
         /\ \A w \in Units : n <= w * (d * Exact) => Unit(n, d) <= w
<1> USE ConstantFacts
<1> DEFINE S == {u \in Units : (n + d * Exact - 1) \div (d * Exact) <= u}
<1>1. d * Exact \in Int /\ d * Exact > 0
  OBVIOUS
<1>2. \A w \in Units : w \in S <=> n <= w * (d * Exact)
  <2> TAKE w \in Units
  <2> DEFINE g == d * Exact
  <2> HIDE DEF g
  <2>1. (n + g - 1) \div g <= w <=> n <= w * g
    BY <1>1, CeilFacts DEF g
  <2> QED
    BY <2>1 DEF g
<1>3. S \subseteq Nat /\ S # {} /\ S \subseteq Units
  BY <1>2
<1>4. Unit(n, d) = CHOOSE x \in S : \A y \in S : x <= y
  BY DEF Unit, Min
<1> HIDE DEF S
<1>5. \E x \in S : \A y \in S : x <= y
  BY <1>3, LeastNumber
<1>6. Unit(n, d) \in S /\ \A y \in S : Unit(n, d) <= y
  BY <1>4, <1>5
<1> QED
  BY <1>2, <1>3, <1>6

\* The nearest double is within half a last place.
LEMMA NearestFacts ==
  ASSUME NEW n \in Nat, NEW d \in Nat, d > 0, Unit(n, d) \in Units
  PROVE  /\ Nearest(n, d) \in Nat
         /\ 2 * (Nearest(n, d) * d - n) <= Unit(n, d) * d
         /\ 2 * (n - Nearest(n, d) * d) <= Unit(n, d) * d
         /\ \A M \in Nat : n <= M * (Unit(n, d) * d) => Nearest(n, d) <= M * Unit(n, d)
         /\ \A M \in Nat : n = M * (Unit(n, d) * d) => Nearest(n, d) = M * Unit(n, d)
<1> USE ConstantFacts
<1> DEFINE u == Unit(n, d)
           g == u * d
           k == n \div g
           r == n % g
           i == IF 2 * r < g \/ (2 * r = g /\ k % 2 = 0) THEN k ELSE k + 1
<1>1. u \in Nat /\ u > 0 /\ g \in Nat /\ g > 0
  <2>1. u \in Nat /\ u > 0
    OBVIOUS
  <2> HIDE DEF u
  <2>2. \A e \in Nat : e > 0 => e * d \in Nat /\ e * d > 0
    OBVIOUS
  <2> QED
    BY <2>1, <2>2 DEF g
<1>2. Nearest(n, d) = u * i
  BY DEF Nearest
<1> HIDE DEF g, u
<1>3. k \in Int /\ k * g <= n /\ n < k * g + g /\ r = n - k * g
  BY <1>1, DivFacts
<1>4. (k + 1) * g = k * g + g
  BY <1>1, <1>3, MulFacts
<1>5. k >= 0
  <2>1. 0 * g < (k + 1) * g
    BY <1>1, <1>3, <1>4
  <2>2. 0 < k + 1
    BY <1>1, <1>3, <2>1, MulFacts
  <2> QED
    BY <1>3, <2>2
<1> HIDE DEF k, r
<1>6. \/ i = k /\ 2 * r <= g
      \/ i = k + 1 /\ 2 * r >= g /\ 2 * r > 0
  BY <1>1, <1>3
<1>7. i \in Nat /\ (i = k \/ i = k + 1)
  BY <1>3, <1>5, <1>6
<1> HIDE DEF i
<1>8. u * i \in Nat /\ (u * i) * d = i * g
  BY <1>1, <1>7 DEF g
<1>9. 2 * (i * g - n) <= g /\ 2 * (n - i * g) <= g
  <2>1. CASE i = k /\ 2 * r <= g
    BY <1>1, <1>3, <2>1
  <2>2. CASE i = k + 1 /\ 2 * r >= g /\ 2 * r > 0
    BY <1>1, <1>3, <1>4, <2>2
  <2> QED
    BY <1>6, <2>1, <2>2
<1>10. ASSUME NEW M \in Nat, n <= M * g PROVE i <= M /\ (n = M * g => i = M)
  <2>1. k <= M
    <3>1. k * g <= M * g
      BY <1>1, <1>3, <1>10
    <3> QED
      BY <1>1, <1>3, <3>1, MulFacts
  <2>2. CASE k = M
    <3>1. r = 0
      BY <1>1, <1>3, <1>10, <2>2
    <3> QED
      BY <1>1, <1>6, <2>2, <3>1
  <2>3. CASE k < M
    <3>1. (k + 1) * g <= M * g
      BY <1>1, <1>3, <2>3, MulFacts
    <3>2. n < M * g
      BY <1>1, <1>3, <1>4, <3>1
    <3> QED
      BY <1>3, <1>7, <2>3, <3>2
  <2> QED
    BY <1>3, <2>1, <2>2, <2>3
<1>11. \A M \in Nat : i <= M => u * i <= M * u
  BY <1>1, <1>7, MulFacts
<1>12. \A M \in Nat : i = M => u * i = M * u
  BY <1>1, <1>7
<1>13. \A M \in Nat : n <= M * g => u * i <= M * u
  BY <1>10, <1>11
<1>14. \A M \in Nat : n = M * g => u * i = M * u
  BY <1>1, <1>10, <1>12
<1> QED
  <2>1. /\ Nearest(n, d) \in Nat
        /\ 2 * (Nearest(n, d) * d - n) <= u * d
        /\ 2 * (n - Nearest(n, d) * d) <= u * d
    BY <1>2, <1>8, <1>9 DEF g
  <2>2. /\ \A M \in Nat : n <= M * (u * d) => Nearest(n, d) <= M * u
        /\ \A M \in Nat : n = M * (u * d) => Nearest(n, d) = M * u
    BY <1>2, <1>13, <1>14 DEF g
  <2> QED
    BY <2>1, <2>2 DEF u

\* Rounding errs by at most one in Exact, or half of a D-th.
LEMMA NearestError ==
  ASSUME NEW n \in Nat, NEW d \in Nat, d > 0, \E w \in Units : n <= w * (d * Exact)
  PROVE  /\ Nearest(n, d) \in Nat
         /\ Exact * (Nearest(n, d) * d - n) <= n + Exact * d
         /\ Exact * (n - Nearest(n, d) * d) <= n + Exact * d
<1> USE ConstantFacts
<1> DEFINE u == Unit(n, d)
           v == Nearest(n, d)
<1>1. /\ u \in Units /\ n <= u * (d * Exact)
      /\ \A w \in Units : n <= w * (d * Exact) => u <= w
  BY UnitFacts
<1>2. v \in Nat /\ 2 * (v * d - n) <= u * d /\ 2 * (n - v * d) <= u * d
  BY <1>1, NearestFacts
<1> HIDE DEF u, v
<1>3. CASE u = 1
  <2>1. v * d \in Int /\ v * d - n <= d /\ n - v * d <= d
    BY <1>2, <1>3
  <2>2. (v * d - n) * Exact <= d * Exact /\ (n - v * d) * Exact <= d * Exact
    BY <2>1, MulFacts
  <2>3. Exact * (v * d - n) <= Exact * d /\ Exact * (n - v * d) <= Exact * d
    BY <2>1, <2>2
  <2>4. v \in Nat /\ Exact * (v * d - n) <= n + Exact * d /\ Exact * (n - v * d) <= n + Exact * d
    BY <1>2, <2>1, <2>3
  <2> QED
    BY <2>4 DEF v
<1>4. CASE u # 1
  <2>1. PICK h \in Units : u = 2 * h
    BY <1>1, <1>4, DoublesAssumption
  <2>2. h \in Nat /\ h > 0 /\ h < u
    BY <2>1
  <2>3. n > h * (d * Exact)
    <3>1. h * (d * Exact) \in Int
      BY <2>2
    <3> QED
      BY <1>1, <2>2, <3>1
  <2>4. u * d = 2 * (h * d) /\ h * d \in Nat
    BY <2>1, <2>2
  <2>5. v * d \in Int /\ v * d - n <= h * d /\ n - v * d <= h * d
    BY <1>2, <2>4
  <2>6. (v * d - n) * Exact <= (h * d) * Exact /\ (n - v * d) * Exact <= (h * d) * Exact
    BY <2>4, <2>5, MulFacts
  <2>7. (h * d) * Exact = h * (d * Exact)
    BY <2>2
  <2>8. Exact * (v * d - n) <= n /\ Exact * (n - v * d) <= n /\ Exact * d >= 0
    BY <2>3, <2>4, <2>5, <2>6, <2>7
  <2>9. v \in Nat /\ Exact * (v * d - n) <= n + Exact * d /\ Exact * (n - v * d) <= n + Exact * d
    BY <1>2, <2>5, <2>8
  <2> QED
    BY <2>9 DEF v
<1> QED
  BY <1>3, <1>4

\* A number is not rounded up beyond a double, and one that is a double is not rounded.
LEMMA NearestDouble ==
  ASSUME NEW m \in Nat, m <= Exact, NEW w \in Units, NEW n \in Nat, NEW d \in Nat, d > 0
  PROVE  /\ n <= (m * w) * d => Nearest(n, d) \in Nat /\ Nearest(n, d) <= m * w
         /\ n = (m * w) * d => Nearest(n, d) = m * w
<1> USE ConstantFacts
<1> SUFFICES ASSUME n <= (m * w) * d
             PROVE  /\ Nearest(n, d) \in Nat /\ Nearest(n, d) <= m * w
                    /\ n = (m * w) * d => Nearest(n, d) = m * w
  OBVIOUS
<1> DEFINE u == Unit(n, d)
<1>1. w \in Nat /\ w > 0
  OBVIOUS
<1>2. n <= w * (d * Exact)
  <2>1. w * d \in Nat /\ (m * w) * d = m * (w * d) /\ w * (d * Exact) = Exact * (w * d)
    BY <1>1
  <2>2. w * d > 0
    BY <1>1
  <2>3. m * (w * d) <= Exact * (w * d)
    BY <2>1, <2>2, MulFacts
  <2> QED
    BY <2>1, <2>3
<1>3. u \in Units /\ u <= w
  BY <1>2, UnitFacts
<1>8. /\ Nearest(n, d) \in Nat
      /\ \A M \in Nat : n <= M * (u * d) => Nearest(n, d) <= M * u
      /\ \A M \in Nat : n = M * (u * d) => Nearest(n, d) = M * u
  BY <1>3, NearestFacts
<1> HIDE DEF u
<1>4. u \in Nat /\ u > 0
  BY <1>3
<1> DEFINE c == w \div u
<1>5. c \in Int /\ w = c * u
  <2>1. w % u = 0
    BY <1>3, DoublesAssumption
  <2> QED
    BY <1>1, <1>4, <2>1, DivFacts
<1> HIDE DEF c
<1>6. c \in Nat
  <2>1. 0 * u < c * u
    BY <1>1, <1>4, <1>5
  <2>2. 0 < c
    BY <1>4, <1>5, <2>1, MulFacts
  <2> QED
    BY <1>5, <2>2
<1>7. m * c \in Nat /\ (m * c) * u = m * w /\ (m * c) * (u * d) = (m * w) * d
  BY <1>4, <1>5, <1>6
<1>9. /\ n <= (m * c) * (u * d) => Nearest(n, d) <= (m * c) * u
      /\ n = (m * c) * (u * d) => Nearest(n, d) = (m * c) * u
  BY <1>7, <1>8
<1> QED
  BY <1>7, <1>8, <1>9

\* The conversion of p D-ths to an integer cuts off what is below one.
LEMMA ToDropFacts ==
  ASSUME NEW x \in Nat, NEW p \in Nat, p = Nearest(x * Rate, 1), p < Half64 * D
  PROVE  ToDrop(x) \in Nat /\ ToDrop(x) * D <= p /\ p < (ToDrop(x) + 1) * D
<1> USE ConstantFacts
<1> DEFINE q == p \div D
<1>1. x * Rate \in Nat
  OBVIOUS
<1>2. Double(x * Rate, 1) = p
  BY <1>1 DEF Double
<1>3. q \in Int /\ q * D <= p /\ p < q * D + D
  BY DivFacts
<1> HIDE DEF q
<1>4. (q + 1) * D = q * D + D
  BY <1>3, MulFacts
<1>5. 0 <= q /\ q < Half64
  <2>1. 0 * D < (q + 1) * D /\ q * D < Half64 * D
    BY <1>3, <1>4
  <2>2. 0 < q + 1 /\ q < Half64
    BY <1>3, <2>1, MulFacts
  <2> QED
    BY <1>3, <2>2
<1>6. ToDrop(x) = q
  <2>1. q \in -Half64 .. Half64 - 1 /\ ~(p < 0)
    BY <1>3, <1>5
  <2> QED
    BY <1>2, <2>1 DEF ToDrop, q
<1> QED
  BY <1>3, <1>4, <1>5, <1>6

\* Whole TRX whose drops are a double become just as many drops.
LEMMA ToDropWhole ==
  ASSUME NEW c \in Nat, c * Rate <= Exact, c * Rate < Half64
  PROVE  Double(c * D, 1) = c * D /\ ToDrop(c * D) = c * Rate
<1> USE ConstantFacts
<1> DEFINE m == c * Rate
<1>1. m \in Nat /\ c <= m /\ c * D \in Nat /\ (c * D) * Rate = m * D /\ m * D \in Nat
  OBVIOUS
<1> HIDE DEF m
<1>2. m <= Exact /\ m < Half64
  BY DEF m
<1>3. Nearest(c * D, 1) = c * D
  <2>1. c <= Exact /\ c * D = (c * D) * 1
    BY <1>1, <1>2
  <2> QED
    BY <1>1, <2>1, NearestDouble
<1>4. Nearest(m * D, 1) = m * D
  <2>1. m * D = (m * D) * 1
    BY <1>1
  <2> QED
    BY <1>1, <1>2, <2>1, NearestDouble
<1>5. m * D < Half64 * D
  <2>1. (m + 1) * D <= Half64 * D /\ (m + 1) * D = m * D + D
    BY <1>1, <1>2, MulFacts
  <2> QED
    BY <1>1, <2>1
<1> DEFINE q == ToDrop(c * D)
<1>6. q \in Nat /\ q * D <= m * D /\ m * D < (q + 1) * D
  <2>1. m * D = Nearest((c * D) * Rate, 1)
    BY <1>1, <1>4
  <2> QED
    BY <1>1, <1>5, <2>1, ToDropFacts
<1> HIDE DEF q
<1>7. q <= m /\ m < q + 1
  BY <1>1, <1>6, MulFacts
<1>8. q = m
  BY <1>1, <1>6, <1>7
<1> QED
  BY <1>1, <1>3, <1>8 DEF Double, q, m

\* ToTrx loses nothing but the part below a TRX: its result is a double.
LEMMA ToTrxFacts ==
  ASSUME NEW amount \in Nat, amount < Half64
  PROVE  /\ amount \div Rate \in Nat /\ amount \div Rate <= Exact
         /\ (amount \div Rate) * Rate <= amount
         /\ amount % Rate = 0 => (amount \div Rate) * Rate = amount
         /\ ToTrx(amount) = (amount \div Rate) * D
<1> USE ConstantFacts
<1> DEFINE t == amount \div Rate
<1>1. t \in Int /\ t * Rate <= amount /\ amount < t * Rate + Rate /\ amount % Rate = amount - t * Rate
  BY DivFacts
<1>2. ToTrx(amount) = Double(t * D, 1)
  BY DEF ToTrx
<1> HIDE DEF t
<1>3. t >= 0
  <2>1. 0 * Rate < (t + 1) * Rate
    BY <1>1, MulFacts
  <2>2. 0 < t + 1
    BY <1>1, <2>1, MulFacts
  <2> QED
    BY <1>1, <2>2
<1>4. t <= Exact
  <2>1. t * Rate <= Exact * Rate
    <3>1. Half64 <= Exact * Rate /\ Exact * Rate \in Int /\ t * Rate \in Int
      BY <1>1, DoublesAssumption
    <3> QED
      BY <1>1, <3>1
  <2> QED
    BY <1>1, <2>1, MulFacts
<1>5. t * D \in Nat /\ t * D = (t * D) * 1
  BY <1>1, <1>3
<1>6. Nearest(t * D, 1) = t * D
  BY <1>1, <1>3, <1>4, <1>5, NearestDouble
<1>7. Double(t * D, 1) = t * D
  BY <1>5, <1>6 DEF Double
<1> QED
  BY <1>1, <1>2, <1>3, <1>4, <1>7 DEF t

\* No more than t TRX become no more than their drops, if these are a double.
LEMMA ToDropCovered ==
  ASSUME NEW x \in Nat, NEW t \in Nat, x <= t * D, t * RateOdd <= Exact, t * Rate < Half64
  PROVE  ToDrop(x) \in Nat /\ ToDrop(x) <= t * Rate
<1> USE ConstantFacts
<1> DEFINE m == t * RateOdd
           w == RateTwos * D
           b == t * Rate
           p == Nearest(x * Rate, 1)
<1>1. m \in Nat /\ b \in Nat /\ x * Rate \in Nat /\ b * D \in Nat
  OBVIOUS
<1>2. m * w = b * D
  <2>1. m * w = (t * (RateOdd * RateTwos)) * D
    OBVIOUS
  <2> QED
    BY <2>1
<1>3. x * Rate <= b * D
  <2>1. x * Rate <= (t * D) * Rate
    BY MulFacts
  <2>2. (t * D) * Rate = b * D
    OBVIOUS
  <2> QED
    BY <2>1, <2>2
<1> HIDE DEF m, w, b
<1>4. p \in Nat /\ p <= b * D
  <2>1. m <= Exact /\ w \in Units /\ (m * w) * 1 = b * D
    BY <1>1, <1>2 DEF m, w
  <2> QED
    BY <1>1, <1>2, <1>3, <2>1, NearestDouble
<1> HIDE DEF p
<1>5. b * D < Half64 * D
  <2>1. b + 1 <= Half64
    BY <1>1 DEF b
  <2>2. (b + 1) * D <= Half64 * D /\ (b + 1) * D = b * D + D
    BY <1>1, <2>1, MulFacts
  <2> QED
    BY <1>1, <2>2
<1> DEFINE q == ToDrop(x)
<1>6. q \in Nat /\ q * D <= p
  <2>1. p < Half64 * D
    BY <1>1, <1>4, <1>5
  <2> QED
    BY <1>4, <2>1, ToDropFacts DEF p
<1> HIDE DEF q
<1>7. q * D <= b * D
  BY <1>1, <1>4, <1>6
<1>8. q <= b
  BY <1>1, <1>6, <1>7, MulFacts
<1> QED
  BY <1>6, <1>8 DEF q, b

\* What rounding n / d does to f times as much: it errs by one in Exact, and f D-ths.
LEMMA RoundingError ==
  ASSUME NEW n \in Nat, NEW d \in Nat, d > 0, NEW f \in Nat, f > 0, NEW g \in Nat,
         n * f <= Exact * (g * d), n <= D * (d * Exact)
  PROVE  /\ Nearest(n, d) \in Nat
         /\ f * (Nearest(n, d) * d - n) <= (g + f) * d
         /\ f * (n - Nearest(n, d) * d) <= (g + f) * d
<1> USE ConstantFacts
<1> DEFINE v == Nearest(n, d)
<1>1. /\ v \in Nat
      /\ Exact * (v * d - n) <= n + Exact * d
      /\ Exact * (n - v * d) <= n + Exact * d
  BY NearestError
<1> HIDE DEF v
<1>2. ASSUME NEW e \in Int, Exact * e <= n + Exact * d PROVE f * e <= (g + f) * d
  <2>1. (Exact * e) * f <= (n + Exact * d) * f
    BY <1>2, MulFacts
  <2>2. (n + Exact * d) * f = n * f + (f * d) * Exact
    OBVIOUS
  <2>3. (Exact * e) * f = (f * e) * Exact
    OBVIOUS
  <2>4. Exact * (g * d) = (g * d) * Exact
    OBVIOUS
  <2>5. n * f \in Int /\ (f * d) * Exact \in Int /\ (g * d) * Exact \in Int
    OBVIOUS
  <2>6. (f * e) * Exact <= (g * d) * Exact + (f * d) * Exact
    BY <2>1, <2>2, <2>3, <2>4, <2>5
  <2>7. (g * d) * Exact + (f * d) * Exact = ((g + f) * d) * Exact
    OBVIOUS
  <2>8. f * e \in Int /\ (g + f) * d \in Int
    OBVIOUS
  <2> QED
    BY <2>6, <2>7, <2>8, MulFacts
<1>3. v * d - n \in Int /\ n - v * d \in Int
  BY <1>1
<1>4. f * (v * d - n) <= (g + f) * d /\ f * (n - v * d) <= (g + f) * d
  BY <1>1, <1>2, <1>3
<1> QED
  BY <1>1, <1>4 DEF v

\* The same for a product.
LEMMA ProductError ==
  ASSUME NEW n \in Nat, NEW f \in Nat, f > 0, NEW g \in Nat, n * f <= Exact * g, n <= Exact * D
  PROVE  /\ Nearest(n, 1) \in Nat
         /\ f * (Nearest(n, 1) - n) <= g + f
         /\ f * (n - Nearest(n, 1)) <= g + f
<1> USE ConstantFacts
<1> DEFINE d == 1
<1>1. d \in Nat /\ d > 0 /\ g * d = g /\ d * Exact = Exact /\ \A v \in Int : v * d = v
  OBVIOUS
<1> HIDE DEF d
<1>2. n * f <= Exact * (g * d) /\ n <= D * (d * Exact)
  BY <1>1
<1>3. /\ Nearest(n, d) \in Nat
      /\ f * (Nearest(n, d) * d - n) <= (g + f) * d
      /\ f * (n - Nearest(n, d) * d) <= (g + f) * d
  BY <1>1, <1>2, RoundingError
<1>4. (g + f) * d = g + f /\ Nearest(n, d) * d = Nearest(n, d)
  BY <1>1, <1>3
<1> QED
  BY <1>3, <1>4 DEF d

\* What is within less than a drop of y / d drops, and then cut off.
LEMMA CutOff ==
  ASSUME NEW p \in Nat, NEW q \in Nat, q * D <= p, p < (q + 1) * D,
         NEW y \in Nat, NEW d \in Nat, d > 0,
         p * d < (y + d) * D, (y - d) * D < p * d
  PROVE  (q - 1) * d < y /\ y < (q + 2) * d
<1> USE ConstantFacts
<1>1. q * d < y + d
  <2>1. (q * D) * d <= p * d /\ (q * D) * d = (q * d) * D
    BY MulFacts
  <2>2. (q * d) * D < (y + d) * D
    BY <2>1
  <2> QED
    BY <2>2, MulFacts
<1>2. y - d < (q + 1) * d
  <2>1. (p + 1) * d <= ((q + 1) * D) * d
    BY MulFacts
  <2>2. (p + 1) * d = p * d + d /\ p * d \in Int
    OBVIOUS
  <2>3. ((q + 1) * D) * d = ((q + 1) * d) * D /\ ((q + 1) * d) * D \in Int /\ (y - d) * D \in Int
    OBVIOUS
  <2>4. (y - d) * D < ((q + 1) * d) * D
    BY <2>1, <2>2, <2>3
  <2>5. y - d \in Int /\ (q + 1) * d \in Int
    OBVIOUS
  <2> QED
    BY <2>4, <2>5, MulFacts
<1>3. (q - 1) * d = q * d - d /\ (q + 1) * d = q * d + d /\ (q + 2) * d = q * d + d + d /\ q * d \in Int
  OBVIOUS
<1> QED
  BY <1>1, <1>2, <1>3

\* Eighths of a TRX are many.
LEMMA EighthFacts == \E h \in Nat : D = 8 * h /\ Rate * Exact <= h
<1> USE ConstantFacts
<1>1. D % 8 = 0 /\ 8 * Rate * Exact <= D
  BY DoublesAssumption
<1>2. PICK h \in Nat : D = 8 * h
  BY <1>1
<1>3. Rate * Exact \in Nat /\ 8 * Rate * Exact = 8 * (Rate * Exact)
  OBVIOUS
<1>4. Rate * Exact <= h
  BY <1>1, <1>2, <1>3
<1> QED
  BY <1>2, <1>4

\* An amount of n / d TRX, not too large, typed and converted to drops.
LEMMA ToDropTyped ==
  ASSUME NEW n \in Nat, NEW d \in Nat, d > 0, 4 * n * Rate <= Exact * d
  PROVE  LET drops == ToDrop(Double(n * D, d))
         IN  /\ drops \in Nat
             /\ (drops - 1) * d < n * Rate /\ n * Rate < (drops + 2) * d
<1> USE ConstantFacts
<1> DEFINE x == Nearest(n * D, d)
           p == Nearest(x * Rate, 1)
           y == n * Rate
<1>1. PICK h \in Nat : D = 8 * h /\ Rate * Exact <= h
  BY EighthFacts
<1> DEFINE G == 2 * h
<1>2. G \in Nat /\ D = 4 * G /\ Rate + 1 < G
  <2>1. 8 * Rate <= Rate * Exact
    BY MulFacts
  <2> QED
    BY <1>1, <2>1
<1>3. y \in Nat /\ n <= y /\ n * D \in Nat /\ (n * D) * Rate = y * D
  OBVIOUS
<1>4. 4 * y <= Exact * d
  <2>1. 4 * n * Rate = 4 * y
    OBVIOUS
  <2> QED
    BY <2>1
<1> HIDE DEF G, y
<1>5. y * D <= Exact * (G * d)
  <2>1. y * D = (4 * y) * G
    BY <1>2, <1>3
  <2>2. (4 * y) * G <= (Exact * d) * G
    BY <1>2, <1>3, <1>4, MulFacts
  <2>3. (Exact * d) * G = Exact * (G * d)
    BY <1>2
  <2> QED
    BY <2>1, <2>2, <2>3
<1>6. n * D <= D * (d * Exact)
  <2>1. n <= d * Exact
    BY <1>3, <1>4
  <2>2. n * D <= (d * Exact) * D
    BY <2>1, MulFacts
  <2> QED
    BY <2>2
<1>7. /\ x \in Nat
      /\ Rate * (x * d - n * D) <= (G + Rate) * d
      /\ Rate * (n * D - x * d) <= (G + Rate) * d
  <2>1. (n * D) * Rate <= Exact * (G * d) /\ Rate > 0
    BY <1>3, <1>5
  <2> QED
    BY <1>2, <1>3, <1>6, <2>1, RoundingError
<1> HIDE DEF x
<1> DEFINE z == x * Rate
<1>8. /\ z \in Nat /\ z * d \in Nat
      /\ z * d - y * D <= (G + Rate) * d
      /\ y * D - z * d <= (G + Rate) * d
  <2>1. Rate * (x * d - n * D) = z * d - y * D /\ Rate * (n * D - x * d) = y * D - z * d
    BY <1>3, <1>7 DEF y
  <2> QED
    BY <1>7, <2>1
<1> HIDE DEF z
<1>9. z <= Exact * G + G + Rate
  <2>1. (G + Rate) * d \in Int /\ Exact * (G * d) \in Int /\ y * D \in Int
    BY <1>2, <1>3
  <2>2. z * d <= Exact * (G * d) + (G + Rate) * d
    BY <1>5, <1>8, <2>1
  <2>3. Exact * (G * d) + (G + Rate) * d = (Exact * G + G + Rate) * d
    BY <1>2
  <2>4. Exact * G + G + Rate \in Int
    BY <1>2
  <2> QED
    BY <1>8, <2>2, <2>3, <2>4, MulFacts
<1>10. 8 * G <= Exact * G /\ Exact * G \in Nat /\ Exact * (2 * G) = 2 * (Exact * G)
       /\ Exact * D = 4 * (Exact * G)
  BY <1>2, MulFacts
<1>11. /\ p \in Nat
       /\ p - z <= 2 * G + 1
       /\ z - p <= 2 * G + 1
  <2>1. z <= Exact * (2 * G) /\ z <= Exact * D
    BY <1>2, <1>8, <1>9, <1>10
  <2>2. z * 1 <= Exact * (2 * G) /\ 2 * G \in Nat
    BY <1>2, <1>8, <2>1
  <2>3. /\ Nearest(z, 1) \in Nat
        /\ 1 * (Nearest(z, 1) - z) <= 2 * G + 1
        /\ 1 * (z - Nearest(z, 1)) <= 2 * G + 1
    BY <1>8, <2>1, <2>2, ProductError
  <2> QED
    BY <1>2, <1>8, <2>3 DEF z
<1> HIDE DEF p
<1>12. p < Half64 * D
  <2>1. p < Exact * D
    BY <1>2, <1>8, <1>9, <1>10, <1>11
  <2>2. Exact * D <= Half64 * D
    BY MulFacts
  <2> QED
    BY <1>11, <2>1, <2>2
<1> DEFINE q == ToDrop(x)
<1>13. q \in Nat /\ q * D <= p /\ p < (q + 1) * D
  BY <1>7, <1>11, <1>12, ToDropFacts DEF p, z
<1>14. q = ToDrop(Double(n * D, d))
  BY <1>3 DEF Double, x
<1> HIDE DEF q
<1>15. p * d < (y + d) * D /\ (y - d) * D < p * d
  <2>1. (p - z) * d <= (2 * G + 1) * d /\ (z - p) * d <= (2 * G + 1) * d
    BY <1>2, <1>8, <1>11, MulFacts
  <2>2. (p - z) * d = p * d - z * d /\ (z - p) * d = z * d - p * d /\ p * d \in Int
    BY <1>8, <1>11
  <2>3. (2 * G + 1) * d + (G + Rate) * d = (3 * G + Rate + 1) * d
    BY <1>2
  <2>4. (3 * G + Rate + 1) * d < D * d
    <3>1. 3 * G + Rate + 1 + 1 <= D
      BY <1>2
    <3>2. (3 * G + Rate + 1 + 1) * d <= D * d
      BY <1>2, <3>1, MulFacts
    <3>3. (3 * G + Rate + 1 + 1) * d = (3 * G + Rate + 1) * d + d
      BY <1>2, MulFacts
    <3> QED
      BY <1>2, <3>2, <3>3
  <2>5. (y + d) * D = y * D + D * d /\ (y - d) * D = y * D - D * d
    BY <1>3
  <2>6. (2 * G + 1) * d \in Int /\ (G + Rate) * d \in Int /\ D * d \in Int /\ y * D \in Int
    BY <1>2, <1>3
  <2> QED
    BY <1>8, <2>1, <2>2, <2>3, <2>4, <2>5, <2>6
<1>16. (q - 1) * d < y /\ y < (q + 2) * d
  BY <1>3, <1>11, <1>13, <1>15, CutOff
<1> QED
  BY <1>13, <1>14, <1>16 DEF y

-----------------------------------------------------------------------------
(* Sending.                                                                 *)

\* The form knows a balance and the whole TRX in it.
SendInv ==
    /\ IsOf("send", waiting) => /\ waiting.balance \in Drops
                                /\ waiting.avaliable = ToTrx(waiting.balance)
    /\ SendWithinBalance

\* An amount that GetSendInfo accepts is covered by the balance.
LEMMA SendStep ==
  ASSUME SendInv, NEW f \in Fractions, ClickSend(f[1], f[2])
  PROVE  SendInv'
<1> USE ConstantFacts
<1> DEFINE n == f[1]
           d == f[2]
           b == waiting.balance
           x == Double(n * D, d)
           t == b \div Rate
<1>1. /\ n \in Nat /\ d \in Nat /\ d > 0 /\ n <= Half64
      /\ b \in Nat /\ b < Half64 /\ waiting.avaliable = ToTrx(b)
  <2>1. f \in (1 .. Half64) \X (1 .. Half64)
    BY AmountsAssumption
  <2>2. f[1] \in 1 .. Half64 /\ f[2] \in 1 .. Half64
    BY <2>1
  <2>3. waiting.balance \in Drops /\ waiting.avaliable = ToTrx(waiting.balance)
    BY DEF ClickSend, SendInv
  <2>4. waiting.balance \in 0 .. Half64 - 1
    BY <2>3, AmountsAssumption
  <2> QED
    BY <2>2, <2>3, <2>4
<1>2. /\ waiting' = None
      /\ request' = [form |-> "send", n |-> n, d |-> d, balance |-> b, drops |-> ToDrop(x)]
      /\ x <= waiting.avaliable
  BY DEF ClickSend, Request
<1> HIDE DEF n, d, b
<1>3. t \in Nat /\ t * Rate <= b /\ ToTrx(b) = t * D
  BY <1>1, ToTrxFacts
<1>4. x \in Nat
  <2>1. n * D \in Nat
    BY <1>1
  <2>2. \E w \in Units : n * D <= w * (d * Exact)
    <3> DEFINE w == Half32 * Half64 * D
    <3>1. w \in Units
      BY DoublesAssumption
    <3>2. n * D <= Half64 * D
      BY <1>1, MulFacts
    <3>3. Half64 * D \in Nat /\ w = Half32 * (Half64 * D)
      OBVIOUS
    <3>4. 1 * (Half64 * D) <= Half32 * (Half64 * D)
      BY <3>3
    <3> HIDE DEF w
    <3>5. w \in Nat /\ n * D <= w
      BY <2>1, <3>1, <3>2, <3>3, <3>4
    <3>6. d * Exact \in Nat /\ d * Exact >= 1
      BY <1>1
    <3>7. w <= w * (d * Exact)
      BY <3>5, <3>6
    <3>8. n * D <= w * (d * Exact)
      BY <2>1, <3>5, <3>6, <3>7
    <3> QED
      BY <3>1, <3>8
  <2> QED
    BY <1>1, <2>1, <2>2, NearestError DEF Double
<1> HIDE DEF x, t
<1>5. ASSUME b <= Exact * RateTwos PROVE ToDrop(x) <= b
  <2>1. t * RateOdd <= Exact
    <3>1. t * Rate = (t * RateOdd) * RateTwos /\ t * RateOdd \in Nat
      BY <1>3
    <3>2. (t * RateOdd) * RateTwos <= Exact * RateTwos
      BY <1>1, <1>3, <1>5, <3>1
    <3>3. RateTwos > 0
      OBVIOUS
    <3> QED
      BY <3>1, <3>2, <3>3, MulFacts
  <2>2. t * Rate < Half64 /\ x <= t * D
    BY <1>1, <1>2, <1>3
  <2>3. ToDrop(x) \in Nat /\ ToDrop(x) <= t * Rate
    BY <1>3, <1>4, <2>1, <2>2, ToDropCovered
  <2> QED
    BY <1>1, <1>3, <2>3
<1>6. ASSUME 4 * n * Rate <= Exact * d
      PROVE  (ToDrop(x) - 1) * d < n * Rate /\ n * Rate < (ToDrop(x) + 2) * d
  BY <1>1, <1>6, ToDropTyped DEF x
<1>7. /\ request'.balance = b /\ request'.drops = ToDrop(x) /\ request'.n = n /\ request'.d = d
      /\ ~IsOf("send", waiting')
  BY <1>2 DEF IsOf
<1>8. SendWithinBalance'
  BY <1>5, <1>6, <1>7 DEF SendWithinBalance
<1> QED
  BY <1>7, <1>8 DEF SendInv, IsOf

(* What is sent is what was typed but for a drop, as long as it is not more *)
(* than a fourth of what a double counts exactly, and never more than the   *)
(* balance the form was shown, as long as that is not more than RateTwos    *)
(* times what a double counts exactly: for every rate, width and precision. *)
THEOREM SendWithinBalanceAlways == Spec => []SendWithinBalance
<1> USE DEF Wait, Request, IsOf, Asked
<1>1. Init => SendInv
  BY DEF Init, SendInv, SendWithinBalance
<1>2. SendInv /\ [Next]_vars => SendInv'
  <2> SUFFICES ASSUME SendInv, [Next]_vars PROVE SendInv'
    OBVIOUS
  <2> USE DEF SendInv, SendWithinBalance
  <2>0. CASE LeaveForm
    BY <2>0 DEF LeaveForm
  <2>1. ASSUME NEW balance \in Drops, OnSendAccount(balance) PROVE SendInv'
    BY <2>1 DEF OnSendAccount
  <2>2. ASSUME NEW balance \in Drops, OnFreezeAccount(balance) PROVE SendInv'
    BY <2>2 DEF OnFreezeAccount
  <2>3. ASSUME NEW f \in Fractions, ClickSend(f[1], f[2]) PROVE SendInv'
    BY <2>3, SendStep
  <2>4. ASSUME NEW amount \in Typed, ClickFreeze(amount) PROVE SendInv'
    BY <2>4 DEF ClickFreeze
  <2>5. ASSUME NEW amount \in Typed, ClickParticipate(amount) PROVE SendInv'
    BY <2>5 DEF ClickParticipate
  <2>6. ASSUME NEW counts, ClickVote(counts) PROVE SendInv'
    BY <2>6 DEF ClickVote
  <2>7. ASSUME NEW frozen, OnVoteAccount(frozen) PROVE SendInv'
    BY <2>7 DEF OnVoteAccount
  <2>8. ASSUME NEW trx \in Typed, NEW num \in Typed, ClickIssue(trx, num) PROVE SendInv'
    BY <2>8 DEF ClickIssue
  <2>9. ASSUME NEW trx_num \in 1 .. Half32 - 1, NEW num \in 1 .. Half32 - 1, UpdateIssueList(trx_num, num)
        PROVE  SendInv'
    BY <2>9 DEF UpdateIssueList
  <2>10. CASE UNCHANGED vars
    BY <2>10 DEF vars
  <2> QED
    BY <2>0, <2>1, <2>2, <2>3, <2>4, <2>5, <2>6, <2>7, <2>8, <2>9, <2>10 DEF Next
<1>3. SendInv => SendWithinBalance
  BY DEF SendInv
<1> QED
  BY <1>1, <1>2, <1>3, PTL DEF Spec

-----------------------------------------------------------------------------
(* Freezing.                                                                *)

\* The form knows the amount and the product that CreateContract made of it.
FreezeInv ==
    /\ IsOf("freeze", waiting) => /\ waiting.amount \in Typed /\ waiting.amount > 0
                                  /\ waiting.frozen = Narrow(waiting.amount * Rate, Half64)
    /\ FreezeWithinBalance

\* A product that fits is what was typed, and the account has what passes.
LEMMA FreezeStep ==
  ASSUME FreezeInv, NEW balance \in Drops, OnFreezeAccount(balance)
  PROVE  FreezeInv'
<1> USE AmountsAssumption
<1>1. CASE /\ waiting' = None
           /\ request' = None
  BY <1>1 DEF FreezeInv, FreezeWithinBalance, Asked, IsOf
<1>2. CASE /\ FreezePasses(waiting, balance)
           /\ waiting' = None
           /\ request' = [form |-> "freeze", amount |-> waiting.amount, balance |-> balance,
                          frozen |-> waiting.frozen]
  <2>1. /\ waiting.amount \in Int /\ waiting.amount > 0
        /\ waiting.frozen = Narrow(waiting.amount * Rate, Half64)
        /\ waiting.frozen <= balance
    <3>1. /\ waiting.amount \in Typed /\ waiting.amount > 0
          /\ waiting.frozen = Narrow(waiting.amount * Rate, Half64)
      BY DEF OnFreezeAccount, FreezeInv
    <3>2. waiting.frozen <= balance
      BY <1>2 DEF FreezePasses
    <3>3. waiting.amount \in Int
      BY <3>1, TypedIntegers
    <3> QED
      BY <3>1, <3>2, <3>3
  <2>2. waiting.amount * Rate \in Int /\ waiting.amount * Rate >= 0
    BY <2>1, ConstantFacts
  <2>3. waiting.amount * Rate < Half64 => waiting.frozen = waiting.amount * Rate
    BY <2>1, <2>2, NarrowFits
  <2> QED
    BY <1>2, <2>1, <2>3 DEF FreezeInv, FreezeWithinBalance, Asked, IsOf
<1> QED
  BY <1>1, <1>2 DEF OnFreezeAccount, Request

(* What is frozen is what was typed, and the account has it, unless the     *)
(* product does not fit 64 bits.                                            *)
THEOREM FreezeWithinBalanceAlways == Spec => []FreezeWithinBalance
<1> USE DEF Wait, Request, IsOf, Asked
<1>1. Init => FreezeInv
  BY DEF Init, FreezeInv, FreezeWithinBalance
<1>2. FreezeInv /\ [Next]_vars => FreezeInv'
  <2> SUFFICES ASSUME FreezeInv, [Next]_vars PROVE FreezeInv'
    OBVIOUS
  <2> USE DEF FreezeInv, FreezeWithinBalance
  <2>0. CASE LeaveForm
    BY <2>0 DEF LeaveForm
  <2>1. ASSUME NEW balance \in Drops, OnSendAccount(balance) PROVE FreezeInv'
    BY <2>1 DEF OnSendAccount
  <2>2. ASSUME NEW balance \in Drops, OnFreezeAccount(balance) PROVE FreezeInv'
    BY <2>2, FreezeStep
  <2>3. ASSUME NEW f \in Fractions, ClickSend(f[1], f[2]) PROVE FreezeInv'
    BY <2>3 DEF ClickSend
  <2>4. ASSUME NEW amount \in Typed, ClickFreeze(amount) PROVE FreezeInv'
    BY <2>4 DEF ClickFreeze
  <2>5. ASSUME NEW amount \in Typed, ClickParticipate(amount) PROVE FreezeInv'
    BY <2>5 DEF ClickParticipate
  <2>6. ASSUME NEW counts, ClickVote(counts) PROVE FreezeInv'
    BY <2>6 DEF ClickVote
  <2>7. ASSUME NEW frozen, OnVoteAccount(frozen) PROVE FreezeInv'
    BY <2>7 DEF OnVoteAccount
  <2>8. ASSUME NEW trx \in Typed, NEW num \in Typed, ClickIssue(trx, num) PROVE FreezeInv'
    BY <2>8 DEF ClickIssue
  <2>9. ASSUME NEW trx_num \in 1 .. Half32 - 1, NEW num \in 1 .. Half32 - 1, UpdateIssueList(trx_num, num)
        PROVE  FreezeInv'
    BY <2>9 DEF UpdateIssueList
  <2>10. CASE UNCHANGED vars
    BY <2>10 DEF vars
  <2> QED
    BY <2>0, <2>1, <2>2, <2>3, <2>4, <2>5, <2>6, <2>7, <2>8, <2>9, <2>10 DEF Next
<1>3. FreezeInv => FreezeWithinBalance
  BY DEF FreezeInv
<1> QED
  BY <1>1, <1>2, <1>3, PTL DEF Spec

-----------------------------------------------------------------------------
(* Tokens.                                                                  *)

\* A token's price, which for a token of this wallet is the one that was typed.
Priced(token) ==
    /\ token.num \in Int /\ token.trx_num \in Int /\ token.trx_num < Half32
    /\ token.trx # None /\ token.trx * Rate < Half32 => token.trx_num = token.trx * Rate
    /\ token.trx # None /\ token.tokens < Half32 => token.num = token.tokens

PriceInv ==
    /\ IsOf("token", waiting) => Priced(waiting)
    /\ ParticipatePrice

\* A narrowed number is one of the narrower type.
LEMMA NarrowRange ==
  ASSUME NEW half \in Nat, half > 0, NEW x \in Int
  PROVE  Narrow(x, half) \in Int /\ Narrow(x, half) < half
<1>1. x + half \in Int /\ 2 * half \in Int /\ 2 * half > 0
  OBVIOUS
<1>2. (x + half) % (2 * half) \in 0 .. 2 * half - 1
  BY <1>1
<1> QED
  BY <1>2 DEF Narrow

\* CheckAndIssue turns the TRX that were typed into drops, and both numbers into int32.
LEMMA IssueStep ==
  ASSUME PriceInv, NEW trx \in Typed, NEW num \in Typed, ClickIssue(trx, num)
  PROVE  PriceInv'
<1> USE ConstantFacts
<1> DEFINE drops == ToDrop(Double(trx * D, 1))
<1>1. trx \in Nat /\ num \in Nat /\ trx > 0 /\ num > 0
  BY TypedIntegers DEF ClickIssue
<1>2. /\ waiting' = [form |-> "token", trx |-> trx, tokens |-> num,
                     trx_num |-> Narrow(drops, Half32), num |-> Narrow(num, Half32)]
      /\ request' = None
  BY DEF ClickIssue, Wait
<1>3. drops \in Int
  BY DEF ToDrop
<1>4. ASSUME trx * Rate < Half32 PROVE Narrow(drops, Half32) = trx * Rate
  <2>1. trx * Rate \in Nat /\ trx * Rate <= Exact /\ trx * Rate < Half64
    <3>1. Half32 * Rate <= Exact /\ Half32 * 1 <= Half32 * Rate
      BY DoublesAssumption
    <3> QED
      BY <1>1, <1>4, <3>1
  <2>2. drops = trx * Rate
    BY <1>1, <2>1, ToDropWhole
  <2> QED
    BY <1>4, <2>1, <2>2, NarrowFits
<1> HIDE DEF drops
<1>5. /\ Narrow(drops, Half32) \in Int /\ Narrow(drops, Half32) < Half32
      /\ Narrow(num, Half32) \in Int
  <2>1. Half32 > 0 /\ num \in Int
    BY <1>1
  <2>2. Narrow(drops, Half32) \in Int /\ Narrow(drops, Half32) < Half32
    BY <1>3, <2>1, NarrowRange
  <2>3. Narrow(num, Half32) \in Int
    BY <2>1, NarrowRange
  <2> QED
    BY <2>2, <2>3
<1>6. num < Half32 => Narrow(num, Half32) = num
  BY <1>1, NarrowFits
<1>7. Priced(waiting')
  BY <1>2, <1>4, <1>5, <1>6 DEF Priced
<1> QED
  BY <1>2, <1>7 DEF PriceInv, ParticipatePrice, Asked, IsOf

\* What the tokens cost, at t TRX for num of them, is rounded three times.
LEMMA ToDropPrice ==
  ASSUME NEW t \in Nat, t <= Exact, NEW num \in Nat, num > 0, NEW a \in Nat, a > 0, a <= Exact,
         8 * ((t * Rate) * a) <= Exact * num
  PROVE  LET drops == ToDrop(Double(Double(t * D, num) * Double(a, 1), 1))
         IN  /\ drops \in Nat
             /\ (drops - 1) * num < (t * Rate) * a /\ (t * Rate) * a < (drops + 2) * num
<1> USE ConstantFacts
<1> DEFINE y == (t * Rate) * a
           f == a * Rate
           x1 == Nearest(t * D, num)
           x2 == Nearest(x1 * a, 1)
           x3 == Nearest(x2 * Rate, 1)
<1>1. PICK G \in Nat : D = 8 * G /\ Rate * Exact <= G
  BY EighthFacts
<1>2. Rate + 1 < G /\ 8 * G <= Exact * G /\ Exact * G \in Nat
      /\ Exact * (2 * G) = 2 * (Exact * G) /\ Exact * D = 8 * (Exact * G)
  <2>1. 8 * Rate <= Rate * Exact
    BY MulFacts
  <2> QED
    BY <1>1, <2>1, MulFacts
<1>3. y \in Nat /\ t * D \in Nat /\ (t * D) * f = y * D /\ f \in Nat /\ f > 0
  OBVIOUS
<1>4. f <= G
  <2>1. a * Rate <= Exact * Rate
    BY MulFacts
  <2> QED
    BY <1>1, <2>1
<1>5. Double(a, 1) = a
  <2> DEFINE one == 1
  <2>1. one \in Units /\ one \in Nat /\ one > 0 /\ a * one = a /\ a = (a * one) * one
    BY DoublesAssumption
  <2> HIDE DEF one
  <2>2. Nearest(a, one) = a * one
    BY <2>1, NearestDouble
  <2> QED
    BY <2>1, <2>2 DEF Double, one
<1> HIDE DEF y, f
<1>6. y * D <= Exact * (G * num)
  <2>1. y * D = (8 * y) * G
    BY <1>1, <1>3
  <2>2. (8 * y) * G <= (Exact * num) * G
    BY <1>2, <1>3, MulFacts DEF y
  <2>3. (Exact * num) * G = Exact * (G * num)
    OBVIOUS
  <2> QED
    BY <2>1, <2>2, <2>3
<1>7. /\ x1 \in Nat
      /\ f * (x1 * num - t * D) <= (G + f) * num
      /\ f * (t * D - x1 * num) <= (G + f) * num
  <2>1. (t * D) * f <= Exact * (G * num)
    BY <1>3, <1>6
  <2>2. t * D <= D * (num * Exact)
    <3>1. Exact <= num * Exact
      OBVIOUS
    <3>2. t <= num * Exact
      BY <3>1
    <3>3. t * D <= (num * Exact) * D
      BY <3>2, MulFacts
    <3> QED
      BY <3>3
  <2> QED
    BY <1>3, <2>1, <2>2, RoundingError
<1> HIDE DEF x1
<1> DEFINE z1 == x1 * a
           z2 == z1 * Rate
<1>8. /\ z1 \in Nat /\ z2 \in Nat /\ z1 <= z2 /\ z2 * num \in Nat
      /\ z2 * num - y * D <= (2 * G) * num
      /\ y * D - z2 * num <= (2 * G) * num
  <2>1. z1 \in Nat /\ z2 \in Nat /\ z1 <= z2 /\ z2 * num \in Nat
    BY <1>7
  <2>2. f * (x1 * num - t * D) = z2 * num - y * D /\ f * (t * D - x1 * num) = y * D - z2 * num
    BY <1>7 DEF f, y
  <2>3. (G + f) * num <= (2 * G) * num
    BY <1>3, <1>4, MulFacts
  <2> QED
    BY <1>3, <1>7, <2>1, <2>2, <2>3
<1> HIDE DEF z2
<1>9. z2 <= Exact * G + 2 * G
  <2>1. (2 * G) * num \in Int /\ Exact * (G * num) \in Int /\ y * D \in Int
    BY <1>3
  <2>2. z2 * num <= Exact * (G * num) + (2 * G) * num
    BY <1>6, <1>8, <2>1
  <2>3. Exact * (G * num) + (2 * G) * num = (Exact * G + 2 * G) * num
    OBVIOUS
  <2> QED
    BY <1>2, <1>8, <2>2, <2>3, MulFacts
<1>10. x2 \in Nat /\ Rate * (x2 - z1) <= 2 * G + Rate /\ Rate * (z1 - x2) <= 2 * G + Rate
  <2>1. z1 * Rate <= Exact * (2 * G) /\ z1 <= Exact * D
    BY <1>2, <1>8, <1>9 DEF z2
  <2>2. 2 * G \in Nat /\ Rate > 0
    OBVIOUS
  <2> HIDE DEF z1
  <2>3. /\ Nearest(z1, 1) \in Nat
        /\ Rate * (Nearest(z1, 1) - z1) <= 2 * G + Rate
        /\ Rate * (z1 - Nearest(z1, 1)) <= 2 * G + Rate
    BY <1>8, <2>1, <2>2, ProductError
  <2> QED
    BY <2>3 DEF z1
<1> HIDE DEF x2
<1> DEFINE z3 == x2 * Rate
<1>11. z3 \in Nat /\ z3 - z2 <= 2 * G + Rate /\ z2 - z3 <= 2 * G + Rate
  <2>1. z3 \in Nat /\ Rate * (x2 - z1) = z3 - z2 /\ Rate * (z1 - x2) = z2 - z3
    BY <1>8, <1>10 DEF z2
  <2> QED
    BY <1>10, <2>1
<1>12. x3 \in Nat /\ x3 - z3 <= 2 * G + 1 /\ z3 - x3 <= 2 * G + 1
  <2> HIDE DEF z3
  <2>1. z3 <= Exact * (2 * G) /\ z3 <= Exact * D
    BY <1>2, <1>8, <1>9, <1>11
  <2> DEFINE one == 1
  <2>2. z3 * one <= Exact * (2 * G) /\ 2 * G \in Nat /\ one \in Nat /\ one > 0
        /\ \A v \in Int : one * v = v
    BY <1>11, <2>1
  <2> HIDE DEF one
  <2>3. /\ Nearest(z3, 1) \in Nat
        /\ one * (Nearest(z3, 1) - z3) <= 2 * G + one
        /\ one * (z3 - Nearest(z3, 1)) <= 2 * G + one
    BY <1>11, <2>1, <2>2, ProductError
  <2>4. /\ Nearest(z3, 1) - z3 <= 2 * G + one
        /\ z3 - Nearest(z3, 1) <= 2 * G + one
    BY <1>11, <2>2, <2>3
  <2> QED
    BY <1>11, <2>3, <2>4 DEF z3, one
<1> HIDE DEF x3, z3
<1>13. x3 < Half64 * D
  <2>1. x3 < Exact * D
    BY <1>1, <1>2, <1>8, <1>9, <1>11, <1>12
  <2>2. Exact * D <= Half64 * D
    BY MulFacts
  <2> QED
    BY <1>12, <2>1, <2>2
<1> DEFINE q == ToDrop(x2)
<1>14. q \in Nat /\ q * D <= x3 /\ x3 < (q + 1) * D
  BY <1>10, <1>12, <1>13, ToDropFacts DEF x3
<1>15. q = ToDrop(Double(Double(t * D, num) * Double(a, 1), 1))
  <2>1. Double(t * D, num) = x1
    BY <1>3 DEF Double, x1
  <2>2. Double(x1 * a, 1) = x2
    BY <1>8 DEF Double, x2
  <2> QED
    BY <1>5, <2>1, <2>2
<1> HIDE DEF q
<1>16. x3 * num < (y + num) * D /\ (y - num) * D < x3 * num
  <2>1. x3 - z2 <= 4 * G + Rate + 1 /\ z2 - x3 <= 4 * G + Rate + 1
    BY <1>8, <1>11, <1>12
  <2>2. (x3 - z2) * num <= (4 * G + Rate + 1) * num /\ (z2 - x3) * num <= (4 * G + Rate + 1) * num
    BY <1>8, <1>12, <2>1, MulFacts
  <2>3. /\ (x3 - z2) * num = x3 * num - z2 * num /\ (z2 - x3) * num = z2 * num - x3 * num
        /\ x3 * num \in Int
    BY <1>8, <1>12
  <2>4. (4 * G + Rate + 1) * num + (2 * G) * num = (6 * G + Rate + 1) * num
    OBVIOUS
  <2>5. (6 * G + Rate + 1) * num < D * num
    <3>1. 6 * G + Rate + 1 + 1 <= D
      BY <1>1, <1>2
    <3>2. (6 * G + Rate + 1 + 1) * num <= D * num
      BY <3>1, MulFacts
    <3>3. (6 * G + Rate + 1 + 1) * num = (6 * G + Rate + 1) * num + num
      BY MulFacts
    <3> QED
      BY <3>2, <3>3
  <2>6. (y + num) * D = y * D + D * num /\ (y - num) * D = y * D - D * num
    BY <1>3
  <2>7. (4 * G + Rate + 1) * num \in Int /\ (2 * G) * num \in Int /\ D * num \in Int /\ y * D \in Int
    BY <1>3
  <2> QED
    BY <1>8, <2>2, <2>3, <2>4, <2>5, <2>6, <2>7
<1>17. (q - 1) * num < y /\ y < (q + 2) * num
  BY <1>3, <1>12, <1>14, <1>16, CutOff
<1> QED
  BY <1>14, <1>15, <1>17 DEF y

\* A price that is cut off to whole TRX is not more than the token's, and the same
\* if there was nothing to cut off.
LEMMA ParticipateStep ==
  ASSUME PriceInv, NEW amount \in Typed, ClickParticipate(amount)
  PROVE  PriceInv'
<1> USE ConstantFacts
<1> DEFINE tk == waiting
           P == tk.trx_num
           N == tk.num
           t == P \div Rate
           drops == ToDrop(Double(ExchangeRate(tk) * Double(amount, 1), 1))
<1>1. /\ Priced(tk) /\ amount \in Int
      /\ P \in Nat /\ P > 0 /\ P < Half32 /\ N \in Nat /\ N > 0
  BY TypedIntegers DEF ClickParticipate, PriceInv, Priced
<1>2. /\ waiting' = None
      /\ request' = [form |-> "participate", amount |-> amount, drops |-> drops, token |-> tk]
  BY DEF ClickParticipate, Request
<1>3. /\ t \in Nat /\ t <= Exact /\ t * Rate <= P
      /\ P % Rate = 0 => t * Rate = P
      /\ ToTrx(P) = t * D
  <2>1. P < Half64
    <3>1. Half32 * 1 <= Half32 * Rate /\ Half32 * Rate <= Exact /\ Half32 * Rate \in Int
      BY DoublesAssumption
    <3> QED
      BY <1>1, <3>1
  <2> QED
    BY <1>1, <2>1, ToTrxFacts
<1>4. ExchangeRate(tk) = Double(t * D, N)
  BY <1>3 DEF ExchangeRate
<1> HIDE DEF t
<1>5. ASSUME amount \in 1 .. Exact, 8 * (P * amount) <= Exact * N
      PROVE  /\ (drops - 1) * N < P * amount
             /\ P % Rate = 0 => P * amount < (drops + 2) * N
  <2>1. amount \in Nat /\ amount > 0 /\ amount <= Exact
    BY <1>5
  <2> HIDE DEF P, N
  <2>2. (t * Rate) * amount \in Int /\ P * amount \in Int /\ (t * Rate) * amount <= P * amount
    <3>1. t * Rate \in Int
      BY <1>3
    <3> QED
      BY <1>1, <1>3, <2>1, <3>1, MulFacts
  <2>3. 8 * ((t * Rate) * amount) <= Exact * N
    <3>1. Exact * N \in Int
      BY <1>1
    <3> QED
      BY <1>5, <2>2, <3>1
  <2> DEFINE q == ToDrop(Double(Double(t * D, N) * Double(amount, 1), 1))
  <2>4. q \in Nat /\ (q - 1) * N < (t * Rate) * amount /\ (t * Rate) * amount < (q + 2) * N
    BY <1>1, <1>3, <2>1, <2>3, ToDropPrice
  <2>5. q = drops
    BY <1>4
  <2> HIDE DEF q, drops
  <2>6. (q - 1) * N \in Int /\ (q + 2) * N \in Int
    BY <1>1, <2>4
  <2>7. (q - 1) * N < P * amount
    BY <2>2, <2>4, <2>6
  <2>8. P % Rate = 0 => P * amount < (q + 2) * N
    BY <1>3, <2>4
  <2> QED
    BY <2>5, <2>7, <2>8
<1> HIDE DEF drops
<1>6. ~IsOf("token", waiting')
  BY <1>2 DEF IsOf
<1>7. /\ request'.form = "participate" /\ request'.amount = amount
      /\ request'.drops = drops /\ request'.token = tk
  BY <1>2
<1>8. ParticipatePrice'
  BY <1>1, <1>5, <1>7 DEF ParticipatePrice, Asked, IsOf, Priced
<1> QED
  BY <1>6, <1>8 DEF PriceInv, IsOf

(* A participant pays less than a drop more than the tokens cost, and less  *)
(* than two less if the price is in whole TRX, up to Exact / 8 drops; and   *)
(* the price of a token issued with this wallet is the one that was typed,  *)
(* if its numbers fit the contract's int32s.                                *)
THEOREM ParticipatePriceAlways == Spec => []ParticipatePrice
<1> USE DEF Wait, Request, IsOf, Asked
<1>1. Init => PriceInv
  BY DEF Init, PriceInv, ParticipatePrice
<1>2. PriceInv /\ [Next]_vars => PriceInv'
  <2> SUFFICES ASSUME PriceInv, [Next]_vars PROVE PriceInv'
    OBVIOUS
  <2> USE DEF PriceInv, ParticipatePrice
  <2>0. CASE LeaveForm
    BY <2>0 DEF LeaveForm
  <2>1. ASSUME NEW balance \in Drops, OnSendAccount(balance) PROVE PriceInv'
    BY <2>1 DEF OnSendAccount
  <2>2. ASSUME NEW balance \in Drops, OnFreezeAccount(balance) PROVE PriceInv'
    BY <2>2 DEF OnFreezeAccount
  <2>3. ASSUME NEW f \in Fractions, ClickSend(f[1], f[2]) PROVE PriceInv'
    BY <2>3 DEF ClickSend
  <2>4. ASSUME NEW amount \in Typed, ClickFreeze(amount) PROVE PriceInv'
    BY <2>4 DEF ClickFreeze
  <2>5. ASSUME NEW amount \in Typed, ClickParticipate(amount) PROVE PriceInv'
    BY <2>5, ParticipateStep
  <2>6. ASSUME NEW counts, ClickVote(counts) PROVE PriceInv'
    BY <2>6 DEF ClickVote
  <2>7. ASSUME NEW frozen, OnVoteAccount(frozen) PROVE PriceInv'
    BY <2>7 DEF OnVoteAccount
  <2>8. ASSUME NEW trx \in Typed, NEW num \in Typed, ClickIssue(trx, num) PROVE PriceInv'
    BY <2>8, IssueStep
  <2>9. ASSUME NEW trx_num \in 1 .. Half32 - 1, NEW num \in 1 .. Half32 - 1, UpdateIssueList(trx_num, num)
        PROVE  PriceInv'
    BY <2>9, AmountsAssumption DEF UpdateIssueList, Priced
  <2>10. CASE UNCHANGED vars
    BY <2>10 DEF vars, Priced
  <2> QED
    BY <2>0, <2>1, <2>2, <2>3, <2>4, <2>5, <2>6, <2>7, <2>8, <2>9, <2>10 DEF Next
<1>3. PriceInv => ParticipatePrice
  BY DEF PriceInv
<1> QED
  BY <1>1, <1>2, <1>3, PTL DEF Spec
-----------------------------------------------------------------------------
(* Voting.                                                                  *)

\* The sums of the rounds of a loop over s can be had for every number of rounds.
LEMMA TotalsExist ==
  ASSUME NEW s \in Seq(Int), NEW n \in 0 .. Len(s)
  PROVE  \E f \in [0 .. n -> Int] : f[0] = 0 /\ \A i \in 1 .. n : f[i] = f[i - 1] + s[i]
<1> DEFINE Good(f, m) == f[0] = 0 /\ \A i \in 1 .. m : f[i] = f[i - 1] + s[i]
           Some(m) == \E f \in [0 .. m -> Int] : Good(f, m)
           S == {m \in Nat : m <= Len(s) => Some(m)}
<1>1. 0 \in S
  <2>1. [i \in 0 .. 0 |-> 0] \in [0 .. 0 -> Int] /\ Good([i \in 0 .. 0 |-> 0], 0)
    OBVIOUS
  <2> QED
    BY <2>1
<1>2. ASSUME NEW m \in Nat, m \in S PROVE m + 1 \in S
  <2> SUFFICES ASSUME m + 1 <= Len(s) PROVE Some(m + 1)
    <3> HIDE DEF Some
    <3> QED
      OBVIOUS
  <2>a. Some(m)
    <3> HIDE DEF Some
    <3> QED
      BY <1>2
  <2>1. PICK f \in [0 .. m -> Int] : Good(f, m)
    BY <2>a
  <2>2. s[m + 1] \in Int
    OBVIOUS
  <2> DEFINE g == [i \in 0 .. m + 1 |-> IF i <= m THEN f[i] ELSE f[m] + s[m + 1]]
  <2>3. g \in [0 .. m + 1 -> Int]
    BY <2>2
  <2>4. g[0] = 0
    BY <2>1
  <2>5. ASSUME NEW i \in 1 .. m + 1 PROVE g[i] = g[i - 1] + s[i]
    <3>1. CASE i <= m
      <4>1. i \in 1 .. m /\ i - 1 \in 0 .. m /\ i \in 0 .. m
        BY <3>1
      <4> QED
        BY <2>1, <4>1
    <3>2. CASE i = m + 1
      BY <3>2
    <3> QED
      BY <3>1, <3>2
  <2> QED
    BY <2>3, <2>4, <2>5
<1> HIDE DEF S
<1>3. \A m \in Nat : m \in S
  BY <1>1, <1>2, NatInductionSet
<1>4. n \in Nat /\ n <= Len(s)
  OBVIOUS
<1> QED
  BY <1>3, <1>4 DEF S

\* The totals add up.
LEMMA TotalsFacts ==
  ASSUME NEW s \in Seq(Int)
  PROVE  /\ Totals(s) \in [0 .. Len(s) -> Int]
         /\ Totals(s)[0] = 0
         /\ \A i \in 1 .. Len(s) : Totals(s)[i] = Totals(s)[i - 1] + s[i]
<1> DEFINE P(f) == f = [i \in 0 .. Len(s) |-> IF i = 0 THEN 0 ELSE f[i - 1] + s[i]]
<1>1. PICK f \in [0 .. Len(s) -> Int] : f[0] = 0 /\ \A i \in 1 .. Len(s) : f[i] = f[i - 1] + s[i]
  BY TotalsExist
<1>2. P(f)
  BY <1>1
<1>3. Totals(s) = CHOOSE g : P(g)
  BY DEF Totals
<1>4. P(Totals(s))
  <2> HIDE DEF P
  <2> QED
    BY <1>2, <1>3
<1>5. ASSUME NEW g, P(g) PROVE g[0] = 0 /\ \A i \in 1 .. Len(s) : g[i] = g[i - 1] + s[i]
  <2>1. \A i \in 0 .. Len(s) : g[i] = IF i = 0 THEN 0 ELSE g[i - 1] + s[i]
    BY <1>5
  <2>2. \A i \in 1 .. Len(s) : i \in 0 .. Len(s) /\ i # 0
    OBVIOUS
  <2>3. 0 \in 0 .. Len(s)
    OBVIOUS
  <2> QED
    BY <2>1, <2>2, <2>3
<1>6. Totals(s)[0] = 0 /\ \A i \in 1 .. Len(s) : Totals(s)[i] = Totals(s)[i - 1] + s[i]
  <2> HIDE DEF P
  <2> QED
    BY <1>4, <1>5
<1> DEFINE S == {m \in Nat : m <= Len(s) => Totals(s)[m] = f[m]}
<1>7. 0 \in S
  BY <1>1, <1>6
<1>8. ASSUME NEW m \in Nat, m \in S PROVE m + 1 \in S
  <2> SUFFICES ASSUME m + 1 <= Len(s) PROVE Totals(s)[m + 1] = f[m + 1]
    OBVIOUS
  <2>1. m + 1 \in 1 .. Len(s) /\ (m + 1) - 1 = m /\ m <= Len(s)
    OBVIOUS
  <2>2. Totals(s)[m] = f[m]
    BY <1>8, <2>1
  <2>3. Totals(s)[m + 1] = Totals(s)[m] + s[m + 1]
    BY <1>6, <2>1
  <2>4. f[m + 1] = f[m] + s[m + 1]
    BY <1>1, <2>1
  <2> QED
    BY <2>2, <2>3, <2>4
<1>9. \A m \in 0 .. Len(s) : Totals(s)[m] = f[m]
  <2> HIDE DEF S
  <2>1. \A m \in Nat : m \in S
    BY <1>7, <1>8, NatInductionSet
  <2> QED
    BY <2>1 DEF S
<1>10. Totals(s) = [i \in 0 .. Len(s) |-> IF i = 0 THEN 0 ELSE Totals(s)[i - 1] + s[i]]
  BY <1>4
<1>11. Totals(s) \in [0 .. Len(s) -> Int]
  <2> SUFFICES ASSUME NEW i \in 0 .. Len(s) PROVE Totals(s)[i] \in Int
    BY <1>10
  <2> QED
    BY <1>9
<1> QED
  BY <1>6, <1>11

\* Adding up what is not negative never makes less.
LEMMA TotalsGrow ==
  ASSUME NEW s \in Seq(Int), \A i \in DOMAIN s : s[i] >= 0, NEW i \in 0 .. Len(s)
  PROVE  0 <= Totals(s)[i] /\ Totals(s)[i] <= Total(s)
<1> DEFINE T == Totals(s)
<1>1. /\ T \in [0 .. Len(s) -> Int] /\ T[0] = 0
      /\ \A j \in 1 .. Len(s) : T[j] = T[j - 1] + s[j] /\ s[j] \in Int /\ s[j] >= 0
  BY TotalsFacts
<1> HIDE DEF T
<1> DEFINE Up == {m \in Nat : m <= Len(s) => T[m] >= 0}
<1>2. \A m \in Nat : m \in Up
  <2>1. 0 \in Up
    BY <1>1
  <2>2. ASSUME NEW m \in Nat, m \in Up PROVE m + 1 \in Up
    <3> SUFFICES ASSUME m + 1 <= Len(s) PROVE T[m + 1] >= 0
      OBVIOUS
    <3>1. m + 1 \in 1 .. Len(s) /\ (m + 1) - 1 = m /\ m \in 0 .. Len(s)
      OBVIOUS
    <3>2. T[m + 1] = T[m] + s[m + 1] /\ s[m + 1] \in Int /\ s[m + 1] >= 0
      BY <1>1, <3>1
    <3>3. T[m] \in Int
      BY <1>1, <3>1
    <3>4. T[m] >= 0
      BY <2>2, <3>1
    <3> QED
      BY <3>2, <3>3, <3>4
  <2> HIDE DEF Up
  <2> QED
    BY <2>1, <2>2, NatInductionSet
<1> DEFINE Down == {m \in Nat : m <= Len(s) => T[Len(s) - m] <= T[Len(s)]}
<1>3. \A m \in Nat : m \in Down
  <2>1. 0 \in Down
    BY <1>1
  <2>2. ASSUME NEW m \in Nat, m \in Down PROVE m + 1 \in Down
    <3> SUFFICES ASSUME m + 1 <= Len(s) PROVE T[Len(s) - (m + 1)] <= T[Len(s)]
      OBVIOUS
    <3> DEFINE k == Len(s) - m
    <3>1. /\ k \in 1 .. Len(s) /\ k \in 0 .. Len(s) /\ k - 1 \in 0 .. Len(s)
          /\ Len(s) \in 0 .. Len(s) /\ Len(s) - (m + 1) = k - 1
      OBVIOUS
    <3>2. T[k] <= T[Len(s)]
      BY <2>2
    <3> HIDE DEF k
    <3>3. T[k] = T[k - 1] + s[k] /\ s[k] \in Int /\ s[k] >= 0
      BY <1>1, <3>1
    <3>4. T[k - 1] \in Int /\ T[k] \in Int /\ T[Len(s)] \in Int
      BY <1>1, <3>1
    <3>5. T[k - 1] <= T[Len(s)]
      BY <3>2, <3>3, <3>4
    <3> QED
      BY <3>1, <3>5
  <2> HIDE DEF Down
  <2> QED
    BY <2>1, <2>2, NatInductionSet
<1>4. T[i] >= 0
  BY <1>2
<1>5. T[i] <= T[Len(s)]
  <2>1. Len(s) - i \in Nat /\ Len(s) - i <= Len(s) /\ Len(s) - (Len(s) - i) = i
    OBVIOUS
  <2> QED
    BY <1>3, <2>1
<1> QED
  BY <1>1, <1>4, <1>5 DEF Total, T

\* A loop whose result fits the type has added up what there is: no round of it wraps.
LEMMA SumsExact ==
  ASSUME NEW s \in Seq(Int), \A i \in DOMAIN s : s[i] >= 0, NEW half \in Nat, Total(s) < half
  PROVE  Sums(s, half)[Len(s)] = Total(s)
<1> DEFINE P(f) == f = [i \in 0 .. Len(s) |-> IF i = 0 THEN 0 ELSE Narrow(f[i - 1] + s[i], half)]
           T == Totals(s)
<1>1. /\ T \in [0 .. Len(s) -> Int] /\ T[0] = 0
      /\ \A i \in 1 .. Len(s) : T[i] = T[i - 1] + s[i]
  BY TotalsFacts
<1>2. ASSUME NEW i \in 1 .. Len(s) PROVE Narrow(T[i - 1] + s[i], half) = T[i]
  <2>1. T[i] \in Int /\ 0 <= T[i] /\ T[i] <= Total(s) /\ Total(s) \in Int
    <3>1. i \in 0 .. Len(s) /\ Len(s) \in 0 .. Len(s)
      OBVIOUS
    <3>2. 0 <= T[i] /\ T[i] <= Total(s)
      BY <3>1, TotalsGrow
    <3> HIDE DEF T
    <3>3. T[i] \in Int /\ T[Len(s)] \in Int
      BY <1>1, <3>1
    <3> QED
      BY <3>2, <3>3 DEF T, Total
  <2>2. T[i] = T[i - 1] + s[i]
    BY <1>1
  <2> HIDE DEF T
  <2> QED
    BY <2>1, <2>2, NarrowFits
<1>3. P(T)
  <2> HIDE DEF T
  <2>1. \A i \in 0 .. Len(s) : T[i] = IF i = 0 THEN 0 ELSE Narrow(T[i - 1] + s[i], half)
    BY <1>1, <1>2
  <2> QED
    BY <1>1, <2>1
<1>4. Sums(s, half) = CHOOSE g : P(g)
  BY DEF Sums
<1>5. P(Sums(s, half))
  <2> HIDE DEF P, T
  <2> QED
    BY <1>3, <1>4
<1> DEFINE U == Sums(s, half)
           S == {m \in Nat : m <= Len(s) => U[m] = T[m]}
<1>6. U[0] = 0 /\ \A i \in 1 .. Len(s) : U[i] = Narrow(U[i - 1] + s[i], half)
  <2> HIDE DEF U
  <2>1. P(U)
    BY <1>5 DEF U
  <2> QED
    BY <2>1
<1> HIDE DEF U, T
<1>7. 0 \in S
  BY <1>1, <1>6
<1>8. ASSUME NEW m \in Nat, m \in S PROVE m + 1 \in S
  <2> SUFFICES ASSUME m + 1 <= Len(s) PROVE U[m + 1] = T[m + 1]
    OBVIOUS
  <2>1. m + 1 \in 1 .. Len(s) /\ (m + 1) - 1 = m /\ m <= Len(s)
    OBVIOUS
  <2>2. U[m] = T[m]
    BY <1>8, <2>1
  <2>3. U[m + 1] = Narrow(U[m] + s[m + 1], half)
    BY <1>6, <2>1
  <2>4. Narrow(T[m] + s[m + 1], half) = T[m + 1]
    BY <1>2, <2>1
  <2> QED
    BY <2>2, <2>3, <2>4
<1> HIDE DEF S
<1>9. \A m \in Nat : m \in S
  BY <1>7, <1>8, NatInductionSet
<1>10. Len(s) \in Nat /\ Len(s) <= Len(s)
  OBVIOUS
<1> QED
  BY <1>9, <1>10 DEF S, U, T, Total

\* The sequences that are typed and answered are sequences of integers.
LEMMA BoundedSeqs ==
  ASSUME NEW V, V \subseteq Int, NEW n \in Nat, NEW s \in BoundedSeq(V, n)
  PROVE  s \in Seq(Int) /\ \A i \in DOMAIN s : s[i] \in V
<1>1. PICK m \in 0 .. n : s \in [1 .. m -> V]
  BY DEF BoundedSeq, SeqOf
<1>2. s \in [1 .. m -> Int]
  BY <1>1
<1> QED
  BY <1>1, <1>2

\* The form knows the numbers of votes that were typed.
VotesInv ==
    /\ IsOf("vote", waiting) => waiting.counts \in Seq(Int)
    /\ VotesWithinPower

\* Sums that fit are compared as they are.
LEMMA VoteStep ==
  ASSUME VotesInv, NEW frozen \in BoundedSeq(Drops \cap Typed, 2), OnVoteAccount(frozen)
  PROVE  VotesInv'
<1> USE AmountsAssumption
<1> DEFINE counts == waiting.counts
           ok == ValidateContract(counts, CalcTronPower(frozen))
           whole == \A i \in DOMAIN counts : counts[i] >= 0
<1>1. counts \in Seq(Int)
  BY DEF OnVoteAccount, VotesInv
<1>2. frozen \in Seq(Int) /\ \A i \in DOMAIN frozen : frozen[i] >= 0
  <2>1. frozen \in Seq(Int) /\ \A i \in DOMAIN frozen : frozen[i] \in Drops \cap Typed
    <3>1. Drops \cap Typed \subseteq Int /\ 2 \in Nat
      OBVIOUS
    <3> QED
      BY <3>1, BoundedSeqs
  <2> QED
    BY <2>1
<1>3. /\ waiting' = None
      /\ request' = [form |-> IF ok THEN "vote" ELSE "rejected", frozen |-> frozen, counts |-> counts]
  BY DEF OnVoteAccount, Request
<1> HIDE DEF counts
<1>4. ASSUME Total(counts) < Half32, Total(frozen) < Half64, whole
      PROVE  ok <=> counts # <<>> /\ whole /\ Total(counts) * Rate <= Total(frozen)
  <2>1. Total(counts) \in Int /\ 0 <= Total(counts)
    <3>1. Totals(counts) \in [0 .. Len(counts) -> Int] /\ Len(counts) \in 0 .. Len(counts)
      BY <1>1, TotalsFacts
    <3> QED
      BY <1>1, <1>4, <3>1, TotalsGrow DEF Total
  <2>2. Sum(counts) = Total(counts)
    BY <1>1, <1>4, SumsExact DEF Sum
  <2>3. CalcTronPower(frozen) = Total(frozen)
    BY <1>2, <1>4, SumsExact DEF CalcTronPower
  <2>4. Total(counts) * Rate <= Exact /\ Total(counts) * Rate < Half64
    <3>1. (Total(counts) + 1) * Rate <= Half32 * Rate
      BY <1>4, <2>1, ConstantFacts, MulFacts
    <3>2. (Total(counts) + 1) * Rate = Total(counts) * Rate + Rate /\ Total(counts) * Rate \in Int
      BY <2>1, ConstantFacts, MulFacts
    <3>3. Half32 * Rate \in Int /\ Half32 * Rate <= Exact
      BY ConstantFacts, DoublesAssumption
    <3> QED
      BY <3>1, <3>2, <3>3, ConstantFacts
  <2>5. ToDrop(Double(Total(counts) * D, 1)) = Total(counts) * Rate
    <3>1. Total(counts) \in Nat
      BY <2>1
    <3> QED
      BY <2>4, <3>1, ToDropWhole
  <2> QED
    BY <1>4, <2>2, <2>3, <2>5 DEF ValidateContract
<1>5. ~whole => ~ok
  BY DEF ValidateContract
<1> HIDE DEF ok, whole
<1>6. /\ request' # None => (Asked("vote")' <=> ok) /\ (Asked("rejected")' <=> ~ok)
      /\ request'.counts = counts /\ request'.frozen = frozen
  <2>1. CASE ok
    BY <1>3, <2>1 DEF Asked, IsOf
  <2>2. CASE ~ok
    BY <1>3, <2>2 DEF Asked, IsOf
  <2> QED
    BY <2>1, <2>2
<1>7. VotesWithinPower'
  BY <1>4, <1>5, <1>6 DEF VotesWithinPower, whole, Asked, IsOf
<1> QED
  BY <1>3, <1>7 DEF VotesInv, IsOf

(* Votes pass exactly if there are some, none is negative, and they are not *)
(* more than the frozen TRX, for any number of them, unless their sum, or   *)
(* that of what is frozen, does not fit its width: the loops of             *)
(* ValidateContract and CalcTronPower do not wrap in between.               *)
THEOREM VotesWithinPowerAlways == Spec => []VotesWithinPower
<1> USE DEF Wait, Request, IsOf, Asked
<1>1. Init => VotesInv
  BY DEF Init, VotesInv, VotesWithinPower
<1>2. VotesInv /\ [Next]_vars => VotesInv'
  <2> SUFFICES ASSUME VotesInv, [Next]_vars PROVE VotesInv'
    OBVIOUS
  <2> USE DEF VotesInv, VotesWithinPower
  <2>0. CASE LeaveForm
    BY <2>0 DEF LeaveForm
  <2>1. ASSUME NEW balance \in Drops, OnSendAccount(balance) PROVE VotesInv'
    BY <2>1 DEF OnSendAccount
  <2>2. ASSUME NEW balance \in Drops, OnFreezeAccount(balance) PROVE VotesInv'
    BY <2>2 DEF OnFreezeAccount
  <2>3. ASSUME NEW f \in Fractions, ClickSend(f[1], f[2]) PROVE VotesInv'
    BY <2>3 DEF ClickSend
  <2>4. ASSUME NEW amount \in Typed, ClickFreeze(amount) PROVE VotesInv'
    BY <2>4 DEF ClickFreeze
  <2>5. ASSUME NEW amount \in Typed, ClickParticipate(amount) PROVE VotesInv'
    BY <2>5 DEF ClickParticipate
  <2>6. ASSUME NEW counts \in BoundedSeq(Typed, MaxVotes), ClickVote(counts) PROVE VotesInv'
    <3>1. Typed \subseteq Int /\ MaxVotes \in Nat
      BY AmountsAssumption
    <3>2. counts \in Seq(Int)
      BY <3>1, BoundedSeqs
    <3> QED
      BY <2>6, <3>2 DEF ClickVote
  <2>7. ASSUME NEW frozen \in BoundedSeq(Drops \cap Typed, 2), OnVoteAccount(frozen)
        PROVE  VotesInv'
    BY <2>7, VoteStep
  <2>8. ASSUME NEW trx \in Typed, NEW num \in Typed, ClickIssue(trx, num) PROVE VotesInv'
    BY <2>8 DEF ClickIssue
  <2>9. ASSUME NEW trx_num \in 1 .. Half32 - 1, NEW num \in 1 .. Half32 - 1, UpdateIssueList(trx_num, num)
        PROVE  VotesInv'
    BY <2>9 DEF UpdateIssueList
  <2>10. CASE UNCHANGED vars
    BY <2>10 DEF vars
  <2> QED
    BY <2>0, <2>1, <2>2, <2>3, <2>4, <2>5, <2>6, <2>7, <2>8, <2>9, <2>10 DEF Next
<1>3. VotesInv => VotesWithinPower
  BY DEF VotesInv
<1> QED
  BY <1>1, <1>2, <1>3, PTL DEF Spec
=============================================================================
