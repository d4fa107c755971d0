------------------------------- MODULE Numbers -------------------------------
(***************************************************************************)
(* Facts about quotients, remainders and products of integers that are not *)
(* known in advance, which the proofs about sizes and priorities rest on,  *)
(* and about sums of any number of integers, on which those about requests *)
(* and lanes rest.                                                         *)
(***************************************************************************)
EXTENDS Integers, WellFoundedInduction, TLAPS

------------------------------------------------------------------------------
(* Quotients and products.                                                  *)

\* A number is its quotient times the divisor, and its remainder.
LEMMA DivisionLemma ==
  ASSUME NEW a \in Nat, NEW b \in Nat \ {0}
  PROVE  /\ a \div b \in Nat
         /\ a % b \in 0 .. b - 1
         /\ a = (a \div b) * b + (a % b)
  OBVIOUS

\* The remainder of an integer.
LEMMA RemainderLemma ==
  ASSUME NEW a \in Int, NEW b \in Nat \ {0}
  PROVE  a % b \in 0 .. b - 1
  OBVIOUS

\* A number less than the divisor is its own remainder.
LEMMA SmallMod ==
  ASSUME NEW a \in Nat, NEW b \in Nat \ {0}, a < b
  PROVE  a % b = a
  OBVIOUS

\* A remainder is never greater than the number.
LEMMA RemainderAtMost ==
  ASSUME NEW a \in Nat, NEW b \in Nat \ {0}
  PROVE  a % b \in Nat /\ a % b <= a
<1>1. CASE a < b BY <1>1, SmallMod
<1>2. CASE a >= b BY <1>2, RemainderLemma
<1> QED BY <1>1, <1>2

\* A negative number more than the divisor's wraps around once.
LEMMA NegativeMod ==
  ASSUME NEW a \in Int, NEW b \in Nat \ {0}, -b <= a, a < 0
  PROVE  a % b = a + b
  OBVIOUS

\* A number less than twice the divisor wraps around at most once.
LEMMA WrapMod ==
  ASSUME NEW a \in Nat, NEW b \in Nat \ {0}, b <= a, a < 2 * b
  PROVE  a % b = a - b
  OBVIOUS

\* A factor cancels.
LEMMA ProductLess ==
  ASSUME NEW j \in Int, NEW k \in Int, NEW b \in Nat \ {0}, j * b < k * b
  PROVE  j < k
  OBVIOUS

\* A product with a sum or a difference of one.
LEMMA Distribute ==
  ASSUME NEW k \in Int, NEW b \in Int
  PROVE  /\ k * b \in Int
         /\ (k + 1) * b = k * b + b
         /\ (k - 1) * b = k * b - b
  OBVIOUS

\* Products grow with their factors.
LEMMA ProductAtMost ==
  ASSUME NEW j \in Nat, NEW k \in Nat, NEW b \in Nat, NEW c \in Nat, j <= k, b <= c
  PROVE  j * b \in Nat /\ k * c \in Nat /\ j * b <= k * c
  OBVIOUS

\* A quotient is less than any factor with which the divisor exceeds a number.
LEMMA QuotientLess ==
  ASSUME NEW a \in Nat, NEW b \in Nat \ {0}, NEW c \in Nat, a < c * b
  PROVE  a \div b < c
<1>1. a \div b \in Nat /\ a % b \in Nat /\ a = (a \div b) * b + (a % b)
  BY DivisionLemma
<1>2. (a \div b) * b \in Int /\ c * b \in Int BY <1>1, Distribute
<1>3. (a \div b) * b < c * b BY <1>1, <1>2
<1> QED BY <1>1, <1>3, ProductLess

\* Quotients grow with the number, and shrink with the divisor.
LEMMA QuotientAtMost ==
  ASSUME NEW a \in Nat, NEW c \in Nat, NEW b \in Nat \ {0}, NEW d \in Nat \ {0}, a <= c, d <= b
  PROVE  a \div b <= c \div d
<1> DEFINE q == c \div d
<1>1. q \in Nat /\ c % d \in 0 .. d - 1 /\ c = q * d + (c % d)
  BY DivisionLemma
<1>2. q * d \in Int /\ (q + 1) * d = q * d + d
  BY <1>1, Distribute
<1>3. (q + 1) * d <= (q + 1) * b /\ (q + 1) * b \in Nat
  BY <1>1, ProductAtMost
<1> HIDE DEF q
<1>4. a < (q + 1) * b BY <1>1, <1>2, <1>3
<1>5. q + 1 \in Nat BY <1>1
<1>6. a \div b < q + 1 BY <1>4, <1>5, QuotientLess
<1>7. a \div b \in Nat BY DivisionLemma
<1> QED BY <1>1, <1>6, <1>7 DEF q

------------------------------------------------------------------------------
(* Sums.                                                                    *)

\* Induction over the natural numbers.  The library's theorems take the
\* statement as an operator; this one, which follows from the order of the
\* natural numbers being well-founded, takes the set of those it is true of.
LEMMA SetInduction ==
    ASSUME NEW S, 0 \in S, \A n \in Nat : n \in S => n + 1 \in S
    PROVE  Nat \subseteq S
  <1> DEFINE T == Nat \ S
             R == OpToRel(<, Nat)
  <1> SUFFICES ASSUME T # {} PROVE FALSE
    OBVIOUS
  <1>1. \A x, y \in Nat : x < y => <<x, y>> \in R
    BY DEF OpToRel
  <1>2. IsWellFoundedOn(R, Nat)
    BY NatLessThanWellFounded
  <1> HIDE DEF R
  <1>3. \E x \in T : \A y \in T : ~(<<y, x>> \in R)
    <2> T \subseteq Nat
      OBVIOUS
    <2> HIDE DEF T
    <2> QED
      BY <1>2, WFMin
  <1>4. PICK x \in T : \A y \in T : ~(<<y, x>> \in R)
    BY <1>3
  <1>5. x - 1 \in T
    OBVIOUS
  <1>6. x \in Nat /\ x - 1 \in Nat /\ x - 1 < x
    BY <1>5
  <1>7. <<x - 1, x>> \in R
    BY <1>1, <1>6
  <1> QED
    BY <1>4, <1>5, <1>7

\* The sum of the first n values of f.
SumTo(f, n) ==
    LET sum[i \in 0 .. n] == IF i = 0 THEN 0 ELSE sum[i - 1] + f[i - 1]
    IN sum[n]

\* g has the sums of the first values of f.
Adds(g, f, n) ==
    /\ g \in [0 .. n -> Int]
    /\ g[0] = 0
    /\ \A i \in 1 .. n : g[i] = g[i - 1] + f[i - 1]

LEMMA SumsExist ==
    ASSUME NEW n \in Nat, NEW f \in [0 .. n - 1 -> Int]
    PROVE  \E g : Adds(g, f, n)
  <1> DEFINE S == {m \in Nat : m <= n => \E g : Adds(g, f, m)}
  <1>1. 0 \in S
    <2>1. Adds([i \in 0 .. 0 |-> 0], f, 0)
      BY DEF Adds
    <2> QED
      BY <2>1
  <1>2. ASSUME NEW m \in Nat, m \in S PROVE m + 1 \in S
    <2> SUFFICES ASSUME m + 1 <= n PROVE \E g : Adds(g, f, m + 1)
      OBVIOUS
    <2>1. PICK g : Adds(g, f, m)
      BY <1>2
    <2> DEFINE h == [i \in 0 .. m + 1 |-> IF i <= m THEN g[i] ELSE g[m] + f[m]]
    <2>2. f[m] \in Int /\ g[m] \in Int
      BY <2>1 DEF Adds
    <2>3. h \in [0 .. m + 1 -> Int]
      BY <2>1, <2>2 DEF Adds
    <2>4. h[0] = 0
      BY <2>1 DEF Adds
    <2>5. ASSUME NEW i \in 1 .. m + 1 PROVE h[i] = h[i - 1] + f[i - 1]
      BY <2>1 DEF Adds
    <2>6. Adds(h, f, m + 1)
      BY <2>3, <2>4, <2>5 DEF Adds
    <2> QED
      BY <2>6
  <1> HIDE DEF S
  <1>3. n \in S
    BY <1>1, <1>2, SetInduction
  <1> QED
    BY <1>3 DEF S

LEMMA SumIsLast ==
    ASSUME NEW n \in Nat, NEW f \in [0 .. n - 1 -> Int]
    PROVE  \E g : Adds(g, f, n) /\ SumTo(f, n) = g[n]
  <1> DEFINE Sum(g) == g = [i \in 0 .. n |-> IF i = 0 THEN 0 ELSE g[i - 1] + f[i - 1]]
             s == CHOOSE g : Sum(g)
  <1>1. PICK g : Adds(g, f, n)
    BY SumsExist
  <1>2. Sum(g)
    BY <1>1 DEF Adds
  <1>3. Sum(s)
    BY <1>2
  <1>4. SumTo(f, n) = s[n]
    BY DEF SumTo
  <1>5. s[0] = 0 /\ \A i \in 1 .. n : s[i] = s[i - 1] + f[i - 1]
    <2> HIDE DEF s
    <2>1. s = [i \in 0 .. n |-> IF i = 0 THEN 0 ELSE s[i - 1] + f[i - 1]]
      BY <1>3
    <2>2. 0 \in 0 .. n /\ \A i \in 1 .. n : i \in 0 .. n /\ i # 0
      OBVIOUS
    <2> QED
      BY <2>1, <2>2
  <1>6. s \in [0 .. n -> Int]
    <2> DEFINE S == {m \in Nat : m <= n => s[m] \in Int}
    <2> HIDE DEF s
    <2>1. 0 \in S
      BY <1>5
    <2>2. ASSUME NEW m \in Nat, m \in S PROVE m + 1 \in S
      <3> SUFFICES ASSUME m + 1 <= n PROVE s[m + 1] \in Int
        OBVIOUS
      <3>1. s[m] \in Int /\ f[m] \in Int
        BY <2>2
      <3>2. s[m + 1] = s[m] + f[m]
        BY <1>5
      <3> QED
        BY <3>1, <3>2
    <2>3. Nat \subseteq S
      <3> HIDE DEF S
      <3> QED
        BY <2>1, <2>2, SetInduction
    <2>4. \A m \in 0 .. n : s[m] \in Int
      BY <2>3
    <2> QED
      BY <1>3, <2>4
  <1> HIDE DEF s
  <1> QED
    BY <1>4, <1>5, <1>6 DEF Adds

LEMMA SumType ==
    ASSUME NEW n \in Nat, NEW f \in [0 .. n - 1 -> Int]
    PROVE  SumTo(f, n) \in Int
  BY SumIsLast DEF Adds

\* Adding d to one of the values adds d to the sum.
LEMMA SumOfChanged ==
    ASSUME NEW n \in Nat, NEW f \in [0 .. n - 1 -> Int], NEW k \in 0 .. n - 1,
           NEW d \in Int, NEW h \in [0 .. n - 1 -> Int],
           h[k] = f[k] + d, \A i \in (0 .. n - 1) \ {k} : h[i] = f[i]
    PROVE  SumTo(h, n) = SumTo(f, n) + d
  <1>1. PICK a : Adds(a, f, n) /\ SumTo(f, n) = a[n]
    BY SumIsLast
  <1>2. PICK b : Adds(b, h, n) /\ SumTo(h, n) = b[n]
    BY SumIsLast
  <1> DEFINE S == {m \in Nat : m <= n => b[m] = a[m] + (IF m <= k THEN 0 ELSE d)}
  <1>3. 0 \in S
    BY <1>1, <1>2 DEF Adds
  <1>4. ASSUME NEW m \in Nat, m \in S PROVE m + 1 \in S
    <2> SUFFICES ASSUME m + 1 <= n PROVE b[m + 1] = a[m + 1] + (IF m + 1 <= k THEN 0 ELSE d)
      OBVIOUS
    <2>1. m + 1 \in 1 .. n /\ m \in 0 .. n - 1 /\ (m + 1) - 1 = m
      OBVIOUS
    <2>2. a[m + 1] = a[m] + f[m] /\ b[m + 1] = b[m] + h[m]
      BY <1>1, <1>2, <2>1 DEF Adds
    <2>3. a[m] \in Int /\ f[m] \in Int /\ b[m] = a[m] + (IF m <= k THEN 0 ELSE d)
      BY <1>1, <1>4, <2>1 DEF Adds
    <2>4. h[m] = f[m] + (IF m = k THEN d ELSE 0)
      BY <2>1, <2>3
    <2> QED
      BY <2>2, <2>3, <2>4
  <1> HIDE DEF S
  <1>5. n \in S
    BY <1>3, <1>4, SetInduction
  <1> QED
    BY <1>1, <1>2, <1>5 DEF S

LEMMA SumOfZeros ==
    ASSUME NEW n \in Nat, NEW f \in [0 .. n - 1 -> Int], \A i \in 0 .. n - 1 : f[i] = 0
    PROVE  SumTo(f, n) = 0
  <1>1. PICK a : Adds(a, f, n) /\ SumTo(f, n) = a[n]
    BY SumIsLast
  <1> DEFINE S == {m \in Nat : m <= n => a[m] = 0}
  <1>2. 0 \in S
    BY <1>1 DEF Adds
  <1>3. ASSUME NEW m \in Nat, m \in S PROVE m + 1 \in S
    <2> SUFFICES ASSUME m + 1 <= n PROVE a[m + 1] = 0
      OBVIOUS
    <2>1. a[m + 1] = a[m] + f[m]
      BY <1>1 DEF Adds
    <2> QED
      BY <1>3, <2>1
  <1> HIDE DEF S
  <1>4. n \in S
    BY <1>2, <1>3, SetInduction
  <1> QED
    BY <1>1, <1>4 DEF S

\* Two sums of the same values are the same, one of which goes on.
LEMMA SumOfOneMore ==
    ASSUME NEW n \in Nat, NEW f \in [0 .. n - 1 -> Int], NEW h \in [0 .. n -> Int],
           \A i \in 0 .. n - 1 : h[i] = f[i]
    PROVE  SumTo(h, n + 1) = SumTo(f, n) + h[n]
  <1>1. PICK a : Adds(a, f, n) /\ SumTo(f, n) = a[n]
    BY SumIsLast
  <1>2. PICK b : Adds(b, h, n + 1) /\ SumTo(h, n + 1) = b[n + 1]
    <2>1. n + 1 \in Nat /\ h \in [0 .. (n + 1) - 1 -> Int]
      OBVIOUS
    <2> QED
      BY <2>1, SumIsLast
  <1> DEFINE S == {m \in Nat : m <= n => b[m] = a[m]}
  <1>3. 0 \in S
    BY <1>1, <1>2 DEF Adds
  <1>4. ASSUME NEW m \in Nat, m \in S PROVE m + 1 \in S
    <2> SUFFICES ASSUME m + 1 <= n PROVE b[m + 1] = a[m + 1]
      OBVIOUS
    <2>1. m + 1 \in 1 .. n /\ m + 1 \in 1 .. n + 1 /\ (m + 1) - 1 = m /\ m \in 0 .. n - 1
      OBVIOUS
    <2>2. a[m + 1] = a[m] + f[m] /\ b[m + 1] = b[m] + h[m]
      BY <1>1, <1>2, <2>1 DEF Adds
    <2> QED
      BY <1>4, <2>1, <2>2
  <1>5. Nat \subseteq S
    <2> HIDE DEF S
    <2> QED
      BY <1>3, <1>4, SetInduction
  <1>6. b[n] = a[n]
    BY <1>5
  <1>7. b[n + 1] = b[n] + h[n]
    BY <1>2 DEF Adds
  <1> QED
    BY <1>1, <1>2, <1>6, <1>7

\* The sum of all values but the first one.
LEMMA SumOfRest ==
    ASSUME NEW n \in Nat, NEW f \in [0 .. n -> Int], NEW h \in [0 .. n - 1 -> Int],
           \A i \in 0 .. n - 1 : h[i] = f[i + 1]
    PROVE  SumTo(f, n + 1) = f[0] + SumTo(h, n)
  <1>1. PICK a : Adds(a, h, n) /\ SumTo(h, n) = a[n]
    BY SumIsLast
  <1>2. PICK b : Adds(b, f, n + 1) /\ SumTo(f, n + 1) = b[n + 1]
    <2>1. n + 1 \in Nat /\ f \in [0 .. (n + 1) - 1 -> Int]
      OBVIOUS
    <2> QED
      BY <2>1, SumIsLast
  <1> DEFINE S == {m \in Nat : m <= n => b[m + 1] = f[0] + a[m]}
  <1>3. 0 \in S
    <2>1. b[1] = b[0] + f[0] /\ b[0] = 0 /\ a[0] = 0 /\ f[0] \in Int
      BY <1>1, <1>2 DEF Adds
    <2> QED
      BY <2>1
  <1>4. ASSUME NEW m \in Nat, m \in S PROVE m + 1 \in S
    <2> SUFFICES ASSUME m + 1 <= n PROVE b[m + 1 + 1] = f[0] + a[m + 1]
      OBVIOUS
    <2>1. m + 1 \in 1 .. n /\ m + 1 + 1 \in 1 .. n + 1 /\ (m + 1 + 1) - 1 = m + 1
          /\ (m + 1) - 1 = m /\ m \in 0 .. n - 1 /\ m \in 0 .. n
      OBVIOUS
    <2>2. a[m + 1] = a[m] + h[m] /\ b[m + 1 + 1] = b[m + 1] + f[m + 1]
      BY <1>1, <1>2, <2>1 DEF Adds
    <2>3. a[m] \in Int /\ h[m] \in Int /\ f[0] \in Int
      BY <1>1, <2>1 DEF Adds
    <2>4. h[m] = f[m + 1] /\ b[m + 1] = f[0] + a[m]
      BY <1>4, <2>1
    <2> QED
      BY <2>2, <2>3, <2>4
  <1>5. Nat \subseteq S
    <2> HIDE DEF S
    <2> QED
      BY <1>3, <1>4, SetInduction
  <1> QED
    BY <1>1, <1>2, <1>5

LEMMA SumOfNaturals ==
    ASSUME NEW n \in Nat, NEW f \in [0 .. n - 1 -> Nat]
    PROVE  SumTo(f, n) \in Nat
  <1>1. PICK a : Adds(a, f, n) /\ SumTo(f, n) = a[n]
    <2>1. f \in [0 .. n - 1 -> Int]
      OBVIOUS
    <2> QED
      BY <2>1, SumIsLast
  <1> DEFINE S == {m \in Nat : m <= n => a[m] \in Nat}
  <1>2. 0 \in S
    BY <1>1 DEF Adds
  <1>3. ASSUME NEW m \in Nat, m \in S PROVE m + 1 \in S
    <2> SUFFICES ASSUME m + 1 <= n PROVE a[m + 1] \in Nat
      OBVIOUS
    <2>1. a[m + 1] = a[m] + f[m] /\ f[m] \in Nat
      BY <1>1 DEF Adds
    <2> QED
      BY <1>3, <2>1
  <1> HIDE DEF S
  <1>4. n \in S
    BY <1>2, <1>3, SetInduction
  <1> QED
    BY <1>1, <1>4 DEF S

\* Other definitions of sums have the same value: whatever adds up the first
\* n values of f has the sum at its end.
LEMMA SumIsUnique ==
    ASSUME NEW n \in Nat, NEW f \in [0 .. n - 1 -> Int], NEW s,
           s[0] = 0, \A i \in 1 .. n : s[i] = s[i - 1] + f[i - 1]
    PROVE  s[n] = SumTo(f, n)
  <1>1. PICK a : Adds(a, f, n) /\ SumTo(f, n) = a[n]
    BY SumIsLast
  <1> DEFINE S == {m \in Nat : m <= n => s[m] = a[m]}
  <1>2. 0 \in S
    BY <1>1 DEF Adds
  <1>3. ASSUME NEW m \in Nat, m \in S PROVE m + 1 \in S
    <2> SUFFICES ASSUME m + 1 <= n PROVE s[m + 1] = a[m + 1]
      OBVIOUS
    <2>1. m + 1 \in 1 .. n /\ (m + 1) - 1 = m
      OBVIOUS
    <2>2. a[m + 1] = a[m] + f[m] /\ s[m + 1] = s[m] + f[m]
      BY <1>1, <2>1 DEF Adds
    <2> QED
      BY <1>3, <2>2
  <1> HIDE DEF S
  <1>4. n \in S
    BY <1>2, <1>3, SetInduction
  <1> QED
    BY <1>1, <1>4 DEF S
===============================================================================
