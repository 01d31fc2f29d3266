----------------------------- MODULE WrapLemmas -----------------------------
(***************************************************************************)
(* Unsigned counters of the C code: what an increment and a difference of  *)
(* values in 0 .. m - 1 are, when both wrap at m.                          *)
(***************************************************************************)
EXTENDS Integers, TLAPS

\* A value in range is its own remainder.
LEMMA WrapSmall ==
  ASSUME NEW m \in Nat \ {0}, NEW x \in 0 .. m - 1
  PROVE  x % m = x
OBVIOUS

\* The tick after m - 1 is 0.
LEMMA WrapSuccessor ==
  ASSUME NEW m \in Nat \ {0}, NEW t \in 0 .. m - 1
  PROVE  /\ (t + 1) % m = IF t + 1 = m THEN 0 ELSE t + 1
         /\ (t + 1) % m \in 0 .. m - 1
OBVIOUS

\* An unsigned difference is the difference, or that plus m.
LEMMA WrapDifference ==
  ASSUME NEW m \in Nat \ {0}, NEW t \in 0 .. m - 1, NEW s \in 0 .. m - 1
  PROVE  /\ (t - s) % m = IF t >= s THEN t - s ELSE t - s + m
         /\ (t - s) % m \in 0 .. m - 1
OBVIOUS

\* A tick later the difference is one more, or starts again at 0.
LEMMA WrapElapsed ==
  ASSUME NEW m \in Nat \ {0}, NEW t \in 0 .. m - 1, NEW s \in 0 .. m - 1
  PROVE  (((t + 1) % m) - s) % m =
           IF (t - s) % m = m - 1 THEN 0 ELSE ((t - s) % m) + 1
<1> DEFINE u == (t + 1) % m
<1>1. u \in 0 .. m - 1 /\ u = IF t + 1 = m THEN 0 ELSE t + 1
  BY WrapSuccessor
<1> HIDE DEF u
<1>2. (u - s) % m = IF u >= s THEN u - s ELSE u - s + m
  BY <1>1, WrapDifference
<1>3. (t - s) % m = IF t >= s THEN t - s ELSE t - s + m
  BY WrapDifference
<1>4. (u - s) % m = IF (t - s) % m = m - 1 THEN 0 ELSE ((t - s) % m) + 1
  BY <1>1, <1>2, <1>3
<1> QED
  BY <1>4 DEF u

\* The remainder is unique.
LEMMA WrapRemainder ==
  ASSUME NEW m \in Nat \ {0}, NEW d \in Nat, NEW x \in 0 .. m - 1
  PROVE  (m * d + x) % m = x
<1> DEFINE z == m * d + x
           e == z \div m
           y == z % m
<1>1. m * d \in Nat /\ z \in Nat
  OBVIOUS
<1>2. z = m * e + y /\ e \in Nat /\ y \in 0 .. m - 1
  BY <1>1
<1>3. m * d + x = m * e + y
  BY <1>2
<1> HIDE DEF z, e, y
<1>4. \A a, b \in Nat : a > b => m * a >= m * b + m
  OBVIOUS
<1>5. m * d \in Nat /\ m * e \in Nat
  BY <1>2
<1>6. ~(d > e) /\ ~(e > d)
  BY <1>2, <1>3, <1>4, <1>5
<1>7. d = e
  BY <1>2, <1>6
<1>8. y = x
  BY <1>2, <1>3, <1>5, <1>7
<1> QED
  BY <1>8 DEF y, z

\* Two numbers with the same remainder, less than a turn apart, are equal.
LEMMA WrapEqual ==
  ASSUME NEW N \in Nat \ {0, 1}, NEW a \in Nat, NEW b \in Nat, a % N = b % N,
         b <= a + 1, a < b + N
  PROVE  a = b
<1>1. PICK d \in Nat, e \in Nat : a = N * d + (a % N) /\ b = N * e + (b % N)
  <2>1. a = N * (a \div N) + (a % N) /\ a \div N \in Nat
    OBVIOUS
  <2>2. b = N * (b \div N) + (b % N) /\ b \div N \in Nat
    OBVIOUS
  <2> QED
    BY <2>1, <2>2
<1>2. a % N \in Nat
  OBVIOUS
<1>3. CASE d > e
  <2>1. PICK x \in Nat : d = e + 1 + x
    <3>1. d - e - 1 \in Nat /\ d = e + 1 + (d - e - 1)
      BY <1>3
    <3> QED
      BY <3>1
  <2>2. N * d = N * e + N + N * x /\ N * x \in Nat /\ N * e \in Nat
    BY <2>1
  <2> QED
    BY <1>1, <1>2, <2>2
<1>4. CASE d < e
  <2>1. PICK x \in Nat : e = d + 1 + x
    <3>1. e - d - 1 \in Nat /\ e = d + 1 + (e - d - 1)
      BY <1>4
    <3> QED
      BY <3>1
  <2>2. N * e = N * d + N + N * x /\ N * x \in Nat /\ N * d \in Nat
    BY <2>1
  <2> QED
    BY <1>1, <1>2, <2>2
<1>5. CASE d = e
  BY <1>1, <1>5
<1> QED
  BY <1>3, <1>4, <1>5

\* The remainder of the next number.
LEMMA WrapNext ==
  ASSUME NEW N \in Nat \ {0, 1}, NEW a \in Nat
  PROVE  ((a % N) + 1) % N = (a + 1) % N /\ a % N \in 0 .. N - 1 /\ 1 % N = 1
<1> DEFINE x == a % N
<1>1. x \in 0 .. N - 1
  OBVIOUS
<1>2. PICK d \in Nat : a = N * d + x
  <2>1. a = N * (a \div N) + x /\ a \div N \in Nat
    OBVIOUS
  <2> QED
    BY <2>1
<1> HIDE DEF x
<1>3. (x + 1) % N = (a + 1) % N
  <2>1. CASE x = N - 1
    <3>1. a + 1 = N * (d + 1) + 0
      BY <1>2, <2>1
    <3>2. (N * (d + 1) + 0) % N = 0
      BY WrapRemainder
    <3>3. x + 1 = N * 1 + 0
      BY <2>1
    <3>4. (N * 1 + 0) % N = 0
      BY WrapRemainder
    <3> QED
      BY <3>1, <3>2, <3>3, <3>4
  <2>2. CASE x # N - 1
    <3>1. x + 1 \in 0 .. N - 1
      BY <1>1, <2>2
    <3>2. a + 1 = N * d + (x + 1)
      BY <1>1, <1>2
    <3>3. (N * d + (x + 1)) % N = x + 1
      BY <3>1, WrapRemainder
    <3>4. (x + 1) % N = x + 1
      BY <3>1, WrapSmall
    <3> QED
      BY <3>2, <3>3, <3>4
  <2> QED
    BY <2>1, <2>2
<1>4. 1 % N = 1
  BY WrapSmall
<1> QED
  BY <1>1, <1>3, <1>4 DEF x
=============================================================================
