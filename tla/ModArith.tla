------------------------------ MODULE ModArith ------------------------------
(***************************************************************************)
(* Remainders, for the rings of the kernel: counters that wrap around at u *)
(* and index a ring of n cells, where n divides u.                         *)
(***************************************************************************)
EXTENDS Integers, TLAPS

\* Quotient and remainder are what they should be.
LEMMA DivMod ==
  ASSUME NEW n \in Nat \ {0}, NEW x \in Nat
  PROVE  /\ x = n * (x \div n) + (x % n)
         /\ x \div n \in Nat
         /\ x % n \in 0..(n - 1)
  OBVIOUS

\* There is only one remainder.
LEMMA ModUnique ==
  ASSUME NEW n \in Nat \ {0}, NEW x \in Nat, NEW q \in Nat, NEW k \in 0..(n - 1), x = n * q + k
  PROVE  x % n = k
  OBVIOUS

\* Below n, and once around.
LEMMA ModSmall ==
  ASSUME NEW n \in Nat \ {0}, NEW x \in Nat
  PROVE  /\ x < n => x % n = x
         /\ n <= x /\ x < 2 * n => x % n = x - n
  OBVIOUS

\* Numbers that are less than n apart have different remainders.
LEMMA ModInjective ==
  ASSUME NEW n \in Nat \ {0}, NEW x \in Nat, NEW y \in Nat, x <= y, y < x + n, x % n = y % n
  PROVE  x = y
<1> DEFINE a == x \div n
           b == y \div n
           m == x % n
<1>1. /\ x = n * a + m /\ y = n * b + m
      /\ a \in Nat /\ b \in Nat /\ m \in 0..(n - 1)
  BY DivMod
<1> HIDE DEF a, b, m
<1>2. n * b - n * a = n * (b - a)
  BY <1>1
<1>3. ~ (b - a >= 1)
  BY <1>1, <1>2
<1>4. ~ (b - a <= -1)
  BY <1>1, <1>2
<1>. QED  BY <1>1, <1>2, <1>3, <1>4

\* A counter that has wrapped around at a multiple of n names the same cell.
LEMMA ModMod ==
  ASSUME NEW n \in Nat \ {0}, NEW x \in Nat, NEW u \in Nat \ {0}, u % n = 0
  PROVE  (x % u) % n = x % n
<1> DEFINE q == x \div u
           r == x % u
           k == u \div n
           a == r \div n
           b == r % n
<1>1. /\ x = u * q + r /\ q \in Nat /\ r \in Nat
      /\ u = n * k /\ k \in Nat
  BY DivMod
<1>2. r = n * a + b /\ a \in Nat /\ b \in 0..(n - 1)
  BY DivMod, <1>1
<1> HIDE DEF q, r, k, a, b
<1>3. u * q = n * (k * q) /\ k * q \in Nat
  BY <1>1
<1>4. x = n * (k * q + a) + b /\ k * q + a \in Nat
  BY <1>1, <1>2, <1>3
<1>5. x % n = b
  BY <1>2, <1>4, ModUnique
<1>. QED  BY <1>5 DEF b, r

\* So it may wrap around before another number is added to it.
LEMMA ModPlus ==
  ASSUME NEW n \in Nat \ {0}, NEW x \in Nat, NEW y \in Nat, NEW u \in Nat \ {0}, u % n = 0
  PROVE  ((x % u) + y) % n = (x + y) % n
<1> DEFINE q == x \div u
           r == x % u
           k == u \div n
           s == r + y
           z == x + y
           a == s \div n
           b == s % n
<1>1. /\ x = u * q + r /\ q \in Nat /\ r \in Nat
      /\ u = n * k /\ k \in Nat
  BY DivMod
<1> HIDE DEF q, r, k
<1>2. s \in Nat /\ z \in Nat
  BY <1>1
<1> HIDE DEF s, z
<1>3. s = n * a + b /\ a \in Nat /\ b \in 0..(n - 1)
  BY DivMod, <1>2
<1> HIDE DEF a, b
<1>4. u * q = n * (k * q) /\ k * q \in Nat
  BY <1>1
<1>5. z = n * (k * q + a) + b /\ k * q + a \in Nat
  BY <1>1, <1>3, <1>4 DEF s, z
<1>6. z % n = b
  BY <1>2, <1>3, <1>5, ModUnique
<1>. QED  BY <1>6 DEF b, s, r, z
=============================================================================
