------------------------- MODULE ModularArithmetic --------------------------
(***************************************************************************)
(* Remainders of wrapping counters, as far as the ring's indices need them *)
(***************************************************************************)
EXTENDS Integers, WellFoundedInduction, TLAPS

\* Quotient and remainder of an integer by a positive number.
LEMMA DivMod ==
  ASSUME NEW a \in Int, NEW b \in Nat \ {0}
  PROVE  /\ a = b * (a \div b) + (a % b)
         /\ a \div b \in Int
         /\ a % b \in 0 .. b - 1
BY SMT

\* The same with the quotient and the remainder named, for use with PICK.
LEMMA Division ==
  ASSUME NEW a \in Int, NEW b \in Nat \ {0}
  PROVE  \E q \in Int, r \in 0 .. b - 1 : a = b * q + r /\ r = a % b
<1>1. /\ a = b * (a \div b) + (a % b)
      /\ a \div b \in Int
      /\ a % b \in 0 .. b - 1
  BY DivMod
<1> WITNESS a \div b \in Int, a % b \in 0 .. b - 1
<1> QED BY <1>1

\* The remainder is the only number below b that differs from a by a multiple of b.
LEMMA ModUnique ==
  ASSUME NEW b \in Nat \ {0}, NEW q \in Int, NEW r \in 0 .. b - 1
  PROVE  (b * q + r) % b = r
<1> DEFINE a == b * q + r
<1>1. a \in Int
  OBVIOUS
<1>2. PICK q0 \in Int, r0 \in 0 .. b - 1 : a = b * q0 + r0 /\ r0 = a % b
  BY <1>1, Division
<1>3. b * (q0 - q) = r - r0
  BY <1>2, SMT
<1>4. ~(q0 - q >= 1)
  <2> SUFFICES ASSUME q0 - q >= 1 PROVE FALSE
    OBVIOUS
  <2>1. b * (q0 - q - 1) >= 0
    BY SMT
  <2> QED BY <1>2, <1>3, <2>1, SMT
<1>5. ~(q - q0 >= 1)
  <2> SUFFICES ASSUME q - q0 >= 1 PROVE FALSE
    OBVIOUS
  <2>1. b * (q - q0 - 1) >= 0
    BY SMT
  <2> QED BY <1>2, <1>3, <2>1, SMT
<1>6. q = q0
  BY <1>2, <1>4, <1>5
<1> QED BY <1>2, <1>3, <1>6

\* An index may be reduced before something is added to it: w + i wraps like w.
LEMMA ModAdd ==
  ASSUME NEW b \in Nat \ {0}, NEW x \in Int, NEW y \in Int
  PROVE  ((x % b) + y) % b = (x + y) % b
<1>1. PICK q \in Int, r \in 0 .. b - 1 : x = b * q + r /\ r = x % b
  BY Division
<1>2. PICK p \in Int, s \in 0 .. b - 1 : r + y = b * p + s /\ s = (r + y) % b
  BY Division, r + y \in Int
<1>3. x + y = b * (q + p) + s
  BY <1>1, <1>2, SMT
<1>4. (x + y) % b = s
  BY <1>3, ModUnique, q + p \in Int
<1> QED BY <1>1, <1>2, <1>4

\* A number below b is its own remainder.
LEMMA ModSmall ==
  ASSUME NEW b \in Nat \ {0}, NEW r \in 0 .. b - 1
  PROVE  r % b = r
BY SMT

\* The difference of two wrapped counters is the difference of the counters, as long as
\* that is below b: what makes "w - r" of two size_t indices the number of frames.
LEMMA ModDistance ==
  ASSUME NEW b \in Nat \ {0}, NEW x \in Nat, NEW y \in Nat, x - y \in 0 .. b - 1
  PROVE  ((x % b) - (y % b)) % b = x - y
<1>1. PICK q \in Int, r \in 0 .. b - 1 : x = b * q + r /\ r = x % b
  BY Division
<1>2. PICK p \in Int, s \in 0 .. b - 1 : y = b * p + s /\ s = y % b
  BY Division, y \in Int
<1>3. r - s = b * (p - q) + (x - y)
  BY <1>1, <1>2, SMT
<1>4. (r - s) % b = x - y
  BY <1>3, ModUnique, p - q \in Int
<1> QED BY <1>1, <1>2, <1>4

\* Wrapping at a multiple of c does not change the remainder by c: a wrapped index still
\* names the same slot when the capacity divides 2^width.
LEMMA ModOfMod ==
  ASSUME NEW c \in Nat \ {0}, NEW b \in Nat \ {0}, b % c = 0, NEW x \in Int
  PROVE  (x % b) % c = x % c
<1>1. PICK q \in Int, r \in 0 .. b - 1 : x = b * q + r /\ r = x % b
  BY Division
<1>2. PICK m \in Int : b = c * m
  BY Division, SMT
<1>3. PICK p \in Int, s \in 0 .. c - 1 : r = c * p + s /\ s = r % c
  BY Division, r \in Int
<1>4. x = c * (m * q + p) + s
  <2>1. b * q = c * (m * q)
    BY <1>2, SMT
  <2>2. c * (m * q + p) = c * (m * q) + c * p
    BY SMT
  <2>3. x = c * (m * q) + (c * p + s)
    BY <1>1, <1>3, <2>1, Zenon
  <2>4. \A u, v \in Int : u + (v + s) = (u + v) + s
    OBVIOUS
  <2>5. x = (c * (m * q) + c * p) + s
    BY <2>3, <2>4, c * (m * q) \in Int, c * p \in Int, Zenon
  <2> QED BY <2>2, <2>5, Zenon
<1>5. x % c = s
  BY <1>4, ModUnique, m * q + p \in Int
<1> QED BY <1>1, <1>3, <1>5

\* Positions less than c apart have different remainders by c: different slots.
LEMMA ModDistinct ==
  ASSUME NEW c \in Nat \ {0}, NEW x \in Int, NEW y \in Int,
         x < y, y - x < c
  PROVE  x % c # y % c
<1> SUFFICES ASSUME x % c = y % c PROVE FALSE
  OBVIOUS
<1>1. PICK q \in Int, r \in 0 .. c - 1 : x = c * q + r /\ r = x % c
  BY Division
<1>2. PICK p \in Int, s \in 0 .. c - 1 : y = c * p + s /\ s = y % c
  BY Division
<1>3. c * (p - q) = y - x
  BY <1>1, <1>2, SMT
<1>4. CASE p - q >= 1
  <2>1. c * (p - q - 1) >= 0
    BY <1>4, SMT
  <2> QED BY <1>3, <2>1, SMT
<1>5. CASE p - q <= 0
  <2>1. c * (q - p) >= 0
    BY <1>5, SMT
  <2> QED BY <1>3, <2>1, SMT
<1> QED BY <1>4, <1>5

\* Two positions on a ring: how far apart they are, and the position some steps on.
LEMMA ModApart ==
  ASSUME NEW c \in Nat \ {0}, NEW a \in 0 .. c - 1, NEW b \in 0 .. c - 1
  PROVE  (a - b) % c = IF a >= b THEN a - b ELSE a - b + c
<1>1. CASE a >= b
  <2>1. a - b \in 0 .. c - 1
    BY <1>1
  <2> QED BY <1>1, <2>1, ModSmall
<1>2. CASE a < b
  <2>1. a - b + c \in 0 .. c - 1
    BY <1>2
  <2>2. (c * (-1) + (a - b + c)) % c = a - b + c
    BY <2>1, ModUnique
  <2>3. c * (-1) + (a - b + c) = a - b
    OBVIOUS
  <2> QED BY <1>2, <2>2, <2>3
<1> QED BY <1>1, <1>2

LEMMA ModWrap ==
  ASSUME NEW c \in Nat \ {0}, NEW a \in 0 .. c - 1, NEW k \in 0 .. c - 1
  PROVE  /\ (a + k) % c = IF a + k < c THEN a + k ELSE a + k - c
         /\ (a + k) % c \in 0 .. c - 1
<1>1. CASE a + k < c
  BY <1>1, ModSmall
<1>2. CASE a + k >= c
  <2>1. a + k - c \in 0 .. c - 1
    BY <1>2
  <2>2. (c * 1 + (a + k - c)) % c = a + k - c
    BY <2>1, ModUnique
  <2>3. c * 1 + (a + k - c) = a + k
    OBVIOUS
  <2> QED BY <1>2, <2>1, <2>2, <2>3
<1> QED BY <1>1, <1>2

LEMMA ModNext ==
  ASSUME NEW c \in Nat \ {0}, NEW a \in 0 .. c - 1
  PROVE  (a + 1) % c = (IF a = c - 1 THEN 0 ELSE a + 1) /\ (a + 1) % c \in 0 .. c - 1
<1>1. CASE a = c - 1
  <2>1. (c * 1 + 0) % c = 0
    BY ModUnique
  <2> QED BY <1>1, <2>1
<1>2. CASE a # c - 1
  BY <1>2, ModSmall
<1> QED BY <1>1, <1>2

\* A quotient of natural numbers is one.
LEMMA QuotientIsNatural ==
  ASSUME NEW a \in Nat, NEW b \in Nat \ {0}
  PROVE  /\ a \div b \in Nat /\ a % b \in 0..b - 1
         /\ a = b * (a \div b) + (a % b)
<1>1. a \in Int
  OBVIOUS
<1>2. a = b * (a \div b) + (a % b) /\ a \div b \in Int /\ a % b \in 0..b - 1
  BY <1>1, DivMod
<1> DEFINE q == a \div b
           r == a % b
<1> HIDE DEF q, r
<1>3. a = b * q + r /\ q \in Int /\ r \in 0..b - 1
  BY <1>2 DEF q, r
<1>4. q >= 0
  <2> SUFFICES ASSUME q <= -1 PROVE FALSE
    BY <1>3
  <2>1. b * (-1 - q) >= 0
    BY <1>3
  <2>2. b * (-1 - q) = -b - b * q
    BY <1>3
  <2>3. b * q \in Int
    BY <1>3
  <2> QED BY <1>3, <2>1, <2>2, <2>3
<1> QED BY <1>3, <1>4 DEF q, r

\* A quotient is what the division leaves.
LEMMA QuotientIs ==
  ASSUME NEW d \in Nat \ {0}, NEW q \in Nat, NEW r \in 0..d - 1
  PROVE  (d * q + r) \div d = q /\ (d * q + r) % d = r
<1> DEFINE x == d * q + r
           p == x \div d
           s == x % d
<1>1. x \in Nat
  BY SMT
<1> HIDE DEF x
<1>2. p \in Nat /\ s \in 0..d - 1 /\ x = d * p + s
  <2> HIDE DEF p, s
  <2> QED BY <1>1, QuotientIsNatural, Zenon DEF p, s
<1>3. s = r
  BY ModUnique, SMT DEF x
<1> HIDE DEF p, s
<1>4. d * p = d * q
  BY <1>2, <1>3, SMT DEF x
<1>5. p = q
  BY <1>2, <1>4, SMT
<1> QED BY <1>3, <1>5, SMT DEF p, s, x

\* A set of numbers with 0 and the successor of each of its members has them all.
LEMMA AllNumbers ==
  ASSUME NEW S, S \subseteq Nat, 0 \in S, \A n \in S : n + 1 \in S
  PROVE  S = Nat
<1> DEFINE R == {p \in Nat \X Nat : p[1] < p[2]}
           Others == Nat \ S
<1>1. R = OpToRel(<, Nat)
  BY Zenon DEF OpToRel
<1>2. \A i \in Nat, j \in Nat : i < j => <<i, j>> \in R
  OBVIOUS
<1> HIDE DEF R
<1>3. IsWellFoundedOn(R, Nat)
  BY <1>1, NatLessThanWellFounded, Zenon
<1> SUFFICES ASSUME Others # {} PROVE FALSE
  OBVIOUS
<1>4. PICK least \in Others : \A y \in Others : ~(<<y, least>> \in R)
  BY <1>3, WFMin, Zenon
<1>5. least - 1 \in Nat /\ least - 1 < least /\ least = (least - 1) + 1
  BY <1>4
<1>6. least - 1 \in S
  BY <1>2, <1>4, <1>5
<1> QED BY <1>4, <1>5, <1>6
=============================================================================
