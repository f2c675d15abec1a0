----------------------------- MODULE NaturalFacts -----------------------------
(* Facts about natural numbers that the proofs of several components need.    *)
EXTENDS Integers, WellFoundedInduction, TLAPS

Before == { ss \in Nat \X Nat : ss[1] < ss[2] }

\* A set of naturals has a least element.
LEMMA LeastOf ==
    ASSUME NEW T \in SUBSET Nat, T # {}
    PROVE  \E x \in T : \A y \in T : x <= y
  <1>1. IsWellFoundedOn(Before, Nat)
    BY NatLessThanWellFounded, Zenon DEF OpToRel, Before
  <1>2. PICK x \in T : \A y \in T : <<y, x>> \notin Before
    BY <1>1, WFMin
  <1>3. ASSUME NEW y \in T
        PROVE  x <= y
    <2>1. ~ (y < x)
      BY <1>2 DEF Before
    <2> QED
      BY <2>1
  <1> QED
    BY <1>3

\* Quotient and remainder.
LEMMA DivMod ==
    ASSUME NEW x \in Int, NEW n \in Nat \ {0}
    PROVE  /\ x \div n \in Int /\ x % n \in 0 .. n - 1
           /\ x = (n * (x \div n)) + (x % n)
  OBVIOUS

LEMMA Multiples ==
    ASSUME NEW n \in Nat \ {0}, NEW q \in Int, NEW p \in Int, q < p
    PROVE  (n * q) + n <= n * p /\ n * q \in Int /\ n * p \in Int
  OBVIOUS

LEMMA Products ==
    ASSUME NEW n \in Nat \ {0}, NEW p \in Int, NEW q \in Int
    PROVE  n * (p + q) = (n * p) + (n * q) /\ n * 1 = n /\ n * p \in Int /\ n * q \in Int
  OBVIOUS

LEMMA ProductIsMore ==
    ASSUME NEW n \in Nat \ {0}, NEW q \in Nat
    PROVE  q <= n * q
  <1>1. n * q = ((n - 1) * q) + q
    OBVIOUS
  <1>2. (n - 1) * q \in Nat
    <2> DEFINE m == n - 1
    <2>1. m \in Nat
      OBVIOUS
    <2> HIDE DEF m
    <2>2. m * q \in Nat
      BY <2>1
    <2> QED
      BY <2>2 DEF m
  <1> QED
    BY <1>1, <1>2

\* They are the only ones.
LEMMA DivModUnique ==
    ASSUME NEW x \in Int, NEW n \in Nat \ {0}, NEW q \in Int, NEW r \in 0 .. n - 1,
           x = (n * q) + r
    PROVE  x \div n = q /\ x % n = r
  <1>1. /\ x \div n \in Int /\ x % n \in 0 .. n - 1
        /\ x = (n * (x \div n)) + (x % n)
    BY DivMod
  <1>2. CASE q < x \div n
    <2>1. (n * q) + n <= n * (x \div n) /\ n * q \in Int /\ n * (x \div n) \in Int
      BY <1>1, <1>2, Multiples
    <2> QED
      BY <1>1, <2>1
  <1>3. CASE x \div n < q
    <2>1. (n * (x \div n)) + n <= n * q /\ n * q \in Int /\ n * (x \div n) \in Int
      BY <1>1, <1>3, Multiples
    <2> QED
      BY <1>1, <2>1
  <1>4. CASE q = x \div n
    <2>1. n * q \in Int
      OBVIOUS
    <2> QED
      BY <1>1, <1>4, <2>1
  <1> QED
    BY <1>1, <1>2, <1>3, <1>4

\* What lies whole turns apart has one remainder.
LEMMA ModTurns ==
    ASSUME NEW x \in Int, NEW n \in Nat \ {0}, NEW k \in Int
    PROVE  (x + (n * k)) % n = x % n
  <1>1. /\ x \div n \in Int /\ x % n \in 0 .. n - 1
        /\ x = (n * (x \div n)) + (x % n)
    BY DivMod
  <1> DEFINE d == x \div n
             r == x % n
             t == n * k
  <1>2. /\ n * (d + k) = (n * d) + t /\ n * d \in Int /\ t \in Int
        /\ d \in Int /\ r \in 0 .. n - 1 /\ x = (n * d) + r
    BY <1>1, Products
  <1> HIDE DEF d, r, t
  <1>3. x + t = (n * (d + k)) + r /\ d + k \in Int /\ x + t \in Int
    BY <1>2
  <1>4. (x + t) % n = r
    BY <1>2, <1>3, DivModUnique
  <1> QED
    BY <1>4 DEF r, t

\* Small numbers are their own remainder, and no remainder is larger than its number.
LEMMA ModOfNat ==
    ASSUME NEW x \in Nat, NEW n \in Nat \ {0}
    PROVE  /\ x \div n \in Nat /\ x \div n <= x
           /\ x % n \in Nat /\ x % n <= x
           /\ x < n => x % n = x
  <1>1. /\ x \div n \in Int /\ x % n \in 0 .. n - 1
        /\ x = (n * (x \div n)) + (x % n)
    BY DivMod
  <1>2. x \div n >= 0
    <2> SUFFICES ASSUME x \div n < 0 PROVE FALSE
      BY <1>1
    <2>1. (n * (x \div n)) + n <= n * 0 /\ n * (x \div n) \in Int
      BY <1>1, Multiples
    <2> QED
      BY <1>1, <2>1
  <1>3. x \div n <= n * (x \div n) /\ n * (x \div n) \in Int
    BY <1>1, <1>2, ProductIsMore
  <1>4. x < n => x % n = x
    BY DivModUnique
  <1> QED
    BY <1>1, <1>2, <1>3, <1>4

\* Whole parts of a sum of three, and of a difference.
LEMMA DivOfSum ==
    ASSUME NEW x \in Nat, NEW y \in Nat, NEW n \in Nat \ {0}
    PROVE  /\ (x \div n) + (y \div n) <= (x + y) \div n
           /\ (x + y) \div n <= (x \div n) + (y \div n) + 1
           /\ x <= y => x \div n <= y \div n
  <1>1. /\ x \div n \in Nat /\ x % n \in 0 .. n - 1 /\ x = (n * (x \div n)) + (x % n)
        /\ y \div n \in Nat /\ y % n \in 0 .. n - 1 /\ y = (n * (y \div n)) + (y % n)
    BY DivMod, ModOfNat
  <1>2. CASE (x % n) + (y % n) < n
    <2>1. /\ n * ((x \div n) + (y \div n)) = (n * (x \div n)) + (n * (y \div n))
          /\ n * (x \div n) \in Int /\ n * (y \div n) \in Int
      BY <1>1, Products
    <2>2. (x + y) \div n = (x \div n) + (y \div n)
      <3> DEFINE q == (x \div n) + (y \div n)
                 r == (x % n) + (y % n)
      <3>1. q \in Int /\ r \in 0 .. n - 1 /\ x + y \in Int /\ x + y = (n * q) + r
        BY <1>1, <1>2, <2>1
      <3> HIDE DEF q, r
      <3>2. (x + y) \div n = q
        BY <3>1, DivModUnique
      <3> QED
        BY <3>2 DEF q
    <2> QED
      BY <1>1, <2>2
  <1>3. CASE (x % n) + (y % n) >= n
    <2>1. /\ n * ((x \div n) + (y \div n)) = (n * (x \div n)) + (n * (y \div n))
          /\ n * (x \div n) \in Int /\ n * (y \div n) \in Int
      BY <1>1, Products
    <2>2. /\ n * ((x \div n) + (y \div n) + 1) = (n * ((x \div n) + (y \div n))) + n
          /\ n * ((x \div n) + (y \div n)) \in Int
      BY <1>1, Products
    <2>3. (x + y) \div n = (x \div n) + (y \div n) + 1
      <3> DEFINE q == (x \div n) + (y \div n) + 1
                 r == (x % n) + (y % n) - n
      <3>1. q \in Int /\ r \in 0 .. n - 1 /\ x + y \in Int /\ x + y = (n * q) + r
        BY <1>1, <1>3, <2>1, <2>2
      <3> HIDE DEF q, r
      <3>2. (x + y) \div n = q
        BY <3>1, DivModUnique
      <3> QED
        BY <3>2 DEF q
    <2> QED
      BY <1>1, <2>3
  <1>4. ASSUME x <= y, y \div n < x \div n PROVE FALSE
    <2>1. (n * (y \div n)) + n <= n * (x \div n) /\ n * (y \div n) \in Int /\ n * (x \div n) \in Int
      BY <1>1, <1>4, Multiples
    <2> QED
      BY <1>1, <1>4, <2>1
  <1> QED
    BY <1>1, <1>2, <1>3, <1>4

\* Whole turns, and remainders, may be left out of a sum before its remainder is taken.
LEMMA DivTurns ==
    ASSUME NEW x \in Int, NEW n \in Nat \ {0}, NEW k \in Int
    PROVE  (x + (n * k)) \div n = (x \div n) + k
  <1>1. /\ x \div n \in Int /\ x % n \in 0 .. n - 1
        /\ x = (n * (x \div n)) + (x % n)
    BY DivMod
  <1> DEFINE d == x \div n
             r == x % n
             t == n * k
  <1>2. /\ n * (d + k) = (n * d) + t /\ n * d \in Int /\ t \in Int
        /\ d \in Int /\ r \in 0 .. n - 1 /\ x = (n * d) + r
    BY <1>1, Products
  <1> HIDE DEF d, r, t
  <1>3. x + t = (n * (d + k)) + r /\ d + k \in Int /\ x + t \in Int
    BY <1>2
  <1>4. (x + t) \div n = d + k
    BY <1>2, <1>3, DivModUnique
  <1> QED
    BY <1>4 DEF d, t

LEMMA ModOfSum ==
    ASSUME NEW x \in Int, NEW y \in Int, NEW n \in Nat \ {0}
    PROVE  /\ ((x % n) + y) % n = (x + y) % n
           /\ (y - (x % n)) % n = (y - x) % n
  <1> DEFINE d == x \div n
             r == x % n
  <1>1. d \in Int /\ r \in Int /\ x = (n * d) + r
    BY DivMod
  <1> HIDE DEF d, r
  <1>2. n * (d + (-d)) = (n * d) + (n * (-d)) /\ n * d \in Int /\ n * (-d) \in Int
    BY <1>1, Products
  <1>3. n * (-d) = -(n * d)
    BY <1>1, <1>2
  <1>4. r + y \in Int /\ (r + y) + (n * d) = x + y
    BY <1>1, <1>2
  <1>5. y - r \in Int /\ (y - r) + (n * (-d)) = y - x
    BY <1>1, <1>2, <1>3
  <1>6. ((r + y) + (n * d)) % n = (r + y) % n
    BY <1>1, <1>4, ModTurns
  <1>7. ((y - r) + (n * (-d))) % n = (y - r) % n
    <2> DEFINE x0 == y - r
               k == -d
    <2>1. x0 \in Int /\ k \in Int
      BY <1>1, <1>5
    <2> HIDE DEF x0, k
    <2>2. (x0 + (n * k)) % n = x0 % n
      BY <2>1, ModTurns
    <2> QED
      BY <2>2 DEF x0, k
  <1> QED
    BY <1>4, <1>5, <1>6, <1>7 DEF r

\* What is added carries over at most once more than its own units, rounded up.
LEMMA DivOfLater ==
    ASSUME NEW x \in Nat, NEW d \in Nat, NEW n \in Nat \ {0}
    PROVE  (x + d) \div n <= (x \div n) + ((d + n - 1) \div n)
  <1> DEFINE q == x \div n
             m == d + n - 1
  <1>1. q \in Nat /\ x <= (n * q) + (n - 1) /\ m \in Nat /\ n * q \in Nat
    BY DivMod, ModOfNat, ProductIsMore
  <1>2. x + d <= m + (n * q) /\ x + d \in Nat /\ m + (n * q) \in Nat
    BY <1>1
  <1> HIDE DEF q, m
  <1>3. (x + d) \div n <= (m + (n * q)) \div n
    BY <1>2, DivOfSum
  <1>4. (m + (n * q)) \div n = (m \div n) + q
    <2>1. m \in Int /\ q \in Int
      BY <1>1
    <2> QED
      BY <2>1, DivTurns
  <1>5. m \div n \in Nat
    BY <1>1, ModOfNat
  <1> QED
    BY <1>1, <1>3, <1>4, <1>5 DEF q, m
===============================================================================
