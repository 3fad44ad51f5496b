-------------------------------- MODULE NatMin --------------------------------
(***************************************************************************)
(* Facts about numbers.  The kernel's first-fit loops end at a least       *)
(* element (pmm_alloc_frame, process_create, sys_open, open_file_alloc),   *)
(* and paging.c takes addresses apart by division.                         *)
(***************************************************************************)
EXTENDS Integers, FiniteSetsExt, WellFoundedInduction, TLAPS

\* A nonempty set of naturals has a least member, and it is the one that Min
\* chooses: where a loop that counts up and stops at the first hit ends.
LEMMA MinIsLeast ==
  ASSUME NEW S \in SUBSET Nat, S # {}
  PROVE  Min(S) \in S /\ \A y \in S : Min(S) <= y
<1>1. PICK x \in S : \A y \in S : ~(<<y, x>> \in OpToRel(<, Nat))
  BY NatLessThanWellFounded, WFMin, Zenon
<1>. DEFINE Less == {ss \in Nat \X Nat : ss[1] < ss[2]}
<1>2. OpToRel(<, Nat) = Less
  BY Zenon DEF OpToRel
<1>3. \A y \in S : ~(<<y, x>> \in Less)
  BY <1>1, <1>2, Zenon
<1>4. ASSUME NEW y \in S  PROVE x <= y
  <2>1. \A p \in Nat \X Nat : p[1] < p[2] => p \in Less
    OBVIOUS
  <2>2. <<y, x>> \in Nat \X Nat /\ <<y, x>>[1] = y /\ <<y, x>>[2] = x
    OBVIOUS
  <2>3. ~(y < x)
    BY <1>3, <2>1, <2>2, Zenon
  <2>. QED  BY <2>3
<1>. QED  BY <1>4 DEF Min

\* A loop that counts up to n.
LEMMA CountUp ==
  ASSUME NEW n \in Nat, NEW S, 0 \in S, \A i \in 0 .. n - 1 : i \in S => i + 1 \in S
  PROVE  \A i \in 0 .. n : i \in S
<1>. SUFFICES ASSUME NEW i \in 0 .. n, i \notin S  PROVE FALSE
  OBVIOUS
<1>. DEFINE R == (0 .. n) \ S
<1>1. R \in SUBSET Nat /\ R # {}
  OBVIOUS
<1>2. PICK m : m = Min(R)
  OBVIOUS
<1>3. m \in R /\ \A y \in R : m <= y
  BY <1>1, <1>2, MinIsLeast
<1>4. m \in 1 .. n /\ m \notin S
  BY <1>3
<1>5. m - 1 \in 0 .. n - 1 /\ m - 1 \notin R
  BY <1>3, <1>4
<1>6. m - 1 \in S
  BY <1>5
<1>7. m - 1 + 1 \in S /\ m - 1 + 1 = m
  BY <1>4, <1>5, <1>6
<1>. QED  BY <1>4, <1>7

\* A nonempty set of naturals with a bound has a greatest member, which Max chooses.
LEMMA MaxIsGreatest ==
  ASSUME NEW S \in SUBSET Nat, NEW b \in Nat, \A y \in S : y <= b, S # {}
  PROVE  Max(S) \in S /\ \A y \in S : y <= Max(S)
<1>. DEFINE R == {b - y : y \in S}
<1>1. R \in SUBSET Nat
  OBVIOUS
<1>0. R # {}
  <2>1. PICK y \in S : TRUE
    OBVIOUS
  <2>2. b - y \in R
    OBVIOUS
  <2>. QED  BY <2>2
<1>2. Min(R) \in R /\ \A y \in R : Min(R) <= y
  BY <1>0, <1>1, MinIsLeast
<1>3. PICK x \in S : Min(R) = b - x
  BY <1>2
<1>4. \A y \in S : y <= x
  <2>. SUFFICES ASSUME NEW y \in S PROVE y <= x
    OBVIOUS
  <2>1. b - y \in R
    OBVIOUS
  <2>2. b - x <= b - y
    BY <1>2, <1>3, <2>1
  <2>. QED  BY <2>2
<1>. QED  BY <1>4 DEF Max

\* Multiplication by a positive number keeps the order.
LEMMA MulLess ==
  ASSUME NEW n \in Nat \ {0}, NEW a \in Int, NEW b \in Int
  PROVE  (n * a < n * b <=> a < b) /\ (n * a <= n * b <=> a <= b)
OBVIOUS

\* A quotient and a remainder, put together and taken apart again ...
LEMMA DivUnique ==
  ASSUME NEW n \in Nat \ {0}, NEW q \in Nat, NEW r \in 0 .. n - 1
  PROVE  (n * q + r) \div n = q /\ (n * q + r) % n = r
OBVIOUS

\* Where the quotient stands against a bound: the page of an address.
LEMMA DivLess ==
  ASSUME NEW a \in Nat, NEW n \in Nat \ {0}, NEW q \in Nat
  PROVE  /\ a \div n < q <=> a < n * q 
         /\ q <= a \div n <=> n * q <= a 
OBVIOUS

\* ... and a number taken apart and put together.
LEMMA DivMod ==
  ASSUME NEW a \in Nat, NEW n \in Nat \ {0}
  PROVE  \E q \in Nat, r \in 0 .. n - 1 : a \div n = q /\ a % n = r /\ a = n * q + r
<1>1. PICK q \in Int : q = a \div n
  OBVIOUS
<1>2. q >= 0
  BY <1>1
<1>3. n * q <= a /\ a < n * (q + 1)
  BY <1>1, <1>2, DivLess
<1>4. PICK r \in Int : r = a - n * q
  OBVIOUS
<1>5. r \in 0 .. n - 1 /\ a = n * q + r
  BY <1>3, <1>4
<1>6. a % n = r
  BY <1>2, <1>5, DivUnique
<1>7. q \in Nat
  BY <1>2
<1>. QED  BY <1>1, <1>5, <1>6, <1>7, Zenon
===============================================================================
