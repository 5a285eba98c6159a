------------------------ MODULE InstructionProofs ----------------------------
(***************************************************************************)
(* Theorems about instructions, for registers of any width.                *)
(*                                                                         *)
(* Atomics: an LR pays for one SC at most, whatever is written in between  *)
(* and wherever.  An AMO writes what the manual says and nothing comes     *)
(* between its load and its store.                                         *)
(*                                                                         *)
(* Integer: every word decodes to the immediate that the manual lays out,  *)
(* every operation on registers gives the result that the manual defines,  *)
(* and every branch and jump goes where it says.                           *)
(***************************************************************************)
EXTENDS Atomics, Integer, FiniteSetTheorems, WellFoundedInduction, TLAPS

----------------------------------------------------------------------------
(* Powers of two, from the numbers of subsets.                             *)

\* A set with 0, and with the successor of each of its numbers, is Nat.
LEMMA Induction ==
  ASSUME NEW T \in SUBSET Nat, 0 \in T, \A n \in T : n + 1 \in T
  PROVE  T = Nat
<1> DEFINE R == OpToRel(<, Nat)
           U == Nat \ T
<1>1. IsWellFoundedOn(R, Nat)
  BY NatLessThanWellFounded, Zenon
<1> HIDE DEF R
<1> SUFFICES ASSUME U # {} PROVE FALSE
  OBVIOUS
<1>2. PICK m \in U : \A n \in U : ~(<<n, m>> \in R)
  BY <1>1, WFMin
<1>3. m # 0 /\ m - 1 \in Nat /\ m - 1 \notin T
  OBVIOUS
<1>4. <<m - 1, m>> \in R
  BY <1>3 DEF R, OpToRel
<1> QED
  BY <1>2, <1>3, <1>4

\* A new element doubles the number of subsets.
LEMMA SubsetsDouble ==
  ASSUME NEW S, NEW e, e \notin S, IsFiniteSet(SUBSET S)
  PROVE  Cardinality(SUBSET (S \cup {e})) = Cardinality(SUBSET S) + Cardinality(SUBSET S)
<1> DEFINE P == SUBSET S
           f == [A \in P |-> A \cup {e}]
           Q == {A \cup {e} : A \in P}
<1>1. SUBSET (S \cup {e}) = P \cup Q
  <2>1. ASSUME NEW B \in SUBSET (S \cup {e}) PROVE B \in P \cup Q
    <3>1. CASE e \in B
      <4>1. B \ {e} \in P /\ B = (B \ {e}) \cup {e}
        BY <3>1
      <4> QED
        BY <4>1
    <3>2. CASE e \notin B
      BY <3>2
    <3> QED
      BY <3>1, <3>2
  <2> QED
    BY <2>1
<1>2. P \cap Q = {}
  OBVIOUS
<1>3. f \in Bijection(P, Q)
  <2>1. f \in [P -> Q]
    OBVIOUS
  <2>2. ASSUME NEW A \in P, NEW B \in P, f[A] = f[B] PROVE A = B
    <3>1. A \cup {e} = B \cup {e} /\ e \notin A /\ e \notin B
      BY <2>2
    <3> QED
      BY <3>1
  <2>3. ASSUME NEW B \in Q PROVE \E A \in P : f[A] = B
    OBVIOUS
  <2> HIDE DEF f, P, Q
  <2>4. f \in Injection(P, Q)
    <3>1. \A A, B \in P : f[A] = f[B] => A = B
      BY <2>2, Zenon
    <3> QED
      BY <2>1, <3>1, Zenon DEF Injection, IsInjective
  <2>5. f \in Surjection(P, Q)
    BY <2>1, <2>3 DEF Surjection
  <2> QED
    BY <2>4, <2>5 DEF Bijection
<1>4. IsFiniteSet(Q) /\ Cardinality(Q) = Cardinality(P)
  BY <1>3, FS_Bijection DEF ExistsBijection
<1>5. Cardinality(P \cup Q) = Cardinality(P) + Cardinality(Q) - Cardinality(P \cap Q)
  BY <1>4, FS_Union
<1>6. Cardinality(P \cap Q) = 0 /\ Cardinality(P) \in Nat
  BY <1>2, FS_EmptySet, FS_CardinalityType
<1> HIDE DEF P, Q
<1>7. Cardinality(P \cup Q) = Cardinality(P) + Cardinality(P)
  BY <1>4, <1>5, <1>6
<1> QED
  BY <1>1, <1>7 DEF P

\* Powers of two double.
LEMMA Powers == 2 ^ 0 = 1 /\ \A k \in Nat : 2 ^ k \in Nat \ {0} /\ 2 ^ (k + 1) = 2 * 2 ^ k
<1>1. 2 ^ 0 = 1
  OBVIOUS
<1>2. ASSUME NEW k \in Nat
      PROVE  /\ IsFiniteSet(SUBSET (1 .. k)) /\ Cardinality(SUBSET (1 .. k)) = 2 ^ k
             /\ 2 ^ k \in Nat \ {0}
  <2>1. IsFiniteSet(1 .. k) /\ Cardinality(1 .. k) = k
    BY FS_Interval
  <2>2. IsFiniteSet(SUBSET (1 .. k)) /\ Cardinality(SUBSET (1 .. k)) = 2 ^ k
    BY <2>1, FS_SUBSET
  <2>3. Cardinality(SUBSET (1 .. k)) \in Nat
    BY <2>2, FS_CardinalityType
  <2>4. SUBSET (1 .. k) # {}
    OBVIOUS
  <2>5. Cardinality(SUBSET (1 .. k)) # 0
    BY <2>2, <2>4, FS_EmptySet
  <2> QED
    BY <2>2, <2>3, <2>5
<1>3. ASSUME NEW k \in Nat PROVE 2 ^ (k + 1) = 2 * 2 ^ k
  <2>1. k + 1 \in Nat /\ 1 .. k + 1 = (1 .. k) \cup {k + 1} /\ k + 1 \notin 1 .. k
    OBVIOUS
  <2> DEFINE c == Cardinality(SUBSET (1 .. k))
  <2>2. Cardinality(SUBSET (1 .. k + 1)) = c + c
    BY <1>2, <2>1, SubsetsDouble
  <2>3. c = 2 ^ k /\ c \in Nat /\ Cardinality(SUBSET (1 .. k + 1)) = 2 ^ (k + 1)
    BY <1>2, <2>1
  <2> HIDE DEF c
  <2>4. 2 ^ (k + 1) = 2 * c
    BY <2>2, <2>3
  <2> QED
    BY <2>3, <2>4
<1> QED
  BY <1>1, <1>2, <1>3

----------------------------------------------------------------------------
(* Division, and the digits of a number.                                   *)

\* Quotient and remainder.
LEMMA Divided ==
  ASSUME NEW m \in Nat, NEW p \in Nat \ {0}
  PROVE  m \div p \in Nat /\ m % p \in 0 .. p - 1 /\ m = p * (m \div p) + (m % p)
OBVIOUS

\* They are the only numbers of their kind.
LEMMA Division ==
  ASSUME NEW p \in Nat \ {0}, NEW q \in Nat, NEW r \in 0 .. p - 1
  PROVE  (p * q + r) \div p = q /\ (p * q + r) % p = r
<1> DEFINE m == p * q + r
           a == m \div p
           b == m % p
<1>1. m \in Nat
  OBVIOUS
<1>2. a \in Nat /\ b \in 0 .. p - 1 /\ m = p * a + b
  BY <1>1, Divided
<1>3. p * q + r = p * a + b
  BY <1>2
<1> HIDE DEF a, b
<1>4. q = a
  <2>1. ASSUME q + 1 <= a PROVE FALSE
    <3>1. p * (q + 1) <= p * a
      BY <1>2, <2>1
    <3> QED
      BY <1>2, <1>3, <3>1
  <2>2. ASSUME a + 1 <= q PROVE FALSE
    <3>1. p * (a + 1) <= p * q
      BY <1>2, <2>2
    <3> QED
      BY <1>2, <1>3, <3>1
  <2> QED
    BY <1>2, <2>1, <2>2
<1>5. r = b
  BY <1>2, <1>3, <1>4
<1> QED
  BY <1>4, <1>5 DEF a, b

\* The remainder by 2 * p has one digit more than that by p.
LEMMA NextDigit ==
  ASSUME NEW m \in Nat, NEW p \in Nat \ {0}
  PROVE  m % (2 * p) = (m % p) + ((m \div p) % 2) * p
<1> DEFINE q == m \div p
           h == q \div 2
           d == q % 2
           r == m % p
<1>1. q \in Nat /\ r \in 0 .. p - 1 /\ m = p * q + r
  BY Divided
<1> HIDE DEF q, r
<1>2. h \in Nat /\ d \in {0, 1} /\ q = 2 * h + d
  BY <1>1
<1> HIDE DEF h, d
<1>3. m = (2 * p) * h + (d * p + r)
  BY <1>1, <1>2
<1>4. d * p + r \in 0 .. 2 * p - 1 /\ 2 * p \in Nat \ {0}
  BY <1>1, <1>2
<1>5. m % (2 * p) = d * p + r
  BY <1>2, <1>3, <1>4, Division
<1>6. d * p \in Nat
  BY <1>2
<1>7. d * p + r = r + d * p
  BY <1>1, <1>6
<1> QED
  BY <1>5, <1>7 DEF q, r, d

\* A power of two is a multiple of twice each smaller one.
LEMMA PowersDivide ==
  ASSUME NEW i \in Nat
  PROVE  \A k \in Nat : i < k => \E c \in Nat : 2 ^ k = (2 * c) * 2 ^ i
<1> DEFINE T == {k \in Nat : i < k => \E c \in Nat : 2 ^ k = (2 * c) * 2 ^ i}
<1>1. 0 \in T
  OBVIOUS
<1>2. ASSUME NEW k \in T PROVE k + 1 \in T
  <2> SUFFICES ASSUME i < k + 1 PROVE \E c \in Nat : 2 ^ (k + 1) = (2 * c) * 2 ^ i
    OBVIOUS
  <2>1. k \in Nat /\ 2 ^ (k + 1) = 2 * 2 ^ k /\ 2 ^ i \in Nat /\ 2 ^ k \in Nat
    BY Powers
  <2>2. CASE i = k
    <3>1. 2 ^ (k + 1) = (2 * 1) * 2 ^ i
      BY <2>1, <2>2
    <3> QED
      BY <3>1
  <2>3. CASE i < k
    <3>1. PICK c \in Nat : 2 ^ k = (2 * c) * 2 ^ i
      BY <2>1, <2>3
    <3>2. 2 ^ (k + 1) = (2 * (2 * c)) * 2 ^ i /\ 2 * c \in Nat
      BY <2>1, <3>1
    <3> QED
      BY <3>2
  <2> QED
    BY <2>1, <2>2, <2>3
<1>3. T \in SUBSET Nat
  OBVIOUS
<1> HIDE DEF T
<1>4. T = Nat
  BY <1>1, <1>2, <1>3, Induction
<1> QED
  BY <1>4 DEF T

\* Higher digits do not change the digit at i.
LEMMA DigitStays ==
  ASSUME NEW m \in Nat, NEW p \in Nat \ {0}, NEW c \in Nat
  PROVE  ((m + (2 * c) * p) \div p) % 2 = (m \div p) % 2
<1> DEFINE q == m \div p
           r == m % p
<1>1. q \in Nat /\ r \in 0 .. p - 1 /\ m = p * q + r
  BY Divided
<1> HIDE DEF q, r
<1>2. m + (2 * c) * p = p * (q + 2 * c) + r /\ q + 2 * c \in Nat
  BY <1>1
<1>3. (m + (2 * c) * p) \div p = q + 2 * c
  BY <1>1, <1>2, Division
<1>4. (q + 2 * c) % 2 = q % 2
  BY <1>1
<1> QED
  BY <1>3, <1>4 DEF q

\* Powers of two grow.
LEMMA PowersGrow ==
  ASSUME NEW i \in Nat, NEW k \in Nat, i <= k
  PROVE  2 ^ i <= 2 ^ k /\ (i < k => 2 * 2 ^ i <= 2 ^ k)
<1> DEFINE p == 2 ^ i
           q == 2 ^ k
<1>1. p \in Nat \ {0} /\ q \in Nat \ {0}
  BY Powers
<1>2. i < k => \E c \in Nat : q = (2 * c) * p
  BY PowersDivide
<1>3. i = k => p = q
  OBVIOUS
<1> HIDE DEF p, q
<1>4. CASE i < k
  <2>1. PICK c \in Nat : q = (2 * c) * p
    BY <1>2, <1>4
  <2>2. c # 0
    BY <1>1, <2>1
  <2>3. p <= c * p /\ q = 2 * (c * p) /\ c * p \in Nat
    BY <1>1, <2>1, <2>2
  <2> QED
    BY <1>1, <2>3 DEF p, q
<1>5. CASE i = k
  BY <1>1, <1>3, <1>5 DEF p, q
<1> QED
  BY <1>4, <1>5

\* A digit is zero or one.
LEMMA DigitType ==
  ASSUME NEW x \in Nat, NEW i \in Nat
  PROVE  Digit(x, i) \in {0, 1}
<1>1. x \div 2 ^ i \in Nat
  BY Powers, Divided
<1> QED
  BY <1>1 DEF Digit

\* The remainder has the low digits of a number.
LEMMA LowDigits ==
  ASSUME NEW x \in Nat, NEW k \in Nat, NEW i \in 0 .. k - 1
  PROVE  Digit(x % 2 ^ k, i) = Digit(x, i)
<1> DEFINE p == 2 ^ i
           z == 2 ^ k
           m == x % z
           q == x \div z
<1>1. i \in Nat /\ i < k
  OBVIOUS
<1>2. z \in Nat \ {0} /\ p \in Nat \ {0}
  BY <1>1, Powers
<1>3. PICK c \in Nat : z = (2 * c) * p
  BY <1>1, PowersDivide
<1> HIDE DEF p, z
<1>4. m \in Nat /\ q \in Nat /\ x = z * q + m
  BY <1>2, Divided
<1> HIDE DEF m, q
<1> DEFINE e == c * q
<1>5. e \in Nat /\ x = m + (2 * e) * p
  BY <1>2, <1>3, <1>4
<1> HIDE DEF e
<1>6. ((m + (2 * e) * p) \div p) % 2 = (m \div p) % 2
  BY <1>2, <1>4, <1>5, DigitStays
<1>7. (x \div p) % 2 = (m \div p) % 2
  BY <1>5, <1>6
<1> QED
  BY <1>7 DEF Digit, p, m, z

\* A digit above a number is 0.
LEMMA HighDigit ==
  ASSUME NEW x \in Nat, NEW i \in Nat, x < 2 ^ i
  PROVE  Digit(x, i) = 0
<1> DEFINE p == 2 ^ i
<1>1. p \in Nat \ {0} /\ x \in 0 .. p - 1
  BY Powers
<1> HIDE DEF p
<1>2. (p * 0 + x) \div p = 0
  BY <1>1, Division
<1>3. p * 0 + x = x
  BY <1>1
<1>4. x \div p = 0
  BY <1>2, <1>3
<1> QED
  BY <1>4 DEF Digit, p

\* Numbers with the same low digits have the same remainder.
LEMMA SameRemainder ==
  ASSUME NEW x \in Nat, NEW y \in Nat, NEW n \in Nat,
         \A i \in 0 .. n - 1 : Digit(x, i) = Digit(y, i)
  PROVE  x % 2 ^ n = y % 2 ^ n
<1> DEFINE T == {k \in Nat : k <= n => x % 2 ^ k = y % 2 ^ k}
<1>1. 0 \in T
  <2>1. x % 1 = 0 /\ y % 1 = 0
    OBVIOUS
  <2> QED
    BY <2>1, Powers
<1>2. ASSUME NEW k \in T PROVE k + 1 \in T
  <2> SUFFICES ASSUME k + 1 <= n PROVE x % 2 ^ (k + 1) = y % 2 ^ (k + 1)
    OBVIOUS
  <2> DEFINE p == 2 ^ k
  <2>1. k \in Nat /\ x % p = y % p /\ k \in 0 .. n - 1
    OBVIOUS
  <2>2. p \in Nat \ {0} /\ 2 ^ (k + 1) = 2 * p
    BY <2>1, Powers
  <2>3. (x \div p) % 2 = (y \div p) % 2
    BY <2>1 DEF Digit
  <2> HIDE DEF p
  <2>4. /\ x % (2 * p) = (x % p) + ((x \div p) % 2) * p
        /\ y % (2 * p) = (y % p) + ((y \div p) % 2) * p
    BY <2>2, NextDigit
  <2>5. x % (2 * p) = y % (2 * p)
    BY <2>1, <2>3, <2>4
  <2> QED
    BY <2>2, <2>5
<1>3. T \in SUBSET Nat
  OBVIOUS
<1> HIDE DEF T
<1>4. n \in T
  BY <1>1, <1>2, <1>3, Induction
<1> QED
  BY <1>4 DEF T

\* There is a number with given digits.
LEMMA DigitsExist ==
  ASSUME NEW n \in Nat, NEW d \in [0 .. n - 1 -> {0, 1}]
  PROVE  \E x \in 0 .. 2 ^ n - 1 : \A i \in 0 .. n - 1 : Digit(x, i) = d[i]
<1> DEFINE Has(x, k) == \A i \in 0 .. k - 1 : Digit(x, i) = d[i]
           T == {k \in Nat : k <= n => \E x \in 0 .. 2 ^ k - 1 : Has(x, k)}
<1>1. 0 \in T
  <2>1. 0 \in 0 .. 2 ^ 0 - 1
    BY Powers
  <2>2. Has(0, 0)
    OBVIOUS
  <2> QED
    BY <2>1, <2>2
<1>2. ASSUME NEW k \in T PROVE k + 1 \in T
  <2> SUFFICES ASSUME k + 1 <= n PROVE \E x \in 0 .. 2 ^ (k + 1) - 1 : Has(x, k + 1)
    OBVIOUS
  <2>1. k \in Nat /\ k <= n /\ d[k] \in {0, 1}
    OBVIOUS
  <2>2. PICK x \in 0 .. 2 ^ k - 1 : Has(x, k)
    BY <2>1
  <2> DEFINE p == 2 ^ k
             e == d[k]
             y == p * e + x
  <2>3. p \in Nat \ {0} /\ 2 ^ (k + 1) = 2 * p /\ x \in 0 .. p - 1
    BY <2>1, Powers
  <2> HIDE DEF p
  <2>4. y \in Nat /\ y \in 0 .. 2 * p - 1
    BY <2>1, <2>3
  <2>5. y \div p = d[k] /\ y % p = x
    <3>1. e \in Nat
      BY <2>1
    <3> HIDE DEF e
    <3>2. y \div p = e /\ y % p = x
      BY <2>3, <3>1, Division
    <3> QED
      BY <3>2 DEF e
  <2>6. ASSUME NEW i \in 0 .. (k + 1) - 1 PROVE Digit(y, i) = d[i]
    <3> HIDE DEF y
    <3>1. CASE i = k
      BY <2>1, <2>5, <3>1 DEF Digit, p
    <3>2. CASE i # k
      <4>1. i \in 0 .. k - 1
        BY <2>1, <3>2
      <4>2. Digit(y % 2 ^ k, i) = Digit(y, i)
        BY <2>1, <2>4, <4>1, LowDigits
      <4> QED
        BY <2>2, <2>5, <4>1, <4>2 DEF p
    <3> QED
      BY <3>1, <3>2
  <2>7. Has(y, k + 1)
    BY <2>6
  <2> HIDE DEF y, Has
  <2> QED
    BY <2>3, <2>4, <2>7
<1>3. T \in SUBSET Nat
  OBVIOUS
<1> HIDE DEF T
<1>4. n \in T
  BY <1>1, <1>2, <1>3, Induction
<1> QED
  BY <1>4 DEF T

\* Number(d, n) has the digits d.
LEMMA NumberDigits ==
  ASSUME NEW n \in Nat, NEW d \in [0 .. n - 1 -> {0, 1}]
  PROVE  Number(d, n) \in 0 .. 2 ^ n - 1 /\ \A i \in 0 .. n - 1 : Digit(Number(d, n), i) = d[i]
<1> DEFINE Has(x) == \A i \in 0 .. n - 1 : Digit(x, i) = d[i]
           S == 0 .. 2 ^ n - 1
<1>1. \E x \in S : Has(x)
  BY DigitsExist
<1>2. Number(d, n) = CHOOSE x \in S : Has(x)
  BY DEF Number
<1> HIDE DEF Has, S
<1>3. Number(d, n) \in S /\ Has(Number(d, n))
  BY <1>1, <1>2
<1> QED
  BY <1>3 DEF Has, S

\* It is the remainder of every number with these low digits.
LEMMA NumberOf ==
  ASSUME NEW n \in Nat, NEW d \in [0 .. n - 1 -> {0, 1}], NEW x \in Nat,
         \A i \in 0 .. n - 1 : Digit(x, i) = d[i]
  PROVE  Number(d, n) = x % 2 ^ n
<1> DEFINE y == Number(d, n)
           p == 2 ^ n
<1>1. p \in Nat \ {0}
  BY Powers
<1>2. y \in 0 .. p - 1 /\ \A i \in 0 .. n - 1 : Digit(y, i) = d[i]
  BY NumberDigits
<1> HIDE DEF y
<1>3. y \in Nat
  BY <1>1, <1>2
<1>4. y % p = x % p
  <2>1. \A i \in 0 .. n - 1 : Digit(y, i) = Digit(x, i)
    BY <1>2
  <2> QED
    BY <1>3, <2>1, SameRemainder
<1> HIDE DEF p
<1>5. y % p = y
  BY <1>1, <1>2
<1> QED
  BY <1>4, <1>5 DEF y, p

----------------------------------------------------------------------------
(* Signed numbers.                                                         *)

\* A word and a doubleword.
LEMMA Sizes ==
  ASSUME NEW n \in {WORD, XLEN}
  PROVE  /\ n \in Nat \ {0} /\ n <= XLEN /\ XLEN \in Nat \ {0} /\ WORD < XLEN
         /\ WORD \in Nat \ {0} /\ XLEN = 2 * WORD
BY SizeAssumption, WidthAssumption

\* The highest digit tells the upper half of the numbers from the lower.
LEMMA TopDigit ==
  ASSUME NEW x \in Nat, NEW n \in Nat \ {0}
  PROVE  /\ 2 ^ (n - 1) \in Nat \ {0} /\ 2 ^ n = 2 * 2 ^ (n - 1)
         /\ x % 2 ^ n \in 0 .. 2 ^ n - 1
         /\ Digit(x, n - 1) \in {0, 1}
         /\ Digit(x, n - 1) = 1 <=> x % 2 ^ n >= 2 ^ (n - 1)
<1> DEFINE p == 2 ^ (n - 1)
           d == (x \div p) % 2
<1>1. n - 1 \in Nat /\ (n - 1) + 1 = n
  OBVIOUS
<1>2. p \in Nat \ {0} /\ 2 ^ ((n - 1) + 1) = 2 * p
  BY <1>1, Powers
<1>3. 2 ^ n = 2 * p
  BY <1>1, <1>2
<1>4. Digit(x, n - 1) = d /\ d \in {0, 1}
  BY <1>1, DigitType DEF Digit
<1> HIDE DEF p
<1>5. x % (2 * p) = (x % p) + d * p
  BY <1>2, NextDigit
<1>6. x % p \in 0 .. p - 1
  BY <1>2, Divided
<1>7. x % (2 * p) \in 0 .. 2 * p - 1
  BY <1>2
<1> HIDE DEF d
<1>8. d = 1 <=> x % (2 * p) >= p
  BY <1>2, <1>4, <1>5, <1>6
<1> QED
  BY <1>2, <1>3, <1>4, <1>7, <1>8 DEF p

\* A smaller power of two divides a greater one.
LEMMA PowersFactor ==
  ASSUME NEW n \in Nat, NEW k \in Nat, n <= k
  PROVE  \E c \in Nat \ {0} : 2 ^ k = c * 2 ^ n
<1>1. CASE n = k
  <2>1. 2 ^ k = 1 * 2 ^ n
    BY <1>1, Powers
  <2> QED
    BY <2>1
<1>2. CASE n < k
  <2>1. PICK c \in Nat : 2 ^ k = (2 * c) * 2 ^ n
    BY <1>2, PowersDivide
  <2>2. 2 ^ k \in Nat \ {0} /\ 2 ^ n \in Nat
    BY Powers
  <2>3. 2 * c \in Nat /\ 2 * c # 0
    BY <2>1, <2>2
  <2> QED
    BY <2>1, <2>3
<1> QED
  BY <1>1, <1>2

\* A number and its remainder by a multiple of p have the same remainder by p.
LEMMA Remainders ==
  ASSUME NEW x \in Nat, NEW p \in Nat \ {0}, NEW c \in Nat \ {0}
  PROVE  (x % (c * p)) % p = x % p
<1> DEFINE z == c * p
           q == x \div z
           m == x % z
           a == m \div p
           b == m % p
<1>1. z \in Nat \ {0}
  OBVIOUS
<1> HIDE DEF z
<1>2. q \in Nat /\ m \in Nat /\ x = z * q + m
  BY <1>1, Divided
<1> HIDE DEF q, m
<1>3. a \in Nat /\ b \in 0 .. p - 1 /\ m = p * a + b
  BY <1>2, Divided
<1> HIDE DEF a, b
<1> DEFINE e == c * q + a
<1>4. e \in Nat /\ x = p * e + b
  BY <1>1, <1>2, <1>3 DEF z
<1> HIDE DEF e
<1>5. (p * e + b) % p = b
  BY <1>3, <1>4, Division
<1>6. x % p = b
  BY <1>4, <1>5
<1> QED
  BY <1>6 DEF b, m, z

\* `as u64' of a negative number.
LEMMA Wrapped ==
  ASSUME NEW z \in Nat \ {0}, NEW y \in 1 .. z
  PROVE  (-y) % z = z - y
OBVIOUS

\* Sign extension: the low digits stay, and the others are the highest of them.
LEMMA SignedRegister ==
  ASSUME NEW x \in Nat, NEW n \in Nat \ {0}, n <= XLEN
  PROVE  /\ Unsigned(Signed(x, n)) \in Register
         /\ Unsigned(Signed(x, n)) % 2 ^ n = x % 2 ^ n
         /\ Digit(x, n - 1) = 0 => Unsigned(Signed(x, n)) = x % 2 ^ n
         /\ Digit(x, n - 1) = 1 => Unsigned(Signed(x, n)) = 2 ^ XLEN - (2 ^ n - (x % 2 ^ n))
<1> DEFINE z == 2 ^ n
           h == 2 ^ (n - 1)
           zz == 2 ^ XLEN
           u == x % z
           y == Unsigned(Signed(x, n))
<1>1. XLEN \in Nat
  BY SizeAssumption, WidthAssumption
<1>2. z \in Nat \ {0} /\ zz \in Nat \ {0} /\ z <= zz
  BY <1>1, Powers, PowersGrow
<1>3. /\ h \in Nat \ {0} /\ z = 2 * h /\ u \in 0 .. z - 1
      /\ Digit(x, n - 1) \in {0, 1} /\ (Digit(x, n - 1) = 1 <=> u >= h)
  BY TopDigit
<1>4. PICK c \in Nat \ {0} : zz = c * z
  BY <1>1, PowersFactor
<1>5. y = (IF u >= h THEN u - z ELSE u) % zz
  BY DEF Unsigned, Signed
<1> HIDE DEF z, h, zz, u, y
<1>6. CASE u >= h
  <2>1. z - u \in 1 .. zz /\ u - z = -(z - u)
    BY <1>2, <1>3
  <2>2. y = (-(z - u)) % zz
    BY <1>5, <1>6, <2>1
  <2>3. y = zz - (z - u)
    BY <1>2, <2>1, <2>2, Wrapped
  <2>4. y \in 0 .. zz - 1
    BY <1>2, <1>3, <2>1, <2>3
  <2>5. c - 1 \in Nat /\ y = z * (c - 1) + u
    BY <1>2, <1>3, <1>4, <2>3
  <2>6. (z * (c - 1) + u) % z = u
    BY <1>2, <1>3, <2>5, Division
  <2>7. y % z = u
    BY <2>5, <2>6
  <2> QED
    BY <1>3, <1>6, <2>3, <2>4, <2>7 DEF Register, z, zz, u, y
<1>7. CASE ~(u >= h)
  <2>1. u \in 0 .. zz - 1 /\ u % zz = u /\ u % z = u
    BY <1>2, <1>3
  <2>2. y = u
    BY <1>5, <1>7, <2>1
  <2> QED
    BY <1>3, <1>7, <2>1, <2>2 DEF Register, z, zz, u, y
<1> QED
  BY <1>6, <1>7

\* A sign-extended number repeats its top digit.
LEMMA SignedDigits ==
  ASSUME NEW x \in Nat, NEW n \in Nat \ {0}, n <= XLEN, NEW i \in 0 .. XLEN - 1
  PROVE  Digit(Unsigned(Signed(x, n)), i) = Digit(x, Least(i, n - 1))
<1> DEFINE y == Unsigned(Signed(x, n))
           z == 2 ^ n
           zz == 2 ^ XLEN
           h == 2 ^ (n - 1)
           u == x % z
           p == 2 ^ i
           t == Digit(x, n - 1)
<1>1. XLEN \in Nat /\ i \in Nat /\ i < XLEN /\ n - 1 \in Nat
  BY SizeAssumption, WidthAssumption
<1>2. z \in Nat \ {0} /\ zz \in Nat \ {0} /\ p \in Nat \ {0}
  BY <1>1, Powers
<1>3. y \in 0 .. zz - 1 /\ y % z = u /\ (t = 0 => y = u) /\ (t = 1 => y = zz - (z - u))
  BY SignedRegister DEF Register
<1>4. h \in Nat \ {0} /\ z = 2 * h /\ u \in 0 .. z - 1 /\ t \in {0, 1} /\ (t = 1 <=> u >= h)
  BY TopDigit
<1>5. y \in Nat
  BY <1>2, <1>3
<1>6. CASE i < n
  <2>1. i \in 0 .. n - 1 /\ Least(i, n - 1) = i
    BY <1>1, <1>6 DEF Least
  <2> HIDE DEF y
  <2>2. Digit(y % 2 ^ n, i) = Digit(y, i) /\ Digit(x % 2 ^ n, i) = Digit(x, i)
    BY <1>5, <2>1, LowDigits
  <2> QED
    BY <1>3, <2>1, <2>2 DEF y, u, z
<1>7. CASE ~(i < n)
  <2>1. Least(i, n - 1) = n - 1
    BY <1>1, <1>7 DEF Least
  <2>2. n <= i /\ z <= p
    BY <1>1, <1>7, PowersGrow
  <2>3. PICK c \in Nat : zz = (2 * c) * p
    BY <1>1, PowersDivide
  <2> HIDE DEF y, z, zz, h, u, p, t
  <2>4. CASE t = 0
    <3>1. y < p
      BY <1>2, <1>3, <1>4, <2>2, <2>4
    <3>2. Digit(y, i) = 0
      BY <1>1, <1>5, <3>1, HighDigit DEF p
    <3> QED
      BY <2>1, <2>4, <3>2 DEF t, y
  <2>5. CASE t = 1
    <3> DEFINE e == 2 * c - 1
               r == p - (z - u)
    <3>1. c # 0
      BY <1>2, <2>3
    <3>2. e \in Nat /\ e % 2 = 1 /\ r \in 0 .. p - 1
      BY <1>2, <1>4, <2>2, <3>1
    <3>3. y = p * e + r
      <4>1. p * e = (2 * c) * p - p
        BY <1>2
      <4> QED
        BY <1>2, <1>3, <1>4, <2>3, <2>5, <4>1
    <3> HIDE DEF e, r
    <3>4. (p * e + r) \div p = e
      BY <1>2, <3>2, Division
    <3>5. Digit(y, i) = 1
      BY <3>2, <3>3, <3>4 DEF Digit, p
    <3> QED
      BY <2>1, <2>5, <3>5 DEF t, y
  <2> QED
    BY <1>4, <2>4, <2>5
<1> QED
  BY <1>6, <1>7

----------------------------------------------------------------------------
(* Loads and stores.                                                       *)

\* An aligned access stays inside memory.
LEMMA AlignedInside ==
  ASSUME NEW a \in DOMAIN Phys, NEW n \in {WORD, XLEN}, a % n = 0
  PROVE  /\ Phys[a] \in Nat
         /\ \A i \in 0 .. n - 1 : Phys[a] + i \in Address
<1> DEFINE d == XLEN
           b == Phys[a]
           r == a % d
           j == a \div d
           q == b \div d
           m == MemSize \div d
<1>1. a \in Nat /\ b \in Address /\ MemSize \in Nat /\ b % d = r
  BY GuestAssumption, SizeAssumption, WidthAssumption
<1>2. d \in Nat \ {0} /\ d = 2 * WORD /\ WORD \in Nat \ {0}
  BY Sizes
<1>3. b \in Nat /\ b < MemSize
  BY <1>1 DEF Address
<1>4. r \in 0 .. d - 1 /\ j \in Nat /\ a = d * j + r /\ q \in Nat /\ b = d * q + r
  <2> HIDE DEF d, b
  <2>1. r \in 0 .. d - 1 /\ j \in Nat /\ a = d * j + r
    BY <1>1, <1>2, Divided
  <2>2. b \in Nat /\ d \in Nat \ {0}
    BY <1>2, <1>3
  <2>3. q \in Nat /\ b = d * q + (b % d)
    BY <2>2, Divided
  <2> QED
    BY <1>1, <2>1, <2>3
<1>5. m \in Nat /\ MemSize = d * m
  <2>1. MemSize % d = 0
    BY SizeAssumption, WidthAssumption
  <2> HIDE DEF d
  <2>2. m \in Nat /\ MemSize = d * m + (MemSize % d)
    BY <1>1, <1>2, Divided
  <2> HIDE DEF m
  <2> QED
    BY <1>2, <2>1, <2>2
<1> HIDE DEF d, b, r, j, q, m
<1>6. d * (q + 1) <= MemSize
  <2>1. q + 1 <= m
    <3> SUFFICES ASSUME m <= q PROVE FALSE
      BY <1>4, <1>5
    <3>1. d * m <= d * q
      BY <1>2, <1>4, <1>5
    <3> QED
      BY <1>2, <1>3, <1>4, <1>5, <3>1
  <2> QED
    BY <1>2, <1>4, <1>5, <2>1
<1>7. r + n <= d
  <2>1. CASE n = XLEN
    <3>1. r = 0
      BY <2>1 DEF r, d
    <3> QED
      BY <1>2, <2>1, <3>1 DEF d
  <2>2. CASE n = WORD
    <3>1. CASE r < WORD
      BY <1>2, <1>4, <2>2, <3>1
    <3>2. CASE ~(r < WORD)
      <4> DEFINE w == WORD
                 k == 2 * j + 1
                 l == r - WORD
      <4>1. k \in Nat /\ l \in 0 .. w - 1 /\ w \in Nat \ {0}
        BY <1>2, <1>4, <3>2
      <4>2. a = w * k + l
        BY <1>2, <1>4
      <4> HIDE DEF w, k, l
      <4>3. (w * k + l) % w = l
        BY <4>1, Division
      <4>4. l = 0
        BY <2>2, <4>2, <4>3 DEF w
      <4> QED
        BY <1>2, <1>4, <2>2, <4>4 DEF l
    <3> QED
      BY <3>1, <3>2
  <2> QED
    BY <2>1, <2>2
<1>8. n \in Nat /\ b + n <= MemSize
  <2>1. n \in Nat
    BY Sizes
  <2>2. d * (q + 1) = d * q + d /\ d * q \in Nat
    BY <1>2, <1>4
  <2> QED
    BY <1>1, <1>2, <1>4, <1>6, <1>7, <2>1, <2>2
<1> QED
  BY <1>1, <1>3, <1>8 DEF Address, b

\* What is loaded has the digits that are in memory.
LEMMA LoadDigits ==
  ASSUME mem \in [Address -> {0, 1}],
         NEW a \in DOMAIN Phys, NEW n \in {WORD, XLEN}, a % n = 0
  PROVE  /\ Load(a, n) \in 0 .. 2 ^ n - 1
         /\ \A i \in 0 .. n - 1 : Digit(Load(a, n), i) = mem[Phys[a] + i]
<1> DEFINE d == [i \in 0 .. n - 1 |-> mem[Phys[a] + i]]
<1>1. d \in [0 .. n - 1 -> {0, 1}] /\ n \in Nat
  BY AlignedInside, Sizes
<1>2. Load(a, n) = Number(d, n) /\ \A i \in 0 .. n - 1 : d[i] = mem[Phys[a] + i]
  BY DEF Load
<1> HIDE DEF d
<1> QED
  BY <1>1, <1>2, NumberDigits

\* A load after a store returns what was stored, as far as it fits.
LEMMA StoreLoad ==
  ASSUME NEW a \in DOMAIN Phys, NEW n \in {WORD, XLEN}, a % n = 0, NEW val \in Nat,
         mem' = Stored(Bytes(a, n), Phys[a], val)
  PROVE  Load(a, n)' = val % 2 ^ n
<1> DEFINE d == [i \in 0 .. n - 1 |-> mem'[Phys[a] + i]]
<1>1. n \in Nat
  BY Sizes
<1>2. ASSUME NEW i \in 0 .. n - 1 PROVE d[i] = Digit(val, i)
  <2>1. Phys[a] \in Nat /\ Phys[a] + i \in Address
    BY AlignedInside
  <2>2. Phys[a] + i \in Bytes(a, n) /\ (Phys[a] + i) - Phys[a] = i
    BY <1>1, <2>1 DEF Bytes
  <2>3. mem'[Phys[a] + i] = Digit(val, (Phys[a] + i) - Phys[a])
    BY <2>1, <2>2 DEF Stored
  <2> QED
    BY <2>2, <2>3
<1>3. Load(a, n)' = Number(d, n)
  BY DEF Load
<1>4. d \in [0 .. n - 1 -> {0, 1}]
  <2>1. \A i \in 0 .. n - 1 : Digit(val, i) \in {0, 1}
    BY <1>1, DigitType
  <2> QED
    BY <1>2, <2>1
<1> HIDE DEF d
<1> QED
  BY <1>1, <1>2, <1>3, <1>4, NumberOf

----------------------------------------------------------------------------
(* What AMOs compute.                                                      *)

\* The digits of a bitwise combination are those of its operands combined.
LEMMA BitwiseDigits ==
  ASSUME NEW f \in [{0, 1} -> [{0, 1} -> {0, 1}]], NEW x \in Nat, NEW y \in Nat
  PROVE  /\ Bitwise(f, x, y) \in Register
         /\ \A i \in 0 .. XLEN - 1 : Digit(Bitwise(f, x, y), i) = f[Digit(x, i)][Digit(y, i)]
<1> DEFINE d == [i \in 0 .. XLEN - 1 |-> f[Digit(x, i)][Digit(y, i)]]
<1>1. XLEN \in Nat
  BY SizeAssumption, WidthAssumption
<1>2. \A i \in 0 .. XLEN - 1 : Digit(x, i) \in {0, 1} /\ Digit(y, i) \in {0, 1}
  BY <1>1, DigitType
<1>3. d \in [0 .. XLEN - 1 -> {0, 1}]
  BY <1>2
<1>4. Bitwise(f, x, y) = Number(d, XLEN)
      /\ \A i \in 0 .. XLEN - 1 : d[i] = f[Digit(x, i)][Digit(y, i)]
  BY DEF Bitwise
<1> HIDE DEF d
<1> QED
  BY <1>1, <1>3, <1>4, NumberDigits DEF Register

\* The three functions of bits.
LEMMA BitFunctions ==
  /\ Xor \in [{0, 1} -> [{0, 1} -> {0, 1}]] /\ \A p, q \in {0, 1} : Xor[p][q] = 1 <=> p # q
  /\ Or \in [{0, 1} -> [{0, 1} -> {0, 1}]] /\ \A p, q \in {0, 1} : Or[p][q] = 1 <=> p = 1 \/ q = 1
  /\ And \in [{0, 1} -> [{0, 1} -> {0, 1}]] /\ \A p, q \in {0, 1} : And[p][q] = 1 <=> p = 1 /\ q = 1
BY DEF Xor, Or, And, Least, Greatest

\* Signed numbers are in the order that their digits tell.
LEMMA SignedOrder ==
  ASSUME NEW x \in Nat, NEW y \in Nat, NEW n \in Nat \ {0}
  PROVE  /\ Signed(x, n) \in Int /\ Signed(y, n) \in Int
         /\ Signed(x, n) <= Signed(y, n) <=> Below(x, y, n)
<1> DEFINE z == 2 ^ n
           h == 2 ^ (n - 1)
           u == x % z
           v == y % z
           s == Digit(x, n - 1)
           t == Digit(y, n - 1)
<1>1. /\ h \in Nat \ {0} /\ z = 2 * h
      /\ u \in 0 .. z - 1 /\ s \in {0, 1} /\ (s = 1 <=> u >= h)
      /\ v \in 0 .. z - 1 /\ t \in {0, 1} /\ (t = 1 <=> v >= h)
  BY TopDigit
<1>2. /\ Signed(x, n) = IF u >= h THEN u - z ELSE u
      /\ Signed(y, n) = IF v >= h THEN v - z ELSE v
  BY DEF Signed
<1>3. Below(x, y, n) = IF s = t THEN u <= v ELSE s = 1
  BY DEF Below
<1> HIDE DEF z, h, u, v, s, t
<1>4. (Signed(x, n) = u /\ u < h /\ s = 0) \/ (Signed(x, n) = u - z /\ u >= h /\ s = 1)
  BY <1>1, <1>2
<1>5. (Signed(y, n) = v /\ v < h /\ t = 0) \/ (Signed(y, n) = v - z /\ v >= h /\ t = 1)
  BY <1>1, <1>2
<1>6. Below(x, y, n) <=> (s = t /\ u <= v) \/ (s # t /\ s = 1)
  BY <1>3
<1> HIDE DEF Below, Signed
<1> QED
  BY <1>1, <1>4, <1>5, <1>6

\* Only the low digits matter.
LEMMA BelowLow ==
  ASSUME NEW x \in Nat, NEW y \in Nat, NEW n \in Nat \ {0}
  PROVE  /\ Below(x % 2 ^ n, y, n) <=> Below(x, y, n)
         /\ Below(y, x % 2 ^ n, n) <=> Below(y, x, n)
<1> DEFINE z == 2 ^ n
           u == x % z
<1>1. n \in Nat /\ n - 1 \in 0 .. n - 1
  OBVIOUS
<1>2. Digit(u, n - 1) = Digit(x, n - 1)
  BY <1>1, LowDigits
<1>3. z \in Nat \ {0}
  BY Powers
<1>4. u % z = x % z
  <2> HIDE DEF z
  <2>1. u \in 0 .. z - 1
    BY <1>3, Divided
  <2> QED
    BY <1>3, <2>1
<1> HIDE DEF u
<1>5. /\ Below(u, y, n) <=> Below(x, y, n)
      /\ Below(y, u, n) <=> Below(y, x, n)
  BY <1>2, <1>4 DEF Below
<1> QED
  BY <1>5 DEF u

\* The result of a cast to u64 is a register.
LEMMA UnsignedType ==
  ASSUME NEW x \in Int
  PROVE  Unsigned(x) \in Register
<1> DEFINE z == 2 ^ XLEN
<1>1. z \in Nat \ {0}
  BY SizeAssumption, WidthAssumption, Powers
<1> HIDE DEF z
<1>2. x % z \in 0 .. z - 1
  BY <1>1
<1> QED
  BY <1>2 DEF Unsigned, Register, z

\* An AMO stores a value that fits a register.
LEMMA AmoValueType ==
  ASSUME NEW op \in AmoOps, NEW n \in {WORD, XLEN},
         NEW t \in 0 .. 2 ^ n - 1, NEW val \in Register
  PROVE  AmoValue(op, n, t, val) \in Register
<1> DEFINE z == 2 ^ n
           zz == 2 ^ XLEN
<1>1. n \in Nat \ {0} /\ n <= XLEN /\ XLEN \in Nat
  BY Sizes
<1>2. z \in Nat \ {0} /\ zz \in Nat \ {0} /\ z <= zz
  BY <1>1, Powers, PowersGrow
<1>3. t \in Nat /\ val \in Nat
  BY <1>2 DEF Register
<1>4. CASE op = "add"
  BY <1>3, <1>4, UnsignedType DEF AmoValue
<1>5. CASE op = "swap"
  BY <1>5 DEF AmoValue
<1>6. CASE op = "xor"
  BY <1>3, <1>6, BitwiseDigits, BitFunctions DEF AmoValue
<1>7. CASE op = "or"
  BY <1>3, <1>7, BitwiseDigits, BitFunctions DEF AmoValue
<1>8. CASE op = "and"
  BY <1>3, <1>8, BitwiseDigits, BitFunctions DEF AmoValue
<1>9. Signed(t, n) \in Int /\ Signed(val, n) \in Int
  BY <1>1, <1>3, SignedOrder
<1>10. CASE op = "min"
  BY <1>9, <1>10, UnsignedType DEF AmoValue, Least
<1>11. CASE op = "max"
  BY <1>9, <1>11, UnsignedType DEF AmoValue, Greatest
<1>12. t % z \in Register /\ val % z \in Register
  <2> HIDE DEF z, zz
  <2>1. t % z \in 0 .. z - 1 /\ val % z \in 0 .. z - 1
    BY <1>2, <1>3, Divided
  <2> QED
    BY <1>2, <2>1 DEF Register, zz
<1>13. CASE op = "minu"
  BY <1>12, <1>13 DEF AmoValue, Least
<1>14. CASE op = "maxu"
  BY <1>12, <1>14 DEF AmoValue, Greatest
<1> QED
  BY <1>4, <1>5, <1>6, <1>7, <1>8, <1>10, <1>11, <1>13, <1>14 DEF AmoOps

\* Remainders of a sum.
LEMMA SumRemainder ==
  ASSUME NEW x \in Nat, NEW y \in Nat, NEW p \in Nat \ {0}
  PROVE  (x + (y % p)) % p = (x + y) % p
<1> DEFINE q == y \div p
           r == y % p
           m == x + r
           a == m \div p
           b == m % p
           e == q + a
<1>1. q \in Nat /\ r \in 0 .. p - 1 /\ y = p * q + r
  BY Divided
<1> HIDE DEF q, r
<1>2. m \in Nat
  BY <1>1
<1>3. a \in Nat /\ b \in 0 .. p - 1 /\ m = p * a + b
  BY <1>2, Divided
<1> HIDE DEF a, b
<1>4. e \in Nat /\ x + y = p * e + b
  BY <1>1, <1>3
<1> HIDE DEF e
<1>5. (p * e + b) % p = b
  BY <1>3, <1>4, Division
<1>6. (x + y) % p = b
  BY <1>4, <1>5
<1> QED
  BY <1>6 DEF b, r

\* The low n bytes of it are what the manual says.
LEMMA AmoIsIsa ==
  ASSUME NEW op \in AmoOps, NEW n \in {WORD, XLEN},
         NEW t \in 0 .. 2 ^ n - 1, NEW val \in Register
  PROVE  AmoIsa(op, n, t, val, AmoValue(op, n, t, val) % 2 ^ n)
<1> DEFINE z == 2 ^ n
           zz == 2 ^ XLEN
           v == AmoValue(op, n, t, val)
           new == v % z
<1>1. n \in Nat \ {0} /\ n <= XLEN /\ XLEN \in Nat
  BY Sizes
<1>2. z \in Nat \ {0} /\ zz \in Nat \ {0} /\ z <= zz
  BY <1>1, Powers, PowersGrow
<1>3. t \in Nat /\ val \in Nat
  BY <1>2 DEF Register
<1>4. PICK c \in Nat \ {0} : zz = c * z
  BY <1>1, PowersFactor
<1>5. t % z = t /\ val % z \in 0 .. z - 1
  <2>1. t \in 0 .. z - 1
    OBVIOUS
  <2> HIDE DEF z
  <2>2. t % z = t
    BY <1>2, <2>1
  <2>3. val % z \in 0 .. z - 1
    BY <1>2, <1>3, Divided
  <2> QED
    BY <2>2, <2>3
<1>6. CASE op = "add"
  <2> DEFINE y == t + val
  <2>1. v = y % zz /\ y \in Nat
    BY <1>3, <1>6 DEF AmoValue, Unsigned
  <2> HIDE DEF z, zz, v
  <2>2. new = y % z
    <3> HIDE DEF y
    <3>1. (y % (c * z)) % z = y % z
      BY <1>2, <2>1, Remainders
    <3> QED
      BY <1>4, <2>1, <3>1
  <2>3. new = (t + (val % z)) % z
    BY <1>2, <1>3, <2>2, SumRemainder
  <2>4. new = ((t % z) + (val % z)) % z
    BY <1>5, <2>3
  <2> HIDE DEF new
  <2>5. AmoIsa(op, n, t, val, new)
    BY <1>6, <2>4 DEF AmoIsa, z
  <2> QED
    BY <2>5 DEF new, z, v
<1>7. CASE op = "swap"
  BY <1>7 DEF AmoValue, AmoIsa
<1>8. \A i \in 0 .. n - 1 :
         /\ i \in 0 .. XLEN - 1 /\ Digit(new, i) = Digit(v, i)
         /\ Digit(t, i) \in {0, 1} /\ Digit(val, i) \in {0, 1}
  <2>1. v \in Nat
    BY <1>2, AmoValueType DEF Register
  <2> HIDE DEF v
  <2>2. ASSUME NEW i \in 0 .. n - 1 PROVE Digit(v % 2 ^ n, i) = Digit(v, i)
    BY <1>1, <2>1, LowDigits
  <2> QED
    BY <1>1, <1>3, <2>2, DigitType
<1>9. CASE op = "xor"
  <2>1. v = Bitwise(Xor, t, val)
    BY <1>9 DEF AmoValue
  <2>2. \A i \in 0 .. n - 1 : Digit(v, i) = Xor[Digit(t, i)][Digit(val, i)]
    BY <1>3, <1>8, <2>1, BitwiseDigits, BitFunctions
  <2> HIDE DEF v, new
  <2>3. \A i \in 0 .. n - 1 : Digit(new, i) = 1 <=> Digit(t, i) # Digit(val, i)
    BY <1>8, <2>2, BitFunctions
  <2>4. AmoIsa(op, n, t, val, new)
    BY <1>9, <2>3 DEF AmoIsa
  <2> QED
    BY <2>4 DEF new, v
<1>10. CASE op = "or"
  <2>1. v = Bitwise(Or, t, val)
    BY <1>10 DEF AmoValue
  <2>2. \A i \in 0 .. n - 1 : Digit(v, i) = Or[Digit(t, i)][Digit(val, i)]
    BY <1>3, <1>8, <2>1, BitwiseDigits, BitFunctions
  <2> HIDE DEF v, new
  <2>3. \A i \in 0 .. n - 1 : Digit(new, i) = 1 <=> Digit(t, i) = 1 \/ Digit(val, i) = 1
    BY <1>8, <2>2, BitFunctions
  <2>4. AmoIsa(op, n, t, val, new)
    BY <1>10, <2>3 DEF AmoIsa
  <2> QED
    BY <2>4 DEF new, v
<1>11. CASE op = "and"
  <2>1. v = Bitwise(And, t, val)
    BY <1>11 DEF AmoValue
  <2>2. \A i \in 0 .. n - 1 : Digit(v, i) = And[Digit(t, i)][Digit(val, i)]
    BY <1>3, <1>8, <2>1, BitwiseDigits, BitFunctions
  <2> HIDE DEF v, new
  <2>3. \A i \in 0 .. n - 1 : Digit(new, i) = 1 <=> Digit(t, i) = 1 /\ Digit(val, i) = 1
    BY <1>8, <2>2, BitFunctions
  <2>4. AmoIsa(op, n, t, val, new)
    BY <1>11, <2>3 DEF AmoIsa
  <2> QED
    BY <2>4 DEF new, v
<1>12. ASSUME NEW w \in {t, val}, v = Unsigned(Signed(w, n))
       PROVE  /\ new \in {t % z, val % z}
              /\ \A y \in {t, val} : /\ Below(new, y, n) <=> Signed(w, n) <= Signed(y, n)
                                     /\ Below(y, new, n) <=> Signed(y, n) <= Signed(w, n)
  <2>1. w \in Nat
    BY <1>3
  <2>2. new = w % z
    BY <1>1, <1>12, <2>1, SignedRegister
  <2> HIDE DEF new
  <2>3. ASSUME NEW y \in {t, val}
        PROVE  /\ Below(new, y, n) <=> Signed(w, n) <= Signed(y, n)
               /\ Below(y, new, n) <=> Signed(y, n) <= Signed(w, n)
    <3>1. y \in Nat
      BY <1>3
    <3>2. (Below(new, y, n) <=> Below(w, y, n)) /\ (Below(y, new, n) <=> Below(y, w, n))
      BY <1>1, <2>1, <2>2, <3>1, BelowLow
    <3> QED
      BY <1>1, <2>1, <3>1, <3>2, SignedOrder
  <2> QED
    BY <2>2, <2>3
<1>13. Signed(t, n) \in Int /\ Signed(val, n) \in Int
  BY <1>1, <1>3, SignedOrder
<1>14. CASE op = "min"
  <2>1. PICK w \in {t, val} : /\ Least(Signed(t, n), Signed(val, n)) = Signed(w, n)
                              /\ \A y \in {t, val} : Signed(w, n) <= Signed(y, n)
    BY <1>13 DEF Least
  <2>2. v = Unsigned(Signed(w, n))
    BY <1>14, <2>1 DEF AmoValue
  <2>3. new \in {t % z, val % z} /\ Below(new, t, n) /\ Below(new, val, n)
    BY <1>12, <2>1, <2>2
  <2> HIDE DEF new
  <2>4. AmoIsa(op, n, t, val, new)
    BY <1>14, <2>3 DEF AmoIsa
  <2> QED
    BY <2>4 DEF new
<1>15. CASE op = "max"
  <2>1. PICK w \in {t, val} : /\ Greatest(Signed(t, n), Signed(val, n)) = Signed(w, n)
                              /\ \A y \in {t, val} : Signed(y, n) <= Signed(w, n)
    BY <1>13 DEF Greatest
  <2>2. v = Unsigned(Signed(w, n))
    BY <1>15, <2>1 DEF AmoValue
  <2>3. new \in {t % z, val % z} /\ Below(t, new, n) /\ Below(val, new, n)
    BY <1>12, <2>1, <2>2
  <2> HIDE DEF new
  <2>4. AmoIsa(op, n, t, val, new)
    BY <1>15, <2>3 DEF AmoIsa
  <2> QED
    BY <2>4 DEF new
<1>16. t % z \in 0 .. z - 1 /\ (val % z) % z = val % z /\ (t % z) % z = t % z
  <2> HIDE DEF z
  <2>1. t % z \in 0 .. z - 1
    BY <1>2, <1>3, Divided
  <2> QED
    BY <1>2, <1>5, <2>1
<1>17. CASE op = "minu"
  <2>1. v = Least(t % z, val % z)
    BY <1>17 DEF AmoValue
  <2> HIDE DEF v, z
  <2>2. new \in {t % z, val % z} /\ new <= t % z /\ new <= val % z
    BY <1>2, <1>5, <1>16, <2>1 DEF Least
  <2> HIDE DEF new
  <2>3. AmoIsa(op, n, t, val, new)
    BY <1>17, <2>2 DEF AmoIsa, z
  <2> QED
    BY <2>3 DEF new, z, v
<1>18. CASE op = "maxu"
  <2>1. v = Greatest(t % z, val % z)
    BY <1>18 DEF AmoValue
  <2> HIDE DEF v, z
  <2>2. new \in {t % z, val % z} /\ new >= t % z /\ new >= val % z
    BY <1>2, <1>5, <1>16, <2>1 DEF Greatest
  <2> HIDE DEF new
  <2>3. AmoIsa(op, n, t, val, new)
    BY <1>18, <2>2 DEF AmoIsa, z
  <2> QED
    BY <2>3 DEF new, z, v
<1> QED
  BY <1>6, <1>7, <1>9, <1>10, <1>11, <1>14, <1>15, <1>17, <1>18 DEF AmoOps

----------------------------------------------------------------------------
(* Types and AMOs.                                                         *)

\* rd gets a value that fits, with the digits of what was loaded and its sign.
LEMMA ExtendedDigits ==
  ASSUME NEW n \in {WORD, XLEN}, NEW t \in 0 .. 2 ^ n - 1
  PROVE  /\ Extended(t, n) \in Register
         /\ \A i \in 0 .. XLEN - 1 : Digit(Extended(t, n), i) = Digit(t, Least(i, n - 1))
<1>1. n \in Nat \ {0} /\ n <= XLEN /\ XLEN \in Nat \ {0} /\ WORD < XLEN
      /\ WORD \in Nat
  BY Sizes
<1>2. t \in Nat
  BY <1>1, Powers
<1>3. CASE n = WORD
  <2>1. Extended(t, n) = Unsigned(Signed(t, n))
    BY <1>3 DEF Extended
  <2> QED
    BY <1>1, <1>2, <2>1, SignedRegister, SignedDigits
<1>4. CASE n = XLEN
  <2>1. Extended(t, n) = t
    BY <1>1, <1>4 DEF Extended
  <2>2. \A i \in 0 .. XLEN - 1 : Least(i, n - 1) = i
    BY <1>1, <1>4 DEF Least
  <2> QED
    BY <1>4, <2>1, <2>2 DEF Register
<1> QED
  BY <1>3, <1>4

\* A store leaves bytes in memory.
LEMMA StoredType ==
  ASSUME TypeOK, NEW p \in Nat, NEW k \in Nat, NEW s, s \subseteq p .. p + k - 1, NEW val \in Nat
  PROVE  Stored(s, p, val) \in [Address -> {0, 1}]
<1>1. ASSUME NEW b \in Address, b \in s PROVE Digit(val, b - p) \in {0, 1}
  <2>1. b - p \in Nat
    BY <1>1
  <2> QED
    BY <2>1, DigitType
<1> QED
  BY <1>1 DEF Stored, TypeOK

\* A write of the hart keeps the types, whatever rd becomes.
LEMMA WriteType ==
  ASSUME TypeOK, NEW a \in DOMAIN Phys, NEW n \in {1, WORD, XLEN}, NEW val \in Register,
         write(a, n, val)
  PROVE  /\ mem' \in [Address -> {0, 1}] /\ reservation_set' \in [LrAddrs -> 0 .. MaxCopies]
         /\ trap' \in {"none", "StoreAMOAccessFault"} /\ linked' \subseteq LrAddrs
<1>1. Phys[a] \in Nat /\ n \in Nat /\ val \in Nat
  BY GuestAssumption, SizeAssumption, WidthAssumption DEF Address, Register
<1>2. Stored(Bytes(a, n), Phys[a], val) \in [Address -> {0, 1}]
  BY <1>1, StoredType DEF Bytes
<1>3. Dropped(a) \in [LrAddrs -> 0 .. MaxCopies]
  <2>1. 0 \in 0 .. MaxCopies
    BY GuestAssumption
  <2> QED
    BY <2>1 DEF Dropped, TypeOK
<1> HIDE DEF Stored, Dropped, Bytes
<1> QED
  BY <1>2, <1>3 DEF write, TypeOK

\* The types hold initially ...
LEMMA TypeInit == Init => TypeOK
<1>1. 0 \in Register /\ 0 \in 0 .. MaxCopies
  BY GuestAssumption, SizeAssumption, WidthAssumption, Powers DEF Register
<1> QED
  BY <1>1 DEF Init, TypeOK

\* ... and every step keeps them.
LEMMA TypeNext == TypeOK /\ [Next]_vars => TypeOK'
<1> SUFFICES ASSUME TypeOK, [Next]_vars PROVE TypeOK'
  OBVIOUS
<1>1. 0 \in Register /\ 1 \in Register
  <2>1. XLEN - 1 \in Nat /\ (XLEN - 1) + 1 = XLEN
    BY SizeAssumption, WidthAssumption
  <2> DEFINE h == 2 ^ (XLEN - 1)
  <2>2. h \in Nat \ {0} /\ 2 ^ ((XLEN - 1) + 1) = 2 * h
    BY <2>1, Powers
  <2> HIDE DEF h
  <2>3. 2 ^ XLEN = 2 * h
    BY <2>1, <2>2
  <2> QED
    BY <2>2, <2>3 DEF Register
<1>2. /\ AmoAddrs \subseteq DOMAIN Phys /\ LrAddrs \subseteq DOMAIN Phys
      /\ StoreAddrs \subseteq DOMAIN Phys
      /\ AmoSizes \subseteq {WORD, XLEN} /\ LrSizes \subseteq {WORD, XLEN}
      /\ StoreSizes \subseteq {1, WORD, XLEN} /\ Values \subseteq Register
      /\ Ops \subseteq AmoOps
  BY GuestAssumption
<1>3. mem \in [Address -> {0, 1}] /\ rd \in Register
  BY DEF TypeOK
<1>4. ASSUME NEW e \in {"LoadAddressMisaligned", "StoreAMOAddressMisaligned"}, Misaligned(e)
      PROVE  TypeOK'
  BY <1>4 DEF Misaligned, TypeOK
<1>5. ASSUME NEW a \in LrAddrs, NEW n \in LrSizes, lr(a, n) PROVE TypeOK'
  <2>1. CASE a % n # 0
    BY <1>4, <1>5, <2>1 DEF lr
  <2>2. CASE a % n = 0
    <3>1. Extended(Load(a, n), n) \in Register
      BY <1>2, <1>3, <2>2, LoadDigits, ExtendedDigits
    <3>2. rd' \in Register
      BY <1>5, <2>2, <3>1 DEF lr
    <3>3. mem' \in [Address -> {0, 1}] /\ trap' = "none"
      BY <1>3, <1>5, <2>2 DEF lr
    <3>4. reservation_set' \in [LrAddrs -> 0 .. MaxCopies] /\ linked' \subseteq LrAddrs
      <4>1. /\ reservation_set[a] \in 0 .. MaxCopies /\ reservation_set[a] < MaxCopies
            /\ reservation_set' = [reservation_set EXCEPT ![a] = @ + 1]
            /\ linked' = linked \cup {a} /\ MaxCopies \in Nat
        BY <1>5, <2>2, GuestAssumption DEF lr, TypeOK
      <4>2. reservation_set[a] + 1 \in 0 .. MaxCopies
        BY <4>1
      <4> QED
        BY <4>1, <4>2 DEF TypeOK
    <3> QED
      BY <3>2, <3>3, <3>4 DEF TypeOK
  <2> QED
    BY <2>1, <2>2
<1>6. ASSUME NEW a \in LrAddrs, NEW n \in LrSizes, NEW val \in Values, sc(a, n, val) PROVE TypeOK'
  <2>1. CASE a % n # 0
    BY <1>4, <1>6, <2>1 DEF sc
  <2>2. CASE a % n = 0 /\ Contains(a)
    <3>1. write(a, n, val) /\ rd' \in {0, rd}
      BY <1>6, <2>2 DEF sc
    <3> QED
      BY <1>1, <1>2, <1>3, <3>1, WriteType DEF TypeOK
  <2>3. CASE a % n = 0 /\ ~Contains(a)
    BY <1>1, <1>6, <2>3 DEF sc, TypeOK
  <2> QED
    BY <2>1, <2>2, <2>3
<1>7. ASSUME NEW op \in Ops, NEW a \in AmoAddrs, NEW n \in AmoSizes, NEW val \in Values,
             amo(op, a, n, val)
      PROVE  TypeOK'
  <2>1. CASE a % n # 0
    BY <1>4, <1>7, <2>1 DEF amo
  <2>2. CASE a % n = 0
    <3> DEFINE t == Load(a, n)
    <3>1. t \in 0 .. 2 ^ n - 1
      BY <1>2, <1>3, <2>2, LoadDigits
    <3>2. write(a, n, AmoValue(op, n, t, val)) /\ rd' \in {Extended(t, n), rd}
      BY <1>7, <2>2 DEF amo
    <3> HIDE DEF t
    <3>3. AmoValue(op, n, t, val) \in Register /\ Extended(t, n) \in Register
      BY <1>2, <3>1, AmoValueType, ExtendedDigits
    <3>4. a \in DOMAIN Phys /\ n \in {1, WORD, XLEN}
      BY <1>2
    <3> QED
      BY <1>3, <3>2, <3>3, <3>4, WriteType DEF TypeOK
  <2> QED
    BY <2>1, <2>2
<1>8. ASSUME NEW a \in StoreAddrs, NEW n \in StoreSizes, NEW val \in Values, store(a, n, val)
      PROVE  TypeOK'
  <2>1. write(a, n, val) /\ rd' = rd
    BY <1>8 DEF store
  <2> QED
    BY <1>2, <1>3, <2>1, WriteType DEF TypeOK
<1>9. ASSUME NEW a \in DmaAddrs, NEW val \in {0, 1}, DmaWrite(a, val) PROVE TypeOK'
  <2>1. a \in Nat /\ {a} \subseteq a .. a + 1 - 1
    BY GuestAssumption, SizeAssumption, WidthAssumption DEF Address
  <2>2. Stored({a}, a, val) \in [Address -> {0, 1}]
    BY <2>1, StoredType
  <2>3. mem' \in [Address -> {0, 1}] /\ trap' = "none" /\ UNCHANGED <<rd, reservation_set, linked>>
    BY <1>9, <2>2 DEF DmaWrite
  <2> QED
    BY <2>3 DEF TypeOK
<1>10. CASE UNCHANGED vars
  BY <1>10 DEF vars, TypeOK
<1> QED
  BY <1>5, <1>6, <1>7, <1>8, <1>9, <1>10 DEF Next

\* What the AMOs and LR leave in rd fits a register, also the sign-extended
\* words, and what is in memory are bytes (execute_general and Dram).
THEOREM TypeCorrect == Spec => []TypeOK
BY TypeInit, TypeNext, PTL DEF Spec

\* An address with a copy in the reservation set is linked.
Linked == \A a \in LrAddrs : reservation_set[a] > 0 => a \in linked

\* A write of the hart drops every copy of its address.
LEMMA WriteLinked ==
  ASSUME Linked, NEW a, NEW n, NEW val, write(a, n, val)
  PROVE  Linked'
<1>1. reservation_set' = Dropped(a) /\ linked' = linked \ {a}
  BY DEF write
<1>2. ASSUME NEW b \in LrAddrs, reservation_set'[b] > 0 PROVE b \in linked'
  <2>1. b # a
    BY <1>1, <1>2 DEF Dropped
  <2>2. reservation_set[b] > 0
    BY <1>1, <1>2, <2>1 DEF Dropped
  <2> QED
    BY <1>1, <2>1, <2>2 DEF Linked
<1> QED
  BY <1>2 DEF Linked

\* For every guest, with aliases and with devices that write to its memory, an
\* SC stores only after an LR of its address that the hart has not since
\* followed by a write there, so that an LR pays for one SC at most (lr, sc and
\* Cpu::write).
THEOREM ScsNeedLr == Spec => ScNeedsLr
<1>1. Init => Linked
  BY DEF Init, Linked
<1>2. TypeOK /\ Linked /\ [Next]_vars => Linked'
  <2> SUFFICES ASSUME TypeOK, Linked, [Next]_vars PROVE Linked'
    OBVIOUS
  <2>1. ASSUME UNCHANGED <<reservation_set, linked>> PROVE Linked'
    BY <2>1 DEF Linked
  <2>2. ASSUME NEW a \in LrAddrs, NEW n \in LrSizes, lr(a, n) PROVE Linked'
    <3>1. CASE a % n # 0
      BY <2>1, <2>2, <3>1 DEF lr, Misaligned
    <3>2. CASE a % n = 0
      <4>1. /\ reservation_set' = [reservation_set EXCEPT ![a] = @ + 1]
            /\ linked' = linked \cup {a}
        BY <2>2, <3>2 DEF lr
      <4> QED
        BY <4>1 DEF Linked, TypeOK
    <3> QED
      BY <3>1, <3>2
  <2>3. ASSUME NEW a \in LrAddrs, NEW n \in LrSizes, NEW val \in Values, sc(a, n, val)
        PROVE  Linked'
    <3>1. write(a, n, val) \/ UNCHANGED <<reservation_set, linked>>
      BY <2>3 DEF sc, Misaligned
    <3> QED
      BY <2>1, <3>1, WriteLinked
  <2>4. ASSUME NEW op \in Ops, NEW a \in AmoAddrs, NEW n \in AmoSizes, NEW val \in Values,
               amo(op, a, n, val)
        PROVE  Linked'
    <3> DEFINE v == AmoValue(op, n, Load(a, n), val)
    <3>1. write(a, n, v) \/ UNCHANGED <<reservation_set, linked>>
      BY <2>4 DEF amo, Misaligned
    <3> HIDE DEF v
    <3> QED
      BY <2>1, <3>1, WriteLinked
  <2>5. ASSUME NEW a \in StoreAddrs, NEW n \in StoreSizes, NEW val \in Values, store(a, n, val)
        PROVE  Linked'
    BY <2>5, WriteLinked DEF store
  <2>6. ASSUME NEW a \in DmaAddrs, NEW val \in {0, 1}, DmaWrite(a, val) PROVE Linked'
    BY <2>1, <2>6 DEF DmaWrite
  <2>7. CASE UNCHANGED vars
    BY <2>1, <2>7 DEF vars
  <2> QED
    BY <2>2, <2>3, <2>4, <2>5, <2>6, <2>7 DEF Next
<1> DEFINE Paired == \A a \in LrAddrs, n \in LrSizes, val \in Values :
                       sc(a, n, val) /\ trap' = "none" /\ rd' = 0 => a \in linked
<1>3. Linked => Paired
  <2> SUFFICES ASSUME Linked, NEW a \in LrAddrs, NEW n \in LrSizes, NEW val \in Values,
                      sc(a, n, val), trap' = "none", rd' = 0
               PROVE  a \in linked
    OBVIOUS
  <2>1. Contains(a)
    BY DEF sc, Misaligned
  <2> QED
    BY <2>1 DEF Contains, Linked
<1>4. Linked /\ [Next]_vars => [Paired]_vars
  BY <1>3
<1>5. ScNeedsLr <=> [][Paired]_vars
  BY DEF ScNeedsLr
<1> QED
  BY <1>1, <1>2, <1>4, <1>5, TypeCorrect, PTL DEF Spec

\* For words of every size, every AMO does to memory and to rd what the manual
\* says, or nothing at all if it faults (the AMOs of execute_general).
THEOREM AmosAtomic == Spec => AmoAtomic
<1> DEFINE Result(op, a, n, val) ==
             IF trap' = "none"
             THEN /\ AmoIsa(op, n, Load(a, n), val, Load(a, n)')
                  /\ \A b \in Address \ Bytes(a, n) : mem'[b] = mem[b]
                  /\ \A i \in 0 .. XLEN - 1 :
                       Digit(rd', i) = mem[Phys[a] + Least(i, n - 1)]
             ELSE UNCHANGED <<mem, rd>>
           Atomic == \A op \in Ops, a \in AmoAddrs, n \in AmoSizes, val \in Values :
                       amo(op, a, n, val) => Result(op, a, n, val)
<1>1. TypeOK /\ [Next]_vars => [Atomic]_vars
  <2> SUFFICES ASSUME TypeOK, NEW op \in Ops, NEW a \in AmoAddrs, NEW n \in AmoSizes,
                      NEW val \in Values, amo(op, a, n, val)
               PROVE  Result(op, a, n, val)
    OBVIOUS
  <2>1. /\ a \in DOMAIN Phys /\ n \in {WORD, XLEN} /\ val \in Register /\ op \in AmoOps
        /\ mem \in [Address -> {0, 1}]
    BY GuestAssumption DEF TypeOK
  <2>2. CASE a % n # 0
    BY <2>2 DEF amo, Misaligned
  <2>3. CASE a % n = 0
    <3> DEFINE t == Load(a, n)
               v == AmoValue(op, n, t, val)
    <3>1. t \in 0 .. 2 ^ n - 1 /\ \A i \in 0 .. n - 1 : Digit(t, i) = mem[Phys[a] + i]
      BY <2>1, <2>3, LoadDigits
    <3>2. write(a, n, v) /\ rd' = IF trap' = "none" THEN Extended(t, n) ELSE rd
      BY <2>3 DEF amo
    <3>3. v \in Nat
      <4> HIDE DEF t
      <4>1. v \in Register
        BY <2>1, <3>1, AmoValueType
      <4> QED
        BY <4>1 DEF Register
    <3>4. AmoIsa(op, n, t, val, v % 2 ^ n)
      <4> HIDE DEF t
      <4> QED
        BY <2>1, <3>1, AmoIsIsa
    <3>5. CASE trap' # "none"
      BY <3>2, <3>5 DEF write
    <3>6. CASE trap' = "none"
      <4>1. mem' = Stored(Bytes(a, n), Phys[a], v)
        BY <3>2, <3>6 DEF write
      <4>2. Load(a, n)' = v % 2 ^ n
        <5> HIDE DEF v
        <5> QED
          BY <2>1, <2>3, <3>3, <4>1, StoreLoad
      <4>3. \A b \in Address \ Bytes(a, n) : mem'[b] = mem[b]
        BY <4>1 DEF Stored
      <4>4. rd' = Extended(t, n)
        BY <3>2, <3>6
      <4>5. ASSUME NEW i \in 0 .. XLEN - 1
            PROVE  Digit(rd', i) = mem[Phys[a] + Least(i, n - 1)]
        <5> HIDE DEF t
        <5>1. Digit(rd', i) = Digit(t, Least(i, n - 1))
          BY <2>1, <3>1, <4>4, ExtendedDigits
        <5>2. n \in Nat \ {0} /\ XLEN \in Nat
          BY <2>1, Sizes
        <5>3. Least(i, n - 1) \in 0 .. n - 1
          BY <5>2 DEF Least
        <5> QED
          BY <3>1, <5>1, <5>3
      <4>6. AmoIsa(op, n, Load(a, n), val, Load(a, n)')
        BY <3>4, <4>2
      <4> QED
        BY <3>6, <4>3, <4>5, <4>6
    <3> QED
      BY <3>5, <3>6
  <2> QED
    BY <2>2, <2>3
<1>2. AmoAtomic <=> [][Atomic]_vars
  BY DEF AmoAtomic
<1> QED
  BY <1>1, <1>2, TypeCorrect, PTL DEF Spec

----------------------------------------------------------------------------
(* Integer: remainders, powers of two and digits of integers of either     *)
(* sign, of which the operations of the ALU are made.                      *)

\* Quotients and remainders of integers of either sign.
LEMMA IntDivided ==
  ASSUME NEW m \in Int, NEW p \in Nat \ {0}
  PROVE  m \div p \in Int /\ m % p \in 0 .. p - 1 /\ m = p * (m \div p) + (m % p)
OBVIOUS

\* ... are unique.
LEMMA IntDivision ==
  ASSUME NEW p \in Nat \ {0}, NEW q \in Int, NEW r \in 0 .. p - 1
  PROVE  (p * q + r) \div p = q /\ (p * q + r) % p = r
<1> DEFINE m == p * q + r
           a == m \div p
           b == m % p
<1>1. m \in Int /\ a \in Int /\ b \in 0 .. p - 1 /\ m = p * a + b
  BY IntDivided
<1>2. p * a + b = p * q + r
  BY <1>1
<1> HIDE DEF m, a, b
<1>3. p * (a - q) = r - b
  BY <1>1, <1>2
<1>4. r - b < p /\ r - b > -p
  BY <1>1
<1>5. ~(a - q >= 1) /\ ~(a - q <= -1)
  <2>1. a - q >= 1 => p * (a - q) >= p
    BY <1>1
  <2>2. a - q <= -1 => p * (a - q) <= -p
    BY <1>1
  <2> QED BY <1>1, <1>3, <1>4, <2>1, <2>2
<1>6. a = q
  BY <1>1, <1>5
<1>7. b = r
  BY <1>1, <1>2, <1>6
<1> QED BY <1>6, <1>7 DEF m, a, b

\* Numbers that differ by a multiple of p have the same remainder.
LEMMA Shifted ==
  ASSUME NEW x \in Int, NEW c \in Int, NEW p \in Nat \ {0}
  PROVE  (x + c * p) % p = x % p /\ (x + c * p) \div p = (x \div p) + c
<1> DEFINE q == x \div p
           r == x % p
<1>1. q \in Int /\ r \in 0 .. p - 1 /\ x = p * q + r
  BY IntDivided
<1> HIDE DEF q, r
<1>2. x + c * p = p * (q + c) + r
  BY <1>1
<1>3. (p * (q + c) + r) \div p = q + c /\ (p * (q + c) + r) % p = r
  <2>1. q + c \in Int
    BY <1>1
  <2> QED BY <1>1, <2>1, IntDivision
<1> QED BY <1>2, <1>3 DEF q, r

\* ... and conversely.
LEMMA Congruent ==
  ASSUME NEW x \in Int, NEW y \in Int, NEW p \in Nat \ {0}
  PROVE  /\ (x - y) % p = 0 <=> x % p = y % p
         /\ x % p = y % p => \E c \in Int : x = y + c * p
<1> DEFINE q == x \div p
           r == x % p
           u == y \div p
           v == y % p
<1>1. q \in Int /\ r \in 0 .. p - 1 /\ x = p * q + r
  BY IntDivided
<1>2. u \in Int /\ v \in 0 .. p - 1 /\ y = p * u + v
  BY IntDivided
<1> HIDE DEF q, r, u, v
<1>3. ASSUME r = v PROVE (x - y) % p = 0 /\ \E c \in Int : x = y + c * p
  <2>1. x = y + (q - u) * p /\ q - u \in Int
    BY <1>1, <1>2, <1>3
  <2>2. x - y = p * (q - u) + 0 /\ 0 \in 0 .. p - 1
    BY <1>1, <1>2, <1>3
  <2>3. (p * (q - u) + 0) % p = 0
    BY <2>1, <2>2, IntDivision
  <2> QED BY <2>1, <2>2, <2>3
<1>4. ASSUME (x - y) % p = 0 PROVE r = v
  <2>1. x - y \in Int
    OBVIOUS
  <2>2. PICK c \in Int : x - y = p * c + 0
    BY <1>4, <2>1, IntDivided
  <2>3. x = y + c * p
    BY <2>2
  <2> QED BY <2>3, Shifted DEF r, v
<1> QED BY <1>3, <1>4 DEF r, v

\* Exponents add.
LEMMA PowersAdd ==
  ASSUME NEW i \in Nat
  PROVE  \A k \in Nat : 2 ^ (i + k) = 2 ^ i * 2 ^ k
<1> DEFINE T == {k \in Nat : 2 ^ (i + k) = 2 ^ i * 2 ^ k}
<1>1. 0 \in T
  <2>1. i + 0 = i /\ 2 ^ i \in Nat /\ 2 ^ 0 = 1
    BY Powers
  <2> QED BY <2>1
<1>2. ASSUME NEW k \in T PROVE k + 1 \in T
  <2>1. k \in Nat /\ i + k \in Nat /\ i + (k + 1) = (i + k) + 1
    OBVIOUS
  <2>2. 2 ^ ((i + k) + 1) = 2 * 2 ^ (i + k) /\ 2 ^ (k + 1) = 2 * 2 ^ k
        /\ 2 ^ i \in Nat /\ 2 ^ k \in Nat
    BY <2>1, Powers
  <2>3. 2 ^ (i + k) = 2 ^ i * 2 ^ k
    OBVIOUS
  <2>4. 2 * (2 ^ i * 2 ^ k) = 2 ^ i * (2 * 2 ^ k)
    BY <2>2
  <2>5. 2 ^ (i + (k + 1)) = 2 ^ i * 2 ^ (k + 1)
    BY <2>1, <2>2, <2>3, <2>4
  <2> QED BY <2>1, <2>5
<1>3. T \in SUBSET Nat
  OBVIOUS
<1> HIDE DEF T
<1>4. T = Nat
  BY <1>1, <1>2, <1>3, Induction
<1> QED BY <1>4 DEF T

\* A power is twice the one before.
LEMMA HalfPower ==
  ASSUME NEW n \in Nat \ {0}
  PROVE  2 ^ (n - 1) \in Nat \ {0} /\ 2 ^ n = 2 * 2 ^ (n - 1) /\ 2 ^ n \in Nat \ {0}
<1>1. n - 1 \in Nat /\ (n - 1) + 1 = n
  OBVIOUS
<1>2. 2 ^ ((n - 1) + 1) = 2 * 2 ^ (n - 1) /\ 2 ^ (n - 1) \in Nat \ {0}
  BY <1>1, Powers
<1>3. 2 ^ n \in Nat \ {0}
  BY Powers
<1> QED BY <1>1, <1>2, <1>3

\* The remainder by a power of two keeps the remainders by the smaller ones.
LEMMA LowRemainder ==
  ASSUME NEW x \in Int, NEW n \in Nat, NEW k \in Nat, n <= k
  PROVE  (x % 2 ^ k) % 2 ^ n = x % 2 ^ n
<1>1. PICK c \in Nat \ {0} : 2 ^ k = c * 2 ^ n
  BY PowersFactor
<1>2. 2 ^ n \in Nat \ {0} /\ 2 ^ k \in Nat \ {0}
  BY Powers
<1> DEFINE p == 2 ^ n
           z == 2 ^ k
           q == x \div z
           r == x % z
<1>3. q \in Int /\ r \in 0 .. z - 1 /\ x = z * q + r
  BY <1>2, IntDivided
<1>4. p \in Nat \ {0} /\ z \in Nat \ {0} /\ z = c * p
  BY <1>1, <1>2
<1> HIDE DEF p, z, q, r
<1>5. x = r + (q * c) * p /\ r \in Int /\ q * c \in Int
  BY <1>3, <1>4
<1>6. (r + (q * c) * p) % p = r % p
  BY <1>4, <1>5, Shifted
<1> QED BY <1>5, <1>6 DEF p, z, r

\* The digits of integers of either sign are zero or one.
LEMMA IntDigitType ==
  ASSUME NEW x \in Int, NEW i \in Nat
  PROVE  Digit(x, i) \in {0, 1}
<1>1. x \div 2 ^ i \in Int
  BY Powers, IntDivided
<1> QED
  BY <1>1 DEF Digit

\* Multiples of a higher power of two do not change the digit at i.
LEMMA IntDigitStays ==
  ASSUME NEW x \in Int, NEW c \in Int, NEW i \in Nat, NEW k \in Nat, i < k
  PROVE  Digit(x + c * 2 ^ k, i) = Digit(x, i)
<1>1. PICK e \in Nat : 2 ^ k = (2 * e) * 2 ^ i
  BY PowersDivide
<1>2. 2 ^ i \in Nat \ {0}
  BY Powers
<1> DEFINE p == 2 ^ i
           q == x \div p
<1>3. p \in Nat \ {0} /\ q \in Int /\ c * 2 ^ k = (c * (2 * e)) * p
  <2>1. p \in Nat \ {0} /\ q \in Int /\ 2 ^ k = (2 * e) * p
    BY <1>1, <1>2, IntDivided
  <2> HIDE DEF p, q
  <2> QED BY <2>1
<1>4. (x + (c * (2 * e)) * p) \div p = q + c * (2 * e)
  <2> c * (2 * e) \in Int
    OBVIOUS
  <2> HIDE DEF p
  <2> QED BY <1>3, Shifted DEF q
<1>5. (q + (c * e) * 2) % 2 = q % 2
  <2>1. c * e \in Int /\ 2 \in Nat \ {0}
    OBVIOUS
  <2> QED BY <1>3, <2>1, Shifted
<1>6. q + c * (2 * e) = q + (c * e) * 2
  BY <1>3
<1> QED BY <1>3, <1>4, <1>5, <1>6 DEF Digit

\* The low digits are those of the remainder.
LEMMA IntLowDigits ==
  ASSUME NEW x \in Int, NEW k \in Nat, NEW i \in 0 .. k - 1
  PROVE  Digit(x % 2 ^ k, i) = Digit(x, i)
<1> DEFINE z == 2 ^ k
           q == x \div z
           r == x % z
<1>1. z \in Nat \ {0}
  BY Powers
<1>2. q \in Int /\ r \in 0 .. z - 1 /\ x = z * q + r
  BY <1>1, IntDivided
<1>3. x = r + q * z /\ r \in Int
  <2> HIDE DEF z, q, r
  <2> QED BY <1>1, <1>2
<1>4. i \in Nat /\ i < k
  OBVIOUS
<1>5. Digit(r + q * 2 ^ k, i) = Digit(r, i)
  <2> HIDE DEF r, q
  <2> QED BY <1>2, <1>3, <1>4, IntDigitStays
<1> QED BY <1>3, <1>5

\* Dividing twice.
LEMMA DivideTwice ==
  ASSUME NEW x \in Int, NEW p \in Nat \ {0}, NEW q \in Nat \ {0}
  PROVE  (x \div p) \div q = x \div (p * q)
<1> DEFINE a == x \div p
           b == x % p
           c == a \div q
           d == a % q
<1>1. a \in Int /\ b \in 0 .. p - 1 /\ x = p * a + b
  BY IntDivided
<1> HIDE DEF a, b
<1>2. c \in Int /\ d \in 0 .. q - 1 /\ a = q * c + d
  BY <1>1, IntDivided
<1> HIDE DEF c, d
<1>3. x = (p * q) * c + (p * d + b)
  BY <1>1, <1>2
<1>4. p * q \in Nat \ {0} /\ p * d + b \in 0 .. p * q - 1
  <2>1. p * q \in Nat \ {0} /\ p * d \in Nat /\ p * d + b \in Nat
    BY <1>1, <1>2
  <2>2. d + 1 <= q
    BY <1>2
  <2>3. p * (d + 1) <= p * q
    BY <1>2, <2>2
  <2>4. p * (d + 1) = p * d + p
    BY <1>2
  <2> QED BY <1>1, <2>1, <2>3, <2>4
<1>5. ((p * q) * c + (p * d + b)) \div (p * q) = c
  BY <1>2, <1>4, IntDivision
<1> QED BY <1>3, <1>5 DEF a, c

\* The digits of a number that is shifted to the right, ...
LEMMA RightDigits ==
  ASSUME NEW x \in Int, NEW k \in Nat, NEW i \in Nat
  PROVE  Digit(x \div 2 ^ k, i) = Digit(x, i + k)
<1>1. 2 ^ k \in Nat \ {0} /\ 2 ^ i \in Nat \ {0} /\ 2 ^ (k + i) = 2 ^ k * 2 ^ i /\ k + i = i + k
  BY Powers, PowersAdd
<1>2. (x \div 2 ^ k) \div 2 ^ i = x \div (2 ^ k * 2 ^ i)
  BY <1>1, DivideTwice
<1>3. (x \div 2 ^ k) \div 2 ^ i = x \div 2 ^ (i + k)
  BY <1>1, <1>2
<1> QED BY <1>3 DEF Digit

\* ... and to the left.
LEMMA LeftDigits ==
  ASSUME NEW x \in Int, NEW k \in Nat, NEW i \in Nat
  PROVE  /\ i >= k => Digit(x * 2 ^ k, i) = Digit(x, i - k)
         /\ i < k => Digit(x * 2 ^ k, i) = 0
<1>1. ASSUME i >= k PROVE Digit(x * 2 ^ k, i) = Digit(x, i - k)
  <2>1. i - k \in Nat /\ (i - k) + k = i
    BY <1>1
  <2>2. 2 ^ k \in Nat \ {0}
    BY Powers
  <2>3. x * 2 ^ k \in Int /\ x * 2 ^ k = 2 ^ k * x + 0 /\ 0 \in 0 .. 2 ^ k - 1
    BY <2>2
  <2>4. (2 ^ k * x + 0) \div 2 ^ k = x
    BY <2>2, <2>3, IntDivision
  <2>5. Digit((x * 2 ^ k) \div 2 ^ k, i - k) = Digit(x * 2 ^ k, (i - k) + k)
    BY <2>1, <2>3, RightDigits
  <2> QED BY <2>1, <2>3, <2>4, <2>5
<1>2. ASSUME i < k PROVE Digit(x * 2 ^ k, i) = 0
  <2>1. Digit(0 + x * 2 ^ k, i) = Digit(0, i)
    <3>1. 0 \in Int
      OBVIOUS
    <3> QED BY ONLY x \in Int, i \in Nat, k \in Nat, <1>2, <3>1, IntDigitStays
  <2>2. 2 ^ k \in Nat /\ 2 ^ i \in Nat \ {0}
    BY Powers
  <2>3. 0 + x * 2 ^ k = x * 2 ^ k
    BY <2>2
  <2>4. Digit(0, i) = 0
    BY <2>2 DEF Digit
  <2> QED BY <2>1, <2>3, <2>4
<1> QED BY <1>1, <1>2

----------------------------------------------------------------------------
(* Numbers with a sign, and the widths of registers and words.             *)

\* A number with a sign is in its range and has the same remainder.
LEMMA SignedIs ==
  ASSUME NEW x \in Int, NEW n \in Nat \ {0}
  PROVE  /\ Signed(x, n) \in Int
         /\ - 2 ^ (n - 1) <= Signed(x, n) /\ Signed(x, n) < 2 ^ (n - 1)
         /\ Signed(x, n) % 2 ^ n = x % 2 ^ n
<1> DEFINE h == 2 ^ (n - 1)
           u == x % 2 ^ n
<1>1. h \in Nat \ {0} /\ 2 ^ n = 2 * h /\ 2 ^ n \in Nat \ {0}
  BY HalfPower
<1>2. u \in 0 .. 2 ^ n - 1
  BY <1>1, IntDivided
<1>3. u % 2 ^ n = u
  BY <1>1, <1>2
<1>4. (u + (-1) * 2 ^ n) % 2 ^ n = u % 2 ^ n
  <2>1. u \in Int /\ -1 \in Int
    BY <1>2
  <2> HIDE DEF u
  <2> QED BY <1>1, <2>1, Shifted
<1>5. u + (-1) * 2 ^ n = u - 2 ^ n
  BY <1>1, <1>2
<1> HIDE DEF h, u
<1>6. Signed(x, n) = IF u >= h THEN u - 2 ^ n ELSE u
  BY DEF Signed, u, h
<1>7. Signed(x, n) % 2 ^ n = u
  BY <1>3, <1>4, <1>5, <1>6
<1>8. Signed(x, n) \in Int /\ - h <= Signed(x, n) /\ Signed(x, n) < h
  BY <1>1, <1>2, <1>6
<1> QED BY <1>7, <1>8 DEF h, u

\* The signed number is the only one in its range with its remainder.
LEMMA SignedUnique ==
  ASSUME NEW x \in Int, NEW n \in Nat \ {0}, NEW y \in Int,
         - 2 ^ (n - 1) <= y, y < 2 ^ (n - 1), y % 2 ^ n = x % 2 ^ n
  PROVE  Signed(x, n) = y
<1> DEFINE h == 2 ^ (n - 1)
           s == Signed(x, n)
           m == 2 ^ n
<1>1. h \in Nat \ {0} /\ m = 2 * h /\ m \in Nat \ {0}
  BY HalfPower
<1>2. s \in Int /\ - h <= s /\ s < h /\ s % m = y % m
  BY SignedIs
<1>3. - h <= y /\ y < h
  OBVIOUS
<1> HIDE DEF h, s, m
<1>4. PICK c \in Int : s = y + c * m
  BY <1>1, <1>2, Congruent, ZenonT(60)
<1>5. c * m < m /\ c * m > - m
  BY <1>1, <1>2, <1>3, <1>4
<1>6. c = 0
  <2>1. c >= 1 => c * m >= m
    BY <1>1
  <2>2. c <= -1 => c * m <= - m
    BY <1>1
  <2> QED BY <1>1, <1>5, <2>1, <2>2
<1> QED BY <1>1, <1>2, <1>4, <1>6 DEF s

\* Only the low bits matter.
LEMMA SignedLow ==
  ASSUME NEW x \in Int, NEW n \in Nat \ {0}, NEW k \in Nat, n <= k
  PROVE  Signed(x % 2 ^ k, n) = Signed(x, n)
<1>1. (x % 2 ^ k) % 2 ^ n = x % 2 ^ n
  BY LowRemainder
<1> QED BY <1>1 DEF Signed

\* The widths of words and registers, and their powers.
LEMMA Widths ==
  /\ WORD \in Nat \ {0} /\ XLEN \in Nat \ {0} /\ WORD <= XLEN
  /\ 2 ^ WORD \in Nat \ {0} /\ 2 ^ XLEN \in Nat \ {0}
  /\ 2 ^ WORD <= 2 ^ XLEN /\ 2 ^ (WORD - 1) <= 2 ^ (XLEN - 1)
<1>1. WORD \in Nat \ {0} /\ XLEN \in Nat \ {0} /\ WORD <= XLEN
  BY WidthAssumption
<1>2. 2 ^ WORD \in Nat \ {0} /\ 2 ^ XLEN \in Nat \ {0}
  BY <1>1, Powers
<1>3. 2 ^ WORD <= 2 ^ XLEN
  BY <1>1, PowersGrow
<1>4. WORD - 1 \in Nat /\ XLEN - 1 \in Nat /\ WORD - 1 <= XLEN - 1
  BY <1>1
<1>5. 2 ^ (WORD - 1) <= 2 ^ (XLEN - 1)
  BY <1>4, PowersGrow
<1> QED BY <1>1, <1>2, <1>3, <1>5

\* The remainder is the number itself if it is small enough.
LEMMA SmallRemainder ==
  ASSUME NEW p \in Nat \ {0}, NEW x \in 0 .. p - 1
  PROVE  x % p = x
<1>1. x = p * 0 + x /\ 0 \in Int
  OBVIOUS
<1>2. (p * 0 + x) % p = x
  BY <1>1, IntDivision
<1> QED BY <1>1, <1>2

\* A cast to u64 takes the remainder.
LEMMA UnsignedIs ==
  ASSUME NEW x \in Int
  PROVE  /\ Unsigned(x) \in Register /\ Unsigned(x) \in Int
         /\ Unsigned(x) % 2 ^ XLEN = x % 2 ^ XLEN
         /\ Low(Unsigned(x)) = Low(x)
         /\ x \in Register => Unsigned(x) = x
<1>1. Unsigned(x) \in 0 .. 2 ^ XLEN - 1
  BY Widths, IntDivided DEF Unsigned
<1>2. Unsigned(x) % 2 ^ XLEN = x % 2 ^ XLEN
  <2>1. XLEN \in Nat /\ XLEN <= XLEN
    BY Widths
  <2>2. (x % 2 ^ XLEN) % 2 ^ XLEN = x % 2 ^ XLEN
    BY <2>1, LowRemainder
  <2> QED BY <2>2 DEF Unsigned
<1>3. Low(Unsigned(x)) = Low(x)
  BY Widths, LowRemainder DEF Unsigned, Low
<1>4. x \in Register => Unsigned(x) = x
  BY Widths, SmallRemainder DEF Unsigned, Register
<1> QED BY <1>1, <1>2, <1>3, <1>4 DEF Register

\* Sign-extension keeps the low word, and repeating it changes nothing.
LEMMA ExtendIs ==
  ASSUME NEW x \in Int
  PROVE  /\ Extend(x) \in Register
         /\ Low(Extend(x)) = Low(x)
         /\ Extend(Extend(x)) = Extend(x)
         /\ Extend(Low(x)) = Extend(x)
         /\ - 2 ^ (WORD - 1) <= x /\ x < 2 ^ (WORD - 1) => Unsigned(x) = Extend(x)
<1> DEFINE s == Signed(x, WORD)
<1>1. s \in Int /\ - 2 ^ (WORD - 1) <= s /\ s < 2 ^ (WORD - 1) /\ s % 2 ^ WORD = x % 2 ^ WORD
  BY Widths, SignedIs
<1>2. Extend(x) = Unsigned(s)
  BY DEF Extend
<1> HIDE DEF s
<1>3. Extend(x) \in Register /\ Extend(x) \in Int /\ Low(Extend(x)) = Low(s)
  BY <1>1, <1>2, UnsignedIs
<1>4. Low(s) = Low(x)
  BY <1>1 DEF Low
<1>5. \A y \in Int : Low(y) = Low(x) => Extend(y) = Extend(x)
  BY DEF Low, Extend, Signed
<1>6. Low(x) \in Int /\ Low(Low(x)) = Low(x)
  <2>1. WORD \in Nat /\ WORD <= WORD
    BY Widths
  <2>2. (x % 2 ^ WORD) % 2 ^ WORD = x % 2 ^ WORD
    BY <2>1, LowRemainder
  <2>3. x % 2 ^ WORD \in Int
    BY Widths, IntDivided
  <2> QED BY <2>2, <2>3 DEF Low
<1>7. ASSUME - 2 ^ (WORD - 1) <= x, x < 2 ^ (WORD - 1) PROVE Unsigned(x) = Extend(x)
  <2>1. Signed(x, WORD) = x
    BY <1>7, Widths, SignedUnique
  <2> QED BY <2>1 DEF Extend
<1> QED BY <1>3, <1>4, <1>5, <1>6, <1>7

----------------------------------------------------------------------------
(* One lemma for each operation of the manual (IsaResult), for numbers of  *)
(* any width: sums, differences and products; ...                          *)

\* Sums, differences and products depend on remainders only.
LEMMA ReducedOps ==
  ASSUME NEW p \in Nat \ {0}, NEW x \in Int, NEW y \in Int
  PROVE  /\ ((x % p) + (y % p)) % p = (x + y) % p
         /\ ((x % p) - (y % p)) % p = (x - y) % p
         /\ ((x % p) * (y % p)) % p = (x * y) % p
         /\ ((x % p) * y) % p = (x * y) % p
<1> DEFINE u == x % p
           v == y % p
           c == x \div p
           d == y \div p
<1>1. u \in Int /\ c \in Int /\ x = p * c + u
  BY IntDivided
<1>2. v \in Int /\ d \in Int /\ y = p * d + v
  BY IntDivided
<1> HIDE DEF u, v, c, d
<1>3. x + y = (u + v) + (c + d) * p /\ x - y = (u - v) + (c - d) * p
  BY <1>1, <1>2
<1>4. x * y = (u * v) + (u * d + c * v + c * d * p) * p
  BY <1>1, <1>2
<1>5. ((u + v) + (c + d) * p) % p = (u + v) % p
  <2>1. u + v \in Int /\ c + d \in Int
    BY <1>1, <1>2
  <2> QED BY <2>1, Shifted
<1>6. ((u - v) + (c - d) * p) % p = (u - v) % p
  <2>1. u - v \in Int /\ c - d \in Int
    BY <1>1, <1>2
  <2> QED BY <2>1, Shifted
<1>7. ((u * v) + (u * d + c * v + c * d * p) * p) % p = (u * v) % p
  <2>1. u * v \in Int /\ u * d + c * v + c * d * p \in Int
    BY <1>1, <1>2
  <2> QED BY <2>1, Shifted
<1>8. x * y = u * y + (c * y) * p
  BY <1>1
<1>9. (u * y + (c * y) * p) % p = (u * y) % p
  <2>1. u * y \in Int /\ c * y \in Int
    BY <1>1
  <2> QED BY <2>1, Shifted
<1> QED BY <1>3, <1>4, <1>5, <1>6, <1>7, <1>8, <1>9 DEF u, v

\* The remainder of a remainder.
LEMMA Reduced ==
  ASSUME NEW x \in Int, NEW n \in Nat
  PROVE  /\ 2 ^ n \in Nat \ {0}
         /\ x % 2 ^ n \in 0 .. 2 ^ n - 1 /\ x % 2 ^ n \in Int
         /\ (x % 2 ^ n) % 2 ^ n = x % 2 ^ n
<1>1. 2 ^ n \in Nat \ {0}
  BY Powers
<1>2. x % 2 ^ n \in 0 .. 2 ^ n - 1
  BY <1>1, IntDivided
<1> QED BY <1>1, <1>2, SmallRemainder

\* add: the sum without its carry.
LEMMA IsaAdd ==
  ASSUME NEW n \in Nat \ {0}, NEW a \in Int, NEW b \in Int, NEW r \in Int,
         r % 2 ^ n = (a + b) % 2 ^ n
  PROVE  IsaResult("add", n, a % 2 ^ n, b % 2 ^ n, r % 2 ^ n)
<1> DEFINE m == 2 ^ n
           u == a % m
           v == b % m
           w == r % m
<1>1. m \in Nat \ {0} /\ u \in Int /\ v \in Int /\ w \in Int
      /\ u % m = a % m /\ v % m = b % m /\ w % m = r % m
  BY Reduced
<1>2. r % m = (a + b) % m
  OBVIOUS
<1>3. (u + v) % m = (a + b) % m
  BY <1>1, ReducedOps
<1> HIDE DEF m, u, v, w
<1>4. (u + v) % m = w % m
  BY <1>1, <1>2, <1>3
<1>5. u + v \in Int
  BY <1>1
<1>6. (u + v - w) % m = 0
  BY <1>1, <1>4, <1>5, Congruent
<1> QED BY <1>6 DEF IsaResult, m, u, v, w

\* sub: the difference without its borrow.
LEMMA IsaSub ==
  ASSUME NEW n \in Nat \ {0}, NEW a \in Int, NEW b \in Int, NEW r \in Int,
         r % 2 ^ n = (a - b) % 2 ^ n
  PROVE  IsaResult("sub", n, a % 2 ^ n, b % 2 ^ n, r % 2 ^ n)
<1> DEFINE m == 2 ^ n
           u == a % m
           v == b % m
           w == r % m
<1>1. m \in Nat \ {0} /\ u \in Int /\ v \in Int /\ w \in Int
      /\ u % m = a % m /\ v % m = b % m /\ w % m = r % m
  BY Reduced
<1>2. r % m = (a - b) % m
  OBVIOUS
<1>3. (u - v) % m = (a - b) % m
  BY <1>1, ReducedOps
<1> HIDE DEF m, u, v, w
<1>4. w % m = (u - v) % m
  BY <1>1, <1>2, <1>3
<1>5. u - v \in Int
  BY <1>1
<1>6. (w - (u - v)) % m = 0
  BY <1>1, <1>4, <1>5, Congruent
<1>7. w - (u - v) = w + v - u
  BY <1>1
<1> QED BY <1>6, <1>7 DEF IsaResult, m, u, v, w

\* mul: the low half of the product.
LEMMA IsaMul ==
  ASSUME NEW n \in Nat \ {0}, NEW a \in Int, NEW b \in Int, NEW r \in Int,
         r % 2 ^ n = (Signed(a, n) * Signed(b, n)) % 2 ^ n
  PROVE  IsaResult("mul", n, a % 2 ^ n, b % 2 ^ n, r % 2 ^ n)
<1> DEFINE m == 2 ^ n
           x == Signed(a % m, n)
           y == Signed(b % m, n)
           s == Signed(r % m, n)
<1>1. m \in Nat \ {0}
  BY Powers
<1>2. x = Signed(a, n) /\ y = Signed(b, n) /\ s = Signed(r, n)
  <2>1. n \in Nat /\ n <= n
    OBVIOUS
  <2> QED BY <2>1, SignedLow
<1>3. x \in Int /\ y \in Int /\ s \in Int /\ s % m = r % m
  BY <1>2, SignedIs
<1>4. s % m = (x * y) % m
  BY <1>2, <1>3
<1> HIDE DEF x, y, s, m
<1>5. x * y \in Int
  BY <1>3
<1>6. (x * y - s) % m = 0
  BY <1>1, <1>3, <1>4, <1>5, Congruent
<1> QED BY <1>6 DEF IsaResult, m, x, y, s

----------------------------------------------------------------------------
(* ... the high halves of products; ...                                    *)

\* Signed numbers of n bits, of which the high half of a product is one.
LEMMA IsaMulh ==
  ASSUME NEW n \in Nat \ {0}, NEW a \in Int, NEW b \in Int, NEW r \in Int,
         r % 2 ^ n = ((Signed(a, n) * Signed(b, n)) \div 2 ^ n) % 2 ^ n
  PROVE  IsaResult("mulh", n, a % 2 ^ n, b % 2 ^ n, r % 2 ^ n)
<1> DEFINE m == 2 ^ n
           h == 2 ^ (n - 1)
           x == Signed(a % m, n)
           y == Signed(b % m, n)
           s == Signed(r % m, n)
           q == (x * y) \div m
           e == (x * y) % m
<1>1. m \in Nat \ {0} /\ h \in Nat \ {0} /\ m = 2 * h
  BY HalfPower
<1>2. x = Signed(a, n) /\ y = Signed(b, n) /\ s = Signed(r, n)
  <2>1. n \in Nat /\ n <= n
    OBVIOUS
  <2> QED BY <2>1, SignedLow
<1>3. x \in Int /\ - h <= x /\ x < h /\ y \in Int /\ - h <= y /\ y < h
  BY <1>2, SignedIs
<1>4. x * y \in Int
  BY <1>3
<1>5. q \in Int /\ e \in 0 .. m - 1 /\ x * y = m * q + e
  <2> HIDE DEF m, h, x, y
  <2> QED BY <1>1, <1>4, IntDivided
<1>6. q % m = r % m
  BY <1>2
<1>7. - h <= q /\ q < h
  <2> HIDE DEF m, h, x, y, q, e
  <2>1. x * y <= h * h /\ - (h * h) <= x * y
    <3>1. (h - x) * (h + y) >= 0 /\ (h + x) * (h - y) >= 0
          /\ (h - x) * (h - y) >= 0 /\ (h + x) * (h + y) >= 0
      BY <1>1, <1>3
    <3>2. (h - x) * (h + y) = h * h + h * y - x * h - x * y
          /\ (h + x) * (h - y) = h * h - h * y + x * h - x * y
          /\ (h - x) * (h - y) = h * h - h * y - x * h + x * y
          /\ (h + x) * (h + y) = h * h + h * y + x * h + x * y
      BY <1>1, <1>3
    <3>3. h * h \in Int /\ h * y \in Int /\ x * h \in Int /\ x * y \in Int
      BY <1>1, <1>3
    <3> HIDE DEF m
    <3> QED BY <3>1, <3>2, <3>3
  <2>2. h * h \in Nat \ {0} /\ h * q \in Int
    BY <1>1, <1>5
  <2>3. m * q = h * q + h * q
    BY <1>1, <1>5
  <2>4. q >= h => h * q >= h * h
    BY <1>1, <1>5
  <2>5. q <= - h - 1 => h * q <= - (h * h) - h
    <3>1. q <= - h - 1 => h * q <= h * (- h - 1)
      BY <1>1, <1>5
    <3>2. h * (- h - 1) = - (h * h) - h
      BY <1>1
    <3> QED BY <3>1, <3>2
  <2> QED BY <1>1, <1>4, <1>5, <2>1, <2>2, <2>3, <2>4, <2>5
<1>8. s = q
  <2>1. Signed(r, n) = q
    <3> HIDE DEF q
    <3> QED BY <1>5, <1>6, <1>7, SignedUnique
  <2> QED BY <1>2, <2>1
<1> HIDE DEF x, y, s, q, e
<1>9. x * y - s * m = e
  <2> HIDE DEF m, h
  <2>1. q * m = m * q /\ m * q \in Int
    BY <1>1, <1>5
  <2> QED BY <1>4, <1>5, <1>8, <2>1
<1>10. x * y - s * m \in 0 .. m - 1
  BY <1>5, <1>9
<1> QED BY <1>10 DEF IsaResult, m, x, y, s

\* mulhu: the high half of the product of natural numbers.
LEMMA IsaMulhu ==
  ASSUME NEW n \in Nat \ {0}, NEW a \in Int, NEW b \in Int, NEW r \in Int,
         r % 2 ^ n = (((a % 2 ^ n) * (b % 2 ^ n)) \div 2 ^ n) % 2 ^ n
  PROVE  IsaResult("mulhu", n, a % 2 ^ n, b % 2 ^ n, r % 2 ^ n)
<1> DEFINE m == 2 ^ n
           x == a % m
           y == b % m
           q == (x * y) \div m
           e == (x * y) % m
<1>1. m \in Nat \ {0} /\ x \in 0 .. m - 1 /\ y \in 0 .. m - 1
  BY Reduced
<1> HIDE DEF m, x, y
<1>2. x * y \in Nat
  BY <1>1
<1>3. q \in Int /\ e \in 0 .. m - 1 /\ x * y = m * q + e
  BY <1>1, <1>2, IntDivided
<1> HIDE DEF q, e
<1>4. q >= 0 /\ q < m
  <2>1. q <= -1 => m * q <= - m
    BY <1>1, <1>3
  <2>2. q >= m => m * q >= m * m
    BY <1>1, <1>3
  <2>3. x * y <= (m - 1) * (m - 1)
    BY <1>1
  <2>4. (m - 1) * (m - 1) = m * m - m - m + 1 /\ m * m \in Int
    BY <1>1
  <2>5. m * q \in Int
    BY <1>1, <1>3
  <2> QED BY <1>1, <1>2, <1>3, <2>1, <2>2, <2>3, <2>4, <2>5
<1>5. r % m = q
  <2>1. q \in 0 .. m - 1
    BY <1>1, <1>3, <1>4
  <2>2. q % m = q
    BY <1>1, <2>1, SmallRemainder
  <2> QED BY <2>2 DEF m, x, y, q
<1>6. x * y - (r % m) * m = e
  <2>1. q * m = m * q /\ m * q \in Int
    BY <1>1, <1>3
  <2> QED BY <1>2, <1>3, <1>5, <2>1
<1>7. x * y - (r % m) * m \in 0 .. m - 1
  BY <1>3, <1>6
<1> QED BY <1>7 DEF IsaResult, m, x, y

\* The upper half of a product that is taken from twice the bits.
LEMMA UpperHalf ==
  ASSUME NEW z \in Int, NEW m \in Nat \ {0}
  PROVE  (z % (m * m)) \div m = (z \div m) % m
<1> DEFINE q == z \div m
           e == z % m
           g == q \div m
           f == q % m
<1>1. q \in Int /\ e \in 0 .. m - 1 /\ z = m * q + e
  BY IntDivided
<1> HIDE DEF q, e
<1>2. g \in Int /\ f \in 0 .. m - 1 /\ q = m * g + f
  BY <1>1, IntDivided
<1> HIDE DEF g, f
<1>3. z = (m * m) * g + (m * f + e)
  BY <1>1, <1>2
<1>4. m * m \in Nat \ {0} /\ m * f + e \in 0 .. m * m - 1
  <2>1. m * m \in Nat \ {0} /\ m * f \in Nat
    BY <1>2
  <2>2. m * f <= m * (m - 1)
    BY <1>2
  <2>3. m * (m - 1) = m * m - m
    OBVIOUS
  <2> QED BY <1>1, <2>1, <2>2, <2>3
<1>5. ((m * m) * g + (m * f + e)) % (m * m) = m * f + e
  BY <1>2, <1>4, IntDivision
<1>6. (m * f + e) \div m = f
  BY <1>1, <1>2, IntDivision
<1> QED BY <1>3, <1>5, <1>6 DEF f, q

\* mulhsu: the high half of the product of a signed and a natural number.
LEMMA IsaMulhsu ==
  ASSUME NEW n \in Nat \ {0}, NEW a \in Int, NEW b \in Int, NEW r \in Int,
         r % 2 ^ n = ((Signed(a, n) * (b % 2 ^ n)) \div 2 ^ n) % 2 ^ n
  PROVE  IsaResult("mulhsu", n, a % 2 ^ n, b % 2 ^ n, r % 2 ^ n)
<1> DEFINE m == 2 ^ n
           h == 2 ^ (n - 1)
           x == Signed(a % m, n)
           y == b % m
           s == Signed(r % m, n)
           q == (x * y) \div m
           e == (x * y) % m
<1>1. m \in Nat \ {0} /\ h \in Nat \ {0} /\ m = 2 * h
  BY HalfPower
<1>2. x = Signed(a, n) /\ s = Signed(r, n)
  <2>1. n \in Nat /\ n <= n
    OBVIOUS
  <2> QED BY <2>1, SignedLow
<1>3. x \in Int /\ - h <= x /\ x < h /\ y \in 0 .. m - 1
  BY <1>2, SignedIs, Reduced
<1>4. x * y \in Int
  <2> HIDE DEF m, h, x, y
  <2> QED BY <1>1, <1>3
<1>5. q \in Int /\ e \in 0 .. m - 1 /\ x * y = m * q + e
  <2> HIDE DEF m, h, x, y
  <2> QED BY <1>1, <1>4, IntDivided
<1>6. q % m = r % m
  BY <1>2
<1>7. - h <= q /\ q < h
  <2> HIDE DEF m, h, x, y, q, e
  <2>1. x * y <= h * y /\ - (h * y) <= x * y
    BY <1>1, <1>3
  <2>2. h * y <= h * (m - 1)
    BY <1>1, <1>3
  <2>3. h * (m - 1) = h * m - h /\ h * m \in Nat /\ h * y \in Nat
    BY <1>1, <1>3
  <2>4. q >= h => m * q >= h * m
    BY <1>1, <1>5
  <2>5. q <= - h - 1 => m * q <= - (h * m) - m
    <3>1. q <= - h - 1 => m * q <= m * (- h - 1)
      BY <1>1, <1>5
    <3>2. m * (- h - 1) = - (h * m) - m
      BY <1>1
    <3> QED BY <3>1, <3>2
  <2>6. m * q \in Int
    BY <1>1, <1>5
  <2> QED BY <1>1, <1>4, <1>5, <2>1, <2>2, <2>3, <2>4, <2>5, <2>6
<1>8. s = q
  <2>1. Signed(r, n) = q
    <3> HIDE DEF q
    <3> QED BY <1>5, <1>6, <1>7, SignedUnique
  <2> QED BY <1>2, <2>1
<1> HIDE DEF x, y, s, q, e
<1>9. x * y - s * m = e
  <2> HIDE DEF m, h
  <2>1. q * m = m * q /\ m * q \in Int
    BY <1>1, <1>5
  <2> QED BY <1>4, <1>5, <1>8, <2>1
<1>10. x * y - s * m \in 0 .. m - 1
  BY <1>5, <1>9
<1> QED BY <1>10 DEF IsaResult, m, x, y, s

----------------------------------------------------------------------------
(* ... shifts, bitwise operations and comparisons; ...                     *)

\* The digits of a signed number repeat its sign.
LEMMA SignedDigit ==
  ASSUME NEW a \in Int, NEW n \in Nat \ {0}, NEW j \in Nat
  PROVE  Digit(Signed(a, n), j) = Digit(a, Least(j, n - 1))
<1> DEFINE s == Signed(a, n)
           h == 2 ^ (n - 1)
           p == 2 ^ j
<1>1. s \in Int /\ - h <= s /\ s < h /\ s % 2 ^ n = a % 2 ^ n
  BY SignedIs
<1>2. h \in Nat \ {0} /\ p \in Nat \ {0}
  BY HalfPower, Powers
<1>3. \A i \in 0 .. n - 1 : Digit(s, i) = Digit(a, i)
  <2> HIDE DEF s
  <2> QED BY <1>1, IntLowDigits
<1>4. \A k \in Nat : k >= n - 1 => Digit(s, k) = IF s < 0 THEN 1 ELSE 0
  <2> SUFFICES ASSUME NEW k \in Nat, k >= n - 1
               PROVE  Digit(s, k) = IF s < 0 THEN 1 ELSE 0
    OBVIOUS
  <2> DEFINE z == 2 ^ k
  <2>1. z \in Nat \ {0} /\ h <= z
    BY Powers, PowersGrow
  <2> HIDE DEF s, h, z
  <2>2. CASE s < 0
    <3>1. s = z * (-1) + (s + z) /\ s + z \in 0 .. z - 1 /\ -1 \in Int
      BY <1>1, <1>2, <2>1, <2>2
    <3>2. (z * (-1) + (s + z)) \div z = -1
      BY <2>1, <3>1, IntDivision
    <3>3. s \div z = -1
      BY <3>1, <3>2
    <3>4. PICK q \in Int : q = -1
      OBVIOUS
    <3>5. (2 * q + 1) % 2 = 1
      <4>1. 2 \in Nat \ {0} /\ 1 \in 0 .. 2 - 1
        OBVIOUS
      <4> QED BY <4>1, IntDivision
    <3>6. s \div z = 2 * q + 1
      BY <3>3, <3>4
    <3> QED BY <2>2, <3>5, <3>6 DEF Digit, z
  <2>3. CASE s >= 0
    <3>1. s = z * 0 + s /\ s \in 0 .. z - 1 /\ 0 \in Int
      BY <1>1, <1>2, <2>1, <2>3
    <3>2. (z * 0 + s) \div z = 0
      BY <2>1, <3>1, IntDivision
    <3>3. s \div z = 0
      BY <3>1, <3>2
    <3>4. 0 % 2 = 0 /\ ~(s < 0)
      BY <1>1, <2>3
    <3> QED BY <3>3, <3>4 DEF Digit, z
  <2> QED BY <1>1, <2>2, <2>3
<1> HIDE DEF s
<1>5. CASE j <= n - 1
  <2>1. Least(j, n - 1) = j /\ j \in 0 .. n - 1
    BY <1>5 DEF Least
  <2> QED BY <1>3, <2>1 DEF s
<1>6. CASE j > n - 1
  <2>1. Least(j, n - 1) = n - 1 /\ n - 1 \in 0 .. n - 1 /\ n - 1 \in Nat /\ j >= n - 1
    BY <1>6 DEF Least
  <2>2. Digit(s, j) = Digit(s, n - 1)
    BY <1>4, <2>1
  <2> QED BY <1>3, <2>1, <2>2 DEF s
<1> QED BY <1>5, <1>6

\* Which digits of a number are ones depends on its remainder only.
LEMMA OnesOf ==
  ASSUME NEW n \in Nat \ {0}, NEW x \in Int
  PROVE  Ones(x % 2 ^ n, n) = {i \in 0 .. n - 1 : Digit(x, i) = 1}
BY IntLowDigits DEF Ones

\* sll moves the ones up and drops those that leave the register.
LEMMA IsaSll ==
  ASSUME NEW n \in Nat \ {0}, NEW a \in Int, NEW b \in Int, NEW r \in Int,
         NEW k \in 0 .. n - 1, k = (b % 2 ^ n) % n,
         r % 2 ^ n = (a * 2 ^ k) % 2 ^ n
  PROVE  IsaResult("sll", n, a % 2 ^ n, b % 2 ^ n, r % 2 ^ n)
<1>1. k \in Nat /\ 2 ^ k \in Nat \ {0} /\ a * 2 ^ k \in Int
  BY Powers
<1>2. Ones(r % 2 ^ n, n) = {i \in 0 .. n - 1 : Digit(a * 2 ^ k, i) = 1}
  BY <1>1, OnesOf
<1>3. Ones(a % 2 ^ n, n) = {i \in 0 .. n - 1 : Digit(a, i) = 1}
  BY OnesOf
<1>4. \A i \in 0 .. n - 1 : Digit(a * 2 ^ k, i) = 1 <=> i - k \in Ones(a % 2 ^ n, n)
  <2> SUFFICES ASSUME NEW i \in 0 .. n - 1
               PROVE  Digit(a * 2 ^ k, i) = 1 <=> i - k \in Ones(a % 2 ^ n, n)
    OBVIOUS
  <2>1. /\ i >= k => Digit(a * 2 ^ k, i) = Digit(a, i - k)
        /\ i < k => Digit(a * 2 ^ k, i) = 0
    <3>1. i \in Nat
      OBVIOUS
    <3> QED BY ONLY a \in Int, <1>1, <3>1, LeftDigits, ZenonT(60)
  <2>2. i - k \in 0 .. n - 1 <=> i >= k
    OBVIOUS
  <2> QED BY <1>3, <2>1, <2>2
<1>5. Ones(r % 2 ^ n, n) = {i \in 0 .. n - 1 : i - k \in Ones(a % 2 ^ n, n)}
  BY <1>2, <1>4
<1> QED BY <1>5 DEF IsaResult

\* srl moves the ones down.
LEMMA IsaSrl ==
  ASSUME NEW n \in Nat \ {0}, NEW a \in Int, NEW b \in Int, NEW r \in Int,
         NEW k \in 0 .. n - 1, k = (b % 2 ^ n) % n,
         r % 2 ^ n = ((a % 2 ^ n) \div 2 ^ k) % 2 ^ n
  PROVE  IsaResult("srl", n, a % 2 ^ n, b % 2 ^ n, r % 2 ^ n)
<1> DEFINE u == a % 2 ^ n
<1>1. k \in Nat /\ 2 ^ k \in Nat \ {0} /\ u \in 0 .. 2 ^ n - 1 /\ u \in Int /\ 2 ^ n \in Nat \ {0}
  <2>1. k \in Nat /\ n \in Nat
    OBVIOUS
  <2> QED BY <2>1, Powers, Reduced
<1> HIDE DEF u
<1>2. u \div 2 ^ k \in Int
  BY <1>1, IntDivided
<1>3. Ones(r % 2 ^ n, n) = {i \in 0 .. n - 1 : Digit(u \div 2 ^ k, i) = 1}
  BY <1>2, OnesOf DEF u
<1>4. \A i \in 0 .. n - 1 : Digit(u \div 2 ^ k, i) = 1 <=> i + k \in Ones(u, n)
  <2> SUFFICES ASSUME NEW i \in 0 .. n - 1
               PROVE  Digit(u \div 2 ^ k, i) = 1 <=> i + k \in Ones(u, n)
    OBVIOUS
  <2>1. i \in Nat /\ i + k \in Nat
    OBVIOUS
  <2>2. Digit(u \div 2 ^ k, i) = Digit(u, i + k)
    BY <1>1, <2>1, RightDigits
  <2>3. ASSUME i + k >= n PROVE Digit(u, i + k) = 0
    <3>1. 2 ^ n <= 2 ^ (i + k) /\ 2 ^ (i + k) \in Nat
      BY <2>1, <2>3, PowersGrow, Powers
    <3>2. u \in Nat /\ u < 2 ^ (i + k)
      BY <1>1, <3>1
    <3> QED BY <2>1, <3>2, HighDigit
  <2> QED BY <2>1, <2>2, <2>3 DEF Ones
<1>5. Ones(r % 2 ^ n, n) = {i \in 0 .. n - 1 : i + k \in Ones(u, n)}
  BY <1>3, <1>4
<1> QED BY <1>5 DEF IsaResult, u

\* sra moves the ones down and repeats the sign.
LEMMA IsaSra ==
  ASSUME NEW n \in Nat \ {0}, NEW a \in Int, NEW b \in Int, NEW r \in Int,
         NEW k \in 0 .. n - 1, k = (b % 2 ^ n) % n,
         r % 2 ^ n = (Signed(a, n) \div 2 ^ k) % 2 ^ n
  PROVE  IsaResult("sra", n, a % 2 ^ n, b % 2 ^ n, r % 2 ^ n)
<1> DEFINE s == Signed(a, n)
<1>1. k \in Nat /\ 2 ^ k \in Nat \ {0} /\ s \in Int
  BY Powers, SignedIs
<1> HIDE DEF s
<1>2. s \div 2 ^ k \in Int
  BY <1>1, IntDivided
<1>3. Ones(r % 2 ^ n, n) = {i \in 0 .. n - 1 : Digit(s \div 2 ^ k, i) = 1}
  BY <1>2, OnesOf DEF s
<1>4. Ones(a % 2 ^ n, n) = {i \in 0 .. n - 1 : Digit(a, i) = 1}
  BY OnesOf
<1>5. \A i \in 0 .. n - 1 :
        Digit(s \div 2 ^ k, i) = 1 <=> Least(i + k, n - 1) \in Ones(a % 2 ^ n, n)
  <2> SUFFICES ASSUME NEW i \in 0 .. n - 1
               PROVE  Digit(s \div 2 ^ k, i) = 1 <=> Least(i + k, n - 1) \in Ones(a % 2 ^ n, n)
    OBVIOUS
  <2>1. i \in Nat /\ i + k \in Nat /\ Least(i + k, n - 1) \in 0 .. n - 1
    BY DEF Least
  <2>2. Digit(s \div 2 ^ k, i) = Digit(s, i + k)
    BY <1>1, <2>1, RightDigits
  <2>3. Digit(s, i + k) = Digit(a, Least(i + k, n - 1))
    BY <2>1, SignedDigit DEF s
  <2> QED BY <1>4, <2>1, <2>2, <2>3
<1>6. Ones(r % 2 ^ n, n) = {i \in 0 .. n - 1 : Least(i + k, n - 1) \in Ones(a % 2 ^ n, n)}
  BY <1>3, <1>5
<1> QED BY <1>6 DEF IsaResult

\* xor, or and and: union, difference and intersection of the ones.
LEMMA IsaBitwise ==
  ASSUME NEW a \in Register, NEW b \in Register
  PROVE  /\ IsaResult("xor", XLEN, a, b, Bitwise(Xor, a, b))
         /\ IsaResult("or", XLEN, a, b, Bitwise(Or, a, b))
         /\ IsaResult("and", XLEN, a, b, Bitwise(And, a, b))
<1>1. a \in Nat /\ b \in Nat
  BY Widths DEF Register
<1>2. \A i \in 0 .. XLEN - 1 : Digit(a, i) \in {0, 1} /\ Digit(b, i) \in {0, 1}
  BY <1>1, Widths, DigitType
<1>3. \A i \in 0 .. XLEN - 1 : Digit(Bitwise(Xor, a, b), i) = Xor[Digit(a, i)][Digit(b, i)]
  BY <1>1, BitwiseDigits, BitFunctions
<1>4. \A i \in 0 .. XLEN - 1 : Digit(Bitwise(Or, a, b), i) = Or[Digit(a, i)][Digit(b, i)]
  BY <1>1, BitwiseDigits, BitFunctions
<1>5. \A i \in 0 .. XLEN - 1 : Digit(Bitwise(And, a, b), i) = And[Digit(a, i)][Digit(b, i)]
  BY <1>1, BitwiseDigits, BitFunctions
<1> DEFINE A == Ones(a, XLEN)
           B == Ones(b, XLEN)
<1>6. Ones(Bitwise(Xor, a, b), XLEN) = (A \ B) \cup (B \ A)
  BY <1>2, <1>3, BitFunctions DEF Ones
<1>7. Ones(Bitwise(Or, a, b), XLEN) = A \cup B
  BY <1>2, <1>4, BitFunctions DEF Ones
<1>8. Ones(Bitwise(And, a, b), XLEN) = A \cap B
  BY <1>2, <1>5, BitFunctions DEF Ones
<1> QED BY <1>6, <1>7, <1>8 DEF IsaResult

\* The order of signed numbers, by their signs and by their bits.
LEMMA SignedLessIs ==
  ASSUME NEW n \in Nat \ {0}, NEW a \in 0 .. 2 ^ n - 1, NEW b \in 0 .. 2 ^ n - 1
  PROVE  Signed(a, n) < Signed(b, n) <=> SignedLess(a, b, n)
<1> DEFINE h == 2 ^ (n - 1)
           m == 2 ^ n
<1>1. h \in Nat \ {0} /\ m = 2 * h /\ m \in Nat \ {0} /\ a \in Nat /\ b \in Nat
  BY HalfPower
<1>2. a % m = a /\ b % m = b
  BY <1>1, SmallRemainder
<1>3. /\ Digit(a, n - 1) \in {0, 1} /\ (Digit(a, n - 1) = 1 <=> a >= h)
      /\ Digit(b, n - 1) \in {0, 1} /\ (Digit(b, n - 1) = 1 <=> b >= h)
  BY <1>1, <1>2, TopDigit
<1>4. /\ Signed(a, n) = IF a >= h THEN a - m ELSE a
      /\ Signed(b, n) = IF b >= h THEN b - m ELSE b
  BY <1>2 DEF Signed
<1>5. a \in 0 .. m - 1 /\ b \in 0 .. m - 1
  OBVIOUS
<1> DEFINE d == Digit(a, n - 1)
           e == Digit(b, n - 1)
<1>6. SignedLess(a, b, n) <=> IF d = e THEN a < b ELSE d = 1
  BY DEF SignedLess
<1>7. d \in {0, 1} /\ (d = 1 <=> a >= h) /\ e \in {0, 1} /\ (e = 1 <=> b >= h)
  BY <1>3
<1> HIDE DEF d, e, h, m
<1>8. Signed(a, n) < Signed(b, n) <=> IF d = e THEN a < b ELSE d = 1
  BY <1>1, <1>4, <1>5, <1>7
<1> QED BY <1>6, <1>8

\* slt and sltu.
LEMMA IsaLess ==
  ASSUME NEW n \in Nat \ {0}, NEW a \in 0 .. 2 ^ n - 1, NEW b \in 0 .. 2 ^ n - 1
  PROVE  /\ IsaResult("slt", n, a, b, Truth(Signed(a, n) < Signed(b, n)))
         /\ IsaResult("sltu", n, a, b, Truth(a < b))
<1> DEFINE m == 2 ^ n
<1>1. m \in Nat \ {0} /\ 2 * m \in Nat \ {0} /\ a \in 0 .. m - 1 /\ b \in 0 .. m - 1
  BY Powers
<1>2. Truth(Signed(a, n) < Signed(b, n)) = Truth(SignedLess(a, b, n))
  BY SignedLessIs DEF Truth
<1>3. (a - b) % (2 * m) >= m <=> a < b
  <2> HIDE DEF m
  <2>1. CASE a >= b
    <3>1. a - b \in 0 .. 2 * m - 1
      BY <1>1, <2>1
    <3>2. (a - b) % (2 * m) = a - b
      BY <1>1, <3>1, SmallRemainder
    <3> QED BY <1>1, <2>1, <3>2
  <2>2. CASE a < b
    <3>1. a - b = (2 * m) * (-1) + (2 * m + a - b) /\ 2 * m + a - b \in 0 .. 2 * m - 1 /\ -1 \in Int
      BY <1>1, <2>2
    <3>2. ((2 * m) * (-1) + (2 * m + a - b)) % (2 * m) = 2 * m + a - b
      BY <1>1, <3>1, IntDivision
    <3> QED BY <1>1, <2>2, <3>1, <3>2
  <2> QED BY <1>1, <2>1, <2>2
<1>4. Truth(a < b) = Truth((a - b) % (2 * m) >= m)
  BY <1>3 DEF Truth
<1> QED BY <1>2, <1>4 DEF IsaResult

----------------------------------------------------------------------------
(* ... quotients and remainders.                                           *)

\* The quotient rounds towards zero, so that the remainder has the sign of the
\* dividend.
LEMMA QuotientIs ==
  ASSUME NEW x \in Int, NEW y \in Int, y # 0
  PROVE  /\ Quotient(x, y) \in Int /\ Remainder(x, y) \in Int
         /\ x = Quotient(x, y) * y + Remainder(x, y)
         /\ IsRemainder(x, y, Remainder(x, y))
         /\ Magnitude(Quotient(x, y)) * Magnitude(y) <= Magnitude(x)
<1> DEFINE p == Magnitude(x)
           m == Magnitude(y)
           q == p \div m
           e == p % m
<1>1. /\ p \in Nat /\ p = (IF x < 0 THEN 0 - x ELSE x)
      /\ m \in Nat \ {0} /\ m = (IF y < 0 THEN 0 - y ELSE y)
  BY DEF Magnitude
<1>2. Quotient(x, y) = IF (x < 0) = (y < 0) THEN q ELSE 0 - q
  BY DEF Quotient, Magnitude
<1> HIDE DEF p, m
<1>3. q \in Int /\ e \in 0 .. m - 1 /\ p = m * q + e
  <2>1. p \in Int /\ m \in Nat \ {0}
    BY <1>1
  <2> QED BY <2>1, IntDivided
<1> HIDE DEF q, e
<1>4. q \in Nat
  <2>1. q <= -1 => m * q <= - m
    BY <1>1, <1>3
  <2> QED BY <1>1, <1>3, <2>1
<1> DEFINE z == Quotient(x, y)
           r == Remainder(x, y)
<1>5. z \in Int /\ Magnitude(z) = q
  BY <1>2, <1>4 DEF Magnitude
<1>6. r = x - y * z
  BY DEF Remainder
<1>7. y * z = IF x < 0 THEN 0 - m * q ELSE m * q
  <2>1. CASE x < 0 /\ y < 0
    BY <1>1, <1>2, <1>4, <2>1
  <2>2. CASE x < 0 /\ ~(y < 0)
    BY <1>1, <1>2, <1>4, <2>2
  <2>3. CASE ~(x < 0) /\ y < 0
    BY <1>1, <1>2, <1>4, <2>3
  <2>4. CASE ~(x < 0) /\ ~(y < 0)
    BY <1>1, <1>2, <1>4, <2>4
  <2> QED BY <2>1, <2>2, <2>3, <2>4
<1>8. m * q \in Int /\ y * z \in Int /\ z * y = y * z
  BY <1>1, <1>4, <1>5
<1> HIDE DEF z, r
<1>9. r = IF x < 0 THEN 0 - e ELSE e
  BY <1>1, <1>3, <1>6, <1>7, <1>8
<1>10. r \in Int /\ IsRemainder(x, y, r)
  <2>1. Magnitude(r) = e /\ r \in Int
    BY <1>3, <1>9 DEF Magnitude
  <2>2. e < m /\ (r = 0 \/ (r < 0) = (x < 0))
    BY <1>1, <1>3, <1>9
  <2> QED BY <2>1, <2>2 DEF IsRemainder, m
<1>11. x = z * y + r
  BY <1>6, <1>8, <1>10
<1>12. Magnitude(z) * m <= p
  <2>1. q * m = m * q
    BY <1>1, <1>4
  <2> QED BY <1>1, <1>3, <1>5, <1>8, <2>1
<1> QED BY <1>5, <1>10, <1>11, <1>12 DEF z, r, m, p

\* Quotients stay in the range of their operands except for MIN / -1.
LEMMA QuotientRange ==
  ASSUME NEW h \in Nat \ {0}, NEW x \in - h .. h - 1, NEW y \in - h .. h - 1, y # 0
  PROVE  /\ ~(x = 0 - h /\ y = -1) => Quotient(x, y) \in - h .. h - 1
         /\ Remainder(x, y) \in - h .. h - 1
         /\ x = 0 - h /\ y = -1 => Quotient(x, y) = h
<1> DEFINE z == Quotient(x, y)
           r == Remainder(x, y)
<1>1. x \in Int /\ y \in Int
  OBVIOUS
<1>2. /\ z \in Int /\ r \in Int /\ x = z * y + r /\ IsRemainder(x, y, r)
      /\ Magnitude(z) * Magnitude(y) <= Magnitude(x)
  BY <1>1, QuotientIs
<1> HIDE DEF z, r
<1>3. Magnitude(y) \in Nat \ {0} /\ Magnitude(x) \in Nat /\ Magnitude(z) \in Nat
  BY <1>1, <1>2 DEF Magnitude
<1>4. r \in - h .. h - 1
  BY <1>1, <1>2 DEF IsRemainder, Magnitude
<1>5. CASE y = 1 \/ y = -1
  <2>1. Magnitude(y) = 1
    BY <1>5 DEF Magnitude
  <2>2. r = 0
    BY <1>2, <2>1 DEF IsRemainder, Magnitude
  <2>3. x = z * y
    BY <1>2, <2>2
  <2>4. z = IF y = 1 THEN x ELSE 0 - x
    BY <1>1, <1>2, <1>5, <2>3
  <2> QED BY <1>4, <1>5, <2>4 DEF z, r
<1>6. CASE ~(y = 1 \/ y = -1)
  <2>1. Magnitude(y) >= 2
    BY <1>6 DEF Magnitude
  <2>2. Magnitude(z) * 2 <= Magnitude(z) * Magnitude(y)
    BY <1>3, <2>1
  <2>3. Magnitude(z) * Magnitude(y) \in Nat
    BY <1>3
  <2>4. Magnitude(z) * 2 <= Magnitude(x)
    BY <1>2, <1>3, <2>2, <2>3
  <2>5. Magnitude(x) <= h
    BY DEF Magnitude
  <2>6. Magnitude(z) < h
    BY <1>3, <2>4, <2>5
  <2>7. z \in - h .. h - 1
    BY <1>2, <2>6 DEF Magnitude
  <2> QED BY <1>4, <1>6, <2>7 DEF z, r
<1> QED BY <1>5, <1>6

\* Zero is the number whose signed value is zero.
LEMMA SignedZero ==
  ASSUME NEW n \in Nat \ {0}, NEW b \in Int
  PROVE  Signed(b, n) = 0 <=> b % 2 ^ n = 0
<1>1. 2 ^ (n - 1) \in Nat \ {0} /\ 2 ^ n = 2 * 2 ^ (n - 1) /\ 2 ^ n \in Nat \ {0}
  BY HalfPower
<1>2. b % 2 ^ n \in 0 .. 2 ^ n - 1
  BY <1>1, IntDivided
<1> QED BY <1>1, <1>2 DEF Signed

\* div: also by zero, and of the least number by -1.
LEMMA IsaDiv ==
  ASSUME NEW n \in Nat \ {0}, NEW a \in Int, NEW b \in Int, NEW r \in Int,
         r % 2 ^ n = (IF Signed(b, n) = 0 THEN -1 ELSE Quotient(Signed(a, n), Signed(b, n))) % 2 ^ n
  PROVE  IsaResult("div", n, a % 2 ^ n, b % 2 ^ n, r % 2 ^ n)
<1> DEFINE m == 2 ^ n
           h == 2 ^ (n - 1)
           x == Signed(a % m, n)
           y == Signed(b % m, n)
           s == Signed(r % m, n)
<1>1. m \in Nat \ {0} /\ h \in Nat \ {0} /\ m = 2 * h
  BY HalfPower
<1>2. x = Signed(a, n) /\ y = Signed(b, n) /\ s = Signed(r, n)
  <2>1. n \in Nat /\ n <= n
    OBVIOUS
  <2> QED BY <2>1, SignedLow
<1>3. x \in Int /\ - h <= x /\ x < h /\ y \in Int /\ - h <= y /\ y < h
  BY <1>2, SignedIs
<1>4. y = 0 <=> b % m = 0
  BY <1>2, SignedZero
<1>5. r % m = (IF y = 0 THEN -1 ELSE Quotient(x, y)) % m
  BY <1>2
<1>6. IsaResult("div", n, a % m, b % m, r % m)
      <=> IF b % m = 0 THEN r % m = m - 1
          ELSE \E q \in {s, s + m} : IsRemainder(x, y, x - q * y)
  BY DEF IsaResult
<1>7. ASSUME y = 0 PROVE r % m = m - 1
  <2>1. PICK c \in Int : c = -1
    OBVIOUS
  <2> HIDE DEF m
  <2>2. m - 1 \in 0 .. m - 1
    BY <1>1
  <2>3. (m * c + (m - 1)) % m = m - 1
    BY <1>1, <2>1, <2>2, IntDivision
  <2>4. m * c + (m - 1) = -1
    BY <1>1, <2>1
  <2> QED BY <1>5, <1>7, <2>3, <2>4
<1>8. ASSUME y # 0 PROVE \E q \in {s, s + m} : IsRemainder(x, y, x - q * y)
  <2> DEFINE z == Quotient(x, y)
  <2>1. z \in Int /\ Remainder(x, y) \in Int /\ x = z * y + Remainder(x, y)
        /\ IsRemainder(x, y, Remainder(x, y))
    <3> HIDE DEF x, y
    <3> QED BY <1>3, <1>8, QuotientIs
  <2>2. x - z * y = Remainder(x, y)
    <3> HIDE DEF x, y, z
    <3>1. z * y \in Int
      BY <1>3, <2>1
    <3> QED BY <1>3, <2>1, <3>1
  <2>3. x \in - h .. h - 1 /\ y \in - h .. h - 1
    <3> HIDE DEF x, y, h
    <3> QED BY <1>1, <1>3
  <2>4. z \in {s, s + m}
    <3>1. r % m = z % m
      BY <1>5, <1>8
    <3>2. CASE x = 0 - h /\ y = -1
      <4>1. z = h
        <5> HIDE DEF x, y, h
        <5> QED BY <1>1, <1>8, <2>3, <3>2, QuotientRange
      <4>2. PICK c \in Int : c = - h /\ - h <= c /\ c < h
        <5> HIDE DEF h
        <5> QED BY <1>1
      <4>3. (c + 1 * m) % m = c % m
        <5>1. 1 \in Int
          OBVIOUS
        <5> HIDE DEF m
        <5> QED BY <1>1, <4>2, <5>1, Shifted, ZenonT(60)
      <4>4. c + 1 * m = z
        <5> HIDE DEF h, m, z
        <5> QED BY <1>1, <4>1, <4>2
      <4>5. Signed(r, n) = c
        BY <3>1, <4>2, <4>3, <4>4, SignedUnique
      <4>6. z = s + m
        <5> HIDE DEF h, m, z, s
        <5> QED BY <1>1, <1>2, <4>4, <4>5
      <4> QED BY <4>6
    <3>3. CASE ~(x = 0 - h /\ y = -1)
      <4>1. z \in - h .. h - 1
        <5> HIDE DEF x, y, h
        <5> QED BY <1>1, <1>8, <2>3, <3>3, QuotientRange
      <4>2. - h <= z /\ z < h
        <5> HIDE DEF h, z
        <5> QED BY <1>1, <4>1
      <4>3. Signed(r, n) = z
        <5> HIDE DEF z
        <5> QED BY <2>1, <3>1, <4>2, SignedUnique
      <4> QED BY <1>2, <4>3
    <3> QED BY <3>2, <3>3
  <2> HIDE DEF x, y, z, s, m
  <2> QED BY <2>1, <2>2, <2>4
<1> QED BY <1>4, <1>6, <1>7, <1>8

\* rem, with the same exceptions.
LEMMA IsaRem ==
  ASSUME NEW n \in Nat \ {0}, NEW a \in Int, NEW b \in Int, NEW r \in Int,
         Signed(b, n) # 0, r % 2 ^ n = Remainder(Signed(a, n), Signed(b, n)) % 2 ^ n
  PROVE  IsaResult("rem", n, a % 2 ^ n, b % 2 ^ n, r % 2 ^ n)
<1> DEFINE m == 2 ^ n
           h == 2 ^ (n - 1)
           x == Signed(a % m, n)
           y == Signed(b % m, n)
           s == Signed(r % m, n)
           z == Quotient(x, y)
           e == Remainder(x, y)
<1>1. m \in Nat \ {0} /\ h \in Nat \ {0} /\ m = 2 * h
  BY HalfPower
<1>2. x = Signed(a, n) /\ y = Signed(b, n) /\ s = Signed(r, n)
  <2>1. n \in Nat /\ n <= n
    OBVIOUS
  <2> QED BY <2>1, SignedLow
<1>3. x \in Int /\ - h <= x /\ x < h /\ y \in Int /\ - h <= y /\ y < h /\ y # 0
  BY <1>2, SignedIs
<1>4. b % m # 0
  BY <1>2, <1>3, SignedZero
<1>5. r % m = e % m
  BY <1>2
<1>6. IsaResult("rem", n, a % m, b % m, r % m)
      <=> IF b % m = 0 THEN r % m = a % m
          ELSE (x - s) % Magnitude(y) = 0 /\ IsRemainder(x, y, s)
  BY DEF IsaResult
<1>7. z \in Int /\ e \in Int /\ x = z * y + e /\ IsRemainder(x, y, e)
  <2> HIDE DEF x, y
  <2> QED BY <1>3, QuotientIs
<1>8. - h <= e /\ e < h
  <2> HIDE DEF x, y, h
  <2>1. x \in - h .. h - 1 /\ y \in - h .. h - 1
    BY <1>1, <1>3
  <2>2. e \in - h .. h - 1
    BY <1>1, <1>3, <2>1, QuotientRange
  <2> HIDE DEF e
  <2> QED BY <1>1, <2>2
<1>9. s = e
  <2>1. Signed(r, n) = e
    <3> HIDE DEF e
    <3> QED BY <1>5, <1>7, <1>8, SignedUnique
  <2> QED BY <1>2, <2>1
<1>10. (x - e) % Magnitude(y) = 0
  <2> DEFINE p == Magnitude(y)
  <2> HIDE DEF x, y, z, e
  <2>1. p \in Nat \ {0} /\ (y = p \/ y = 0 - p)
    BY <1>3 DEF Magnitude
  <2>2. PICK c \in Int : c = (IF y = p THEN z ELSE 0 - z)
    BY <1>7
  <2> HIDE DEF p
  <2>3. x - e = p * c + 0 /\ 0 \in 0 .. p - 1
    <3>1. z * y = p * c /\ z * y \in Int
      BY <1>3, <1>7, <2>1, <2>2
    <3> QED BY <1>3, <1>7, <2>1, <3>1
  <2>4. (p * c + 0) % p = 0
    BY <2>1, <2>3, IntDivision
  <2> QED BY <2>3, <2>4 DEF p
<1> QED BY <1>4, <1>6, <1>7, <1>9, <1>10

\* Quotient and remainder of natural numbers.
LEMMA NaturalQuotient ==
  ASSUME NEW a \in Nat, NEW b \in Nat \ {0}
  PROVE  /\ Quotient(a, b) \in Nat /\ Remainder(a, b) \in 0 .. b - 1
         /\ a = Quotient(a, b) * b + Remainder(a, b)
         /\ Quotient(a, b) <= a /\ Remainder(a, b) <= a
<1> DEFINE z == Quotient(a, b)
           r == Remainder(a, b)
<1>1. /\ z \in Int /\ r \in Int /\ a = z * b + r /\ IsRemainder(a, b, r)
      /\ Magnitude(z) * Magnitude(b) <= Magnitude(a)
  <2>1. a \in Int /\ b \in Int /\ b # 0
    OBVIOUS
  <2> QED BY <2>1, QuotientIs
<1> HIDE DEF z, r
<1>2. r \in 0 .. b - 1
  BY <1>1 DEF IsRemainder, Magnitude
<1>3. z >= 0
  <2>1. z <= -1 => z * b <= - b
    BY <1>1
  <2>2. z * b \in Int
    BY <1>1
  <2> QED BY <1>1, <1>2, <2>1, <2>2
<1>4. z * b >= z /\ z * b >= 0
  BY <1>1, <1>3
<1>5. z <= a /\ r <= a
  <2>1. z * b \in Int
    BY <1>1
  <2> QED BY <1>1, <1>2, <1>3, <1>4, <2>1
<1> QED BY <1>1, <1>2, <1>3, <1>5 DEF z, r

\* divu and remu.
LEMMA IsaDivu ==
  ASSUME NEW n \in Nat \ {0}, NEW a \in 0 .. 2 ^ n - 1, NEW b \in 0 .. 2 ^ n - 1
  PROVE  /\ b = 0 => IsaResult("divu", n, a, b, 2 ^ n - 1)
         /\ b = 0 => IsaResult("remu", n, a, b, a)
         /\ b # 0 => IsaResult("divu", n, a, b, Quotient(a, b))
         /\ b # 0 => IsaResult("remu", n, a, b, Remainder(a, b))
<1>1. b = 0 => IsaResult("divu", n, a, b, 2 ^ n - 1) /\ IsaResult("remu", n, a, b, a)
  BY DEF IsaResult
<1>2. ASSUME b # 0
      PROVE  /\ IsaResult("divu", n, a, b, Quotient(a, b))
             /\ IsaResult("remu", n, a, b, Remainder(a, b))
  <2> DEFINE z == Quotient(a, b)
             r == Remainder(a, b)
  <2>1. 2 ^ n \in Nat
    BY Powers
  <2>2. a \in Nat /\ b \in Nat \ {0}
    BY <1>2, <2>1
  <2>3. z \in Nat /\ r \in 0 .. b - 1 /\ a = z * b + r
    BY <2>2, NaturalQuotient
  <2> HIDE DEF z, r
  <2>4. z * b \in Nat /\ z * b = b * z + 0 /\ 0 \in 0 .. b - 1
    BY <2>2, <2>3
  <2>5. a - z * b = r /\ a - r = z * b
    BY <2>2, <2>3, <2>4
  <2>6. IsRemainder(a, b, a - z * b)
    BY <2>2, <2>3, <2>5 DEF IsRemainder, Magnitude
  <2>7. (b * z + 0) % b = 0
    BY <2>2, <2>3, <2>4, IntDivision
  <2>8. r < b /\ (a - r) % b = 0
    BY <2>2, <2>3, <2>4, <2>5, <2>7
  <2> QED BY <1>2, <2>6, <2>8 DEF IsaResult, z, r
<1> QED BY <1>1, <1>2

----------------------------------------------------------------------------
(* What the model computes is what the manual says: registers, ...         *)

\* Registers are natural numbers below 2 ^ XLEN.
LEMMA RegisterIs ==
  ASSUME NEW x \in Register
  PROVE  x \in Int /\ x \in Nat /\ x % 2 ^ XLEN = x /\ x \in 0 .. 2 ^ XLEN - 1
<1>1. x \in 0 .. 2 ^ XLEN - 1 /\ 2 ^ XLEN \in Nat \ {0}
  BY Widths DEF Register
<1> QED BY <1>1, SmallRemainder

\* The low bits of a register give the amount of a shift.
LEMMA Amounts ==
  ASSUME NEW b \in Int
  PROVE  /\ b % XLEN \in 0 .. XLEN - 1 /\ b % WORD \in 0 .. WORD - 1
         /\ (b % 2 ^ WORD) % WORD = b % WORD
<1>1. PICK k \in 2 .. WORD : WORD = 2 ^ k
  BY WordAssumption
<1>2. k \in Nat /\ WORD \in Nat /\ k <= WORD
  BY Widths
<1>3. (b % 2 ^ WORD) % 2 ^ k = b % 2 ^ k
  BY <1>2, LowRemainder
<1>4. b % XLEN \in 0 .. XLEN - 1 /\ b % WORD \in 0 .. WORD - 1
  BY Widths, IntDivided
<1> QED BY <1>1, <1>3, <1>4

\* The operation that each operation is a variant of.
LEMMA Bases ==
  /\ \A op \in {"add", "addi", "addw", "addiw"} : Base[op] = "add"
  /\ \A op \in {"sub", "subw"} : Base[op] = "sub"
  /\ \A op \in {"mul", "mulw"} : Base[op] = "mul"
  /\ \A op \in {"mulh"} : Base[op] = "mulh"
  /\ \A op \in {"mulhsu"} : Base[op] = "mulhsu"
  /\ \A op \in {"mulhu"} : Base[op] = "mulhu"
  /\ \A op \in {"sll", "slli", "sllw", "slliw"} : Base[op] = "sll"
  /\ \A op \in {"srl", "srli", "srlw", "srliw"} : Base[op] = "srl"
  /\ \A op \in {"sra", "srai", "sraw", "sraiw"} : Base[op] = "sra"
  /\ \A op \in {"slt", "slti"} : Base[op] = "slt"
  /\ \A op \in {"sltu", "sltiu"} : Base[op] = "sltu"
  /\ \A op \in {"xor", "xori"} : Base[op] = "xor"
  /\ \A op \in {"or", "ori"} : Base[op] = "or"
  /\ \A op \in {"and", "andi"} : Base[op] = "and"
  /\ \A op \in {"div", "divw"} : Base[op] = "div"
  /\ \A op \in {"divu", "divuw"} : Base[op] = "divu"
  /\ \A op \in {"rem", "remw"} : Base[op] = "rem"
  /\ \A op \in {"remu", "remuw"} : Base[op] = "remu"
BY DEF Base, ComputeOps, ImmOps, RegOps, BasicImmOps, BasicOps, MultiplyOps, DivideOps,
       WordImmOps, BasicWordOps, DivideWordOps

\* The basic operations on registers.
LEMMA BasicExact ==
  ASSUME NEW op \in BasicImmOps \cup BasicOps, NEW a \in Register, NEW b \in Register
  PROVE  Basic(op, a, b) \in Register /\ IsaResult(Base[op], XLEN, a, b, Basic(op, a, b))
<1> DEFINE x == Signed(a, XLEN)
           k == b % XLEN
           m == 2 ^ XLEN
           r == Basic(op, a, b)
<1>1. /\ a \in Int /\ a \in Nat /\ a % m = a /\ a \in 0 .. m - 1
      /\ b \in Int /\ b \in Nat /\ b % m = b /\ b \in 0 .. m - 1
  BY RegisterIs
<1>2. k \in 0 .. XLEN - 1 /\ k \in Nat /\ k = (b % m) % XLEN /\ 2 ^ k \in Nat \ {0}
  <2>1. k \in 0 .. XLEN - 1 /\ k \in Nat
    BY <1>1, Widths, Amounts
  <2> QED BY <1>1, <2>1, Powers
<1>3. x \in Int /\ XLEN \in Nat \ {0} /\ m \in Nat \ {0}
  BY <1>1, Widths, SignedIs
<1>4. ASSUME NEW z \in Int, r = Unsigned(z)
      PROVE  r \in Register /\ r \in Int /\ r % m = z % m /\ r % m = r
  BY <1>4, UnsignedIs, RegisterIs
<1>5. 0 \in Register /\ 1 \in Register
  <2>1. 2 ^ (XLEN - 1) \in Nat \ {0} /\ 2 ^ XLEN = 2 * 2 ^ (XLEN - 1)
    BY <1>3, HalfPower
  <2> QED BY <2>1 DEF Register
<1> HIDE DEF x, k, m
<1>6. CASE op \in {"add", "addi"}
  <2>1. r = Unsigned(a + b) /\ a + b \in Int
    BY <1>1, <1>6 DEF Basic
  <2>2. IsaResult("add", XLEN, a % m, b % m, r % m)
    BY <1>1, <1>3, <1>4, <2>1, IsaAdd DEF m
  <2> QED BY <1>1, <1>4, <1>6, <2>1, <2>2, Bases
<1>7. CASE op = "sub"
  <2>1. r = Unsigned(a - b) /\ a - b \in Int
    BY <1>1, <1>7 DEF Basic
  <2>2. IsaResult("sub", XLEN, a % m, b % m, r % m)
    BY <1>1, <1>3, <1>4, <2>1, IsaSub DEF m
  <2> QED BY <1>1, <1>4, <1>7, <2>1, <2>2, Bases
<1>8. CASE op \in {"sll", "slli"}
  <2>1. r = Unsigned(a * 2 ^ k) /\ a * 2 ^ k \in Int
    BY <1>1, <1>2, <1>8 DEF Basic, ShiftLeft, k
  <2>2. IsaResult("sll", XLEN, a % m, b % m, r % m)
    BY <1>1, <1>2, <1>3, <1>4, <2>1, IsaSll DEF m
  <2> QED BY <1>1, <1>4, <1>8, <2>1, <2>2, Bases
<1>9. CASE op \in {"srl", "srli"}
  <2>1. r = a \div 2 ^ k /\ a \div 2 ^ k \in Int
    BY <1>1, <1>2, <1>9, IntDivided DEF Basic, ShiftRight, k
  <2>2. r \in Register
    <3>1. 0 <= a \div 2 ^ k /\ a \div 2 ^ k <= a
      BY <1>1, <1>2
    <3> QED BY <1>1, <1>3, <2>1, <3>1 DEF Register, m
  <2>3. r % m = r
    BY <2>2, RegisterIs DEF m
  <2>4. IsaResult("srl", XLEN, a % m, b % m, r % m)
    BY <1>1, <1>2, <1>3, <2>1, <2>3, IsaSrl DEF m
  <2> QED BY <1>1, <1>9, <2>2, <2>3, <2>4, Bases
<1>10. CASE op \in {"sra", "srai"}
  <2>1. r = Unsigned(x \div 2 ^ k) /\ x \div 2 ^ k \in Int
    BY <1>2, <1>3, <1>10, IntDivided DEF Basic, ShiftRight, k, x
  <2>2. IsaResult("sra", XLEN, a % m, b % m, r % m)
    BY <1>1, <1>2, <1>3, <1>4, <2>1, IsaSra DEF m, x
  <2> QED BY <1>1, <1>4, <1>10, <2>1, <2>2, Bases
<1>11. CASE op \in {"slt", "slti"}
  <2>1. r = Truth(x < Signed(b, XLEN))
    BY <1>11 DEF Basic, x
  <2>2. IsaResult("slt", XLEN, a, b, r)
    BY <1>1, <1>3, <2>1, IsaLess DEF m, x
  <2> QED BY <1>5, <1>11, <2>1, <2>2, Bases DEF Truth
<1>12. CASE op \in {"sltu", "sltiu"}
  <2>1. r = Truth(a < b)
    BY <1>12 DEF Basic
  <2>2. IsaResult("sltu", XLEN, a, b, r)
    BY <1>1, <1>3, <2>1, IsaLess DEF m
  <2> QED BY <1>5, <1>12, <2>1, <2>2, Bases DEF Truth
<1>13. CASE op \in {"xor", "xori"}
  <2>1. r = Bitwise(Xor, a, b)
    BY <1>13 DEF Basic
  <2> QED BY <1>1, <1>13, <2>1, Bases, IsaBitwise, BitwiseDigits, BitFunctions
<1>14. CASE op \in {"or", "ori"}
  <2>1. r = Bitwise(Or, a, b)
    BY <1>14 DEF Basic
  <2> QED BY <1>1, <1>14, <2>1, Bases, IsaBitwise, BitwiseDigits, BitFunctions
<1>15. CASE op \in {"and", "andi"}
  <2>1. r = Bitwise(And, a, b)
    BY <1>15 DEF Basic
  <2> QED BY <1>1, <1>15, <2>1, Bases, IsaBitwise, BitwiseDigits, BitFunctions
<1> QED
  BY <1>6, <1>7, <1>8, <1>9, <1>10, <1>11, <1>12, <1>13, <1>14, <1>15 DEF BasicImmOps, BasicOps

\* Products of registers.
LEMMA MultiplyExact ==
  ASSUME NEW op \in MultiplyOps, NEW a \in Register, NEW b \in Register
  PROVE  Multiply(op, a, b) \in Register /\ IsaResult(Base[op], XLEN, a, b, Multiply(op, a, b))
<1> DEFINE x == Signed(a, XLEN)
           y == Signed(b, XLEN)
           m == 2 ^ XLEN
           r == Multiply(op, a, b)
<1>1. a \in Int /\ a \in Nat /\ a % m = a /\ b \in Int /\ b \in Nat /\ b % m = b
  BY RegisterIs
<1>2. x \in Int /\ y \in Int /\ XLEN \in Nat \ {0} /\ m \in Nat \ {0}
  BY <1>1, Widths, SignedIs
<1>3. ASSUME NEW z \in Int, r = Unsigned(z)
      PROVE  r \in Register /\ r \in Int /\ r % m = z % m /\ r % m = r
  BY <1>3, UnsignedIs, RegisterIs
<1> HIDE DEF x, y, m
<1>4. x * y \in Int /\ x * b \in Int /\ a * b \in Int
  BY <1>1, <1>2
<1>5. (x * y) \div m \in Int /\ (x * b) \div m \in Int /\ (a * b) \div m \in Int
  BY <1>2, <1>4, IntDivided
<1>6. CASE op = "mul"
  <2>1. r = Unsigned(x * y)
    BY <1>6 DEF Multiply, x, y
  <2>2. IsaResult("mul", XLEN, a % m, b % m, r % m)
    BY <1>1, <1>2, <1>3, <1>4, <2>1, IsaMul DEF m, x, y
  <2> QED BY <1>1, <1>3, <1>4, <1>6, <2>1, <2>2, Bases
<1>7. CASE op = "mulh"
  <2>1. r = Unsigned((x * y) \div m)
    BY <1>7 DEF Multiply, x, y, m
  <2>2. IsaResult("mulh", XLEN, a % m, b % m, r % m)
    BY <1>1, <1>2, <1>3, <1>5, <2>1, IsaMulh DEF m, x, y
  <2> QED BY <1>1, <1>3, <1>5, <1>7, <2>1, <2>2, Bases
<1>8. CASE op = "mulhsu"
  <2> DEFINE w == 2 ^ (2 * XLEN)
  <2>1. r = Unsigned((((x % w) * b) % w) \div m)
    BY <1>8 DEF Multiply, x, m
  <2>2. w = m * m /\ w \in Nat \ {0}
    <3>1. 2 * XLEN = XLEN + XLEN /\ XLEN \in Nat
      BY <1>2
    <3>2. 2 ^ (XLEN + XLEN) = 2 ^ XLEN * 2 ^ XLEN
      BY <3>1, PowersAdd
    <3>3. w = m * m
      BY <3>1, <3>2 DEF m
    <3> HIDE DEF w
    <3> QED BY <1>2, <3>3
  <2> HIDE DEF w
  <2>3. ((x % w) * b) % w = (x * b) % w
    BY <1>1, <1>2, <2>2, ReducedOps
  <2>4. ((x * b) % w) \div m = ((x * b) \div m) % m
    BY <1>2, <1>4, <2>2, UpperHalf
  <2>5. r = Unsigned(((x * b) \div m) % m)
    BY <2>1, <2>3, <2>4
  <2>6. ((x * b) \div m) % m \in Int /\ (((x * b) \div m) % m) % m = ((x * b) \div m) % m
    BY <1>2, <1>5, Reduced DEF m
  <2>7. r \in Register /\ r \in Int /\ r % m = ((x * b) \div m) % m /\ r % m = r
    BY <1>3, <2>5, <2>6
  <2>8. IsaResult("mulhsu", XLEN, a % m, b % m, r % m)
    <3>1. r % m = ((x * (b % m)) \div m) % m
      BY <1>1, <2>7
    <3> QED BY <1>1, <1>2, <2>7, <3>1, IsaMulhsu DEF m, x
  <2> QED BY <1>1, <1>8, <2>7, <2>8, Bases
<1>9. CASE op = "mulhu"
  <2>1. r = Unsigned((a * b) \div m)
    BY <1>9 DEF Multiply, m
  <2>2. IsaResult("mulhu", XLEN, a % m, b % m, r % m)
    BY <1>1, <1>2, <1>3, <1>5, <2>1, IsaMulhu DEF m
  <2> QED BY <1>1, <1>3, <1>5, <1>9, <2>1, <2>2, Bases
<1> QED BY <1>6, <1>7, <1>8, <1>9 DEF MultiplyOps

\* Division by zero gives all ones.
LEMMA MinusOne ==
  ASSUME NEW n \in Nat \ {0}
  PROVE  (-1) % 2 ^ n = 2 ^ n - 1
<1> DEFINE m == 2 ^ n
<1>1. m \in Nat \ {0}
  BY Powers
<1>2. PICK c \in Int : c = -1
  OBVIOUS
<1> HIDE DEF m
<1>3. (m * c + (m - 1)) % m = m - 1
  <2>1. m - 1 \in 0 .. m - 1
    BY <1>1
  <2> QED BY <1>1, <1>2, <2>1, IntDivision
<1>4. m * c + (m - 1) = -1
  BY <1>1, <1>2
<1> QED BY <1>3, <1>4 DEF m

\* Quotients and remainders of registers.
LEMMA DivideExact ==
  ASSUME NEW op \in DivideOps, NEW a \in Register, NEW b \in Register
  PROVE  Divide(op, a, b) \in Register /\ IsaResult(Base[op], XLEN, a, b, Divide(op, a, b))
<1> DEFINE x == Signed(a, XLEN)
           y == Signed(b, XLEN)
           h == 2 ^ (XLEN - 1)
           m == 2 ^ XLEN
           r == Divide(op, a, b)
           overflow == x = 0 - h /\ y = -1
<1>1. /\ a \in Int /\ a \in Nat /\ a % m = a /\ a \in 0 .. m - 1
      /\ b \in Int /\ b \in Nat /\ b % m = b /\ b \in 0 .. m - 1
  BY RegisterIs
<1>2. XLEN \in Nat \ {0} /\ m \in Nat \ {0} /\ h \in Nat \ {0} /\ m = 2 * h /\ -1 \in Int
  BY Widths, HalfPower
<1>3. /\ x \in Int /\ - h <= x /\ x < h /\ x % m = a
      /\ y \in Int /\ - h <= y /\ y < h
  BY <1>1, <1>2, SignedIs
<1>4. y = 0 <=> b = 0
  BY <1>1, <1>2, SignedZero
<1>5. ASSUME NEW z \in Int, r = Unsigned(z)
      PROVE  r \in Register /\ r \in Int /\ r % m = z % m /\ r % m = r
  BY <1>5, UnsignedIs, RegisterIs
<1>6. Unsigned(-1) = m - 1
  BY <1>2, MinusOne DEF Unsigned
<1>7. \A z \in 0 .. m - 1 : z \in Register
  BY DEF Register
<1> HIDE DEF x, y, h, m
<1>8. x \in - h .. h - 1 /\ y \in - h .. h - 1
  BY <1>2, <1>3
<1>9. y # 0 => Quotient(x, y) \in Int /\ Remainder(x, y) \in Int
  BY <1>3, QuotientIs
<1>10. overflow => Quotient(x, y) = h /\ Remainder(x, y) = 0 /\ y # 0
  <2> SUFFICES ASSUME overflow PROVE Quotient(x, y) = h /\ Remainder(x, y) = 0 /\ y # 0
    OBVIOUS
  <2>1. Quotient(x, y) = h /\ y # 0
    BY <1>2, <1>8, QuotientRange
  <2>2. Remainder(x, y) = x - y * h
    BY <2>1 DEF Remainder
  <2> QED BY <1>2, <2>1, <2>2
<1>11. CASE op = "div"
  <2>1. r = IF y = 0 THEN Unsigned(-1) ELSE IF overflow THEN a ELSE Unsigned(Quotient(x, y))
    BY <1>11 DEF Divide, x, y, h
  <2>2. /\ r \in Register /\ r \in Int /\ r % m = r
        /\ r % m = (IF y = 0 THEN -1 ELSE Quotient(x, y)) % m
    <3>1. CASE y = 0
      <4>1. r = Unsigned(-1)
        BY <2>1, <3>1
      <4> QED BY <1>2, <1>5, <3>1, <4>1
    <3>2. CASE y # 0 /\ overflow
      <4>1. r = a /\ Quotient(x, y) = h
        BY <1>10, <2>1, <3>2
      <4>2. a = h
        <5>1. PICK c \in Int : c = -1
          OBVIOUS
        <5>2. x = m * c + h /\ h \in 0 .. m - 1
          BY <1>2, <3>2, <5>1
        <5>3. (m * c + h) % m = h
          BY <1>2, <5>1, <5>2, IntDivision
        <5> QED BY <1>3, <5>2, <5>3
      <4> QED BY <1>1, <3>2, <4>1, <4>2
    <3>3. CASE y # 0 /\ ~overflow
      <4>1. r = Unsigned(Quotient(x, y)) /\ Quotient(x, y) \in Int
        BY <1>9, <2>1, <3>3
      <4> QED BY <1>5, <3>3, <4>1
    <3> QED BY <3>1, <3>2, <3>3
  <2>3. IsaResult("div", XLEN, a % m, b % m, r % m)
    BY <1>1, <1>2, <2>2, IsaDiv DEF m, x, y
  <2> QED BY <1>1, <1>11, <2>2, <2>3, Bases
<1>12. CASE op = "divu"
  <2>1. r = IF b = 0 THEN m - 1 ELSE Quotient(a, b)
    BY <1>6, <1>12 DEF Divide
  <2>2. CASE b = 0
    <3>1. r = m - 1 /\ r \in 0 .. m - 1
      BY <1>2, <2>1, <2>2
    <3>2. IsaResult("divu", XLEN, a, b, m - 1)
      BY <1>1, <1>2, <2>2, IsaDivu DEF m
    <3> QED BY <1>7, <1>12, <3>1, <3>2, Bases
  <2>3. CASE b # 0
    <3>1. r = Quotient(a, b) /\ r \in Nat /\ r <= a
      BY <1>1, <2>1, <2>3, NaturalQuotient
    <3>2. IsaResult("divu", XLEN, a, b, Quotient(a, b))
      BY <1>1, <1>2, <2>3, IsaDivu DEF m
    <3>3. r \in 0 .. m - 1
      <4> HIDE DEF r
      <4> QED BY <1>1, <1>2, <3>1
    <3> QED BY <1>7, <1>12, <3>1, <3>2, <3>3, Bases
  <2> QED BY <2>2, <2>3
<1>13. CASE op = "rem"
  <2>1. r = IF y = 0 THEN a ELSE IF overflow THEN 0 ELSE Unsigned(Remainder(x, y))
    BY <1>13 DEF Divide, x, y, h
  <2>2. CASE y = 0
    <3>1. r = a /\ b = 0
      BY <1>4, <2>1, <2>2
    <3>2. IsaResult("rem", XLEN, a, b, a)
      BY <3>1 DEF IsaResult
    <3> QED BY <1>13, <3>1, <3>2, Bases
  <2>3. CASE y # 0
    <3>1. 0 \in Register /\ 0 \in Int /\ 0 % m = 0
      BY <1>2 DEF Register, m
    <3>2. r \in Register /\ r \in Int /\ r % m = r /\ r % m = Remainder(x, y) % m
      <4>1. CASE overflow
        BY <1>10, <2>1, <2>3, <3>1, <4>1
      <4>2. CASE ~overflow
        <5>1. r = Unsigned(Remainder(x, y)) /\ Remainder(x, y) \in Int
          BY <1>9, <2>1, <2>3, <4>2
        <5> QED BY <1>5, <5>1
      <4> QED BY <4>1, <4>2
    <3>3. IsaResult("rem", XLEN, a % m, b % m, r % m)
      BY <1>1, <1>2, <2>3, <3>2, IsaRem DEF m, x, y
    <3> QED BY <1>1, <1>13, <3>2, <3>3, Bases
  <2> QED BY <2>2, <2>3
<1>14. CASE op = "remu"
  <2>1. r = IF b = 0 THEN a ELSE Remainder(a, b)
    BY <1>14 DEF Divide
  <2>2. CASE b = 0
    <3>1. r = a /\ IsaResult("remu", XLEN, a, b, a)
      BY <1>1, <1>2, <2>1, <2>2, IsaDivu DEF m
    <3> QED BY <1>14, <3>1, Bases
  <2>3. CASE b # 0
    <3>1. r = Remainder(a, b) /\ r \in 0 .. b - 1
      BY <1>1, <2>1, <2>3, NaturalQuotient
    <3>2. IsaResult("remu", XLEN, a, b, Remainder(a, b))
      BY <1>1, <1>2, <2>3, IsaDivu DEF m
    <3>3. r \in 0 .. m - 1
      <4> HIDE DEF r
      <4> QED BY <1>1, <1>2, <3>1
    <3> QED BY <1>7, <1>14, <3>1, <3>2, <3>3, Bases
  <2> QED BY <2>2, <2>3
<1> QED BY <1>11, <1>12, <1>13, <1>14 DEF DivideOps

----------------------------------------------------------------------------
(* ... and words.                                                          *)

\* A shift to the right stays in the range of signed numbers.
LEMMA ShiftRange ==
  ASSUME NEW h \in Nat \ {0}, NEW s \in Int, - h <= s, s < h, NEW p \in Nat \ {0}
  PROVE  s \div p \in Int /\ - h <= s \div p /\ s \div p < h
<1> DEFINE q == s \div p
           e == s % p
<1>1. q \in Int /\ e \in 0 .. p - 1 /\ s = p * q + e
  BY IntDivided
<1> HIDE DEF q, e
<1>2. p * q \in Int
  BY <1>1
<1>3. q >= h => p * q >= h
  <2>1. q >= h => p * q >= q
    BY <1>1
  <2> QED BY <1>1, <1>2, <2>1
<1>4. q <= - h - 1 => p * q <= - h - p
  <2>1. q <= - h - 1 => p * q <= p * (- h - 1)
    BY <1>1
  <2>2. p * (- h - 1) = - (p * h) - p /\ p * h >= h /\ p * h \in Int
    OBVIOUS
  <2> QED BY <1>1, <1>2, <2>1, <2>2
<1>5. - h <= q /\ q < h
  BY <1>1, <1>2, <1>3, <1>4
<1> QED BY <1>1, <1>5 DEF q

\* Results that are sign-extended words.
LEMMA WordIs ==
  ASSUME NEW z \in Int, NEW r, r = Extend(z)
  PROVE  r \in Register /\ r \in Int /\ Low(r) = r % 2 ^ WORD /\ r % 2 ^ WORD = z % 2 ^ WORD
         /\ r = Extend(r)
BY ExtendIs, RegisterIs DEF Low

\* The basic operations on words.
LEMMA BasicWordExact ==
  ASSUME NEW op \in WordImmOps \cup BasicWordOps, NEW a \in Register, NEW b \in Register
  PROVE  /\ BasicWord(op, a, b) \in Register
         /\ IsaResult(Base[op], WORD, Low(a), Low(b), Low(BasicWord(op, a, b)))
         /\ BasicWord(op, a, b) = Extend(BasicWord(op, a, b))
<1> DEFINE x == Signed(a, WORD)
           y == Signed(b, WORD)
           k == b % WORD
           m == 2 ^ WORD
           r == BasicWord(op, a, b)
<1>1. a \in Int /\ b \in Int /\ Low(a) = a % m /\ Low(b) = b % m
  BY RegisterIs DEF Low
<1>2. WORD \in Nat \ {0} /\ m \in Nat \ {0}
  BY Widths
<1>3. k \in 0 .. WORD - 1 /\ k \in Nat /\ k = (b % m) % WORD /\ 2 ^ k \in Nat \ {0}
  <2>1. k \in 0 .. WORD - 1 /\ k = (b % m) % WORD
    BY <1>1, Amounts
  <2>2. k \in Nat
    <3> HIDE DEF k
    <3> QED BY <1>2, <2>1
  <2> QED BY <2>1, <2>2, Powers
<1>4. x \in Int /\ y \in Int /\ - 2 ^ (WORD - 1) <= x /\ x < 2 ^ (WORD - 1)
      /\ 2 ^ (WORD - 1) \in Nat \ {0}
  BY <1>1, <1>2, SignedIs, HalfPower
<1>5. ASSUME NEW z \in Int, r = Extend(z)
      PROVE  r \in Register /\ r \in Int /\ Low(r) = r % m /\ r % m = z % m /\ r = Extend(r)
  BY <1>5, WordIs
<1>6. \A z \in Int : Low(Unsigned(z)) = z % m /\ Low(Unsigned(z)) = Unsigned(z) % m
  BY UnsignedIs DEF Low
<1> HIDE DEF x, y, k, m
<1>7. CASE op \in {"addw", "addiw"}
  <2>1. r = Extend(a + b) /\ a + b \in Int
    BY <1>1, <1>7 DEF BasicWord
  <2>2. IsaResult("add", WORD, a % m, b % m, r % m)
    BY <1>1, <1>2, <1>5, <2>1, IsaAdd DEF m
  <2> QED BY <1>1, <1>5, <1>7, <2>1, <2>2, Bases
<1>8. CASE op = "subw"
  <2>1. r = Extend(a - b) /\ a - b \in Int
    BY <1>1, <1>8 DEF BasicWord
  <2>2. IsaResult("sub", WORD, a % m, b % m, r % m)
    BY <1>1, <1>2, <1>5, <2>1, IsaSub DEF m
  <2> QED BY <1>1, <1>5, <1>8, <2>1, <2>2, Bases
<1>9. CASE op = "mulw"
  <2>1. r = Extend(x * y) /\ x * y \in Int
    BY <1>4, <1>9 DEF BasicWord, x, y
  <2>2. IsaResult("mul", WORD, a % m, b % m, r % m)
    BY <1>1, <1>2, <1>5, <2>1, IsaMul DEF m, x, y
  <2> QED BY <1>1, <1>5, <1>9, <2>1, <2>2, Bases
<1>10. CASE op \in {"sllw", "slliw"}
  <2>1. r = Extend(Unsigned(a * 2 ^ k)) /\ a * 2 ^ k \in Int
    BY <1>1, <1>3, <1>10 DEF BasicWord, ShiftLeft, k
  <2>2. Unsigned(a * 2 ^ k) \in Int /\ Unsigned(a * 2 ^ k) % m = (a * 2 ^ k) % m
    BY <1>6, <2>1, UnsignedIs
  <2>3. IsaResult("sll", WORD, a % m, b % m, r % m)
    BY <1>1, <1>2, <1>3, <1>5, <2>1, <2>2, IsaSll DEF m
  <2> QED BY <1>1, <1>5, <1>10, <2>1, <2>2, <2>3, Bases
<1>11. CASE op \in {"srlw", "srliw"}
  <2>1. r = Extend((a % m) \div 2 ^ k)
    BY <1>1, <1>11 DEF BasicWord, ShiftRight, k
  <2>2. (a % m) \div 2 ^ k \in Int
    <3>1. a % m \in Int
      BY <1>1, <1>2, IntDivided
    <3> QED BY <1>3, <3>1, IntDivided
  <2>3. IsaResult("srl", WORD, a % m, b % m, r % m)
    BY <1>1, <1>2, <1>3, <1>5, <2>1, <2>2, IsaSrl DEF m
  <2> QED BY <1>1, <1>5, <1>11, <2>1, <2>2, <2>3, Bases
<1>12. CASE op \in {"sraw", "sraiw"}
  <2>1. r = Unsigned(x \div 2 ^ k)
    BY <1>12 DEF BasicWord, ShiftRight, k, x
  <2>2. x \div 2 ^ k \in Int /\ - 2 ^ (WORD - 1) <= x \div 2 ^ k /\ x \div 2 ^ k < 2 ^ (WORD - 1)
    BY <1>3, <1>4, ShiftRange
  <2>3. r = Extend(x \div 2 ^ k)
    BY <2>1, <2>2, ExtendIs
  <2>4. IsaResult("sra", WORD, a % m, b % m, r % m)
    BY <1>1, <1>2, <1>3, <1>5, <2>2, <2>3, IsaSra DEF m, x
  <2> QED BY <1>1, <1>5, <1>12, <2>2, <2>3, <2>4, Bases
<1> QED BY <1>7, <1>8, <1>9, <1>10, <1>11, <1>12 DEF WordImmOps, BasicWordOps

\* Quotients and remainders of words.
LEMMA DivideWordExact ==
  ASSUME NEW op \in DivideWordOps, NEW a \in Register, NEW b \in Register
  PROVE  /\ DivideWord(op, a, b) \in Register
         /\ IsaResult(Base[op], WORD, Low(a), Low(b), Low(DivideWord(op, a, b)))
         /\ ~(op \in {"remw", "remuw"} /\ Low(b) = 0)
              => DivideWord(op, a, b) = Extend(DivideWord(op, a, b))
<1> DEFINE x == Signed(a, WORD)
           y == Signed(b, WORD)
           h == 2 ^ (WORD - 1)
           m == 2 ^ WORD
           r == DivideWord(op, a, b)
           overflow == x = 0 - h /\ y = -1
<1>1. a \in Int /\ b \in Int /\ Low(a) = a % m /\ Low(b) = b % m
  BY RegisterIs DEF Low
<1>2. WORD \in Nat \ {0} /\ m \in Nat \ {0} /\ h \in Nat \ {0} /\ m = 2 * h /\ -1 \in Int
  BY Widths, HalfPower
<1>3. /\ x \in Int /\ - h <= x /\ x < h
      /\ y \in Int /\ - h <= y /\ y < h
  BY <1>1, <1>2, SignedIs
<1>4. y = 0 <=> Low(b) = 0
  BY <1>1, <1>2, SignedZero
<1>5. ASSUME NEW z \in Int, r = Extend(z)
      PROVE  r \in Register /\ r \in Int /\ Low(r) = r % m /\ r % m = z % m /\ r = Extend(r)
  BY <1>5, WordIs
<1>6. Low(a) \in 0 .. m - 1 /\ Low(a) \in Nat /\ Low(b) \in 0 .. m - 1 /\ Low(b) \in Nat
  BY <1>1, <1>2, IntDivided
<1>7. \A z \in Int : - h <= z /\ z < h => Unsigned(z) = Extend(z)
  BY ExtendIs
<1>8. (-1) % m = m - 1
  BY <1>2, MinusOne
<1> HIDE DEF x, y, h, m
<1>9. x \in - h .. h - 1 /\ y \in - h .. h - 1 /\ - h <= -1 /\ -1 < h
  BY <1>2, <1>3
<1>10. y # 0 => Quotient(x, y) \in Int /\ Remainder(x, y) \in Int
  BY <1>3, QuotientIs
<1>11. overflow => Quotient(x, y) = h /\ Remainder(x, y) = 0 /\ y # 0
  <2> SUFFICES ASSUME overflow PROVE Quotient(x, y) = h /\ Remainder(x, y) = 0 /\ y # 0
    OBVIOUS
  <2>1. Quotient(x, y) = h /\ y # 0
    BY <1>2, <1>9, QuotientRange
  <2>2. Remainder(x, y) = x - y * h
    BY <2>1 DEF Remainder
  <2> QED BY <1>2, <2>1, <2>2
<1>12. Unsigned(-1) = Extend(-1)
  BY <1>2, <1>7, <1>9
<1>13. \A z \in 0 .. m - 1 : z \in Int /\ z % m = z
  BY <1>2, SmallRemainder
<1>14. CASE op = "divw"
  <2> DEFINE z == IF y = 0 THEN -1 ELSE IF overflow THEN x ELSE Quotient(x, y)
  <2>1. z \in Int /\ - h <= z /\ z < h
    <3>1. CASE y = 0
      BY <1>2, <1>9, <3>1
    <3>2. CASE y # 0 /\ overflow
      BY <1>3, <3>2
    <3>3. CASE y # 0 /\ ~overflow
      <4>1. Quotient(x, y) \in - h .. h - 1
        BY <1>2, <1>9, <3>3, QuotientRange
      <4> QED BY <1>2, <1>10, <3>3, <4>1
    <3> QED BY <3>1, <3>2, <3>3
  <2>2. r = Unsigned(z)
    BY <1>14 DEF DivideWord, x, y, h
  <2>3. r = Extend(z)
    <3> HIDE DEF z
    <3> QED BY <1>7, <2>1, <2>2
  <2>4. z % m = (IF y = 0 THEN -1 ELSE Quotient(x, y)) % m
    <3>1. CASE overflow
      <4>1. y # 0 /\ Quotient(x, y) = h /\ x = 0 - h
        BY <1>11, <3>1
      <4>2. (x + 1 * m) % m = x % m
        <5>1. 1 \in Int
          OBVIOUS
        <5> QED BY <1>2, <1>3, <5>1, Shifted, ZenonT(60)
      <4>3. x + 1 * m = h
        BY <1>2, <4>1
      <4> QED BY <3>1, <4>1, <4>2, <4>3
    <3>2. CASE ~overflow
      BY <3>2
    <3> QED BY <3>1, <3>2
  <2> HIDE DEF z
  <2>5. IsaResult("div", WORD, a % m, b % m, r % m)
    BY <1>1, <1>2, <1>5, <2>1, <2>3, <2>4, IsaDiv DEF m, x, y
  <2> QED BY <1>1, <1>5, <1>14, <2>1, <2>3, <2>5, Bases
<1>15. CASE op = "divuw"
  <2>1. CASE Low(b) = 0
    <3>1. r = Extend(-1)
      BY <1>12, <1>15, <2>1 DEF DivideWord
    <3>2. r \in Register /\ Low(r) = m - 1 /\ r = Extend(r)
      BY <1>2, <1>5, <1>8, <3>1
    <3>3. IsaResult("divu", WORD, Low(a), Low(b), m - 1)
      BY <1>2, <1>6, <2>1, IsaDivu DEF m
    <3> QED BY <1>15, <3>2, <3>3, Bases
  <2>2. CASE Low(b) # 0
    <3> DEFINE z == Quotient(Low(a), Low(b))
    <3>1. r = Extend(z)
      BY <1>15, <2>2 DEF DivideWord
    <3>2. z \in Nat /\ z <= Low(a)
      BY <1>6, <2>2, NaturalQuotient
    <3> HIDE DEF z
    <3>3. z \in 0 .. m - 1 /\ z \in Int
      BY <1>2, <1>6, <3>2
    <3>4. Low(r) = z /\ r \in Register /\ r = Extend(r)
      BY <1>5, <1>13, <3>1, <3>3
    <3>5. IsaResult("divu", WORD, Low(a), Low(b), z)
      BY <1>2, <1>6, <2>2, IsaDivu DEF m, z
    <3> QED BY <1>15, <3>4, <3>5, Bases
  <2> QED BY <2>1, <2>2
<1>16. CASE op = "remw"
  <2>1. CASE Low(b) = 0
    <3>1. r = a
      BY <1>4, <1>16, <2>1 DEF DivideWord, y
    <3>2. IsaResult("rem", WORD, Low(a), Low(b), Low(a))
      BY <2>1 DEF IsaResult
    <3> QED BY <1>16, <2>1, <3>1, <3>2, Bases
  <2>2. CASE Low(b) # 0
    <3> DEFINE z == Remainder(x, y)
    <3>1. r = IF overflow THEN 0 ELSE Unsigned(z)
      BY <1>4, <1>16, <2>2 DEF DivideWord, x, y, h
    <3>2. z \in Int /\ z \in - h .. h - 1 /\ y # 0
      BY <1>2, <1>4, <1>9, <1>10, <2>2, QuotientRange
    <3>3. Unsigned(0) = 0
      BY Widths DEF Unsigned
    <3>4. r = Unsigned(z)
      BY <1>11, <3>1, <3>3
    <3> HIDE DEF z
    <3>5. r = Extend(z)
      BY <1>2, <1>7, <3>2, <3>4
    <3>6. IsaResult("rem", WORD, a % m, b % m, r % m)
      BY <1>1, <1>2, <1>5, <3>2, <3>5, IsaRem DEF m, x, y, z
    <3> QED BY <1>1, <1>5, <1>16, <2>2, <3>2, <3>5, <3>6, Bases
  <2> QED BY <2>1, <2>2
<1>17. CASE op = "remuw"
  <2>1. CASE Low(b) = 0
    <3>1. r = a
      BY <1>17, <2>1 DEF DivideWord
    <3>2. IsaResult("remu", WORD, Low(a), Low(b), Low(a))
      BY <2>1 DEF IsaResult
    <3> QED BY <1>17, <2>1, <3>1, <3>2, Bases
  <2>2. CASE Low(b) # 0
    <3> DEFINE z == Remainder(Low(a), Low(b))
    <3>1. r = Extend(z)
      BY <1>17, <2>2 DEF DivideWord
    <3>2. z \in 0 .. Low(b) - 1
      BY <1>6, <2>2, NaturalQuotient
    <3> HIDE DEF z
    <3>3. z \in 0 .. m - 1 /\ z \in Int
      BY <1>2, <1>6, <3>2
    <3>4. Low(r) = z /\ r \in Register /\ r = Extend(r)
      BY <1>5, <1>13, <3>1, <3>3
    <3>5. IsaResult("remu", WORD, Low(a), Low(b), z)
      BY <1>2, <1>6, <2>2, IsaDivu DEF m, z
    <3> QED BY <1>17, <2>2, <3>4, <3>5, Bases
  <2> QED BY <2>1, <2>2
<1> QED BY <1>14, <1>15, <1>16, <1>17 DEF DivideWordOps

----------------------------------------------------------------------------
(* Immediates: the bits that each operator of Decode puts together are     *)
(* those of a layout of the manual.                                        *)

\* The immediate of the word w with the layout l.
Exact(w, l) ==
  LET exact == Gather(w, l.from, l.to)
  IN  exact \cup (IF l.sign \in exact THEN l.sign .. 63 ELSE {})

\* The descending positions, written out.
LEMMA Downs ==
  /\ Down(31, 20) = <<31, 30, 29, 28, 27, 26, 25, 24, 23, 22, 21, 20>>
  /\ Down(11, 0) = <<11, 10, 9, 8, 7, 6, 5, 4, 3, 2, 1, 0>>
  /\ Down(25, 20) = <<25, 24, 23, 22, 21, 20>>
  /\ Down(5, 0) = <<5, 4, 3, 2, 1, 0>>
  /\ Down(24, 20) = <<24, 23, 22, 21, 20>>
  /\ Down(4, 0) = <<4, 3, 2, 1, 0>>
  /\ Down(12, 5) = <<12, 11, 10, 9, 8, 7, 6, 5>>
  /\ Down(17, 12) = <<17, 16, 15, 14, 13, 12>>
  /\ Down(12, 2) = <<12, 11, 10, 9, 8, 7, 6, 5, 4, 3, 2>>
  /\ Down(12, 7) = <<12, 11, 10, 9, 8, 7>>
  /\ Down(31, 12) = <<31, 30, 29, 28, 27, 26, 25, 24, 23, 22, 21, 20,
                      19, 18, 17, 16, 15, 14, 13, 12>>
<1>1. Down(31, 20) = <<31, 30, 29, 28, 27, 26, 25, 24, 23, 22, 21, 20>>
  BY DEF Down
<1>2. Down(11, 0) = <<11, 10, 9, 8, 7, 6, 5, 4, 3, 2, 1, 0>>
  BY DEF Down
<1>3. Down(25, 20) = <<25, 24, 23, 22, 21, 20>>
  BY DEF Down
<1>4. Down(5, 0) = <<5, 4, 3, 2, 1, 0>>
  BY DEF Down
<1>5. Down(24, 20) = <<24, 23, 22, 21, 20>>
  BY DEF Down
<1>6. Down(4, 0) = <<4, 3, 2, 1, 0>>
  BY DEF Down
<1>7. Down(12, 5) = <<12, 11, 10, 9, 8, 7, 6, 5>>
  BY DEF Down
<1>8. Down(17, 12) = <<17, 16, 15, 14, 13, 12>>
  BY DEF Down
<1>9. Down(12, 2) = <<12, 11, 10, 9, 8, 7, 6, 5, 4, 3, 2>>
  BY DEF Down
<1>10. Down(12, 7) = <<12, 11, 10, 9, 8, 7>>
  BY DEF Down
<1>11. Down(31, 12) = <<31, 30, 29, 28, 27, 26, 25, 24, 23, 22, 21, 20,
                     19, 18, 17, 16, 15, 14, 13, 12>>
  BY DEF Down
<1> QED BY <1>1, <1>2, <1>3, <1>4, <1>5, <1>6, <1>7, <1>8, <1>9, <1>10, <1>11

\* loads, addi and its like, jalr
LEMMA LayoutI ==
  ASSUME NEW w, w \subseteq 0 .. 31
  PROVE  Imm_I(w) = Exact(w, Layout(Down(31, 20), Down(11, 0), 11))
<1> DEFINE g == {j \in 0 .. 11 : j + 20 \in w}
<1>1. Gather(w, Down(31, 20), Down(11, 0)) = g
  BY Downs, SMTT(60) DEF Gather, Field
<1>2. g \subseteq 0 .. 63
  BY DEF Field
<1>3. Imm_I(w) = SignExtended(g, 11)
  BY DEF Imm_I, FieldSigned, SignExtended
<1> HIDE DEF g
<1> QED BY <1>1, <1>2, <1>3 DEF Exact, Layout, SignExtended

\* lui and auipc
LEMMA LayoutU ==
  ASSUME NEW w, w \subseteq 0 .. 31
  PROVE  Imm_U(w) = Exact(w, Layout(Down(31, 12), Down(31, 12), 31))
<1> DEFINE g == {j \in 12 .. 31 : j \in w}
<1>1. Gather(w, Down(31, 12), Down(31, 12)) = g
  BY Downs, SMTT(60) DEF Gather, Field
<1>2. g \subseteq 0 .. 63
  BY DEF Field
<1>3. Imm_U(w) = SignExtended(g, 31)
  BY DEF Imm_U, FieldSigned, SignExtended
<1> HIDE DEF g
<1> QED BY <1>1, <1>2, <1>3 DEF Exact, Layout, SignExtended

\* shifts
LEMMA LayoutShift ==
  ASSUME NEW w, w \subseteq 0 .. 31
  PROVE  Field(w, 20, 0 .. 5) = Exact(w, Layout(Down(25, 20), Down(5, 0), 64))
<1> DEFINE g == {j \in 0 .. 5 : j + 20 \in w}
<1>1. Gather(w, Down(25, 20), Down(5, 0)) = g
  BY Downs, SMTT(60) DEF Gather, Field
<1>2. g \subseteq 0 .. 63
  BY DEF Field
<1>3. Field(w, 20, 0 .. 5) = g
  BY DEF Field
<1> HIDE DEF g
<1> QED BY <1>1, <1>2, <1>3 DEF Exact, Layout

\* shifts of words
LEMMA LayoutWordShift ==
  ASSUME NEW w, w \subseteq 0 .. 31
  PROVE  Imm_I(w) \cap 0 .. 4 = Exact(w, Layout(Down(24, 20), Down(4, 0), 64))
<1> DEFINE g == {j \in 0 .. 4 : j + 20 \in w}
<1>1. Gather(w, Down(24, 20), Down(4, 0)) = g
  BY Downs, SMTT(60) DEF Gather, Field
<1>2. g \subseteq 0 .. 63
  BY DEF Field
<1>3. Imm_I(w) \cap 0 .. 4 = g
  BY DEF Imm_I, FieldSigned
<1> HIDE DEF g
<1> QED BY <1>1, <1>2, <1>3 DEF Exact, Layout

\* stores
LEMMA LayoutS ==
  ASSUME NEW w, w \subseteq 0 .. 31
  PROVE  Imm_S(w) = Exact(w, Layout(Split, Down(11, 0), 11))
<1> DEFINE g == {j \in 5 .. 11 : j + 20 \in w} \cup {j \in 0 .. 4 : j + 7 \in w}
<1>1. Gather(w, Split, Down(11, 0)) = g
  BY Downs, SMTT(60) DEF Gather, Field, Split
<1>2. g \subseteq 0 .. 63
  BY DEF Field
<1>3. Imm_S(w) = SignExtended(g, 11)
  BY DEF Imm_S, Field, FieldSigned, SignExtended
<1> HIDE DEF g
<1> QED BY <1>1, <1>2, <1>3 DEF Exact, Layout, SignExtended

\* stores of floating-point registers
LEMMA LayoutFS ==
  ASSUME NEW w, w \subseteq 0 .. 31, 31 \notin w
  PROVE  Imm_FS(w) = Exact(w, Layout(Split, Down(11, 0), 11))
<1> DEFINE g == {j \in 5 .. 11 : j + 20 \in w} \cup {j \in 0 .. 4 : j + 7 \in w}
<1>1. Gather(w, Split, Down(11, 0)) = g
  BY Downs, SMTT(60) DEF Gather, Field, Split
<1>2. g \subseteq 0 .. 63
  BY DEF Field
<1>3. Imm_FS(w) = SignExtended(g, 11)
  BY DEF Imm_FS, Field, FieldSigned, SignExtended
<1> HIDE DEF g
<1> QED BY <1>1, <1>2, <1>3 DEF Exact, Layout, SignExtended

\* branches
LEMMA LayoutB ==
  ASSUME NEW w, w \subseteq 0 .. 31
  PROVE  Imm_B(w) = Exact(w, Layout(Split, <<12, 10, 9, 8, 7, 6, 5, 4, 3, 2, 1, 11>>, 12))
<1> DEFINE g == {j \in {12} : 31 \in w} \cup {j \in {11} : 7 \in w}
                  \cup {j \in 5 .. 10 : j + 20 \in w} \cup {j \in 1 .. 4 : j + 7 \in w}
<1>1. Gather(w, Split, <<12, 10, 9, 8, 7, 6, 5, 4, 3, 2, 1, 11>>) = g
  BY Downs, SMTT(60) DEF Gather, Field, Split
<1>2. g \subseteq 0 .. 63
  BY DEF Field
<1>3. Imm_B(w) = SignExtended(g, 12)
  BY DEF Imm_B, Field, FieldSigned, SignExtended
<1> HIDE DEF g
<1> QED BY <1>1, <1>2, <1>3 DEF Exact, Layout, SignExtended

\* jal
LEMMA LayoutJ ==
  ASSUME NEW w, w \subseteq 0 .. 31
  PROVE  Imm_J(w) = Exact(w, Layout(Down(31, 12), <<20, 10, 9, 8, 7, 6, 5, 4, 3, 2, 1, 11,
                         19, 18, 17, 16, 15, 14, 13, 12>>, 20))
<1> DEFINE g == {j \in {20} : 31 \in w} \cup {j \in {11} : 20 \in w}
                  \cup {j \in 12 .. 19 : j \in w} \cup {j \in 1 .. 10 : j + 20 \in w}
<1>1. Gather(w, Down(31, 12), <<20, 10, 9, 8, 7, 6, 5, 4, 3, 2, 1, 11,
                         19, 18, 17, 16, 15, 14, 13, 12>>) = g
  BY Downs, SMTT(60) DEF Gather, Field
<1>2. g \subseteq 0 .. 63
  BY DEF Field
<1>3. Imm_J(w) = SignExtended(g, 20)
  BY DEF Imm_J, Field, FieldSigned, SignExtended
<1> HIDE DEF g
<1> QED BY <1>1, <1>2, <1>3 DEF Exact, Layout, SignExtended

\* c.ld, c.sd, c.fld and c.fsd
LEMMA LayoutLd ==
  ASSUME NEW w, w \subseteq 0 .. 31
  PROVE  Offset_ld(w) = Exact(w, Layout(<<12, 11, 10, 6, 5>>, <<5, 4, 3, 7, 6>>, 64))
<1> DEFINE g == Field(w, -1, 6 .. 7) \cup Field(w, 7, 3 .. 5)
<1>1. Gather(w, <<12, 11, 10, 6, 5>>, <<5, 4, 3, 7, 6>>) = g
  BY Downs, SMTT(60) DEF Gather, Field
<1>2. g \subseteq 0 .. 63
  BY DEF Field
<1>3. Offset_ld(w) = g
  BY DEF Offset_ld
<1> HIDE DEF g
<1> QED BY <1>1, <1>2, <1>3 DEF Exact, Layout

\* c.lw and c.sw
LEMMA LayoutLw ==
  ASSUME NEW w, w \subseteq 0 .. 31
  PROVE  Offset_lw(w) = Exact(w, Layout(<<12, 11, 10, 6, 5>>, <<5, 4, 3, 2, 6>>, 64))
<1> DEFINE g == Field(w, -1, {6}) \cup Field(w, 7, 3 .. 5) \cup Field(w, 4, {2})
<1>1. Gather(w, <<12, 11, 10, 6, 5>>, <<5, 4, 3, 2, 6>>) = g
  BY Downs, SMTT(60) DEF Gather, Field
<1>2. g \subseteq 0 .. 63
  BY DEF Field
<1>3. Offset_lw(w) = g
  BY DEF Offset_lw
<1> HIDE DEF g
<1> QED BY <1>1, <1>2, <1>3 DEF Exact, Layout

\* c.addi4spn
LEMMA LayoutAddi4spn ==
  ASSUME NEW w, w \subseteq 0 .. 31
  PROVE  Field(w, 1, 6 .. 9) \cup Field(w, 7, 4 .. 5) \cup Field(w, 2, {3}) \cup Field(w, 4, {2})
           = Exact(w, Layout(Down(12, 5), <<5, 4, 9, 8, 7, 6, 2, 3>>, 64))
<1> DEFINE g == Field(w, 1, 6 .. 9) \cup Field(w, 7, 4 .. 5) \cup Field(w, 2, {3})
                  \cup Field(w, 4, {2})
<1>1. Gather(w, Down(12, 5), <<5, 4, 9, 8, 7, 6, 2, 3>>) = g
  BY Downs, SMTT(60) DEF Gather, Field
<1>2. g \subseteq 0 .. 63
  BY DEF Field
<1>3. Field(w, 1, 6 .. 9) \cup Field(w, 7, 4 .. 5) \cup Field(w, 2, {3}) \cup Field(w, 4, {2}) = g
  BY DEF Field
<1> HIDE DEF g
<1> QED BY <1>1, <1>2, <1>3 DEF Exact, Layout

\* c.addi16sp
LEMMA LayoutAddi16sp ==
  ASSUME NEW w, w \subseteq 0 .. 31
  PROVE  Imm_addi16sp(w) = Exact(w, Layout(Sp, <<9, 4, 6, 8, 7, 5>>, 9))
<1> DEFINE g == Field(w, 3, {9}) \cup Field(w, 2, {4}) \cup Field(w, -1, {6})
                  \cup Field(w, -4, 7 .. 8) \cup Field(w, -3, {5})
<1>1. Gather(w, Sp, <<9, 4, 6, 8, 7, 5>>) = g
  BY Downs, SMTT(60) DEF Gather, Field, Sp
<1>2. g \subseteq 0 .. 63
  BY DEF Field
<1>3. Imm_addi16sp(w) = SignExtended(g, 9)
  BY DEF Imm_addi16sp
<1> HIDE DEF g
<1> QED BY <1>1, <1>2, <1>3 DEF Exact, Layout, SignExtended

\* c.lui
LEMMA LayoutLui ==
  ASSUME NEW w, w \subseteq 0 .. 31
  PROVE  Imm_lui(w) = Exact(w, Layout(Sp, Down(17, 12), 17))
<1> DEFINE g == Field(w, -5, {17}) \cup Field(w, -10, 12 .. 16)
<1>1. Gather(w, Sp, Down(17, 12)) = g
  BY Downs, SMTT(60) DEF Gather, Field, Sp
<1>2. g \subseteq 0 .. 63
  BY DEF Field
<1>3. Imm_lui(w) = SignExtended(g, 17)
  BY DEF Imm_lui
<1> HIDE DEF g
<1> QED BY <1>1, <1>2, <1>3 DEF Exact, Layout, SignExtended

\* c.addi, c.addiw, c.li and c.andi
LEMMA LayoutImm6 ==
  ASSUME NEW w, w \subseteq 0 .. 31
  PROVE  SignExtended(Imm6(w), 5) = Exact(w, Layout(Sp, Down(5, 0), 5))
<1> DEFINE g == Field(w, 7, {5}) \cup Field(w, 2, 0 .. 4)
<1>1. Gather(w, Sp, Down(5, 0)) = g
  BY Downs, SMTT(60) DEF Gather, Field, Sp
<1>2. g \subseteq 0 .. 63
  BY DEF Field
<1>3. SignExtended(Imm6(w), 5) = SignExtended(g, 5)
  BY DEF Imm6
<1> HIDE DEF g
<1> QED BY <1>1, <1>2, <1>3 DEF Exact, Layout, SignExtended

\* c.slli, c.srli and c.srai
LEMMA LayoutShamt6 ==
  ASSUME NEW w, w \subseteq 0 .. 31
  PROVE  Imm6(w) = Exact(w, Layout(Sp, Down(5, 0), 64))
<1> DEFINE g == Field(w, 7, {5}) \cup Field(w, 2, 0 .. 4)
<1>1. Gather(w, Sp, Down(5, 0)) = g
  BY Downs, SMTT(60) DEF Gather, Field, Sp
<1>2. g \subseteq 0 .. 63
  BY DEF Field
<1>3. Imm6(w) = g
  BY DEF Imm6
<1> HIDE DEF g
<1> QED BY <1>1, <1>2, <1>3 DEF Exact, Layout

\* c.j
LEMMA LayoutCj ==
  ASSUME NEW w, w \subseteq 0 .. 31
  PROVE  Offset_j(w) = Exact(w, Layout(Down(12, 2), <<11, 4, 9, 8, 10, 6, 7, 3, 2, 1, 5>>, 11))
<1> DEFINE g == Field(w, 1, {11}) \cup Field(w, -2, {10}) \cup Field(w, 1, 8 .. 9)
                  \cup Field(w, -1, {7}) \cup Field(w, 1, {6}) \cup Field(w, -3, {5})
                  \cup Field(w, 7, {4}) \cup Field(w, 2, 1 .. 3)
<1>1. Gather(w, Down(12, 2), <<11, 4, 9, 8, 10, 6, 7, 3, 2, 1, 5>>) = g
  BY Downs, SMTT(60) DEF Gather, Field
<1>2. g \subseteq 0 .. 63
  BY DEF Field
<1>3. Offset_j(w) = SignExtended(g, 11)
  BY DEF Offset_j
<1> HIDE DEF g
<1> QED BY <1>1, <1>2, <1>3 DEF Exact, Layout, SignExtended

\* c.beqz and c.bnez
LEMMA LayoutCb ==
  ASSUME NEW w, w \subseteq 0 .. 31
  PROVE  Offset_b(w)
           = Exact(w, Layout(<<12, 11, 10, 6, 5, 4, 3, 2>>, <<8, 4, 3, 7, 6, 2, 1, 5>>, 8))
<1> DEFINE g == Field(w, 4, {8}) \cup Field(w, -1, 6 .. 7) \cup Field(w, -3, {5})
                  \cup Field(w, 7, 3 .. 4) \cup Field(w, 2, 1 .. 2)
<1>1. Gather(w, <<12, 11, 10, 6, 5, 4, 3, 2>>, <<8, 4, 3, 7, 6, 2, 1, 5>>) = g
  BY Downs, SMTT(60) DEF Gather, Field
<1>2. g \subseteq 0 .. 63
  BY DEF Field
<1>3. Offset_b(w) = SignExtended(g, 8)
  BY DEF Offset_b
<1> HIDE DEF g
<1> QED BY <1>1, <1>2, <1>3 DEF Exact, Layout, SignExtended

\* c.ldsp and c.fldsp
LEMMA LayoutLdsp ==
  ASSUME NEW w, w \subseteq 0 .. 31
  PROVE  Offset_ldsp(w) = Exact(w, Layout(Sp, <<5, 4, 3, 8, 7, 6>>, 64))
<1> DEFINE g == Field(w, -4, 6 .. 8) \cup Field(w, 7, {5}) \cup Field(w, 2, 3 .. 4)
<1>1. Gather(w, Sp, <<5, 4, 3, 8, 7, 6>>) = g
  BY Downs, SMTT(60) DEF Gather, Field, Sp
<1>2. g \subseteq 0 .. 63
  BY DEF Field
<1>3. Offset_ldsp(w) = g
  BY DEF Offset_ldsp
<1> HIDE DEF g
<1> QED BY <1>1, <1>2, <1>3 DEF Exact, Layout

\* c.lwsp
LEMMA LayoutLwsp ==
  ASSUME NEW w, w \subseteq 0 .. 31
  PROVE  Offset_lwsp(w) = Exact(w, Layout(Sp, <<5, 4, 3, 2, 7, 6>>, 64))
<1> DEFINE g == Field(w, -4, 6 .. 7) \cup Field(w, 7, {5}) \cup Field(w, 2, 2 .. 4)
<1>1. Gather(w, Sp, <<5, 4, 3, 2, 7, 6>>) = g
  BY Downs, SMTT(60) DEF Gather, Field, Sp
<1>2. g \subseteq 0 .. 63
  BY DEF Field
<1>3. Offset_lwsp(w) = g
  BY DEF Offset_lwsp
<1> HIDE DEF g
<1> QED BY <1>1, <1>2, <1>3 DEF Exact, Layout

\* c.sdsp and c.fsdsp
LEMMA LayoutSdsp ==
  ASSUME NEW w, w \subseteq 0 .. 31
  PROVE  Offset_sdsp(w) = Exact(w, Layout(Down(12, 7), <<5, 4, 3, 8, 7, 6>>, 64))
<1> DEFINE g == Field(w, 1, 6 .. 8) \cup Field(w, 7, 3 .. 5)
<1>1. Gather(w, Down(12, 7), <<5, 4, 3, 8, 7, 6>>) = g
  BY Downs, SMTT(60) DEF Gather, Field
<1>2. g \subseteq 0 .. 63
  BY DEF Field
<1>3. Offset_sdsp(w) = g
  BY DEF Offset_sdsp
<1> HIDE DEF g
<1> QED BY <1>1, <1>2, <1>3 DEF Exact, Layout

\* c.swsp
LEMMA LayoutSwsp ==
  ASSUME NEW w, w \subseteq 0 .. 31
  PROVE  Offset_swsp(w) = Exact(w, Layout(Down(12, 7), <<5, 4, 3, 2, 7, 6>>, 64))
<1> DEFINE g == Field(w, 1, 6 .. 7) \cup Field(w, 7, 2 .. 5)
<1>1. Gather(w, Down(12, 7), <<5, 4, 3, 2, 7, 6>>) = g
  BY Downs, SMTT(60) DEF Gather, Field
<1>2. g \subseteq 0 .. 63
  BY DEF Field
<1>3. Offset_swsp(w) = g
  BY DEF Offset_swsp
<1> HIDE DEF g
<1> QED BY <1>1, <1>2, <1>3 DEF Exact, Layout

\* Operations on registers have no immediate.
LEMMA LayoutNone ==
  ASSUME NEW w
  PROVE  {} = Exact(w, Layout(<<>>, <<>>, 64))
BY DEF Exact, Layout, Gather

----------------------------------------------------------------------------
(* Decoding of compressed instructions, quadrant by quadrant.              *)

\* The fields of a decoded instruction.
OpNames == Executable \cup FloatOps \cup {"none", "illegal", "panic", "ebreak"}
Formed(i) == i.op \in OpNames /\ {i.rd, i.rs1, i.rs2} \subseteq 0 .. 31 /\ i.imm \subseteq 0 .. 63

\* The instruction i has the immediate that the manual gives it.
Decodes16(w, i) == Formed(i) /\ i.imm = Exact(w, Layout16(w, i.op))
Decodes32(w, i) ==
  /\ Formed(i)
  /\ ~(i.op \in {"fsw", "fsd"} /\ 31 \in w) => i.imm = Exact(w, Layout32(i.op))

\* How the two are shown of an instruction that is put together from its parts.
LEMMA Decoded16 ==
  ASSUME NEW op \in OpNames, NEW d \in 0 .. 31, NEW rs1 \in 0 .. 31, NEW rs2 \in 0 .. 31,
         NEW m, m \subseteq 0 .. 63, NEW w, m = Exact(w, Layout16(w, op))
  PROVE  Decodes16(w, Ins(op, d, rs1, rs2, m))
BY DEF Decodes16, Formed, Ins

\* The same for 32 bits.
LEMMA Decoded32 ==
  ASSUME NEW op \in OpNames, NEW d \in 0 .. 31, NEW rs1 \in 0 .. 31, NEW rs2 \in 0 .. 31,
         NEW m, m \subseteq 0 .. 63, NEW w,
         (op \in {"fsw", "fsd"} /\ 31 \in w) \/ m = Exact(w, Layout32(op))
  PROVE  Decodes32(w, Ins(op, d, rs1, rs2, m))
BY DEF Decodes32, Formed, Ins

\* The names of all the operations.
LEMMA Names ==
  /\ LoadOps \subseteq OpNames /\ StoreOps \subseteq OpNames /\ FloatOps \subseteq OpNames
  /\ BranchOps \subseteq OpNames /\ JumpOps \subseteq OpNames /\ UpperOps \subseteq OpNames
  /\ BasicImmOps \subseteq OpNames /\ WordImmOps \subseteq OpNames /\ BasicOps \subseteq OpNames
  /\ MultiplyOps \subseteq OpNames /\ DivideOps \subseteq OpNames
  /\ BasicWordOps \subseteq OpNames /\ DivideWordOps \subseteq OpNames
  /\ {"nop", "illegal", "panic", "ebreak"} \subseteq OpNames
BY DEF OpNames, Executable, ComputeOps, ImmOps, RegOps

\* The numbers that are read from fields of bits.
LEMMA FieldNumbers ==
  ASSUME NEW w, NEW s \in Int
  PROVE  /\ Num(Field(w, s, 0 .. 1)) \in 0 .. 3 /\ Num(Field(w, s, 0 .. 2)) \in 0 .. 7
         /\ Reg3(w, s) \in 0 .. 31 /\ Reg5(w, s) \in 0 .. 31
         /\ Num(Field(w, s, 0 .. 6)) \in 0 .. 127
<1>1. /\ Num(Field(w, s, 0 .. 1)) \in 0 .. 3 /\ Num(Field(w, s, 0 .. 2)) \in 0 .. 7
      /\ Num(Field(w, s, 0 .. 4)) \in 0 .. 31 /\ Num(Field(w, s, 0 .. 6)) \in 0 .. 127
  BY DEF Num, Field
<1> QED BY <1>1 DEF Reg3, Reg5

\* No immediate is wider than a register.
LEMMA ImmediateTypes ==
  ASSUME NEW w
  PROVE  /\ \A s \in Int, m \in SUBSET (0 .. 63) : Field(w, s, m) \subseteq 0 .. 63
         /\ Imm6(w) \subseteq 0 .. 63 /\ SignExtended(Imm6(w), 5) \subseteq 0 .. 63
         /\ Imm_addi16sp(w) \subseteq 0 .. 63 /\ Imm_lui(w) \subseteq 0 .. 63
         /\ Offset_lw(w) \subseteq 0 .. 63 /\ Offset_ld(w) \subseteq 0 .. 63
         /\ Offset_j(w) \subseteq 0 .. 63 /\ Offset_b(w) \subseteq 0 .. 63
         /\ Offset_ldsp(w) \subseteq 0 .. 63 /\ Offset_lwsp(w) \subseteq 0 .. 63
         /\ Offset_sdsp(w) \subseteq 0 .. 63 /\ Offset_swsp(w) \subseteq 0 .. 63
         /\ Imm_I(w) \subseteq 0 .. 63 /\ Imm_S(w) \subseteq 0 .. 63 /\ Imm_FS(w) \subseteq 0 .. 63
         /\ Imm_U(w) \subseteq 0 .. 63 /\ Imm_B(w) \subseteq 0 .. 63 /\ Imm_J(w) \subseteq 0 .. 63
<1>1. \A s \in Int, m \in SUBSET (0 .. 63) : Field(w, s, m) \subseteq 0 .. 63
  BY DEF Field
<1>5. /\ Imm6(w) \subseteq 0 .. 63 /\ SignExtended(Imm6(w), 5) \subseteq 0 .. 63
      /\ Imm_addi16sp(w) \subseteq 0 .. 63 /\ Imm_lui(w) \subseteq 0 .. 63
  BY DEF Field, SignExtended, Imm6, Imm_addi16sp, Imm_lui
<1>2. Offset_j(w) \subseteq 0 .. 63 /\ Offset_b(w) \subseteq 0 .. 63
  BY DEF Field, SignExtended, Offset_j, Offset_b
<1>3. /\ Offset_lw(w) \subseteq 0 .. 63 /\ Offset_ld(w) \subseteq 0 .. 63
      /\ Offset_ldsp(w) \subseteq 0 .. 63 /\ Offset_lwsp(w) \subseteq 0 .. 63
      /\ Offset_sdsp(w) \subseteq 0 .. 63 /\ Offset_swsp(w) \subseteq 0 .. 63
  BY DEF Field, Offset_lw, Offset_ld, Offset_ldsp, Offset_lwsp, Offset_sdsp, Offset_swsp
<1>4. /\ Imm_I(w) \subseteq 0 .. 63 /\ Imm_S(w) \subseteq 0 .. 63 /\ Imm_FS(w) \subseteq 0 .. 63
      /\ Imm_U(w) \subseteq 0 .. 63 /\ Imm_B(w) \subseteq 0 .. 63 /\ Imm_J(w) \subseteq 0 .. 63
  BY DEF Field, FieldSigned, Imm_I, Imm_S, Imm_FS, Imm_U, Imm_B, Imm_J
<1> QED BY <1>1, <1>2, <1>3, <1>4, <1>5

\* Operations without an immediate.
LEMMA NoLayout16 ==
  ASSUME NEW w, NEW op \in {"sub", "xor", "or", "and", "subw", "addw", "add", "c.jr", "c.jalr",
                            "nop", "illegal", "panic", "ebreak"}
  PROVE  Layout16(w, op) = Layout(<<>>, <<>>, 64)
BY DEF Layout16

\* The same for 32 bits.
LEMMA NoLayout32 ==
  ASSUME NEW op \in BasicOps \cup MultiplyOps \cup DivideOps \cup BasicWordOps
                      \cup DivideWordOps \cup {"nop", "illegal"}
  PROVE  Layout32(op) = Layout(<<>>, <<>>, 64)
BY ZenonT(60) DEF Layout32, ImmOps, ShiftOps, WordShiftOps, BasicImmOps, WordImmOps, LoadOps,
       StoreOps, BranchOps, UpperOps, BasicOps, MultiplyOps, DivideOps, BasicWordOps, DivideWordOps

\* Instructions without an immediate.
LEMMA Plain16 ==
  ASSUME NEW w, NEW d \in 0 .. 31, NEW rs1 \in 0 .. 31, NEW rs2 \in 0 .. 31,
         NEW op \in {"sub", "xor", "or", "and", "subw", "addw", "add", "c.jr", "c.jalr",
                     "nop", "illegal", "panic", "ebreak"}
  PROVE  Decodes16(w, Ins(op, d, rs1, rs2, {}))
<1>1. op \in OpNames
  BY Names DEF BasicOps, BasicWordOps, JumpOps
<1>2. {} = Exact(w, Layout16(w, op))
  BY NoLayout16, LayoutNone
<1> QED BY <1>1, <1>2, Decoded16, Zenon

\* The same for 32 bits.
LEMMA Plain32 ==
  ASSUME NEW w, NEW d \in 0 .. 31, NEW rs1 \in 0 .. 31, NEW rs2 \in 0 .. 31,
         NEW op \in BasicOps \cup MultiplyOps \cup DivideOps \cup BasicWordOps
                      \cup DivideWordOps \cup {"nop", "illegal"}
  PROVE  Decodes32(w, Ins(op, d, rs1, rs2, {}))
<1>1. op \in OpNames
  BY Names
<1>2. {} = Exact(w, Layout32(op))
  BY NoLayout32, LayoutNone
<1> QED BY <1>1, <1>2, Decoded32, Zenon

\* Words that are reserved or do nothing.
LEMMA Fixed16 ==
  ASSUME NEW w
  PROVE  Decodes16(w, Illegal) /\ Decodes16(w, Nop) /\ Decodes16(w, Panic)
<1>1. 0 \in 0 .. 31
  OBVIOUS
<1> QED BY <1>1, Plain16, Zenon DEF Illegal, Nop, Panic


\* Quadrant 0: loads and stores of the registers x8 to x15.
LEMMA Quadrant0Decodes ==
  ASSUME NEW w, w \subseteq 0 .. 31, Num(w \cap {0, 1}) = 0
  PROVE  Decodes16(w, Quadrant0(w))
<1> DEFINE f == Num(Field(w, 13, 0 .. 2))
           low == Reg3(w, 2)
           high == Reg3(w, 7)
<1>1. f \in 0 .. 7 /\ low \in 0 .. 31 /\ high \in 0 .. 31 /\ 0 \in 0 .. 31 /\ 2 \in 0 .. 31
  BY FieldNumbers
<1> HIDE DEF f, low, high
<1>2. CASE f = 0
  <2> DEFINE nzuimm == Field(w, 1, 6 .. 9) \cup Field(w, 7, 4 .. 5) \cup Field(w, 2, {3})
                         \cup Field(w, 4, {2})
  <2>1. Quadrant0(w) = IF nzuimm = {} THEN Illegal ELSE Ins("addi", low, 2, 0, nzuimm)
    BY <1>2 DEF Quadrant0, f, low
  <2>2. Layout16(w, "addi") = Layout(Down(12, 5), <<5, 4, 9, 8, 7, 6, 2, 3>>, 64)
    BY DEF Layout16
  <2>3. nzuimm = Exact(w, Layout16(w, "addi"))
    BY <2>2, LayoutAddi4spn, Zenon
  <2>4. "addi" \in OpNames /\ nzuimm \subseteq 0 .. 63
    BY Names DEF BasicImmOps, Field
  <2> HIDE DEF nzuimm
  <2> QED BY <1>1, <2>1, <2>3, <2>4, Decoded16, Fixed16, Zenon
<1>3. CASE f = 1
  <2>1. Quadrant0(w) = Ins("fld", low, high, 0, Offset_ld(w))
    BY <1>3 DEF Quadrant0, f, low, high
  <2>2. Layout16(w, "fld") = Layout(<<12, 11, 10, 6, 5>>, <<5, 4, 3, 7, 6>>, 64)
    BY <1>3 DEF Layout16, f
  <2>3. Offset_ld(w) = Exact(w, Layout16(w, "fld"))
    BY <2>2, LayoutLd, Zenon
  <2>4. "fld" \in OpNames /\ Offset_ld(w) \subseteq 0 .. 63
    BY Names, ImmediateTypes DEF FloatOps
  <2> HIDE DEF low, high
  <2> QED BY <1>1, <2>1, <2>3, <2>4, Decoded16, Zenon
<1>4. CASE f = 2
  <2>1. Quadrant0(w) = Ins("lw", low, high, 0, Offset_lw(w))
    BY <1>4 DEF Quadrant0, f, low, high
  <2>2. Layout16(w, "lw") = Layout(<<12, 11, 10, 6, 5>>, <<5, 4, 3, 2, 6>>, 64)
    BY <1>4 DEF Layout16, f
  <2>3. Offset_lw(w) = Exact(w, Layout16(w, "lw"))
    BY <2>2, LayoutLw, Zenon
  <2>4. "lw" \in OpNames /\ Offset_lw(w) \subseteq 0 .. 63
    BY Names, ImmediateTypes DEF LoadOps
  <2> HIDE DEF low, high
  <2> QED BY <1>1, <2>1, <2>3, <2>4, Decoded16, Zenon
<1>5. CASE f = 3
  <2>1. Quadrant0(w) = Ins("ld", low, high, 0, Offset_ld(w))
    BY <1>5 DEF Quadrant0, f, low, high
  <2>2. Layout16(w, "ld") = Layout(<<12, 11, 10, 6, 5>>, <<5, 4, 3, 7, 6>>, 64)
    BY <1>5 DEF Layout16, f
  <2>3. Offset_ld(w) = Exact(w, Layout16(w, "ld"))
    BY <2>2, LayoutLd
  <2>4. "ld" \in OpNames /\ Offset_ld(w) \subseteq 0 .. 63
    BY Names, ImmediateTypes DEF LoadOps
  <2> HIDE DEF low, high
  <2> QED BY <1>1, <2>1, <2>3, <2>4, Decoded16, Zenon
<1>6. CASE f = 4
  <2>1. Quadrant0(w) = Panic
    BY <1>6 DEF Quadrant0, f
  <2> QED BY <2>1, Fixed16
<1>7. CASE f = 5
  <2>1. Quadrant0(w) = Ins("fsd", 0, high, low, Offset_ld(w))
    BY <1>7 DEF Quadrant0, f, low, high
  <2>2. Layout16(w, "fsd") = Layout(<<12, 11, 10, 6, 5>>, <<5, 4, 3, 7, 6>>, 64)
    BY <1>7 DEF Layout16, f
  <2>3. Offset_ld(w) = Exact(w, Layout16(w, "fsd"))
    BY <2>2, LayoutLd, Zenon
  <2>4. "fsd" \in OpNames /\ Offset_ld(w) \subseteq 0 .. 63
    BY Names, ImmediateTypes DEF FloatOps
  <2> HIDE DEF low, high
  <2> QED BY <1>1, <2>1, <2>3, <2>4, Decoded16, Zenon
<1>8. CASE f = 6
  <2>1. Quadrant0(w) = Ins("sw", 0, high, low, Offset_lw(w))
    BY <1>8 DEF Quadrant0, f, low, high
  <2>2. Layout16(w, "sw") = Layout(<<12, 11, 10, 6, 5>>, <<5, 4, 3, 2, 6>>, 64)
    BY <1>8 DEF Layout16, f
  <2>3. Offset_lw(w) = Exact(w, Layout16(w, "sw"))
    BY <2>2, LayoutLw, Zenon
  <2>4. "sw" \in OpNames /\ Offset_lw(w) \subseteq 0 .. 63
    BY Names, ImmediateTypes DEF StoreOps
  <2> HIDE DEF low, high
  <2> QED BY <1>1, <2>1, <2>3, <2>4, Decoded16, Zenon
<1>9. CASE f = 7
  <2>1. Quadrant0(w) = Ins("sd", 0, high, low, Offset_ld(w))
    BY <1>9 DEF Quadrant0, f, low, high
  <2>2. Layout16(w, "sd") = Layout(<<12, 11, 10, 6, 5>>, <<5, 4, 3, 7, 6>>, 64)
    BY <1>9 DEF Layout16, f
  <2>3. Offset_ld(w) = Exact(w, Layout16(w, "sd"))
    BY <2>2, LayoutLd
  <2>4. "sd" \in OpNames /\ Offset_ld(w) \subseteq 0 .. 63
    BY Names, ImmediateTypes DEF StoreOps
  <2> HIDE DEF low, high
  <2> QED BY <1>1, <2>1, <2>3, <2>4, Decoded16, Zenon
<1> QED BY <1>1, <1>2, <1>3, <1>4, <1>5, <1>6, <1>7, <1>8, <1>9

\* Quadrant 1: c.addi16sp and c.lui.
LEMMA AddSpOrLuiDecodes ==
  ASSUME NEW w, w \subseteq 0 .. 31, Num(w \cap {0, 1}) = 1, Num(Field(w, 13, 0 .. 2)) = 3
  PROVE  Decodes16(w, AddSpOrLui(w))
<1> DEFINE low == Reg5(w, 7)
<1>1. low \in 0 .. 31 /\ 0 \in 0 .. 31 /\ 2 \in 0 .. 31
  BY FieldNumbers
<1>2. /\ "addi" \in OpNames /\ Imm_addi16sp(w) \subseteq 0 .. 63
      /\ "lui" \in OpNames /\ Imm_lui(w) \subseteq 0 .. 63
  BY Names, ImmediateTypes DEF BasicImmOps, UpperOps
<1>3. Layout16(w, "addi") = Layout(Sp, <<9, 4, 6, 8, 7, 5>>, 9)
  BY DEF Layout16
<1>4. Layout16(w, "lui") = Layout(Sp, Down(17, 12), 17)
  BY DEF Layout16
<1>5. Imm_addi16sp(w) = Exact(w, Layout16(w, "addi"))
  BY <1>3, LayoutAddi16sp
<1>6. Imm_lui(w) = Exact(w, Layout16(w, "lui"))
  BY <1>4, LayoutLui
<1>7. AddSpOrLui(w) \in {Nop, Ins("addi", 2, 2, 0, Imm_addi16sp(w)),
                         Ins("lui", low, 0, 0, Imm_lui(w))}
  BY DEF AddSpOrLui
<1> HIDE DEF low
<1>8. Decodes16(w, Ins("addi", 2, 2, 0, Imm_addi16sp(w)))
  BY <1>1, <1>2, <1>5, Decoded16, Zenon
<1>9. Decodes16(w, Ins("lui", low, 0, 0, Imm_lui(w)))
  BY <1>1, <1>2, <1>6, Decoded16, Zenon
<1> QED BY <1>7, <1>8, <1>9, Fixed16

\* Quadrant 1: shifts, c.andi and the operations on registers.
LEMMA MiscDecodes ==
  ASSUME NEW w, w \subseteq 0 .. 31, Num(w \cap {0, 1}) = 1, Num(Field(w, 13, 0 .. 2)) = 4
  PROVE  Decodes16(w, Misc(w))
<1> DEFINE low == Reg3(w, 2)
           high == Reg3(w, 7)
           f == Num(Field(w, 10, 0 .. 1))
           op == Num(Field(w, 5, 0 .. 1))
<1>1. low \in 0 .. 31 /\ high \in 0 .. 31 /\ 0 \in 0 .. 31 /\ f \in 0 .. 3 /\ op \in 0 .. 3
  BY FieldNumbers
<1>2. /\ {"srli", "srai", "andi"} \subseteq OpNames
      /\ Imm6(w) \subseteq 0 .. 63 /\ SignExtended(Imm6(w), 5) \subseteq 0 .. 63
  BY Names, ImmediateTypes DEF BasicImmOps
<1>3. /\ Layout16(w, "srli") = Layout(Sp, Down(5, 0), 64)
      /\ Layout16(w, "srai") = Layout(Sp, Down(5, 0), 64)
      /\ Layout16(w, "andi") = Layout(Sp, Down(5, 0), 5)
  BY DEF Layout16
<1>4. /\ Imm6(w) = Exact(w, Layout16(w, "srli"))
      /\ Imm6(w) = Exact(w, Layout16(w, "srai"))
      /\ SignExtended(Imm6(w), 5) = Exact(w, Layout16(w, "andi"))
  BY <1>3, LayoutShamt6, LayoutImm6
<1>5. /\ f = 0 => Misc(w) = Ins("srli", high, high, 0, Imm6(w))
      /\ f = 1 => Misc(w) = Ins("srai", high, high, 0, Imm6(w))
      /\ f = 2 => Misc(w) = Ins("andi", high, high, 0, SignExtended(Imm6(w), 5))
  BY DEF Misc
<1>6. ASSUME f = 3
      PROVE  \/ Misc(w) = Illegal
             \/ \E name \in {"sub", "xor", "or", "and", "subw", "addw"} :
                  Misc(w) = Ins(name, high, high, low, {})
  <2>1. op = 0 \/ op = 1 \/ op = 2 \/ op = 3
    BY <1>1
  <2>2. Misc(w) = IF 12 \notin w
                  THEN Ins(<<"sub", "xor", "or", "and">>[op + 1], high, high, low, {})
                  ELSE IF op \in {0, 1}
                  THEN Ins(<<"subw", "addw">>[op + 1], high, high, low, {})
                  ELSE Illegal
    BY <1>6 DEF Misc
  <2> HIDE DEF low, high, f, op
  <2>3. <<"sub", "xor", "or", "and">>[op + 1] \in {"sub", "xor", "or", "and"}
    BY <2>1
  <2>4. op \in {0, 1} => <<"subw", "addw">>[op + 1] \in {"subw", "addw"}
    OBVIOUS
  <2> QED BY <2>2, <2>3, <2>4
<1> HIDE DEF low, high, f, op
<1>7. ASSUME NEW name \in {"srli", "srai"}
      PROVE  Decodes16(w, Ins(name, high, high, 0, Imm6(w)))
  BY <1>1, <1>2, <1>4, Decoded16, Zenon
<1>8. Decodes16(w, Ins("andi", high, high, 0, SignExtended(Imm6(w), 5)))
  BY <1>1, <1>2, <1>4, Decoded16, Zenon
<1>9. ASSUME NEW name \in {"sub", "xor", "or", "and", "subw", "addw"}
      PROVE  Decodes16(w, Ins(name, high, high, low, {}))
  BY <1>1, Plain16, Zenon
<1> QED BY <1>1, <1>5, <1>6, <1>7, <1>8, <1>9, Fixed16

\* Quadrant 2: c.jr, c.mv, c.ebreak, c.jalr and c.add.
LEMMA JumpOrMoveDecodes ==
  ASSUME NEW w
  PROVE  Decodes16(w, JumpOrMove(w))
<1> DEFINE low == Reg5(w, 7)
           high == Reg5(w, 2)
<1>1. low \in 0 .. 31 /\ high \in 0 .. 31 /\ 0 \in 0 .. 31 /\ 1 \in 0 .. 31
  BY FieldNumbers
<1>2. JumpOrMove(w) \in {Nop, Ins("c.jr", 0, low, 0, {}), Ins("add", low, 0, high, {}),
                         Ins("ebreak", 0, 0, 0, {}), Ins("c.jalr", 1, low, 0, {}),
                         Ins("add", low, low, high, {})}
  BY DEF JumpOrMove
<1> HIDE DEF low, high
<1>3. /\ Decodes16(w, Ins("c.jr", 0, low, 0, {})) /\ Decodes16(w, Ins("add", low, 0, high, {}))
      /\ Decodes16(w, Ins("ebreak", 0, 0, 0, {})) /\ Decodes16(w, Ins("c.jalr", 1, low, 0, {}))
      /\ Decodes16(w, Ins("add", low, low, high, {}))
  BY <1>1, Plain16, Zenon
<1> QED BY <1>2, <1>3, Fixed16

\* The whole of quadrant 1.
LEMMA Quadrant1Decodes ==
  ASSUME NEW w, w \subseteq 0 .. 31, Num(w \cap {0, 1}) = 1
  PROVE  Decodes16(w, Quadrant1(w))
<1> DEFINE f == Num(Field(w, 13, 0 .. 2))
           low == Reg5(w, 7)
           high == Reg3(w, 7)
<1>1. f \in 0 .. 7 /\ low \in 0 .. 31 /\ high \in 0 .. 31 /\ 0 \in 0 .. 31 /\ 2 \in 0 .. 31
  BY FieldNumbers
<1> HIDE DEF f, low, high
<1>2. CASE f = 0
  <2>1. Quadrant1(w) = Ins("addi", low, low, 0, SignExtended(Imm6(w), 5))
    BY <1>2 DEF Quadrant1, f, low, high
  <2>2. Layout16(w, "addi") = Layout(Sp, Down(5, 0), 5)
    BY <1>2 DEF Layout16, f
  <2>3. SignExtended(Imm6(w), 5) = Exact(w, Layout16(w, "addi"))
    BY <2>2, LayoutImm6
  <2>4. "addi" \in OpNames /\ SignExtended(Imm6(w), 5) \subseteq 0 .. 63
    BY Names, ImmediateTypes DEF BasicImmOps
  <2> HIDE DEF low, high
  <2> QED BY <1>1, <2>1, <2>3, <2>4, Decoded16, Zenon
<1>3. CASE f = 1
  <2>1. Quadrant1(w) = Ins("addiw", low, low, 0, SignExtended(Imm6(w), 5))
    BY <1>3 DEF Quadrant1, f, low, high
  <2>2. Layout16(w, "addiw") = Layout(Sp, Down(5, 0), 5)
    BY <1>3 DEF Layout16, f
  <2>3. SignExtended(Imm6(w), 5) = Exact(w, Layout16(w, "addiw"))
    BY <2>2, LayoutImm6
  <2>4. "addiw" \in OpNames /\ SignExtended(Imm6(w), 5) \subseteq 0 .. 63
    BY Names, ImmediateTypes DEF WordImmOps
  <2> HIDE DEF low, high
  <2> QED BY <1>1, <2>1, <2>3, <2>4, Decoded16, Zenon
<1>4. CASE f = 2
  <2>1. Quadrant1(w) = Ins("addi", low, 0, 0, SignExtended(Imm6(w), 5))
    BY <1>4 DEF Quadrant1, f, low, high
  <2>2. Layout16(w, "addi") = Layout(Sp, Down(5, 0), 5)
    BY <1>4 DEF Layout16, f
  <2>3. SignExtended(Imm6(w), 5) = Exact(w, Layout16(w, "addi"))
    BY <2>2, LayoutImm6
  <2>4. "addi" \in OpNames /\ SignExtended(Imm6(w), 5) \subseteq 0 .. 63
    BY Names, ImmediateTypes DEF BasicImmOps
  <2> HIDE DEF low, high
  <2> QED BY <1>1, <2>1, <2>3, <2>4, Decoded16, Zenon
<1>5. CASE f = 3
  <2>1. Quadrant1(w) = AddSpOrLui(w)
    BY <1>5 DEF Quadrant1, f
  <2> QED BY <1>5, <2>1, AddSpOrLuiDecodes DEF f
<1>6. CASE f = 4
  <2>1. Quadrant1(w) = Misc(w)
    BY <1>6 DEF Quadrant1, f
  <2> QED BY <1>6, <2>1, MiscDecodes, Zenon DEF f
<1>7. CASE f = 5
  <2>1. Quadrant1(w) = Ins("jal", 0, 0, 0, Offset_j(w))
    BY <1>7 DEF Quadrant1, f, low, high
  <2>2. Layout16(w, "jal") = Layout(Down(12, 2), <<11, 4, 9, 8, 10, 6, 7, 3, 2, 1, 5>>, 11)
    BY <1>7 DEF Layout16, f
  <2>3. Offset_j(w) = Exact(w, Layout16(w, "jal"))
    BY <2>2, LayoutCj, Zenon
  <2>4. "jal" \in OpNames /\ Offset_j(w) \subseteq 0 .. 63
    BY Names, ImmediateTypes DEF JumpOps
  <2> HIDE DEF low, high
  <2> QED BY <1>1, <2>1, <2>3, <2>4, Decoded16, Zenon
<1>8. CASE f = 6
  <2>1. Quadrant1(w) = Ins("beq", 0, high, 0, Offset_b(w))
    BY <1>8 DEF Quadrant1, f, low, high
  <2>2. Layout16(w, "beq") = Layout(<<12, 11, 10, 6, 5, 4, 3, 2>>, <<8, 4, 3, 7, 6, 2, 1, 5>>, 8)
    BY <1>8 DEF Layout16, f
  <2>3. Offset_b(w) = Exact(w, Layout16(w, "beq"))
    BY <2>2, LayoutCb, Zenon
  <2>4. "beq" \in OpNames /\ Offset_b(w) \subseteq 0 .. 63
    BY Names, ImmediateTypes DEF BranchOps
  <2> HIDE DEF low, high
  <2> QED BY <1>1, <2>1, <2>3, <2>4, Decoded16, Zenon
<1>9. CASE f = 7
  <2>1. Quadrant1(w) = Ins("bne", 0, high, 0, Offset_b(w))
    BY <1>9 DEF Quadrant1, f, low, high
  <2>2. Layout16(w, "bne") = Layout(<<12, 11, 10, 6, 5, 4, 3, 2>>, <<8, 4, 3, 7, 6, 2, 1, 5>>, 8)
    BY <1>9 DEF Layout16, f
  <2>3. Offset_b(w) = Exact(w, Layout16(w, "bne"))
    BY <2>2, LayoutCb
  <2>4. "bne" \in OpNames /\ Offset_b(w) \subseteq 0 .. 63
    BY Names, ImmediateTypes DEF BranchOps
  <2> HIDE DEF low, high
  <2> QED BY <1>1, <2>1, <2>3, <2>4, Decoded16, Zenon
<1> QED BY <1>1, <1>2, <1>3, <1>4, <1>5, <1>6, <1>7, <1>8, <1>9

\* The whole of quadrant 2.
LEMMA Quadrant2Decodes ==
  ASSUME NEW w, w \subseteq 0 .. 31, Num(w \cap {0, 1}) = 2
  PROVE  Decodes16(w, Quadrant2(w))
<1> DEFINE f == Num(Field(w, 13, 0 .. 2))
           low == Reg5(w, 7)
           high == Reg5(w, 2)
<1>1. f \in 0 .. 7 /\ low \in 0 .. 31 /\ high \in 0 .. 31 /\ 0 \in 0 .. 31 /\ 2 \in 0 .. 31
  BY FieldNumbers
<1> HIDE DEF f, low, high
<1>2. CASE f = 0
  <2>1. Quadrant2(w) = Ins("slli", low, low, 0, Imm6(w))
    BY <1>2 DEF Quadrant2, f, low, high
  <2>2. Layout16(w, "slli") = Layout(Sp, Down(5, 0), 64)
    BY <1>2 DEF Layout16, f
  <2>3. Imm6(w) = Exact(w, Layout16(w, "slli"))
    BY <2>2, LayoutShamt6, Zenon
  <2>4. "slli" \in OpNames /\ Imm6(w) \subseteq 0 .. 63
    BY Names, ImmediateTypes DEF BasicImmOps
  <2> HIDE DEF low, high
  <2> QED BY <1>1, <2>1, <2>3, <2>4, Decoded16, Zenon
<1>3. CASE f = 1
  <2>1. Quadrant2(w) = Ins("fld", low, 2, 0, Offset_ldsp(w))
    BY <1>3 DEF Quadrant2, f, low, high
  <2>2. Layout16(w, "fld") = Layout(Sp, <<5, 4, 3, 8, 7, 6>>, 64)
    BY <1>3 DEF Layout16, f
  <2>3. Offset_ldsp(w) = Exact(w, Layout16(w, "fld"))
    BY <2>2, LayoutLdsp, Zenon
  <2>4. "fld" \in OpNames /\ Offset_ldsp(w) \subseteq 0 .. 63
    BY Names, ImmediateTypes DEF FloatOps
  <2> HIDE DEF low, high
  <2> QED BY <1>1, <2>1, <2>3, <2>4, Decoded16, Zenon
<1>4. CASE f = 2
  <2>1. Quadrant2(w) = Ins("lw", low, 2, 0, Offset_lwsp(w))
    BY <1>4 DEF Quadrant2, f, low, high
  <2>2. Layout16(w, "lw") = Layout(Sp, <<5, 4, 3, 2, 7, 6>>, 64)
    BY <1>4 DEF Layout16, f
  <2>3. Offset_lwsp(w) = Exact(w, Layout16(w, "lw"))
    BY <2>2, LayoutLwsp, Zenon
  <2>4. "lw" \in OpNames /\ Offset_lwsp(w) \subseteq 0 .. 63
    BY Names, ImmediateTypes DEF LoadOps
  <2> HIDE DEF low, high
  <2> QED BY <1>1, <2>1, <2>3, <2>4, Decoded16, Zenon
<1>5. CASE f = 3
  <2>1. Quadrant2(w) = Ins("ld", low, 2, 0, Offset_ldsp(w))
    BY <1>5 DEF Quadrant2, f, low, high
  <2>2. Layout16(w, "ld") = Layout(Sp, <<5, 4, 3, 8, 7, 6>>, 64)
    BY <1>5 DEF Layout16, f
  <2>3. Offset_ldsp(w) = Exact(w, Layout16(w, "ld"))
    BY <2>2, LayoutLdsp
  <2>4. "ld" \in OpNames /\ Offset_ldsp(w) \subseteq 0 .. 63
    BY Names, ImmediateTypes DEF LoadOps
  <2> HIDE DEF low, high
  <2> QED BY <1>1, <2>1, <2>3, <2>4, Decoded16, Zenon
<1>6. CASE f = 4
  <2>1. Quadrant2(w) = JumpOrMove(w)
    BY <1>6 DEF Quadrant2, f
  <2> QED BY <2>1, JumpOrMoveDecodes
<1>7. CASE f = 5
  <2>1. Quadrant2(w) = Ins("fsd", 0, 2, high, Offset_sdsp(w))
    BY <1>7 DEF Quadrant2, f, low, high
  <2>2. Layout16(w, "fsd") = Layout(Down(12, 7), <<5, 4, 3, 8, 7, 6>>, 64)
    BY <1>7 DEF Layout16, f
  <2>3. Offset_sdsp(w) = Exact(w, Layout16(w, "fsd"))
    BY <2>2, LayoutSdsp, Zenon
  <2>4. "fsd" \in OpNames /\ Offset_sdsp(w) \subseteq 0 .. 63
    BY Names, ImmediateTypes DEF FloatOps
  <2> HIDE DEF low, high
  <2> QED BY <1>1, <2>1, <2>3, <2>4, Decoded16, Zenon
<1>8. CASE f = 6
  <2>1. Quadrant2(w) = Ins("sw", 0, 2, high, Offset_swsp(w))
    BY <1>8 DEF Quadrant2, f, low, high
  <2>2. Layout16(w, "sw") = Layout(Down(12, 7), <<5, 4, 3, 2, 7, 6>>, 64)
    BY <1>8 DEF Layout16, f
  <2>3. Offset_swsp(w) = Exact(w, Layout16(w, "sw"))
    BY <2>2, LayoutSwsp, Zenon
  <2>4. "sw" \in OpNames /\ Offset_swsp(w) \subseteq 0 .. 63
    BY Names, ImmediateTypes DEF StoreOps
  <2> HIDE DEF low, high
  <2> QED BY <1>1, <2>1, <2>3, <2>4, Decoded16, Zenon
<1>9. CASE f = 7
  <2>1. Quadrant2(w) = Ins("sd", 0, 2, high, Offset_sdsp(w))
    BY <1>9 DEF Quadrant2, f, low, high
  <2>2. Layout16(w, "sd") = Layout(Down(12, 7), <<5, 4, 3, 8, 7, 6>>, 64)
    BY <1>9 DEF Layout16, f
  <2>3. Offset_sdsp(w) = Exact(w, Layout16(w, "sd"))
    BY <2>2, LayoutSdsp
  <2>4. "sd" \in OpNames /\ Offset_sdsp(w) \subseteq 0 .. 63
    BY Names, ImmediateTypes DEF StoreOps
  <2> HIDE DEF low, high
  <2> QED BY <1>1, <2>1, <2>3, <2>4, Decoded16, Zenon
<1> QED BY <1>1, <1>2, <1>3, <1>4, <1>5, <1>6, <1>7, <1>8, <1>9

----------------------------------------------------------------------------
(* Decoding of the instructions of 32 bits, opcode by opcode.              *)

\* Registers of an instruction of 32 bits.
LEMMA Registers32 ==
  ASSUME NEW w
  PROVE  /\ rd_of(w) \in 0 .. 31 /\ rs1_of(w) \in 0 .. 31 /\ rs2_of(w) \in 0 .. 31
         /\ funct3_of(w) \in 0 .. 7 /\ funct7_of(w) \in 0 .. 127 /\ 0 \in 0 .. 31
BY FieldNumbers DEF rd_of, rs1_of, rs2_of, funct3_of, funct7_of

\* Words that are reserved or do nothing.
LEMMA Fixed32 ==
  ASSUME NEW w
  PROVE  Decodes32(w, Illegal) /\ Decodes32(w, Nop)
<1>1. 0 \in 0 .. 31
  OBVIOUS
<1> QED BY <1>1, Plain32, Zenon DEF Illegal, Nop

\* Loads, operations with an immediate and jalr.
FormatIOps ==
  LoadOps \cup {"flw", "fld", "jalr", "addi", "slti", "sltiu", "xori", "ori", "andi", "addiw"}

\* Format I.
LEMMA FormatIDecodes ==
  ASSUME NEW w, w \subseteq 0 .. 31, NEW op \in FormatIOps
  PROVE  Decodes32(w, FormatI(op, w, Imm_I(w)))
<1>1. Layout32(op) = Layout(Down(31, 20), Down(11, 0), 11)
  BY DEF Layout32, ImmOps, ShiftOps, WordShiftOps, BasicImmOps, WordImmOps, LoadOps,
         StoreOps, BranchOps, UpperOps, FormatIOps
<1>2. Imm_I(w) = Exact(w, Layout32(op)) /\ Imm_I(w) \subseteq 0 .. 63
  BY <1>1, LayoutI, ImmediateTypes
<1>3. op \in OpNames
  BY Names DEF FormatIOps, FloatOps, JumpOps, BasicImmOps, WordImmOps
<1> QED BY <1>2, <1>3, Registers32, Decoded32, Zenon DEF FormatI

\* Shifts by an immediate.
LEMMA ShiftDecodes ==
  ASSUME NEW w, w \subseteq 0 .. 31
  PROVE  /\ \A op \in {"slli", "srli", "srai"} : Decodes32(w, FormatI(op, w, Field(w, 20, 0 .. 5)))
         /\ \A op \in {"slliw", "srliw", "sraiw"} :
              Decodes32(w, FormatI(op, w, Imm_I(w) \cap 0 .. 4))
<1>1. ASSUME NEW op \in {"slli", "srli", "srai"}
      PROVE  Decodes32(w, FormatI(op, w, Field(w, 20, 0 .. 5)))
  <2>1. Layout32(op) = Layout(Down(25, 20), Down(5, 0), 64)
    BY DEF Layout32, ImmOps, ShiftOps, WordShiftOps, BasicImmOps, WordImmOps, LoadOps,
           StoreOps, BranchOps, UpperOps
  <2>2. Field(w, 20, 0 .. 5) = Exact(w, Layout32(op)) /\ Field(w, 20, 0 .. 5) \subseteq 0 .. 63
    <3>1. Field(w, 20, 0 .. 5) \subseteq 0 .. 63
      BY DEF Field
    <3> QED BY <2>1, <3>1, LayoutShift
  <2>3. op \in OpNames
    BY Names DEF BasicImmOps
  <2> QED BY <2>2, <2>3, Registers32, Decoded32, Zenon DEF FormatI
<1>2. ASSUME NEW op \in {"slliw", "srliw", "sraiw"}
      PROVE  Decodes32(w, FormatI(op, w, Imm_I(w) \cap 0 .. 4))
  <2>1. Layout32(op) = Layout(Down(24, 20), Down(4, 0), 64)
    BY DEF Layout32, ImmOps, ShiftOps, WordShiftOps, BasicImmOps, WordImmOps, LoadOps,
           StoreOps, BranchOps, UpperOps
  <2>2. Imm_I(w) \cap 0 .. 4 = Exact(w, Layout32(op)) /\ Imm_I(w) \cap 0 .. 4 \subseteq 0 .. 63
    <3>1. Imm_I(w) \cap 0 .. 4 \subseteq 0 .. 63
      OBVIOUS
    <3> QED BY <2>1, <3>1, LayoutWordShift, Zenon
  <2>3. op \in OpNames
    BY Names DEF WordImmOps
  <2> QED BY <2>2, <2>3, Registers32, Decoded32, Zenon DEF FormatI
<1> QED BY <1>1, <1>2

\* Formats S and B.
LEMMA FormatSDecodes ==
  ASSUME NEW w, w \subseteq 0 .. 31
  PROVE  /\ \A op \in StoreOps : Decodes32(w, FormatS(op, w, Imm_S(w)))
         /\ \A op \in {"fsw", "fsd"} : Decodes32(w, FormatS(op, w, Imm_FS(w)))
         /\ \A op \in BranchOps : Decodes32(w, FormatS(op, w, Imm_B(w)))
<1>1. ASSUME NEW op \in StoreOps PROVE Decodes32(w, FormatS(op, w, Imm_S(w)))
  <2>1. Layout32(op) = Layout(Split, Down(11, 0), 11)
    BY DEF Layout32, ImmOps, ShiftOps, WordShiftOps, BasicImmOps, WordImmOps, LoadOps,
           StoreOps, BranchOps, UpperOps
  <2>2. Imm_S(w) = Exact(w, Layout32(op)) /\ Imm_S(w) \subseteq 0 .. 63
    BY <2>1, LayoutS, ImmediateTypes
  <2> QED BY <2>2, Names, Registers32, Decoded32, Zenon DEF FormatS
<1>2. ASSUME NEW op \in {"fsw", "fsd"} PROVE Decodes32(w, FormatS(op, w, Imm_FS(w)))
  <2>1. Layout32(op) = Layout(Split, Down(11, 0), 11)
    BY DEF Layout32, ImmOps, ShiftOps, WordShiftOps, BasicImmOps, WordImmOps, LoadOps,
           StoreOps, BranchOps, UpperOps
  <2>2. 31 \notin w => Imm_FS(w) = Exact(w, Layout32(op))
    BY <2>1, LayoutFS
  <2>3. op \in OpNames /\ Imm_FS(w) \subseteq 0 .. 63
    BY Names, ImmediateTypes DEF FloatOps
  <2> QED BY <2>2, <2>3, Registers32, Decoded32, Zenon DEF FormatS
<1>3. ASSUME NEW op \in BranchOps PROVE Decodes32(w, FormatS(op, w, Imm_B(w)))
  <2>1. Layout32(op) = Layout(Split, <<12, 10, 9, 8, 7, 6, 5, 4, 3, 2, 1, 11>>, 12)
    BY DEF Layout32, ImmOps, ShiftOps, WordShiftOps, BasicImmOps, WordImmOps, LoadOps,
           StoreOps, BranchOps, UpperOps
  <2>2. Imm_B(w) = Exact(w, Layout32(op)) /\ Imm_B(w) \subseteq 0 .. 63
    BY <2>1, LayoutB, ImmediateTypes
  <2> QED BY <2>2, Names, Registers32, Decoded32, Zenon DEF FormatS
<1> QED BY <1>1, <1>2, <1>3

\* Formats U and J.
LEMMA UpperDecodes ==
  ASSUME NEW w, w \subseteq 0 .. 31
  PROVE  /\ \A op \in UpperOps : Decodes32(w, Ins(op, rd_of(w), 0, 0, Imm_U(w)))
         /\ Decodes32(w, Ins("jal", rd_of(w), 0, 0, Imm_J(w)))
<1>1. ASSUME NEW op \in UpperOps PROVE Decodes32(w, Ins(op, rd_of(w), 0, 0, Imm_U(w)))
  <2>1. Layout32(op) = Layout(Down(31, 12), Down(31, 12), 31)
    BY DEF Layout32, ImmOps, ShiftOps, WordShiftOps, BasicImmOps, WordImmOps, LoadOps,
           StoreOps, BranchOps, UpperOps
  <2>2. Imm_U(w) = Exact(w, Layout32(op)) /\ Imm_U(w) \subseteq 0 .. 63
    BY <2>1, LayoutU, ImmediateTypes
  <2> QED BY <2>2, Names, Registers32, Decoded32, Zenon
<1>2. Layout32("jal") = Layout(Down(31, 12), <<20, 10, 9, 8, 7, 6, 5, 4, 3, 2, 1, 11,
                                               19, 18, 17, 16, 15, 14, 13, 12>>, 20)
  BY DEF Layout32, ImmOps, ShiftOps, WordShiftOps, BasicImmOps, WordImmOps, LoadOps,
         StoreOps, BranchOps, UpperOps
<1>3. Imm_J(w) = Exact(w, Layout32("jal")) /\ Imm_J(w) \subseteq 0 .. 63
  BY <1>2, LayoutJ, ImmediateTypes
<1>4. "jal" \in OpNames
  BY Names DEF JumpOps
<1> QED BY <1>1, <1>3, <1>4, Registers32, Decoded32, Zenon

\* Loads and stores.
LEMMA LoadStoreDecodes ==
  ASSUME NEW w, w \subseteq 0 .. 31
  PROVE  /\ Decodes32(w, LoadOp(w)) /\ Decodes32(w, FloatLoadOp(w))
         /\ Decodes32(w, StoreOp(w)) /\ Decodes32(w, FloatStoreOp(w))
<1> DEFINE f == funct3_of(w)
<1>1. f = 0 \/ f = 1 \/ f = 2 \/ f = 3 \/ f = 4 \/ f = 5 \/ f = 6 \/ f = 7
  <2>1. f \in 0 .. 7
    BY Registers32
  <2> HIDE DEF f
  <2> QED BY <2>1
<1>2. LoadOp(w) = IF f = 7 THEN Illegal
                  ELSE FormatI(<<"lb", "lh", "lw", "ld", "lbu", "lhu", "lwu">>[f + 1], w, Imm_I(w))
  BY DEF LoadOp
<1>3. StoreOp(w) = IF f > 3 THEN Illegal
                   ELSE FormatS(<<"sb", "sh", "sw", "sd">>[f + 1], w, Imm_S(w))
  BY DEF StoreOp
<1> HIDE DEF f
<1>4. f # 7 => <<"lb", "lh", "lw", "ld", "lbu", "lhu", "lwu">>[f + 1] \in LoadOps
  BY <1>1 DEF LoadOps
<1>5. ~(f > 3) => <<"sb", "sh", "sw", "sd">>[f + 1] \in StoreOps
  BY <1>1 DEF StoreOps
<1>6. Decodes32(w, LoadOp(w)) /\ Decodes32(w, StoreOp(w))
  BY <1>2, <1>3, <1>4, <1>5, FormatIDecodes, FormatSDecodes, Fixed32 DEF FormatIOps
<1>7. /\ FloatLoadOp(w) \in {Illegal, FormatI("flw", w, Imm_I(w)), FormatI("fld", w, Imm_I(w))}
      /\ FloatStoreOp(w) \in {Illegal, FormatS("fsw", w, Imm_FS(w)), FormatS("fsd", w, Imm_FS(w))}
  BY DEF FloatLoadOp, FloatStoreOp
<1>8. /\ Decodes32(w, FormatI("flw", w, Imm_I(w))) /\ Decodes32(w, FormatI("fld", w, Imm_I(w)))
      /\ Decodes32(w, FormatS("fsw", w, Imm_FS(w))) /\ Decodes32(w, FormatS("fsd", w, Imm_FS(w)))
  BY FormatIDecodes, FormatSDecodes DEF FormatIOps
<1> QED BY <1>6, <1>7, <1>8, Fixed32

\* Operations with an immediate.
LEMMA ImmediateDecodes ==
  ASSUME NEW w, w \subseteq 0 .. 31
  PROVE  Decodes32(w, ImmediateOp(w)) /\ Decodes32(w, ImmediateWordOp(w))
<1>1. funct3_of(w) \in 0 .. 7
  BY Registers32
<1>2. \/ ImmediateOp(w) = Illegal
      \/ \E op \in FormatIOps : ImmediateOp(w) = FormatI(op, w, Imm_I(w))
      \/ \E op \in {"slli", "srli", "srai"} : ImmediateOp(w) = FormatI(op, w, Field(w, 20, 0 .. 5))
  <2> DEFINE f == funct3_of(w)
  <2>1. CASE f = 1 \/ f = 5
    BY <2>1 DEF ImmediateOp
  <2>2. CASE f = 0
    BY <2>2 DEF ImmediateOp, FormatIOps
  <2>3. CASE f = 2 \/ f = 3 \/ f = 4
    BY <2>3 DEF ImmediateOp, FormatIOps
  <2>4. CASE f = 6 \/ f = 7
    BY <2>4 DEF ImmediateOp, FormatIOps
  <2> QED BY <1>1, <2>1, <2>2, <2>3, <2>4
<1>3. \/ ImmediateWordOp(w) = Illegal
      \/ ImmediateWordOp(w) = FormatI("addiw", w, Imm_I(w))
      \/ \E op \in {"slliw", "srliw", "sraiw"} :
           ImmediateWordOp(w) = FormatI(op, w, Imm_I(w) \cap 0 .. 4)
  BY DEF ImmediateWordOp
<1>4. "addiw" \in FormatIOps
  BY DEF FormatIOps
<1> QED BY <1>2, <1>3, <1>4, FormatIDecodes, ShiftDecodes, Fixed32

\* The operations of opcodes 0x33 and 0x3b.
RegisterNames == BasicOps \cup MultiplyOps \cup DivideOps \cup BasicWordOps \cup DivideWordOps

\* Operations on registers.
LEMMA RegisterDecodes ==
  ASSUME NEW w
  PROVE  /\ Decodes32(w, RegisterOp(w, RegisterName(funct3_of(w), funct7_of(w))))
         /\ Decodes32(w, RegisterOp(w, RegisterWordName(funct3_of(w), funct7_of(w))))
<1> DEFINE f == funct3_of(w)
           g == funct7_of(w)
<1>1. f \in 0 .. 7
  BY Registers32
<1> HIDE DEF f, g
<1>2. RegisterName(f, g) \in RegisterNames \cup {"illegal"}
  <2>1. f = 0 \/ f = 1 \/ f = 2 \/ f = 3 \/ f = 4 \/ f = 5 \/ f = 6 \/ f = 7
    BY <1>1
  <2>2. CASE g = 0
    <3>1. RegisterName(f, g) = <<"add", "sll", "slt", "sltu", "xor", "srl", "or", "and">>[f + 1]
      BY <2>2 DEF RegisterName
    <3>2. <<"add", "sll", "slt", "sltu", "xor", "srl", "or", "and">>[f + 1] \in BasicOps
      BY <2>1 DEF BasicOps
    <3> QED BY <3>1, <3>2 DEF RegisterNames
  <2>3. CASE g = 1
    <3>1. RegisterName(f, g)
            = <<"mul", "mulh", "mulhsu", "mulhu", "div", "divu", "rem", "remu">>[f + 1]
      BY <2>3 DEF RegisterName
    <3>2. <<"mul", "mulh", "mulhsu", "mulhu", "div", "divu", "rem", "remu">>[f + 1]
            \in MultiplyOps \cup DivideOps
      BY <2>1 DEF MultiplyOps, DivideOps
    <3> QED BY <3>1, <3>2 DEF RegisterNames
  <2>4. CASE ~(g = 0 \/ g = 1)
    BY <2>4 DEF RegisterName, RegisterNames, BasicOps
  <2> QED BY <2>2, <2>3, <2>4
<1>3. RegisterWordName(f, g) \in BasicWordOps \cup DivideWordOps \cup {"illegal"}
  BY DEF RegisterWordName, BasicWordOps, DivideWordOps
<1>4. ASSUME NEW op \in RegisterNames \cup {"illegal"} PROVE Decodes32(w, RegisterOp(w, op))
  <2>1. CASE op = "illegal"
    BY <2>1, Fixed32 DEF RegisterOp
  <2>2. CASE op # "illegal"
    <3>1. RegisterOp(w, op) = Ins(op, rd_of(w), rs1_of(w), rs2_of(w), {})
      BY <2>2 DEF RegisterOp
    <3>2. op \in RegisterNames
      BY <2>2
    <3> QED BY <3>1, <3>2, Registers32, Plain32, Zenon DEF RegisterNames
  <2> QED BY <2>1, <2>2
<1>5. RegisterWordName(f, g) \in RegisterNames \cup {"illegal"}
  BY <1>3 DEF RegisterNames
<1> QED BY <1>2, <1>4, <1>5 DEF f, g

\* All the opcodes.
LEMMA GeneralDecodes ==
  ASSUME NEW w, w \subseteq 0 .. 31, Num(Field(w, 0, 0 .. 6)) \in Opcodes
  PROVE  Decodes32(w, General(w))
<1> DEFINE o == Num(Field(w, 0, 0 .. 6))
           name == RegisterName(funct3_of(w), funct7_of(w))
           wordName == RegisterWordName(funct3_of(w), funct7_of(w))
<1>1. o \in {3, 7, 15, 19, 23, 27, 35, 39, 51, 55, 59, 99, 103, 111}
  BY DEF Opcodes
<1>3. Decodes32(w, BranchOp(w))
  <2>1. \/ BranchOp(w) = Illegal
        \/ \E op \in BranchOps : BranchOp(w) = FormatS(op, w, Imm_B(w))
    BY DEF BranchOp, BranchOps
  <2> QED BY <2>1, FormatSDecodes, Fixed32
<1>4. /\ Decodes32(w, FormatI("jalr", w, Imm_I(w)))
      /\ Decodes32(w, Ins("auipc", rd_of(w), 0, 0, Imm_U(w)))
      /\ Decodes32(w, Ins("lui", rd_of(w), 0, 0, Imm_U(w)))
  BY FormatIDecodes, UpperDecodes DEF FormatIOps, UpperOps
<1>5. /\ Decodes32(w, LoadOp(w)) /\ Decodes32(w, FloatLoadOp(w))
      /\ Decodes32(w, StoreOp(w)) /\ Decodes32(w, FloatStoreOp(w))
  BY LoadStoreDecodes
<1>6. Decodes32(w, RegisterOp(w, name)) /\ Decodes32(w, RegisterOp(w, wordName))
  BY RegisterDecodes
<1>7. CASE o = 3
  <2>1. General(w) = LoadOp(w)
    BY <1>7 DEF General
  <2> QED BY <2>1, <1>5
<1>8. CASE o = 7
  <2>1. General(w) = FloatLoadOp(w)
    BY <1>8 DEF General
  <2> QED BY <2>1, <1>5
<1>9. CASE o = 19
  <2>1. General(w) = ImmediateOp(w)
    BY <1>9 DEF General
  <2> QED BY <2>1, ImmediateDecodes
<1>10. CASE o = 23
  <2>1. General(w) = Ins("auipc", rd_of(w), 0, 0, Imm_U(w))
    BY <1>10 DEF General
  <2> QED BY <2>1, <1>4
<1>11. CASE o = 27
  <2>1. General(w) = ImmediateWordOp(w)
    BY <1>11 DEF General
  <2> QED BY <2>1, ImmediateDecodes
<1>12. CASE o = 35
  <2>1. General(w) = StoreOp(w)
    BY <1>12 DEF General
  <2> QED BY <2>1, <1>5
<1>13. CASE o = 39
  <2>1. General(w) = FloatStoreOp(w)
    BY <1>13 DEF General
  <2> QED BY <2>1, <1>5
<1>14. CASE o = 51
  <2>1. General(w) = RegisterOp(w, name)
    BY <1>14 DEF General
  <2> QED BY <2>1, <1>6
<1>15. CASE o = 55
  <2>1. General(w) = Ins("lui", rd_of(w), 0, 0, Imm_U(w))
    BY <1>15 DEF General
  <2> QED BY <2>1, <1>4
<1>16. CASE o = 59
  <2>1. General(w) = RegisterOp(w, wordName)
    BY <1>16 DEF General
  <2> QED BY <2>1, <1>6
<1>17. CASE o = 99
  <2>1. General(w) = BranchOp(w)
    BY <1>17 DEF General
  <2> QED BY <2>1, <1>3
<1>18. CASE o = 103
  <2>1. General(w) = FormatI("jalr", w, Imm_I(w))
    BY <1>18 DEF General
  <2> QED BY <2>1, <1>4
<1>19. CASE o = 111
  <2>1. General(w) = Ins("jal", rd_of(w), 0, 0, Imm_J(w))
    BY <1>19 DEF General
  <2> QED BY <2>1, UpperDecodes
<1>20. CASE o = 15
  <2>1. General(w) \in {Nop, Illegal}
    BY <1>20 DEF General
  <2> QED BY <2>1, Fixed32
<1> HIDE DEF o
<1> QED BY <1>1, <1>7, <1>8, <1>9, <1>10, <1>11, <1>12, <1>13, <1>14,
           <1>15, <1>16, <1>17, <1>18, <1>19, <1>20

\* What is decoded is an instruction with its exact immediate.
LEMMA DecodedIs ==
  ASSUME NEW w \in Words
  PROVE  IF IsCompressed(w) THEN Decodes16(w, Decoded(w)) ELSE Decodes32(w, Decoded(w))
<1>1. w \subseteq 0 .. 31 /\ (~IsCompressed(w) => Num(Field(w, 0, 0 .. 6)) \in Opcodes)
  BY WordAssumption
<1>2. CASE ~IsCompressed(w)
  BY <1>1, <1>2, GeneralDecodes DEF Decoded
<1>3. CASE IsCompressed(w)
  <2>1. ~(0 \in w /\ 1 \in w)
    BY <1>3 DEF IsCompressed
  <2>2. CASE w = {}
    BY <1>3, <2>2, Fixed16 DEF Decoded
  <2>3. CASE w # {} /\ w \cap {0, 1} = {}
    <3>1. Num(w \cap {0, 1}) = 0
      BY <2>3 DEF Num
    <3> QED BY <1>1, <1>3, <2>3, <3>1, Quadrant0Decodes DEF Decoded
  <2>4. CASE 0 \in w
    <3>1. Num(w \cap {0, 1}) = 1
      BY <2>1, <2>4 DEF Num
    <3>2. Decoded(w) = Quadrant1(w)
      BY <1>3, <2>4 DEF Decoded
    <3> QED BY <1>1, <1>3, <3>1, <3>2, Quadrant1Decodes
  <2>5. CASE 0 \notin w /\ w \cap {0, 1} # {}
    <3>1. Num(w \cap {0, 1}) = 2
      BY <2>5 DEF Num
    <3>2. Decoded(w) = Quadrant2(w)
      BY <1>3, <2>5 DEF Decoded
    <3> QED BY <1>1, <1>3, <3>1, <3>2, Quadrant2Decodes
  <2> QED BY <2>2, <2>3, <2>4, <2>5
<1> QED BY <1>2, <1>3

----------------------------------------------------------------------------
(* The inductive invariant of Integer and its theorems.                    *)

\* What holds of an instruction before and after it is decoded or executed.
InsPhases ==
  /\ phase = "decode" => word \in Words
  /\ phase = "decoded" => /\ word \in Words /\ ins = Decoded(word)
                          /\ len = IF IsCompressed(word) THEN 2 ELSE 4
  /\ phase = "execute" => /\ ins.op \in Executable /\ len \in {2, 4}
                          /\ ins.rd \in {0, 1} /\ ins.rs1 \in {0, 1} /\ ins.rs2 = 2

\* The inductive invariant.
InsInv == InsTypeOK /\ InsPhases

\* A register has more values than bits.
LEMMA BitsFit == XLEN \in Register /\ WORD \in Register
<1> DEFINE T == {k \in Nat : k < 2 ^ k}
<1>1. 0 \in T
  BY Powers
<1>2. ASSUME NEW k \in T PROVE k + 1 \in T
  <2>1. k \in Nat /\ k < 2 ^ k /\ 2 ^ k \in Nat \ {0} /\ 2 ^ (k + 1) = 2 * 2 ^ k
    BY Powers
  <2>2. k + 1 < 2 ^ (k + 1)
    BY <2>1
  <2> QED BY <2>1, <2>2
<1>3. T \in SUBSET Nat
  OBVIOUS
<1> HIDE DEF T
<1>4. T = Nat
  BY <1>1, <1>2, <1>3, Induction
<1>5. XLEN \in T
  BY <1>4, Widths
<1>6. XLEN < 2 ^ XLEN
  BY <1>5 DEF T
<1> QED BY <1>6, Widths DEF Register

\* Every operation on registers gives a register, the one that the manual says.
LEMMA ComputeExact ==
  ASSUME NEW op \in ComputeOps, NEW a \in Register, NEW b \in Register
  PROVE  /\ Compute(op, a, b) \in Register
         /\ LET r == Compute(op, a, b)
            IN  IF op \notin WordImmOps \cup BasicWordOps \cup DivideWordOps
                THEN IsaResult(Base[op], XLEN, a, b, r)
                ELSE /\ IsaResult(Base[op], WORD, Low(a), Low(b), Low(r))
                     /\ ~(op \in {"remw", "remuw"} /\ Low(b) = 0) => r = Extend(r)
<1> USE DEF BasicImmOps, BasicOps, MultiplyOps, DivideOps, WordImmOps, BasicWordOps, DivideWordOps
<1> DEFINE r == Compute(op, a, b)
<1>1. CASE op \in BasicImmOps \cup BasicOps
  <2>1. r = Basic(op, a, b) /\ op \notin WordImmOps \cup BasicWordOps \cup DivideWordOps
    BY <1>1 DEF Compute
  <2> QED BY <1>1, <2>1, BasicExact
<1>2. CASE op \in MultiplyOps
  <2>1. r = Multiply(op, a, b) /\ op \notin WordImmOps \cup BasicWordOps \cup DivideWordOps
    BY <1>2 DEF Compute
  <2> QED BY <1>2, <2>1, MultiplyExact
<1>3. CASE op \in DivideOps
  <2>1. r = Divide(op, a, b) /\ op \notin WordImmOps \cup BasicWordOps \cup DivideWordOps
    BY <1>3 DEF Compute
  <2> QED BY <1>3, <2>1, DivideExact
<1>4. CASE op \in WordImmOps \cup BasicWordOps
  <2>1. r = BasicWord(op, a, b) /\ op \notin {"remw", "remuw"}
    BY <1>4 DEF Compute
  <2> QED BY <1>4, <2>1, BasicWordExact
<1>5. CASE op \in DivideWordOps
  <2>1. r = DivideWord(op, a, b)
    BY <1>5 DEF Compute
  <2> QED BY <1>5, <2>1, DivideWordExact
<1> QED BY <1>1, <1>2, <1>3, <1>4, <1>5 DEF ComputeOps, ImmOps, RegOps

\* The invariant holds initially ...
LEMMA InsInitially == InsInit => InsInv
<1> SUFFICES ASSUME InsInit PROVE InsInv
  OBVIOUS
<1>1. 0 \in Register /\ XLEN \in Nat /\ WORD \in Nat
  BY Widths DEF Register
<1>2. CASE BeforeDecode
  <2>1. ins = [op |-> "none", rd |-> 0, rs1 |-> 0, rs2 |-> 0, imm |-> {}]
    BY <1>2 DEF BeforeDecode, None, Ins
  <2>2. InsTypeOK
    <3>1. ins.op = "none" /\ ins.rd = 0 /\ ins.rs1 = 0 /\ ins.rs2 = 0 /\ ins.imm = {}
      BY <2>1
    <3>2. xregs \in [0 .. 2 -> Register] /\ xregs[0] = 0
      BY <1>1, <1>2 DEF BeforeDecode
    <3>3. dz \in BOOLEAN /\ phase = "decode" /\ pc = 0 /\ imm = 0
      BY <1>2 DEF BeforeDecode
    <3> QED BY <1>1, <3>1, <3>2, <3>3 DEF InsTypeOK
  <2> QED BY <1>2, <2>2 DEF BeforeDecode, InsInv, InsPhases
<1>3. CASE BeforeExecute
  <2>1. PICK op \in Executable, d \in {0, 1}, s \in {0, 1} :
          /\ ins = Ins(op, d, s, 2, {})
          /\ imm \in ImmediateOf(op)
          /\ len \in IF op \in {"c.jr", "c.jalr"} THEN {2}
                     ELSE IF op \in {"beq", "bne", "jal"} THEN {2, 4} ELSE {4}
          /\ \E a \in Contents, b \in Rs2Of(op) : xregs = [i \in 0 .. 2 |-> <<0, a, b>>[i + 1]]
    BY <1>3 DEF BeforeExecute
  <2>2. ins.op = op /\ ins.rd = d /\ ins.rs1 = s /\ ins.rs2 = 2 /\ ins.imm = {}
    BY <2>1 DEF Ins
  <2>3. imm \in Register
    <3>1. 0 .. XLEN - 1 \subseteq Register /\ 0 .. WORD - 1 \subseteq Register
      BY <1>1, Widths, BitsFit DEF Register
    <3>2. ImmediateOf(op) \in {0 .. XLEN - 1, 0 .. WORD - 1, {0}, Immediates}
      BY DEF ImmediateOf
    <3>3. Immediates \subseteq Register
      BY ValueAssumption
    <3> QED BY <1>1, <2>1, <3>1, <3>2, <3>3
  <2>4. xregs \in [0 .. 2 -> Register] /\ xregs[0] = 0
    <3>1. PICK a \in Contents, b \in Rs2Of(op) : xregs = [i \in 0 .. 2 |-> <<0, a, b>>[i + 1]]
      BY <2>1
    <3>2. a \in Register /\ b \in Register
      BY <1>1, ValueAssumption DEF Rs2Of
    <3>3. \A i \in 0 .. 2 : <<0, a, b>>[i + 1] \in Register
      <4> SUFFICES ASSUME NEW i \in 0 .. 2 PROVE <<0, a, b>>[i + 1] \in Register
        OBVIOUS
      <4>1. i = 0 \/ i = 1 \/ i = 2
        OBVIOUS
      <4> QED BY <1>1, <3>2, <4>1
    <3> QED BY <3>1, <3>3
  <2>5. pc \in Register /\ dz \in BOOLEAN /\ phase = "execute" /\ len \in {2, 4}
    BY <1>3, <2>1, ValueAssumption DEF BeforeExecute
  <2>6. InsTypeOK
    BY <2>1, <2>2, <2>3, <2>4, <2>5 DEF InsTypeOK
  <2> QED BY <2>1, <2>2, <2>5, <2>6 DEF InsInv, InsPhases
<1> QED BY <1>2, <1>3 DEF InsInit

\* Registers and immediates are what an executing instruction sees.
LEMMA Operands ==
  ASSUME InsInv, phase = "execute"
  PROVE  /\ xregs[ins.rs1] \in Register /\ xregs[ins.rs2] \in Register
         /\ imm \in Register /\ pc \in Register /\ len \in {2, 4}
         /\ ins.op \in Executable /\ ins.rd \in 0 .. 2 /\ NextPc \in Register
<1>1. /\ xregs[ins.rs1] \in Register /\ xregs[ins.rs2] \in Register
      /\ imm \in Register /\ pc \in Register /\ len \in {2, 4}
      /\ ins.op \in Executable /\ ins.rd \in 0 .. 2
  BY DEF InsInv, InsPhases, InsTypeOK
<1>2. pc + len \in Int
  BY <1>1, RegisterIs
<1> QED BY <1>1, <1>2, UnsignedType DEF NextPc

\* A write to rd keeps the type of the registers, and x0.
LEMMA WrittenType ==
  ASSUME InsInv, phase = "execute", NEW v \in Register
  PROVE  /\ xregs_write(ins.rd, v) \in [0 .. 2 -> Register] /\ xregs_write(ins.rd, v)[0] = 0
         /\ ins.rd # 0 => xregs_write(ins.rd, v)[ins.rd] = v
<1>1. xregs \in [0 .. 2 -> Register] /\ xregs[0] = 0 /\ ins.rd \in {0, 1}
  BY DEF InsInv, InsPhases, InsTypeOK
<1> QED BY <1>1 DEF xregs_write

\* A load reads between one and XLEN bits.
LEMMA LoadBitsType ==
  ASSUME NEW op \in LoadOps
  PROVE  LoadBits(op) \in Nat \ {0} /\ LoadBits(op) <= XLEN
<1>1. PICK k \in 2 .. WORD : WORD = 2 ^ k
  BY WordAssumption
<1>2. WORD \in Nat /\ XLEN = 2 * WORD
  BY WidthAssumption
<1>3. 2 ^ 2 = 4
  <2>1. 2 ^ (0 + 1) = 2 * 2 ^ 0 /\ 2 ^ 0 = 1 /\ 2 ^ (1 + 1) = 2 * 2 ^ 1
    BY Powers
  <2> QED BY <2>1
<1>4. 2 ^ 2 <= 2 ^ k
  <2>1. 2 \in Nat /\ k \in Nat /\ 2 <= k
    BY <1>2
  <2> QED BY <2>1, PowersGrow
<1>5. XLEN \in Nat /\ XLEN >= 8
  BY <1>1, <1>2, <1>3, <1>4
<1>6. LoadBits(op) \in {XLEN \div 8, XLEN \div 4, WORD, XLEN}
  BY DEF LoadBits, LoadOps
<1>7. /\ XLEN \div 8 \in Nat \ {0} /\ XLEN \div 8 <= XLEN
      /\ XLEN \div 4 \in Nat \ {0} /\ XLEN \div 4 <= XLEN
  BY <1>5
<1> QED BY <1>2, <1>5, <1>6, <1>7

\* A load writes a register.
LEMMA LoadType ==
  ASSUME NEW op \in LoadOps, NEW val \in Contents
  PROVE  LET read == val % 2 ^ LoadBits(op)
         IN  read \in Register /\ Unsigned(Signed(read, LoadBits(op))) \in Register
<1> DEFINE n == LoadBits(op)
           z == val % 2 ^ n
<1>1. n \in Nat \ {0} /\ n <= XLEN
  BY LoadBitsType
<1>2. val \in Int
  BY ValueAssumption, RegisterIs
<1> HIDE DEF n
<1>3. z \in 0 .. 2 ^ n - 1 /\ z \in Int /\ 2 ^ n \in Nat
  BY <1>1, <1>2, Reduced
<1>4. 2 ^ n <= 2 ^ XLEN /\ 2 ^ XLEN \in Nat
  BY <1>1, Widths, PowersGrow
<1> HIDE DEF z
<1>5. z \in Register
  BY <1>3, <1>4 DEF Register
<1>6. Unsigned(Signed(z, n)) \in Register
  BY <1>1, <1>3, SignedIs, UnsignedType
<1> QED BY <1>5, <1>6 DEF n, z

\* ... and every step keeps it.
LEMMA InsStep == InsInv /\ [InsNext]_insVars => InsInv'
<1> SUFFICES ASSUME InsInv, [InsNext]_insVars PROVE InsInv'
  OBVIOUS
<1>1. CASE DecodeStep
  <2>1. word \in Words /\ ins' = Decoded(word) /\ phase' = "decoded" /\ word' = word
        /\ len' = (IF IsCompressed(word) THEN 2 ELSE 4)
    BY <1>1 DEF DecodeStep, InsInv, InsPhases
  <2>2. Formed(ins')
    <3>1. IF IsCompressed(word) THEN Decodes16(word, Decoded(word))
          ELSE Decodes32(word, Decoded(word))
      BY <2>1, DecodedIs
    <3> QED BY <2>1, <3>1 DEF Decodes16, Decodes32
  <2>3. InsTypeOK'
    BY <1>1, <2>1, <2>2 DEF DecodeStep, InsInv, InsTypeOK, Formed, OpNames
  <2> QED BY <2>1, <2>3 DEF InsInv, InsPhases
<1>2. ASSUME phase = "execute", phase' = "executed", UNCHANGED <<word, ins, len, imm>>,
             pc' \in Register, dz' \in BOOLEAN,
             xregs' = xregs \/ \E v \in Register : xregs' = xregs_write(ins.rd, v)
      PROVE  InsInv'
  <2>1. xregs' \in [0 .. 2 -> Register] /\ xregs'[0] = 0
    BY <1>2, WrittenType DEF InsInv, InsTypeOK
  <2> QED BY <1>2, <2>1 DEF InsInv, InsPhases, InsTypeOK
<1>3. CASE ExecuteCompute
  <2> DEFINE b == IF ins.op \in ImmOps THEN imm ELSE xregs[ins.rs2]
  <2>1. phase = "execute" /\ ins.op \in ComputeOps
    BY <1>3 DEF ExecuteCompute, Executing
  <2>2. xregs[ins.rs1] \in Register /\ b \in Register /\ NextPc \in Register
    BY <2>1, Operands
  <2>3. Compute(ins.op, xregs[ins.rs1], b) \in Register
    BY <2>1, <2>2, ComputeExact
  <2>4. xregs' = xregs_write(ins.rd, Compute(ins.op, xregs[ins.rs1], b))
    BY <1>3 DEF ExecuteCompute
  <2>5. dz' \in BOOLEAN
    BY <1>3 DEF ExecuteCompute, InsInv, InsTypeOK
  <2> HIDE DEF b
  <2> QED BY <1>2, <1>3, <2>1, <2>2, <2>3, <2>4, <2>5 DEF ExecuteCompute, Executing
<1>4. CASE ExecuteUpper
  <2> DEFINE v == IF ins.op = "lui" THEN imm ELSE Unsigned(NextPc + imm - 4)
  <2>1. phase = "execute" /\ xregs' = xregs_write(ins.rd, v)
    BY <1>4 DEF ExecuteUpper, Executing
  <2>2. imm \in Register /\ NextPc \in Register
    BY <2>1, Operands
  <2>3. NextPc + imm - 4 \in Int
    BY <2>2, RegisterIs
  <2>4. v \in Register
    BY <2>2, <2>3, UnsignedType
  <2>5. dz' \in BOOLEAN /\ pc' = NextPc
    BY <1>4 DEF ExecuteUpper, InsInv, InsTypeOK
  <2> HIDE DEF v
  <2> QED BY <1>2, <1>4, <2>1, <2>2, <2>4, <2>5 DEF ExecuteUpper, Executing
<1>5. ASSUME NEW val \in Contents, ExecuteLoad(val) PROVE InsInv'
  <2> DEFINE read == val % 2 ^ LoadBits(ins.op)
             v == IF ins.op \in {"lb", "lh", "lw", "ld"}
                  THEN Unsigned(Signed(read, LoadBits(ins.op))) ELSE read
  <2>1. phase = "execute" /\ ins.op \in LoadOps /\ xregs' = xregs_write(ins.rd, v)
    BY <1>5 DEF ExecuteLoad, Executing
  <2>2. v \in Register
    BY <2>1, LoadType
  <2>3. NextPc \in Register
    BY <2>1, Operands
  <2>4. dz' \in BOOLEAN /\ pc' = NextPc
    BY <1>5 DEF ExecuteLoad, InsInv, InsTypeOK
  <2> HIDE DEF v
  <2> QED BY <1>2, <1>5, <2>1, <2>2, <2>3, <2>4 DEF ExecuteLoad, Executing
<1>6. CASE ExecuteOther
  <2>1. NextPc \in Register
    BY <1>6, Operands DEF ExecuteOther, Executing
  <2>2. dz' \in BOOLEAN /\ pc' = NextPc
    BY <1>6 DEF ExecuteOther, InsInv, InsTypeOK
  <2> QED BY <1>2, <1>6, <2>1, <2>2 DEF ExecuteOther, Executing
<1>7. CASE ExecuteBranch
  <2>1. NextPc \in Register /\ imm \in Register /\ len \in {2, 4}
    BY <1>7, Operands DEF ExecuteBranch, Executing
  <2>2. NextPc + imm - len \in Int
    BY <2>1, RegisterIs
  <2>3. pc' \in Register
    BY <1>7, <2>1, <2>2, UnsignedType DEF ExecuteBranch
  <2>4. dz' \in BOOLEAN
    BY <1>7 DEF ExecuteBranch, InsInv, InsTypeOK
  <2> QED BY <1>2, <1>7, <2>3, <2>4 DEF ExecuteBranch, Executing
<1>8. CASE ExecuteJump
  <2> DEFINE a == xregs[ins.rs1]
             target == Unsigned(a + imm)
  <2>1. NextPc \in Register /\ imm \in Register /\ len \in {2, 4} /\ a \in Register
    BY <1>8, Operands DEF ExecuteJump, Executing
  <2>2. NextPc + imm - len \in Int /\ a + imm \in Int
    BY <2>1, RegisterIs
  <2>3. target \in Register /\ Unsigned(NextPc + imm - len) \in Register
    BY <2>2, UnsignedType
  <2>4. target - (target % 2) \in Register
    <3> HIDE DEF target
    <3>1. target \in 0 .. 2 ^ XLEN - 1 /\ target \in Nat
      BY <2>3, RegisterIs
    <3>2. target % 2 \in {0, 1} /\ target % 2 <= target
      BY <3>1
    <3> QED BY <3>1, <3>2, Widths DEF Register
  <2>5. pc' \in {Unsigned(NextPc + imm - len), target - (target % 2), a}
    BY <1>8 DEF ExecuteJump, Executing, JumpOps
  <2>6. dz' \in BOOLEAN
    BY <1>8 DEF ExecuteJump, InsInv, InsTypeOK
  <2> HIDE DEF target, a
  <2> QED BY <1>2, <1>8, <2>1, <2>3, <2>4, <2>5, <2>6 DEF ExecuteJump, Executing
<1>9. CASE UNCHANGED insVars
  BY <1>9 DEF insVars, InsInv, InsTypeOK, InsPhases
<1> QED BY <1>1, <1>3, <1>4, <1>5, <1>6, <1>7, <1>8, <1>9 DEF InsNext

\* The types of the state, and that x0 stays zero.
THEOREM InsTypeCorrect == InsSpec => []InsTypeOK
<1>1. InsInv => InsTypeOK
  BY DEF InsInv
<1> QED BY <1>1, InsInitially, InsStep, PTL DEF InsSpec

\* Every word is decoded to the immediate that the manual lays out.
THEOREM ImmediatesAlwaysExact == InsSpec => []ImmediatesExact
<1>1. InsInv => ImmediatesExact
  <2> SUFFICES ASSUME InsInv, phase = "decoded",
                      ~(len = 4 /\ ins.op \in {"fsw", "fsd"} /\ 31 \in word)
               PROVE  ins.imm
                        = Exact(word, IF len = 2 THEN Layout16(word, ins.op) ELSE Layout32(ins.op))
    BY DEF ImmediatesExact, Exact
  <2>1. word \in Words /\ ins = Decoded(word) /\ len = (IF IsCompressed(word) THEN 2 ELSE 4)
    BY DEF InsInv, InsPhases
  <2>2. IF IsCompressed(word) THEN Decodes16(word, ins) ELSE Decodes32(word, ins)
    BY <2>1, DecodedIs
  <2> QED BY <2>1, <2>2 DEF Decodes16, Decodes32
<1> QED BY <1>1, InsInitially, InsStep, PTL DEF InsSpec

\* A step that computes writes what the manual says.
LEMMA ResultIsExact ==
  ASSUME InsInv, ExecuteCompute, ins.rd # 0
  PROVE  LET a == xregs[ins.rs1]
             b == IF ins.op \in ImmOps THEN imm ELSE xregs[ins.rs2]
             r == xregs'[ins.rd]
         IN  IF ins.op \notin WordImmOps \cup BasicWordOps \cup DivideWordOps
             THEN IsaResult(Base[ins.op], XLEN, a, b, r)
             ELSE /\ IsaResult(Base[ins.op], WORD, Low(a), Low(b), Low(r))
                  /\ ~(ins.op \in {"remw", "remuw"} /\ Low(b) = 0) => r = Extend(r)
<1> DEFINE a == xregs[ins.rs1]
           b == IF ins.op \in ImmOps THEN imm ELSE xregs[ins.rs2]
           v == Compute(ins.op, a, b)
<1>1. phase = "execute" /\ ins.op \in ComputeOps /\ xregs' = xregs_write(ins.rd, v)
  BY DEF ExecuteCompute, Executing
<1>2. a \in Register /\ b \in Register
  BY <1>1, Operands
<1> HIDE DEF a, b
<1>3. v \in Register
  BY <1>1, <1>2, ComputeExact
<1>4. xregs'[ins.rd] = v
  <2> HIDE DEF v
  <2> QED BY <1>1, <1>3, WrittenType
<1>5. IF ins.op \notin WordImmOps \cup BasicWordOps \cup DivideWordOps
      THEN IsaResult(Base[ins.op], XLEN, a, b, v)
      ELSE /\ IsaResult(Base[ins.op], WORD, Low(a), Low(b), Low(v))
           /\ ~(ins.op \in {"remw", "remuw"} /\ Low(b) = 0) => v = Extend(v)
  BY <1>1, <1>2, ComputeExact
<1> HIDE DEF v
<1> QED BY <1>4, <1>5 DEF a, b

\* Every operation on registers writes what the manual says.
THEOREM ResultsAlwaysExact == InsSpec => ResultsExact
<1>1. InsInv /\ [InsNext]_insVars =>
        [ExecuteCompute /\ ins.rd # 0 =>
          LET a == xregs[ins.rs1]
              b == IF ins.op \in ImmOps THEN imm ELSE xregs[ins.rs2]
              r == xregs'[ins.rd]
          IN  IF ins.op \notin WordImmOps \cup BasicWordOps \cup DivideWordOps
              THEN IsaResult(Base[ins.op], XLEN, a, b, r)
              ELSE /\ IsaResult(Base[ins.op], WORD, Low(a), Low(b), Low(r))
                   /\ ~(ins.op \in {"remw", "remuw"} /\ Low(b) = 0) => r = Extend(r)]_insVars
  BY ResultIsExact
<1> QED BY <1>1, InsInitially, InsStep, PTL DEF InsSpec, ResultsExact

\* The address of the next instruction, and that of a branch or jal.
LEMMA Targets ==
  ASSUME InsInv, phase = "execute"
  PROVE  Unsigned(NextPc + imm - len) = Unsigned(pc + imm)
<1>1. pc \in Int /\ imm \in Int /\ len \in Int
  BY Operands, RegisterIs
<1> DEFINE m == 2 ^ XLEN
           q == (pc + len) \div m
           e == (pc + len) % m
<1>2. m \in Nat \ {0} /\ pc + len \in Int
  BY <1>1, Widths
<1> HIDE DEF m
<1>a. q \in Int /\ e \in 0 .. m - 1 /\ pc + len = m * q + e
  BY <1>2, IntDivided
<1> HIDE DEF q, e
<1>3. q \in Int /\ e \in Int /\ pc + len = m * q + e
  BY <1>2, <1>a
<1>4. pc + imm = (e + imm - len) + q * m /\ e + imm - len \in Int
  <2>1. m * q = q * m /\ m * q \in Int
    BY <1>2, <1>3
  <2> QED BY <1>1, <1>3, <2>1
<1>5. ((e + imm - len) + q * m) % m = (e + imm - len) % m
  BY <1>2, <1>3, <1>4, Shifted
<1>6. NextPc = e
  BY DEF NextPc, Unsigned, e, m
<1> QED BY <1>4, <1>5, <1>6 DEF Unsigned, m

\* The conditions under which an instruction jumps to its own address plus imm.
Jumps ==
  LET a == xregs[ins.rs1]
      b == xregs[ins.rs2]
  IN  \/ ins.op = "beq" /\ a = b
      \/ ins.op = "bne" /\ a # b
      \/ ins.op = "blt" /\ SignedLess(a, b, XLEN)
      \/ ins.op = "bge" /\ ~SignedLess(a, b, XLEN)
      \/ ins.op = "bltu" /\ a < b
      \/ ins.op = "bgeu" /\ a >= b
      \/ ins.op = "jal"

\* Where control goes, in the words of ControlExact.
Controlled ==
  /\ ~(ins.op \in {"c.jr", "c.jalr"} /\ xregs[ins.rs1] % 2 = 1)
       => pc' = CASE Jumps -> Unsigned(pc + imm)
                  [] ins.op = "jalr" -> 2 * (Unsigned(xregs[ins.rs1] + imm) \div 2)
                  [] ins.op \in {"c.jr", "c.jalr"} -> 2 * (xregs[ins.rs1] \div 2)
                  [] OTHER -> Unsigned(pc + len)
  /\ ins.op \in JumpOps /\ ins.rd # 0 => xregs'[ins.rd] = Unsigned(pc + len)

\* An instruction that is not a branch or a jump falls through.
LEMMA FallsThrough ==
  ASSUME ins.op \notin BranchOps \cup JumpOps, pc' = NextPc
  PROVE  Controlled
<1>1. ~Jumps /\ ins.op \notin {"jalr", "c.jr", "c.jalr"}
  BY DEF Jumps, BranchOps, JumpOps
<1> QED BY <1>1 DEF Controlled, NextPc

\* A branch is taken when its condition holds.
LEMMA BranchTaken ==
  ASSUME InsInv, phase = "execute", ins.op \in BranchOps
  PROVE  Taken(ins.op, xregs[ins.rs1], xregs[ins.rs2]) <=> Jumps
<1> DEFINE a == xregs[ins.rs1]
           b == xregs[ins.rs2]
           x == Signed(a, XLEN)
           y == Signed(b, XLEN)
<1>1. a \in Register /\ b \in Register
  BY Operands
<1> HIDE DEF a, b
<1>2. /\ a \in 0 .. 2 ^ XLEN - 1 /\ b \in 0 .. 2 ^ XLEN - 1 /\ a \in Int /\ b \in Int
      /\ XLEN \in Nat \ {0}
  BY <1>1, RegisterIs, Widths
<1>3. x < y <=> SignedLess(a, b, XLEN)
  BY <1>2, SignedLessIs
<1>4. x \in Int /\ y \in Int
  BY <1>2, SignedIs
<1> DEFINE less == SignedLess(a, b, XLEN)
<1> HIDE DEF x, y
<1>5. x >= y <=> ~less
  BY <1>3, <1>4
<1>6. /\ Taken("beq", a, b) <=> a = b
      /\ Taken("bne", a, b) <=> a # b
      /\ Taken("blt", a, b) <=> x < y
      /\ Taken("bge", a, b) <=> x >= y
      /\ Taken("bltu", a, b) <=> a < b
      /\ Taken("bgeu", a, b) <=> a >= b
  BY DEF Taken, x, y
<1> HIDE DEF less
<1>7. /\ ins.op = "beq" => (Jumps <=> a = b)
      /\ ins.op = "bne" => (Jumps <=> a # b)
      /\ ins.op = "blt" => (Jumps <=> less)
      /\ ins.op = "bge" => (Jumps <=> ~less)
      /\ ins.op = "bltu" => (Jumps <=> a < b)
      /\ ins.op = "bgeu" => (Jumps <=> a >= b)
  BY DEF Jumps, a, b, less
<1>8. Taken(ins.op, a, b) <=> Jumps
  BY <1>3, <1>5, <1>6, <1>7 DEF BranchOps, less
<1> QED BY <1>8 DEF a, b

\* Every step of an instruction sends control where ControlExact says.
LEMMA ControlIsExact ==
  InsInv /\ [InsNext]_insVars /\ phase = "execute" => UNCHANGED insVars \/ Controlled
<1> SUFFICES ASSUME InsInv, InsNext, phase = "execute" PROVE Controlled
  BY DEF InsNext
<1>1. NextPc \in Register /\ NextPc = Unsigned(pc + len)
  BY Operands DEF NextPc
<1>2. CASE DecodeStep
  BY <1>2 DEF DecodeStep
<1>3. CASE \/ ExecuteCompute \/ ExecuteUpper \/ ExecuteOther
           \/ \E val \in Contents : ExecuteLoad(val)
  <2>1. pc' = NextPc /\ ins.op \in ComputeOps \cup UpperOps \cup LoadOps \cup StoreOps \cup {"nop"}
    BY <1>3 DEF ExecuteCompute, ExecuteUpper, ExecuteLoad, ExecuteOther, Executing
  <2>2. ins.op \notin BranchOps \cup JumpOps
    BY <2>1 DEF BranchOps, JumpOps, ComputeOps, UpperOps, LoadOps, StoreOps, ImmOps, RegOps,
                BasicImmOps, BasicOps, MultiplyOps, DivideOps, WordImmOps, BasicWordOps, DivideWordOps
  <2> QED BY <2>1, <2>2, FallsThrough
<1>4. CASE ExecuteBranch
  <2>1. ins.op \in BranchOps
    BY <1>4 DEF ExecuteBranch, Executing
  <2>2. pc' = IF Jumps THEN Unsigned(pc + imm) ELSE NextPc
    BY <1>4, <2>1, BranchTaken, Targets DEF ExecuteBranch
  <2>3. ins.op \notin JumpOps /\ ins.op \notin {"jalr", "c.jr", "c.jalr"}
    BY <2>1 DEF BranchOps, JumpOps
  <2> QED BY <1>1, <2>2, <2>3 DEF Controlled
<1>5. CASE ExecuteJump
  <2> DEFINE a == xregs[ins.rs1]
             target == Unsigned(a + imm)
  <2>1. ins.op \in JumpOps /\ xregs' = xregs_write(ins.rd, NextPc)
    BY <1>5 DEF ExecuteJump, Executing
  <2>2. ins.rd # 0 => xregs'[ins.rd] = Unsigned(pc + len)
    BY <1>1, <2>1, WrittenType
  <2>3. target - (target % 2) = 2 * (target \div 2)
    <3>1. a + imm \in Int
      BY Operands, RegisterIs
    <3>2. target \in Int
      BY <3>1, UnsignedIs
    <3> HIDE DEF target
    <3> QED BY <3>2
  <2>4. CASE ins.op = "jal"
    <3>1. Jumps /\ pc' = Unsigned(pc + imm)
      BY <1>5, <2>4, Targets DEF Jumps, ExecuteJump
    <3> QED BY <2>2, <2>4, <3>1 DEF Controlled
  <2>5. CASE ins.op # "jal"
    <3>1. ~Jumps
      BY <2>1, <2>5 DEF Jumps, JumpOps
    <3>2. CASE ins.op = "jalr"
      <4>1. pc' = target - (target % 2)
        BY <1>5, <3>2 DEF ExecuteJump
      <4> QED BY <2>2, <2>3, <3>1, <3>2, <4>1 DEF Controlled
    <3>3. CASE ins.op \in {"c.jr", "c.jalr"}
      <4>1. pc' = a
        BY <1>5, <3>3 DEF ExecuteJump
      <4>2. a \in Int
        BY Operands, RegisterIs
      <4>3. a % 2 # 1 => a = 2 * (a \div 2)
        <5> HIDE DEF a
        <5> QED BY <4>2
      <4> QED BY <2>2, <3>1, <3>3, <4>1, <4>3 DEF Controlled
    <3> QED BY <2>1, <2>5, <3>2, <3>3 DEF JumpOps
  <2> QED BY <2>4, <2>5
<1> QED BY <1>2, <1>3, <1>4, <1>5 DEF InsNext

\* Control goes where the manual says.
THEOREM ControlAlwaysExact == InsSpec => ControlExact
<1>1. InsInv /\ [InsNext]_insVars => [phase = "execute" => Controlled]_insVars
  BY ControlIsExact
<1>2. ControlExact <=> [][phase = "execute" => Controlled]_insVars
  BY DEF ControlExact, Controlled, Jumps
<1> QED BY <1>1, <1>2, InsInitially, InsStep, PTL DEF InsSpec
=============================================================================
