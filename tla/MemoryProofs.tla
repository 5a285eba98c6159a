---------------------------- MODULE MemoryProofs ----------------------------
(***************************************************************************)
(* The bus, the memory and the registers of the CLINT keep their promises  *)
(* for registers, memories, images and guests of every size.               *)
(***************************************************************************)
EXTENDS Memory, FiniteSetTheorems, WellFoundedInduction, TLAPS

----------------------------------------------------------------------------
(* Induction, for sets of numbers instead of properties.                   *)

\* A set with 0, and with the successor of each of its numbers, is Nat.
LEMMA Induction ==
  ASSUME NEW T \in SUBSET Nat, 0 \in T, \A n \in T : n + 1 \in T
  PROVE  T = Nat
<1> DEFINE R == OpToRel(<, Nat)
           U == Nat \ T
<1>1. IsWellFoundedOn(R, Nat)
  BY NatLessThanWellFounded
<1> HIDE DEF R
<1> SUFFICES ASSUME U # {} PROVE FALSE
  OBVIOUS
<1>2. PICK m \in U : \A n \in U : ~(<<n, m>> \in R)
  BY <1>1, WFMin
<1>3. m # 0 /\ m - 1 \in Nat /\ m - 1 \notin T
  OBVIOUS
<1>4. <<m - 1, m>> \in R
  BY <1>3 DEF R, OpToRel
<1> QED
  BY <1>2, <1>3, <1>4

\* g has the value a at 0, and its other values by the steps f.
Recursive(g, S, a, f) ==
  g \in [Nat -> S] /\ g[0] = a /\ \A n \in Nat : g[n + 1] = f[n][g[n]]

\* There is such a function.
LEMMA Recursion ==
  ASSUME NEW S, NEW a \in S, NEW f \in [Nat -> [S -> S]]
  PROVE  \E g : Recursive(g, S, a, f)
<1> DEFINE Up(n, g) == /\ g \in [0 .. n -> S] /\ g[0] = a
                       /\ \A k \in 0 .. n - 1 : g[k + 1] = f[k][g[k]]
           T == {n \in Nat : \E g : Up(n, g)}
<1>1. T = Nat
  <2>1. 0 \in T
    <3>1. Up(0, [k \in 0 .. 0 |-> a])
      OBVIOUS
    <3> QED
      BY <3>1
  <2>2. ASSUME NEW n \in T PROVE n + 1 \in T
    <3>1. n \in Nat
      OBVIOUS
    <3>2. PICK g : Up(n, g)
      OBVIOUS
    <3>3. f[n][g[n]] \in S
      BY <3>1, <3>2
    <3> DEFINE h == [k \in 0 .. n + 1 |-> IF k = n + 1 THEN f[n][g[n]] ELSE g[k]]
    <3>4. h \in [0 .. n + 1 -> S] /\ h[0] = a
      BY <3>1, <3>2, <3>3
    <3>5. ASSUME NEW k \in 0 .. n PROVE h[k + 1] = f[k][h[k]]
      <4>1. k \in Nat /\ k # n + 1 /\ k \in 0 .. n + 1 /\ k + 1 \in 0 .. n + 1
        BY <3>1
      <4>2. h[k] = g[k]
        BY <4>1
      <4>3. CASE k = n
        BY <4>1, <4>2, <4>3
      <4>4. CASE k # n
        <5>1. k + 1 # n + 1 /\ k \in 0 .. n - 1
          BY <3>1, <4>1, <4>4
        <5>2. h[k + 1] = g[k + 1]
          BY <4>1, <5>1
        <5> QED
          BY <3>2, <4>2, <5>1, <5>2
      <4> QED
        BY <4>3, <4>4
    <3> HIDE DEF h
    <3>6. Up(n + 1, h)
      <4>1. (n + 1) - 1 = n
        BY <3>1
      <4> QED
        BY <3>4, <3>5, <4>1
    <3> HIDE DEF Up
    <3> QED
      BY <3>1, <3>6
  <2> HIDE DEF T
  <2>3. T \in SUBSET Nat
    BY DEF T
  <2> QED
    BY <2>1, <2>2, <2>3, Induction
<1>2. ASSUME NEW m \in Nat, NEW n \in Nat, m <= n, NEW g, NEW h, Up(m, g), Up(n, h)
      PROVE  \A k \in 0 .. m : g[k] = h[k]
  <2> DEFINE W == {k \in Nat : k <= m => g[k] = h[k]}
  <2>1. 0 \in W
    BY <1>2
  <2>2. ASSUME NEW k \in W PROVE k + 1 \in W
    <3> SUFFICES ASSUME k + 1 <= m PROVE g[k + 1] = h[k + 1]
      OBVIOUS
    <3>1. k \in Nat /\ k \in 0 .. m - 1 /\ k \in 0 .. n - 1 /\ g[k] = h[k]
      BY <1>2
    <3> QED
      BY <1>2, <3>1
  <2> HIDE DEF W
  <2>3. W \in SUBSET Nat
    BY DEF W
  <2>4. W = Nat
    BY <2>1, <2>2, <2>3, Induction
  <2> QED
    BY <2>4 DEF W
<1> DEFINE at[n \in Nat] == CHOOSE g : Up(n, g)
           all == [n \in Nat |-> at[n][n]]
<1>3. ASSUME NEW n \in Nat PROVE Up(n, at[n])
  BY <1>1
<1>4. all \in [Nat -> S] /\ all[0] = a
  <2> HIDE DEF at
  <2>1. ASSUME NEW n \in Nat PROVE at[n][n] \in S
    <3>1. at[n] \in [0 .. n -> S] /\ n \in 0 .. n
      BY <1>3
    <3> QED
      BY <3>1
  <2>2. at[0][0] = a
    BY <1>3
  <2> QED
    BY <2>1, <2>2
<1>5. ASSUME NEW n \in Nat PROVE all[n + 1] = f[n][all[n]]
  <2> HIDE DEF at
  <2>1. Up(n, at[n]) /\ Up(n + 1, at[n + 1])
    BY <1>3
  <2>2. at[n][n] = at[n + 1][n]
    <3> HIDE DEF Up
    <3>1. \A k \in 0 .. n : at[n][k] = at[n + 1][k]
      BY <1>2, <2>1
    <3> QED
      BY <3>1
  <2> QED
    BY <2>1, <2>2
<1> QED
  BY <1>4, <1>5 DEF Recursive

----------------------------------------------------------------------------
(* Powers and sums.                                                        *)

\* Powers of two double.
LEMMA Powers ==
  /\ TwoTo[0] = 1
  /\ \A k \in Nat : TwoTo[k] \in Nat \ {0} /\ TwoTo[k + 1] = 2 * TwoTo[k]
<1> DEFINE step == [k \in Nat |-> [v \in Nat |-> 2 * v]]
<1>1. PICK g : Recursive(g, Nat, 1, step)
  <2>1. step \in [Nat -> [Nat -> Nat]] /\ 1 \in Nat
    OBVIOUS
  <2> HIDE DEF step
  <2> QED
    BY <2>1, Recursion
<1>2. g \in [Nat -> Nat] /\ g[0] = 1 /\ \A k \in Nat : g[k + 1] = 2 * g[k]
  BY <1>1 DEF Recursive
<1>3. g = [k \in Nat |-> IF k = 0 THEN 1 ELSE 2 * g[k - 1]]
  <2>1. ASSUME NEW k \in Nat PROVE g[k] = IF k = 0 THEN 1 ELSE 2 * g[k - 1]
    BY <1>2
  <2> QED
    BY <1>2, <2>1
<1>4. TwoTo = [k \in Nat |-> IF k = 0 THEN 1 ELSE 2 * TwoTo[k - 1]]
  BY <1>3 DEF TwoTo
<1>5. TwoTo[0] = 1 /\ \A k \in Nat : TwoTo[k + 1] = 2 * TwoTo[k]
  <2>1. \A k \in Nat : k + 1 \in Nat /\ k + 1 # 0 /\ (k + 1) - 1 = k
    OBVIOUS
  <2>2. \A k \in Nat : TwoTo[k] = IF k = 0 THEN 1 ELSE 2 * TwoTo[k - 1]
    BY <1>4
  <2> QED
    BY <2>1, <2>2
<1> DEFINE T == {k \in Nat : TwoTo[k] \in Nat \ {0}}
<1>6. 0 \in T /\ \A k \in T : k + 1 \in T
  BY <1>5
<1>7. T \in SUBSET Nat
  OBVIOUS
<1> HIDE DEF T
<1>8. T = Nat
  BY <1>6, <1>7, Induction
<1>9. ASSUME NEW k \in Nat PROVE TwoTo[k] \in Nat \ {0}
  BY <1>8 DEF T
<1> QED
  BY <1>5, <1>9

\* A doubleword has two words.
LEMMA Words ==
  WORD \in Nat \ {0} /\ DOUBLEWORD \in Nat \ {0} /\ DOUBLEWORD = 2 * WORD
BY SizeAssumption DEF HALFWORD

\* No two sizes are the same, and none is greater than a doubleword.
LEMMA SizesAre ==
  /\ \A n \in Sizes : n \in 1 .. DOUBLEWORD /\ n \in Nat
  /\ WORD \in Sizes /\ BYTE # HALFWORD
  /\ WORD \notin {BYTE, HALFWORD} /\ DOUBLEWORD \notin {BYTE, HALFWORD, WORD}
BY SizeAssumption DEF Sizes, BYTE, HALFWORD

\* The sums of the digits of a register, one digit after the other.
LEMMA SumsAdd ==
  ASSUME NEW x \in Register
  PROVE  /\ Sums(x)[0] = 0
         /\ \A k \in 0 .. DOUBLEWORD - 1 : Sums(x)[k + 1] = Sums(x)[k] + x[k] * TwoTo[k]
<1> DEFINE D == 0 .. DOUBLEWORD - 1
           add == [k \in Nat |-> IF k \in D THEN x[k] * TwoTo[k] ELSE 0]
           step == [k \in Nat |-> [v \in Nat |-> v + add[k]]]
           Eq(h) == h = [k \in 0 .. DOUBLEWORD |->
                           IF k = 0 THEN 0 ELSE h[k - 1] + x[k - 1] * TwoTo[k - 1]]
<1>1. ASSUME NEW k \in Nat PROVE add[k] \in Nat
  <2>1. k \in D => x[k] \in {0, 1}
    BY DEF Register, Byte
  <2>2. TwoTo[k] \in Nat
    BY Powers
  <2> QED
    BY <2>1, <2>2
<1>2. PICK g : Recursive(g, Nat, 0, step)
  <2> HIDE DEF add
  <2>1. step \in [Nat -> [Nat -> Nat]] /\ 0 \in Nat
    BY <1>1
  <2> HIDE DEF step
  <2> QED
    BY <2>1, Recursion
<1>3. g \in [Nat -> Nat] /\ g[0] = 0 /\ \A k \in Nat : g[k + 1] = g[k] + add[k]
  <2> HIDE DEF add
  <2> QED
    BY <1>2 DEF Recursive
<1> DEFINE h == [k \in 0 .. DOUBLEWORD |-> g[k]]
<1>4. Eq(h)
  <2>1. ASSUME NEW k \in 0 .. DOUBLEWORD
        PROVE  g[k] = IF k = 0 THEN 0 ELSE h[k - 1] + x[k - 1] * TwoTo[k - 1]
    <3>1. CASE k = 0
      BY <1>3, <3>1
    <3>2. CASE k # 0
      <4>1. k - 1 \in Nat /\ k - 1 \in D /\ k - 1 \in 0 .. DOUBLEWORD /\ (k - 1) + 1 = k
        BY <3>2, Words
      <4>2. g[k] = g[k - 1] + add[k - 1]
        BY <1>3, <4>1
      <4>3. add[k - 1] = x[k - 1] * TwoTo[k - 1]
        BY <4>1
      <4> QED
        BY <3>2, <4>1, <4>2, <4>3
    <3> QED
      BY <3>1, <3>2
  <2> QED
    BY <2>1
<1>5. Eq(Sums(x))
  BY <1>4 DEF Sums
<1> DEFINE s == Sums(x)
<1>6. \A k \in 0 .. DOUBLEWORD : s[k] = IF k = 0 THEN 0 ELSE s[k - 1] + x[k - 1] * TwoTo[k - 1]
  BY <1>5
<1> HIDE DEF s
<1>7. s[0] = 0
  BY <1>6, Words
<1>8. ASSUME NEW k \in 0 .. DOUBLEWORD - 1 PROVE s[k + 1] = s[k] + x[k] * TwoTo[k]
  <2>1. k + 1 \in 0 .. DOUBLEWORD /\ k + 1 # 0 /\ (k + 1) - 1 = k
    BY Words
  <2> QED
    BY <1>6, <2>1
<1> QED
  BY <1>7, <1>8 DEF s

\* The sum of the first k digits is below the k-th power of two.
LEMMA SumsBound ==
  ASSUME NEW x \in Register
  PROVE  \A k \in 0 .. DOUBLEWORD : Sums(x)[k] \in Nat /\ Sums(x)[k] < TwoTo[k]
<1> DEFINE s == Sums(x)
           T == {k \in Nat : k <= DOUBLEWORD => s[k] \in Nat /\ s[k] < TwoTo[k]}
<1>1. s[0] = 0 /\ \A k \in 0 .. DOUBLEWORD - 1 : s[k + 1] = s[k] + x[k] * TwoTo[k]
  BY SumsAdd
<1> HIDE DEF s
<1>2. 0 \in T
  BY <1>1, Powers
<1>3. ASSUME NEW k \in T PROVE k + 1 \in T
  <2> SUFFICES ASSUME k + 1 <= DOUBLEWORD
               PROVE  s[k + 1] \in Nat /\ s[k + 1] < TwoTo[k + 1]
    OBVIOUS
  <2>1. k \in Nat /\ k \in 0 .. DOUBLEWORD - 1 /\ s[k] \in Nat /\ s[k] < TwoTo[k]
    BY Words
  <2>2. TwoTo[k] \in Nat /\ TwoTo[k + 1] = 2 * TwoTo[k]
    BY <2>1, Powers
  <2>3. x[k] \in {0, 1}
    BY <2>1 DEF Register, Byte
  <2>4. s[k + 1] = s[k] \/ s[k + 1] = s[k] + TwoTo[k]
    BY <1>1, <2>1, <2>2, <2>3
  <2> QED
    BY <2>1, <2>2, <2>4
<1>4. T \in SUBSET Nat
  OBVIOUS
<1> HIDE DEF T
<1>5. T = Nat
  BY <1>2, <1>3, <1>4, Induction
<1>6. ASSUME NEW k \in 0 .. DOUBLEWORD PROVE s[k] \in Nat /\ s[k] < TwoTo[k]
  <2>1. k \in T /\ k <= DOUBLEWORD
    BY <1>5, Words
  <2> QED
    BY <2>1 DEF T
<1> QED
  BY <1>6 DEF s

\* The numbers of registers.
LEMMA NumberType ==
  ASSUME NEW x \in Register
  PROVE  Number(x) \in 0 .. Modulus - 1
BY SumsBound, Words, Powers DEF Number, Modulus

\* A register whose digits are at most those of another holds at most its number.
LEMMA NumberMonotone ==
  ASSUME NEW x \in Register, NEW y \in Register,
         \A i \in 0 .. DOUBLEWORD - 1 : x[i] <= y[i]
  PROVE  Number(x) <= Number(y)
<1> DEFINE s == Sums(x)
           t == Sums(y)
           T == {k \in Nat : k <= DOUBLEWORD => s[k] <= t[k]}
<1>1. /\ s[0] = 0 /\ \A k \in 0 .. DOUBLEWORD - 1 : s[k + 1] = s[k] + x[k] * TwoTo[k]
      /\ t[0] = 0 /\ \A k \in 0 .. DOUBLEWORD - 1 : t[k + 1] = t[k] + y[k] * TwoTo[k]
      /\ \A k \in 0 .. DOUBLEWORD : s[k] \in Nat /\ t[k] \in Nat
  BY SumsAdd, SumsBound
<1> HIDE DEF s, t
<1>2. 0 \in T
  BY <1>1
<1>3. ASSUME NEW k \in T PROVE k + 1 \in T
  <2> SUFFICES ASSUME k + 1 <= DOUBLEWORD PROVE s[k + 1] <= t[k + 1]
    OBVIOUS
  <2>1. /\ k \in Nat /\ k \in 0 .. DOUBLEWORD - 1 /\ k \in 0 .. DOUBLEWORD
        /\ s[k] <= t[k]
    BY Words
  <2>2. TwoTo[k] \in Nat /\ s[k] \in Nat /\ t[k] \in Nat
    BY <1>1, <2>1, Powers
  <2>3. x[k] \in {0, 1} /\ y[k] \in {0, 1} /\ x[k] <= y[k]
    BY <2>1 DEF Register, Byte
  <2>4. x[k] * TwoTo[k] \in Nat /\ y[k] * TwoTo[k] \in Nat /\ x[k] * TwoTo[k] <= y[k] * TwoTo[k]
    BY <2>2, <2>3
  <2>5. s[k + 1] = s[k] + x[k] * TwoTo[k] /\ t[k + 1] = t[k] + y[k] * TwoTo[k]
    BY <1>1, <2>1
  <2> QED
    BY <2>1, <2>2, <2>4, <2>5
<1>4. T \in SUBSET Nat
  OBVIOUS
<1> HIDE DEF T
<1>5. T = Nat
  BY <1>2, <1>3, <1>4, Induction
<1>6. DOUBLEWORD \in T
  BY <1>5, Words
<1>7. s[DOUBLEWORD] <= t[DOUBLEWORD]
  BY <1>6, Words DEF T
<1> QED
  BY <1>7 DEF Number, s, t

----------------------------------------------------------------------------
(* Division, and the digits of a number.                                   *)

\* Quotient and remainder.
LEMMA Divided ==
  ASSUME NEW m \in Nat, NEW p \in Nat \ {0}
  PROVE  m \div p \in Nat /\ m % p \in 0 .. p - 1 /\ m = p * (m \div p) + (m % p)
OBVIOUS

\* They are the only numbers of their kind.
LEMMA Division ==
  ASSUME NEW p \in Nat \ {0}, NEW q \in Nat, NEW r \in 0 .. p - 1
  PROVE  (p * q + r) \div p = q /\ (p * q + r) % p = r
<1> DEFINE m == p * q + r
           a == m \div p
           b == m % p
<1>1. m \in Nat
  OBVIOUS
<1>2. a \in Nat /\ b \in 0 .. p - 1 /\ m = p * a + b
  BY <1>1, Divided
<1>3. p * q + r = p * a + b
  BY <1>2
<1> HIDE DEF a, b
<1>4. q = a
  <2>1. ASSUME q + 1 <= a PROVE FALSE
    <3>1. p * (q + 1) <= p * a
      BY <1>2, <2>1
    <3> QED
      BY <1>2, <1>3, <3>1
  <2>2. ASSUME a + 1 <= q PROVE FALSE
    <3>1. p * (a + 1) <= p * q
      BY <1>2, <2>2
    <3> QED
      BY <1>2, <1>3, <3>1
  <2> QED
    BY <1>2, <2>1, <2>2
<1>5. r = b
  BY <1>2, <1>3, <1>4
<1> QED
  BY <1>4, <1>5 DEF a, b

\* The remainder by 2 * p has one digit more than that by p.
LEMMA NextDigit ==
  ASSUME NEW m \in Nat, NEW p \in Nat \ {0}
  PROVE  m % (2 * p) = (m % p) + ((m \div p) % 2) * p
<1> DEFINE q == m \div p
           h == q \div 2
           d == q % 2
           r == m % p
<1>1. q \in Nat /\ r \in 0 .. p - 1 /\ m = p * q + r
  BY Divided
<1> HIDE DEF q, r
<1>2. h \in Nat /\ d \in {0, 1} /\ q = 2 * h + d
  BY <1>1
<1> HIDE DEF h, d
<1>3. m = (2 * p) * h + (d * p + r)
  BY <1>1, <1>2
<1>4. d * p + r \in 0 .. 2 * p - 1 /\ 2 * p \in Nat \ {0}
  BY <1>1, <1>2
<1>5. m % (2 * p) = d * p + r
  BY <1>2, <1>3, <1>4, Division
<1>6. d * p \in Nat
  BY <1>2
<1>7. d * p + r = r + d * p
  BY <1>1, <1>6
<1> QED
  BY <1>5, <1>7 DEF q, r, d

LEMMA DigitsType ==
  ASSUME NEW m \in Nat
  PROVE  Digits(m) \in Register
<1>1. ASSUME NEW i \in 0 .. DOUBLEWORD - 1 PROVE (m \div TwoTo[i]) % 2 \in {0, 1}
  <2>1. i \in Nat /\ TwoTo[i] \in Nat \ {0}
    BY Words, Powers
  <2>2. m \div TwoTo[i] \in Nat
    BY <2>1, Divided
  <2> QED
    BY <2>2
<1> QED
  BY <1>1 DEF Digits, Register, Byte

\* The first k digits of a number are its remainder.
LEMMA DigitsSums ==
  ASSUME NEW m \in Nat
  PROVE  \A k \in 0 .. DOUBLEWORD : Sums(Digits(m))[k] = m % TwoTo[k]
<1> DEFINE x == Digits(m)
           s == Sums(x)
           T == {k \in Nat : k <= DOUBLEWORD => s[k] = m % TwoTo[k]}
<1>1. s[0] = 0 /\ \A k \in 0 .. DOUBLEWORD - 1 : s[k + 1] = s[k] + x[k] * TwoTo[k]
  BY DigitsType, SumsAdd
<1>2. \A k \in 0 .. DOUBLEWORD - 1 : x[k] = (m \div TwoTo[k]) % 2
  BY DEF Digits
<1> HIDE DEF x, s
<1>3. 0 \in T
  <2>1. m % 1 = 0
    OBVIOUS
  <2> QED
    BY <1>1, <2>1, Powers
<1>4. ASSUME NEW k \in T PROVE k + 1 \in T
  <2> SUFFICES ASSUME k + 1 <= DOUBLEWORD PROVE s[k + 1] = m % TwoTo[k + 1]
    OBVIOUS
  <2>1. k \in Nat /\ k \in 0 .. DOUBLEWORD - 1 /\ s[k] = m % TwoTo[k]
    BY Words
  <2>2. TwoTo[k] \in Nat \ {0} /\ TwoTo[k + 1] = 2 * TwoTo[k]
    BY <2>1, Powers
  <2>3. s[k + 1] = (m % TwoTo[k]) + ((m \div TwoTo[k]) % 2) * TwoTo[k]
    BY <1>1, <1>2, <2>1
  <2> QED
    BY <2>2, <2>3, NextDigit
<1>5. T \in SUBSET Nat
  OBVIOUS
<1> HIDE DEF T
<1>6. T = Nat
  BY <1>3, <1>4, <1>5, Induction
<1>7. ASSUME NEW k \in 0 .. DOUBLEWORD PROVE s[k] = m % TwoTo[k]
  <2>1. k \in T /\ k <= DOUBLEWORD
    BY <1>6, Words
  <2> QED
    BY <2>1 DEF T
<1> QED
  BY <1>7 DEF s, x

\* Digits(m) holds the number m.
LEMMA NumberDigits ==
  ASSUME NEW m \in 0 .. Modulus - 1
  PROVE  Number(Digits(m)) = m
<1>1. TwoTo[DOUBLEWORD] \in Nat \ {0} /\ DOUBLEWORD \in 0 .. DOUBLEWORD
  BY Words, Powers
<1>2. m \in Nat /\ m % TwoTo[DOUBLEWORD] = m
  BY <1>1 DEF Modulus
<1> QED
  BY <1>1, <1>2, DigitsSums DEF Number

\* A power of two is a multiple of twice each smaller one.
LEMMA PowersDivide ==
  ASSUME NEW i \in Nat
  PROVE  \A k \in Nat : i < k => \E c \in Nat : TwoTo[k] = (2 * c) * TwoTo[i]
<1> DEFINE T == {k \in Nat : i < k => \E c \in Nat : TwoTo[k] = (2 * c) * TwoTo[i]}
<1>1. 0 \in T
  OBVIOUS
<1>2. ASSUME NEW k \in T PROVE k + 1 \in T
  <2> SUFFICES ASSUME i < k + 1 PROVE \E c \in Nat : TwoTo[k + 1] = (2 * c) * TwoTo[i]
    OBVIOUS
  <2>1. k \in Nat /\ TwoTo[k + 1] = 2 * TwoTo[k] /\ TwoTo[i] \in Nat /\ TwoTo[k] \in Nat
    BY Powers
  <2>2. CASE i = k
    <3>1. TwoTo[k + 1] = (2 * 1) * TwoTo[i]
      BY <2>1, <2>2
    <3> QED
      BY <3>1
  <2>3. CASE i < k
    <3>1. PICK c \in Nat : TwoTo[k] = (2 * c) * TwoTo[i]
      BY <2>1, <2>3
    <3>2. TwoTo[k + 1] = (2 * (2 * c)) * TwoTo[i] /\ 2 * c \in Nat
      BY <2>1, <3>1
    <3> QED
      BY <3>2
  <2> QED
    BY <2>1, <2>2, <2>3
<1>3. T \in SUBSET Nat
  OBVIOUS
<1> HIDE DEF T
<1>4. T = Nat
  BY <1>1, <1>2, <1>3, Induction
<1> QED
  BY <1>4 DEF T

\* Higher digits do not change the digit at i.
LEMMA DigitStays ==
  ASSUME NEW m \in Nat, NEW p \in Nat \ {0}, NEW c \in Nat
  PROVE  ((m + (2 * c) * p) \div p) % 2 = (m \div p) % 2
<1> DEFINE q == m \div p
           r == m % p
<1>1. q \in Nat /\ r \in 0 .. p - 1 /\ m = p * q + r
  BY Divided
<1> HIDE DEF q, r
<1>2. m + (2 * c) * p = p * (q + 2 * c) + r /\ q + 2 * c \in Nat
  BY <1>1
<1>3. (m + (2 * c) * p) \div p = q + 2 * c
  BY <1>1, <1>2, Division
<1>4. (q + 2 * c) % 2 = q % 2
  BY <1>1
<1> QED
  BY <1>3, <1>4 DEF q

\* The digits of the number that a register holds are those of the register.
LEMMA DigitsNumber ==
  ASSUME NEW y \in Register
  PROVE  Digits(Number(y)) = y
<1> DEFINE s == Sums(y)
           T == {k \in Nat : k <= DOUBLEWORD =>
                               \A i \in 0 .. k - 1 : (s[k] \div TwoTo[i]) % 2 = y[i]}
<1>1. /\ \A k \in 0 .. DOUBLEWORD - 1 : s[k + 1] = s[k] + y[k] * TwoTo[k]
      /\ \A k \in 0 .. DOUBLEWORD : s[k] \in Nat /\ s[k] < TwoTo[k]
  BY SumsAdd, SumsBound
<1> HIDE DEF s
<1>2. 0 \in T
  OBVIOUS
<1>3. ASSUME NEW k \in T PROVE k + 1 \in T
  <2> SUFFICES ASSUME k + 1 <= DOUBLEWORD, NEW i \in 0 .. k
               PROVE  (s[k + 1] \div TwoTo[i]) % 2 = y[i]
    OBVIOUS
  <2>1. /\ k \in Nat /\ k \in 0 .. DOUBLEWORD - 1 /\ k \in 0 .. DOUBLEWORD /\ i \in Nat
        /\ \A j \in 0 .. k - 1 : (s[k] \div TwoTo[j]) % 2 = y[j]
    BY Words
  <2>2. TwoTo[k] \in Nat \ {0} /\ TwoTo[i] \in Nat \ {0}
    BY <2>1, Powers
  <2>3. s[k + 1] = s[k] + y[k] * TwoTo[k] /\ s[k] \in Nat /\ s[k] < TwoTo[k]
    BY <1>1, <2>1
  <2>4. y[k] \in {0, 1}
    BY <2>1 DEF Register, Byte
  <2>5. CASE i = k
    <3>1. y[k] \in Nat /\ s[k] \in 0 .. TwoTo[k] - 1
      BY <2>2, <2>3, <2>4
    <3>2. s[k + 1] = TwoTo[k] * y[k] + s[k]
      BY <2>2, <2>3, <2>4
    <3>3. s[k + 1] \div TwoTo[k] = y[k]
      <4>1. ASSUME NEW p \in Nat \ {0}, NEW q \in Nat, NEW m \in 0 .. p - 1, NEW x,
                   x = p * q + m
            PROVE  x \div p = q
        BY <4>1, Division
      <4> QED
        BY <2>2, <3>1, <3>2, <4>1
    <3> QED
      BY <2>4, <2>5, <3>3
  <2>6. CASE i # k
    <3>1. i < k /\ i \in 0 .. k - 1
      BY <2>1, <2>6
    <3>2. PICK c \in Nat : TwoTo[k] = (2 * c) * TwoTo[i]
      BY <2>1, <3>1, PowersDivide
    <3>3. PICK e \in Nat : y[k] * TwoTo[k] = (2 * e) * TwoTo[i]
      <4>1. CASE y[k] = 0
        <5>1. y[k] * TwoTo[k] = (2 * 0) * TwoTo[i]
          BY <2>2, <4>1
        <5> QED
          BY <5>1
      <4>2. CASE y[k] = 1
        <5>1. y[k] * TwoTo[k] = (2 * c) * TwoTo[i]
          BY <2>2, <3>2, <4>2
        <5> QED
          BY <5>1
      <4> QED
        BY <2>4, <4>1, <4>2
    <3>4. (s[k + 1] \div TwoTo[i]) % 2 = (s[k] \div TwoTo[i]) % 2
      <4> DEFINE m == s[k]
                 p == TwoTo[i]
      <4>1. s[k + 1] = m + (2 * e) * p /\ m \in Nat /\ p \in Nat \ {0}
        BY <2>2, <2>3, <3>3
      <4> HIDE DEF m, p
      <4>2. ((m + (2 * e) * p) \div p) % 2 = (m \div p) % 2
        BY <4>1, DigitStays
      <4> QED
        BY <4>1, <4>2 DEF m, p
    <3> QED
      BY <2>1, <3>1, <3>4
  <2> QED
    BY <2>5, <2>6
<1>4. T \in SUBSET Nat
  OBVIOUS
<1> HIDE DEF T
<1>5. DOUBLEWORD \in T
  BY <1>2, <1>3, <1>4, Induction, Words
<1>6. \A i \in 0 .. DOUBLEWORD - 1 : (s[DOUBLEWORD] \div TwoTo[i]) % 2 = y[i]
  BY <1>5, Words DEF T
<1>7. y = [i \in 0 .. DOUBLEWORD - 1 |-> y[i]]
  BY DEF Register
<1> QED
  BY <1>6, <1>7 DEF Digits, Number, s

\* The digits from j on up to l add the same to the sums of two registers that
\* agree on them.
LEMMA SameDigits ==
  ASSUME NEW x \in Register, NEW y \in Register,
         NEW j \in 0 .. DOUBLEWORD, NEW l \in 0 .. DOUBLEWORD, j <= l,
         \A i \in j .. l - 1 : x[i] = y[i]
  PROVE  Sums(x)[l] - Sums(x)[j] = Sums(y)[l] - Sums(y)[j]
<1> DEFINE s == Sums(x)
           t == Sums(y)
           T == {k \in Nat : j + k <= l => s[j + k] - s[j] = t[j + k] - t[j]}
<1>1. /\ \A k \in 0 .. DOUBLEWORD - 1 : s[k + 1] = s[k] + x[k] * TwoTo[k]
      /\ \A k \in 0 .. DOUBLEWORD - 1 : t[k + 1] = t[k] + y[k] * TwoTo[k]
      /\ \A k \in 0 .. DOUBLEWORD : s[k] \in Nat /\ t[k] \in Nat
  BY SumsAdd, SumsBound
<1> HIDE DEF s, t
<1>2. 0 \in T
  BY <1>1
<1>3. ASSUME NEW k \in T PROVE k + 1 \in T
  <2> SUFFICES ASSUME j + (k + 1) <= l PROVE s[j + (k + 1)] - s[j] = t[j + (k + 1)] - t[j]
    OBVIOUS
  <2>1. k \in Nat /\ j \in Nat /\ l \in Nat
    BY Words
  <2> DEFINE i == j + k
  <2>2. /\ i \in Nat /\ i \in 0 .. DOUBLEWORD - 1 /\ i \in j .. l - 1 /\ i + 1 = j + (k + 1)
        /\ i \in 0 .. DOUBLEWORD /\ s[i] - s[j] = t[i] - t[j]
    BY <2>1, Words
  <2> HIDE DEF i
  <2>3. TwoTo[i] \in Nat /\ x[i] = y[i] /\ x[i] \in {0, 1}
    BY <2>2, Powers DEF Register, Byte
  <2> DEFINE d == x[i] * TwoTo[i]
  <2>4. d \in Nat /\ s[i + 1] = s[i] + d /\ t[i + 1] = t[i] + d
    BY <1>1, <2>2, <2>3
  <2>5. s[i] \in Nat /\ t[i] \in Nat /\ s[j] \in Nat /\ t[j] \in Nat
    BY <1>1, <2>2
  <2> HIDE DEF d
  <2> QED
    BY <2>2, <2>4, <2>5
<1>4. T \in SUBSET Nat
  OBVIOUS
<1> HIDE DEF T
<1>5. T = Nat
  BY <1>2, <1>3, <1>4, Induction
<1>6. l - j \in T /\ j + (l - j) = l
  BY <1>5, Words
<1> QED
  BY <1>6 DEF T, s, t

----------------------------------------------------------------------------
(* Types.                                                                  *)

\* TypeOK, and the types of the guests' own state.
Typed ==
  /\ TypeOK
  /\ due \in [old : Register, new : Register]
  /\ got \in [upper : Register, lower : Register]

\* Registers are equal if their bytes are.
LEMMA SameRegister ==
  ASSUME NEW x \in Register, NEW y \in Register, \A i \in 0 .. DOUBLEWORD - 1 : x[i] = y[i]
  PROVE  x = y
<1>1. x = [i \in 0 .. DOUBLEWORD - 1 |-> x[i]] /\ y = [i \in 0 .. DOUBLEWORD - 1 |-> y[i]]
  BY DEF Register
<1>2. [i \in 0 .. DOUBLEWORD - 1 |-> x[i]] = [i \in 0 .. DOUBLEWORD - 1 |-> y[i]]
  OBVIOUS
<1> QED
  BY <1>1, <1>2, Zenon

LEMMA SliceType ==
  ASSUME NEW x, \A i \in DOMAIN x : x[i] \in Byte, NEW o, NEW n
  PROVE  Slice(x, o, n) \in Register
BY DEF Slice, Register, Byte

LEMMA PatchedType ==
  ASSUME NEW D \in SUBSET Int, NEW x \in [D -> Byte], NEW o \in Nat, NEW n \in 1 .. DOUBLEWORD,
         NEW val \in Register
  PROVE  Patched(x, o, n, val) \in [D -> Byte]
<1>1. ASSUME NEW i \in D, i - o \in 0 .. n - 1 PROVE val[i - o] \in Byte
  <2>1. i - o \in 0 .. DOUBLEWORD - 1
    BY <1>1, Words
  <2> QED
    BY <2>1 DEF Register
<1> QED
  BY <1>1 DEF Patched

LEMMA KeptType ==
  ASSUME NEW r, NEW x \in Register
  PROVE  /\ Kept(r, x) \in Register
         /\ r = "msip" => \A i \in WORD .. DOUBLEWORD - 1 : Kept(r, x)[i] = 0
<1>1. Slice(x, 0, WORD) \in Register
  BY SliceType DEF Register
<1>2. \A i \in WORD .. DOUBLEWORD - 1 : Slice(x, 0, WORD)[i] = 0
  BY Words DEF Slice
<1> QED
  BY <1>1, <1>2 DEF Kept

\* The ROM holds bytes.
LEMMA RomType ==
  ASSUME NEW dtb \in Dtbs
  PROVE  \A i \in DOMAIN RomNew(dtb) : RomNew(dtb)[i] \in Byte
<1>1. dtb \in Seq(Byte) /\ RESET \in Nat
  BY SizeAssumption
<1> SUFFICES ASSUME NEW i \in Int, i - RESET \in 0 .. Len(dtb) - 1
             PROVE  dtb[i - RESET + 1] \in Byte
  BY DEF RomNew, Byte
<1>2. i - RESET + 1 \in 1 .. Len(dtb)
  BY <1>1
<1> QED
  BY <1>1, <1>2

LEMMA DramType == DramNew \in [0 .. DramSize - 1 -> Byte]
<1>1. Binary \in Seq(Byte)
  BY SizeAssumption
<1> SUFFICES ASSUME NEW i \in 0 .. DramSize - 1, i < Len(Binary) PROVE Binary[i + 1] \in Byte
  BY DEF DramNew, Byte
<1>2. i + 1 \in 1 .. Len(Binary)
  BY <1>1
<1> QED
  BY <1>1, <1>2

\* The devices that answer for the regions.
LEMMA BusReads ==
  ASSUME NEW o, NEW n
  PROVE  /\ bus_read("rom", o, n) = array_read(rom, o, n)
         /\ \A r \in Clint : bus_read(r, o, n) = clint_read(r, o, n)
         /\ bus_read("uart", o, n) = uart_access(o, n)
         /\ bus_read("dram", o, n) = array_read(dram, o, n)
         /\ bus_read("none", o, n) = Answer("fault")
BY DEF bus_read, Clint

LEMMA BusWrites ==
  ASSUME NEW o, NEW n
  PROVE  /\ bus_write("rom", o, n) = Answer("fault")
         /\ \A r \in Clint :
              bus_write(r, o, n) = Answer(IF ShiftPanics(o, n) THEN "panic" ELSE "done")
         /\ bus_write("uart", o, n) = uart_access(o, n)
         /\ bus_write("dram", o, n) =
              Answer(IF o + n - 1 \in DOMAIN dram THEN "done" ELSE "panic")
         /\ bus_write("none", o, n) = Answer("fault")
BY DEF bus_write, Clint

\* What the bus answers.
Answers == [is : {"none", "data", "done", "fault", "panic", "device"}, data : Register]

LEMMA AnswerType ==
  /\ \A x \in Register : Ok(x) \in Answers
  /\ \A is \in {"none", "done", "fault", "panic", "device"} : Answer(is) \in Answers
<1>1. Zeros \in Register
  BY DEF Zeros, Register, Byte
<1> QED
  BY <1>1 DEF Ok, Answer, Answers

\* The registers and the memories hold bytes.
LEMMA Bytewise ==
  ASSUME Typed
  PROVE  /\ \A i \in DOMAIN rom : rom[i] \in Byte
         /\ \A i \in DOMAIN dram : dram[i] \in Byte
         /\ \A r \in Clint : reg[r] \in Register /\ \A i \in DOMAIN reg[r] : reg[r][i] \in Byte
<1>1. \A i \in DOMAIN rom : rom[i] \in Byte
  BY RomType DEF Typed, TypeOK
<1>2. \A i \in DOMAIN dram : dram[i] \in Byte
  BY DEF Typed, TypeOK
<1>3. ASSUME NEW r \in Clint PROVE reg[r] \in Register
  BY DEF Typed, TypeOK
<1>4. ASSUME NEW x \in Register PROVE \A i \in DOMAIN x : x[i] \in Byte
  BY DEF Register
<1> QED
  BY <1>1, <1>2, <1>3, <1>4

\* The shifts and masks of the CLINT read and replace the bytes that they name.
LEMMA MaskedIs ==
  ASSUME NEW x \in Register, NEW val \in Register, NEW k \in Nat, NEW n \in 1 .. DOUBLEWORD
  PROVE  /\ And(ShiftRight(x, k), 0 .. n - 1) = Slice(x, k, n)
         /\ Replaced(x, 0 .. n - 1, k, val) = Patched(x, k, n, val)
<1> DEFINE D == 0 .. DOUBLEWORD - 1
<1>1. DOMAIN x = D /\ \A i \in D : x[i] \in Byte /\ val[i] \in Byte
  BY DEF Register
<1>2. And(ShiftRight(x, k), 0 .. n - 1) = Slice(x, k, n)
  <2>1. ASSUME NEW i \in D
        PROVE  And(ShiftRight(x, k), 0 .. n - 1)[i] = Slice(x, k, n)[i]
    BY <1>1, Words DEF And, ShiftRight, Slice
  <2> QED BY <2>1 DEF And, Slice
<1>3. Replaced(x, 0 .. n - 1, k, val) = Patched(x, k, n, val)
  <2> DEFINE mask == 0 .. n - 1
             over == {i + k : i \in mask}
             y == And(x, D \ over)
             z == ShiftLeft(And(val, mask), k)
  <2>1. ASSUME NEW i \in D PROVE i \in over <=> i - k \in mask
    BY Words
  <2>2. ASSUME NEW i \in D PROVE y[i] = IF i - k \in mask THEN 0 ELSE x[i]
    BY <2>1 DEF And
  <2>3. ASSUME NEW i \in D PROVE z[i] = IF i - k \in mask THEN val[i - k] ELSE 0
    BY Words DEF And, ShiftLeft
  <2> HIDE DEF y, z, over
  <2>4. ASSUME NEW i \in D
        PROVE  Or(y, z)[i] = IF i - k \in mask THEN val[i - k] ELSE x[i]
    <3>1. i - k \in mask => i - k \in D
      BY Words
    <3>2. Or(y, z)[i] = IF y[i] = 1 \/ z[i] = 1 THEN 1 ELSE 0
      BY DEF Or
    <3> QED BY <1>1, <2>2, <2>3, <3>1, <3>2 DEF Byte
  <2>5. Replaced(x, mask, k, val) = Or(y, z)
    BY DEF Replaced, y, z, over
  <2>6. Patched(x, k, n, val) = [i \in D |-> IF i - k \in mask THEN val[i - k] ELSE x[i]]
    BY <1>1 DEF Patched
  <2>7. Or(y, z) = [i \in D |-> Or(y, z)[i]]
    BY DEF Or
  <2> HIDE DEF mask
  <2>8. Or(y, z) = [i \in D |-> IF i - k \in mask THEN val[i - k] ELSE x[i]]
    BY <2>4, <2>7
  <2> QED BY <2>5, <2>6, <2>8 DEF mask
<1> QED BY <1>2, <1>3

LEMMA ClintReadIs ==
  ASSUME Typed, NEW r \in Clint, NEW o \in Nat, NEW n \in Sizes
  PROVE  clint_read(r, o, n) =
           IF ShiftPanics(o, n) THEN Answer("panic")
           ELSE Ok(IF n = DOUBLEWORD THEN reg[r] ELSE Slice(reg[r], Shift(o), n))
<1> DEFINE x == ShiftRight(reg[r], Shift(o))
<1>1. reg[r] \in Register /\ Shift(o) \in Nat /\ n \in 1 .. DOUBLEWORD
  BY Bytewise, SizesAre, Words DEF Shift
<1>2. And(x, 0 .. n - 1) = Slice(reg[r], Shift(o), n)
  BY <1>1, MaskedIs
<1> HIDE DEF x
<1>3. clint_read(r, o, n) =
        IF ShiftPanics(o, n) THEN Answer("panic")
        ELSE Ok(IF n = DOUBLEWORD THEN reg[r] ELSE And(x, 0 .. n - 1))
  BY SizesAre DEF clint_read, xff, xffff, xffffffff, x, Sizes
<1> QED BY <1>2, <1>3

LEMMA ClintWriteIs ==
  ASSUME Typed, NEW r \in Clint, NEW o \in Nat, NEW n \in Sizes, NEW val \in Register
  PROVE  clint_write(r, o, n, val) =
           Kept(r, IF n = DOUBLEWORD THEN val ELSE Patched(reg[r], Shift(o), n, val))
<1> DEFINE x == Replaced(reg[r], 0 .. n - 1, Shift(o), val)
<1>1. reg[r] \in Register /\ Shift(o) \in Nat /\ n \in 1 .. DOUBLEWORD
  BY Bytewise, SizesAre, Words DEF Shift
<1>2. x = Patched(reg[r], Shift(o), n, val)
  BY <1>1, MaskedIs
<1>3. clint_write(r, o, n, val) = Kept(r, IF n = DOUBLEWORD THEN val ELSE x)
  BY SizesAre DEF clint_write, xff, xffff, xffffffff, Sizes
<1> HIDE DEF x
<1> QED BY <1>2, <1>3

LEMMA ReadType ==
  ASSUME Typed, NEW r \in Regions, NEW o \in Nat, NEW n \in Sizes
  PROVE  bus_read(r, o, n) \in Answers
<1>1. CASE r = "rom"
  BY <1>1, Bytewise, BusReads, AnswerType, SliceType DEF array_read
<1>2. CASE r \in Clint
  <2>1. /\ reg[r] \in Register
        /\ Slice(reg[r], Shift(o), n) \in Register
    BY <1>2, Bytewise, SliceType
  <2>2. clint_read(r, o, n) \in {Answer("panic"), Ok(reg[r]), Ok(Slice(reg[r], Shift(o), n))}
    BY <1>2, ClintReadIs
  <2>3. bus_read(r, o, n) = clint_read(r, o, n)
    BY <1>2, BusReads
  <2>4. Answer("panic") \in Answers
    BY AnswerType
  <2>5. Ok(reg[r]) \in Answers /\ Ok(Slice(reg[r], Shift(o), n)) \in Answers
    BY <2>1, AnswerType
  <2> QED
    BY <2>2, <2>3, <2>4, <2>5
<1>3. CASE r = "uart"
  BY <1>3, BusReads, AnswerType DEF uart_access
<1>4. CASE r = "dram"
  BY <1>4, Bytewise, BusReads, AnswerType, SliceType DEF array_read
<1>5. CASE r = "none"
  BY <1>5, BusReads, AnswerType
<1> QED
  BY <1>1, <1>2, <1>3, <1>4, <1>5 DEF Regions

LEMMA WriteType ==
  ASSUME NEW r \in Regions, NEW o, NEW n
  PROVE  bus_write(r, o, n) \in Answers
<1>1. CASE r \in Clint
  BY <1>1, BusWrites, AnswerType
<1>2. CASE r = "uart"
  BY <1>2, BusWrites, AnswerType DEF uart_access
<1>3. CASE r = "dram"
  BY <1>3, BusWrites, AnswerType
<1>4. CASE r \in {"rom", "none"}
  BY <1>4, BusWrites, AnswerType
<1> QED
  BY <1>1, <1>2, <1>3, <1>4 DEF Regions

LEMMA ClintWriteType ==
  ASSUME Typed, NEW r \in Clint, NEW o \in Nat, NEW n \in Sizes, NEW val \in Register
  PROVE  /\ clint_write(r, o, n, val) \in Register
         /\ r = "msip" => \A i \in WORD .. DOUBLEWORD - 1 : clint_write(r, o, n, val)[i] = 0
<1>1. Shift(o) \in Nat
  BY Words DEF Shift
<1>2. reg[r] \in Register
  BY Bytewise
<1>3. 0 .. DOUBLEWORD - 1 \in SUBSET Int
  BY Words
<1>4. Patched(reg[r], Shift(o), n, val) \in Register
  BY <1>1, <1>2, <1>3, SizesAre, PatchedType DEF Register
<1> QED
  BY <1>4, KeptType, ClintWriteIs

\* A store keeps the types of what it changes.
LEMMA StoreType ==
  ASSUME Typed, NEW r \in Regions, NEW o \in Nat, NEW n \in Sizes, NEW val \in Register,
         Store(r, o, n, val)
  PROVE  /\ reg' \in [Clint -> Register]
         /\ \A i \in WORD .. DOUBLEWORD - 1 : reg'["msip"][i] = 0
         /\ dram' \in [0 .. DramSize - 1 -> Byte]
         /\ result' \in Answers
<1>1. /\ reg \in [Clint -> Register]
      /\ \A i \in WORD .. DOUBLEWORD - 1 : reg["msip"][i] = 0
      /\ dram \in [0 .. DramSize - 1 -> Byte]
  BY DEF Typed, TypeOK
<1>2. result' \in Answers
  BY WriteType DEF Store
<1>3. dram' \in [0 .. DramSize - 1 -> Byte]
  <2>1. 0 .. DramSize - 1 \in SUBSET Int
    BY SizeAssumption
  <2>2. Patched(dram, o, n, val) \in [0 .. DramSize - 1 -> Byte]
    BY <1>1, <2>1, SizesAre, PatchedType
  <2> QED
    BY <1>1, <2>2 DEF Store
<1>4. CASE reg' = reg
  BY <1>1, <1>2, <1>3, <1>4
<1>5. CASE r \in Clint /\ reg' = [reg EXCEPT ![r] = clint_write(r, o, n, val)]
  BY <1>1, <1>2, <1>3, <1>5, ClintWriteType
<1> QED
  BY <1>4, <1>5 DEF Store

\* A tick moves the clock to the next number and posts the interrupt by it.
LEMMA TickMoves ==
  ASSUME Typed, Tick
  PROVE  LET now == (Number(reg["mtime"]) + 1) % Modulus
         IN  /\ now \in 0 .. Modulus - 1
             /\ reg' = [reg EXCEPT !["mtime"] = Digits(now)]
             /\ Digits(now) \in Register /\ Number(Digits(now)) = now
             /\ mtip' = (now >= Number(reg["mtimecmp"]))
<1> DEFINE old == Number(reg["mtime"])
           now == (old + 1) % Modulus
<1>1. Modulus \in Nat \ {0}
  BY Words, Powers DEF Modulus
<1>2. old \in Nat
  BY <1>1, Bytewise, NumberType DEF Clint
<1>3. now \in 0 .. Modulus - 1
  BY <1>1, <1>2
<1>4. now \in Nat
  BY <1>1, <1>3
<1>5. Digits(now) \in Register /\ Number(Digits(now)) = now
  BY <1>3, <1>4, DigitsType, NumberDigits
<1> QED
  BY <1>3, <1>5 DEF Tick, increment

\* The accesses of the first guest.
LEMMA AnyType ==
  /\ \A o \in Offsets : o \in Nat
  /\ Data \subseteq Register /\ Deadlines \subseteq Register
BY SizeAssumption, Words DEF Offsets

LEMMA OnesType == Ones \in Register /\ Zeros \in Register
BY DEF Ones, Zeros, Register, Byte

LEMMA TypedInit == Init => Typed
<1> SUFFICES ASSUME Init PROVE Typed
  OBVIOUS
<1>1. PICK x \in [Clint -> Contents] : reg = [r \in Clint |-> Kept(r, x[r])]
  BY DEF Init
<1>2. ASSUME NEW r \in Clint PROVE x[r] \in Register
  BY SizeAssumption
<1>3. reg \in [Clint -> Register] /\ \A i \in WORD .. DOUBLEWORD - 1 : reg["msip"][i] = 0
  BY <1>1, <1>2, KeptType DEF Clint
<1>4. dram \in [0 .. DramSize - 1 -> Byte]
  BY DramType DEF Init
<1>5. result \in Answers
  BY AnswerType DEF Init
<1>6. /\ guest \in {"any", "set", "get"} /\ gpc \in 0 .. MaxAccesses + 3
      /\ rom \in {RomNew(dtb) : dtb \in Dtbs} /\ mtip \in BOOLEAN
  <2>1. guest \in {"any", "set", "get"} /\ gpc = 0 /\ mtip \in BOOLEAN
    BY DEF Init
  <2>2. rom \in {RomNew(dtb) : dtb \in Dtbs}
    BY Zenon DEF Init
  <2>3. 0 \in 0 .. MaxAccesses + 3
    BY SizeAssumption
  <2> QED
    BY <2>1, <2>2, <2>3, Zenon
<1>7. TypeOK
  BY <1>3, <1>4, <1>5, <1>6 DEF TypeOK, Answers
<1>8. reg["mtimecmp"] \in Register
  BY <1>3 DEF Clint
<1> QED
  BY <1>7, <1>8, OnesType DEF Typed, Init

LEMMA TypedNext == Typed /\ [Next]_vars => Typed'
<1> SUFFICES ASSUME Typed, [Next]_vars PROVE Typed'
  OBVIOUS
<1>0. MaxAccesses \in Nat /\ TypeOK
  BY SizeAssumption DEF Typed
<1>1. ASSUME guest' = guest, gpc' \in 0 .. MaxAccesses + 3, rom' = rom, mtip' = mtip,
             reg' \in [Clint -> Register],
             \A i \in WORD .. DOUBLEWORD - 1 : reg'["msip"][i] = 0,
             dram' \in [0 .. DramSize - 1 -> Byte], result' \in Answers
      PROVE  TypeOK'
  BY <1>0, <1>1 DEF TypeOK, Answers
<1>2. CASE Tick
  <2>1. PICK d \in Register : reg' = [reg EXCEPT !["mtime"] = d]
    BY <1>2, TickMoves
  <2>2. reg' \in [Clint -> Register] /\ reg'["msip"] = reg["msip"]
    BY <1>0, <2>1 DEF TypeOK, Clint
  <2>3. mtip' \in BOOLEAN
    BY <1>2 DEF Tick, increment
  <2>4. TypeOK'
    BY <1>0, <1>2, <2>2, <2>3 DEF TypeOK, Tick
  <2> QED
    BY <1>2, <2>4 DEF Typed, Tick
<1>3. ASSUME NEW r \in Regions, NEW o \in Nat, NEW n \in Sizes, Load(r, o, n), gpc' \in 0 .. MaxAccesses + 3
      PROVE  TypeOK' /\ due' = due /\ result'.data \in Register
  <2>1. result' \in Answers
    BY <1>3, ReadType DEF Load
  <2> QED
    BY <1>0, <1>1, <1>3, <2>1 DEF Load, TypeOK, Answers
<1>4. ASSUME NEW r \in Regions, NEW o \in Nat, NEW n \in Sizes, NEW val \in Register,
             Store(r, o, n, val), gpc' \in 0 .. MaxAccesses + 3
      PROVE  TypeOK' /\ got' = got
  BY <1>0, <1>1, <1>4, StoreType DEF Store
<1>5. ASSUME NEW r \in Regions, NEW o \in Offsets, NEW n \in Sizes, AnyLoad(r, o, n) PROVE Typed'
  <2>1. Load(r, o, n) /\ got' = got /\ gpc' \in 0 .. MaxAccesses + 3
    BY <1>0, <1>5 DEF AnyLoad, TypeOK
  <2> QED
    BY <1>3, <2>1, AnyType DEF Typed
<1>6. ASSUME NEW r \in Regions, NEW o \in Offsets, NEW n \in Sizes, NEW val \in Data,
             AnyStore(r, o, n, val)
      PROVE  Typed'
  <2>1. Store(r, o, n, val) /\ due' = due /\ gpc' \in 0 .. MaxAccesses + 3
    BY <1>0, <1>6 DEF AnyStore, TypeOK
  <2>2. o \in Nat /\ val \in Register
    BY AnyType
  <2> QED
    BY <1>4, <2>1, <2>2 DEF Typed
<1>7. "mtimecmp" \in Regions /\ "mtime" \in Regions /\ WORD \in Nat /\ 0 \in Nat /\ WORD \in Sizes
  BY Words, SizesAre DEF Regions, Clint
<1>8. ASSUME NEW x \in Deadlines, SetBegin(x) PROVE Typed'
  <2>1. Store("mtimecmp", 0, WORD, Ones) /\ gpc' \in 0 .. MaxAccesses + 3
    BY <1>0, <1>8 DEF SetBegin
  <2>2. TypeOK' /\ got' = got
    BY <1>4, <1>7, <2>1, OnesType
  <2>3. reg["mtimecmp"] \in Register
    BY Bytewise DEF Clint
  <2> QED
    BY <1>8, <2>2, <2>3, AnyType DEF Typed, SetBegin
<1>9. ASSUME NEW o, NEW n PROVE Slice(due.new, o, n) \in Register
  BY SliceType DEF Typed, Register
<1>10. CASE SetUpper
  <2>1. Store("mtimecmp", WORD, WORD, Slice(due.new, WORD, WORD)) /\ gpc' \in 0 .. MaxAccesses + 3
    BY <1>0, <1>10 DEF SetUpper
  <2>2. TypeOK' /\ got' = got
    BY <1>4, <1>7, <1>9, <2>1
  <2> QED
    BY <1>10, <2>2 DEF Typed, SetUpper
<1>11. CASE SetLower
  <2>1. Store("mtimecmp", 0, WORD, Slice(due.new, 0, WORD)) /\ gpc' \in 0 .. MaxAccesses + 3
    BY <1>0, <1>11 DEF SetLower
  <2>2. TypeOK' /\ got' = got
    BY <1>4, <1>7, <1>9, <2>1
  <2> QED
    BY <1>11, <2>2 DEF Typed, SetLower
<1>12. CASE GetUpper
  <2>1. Load("mtime", WORD, WORD) /\ gpc' \in 0 .. MaxAccesses + 3
    BY <1>0, <1>12 DEF GetUpper
  <2>2. TypeOK' /\ due' = due /\ result'.data \in Register
    BY <1>3, <1>7, <2>1
  <2> QED
    BY <1>12, <2>2, OnesType DEF Typed, GetUpper
<1>13. CASE GetLower
  <2>1. Load("mtime", 0, WORD) /\ gpc' \in 0 .. MaxAccesses + 3
    BY <1>0, <1>13 DEF GetLower
  <2>2. TypeOK' /\ due' = due /\ result'.data \in Register
    BY <1>3, <1>7, <2>1
  <2> QED
    BY <1>13, <2>2 DEF Typed, GetLower
<1>14. CASE GetAgain
  <2>1. Load("mtime", WORD, WORD) /\ gpc' \in 0 .. MaxAccesses + 3
    BY <1>0, <1>14 DEF GetAgain
  <2>2. TypeOK' /\ due' = due /\ result'.data \in Register
    BY <1>3, <1>7, <2>1
  <2> QED
    BY <1>14, <2>2 DEF Typed, GetAgain
<1>15. CASE UNCHANGED vars
  BY <1>15 DEF Typed, TypeOK, vars
<1> QED
  BY <1>2, <1>5, <1>6, <1>8, <1>10, <1>11, <1>12, <1>13, <1>14, <1>15 DEF Next

\* The registers keep their width, also msip with its four bytes, the memory its
\* bytes and the ROM what it was built with, whatever the guest stores at
\* whatever offset (Bus, Clint, Dram and Rom).
THEOREM TypeCorrect == Spec => []TypeOK
<1>1. Typed => TypeOK
  BY DEF Typed
<1> QED
  BY <1>1, TypedInit, TypedNext, PTL DEF Spec

----------------------------------------------------------------------------
(* The guest that moves the deadline.                                      *)

\* Where mtimecmp is on its way from the old deadline to the new one.
Moving ==
  guest = "set" =>
    LET cmp == reg["mtimecmp"]
    IN  /\ gpc \in 0 .. 2
        /\ gpc = 0 => cmp = due.new
        /\ gpc \in {1, 2} => \A i \in 0 .. WORD - 1 : cmp[i] = 1
        /\ gpc = 1 => \A i \in WORD .. DOUBLEWORD - 1 : cmp[i] = due.old[i]
        /\ gpc = 2 => \A i \in WORD .. DOUBLEWORD - 1 : cmp[i] = due.new[i]

\* The store of a word replaces that word of mtimecmp.
LEMMA SetWord ==
  ASSUME Typed, NEW h \in {0, WORD}, NEW val \in Register, Store("mtimecmp", h, WORD, val)
  PROVE  /\ \A i \in 0 .. WORD - 1 :
              reg'["mtimecmp"][i] = IF h = 0 THEN val[i] ELSE reg["mtimecmp"][i]
         /\ \A i \in WORD .. DOUBLEWORD - 1 :
              reg'["mtimecmp"][i] = IF h = 0 THEN reg["mtimecmp"][i] ELSE val[i - WORD]
<1> DEFINE cmp == reg["mtimecmp"]
<1>1. WORD # DOUBLEWORD /\ ~ShiftPanics(h, WORD) /\ Shift(h) = h
  BY Words DEF ShiftPanics, Shift
<1>2. "mtimecmp" \in Clint
  BY DEF Clint
<1>3. result'.is = "done"
  BY <1>1, <1>2, BusWrites DEF Store, Answer
<1>4. clint_write("mtimecmp", h, WORD, val) = Patched(cmp, h, WORD, val)
  BY <1>1, <1>2, Words, SizesAre, ClintWriteIs DEF Kept
<1>5. reg'["mtimecmp"] = Patched(cmp, h, WORD, val)
  BY <1>2, <1>3, <1>4 DEF Store, Typed, TypeOK
<1>6. DOMAIN cmp = 0 .. DOUBLEWORD - 1
  BY <1>2, Bytewise DEF Register
<1> HIDE DEF cmp
<1>7. ASSUME NEW i \in 0 .. DOUBLEWORD - 1
      PROVE  reg'["mtimecmp"][i] = IF i - h \in 0 .. WORD - 1 THEN val[i - h] ELSE cmp[i]
  BY <1>5, <1>6 DEF Patched
<1>8. ASSUME NEW i \in 0 .. WORD - 1
      PROVE  i \in 0 .. DOUBLEWORD - 1 /\ (i - h \in 0 .. WORD - 1 <=> h = 0) /\ i - 0 = i
  BY Words
<1>9. ASSUME NEW i \in WORD .. DOUBLEWORD - 1
      PROVE  i \in 0 .. DOUBLEWORD - 1 /\ (i - h \in 0 .. WORD - 1 <=> h # 0)
  BY Words
<1>10. ASSUME NEW i \in 0 .. WORD - 1
       PROVE  reg'["mtimecmp"][i] = IF h = 0 THEN val[i] ELSE cmp[i]
  BY <1>7, <1>8
<1>11. ASSUME NEW i \in WORD .. DOUBLEWORD - 1
       PROVE  reg'["mtimecmp"][i] = IF h = 0 THEN cmp[i] ELSE val[i - WORD]
  BY <1>7, <1>9
<1> QED
  BY <1>10, <1>11 DEF cmp

LEMMA MovingInit == Init => Moving
<1> SUFFICES ASSUME Init PROVE Moving
  OBVIOUS
<1>1. gpc = 0 /\ due = [old |-> reg["mtimecmp"], new |-> reg["mtimecmp"]]
  BY Zenon DEF Init
<1> QED
  BY <1>1 DEF Moving

LEMMA MovingNext == Typed /\ Moving /\ [Next]_vars => Moving'
<1> SUFFICES ASSUME Typed, Moving, [Next]_vars, guest' = "set" PROVE Moving'
  BY DEF Moving
<1>0. guest = "set"
  BY DEF Next, vars, Tick, AnyLoad, AnyStore, SetBegin, SetUpper, SetLower, GetUpper, GetLower,
         GetAgain, Load, Store
<1>1. ASSUME UNCHANGED <<guest, gpc, due>>, reg'["mtimecmp"] = reg["mtimecmp"] PROVE Moving'
  BY <1>1 DEF Moving
<1>2. CASE Tick
  <2>1. reg'["mtimecmp"] = reg["mtimecmp"]
    BY <1>2 DEF Tick, increment, Typed, TypeOK, Clint
  <2> QED
    BY <1>1, <1>2, <2>1 DEF Tick
<1>3. ASSUME NEW x \in Deadlines, SetBegin(x) PROVE Moving'
  <2>1. Store("mtimecmp", 0, WORD, Ones) /\ gpc' = 1 /\ due'.old = reg["mtimecmp"]
    BY <1>3 DEF SetBegin
  <2>2. /\ \A i \in 0 .. WORD - 1 : reg'["mtimecmp"][i] = 1
        /\ \A i \in WORD .. DOUBLEWORD - 1 : reg'["mtimecmp"][i] = reg["mtimecmp"][i]
    <3>1. \A i \in 0 .. WORD - 1 : Ones[i] = 1
      BY Words DEF Ones
    <3> QED
      BY <2>1, <3>1, SetWord, OnesType
  <2> QED
    BY <2>1, <2>2 DEF Moving
<1>4. due.new \in Register /\ \A o, n : Slice(due.new, o, n) \in Register
  BY SliceType DEF Typed, Register
<1>5. DOMAIN due.new = 0 .. DOUBLEWORD - 1
  BY <1>4 DEF Register
<1>6. CASE SetUpper
  <2>1. /\ Store("mtimecmp", WORD, WORD, Slice(due.new, WORD, WORD))
        /\ gpc = 1 /\ gpc' = 2 /\ due' = due
    BY <1>6 DEF SetUpper
  <2>2. /\ \A i \in 0 .. WORD - 1 : reg'["mtimecmp"][i] = reg["mtimecmp"][i]
        /\ \A i \in WORD .. DOUBLEWORD - 1 :
             reg'["mtimecmp"][i] = Slice(due.new, WORD, WORD)[i - WORD]
    BY <1>4, <2>1, SetWord, Words
  <2>3. \A i \in WORD .. DOUBLEWORD - 1 : Slice(due.new, WORD, WORD)[i - WORD] = due.new[i]
    BY <1>5, Words DEF Slice
  <2> QED
    BY <1>0, <2>1, <2>2, <2>3 DEF Moving
<1>7. CASE SetLower
  <2>1. /\ Store("mtimecmp", 0, WORD, Slice(due.new, 0, WORD))
        /\ gpc = 2 /\ gpc' = 0 /\ due'.new = due.new
    BY <1>7 DEF SetLower, Typed
  <2>2. /\ \A i \in 0 .. WORD - 1 : reg'["mtimecmp"][i] = Slice(due.new, 0, WORD)[i]
        /\ \A i \in WORD .. DOUBLEWORD - 1 : reg'["mtimecmp"][i] = reg["mtimecmp"][i]
    BY <1>4, <2>1, SetWord
  <2>3. \A i \in 0 .. WORD - 1 : Slice(due.new, 0, WORD)[i] = due.new[i]
    BY <1>5, Words DEF Slice
  <2>4. \A i \in WORD .. DOUBLEWORD - 1 : reg["mtimecmp"][i] = due.new[i]
    BY <1>0, <2>1 DEF Moving
  <2>5. \A i \in 0 .. DOUBLEWORD - 1 : reg'["mtimecmp"][i] = due.new[i]
    BY <2>2, <2>3, <2>4, Words
  <2>6. reg'["mtimecmp"] \in Register
    BY <2>1, <1>4, StoreType, SizesAre DEF Regions, Clint
  <2>7. reg'["mtimecmp"] = due.new
    BY <1>4, <2>5, <2>6, SameRegister
  <2> QED
    BY <2>1, <2>7 DEF Moving
<1>8. CASE UNCHANGED vars
  BY <1>1, <1>8 DEF vars
<1> QED
  BY <1>0, <1>2, <1>3, <1>6, <1>7, <1>8
  DEF Next, AnyLoad, AnyStore, GetUpper, GetLower, GetAgain

\* While a guest moves its deadline in three stores, the clock posts no timer
\* interrupt before the old deadline and before the new one, and afterwards posts
\* it from the new one on, for registers of any width (Clint::write and
\* Clint::increment).
THEOREM TimerDue == Spec => TimerIsDue
<1> DEFINE P == guest = "set" /\ Tick =>
                  LET now == Number(reg'["mtime"])
                  IN  /\ mtip' => now >= Number(due.old) \/ now >= Number(due.new)
                      /\ gpc = 0 /\ now >= Number(due.new) => mtip'
<1>1. Typed /\ Moving => P
  <2> SUFFICES ASSUME Typed, Moving, guest = "set", Tick PROVE P
    OBVIOUS
  <2> DEFINE cmp == reg["mtimecmp"]
             now == (Number(reg["mtime"]) + 1) % Modulus
  <2>1. /\ now \in 0 .. Modulus - 1 /\ Number(reg'["mtime"]) = now
        /\ mtip' = (now >= Number(cmp))
    BY TickMoves DEF Typed, TypeOK, Clint
  <2> HIDE DEF now
  <2>2. cmp \in Register /\ due.old \in Register /\ due.new \in Register
    BY Bytewise DEF Clint, Typed
  <2>3. Number(cmp) \in Int /\ Number(due.old) \in Int /\ Number(due.new) \in Int /\ now \in Int
    BY <2>1, <2>2, NumberType, Words, Powers DEF Modulus
  <2>4. CASE gpc = 0
    BY <2>1, <2>4 DEF Moving
  <2>5. CASE gpc \in {1, 2}
    <3> DEFINE low == IF gpc = 1 THEN due.old ELSE due.new
    <3>1. low \in Register
      BY <2>2
    <3>2. \A i \in 0 .. DOUBLEWORD - 1 : low[i] \in {0, 1}
      BY <3>1 DEF Register, Byte
    <3>3. ASSUME NEW i \in 0 .. DOUBLEWORD - 1 PROVE low[i] <= cmp[i]
      <4>1. CASE i \in 0 .. WORD - 1
        <5>1. cmp[i] = 1
          BY <2>5, <4>1 DEF Moving
        <5> QED
          BY <3>2, <5>1
      <4>2. CASE i \in WORD .. DOUBLEWORD - 1
        <5>1. cmp[i] = low[i]
          BY <2>5, <4>2 DEF Moving
        <5> QED
          BY <3>2, <5>1
      <4> QED
        BY <4>1, <4>2, Words
    <3>4. Number(low) <= Number(cmp)
      BY <2>2, <3>1, <3>3, NumberMonotone
    <3>5. Number(due.old) <= Number(cmp) \/ Number(due.new) <= Number(cmp)
      BY <3>4
    <3>6. mtip' => now >= Number(due.old) \/ now >= Number(due.new)
      <4>1. mtip' => now >= Number(cmp)
        BY <2>1, Zenon
      <4>2. now >= Number(cmp) => now >= Number(due.old) \/ now >= Number(due.new)
        BY <2>3, <3>5
      <4> QED
        BY <4>1, <4>2, Zenon
    <3>7. gpc # 0
      BY <2>5
    <3> QED
      BY <2>1, <3>6, <3>7
  <2> QED
    BY <2>4, <2>5 DEF Moving
<1>2. Typed /\ Moving /\ [Next]_vars => [P]_vars
  BY <1>1
<1> QED
  BY <1>2, TypedInit, TypedNext, MovingInit, MovingNext, PTL DEF Spec, TimerIsDue

----------------------------------------------------------------------------
(* The guest that reads the clock.                                         *)

\* The clock j ticks after it held a.
At(a, j) == Digits((a + j) % Modulus)

\* Since it held a, the clock has ticked k times, and seen are its values.
Ran(a, k) ==
  /\ k <= MaxTicks
  /\ seen = {At(a, j) : j \in 0 .. k}
  /\ IsFiniteSet(seen) /\ Cardinality(seen) = k + 1
  /\ reg["mtime"] = At(a, k)

\* The words read are those of values that the clock has had: the upper one
\* before the lower one.
Reading ==
  guest = "get" =>
    /\ gpc \in 0 .. 3
    /\ gpc \in {1, 2} =>
         \E a \in 0 .. Modulus - 1, k \in Nat :
           /\ Ran(a, k)
           /\ got.upper = Slice(At(a, 0), WORD, WORD)
           /\ gpc = 2 => \E j \in 0 .. k : got.lower = Slice(At(a, j), 0, WORD)
    /\ TimeIsWhole

\* The numbers that the clock counts through, and how far the guest lets it run.
LEMMA Horizon ==
  /\ Modulus \in Nat \ {0} /\ TwoTo[WORD] \in Nat \ {0}
  /\ MaxTicks \in Nat \ {0} /\ MaxTicks <= Modulus - TwoTo[WORD]
<1>1. Modulus \in Nat \ {0} /\ TwoTo[WORD] \in Nat \ {0}
  BY Words, Powers DEF Modulus
<1> QED
  BY <1>1, SizeAssumption

\* The clock comes round at most once in that time.
LEMMA Wraps ==
  ASSUME NEW a \in 0 .. Modulus - 1, NEW j \in 0 .. Modulus
  PROVE  /\ (a + j) % Modulus = IF a + j < Modulus THEN a + j ELSE a + j - Modulus
         /\ (a + j) % Modulus \in 0 .. Modulus - 1
<1> DEFINE M == Modulus
           t == a + j
           q == IF t < M THEN 0 ELSE 1
           r == IF t < M THEN t ELSE t - M
<1>1. M \in Nat \ {0} /\ t \in 0 .. 2 * M - 1
  BY Horizon
<1>2. q \in Nat /\ r \in 0 .. M - 1 /\ t = M * q + r
  <2> HIDE DEF M, t
  <2> QED
    BY <1>1
<1>3. (M * q + r) % M = r
  <2> HIDE DEF M, q, r
  <2> QED
    BY <1>1, <1>2, Division
<1>4. t % M = r /\ r \in 0 .. M - 1
  BY <1>2, <1>3, Zenon
<1>5. CASE t < M
  BY <1>1, <1>4, <1>5
<1>6. CASE ~(t < M)
  BY <1>1, <1>4, <1>6
<1> QED
  BY <1>5, <1>6

LEMMA AtType ==
  ASSUME NEW a \in 0 .. Modulus - 1, NEW j \in Nat, j <= MaxTicks
  PROVE  /\ (a + j) % Modulus \in 0 .. Modulus - 1
         /\ At(a, j) \in Register /\ Number(At(a, j)) = (a + j) % Modulus
<1>1. j \in 0 .. Modulus
  BY Horizon
<1>2. (a + j) % Modulus \in 0 .. Modulus - 1 /\ (a + j) % Modulus \in Nat
  BY <1>1, Wraps, Horizon
<1> QED
  BY <1>2, DigitsType, NumberDigits DEF At

LEMMA AtZero ==
  ASSUME NEW a \in 0 .. Modulus - 1
  PROVE  (a + 0) % Modulus = a /\ At(a, 0) = Digits(a)
<1>1. 0 \in 0 .. Modulus /\ a + 0 = a /\ a < Modulus /\ a \in Nat
  BY Horizon
<1>2. (a + 0) % Modulus = IF a + 0 < Modulus THEN a + 0 ELSE a + 0 - Modulus
  BY <1>1, Wraps, Zenon
<1> QED
  BY <1>1, <1>2 DEF At

\* The next tick, to a value not seen before.
LEMMA AtNext ==
  ASSUME NEW a \in 0 .. Modulus - 1, NEW k \in Nat, k + 1 <= MaxTicks
  PROVE  /\ Digits((Number(At(a, k)) + 1) % Modulus) = At(a, k + 1)
         /\ \A j \in 0 .. k : At(a, j) # At(a, k + 1)
<1> DEFINE M == Modulus
<1>0. M \in Nat \ {0} /\ MaxTicks \in Nat /\ MaxTicks < M
  BY Horizon
<1>1. /\ Number(At(a, k)) = (a + k) % M
      /\ Number(At(a, k + 1)) = (a + (k + 1)) % M
      /\ \A j \in 0 .. k : Number(At(a, j)) = (a + j) % M
  BY <1>0, AtType
<1>2. \A j \in 0 .. k + 1 : (a + j) % M = IF a + j < M THEN a + j ELSE a + j - M
  <2> TAKE j \in 0 .. k + 1
  <2>1. j \in 0 .. M
    BY <1>0
  <2> QED
    BY <2>1, Wraps
<1>3. (((a + k) % M) + 1) % M = (a + (k + 1)) % M
  <2>1. (a + k) % M = IF a + k < M THEN a + k ELSE a + k - M
    BY <1>2
  <2>2. (a + (k + 1)) % M = IF a + (k + 1) < M THEN a + (k + 1) ELSE a + (k + 1) - M
    BY <1>2
  <2> DEFINE t == (a + k) % M
  <2>3. t \in 0 .. M - 1 /\ 1 \in 0 .. M /\ (t = a + k \/ (t = a + k - M /\ t + 1 < M))
    BY <1>0, <2>1
  <2>4. (t + 1) % M = IF t + 1 < M THEN t + 1 ELSE t + 1 - M
    BY <2>3, Wraps
  <2> HIDE DEF t
  <2>5. (t + 1) % M = (a + (k + 1)) % M
    BY <1>0, <2>2, <2>3, <2>4
  <2> QED
    BY <2>5 DEF t
<1>4. ASSUME NEW j \in 0 .. k PROVE (a + j) % M # (a + (k + 1)) % M
  <2>1. (a + j) % M = IF a + j < M THEN a + j ELSE a + j - M
    BY <1>2
  <2>2. (a + (k + 1)) % M = IF a + (k + 1) < M THEN a + (k + 1) ELSE a + (k + 1) - M
    BY <1>2
  <2> QED
    BY <1>0, <2>1, <2>2
<1> QED
  BY <1>1, <1>3, <1>4 DEF At

\* If the clock is in the block of p numbers in which it was, and has not had the
\* time to leave it and come round, it has been in it all the time.
LEMMA SameBlock ==
  ASSUME NEW p \in Nat \ {0}, NEW a \in 0 .. Modulus - 1, NEW k \in Nat, k <= Modulus - p,
         NEW j \in 0 .. k,
         ((a + k) % Modulus) - (((a + k) % Modulus) % p) = a - (a % p)
  PROVE  ((a + j) % Modulus) - (((a + j) % Modulus) % p) = a - (a % p)
<1> DEFINE M == Modulus
           t == (a + j) % M
           u == (a + k) % M
<1>0. /\ t = (IF a + j < M THEN a + j ELSE a + j - M)
      /\ u = (IF a + k < M THEN a + k ELSE a + k - M)
      /\ t \in 0 .. M - 1 /\ u \in 0 .. M - 1 /\ u - (u % p) = a - (a % p)
      /\ M \in Nat
  <2>1. j \in 0 .. M /\ k \in 0 .. M
    BY Horizon
  <2> QED
    BY <2>1, Wraps, Horizon
<1> SUFFICES t - (t % p) = a - (a % p)
  OBVIOUS
<1> HIDE DEF t, u
<1> DEFINE q == a \div p
           r == a % p
           v == u % p
           b == p * q
<1>1. q \in Nat /\ r \in 0 .. p - 1 /\ v \in 0 .. p - 1 /\ a = p * q + r
  <2>1. a \in Nat /\ u \in Nat
    BY <1>0
  <2> QED
    BY <2>1, Divided
<1>2. b \in Nat /\ a = b + r /\ u = b + v
  <2>1. u - v = a - r /\ u \in Nat
    BY <1>0
  <2> HIDE DEF q, r, v
  <2> QED
    BY <1>1, <2>1
<1> HIDE DEF q, r, v
<1>3. t - b \in 0 .. p - 1
  <2> HIDE DEF b, M
  <2> QED
    BY <1>0, <1>1, <1>2 DEF M
<1> DEFINE d == t - b
<1>4. t = p * q + d /\ t \in Nat
  BY <1>0, <1>1, <1>2
<1> HIDE DEF d
<1>5. t % p = d
  <2>1. (p * q + d) % p = d
    BY <1>1, <1>3, Division DEF d
  <2> QED
    BY <1>4, <2>1, Zenon
<1> HIDE DEF b
<1>6. t - (t % p) = b
  BY <1>2, <1>4, <1>5 DEF d
<1>7. a - r = b
  BY <1>1, <1>2
<1> QED
  BY <1>6, <1>7 DEF r

\* The two words that agree with an upper word read before and after are those of
\* one value.
LEMMA WordsOfOne ==
  ASSUME NEW a \in 0 .. Modulus - 1, NEW k \in Nat, k <= MaxTicks, NEW j \in 0 .. k,
         Slice(At(a, k), WORD, WORD) = Slice(At(a, 0), WORD, WORD),
         NEW y \in Register,
         \A i \in 0 .. WORD - 1 : y[i] = At(a, j)[i],
         \A i \in WORD .. DOUBLEWORD - 1 : y[i] = At(a, 0)[i]
  PROVE  y = At(a, j)
<1> DEFINE M == Modulus
           p == TwoTo[WORD]
           t == (a + j) % M
           u == (a + k) % M
<1>0. M \in Nat \ {0} /\ p \in Nat \ {0} /\ k <= M - p /\ j \in Nat /\ j <= MaxTicks /\ 0 <= MaxTicks
      /\ MaxTicks <= M
  BY Horizon
<1>1. a \in Nat /\ (a + 0) % M = a
  BY <1>0, AtZero
<1>2. /\ At(a, 0) \in Register /\ Number(At(a, 0)) = a
      /\ At(a, j) \in Register /\ Number(At(a, j)) = t
      /\ At(a, k) \in Register /\ Number(At(a, k)) = u
      /\ t \in 0 .. M - 1 /\ u \in 0 .. M - 1
  BY <1>0, <1>1, AtType
<1>3. Sums(At(a, 0))[WORD] = a % p /\ Sums(At(a, j))[WORD] = t % p /\ Sums(At(a, k))[WORD] = u % p
  <2>1. WORD \in 0 .. DOUBLEWORD
    BY Words
  <2>2. (a + 0) % M \in Nat /\ t \in Nat /\ u \in Nat
    BY <1>0, <1>1, <1>2
  <2> HIDE DEF t, u
  <2>3. At(a, 0) = Digits(a) /\ At(a, j) = Digits(t) /\ At(a, k) = Digits(u)
    BY <1>1 DEF At, t, u
  <2> QED
    BY <1>1, <2>1, <2>2, <2>3, DigitsSums
<1> HIDE DEF t, u
<1>4. ASSUME NEW x \in Register, NEW z \in Register, \A i \in WORD .. DOUBLEWORD - 1 : x[i] = z[i]
      PROVE  Number(x) - Sums(x)[WORD] = Number(z) - Sums(z)[WORD]
  <2>1. WORD \in 0 .. DOUBLEWORD /\ DOUBLEWORD \in 0 .. DOUBLEWORD /\ WORD <= DOUBLEWORD
    BY Words
  <2> QED
    BY <1>4, <2>1, SameDigits DEF Number
<1>5. \A i \in WORD .. DOUBLEWORD - 1 : At(a, k)[i] = At(a, 0)[i]
  <2>1. ASSUME NEW x \in Register, NEW i \in WORD .. DOUBLEWORD - 1
        PROVE  Slice(x, WORD, WORD)[i - WORD] = x[i]
    <3>1. i - WORD \in 0 .. DOUBLEWORD - 1 /\ i - WORD < WORD /\ WORD + (i - WORD) = i
          /\ i \in 0 .. DOUBLEWORD - 1
      BY Words
    <3>2. DOMAIN x = 0 .. DOUBLEWORD - 1
      BY DEF Register
    <3> QED
      BY <3>1, <3>2 DEF Slice
  <2> QED
    BY <1>2, <2>1
<1>6. u - (u % p) = a - (a % p)
  BY <1>2, <1>3, <1>4, <1>5
<1>7. t - (t % p) = a - (a % p)
  BY <1>0, <1>6, SameBlock DEF t, u
<1>8. Number(y) - Sums(y)[WORD] = a - (a % p)
  BY <1>2, <1>3, <1>4
<1>9. Sums(y)[WORD] = t % p
  <2>1. 0 \in 0 .. DOUBLEWORD /\ WORD \in 0 .. DOUBLEWORD /\ 0 <= WORD
    BY Words
  <2>2. Sums(y)[WORD] - Sums(y)[0] = Sums(At(a, j))[WORD] - Sums(At(a, j))[0]
    BY <1>2, <2>1, SameDigits
  <2>3. Sums(y)[0] = 0 /\ Sums(At(a, j))[0] = 0
    BY <1>2, SumsAdd
  <2>4. Sums(y)[WORD] \in Nat /\ Sums(At(a, j))[WORD] \in Nat
    BY <1>2, <2>1, SumsBound
  <2> QED
    BY <1>3, <2>2, <2>3, <2>4
<1>10. Number(y) = t
  <2>1. Number(y) \in Int /\ t \in Int /\ t % p \in Int /\ a % p \in Int
    <3>1. Number(y) \in Int /\ t \in Nat
      BY <1>0, <1>2, NumberType
    <3>2. t % p \in Int /\ a % p \in Int
      BY <1>0, <1>1, <3>1
    <3> QED
      BY <3>1, <3>2
  <2> QED
    BY <1>7, <1>8, <1>9, <2>1
<1> QED
  BY <1>10, DigitsNumber DEF At, t

\* The load of a word reads that word of mtime.
LEMMA GetWord ==
  ASSUME Typed, NEW h \in {0, WORD}, Load("mtime", h, WORD)
  PROVE  result'.data = Slice(reg["mtime"], h, WORD) /\ reg' = reg /\ guest' = guest
<1>1. WORD # DOUBLEWORD /\ ~ShiftPanics(h, WORD) /\ Shift(h) = h
  BY Words DEF ShiftPanics, Shift
<1>2. "mtime" \in Clint
  BY DEF Clint
<1>3. h \in Nat /\ WORD \in Sizes
  BY Words, SizesAre
<1>4. result' = clint_read("mtime", h, WORD)
  BY <1>2, BusReads DEF Load
<1>5. result' = Ok(Slice(reg["mtime"], h, WORD))
  BY <1>1, <1>2, <1>3, <1>4, ClintReadIs
<1> QED
  BY <1>5 DEF Load, Ok

\* The clock's run begins where it is.
LEMMA RanStart ==
  ASSUME Typed, seen' = {reg["mtime"]}, reg' = reg
  PROVE  \E a \in 0 .. Modulus - 1 : Ran(a, 0)' /\ At(a, 0) = reg["mtime"]
<1>1. PICK a \in 0 .. Modulus - 1 : At(a, 0) = reg["mtime"]
  <2>1. reg["mtime"] \in Register
    BY Bytewise DEF Clint
  <2> QED
    BY <2>1, NumberType, AtZero, DigitsNumber
<1>2. seen' = {At(a, j) : j \in 0 .. 0}
  <2>1. \A j \in 0 .. 0 : j = 0
    OBVIOUS
  <2> QED
    BY <1>1, <2>1
<1>3. IsFiniteSet(seen') /\ Cardinality(seen') = 0 + 1
  <2>1. IsFiniteSet({At(a, 0)}) /\ Cardinality({At(a, 0)}) = 1
    BY FS_Singleton
  <2>2. seen' = {At(a, 0)} /\ 0 + 1 = 1
    BY <1>1
  <2> QED
    BY <2>1, <2>2, Zenon
<1>4. 0 <= MaxTicks /\ reg'["mtime"] = At(a, 0)
  BY <1>1, Horizon
<1>5. Ran(a, 0)'
  BY <1>2, <1>3, <1>4 DEF Ran
<1> QED
  BY <1>1, <1>5

\* A tick of the clock goes on with it.
LEMMA RanTick ==
  ASSUME Typed, guest = "get", Tick, NEW a \in 0 .. Modulus - 1, NEW k \in Nat, Ran(a, k)
  PROVE  Ran(a, k + 1)'
<1>1. k + 1 <= MaxTicks
  BY DEF Tick, Ran
<1> DEFINE new == At(a, k + 1)
<1>2. reg'["mtime"] = new /\ seen' = seen \cup {new}
  <2>1. reg' = [reg EXCEPT !["mtime"] = Digits((Number(At(a, k)) + 1) % Modulus)]
    BY TickMoves DEF Ran
  <2>2. reg'["mtime"] = new
    BY <1>1, <2>1, AtNext DEF Typed, TypeOK, Clint
  <2> QED
    BY <2>2 DEF Tick
<1>3. new \notin seen
  BY <1>1, AtNext DEF Ran
<1>4. seen = {At(a, j) : j \in 0 .. k} /\ IsFiniteSet(seen) /\ Cardinality(seen) = k + 1
  BY DEF Ran
<1>5. IsFiniteSet(seen') /\ Cardinality(seen') = (k + 1) + 1
  BY <1>2, <1>3, <1>4, FS_AddElement
<1>6. seen' = {At(a, j) : j \in 0 .. k + 1}
  <2>1. 0 .. k + 1 = (0 .. k) \cup {k + 1}
    OBVIOUS
  <2>2. {At(a, j) : j \in (0 .. k) \cup {k + 1}} = {At(a, j) : j \in 0 .. k} \cup {new}
    OBVIOUS
  <2> QED
    BY <1>2, <1>4, <2>1, <2>2
<1> QED
  BY <1>1, <1>2, <1>5, <1>6 DEF Ran

LEMMA ReadingInit == Init => Reading
<1> SUFFICES ASSUME Init PROVE Reading
  OBVIOUS
<1>1. gpc = 0
  BY Zenon DEF Init
<1> QED
  BY <1>1 DEF Reading, TimeIsWhole

LEMMA ReadingNext == Typed /\ Reading /\ [Next]_vars => Reading'
<1> SUFFICES ASSUME Typed, Reading, [Next]_vars, guest' = "get" PROVE Reading'
  BY DEF Reading
<1>0. guest = "get"
  BY DEF Next, vars, Tick, AnyLoad, AnyStore, SetBegin, SetUpper, SetLower, GetUpper, GetLower,
         GetAgain, Load, Store
<1>1. ASSUME gpc' \in {1, 2}, NEW a \in 0 .. Modulus - 1, NEW k \in Nat, Ran(a, k)',
             got'.upper = Slice(At(a, 0), WORD, WORD),
             gpc' = 2 => \E j \in 0 .. k : got'.lower = Slice(At(a, j), 0, WORD)
      PROVE  Reading'
  BY <1>1 DEF Reading, TimeIsWhole
<1>2. CASE Tick
  <2>1. UNCHANGED <<guest, gpc, got>> /\ seen \subseteq seen'
    BY <1>0, <1>2 DEF Tick
  <2>2. CASE gpc \in {1, 2}
    <3>1. PICK a \in 0 .. Modulus - 1, k \in Nat :
            /\ Ran(a, k)
            /\ got.upper = Slice(At(a, 0), WORD, WORD)
            /\ gpc = 2 => \E j \in 0 .. k : got.lower = Slice(At(a, j), 0, WORD)
      BY <1>0, <2>2 DEF Reading
    <3>2. Ran(a, k + 1)' /\ k + 1 \in Nat
      BY <1>0, <1>2, <3>1, RanTick
    <3>3. gpc' = 2 => \E j \in 0 .. k + 1 : got'.lower = Slice(At(a, j), 0, WORD)
      BY <2>1, <3>1
    <3> QED
      BY <1>1, <2>1, <2>2, <3>1, <3>2, <3>3
  <2>3. CASE gpc \notin {1, 2}
    BY <2>1, <2>3 DEF Reading, TimeIsWhole
  <2> QED
    BY <2>2, <2>3
<1>3. CASE GetUpper
  <2>1. /\ Load("mtime", WORD, WORD) /\ gpc' = 1
        /\ got'.upper = result'.data /\ seen' = {reg["mtime"]}
    BY <1>3 DEF GetUpper
  <2>2. result'.data = Slice(reg["mtime"], WORD, WORD) /\ reg' = reg
    BY <2>1, GetWord
  <2>3. PICK a \in 0 .. Modulus - 1 : Ran(a, 0)' /\ At(a, 0) = reg["mtime"]
    BY <2>1, <2>2, RanStart
  <2>4. 0 \in Nat /\ gpc' \in {1, 2} /\ gpc' # 2
    BY <2>1
  <2> QED
    BY <1>1, <2>1, <2>2, <2>3, <2>4
<1>4. CASE GetLower
  <2>1. /\ Load("mtime", 0, WORD) /\ gpc = 1 /\ gpc' = 2 /\ seen' = seen
        /\ got'.upper = got.upper /\ got'.lower = result'.data
    BY <1>4 DEF GetLower, Typed
  <2>2. result'.data = Slice(reg["mtime"], 0, WORD) /\ reg' = reg
    BY <2>1, GetWord
  <2>3. PICK a \in 0 .. Modulus - 1, k \in Nat :
          Ran(a, k) /\ got.upper = Slice(At(a, 0), WORD, WORD)
    BY <1>0, <2>1 DEF Reading
  <2>4. Ran(a, k)' /\ got'.lower = Slice(At(a, k), 0, WORD)
    BY <2>1, <2>2, <2>3 DEF Ran
  <2>5. k \in 0 .. k
    OBVIOUS
  <2> QED
    BY <1>1, <2>1, <2>3, <2>4, <2>5
<1>5. CASE GetAgain
  <2>1. Load("mtime", WORD, WORD) /\ gpc = 2
    BY <1>5 DEF GetAgain
  <2>2. result'.data = Slice(reg["mtime"], WORD, WORD) /\ reg' = reg
    BY <2>1, GetWord
  <2>3. CASE result'.data # got.upper
    <3>1. gpc' = 1 /\ got'.upper = result'.data /\ seen' = {reg["mtime"]}
      BY <1>5, <2>3 DEF GetAgain, Typed
    <3>2. PICK a \in 0 .. Modulus - 1 : Ran(a, 0)' /\ At(a, 0) = reg["mtime"]
      BY <2>2, <3>1, RanStart
    <3>3. 0 \in Nat /\ gpc' \in {1, 2} /\ gpc' # 2
      BY <3>1
    <3> QED
      BY <1>1, <2>2, <3>1, <3>2, <3>3
  <2>4. CASE result'.data = got.upper
    <3>1. gpc' = 3 /\ got' = got /\ seen' = seen
      BY <1>5, <2>4 DEF GetAgain
    <3>2. PICK a \in 0 .. Modulus - 1, k \in Nat :
            /\ Ran(a, k)
            /\ got.upper = Slice(At(a, 0), WORD, WORD)
            /\ \E j \in 0 .. k : got.lower = Slice(At(a, j), 0, WORD)
      BY <1>0, <2>1 DEF Reading
    <3>3. PICK j \in 0 .. k : got.lower = Slice(At(a, j), 0, WORD)
      BY <3>2
    <3> DEFINE y == [i \in 0 .. DOUBLEWORD - 1 |->
                       IF i < WORD THEN got.lower[i] ELSE got.upper[i - WORD]]
    <3>4. y = At(a, j)
      <4>1. k <= MaxTicks /\ Slice(At(a, k), WORD, WORD) = Slice(At(a, 0), WORD, WORD)
        BY <2>2, <2>4, <3>2 DEF Ran
      <4>2. j \in Nat /\ j <= MaxTicks /\ 0 <= MaxTicks
        BY <4>1, Horizon
      <4>3. At(a, j) \in Register /\ At(a, 0) \in Register
        BY <4>2, AtType
      <4>4. ASSUME NEW i \in 0 .. WORD - 1 PROVE y[i] = At(a, j)[i]
        <5>1. i \in 0 .. DOUBLEWORD - 1 /\ i < WORD /\ 0 + i = i
          BY Words
        <5>2. Slice(At(a, j), 0, WORD)[i] = At(a, j)[i]
          BY <4>3, <5>1 DEF Slice, Register
        <5> QED
          BY <3>3, <5>1, <5>2
      <4>5. ASSUME NEW i \in WORD .. DOUBLEWORD - 1 PROVE y[i] = At(a, 0)[i]
        <5>1. /\ i \in 0 .. DOUBLEWORD - 1 /\ ~(i < WORD) /\ i - WORD \in 0 .. DOUBLEWORD - 1
              /\ i - WORD < WORD /\ WORD + (i - WORD) = i
          BY Words
        <5>2. Slice(At(a, 0), WORD, WORD)[i - WORD] = At(a, 0)[i]
          BY <4>3, <5>1 DEF Slice, Register
        <5> QED
          BY <3>2, <5>1, <5>2
      <4>6. y \in Register
        <5>1. ASSUME NEW i \in 0 .. DOUBLEWORD - 1 PROVE y[i] \in Byte
          <6>1. At(a, j)[i] \in Byte /\ At(a, 0)[i] \in Byte
            BY <4>3 DEF Register
          <6>2. i \in 0 .. WORD - 1 \/ i \in WORD .. DOUBLEWORD - 1
            BY Words
          <6> HIDE DEF y
          <6> QED
            BY <4>4, <4>5, <6>1, <6>2
        <5> QED
          BY <5>1 DEF Register
      <4> HIDE DEF y
      <4> QED
        BY <4>1, <4>4, <4>5, <4>6, WordsOfOne
    <3>5. y \in seen
      BY <3>2, <3>4 DEF Ran
    <3> QED
      BY <3>1, <3>5 DEF Reading, TimeIsWhole
  <2> QED
    BY <2>3, <2>4
<1>6. CASE UNCHANGED vars
  BY <1>6 DEF vars, Reading, Ran, TimeIsWhole
<1> QED
  BY <1>0, <1>2, <1>3, <1>4, <1>5, <1>6
  DEF Next, AnyLoad, AnyStore, SetBegin, SetUpper, SetLower

\* The time that a guest puts together from three reads of words is one that the
\* clock had during the reads, for registers of any width and if the clock
\* carries or wraps in between (Clint::read).
THEOREM TimeWhole == Spec => []TimeIsWhole
<1>1. Reading => TimeIsWhole
  BY DEF Reading, TimeIsWhole
<1> QED
  BY <1>1, TypedInit, TypedNext, ReadingInit, ReadingNext, PTL DEF Spec

----------------------------------------------------------------------------
(* The bytes of the regions.                                               *)

Memories == Clint \cup {"rom", "dram"}

LEMMA AsBytesIs ==
  /\ DOMAIN AsBytes = Memories /\ AsBytes = [r \in Memories |-> AsBytes[r]]
  /\ AsBytes["rom"] = rom /\ AsBytes["dram"] = dram
  /\ \A r \in Clint : AsBytes[r] = [i \in 0 .. SizeOf[r] - 1 |-> reg[r][i]]
BY DEF AsBytes, Memories, Clint

LEMMA SizeOfIs ==
  /\ \A r \in Clint : SizeOf[r] \in 1 .. DOUBLEWORD
  /\ SizeOf["msip"] = WORD /\ SizeOf["mtimecmp"] = DOUBLEWORD /\ SizeOf["mtime"] = DOUBLEWORD
BY Words DEF SizeOf, Clint

\* A region is as long as its last byte says.
LEMMA RegionSize ==
  ASSUME Typed, NEW r \in Memories
  PROVE  \E z \in Nat : DOMAIN AsBytes[r] = 0 .. z - 1
<1>1. CASE r = "rom"
  <2>1. PICK dtb \in Dtbs : rom = RomNew(dtb)
    BY DEF Typed, TypeOK
  <2> DEFINE z == ALIGN * ((RESET + Len(dtb) + ALIGN - 1) \div ALIGN)
  <2>2. RESET \in Nat /\ ALIGN \in Nat \ {0} /\ Len(dtb) \in Nat
    BY SizeAssumption
  <2>3. (RESET + Len(dtb) + ALIGN - 1) \div ALIGN \in Nat
    <3>1. RESET + Len(dtb) + ALIGN - 1 \in Nat
      BY <2>2
    <3> QED
      BY <2>2, <3>1, Divided
  <2>4. z \in Nat
    BY <2>2, <2>3
  <2>5. DOMAIN rom = 0 .. z - 1
    BY <2>1 DEF RomNew
  <2> HIDE DEF z
  <2> QED
    BY <1>1, <2>4, <2>5, AsBytesIs
<1>2. CASE r = "dram"
  BY <1>2, AsBytesIs, SizeAssumption DEF Typed, TypeOK
<1>3. CASE r \in Clint
  <2>1. SizeOf[r] \in Nat
    BY <1>3, SizeOfIs, Words
  <2> QED
    BY <1>3, <2>1, AsBytesIs
<1> QED
  BY <1>1, <1>2, <1>3 DEF Memories

\* An access is within its region if its last byte is.
LEMMA WithinIs ==
  ASSUME Typed, NEW a, a.offset \in Nat, a.size \in 1 .. DOUBLEWORD
  PROVE  Bytes!Within(a) <=>
           a.region \in Memories /\ a.offset + a.size - 1 \in DOMAIN AsBytes[a.region]
<1> DEFINE r == a.region
           o == a.offset
           n == a.size
<1>1. Bytes!Within(a) <=> r \in Memories /\ \A i \in 0 .. n - 1 : o + i \in DOMAIN AsBytes[r]
  BY AsBytesIs DEF Bytes!Within
<1>2. CASE r \in Memories
  <2>1. PICK z \in Nat : DOMAIN AsBytes[r] = 0 .. z - 1
    BY <1>2, RegionSize
  <2>2. (\A i \in 0 .. n - 1 : o + i \in 0 .. z - 1) <=> o + n - 1 \in 0 .. z - 1
    <3>1. n - 1 \in 0 .. n - 1 /\ o + (n - 1) = o + n - 1
      BY Words
    <3>2. (\A i \in 0 .. n - 1 : o + i \in 0 .. z - 1) => o + n - 1 \in 0 .. z - 1
      BY <3>1
    <3>3. ASSUME o + n - 1 \in 0 .. z - 1, NEW i \in 0 .. n - 1 PROVE o + i \in 0 .. z - 1
      BY <3>3, Words
    <3> QED
      BY <3>2, <3>3
  <2> QED
    BY <1>1, <1>2, <2>1, <2>2
<1> QED
  BY <1>1, <1>2

\* An access as a record.
LEMMA AccessIs ==
  ASSUME NEW kind, NEW r, NEW o, NEW n, NEW val
  PROVE  LET a == Access(kind, r, o, n, val)
         IN  /\ a.kind = kind /\ a.region = r /\ a.offset = o /\ a.size = n
             /\ a.value = val
BY DEF Access

\* A load is one of bytes.
LEMMA LoadBytes ==
  ASSUME Typed, NEW r \in Regions, NEW o \in Nat, NEW n \in Sizes, Load(r, o, n)
  PROVE  Bytes!Next
<1> DEFINE a == access'
           b == AsBytes
<1>0. n \in 1 .. DOUBLEWORD /\ n \in Nat
  BY SizesAre
<1>1. a.kind = "load" /\ a.region = r /\ a.offset = o /\ a.size = n
  BY AccessIs DEF Load
<1>2. AsBytes' = AsBytes /\ result' = bus_read(r, o, n)
  BY DEF Load, AsBytes
<1>3. Bytes!Within(a) <=> r \in Memories /\ o + n - 1 \in DOMAIN b[r]
  BY <1>1, SizesAre, WithinIs
<1> HIDE DEF a
<1>4. ASSUME r \in Memories, ~Bytes!Within(a) PROVE Bytes!Stray(a)
  BY <1>2, <1>1, <1>4, AsBytesIs DEF Bytes!Stray
<1>5. ASSUME Bytes!Within(a), NEW x \in Register, result' = Ok(x),
             \A i \in 0 .. DOUBLEWORD - 1 : x[i] = IF i < n THEN b[r][o + i] ELSE 0
      PROVE  Bytes!Load(a)
  <2>1. x = [i \in 0 .. DOUBLEWORD - 1 |-> IF i < n THEN b[r][o + i] ELSE 0]
    <3>1. x = [i \in 0 .. DOUBLEWORD - 1 |-> x[i]]
      BY DEF Register
    <3> QED
      BY <1>5, <3>1
  <2>2. result'.is = "data" /\ result'.data = x
    BY <1>5 DEF Ok
  <2> QED
    BY <1>1, <1>2, <1>5, <2>1, <2>2 DEF Bytes!Load
<1>6. ASSUME r \in {"rom", "dram"} PROVE Bytes!Load(a) \/ Bytes!Stray(a)
  <2> DEFINE m == b[r]
  <2>1. r \in Memories /\ result' = array_read(m, o, n)
    BY <1>2, <1>6, AsBytesIs, BusReads DEF Memories
  <2>2. \A i \in DOMAIN m : m[i] \in Byte
    BY <1>6, AsBytesIs, Bytewise
  <2>3. CASE o + n - 1 \in DOMAIN m
    <3>1. Bytes!Within(a)
      BY <1>3, <2>1, <2>3
    <3>2. \A i \in 0 .. n - 1 : o + i \in DOMAIN m
      BY <1>1, <3>1 DEF Bytes!Within
    <3>3. Slice(m, o, n) \in Register /\ result' = Ok(Slice(m, o, n))
      BY <2>1, <2>2, <2>3, SliceType DEF array_read
    <3> HIDE DEF m
    <3>4. ASSUME NEW i \in 0 .. DOUBLEWORD - 1
          PROVE  Slice(m, o, n)[i] = IF i < n THEN m[o + i] ELSE 0
      BY <1>0, <3>2 DEF Slice
    <3> QED
      BY <1>5, <3>1, <3>3, <3>4 DEF m
  <2>4. CASE o + n - 1 \notin DOMAIN m
    BY <1>3, <1>4, <2>1, <2>4
  <2> QED
    BY <2>3, <2>4
<1>7. ASSUME r \in Clint PROVE Bytes!Load(a) \/ Bytes!Stray(a)
  <2> DEFINE z == SizeOf[r]
  <2>1. r \in Memories /\ result' = clint_read(r, o, n)
    BY <1>2, <1>7, BusReads DEF Memories
  <2>2. z \in Nat /\ z <= DOUBLEWORD /\ b[r] = [i \in 0 .. z - 1 |-> reg[r][i]]
    BY <1>7, AsBytesIs, SizeOfIs, Words
  <2>3. reg[r] \in Register /\ DOMAIN reg[r] = 0 .. DOUBLEWORD - 1
    BY <1>7, Bytewise DEF Register
  <2> HIDE DEF z
  <2>4. CASE o + n - 1 \in 0 .. z - 1
    <3>1. Bytes!Within(a)
      BY <1>3, <2>1, <2>2, <2>4
    <3>2. CASE n = DOUBLEWORD
      <4>1. result' = Ok(reg[r])
        BY <1>7, <2>1, <3>2, ClintReadIs DEF ShiftPanics
      <4>2. o = 0 /\ z = DOUBLEWORD
        BY <2>2, <2>4, <3>2, Words
      <4>3. ASSUME NEW i \in 0 .. DOUBLEWORD - 1
            PROVE  reg[r][i] = IF i < n THEN b[r][o + i] ELSE 0
        BY <2>2, <3>2, <4>2, Words
      <4> QED
        BY <1>5, <2>3, <3>1, <4>1, <4>3
    <3>3. CASE n # DOUBLEWORD
      <4>1. Shift(o) = o /\ ~ShiftPanics(o, n)
        BY <1>0, <2>2, <2>4, Words DEF Shift, ShiftPanics
      <4>2. result' = Ok(Slice(reg[r], o, n)) /\ Slice(reg[r], o, n) \in Register
        BY <1>7, <2>1, <3>3, <4>1, Bytewise, SliceType, ClintReadIs
      <4>3. ASSUME NEW i \in 0 .. DOUBLEWORD - 1
            PROVE  Slice(reg[r], o, n)[i] = IF i < n THEN b[r][o + i] ELSE 0
        <5>1. i < n => o + i \in 0 .. z - 1 /\ o + i \in 0 .. DOUBLEWORD - 1
          BY <1>0, <2>2, <2>4, Words
        <5>2. i < n => b[r][o + i] = reg[r][o + i]
          BY <2>2, <5>1
        <5> QED
          BY <2>3, <5>1, <5>2 DEF Slice
      <4> QED
        BY <1>5, <3>1, <4>2, <4>3
    <3> QED
      BY <3>2, <3>3
  <2>5. CASE o + n - 1 \notin 0 .. z - 1
    BY <1>3, <1>4, <2>1, <2>2, <2>5
  <2> QED
    BY <2>4, <2>5
<1>8. CASE r = "uart"
  BY <1>1, <1>2, <1>8 DEF Bytes!Next, Bytes!Device, a
<1>9. CASE r = "none"
  <2>1. result'.is = "fault" /\ "none" \notin Memories \cup {"uart"}
    BY <1>2, <1>9, BusReads DEF Answer, Memories, Clint
  <2> QED
    BY <1>1, <1>2, <1>9, <2>1, AsBytesIs DEF Bytes!Next, Bytes!Refuse, a
<1> QED
  BY <1>6, <1>7, <1>8, <1>9 DEF Bytes!Next, Regions, a

\* What a store within a register leaves in it.
LEMMA ClintBytes ==
  ASSUME Typed, NEW r \in Clint, NEW o \in Nat, NEW n \in Sizes, NEW val \in Register,
         o + n <= SizeOf[r], NEW i \in 0 .. SizeOf[r] - 1
  PROVE  /\ ~ShiftPanics(o, n)
         /\ clint_write(r, o, n, val)[i] = Patched(reg[r], o, n, val)[i]
<1> DEFINE z == SizeOf[r]
<1>1. z \in 1 .. DOUBLEWORD /\ i \in 0 .. DOUBLEWORD - 1 /\ i < z
  BY SizeOfIs, Words
<1>2. o < DOUBLEWORD /\ Shift(o) = o /\ ~ShiftPanics(o, n)
  BY <1>1, SizesAre, Words DEF Shift, ShiftPanics
<1>3. reg[r] \in Register /\ DOMAIN reg[r] = 0 .. DOUBLEWORD - 1 /\ DOMAIN val = 0 .. DOUBLEWORD - 1
  BY Bytewise DEF Register
<1>4. ASSUME NEW x, DOMAIN x = 0 .. DOUBLEWORD - 1 PROVE Kept(r, x)[i] = x[i]
  <2>1. CASE r = "msip"
    <3>1. i < WORD /\ 0 + i = i
      BY <1>1, <2>1, SizeOfIs
    <3> QED
      BY <1>1, <1>4, <2>1, <3>1 DEF Kept, Slice
  <2>2. CASE r # "msip"
    BY <2>2 DEF Kept
  <2> QED
    BY <2>1, <2>2
<1>5. CASE n = DOUBLEWORD
  <2>1. o = 0 /\ i - o = i /\ i - o \in 0 .. n - 1
    BY <1>1, <1>5, Words
  <2>2. clint_write(r, o, n, val)[i] = val[i]
    BY <1>3, <1>4, <1>5, ClintWriteIs
  <2>3. Patched(reg[r], o, n, val)[i] = val[i]
    BY <1>1, <1>3, <2>1 DEF Patched
  <2> QED
    BY <1>2, <2>2, <2>3
<1>6. CASE n # DOUBLEWORD
  <2> DEFINE x == Patched(reg[r], o, n, val)
  <2>1. DOMAIN x = 0 .. DOUBLEWORD - 1
    BY <1>3 DEF Patched
  <2> HIDE DEF x
  <2>2. clint_write(r, o, n, val) = Kept(r, x)
    BY <1>2, <1>6, ClintWriteIs DEF x
  <2>3. Kept(r, x)[i] = x[i]
    BY <1>4, <2>1
  <2> QED
    BY <1>2, <2>2, <2>3 DEF x
<1> QED
  BY <1>5, <1>6

\* A store is one of bytes.
LEMMA StoreBytes ==
  ASSUME Typed, NEW r \in Regions, NEW o \in Nat, NEW n \in Sizes, NEW val \in Register,
         Store(r, o, n, val)
  PROVE  Bytes!Next
<1> DEFINE a == access'
           b == AsBytes
           Written(x) == [i \in DOMAIN x |-> IF i - o \in 0 .. n - 1 THEN val[i - o] ELSE x[i]]
<1>1. a.kind = "store" /\ a.region = r /\ a.offset = o /\ a.size = n /\ a.value = val
  BY AccessIs DEF Store
<1>2. rom' = rom /\ result' = bus_write(r, o, n)
  BY DEF Store
<1>3. Bytes!Within(a) <=> r \in Memories /\ o + n - 1 \in DOMAIN b[r]
  BY <1>1, SizesAre, WithinIs
<1>4. /\ DOMAIN b' = Memories /\ b' = [q \in Memories |-> b'[q]]
      /\ b'["rom"] = rom' /\ b'["dram"] = dram'
      /\ \A q \in Clint : b'[q] = [i \in 0 .. SizeOf[q] - 1 |-> reg'[q][i]]
  BY DEF AsBytes, Memories, Clint
<1> HIDE DEF a
<1>5. ASSUME r # "dram" PROVE b'["dram"] = b["dram"]
  BY <1>4, <1>5, AsBytesIs DEF Store
<1>6. ASSUME NEW q \in Clint, q # r PROVE b'[q] = b[q]
  <2>1. reg'[q] = reg[q]
    BY <1>6 DEF Store, Typed, TypeOK
  <2>2. b'[q] = [i \in 0 .. SizeOf[q] - 1 |-> reg'[q][i]]
    BY <1>4
  <2>3. b[q] = [i \in 0 .. SizeOf[q] - 1 |-> reg[q][i]]
    BY AsBytesIs
  <2> QED
    BY <2>1, <2>2, <2>3, Zenon
<1>7. ASSUME NEW q \in Memories, q # r PROVE b'[q] = b[q]
  BY <1>2, <1>4, <1>5, <1>6, <1>7, AsBytesIs DEF Memories
<1>8. ASSUME r \notin Clint \cup {"dram"} PROVE b' = b
  <2>1. \A q \in Memories : b'[q] = b[q]
    BY <1>2, <1>4, <1>7, <1>8, AsBytesIs DEF Memories
  <2> QED
    BY <1>4, <2>1, AsBytesIs
<1>9. ASSUME r \in Clint \cup {"dram"}, ~Bytes!Within(a) PROVE Bytes!Stray(a)
  <2>1. r \in Memories /\ r # "rom"
    BY <1>9 DEF Memories, Clint
  <2> QED
    BY <1>1, <1>7, <1>9, <2>1, AsBytesIs DEF Bytes!Stray
<1>10. ASSUME r \in Clint \cup {"dram"}, Bytes!Within(a), result'.is = "done", b'[r] = Written(b[r])
       PROVE  Bytes!Store(a)
  <2>1. r \in Memories /\ r # "rom"
    BY <1>10 DEF Memories, Clint
  <2>2. b' = [b EXCEPT ![r] = Written(b[r])]
    <3> HIDE DEF Written
    <3> QED
      BY <1>4, <1>7, <1>10, <2>1, AsBytesIs
  <2> QED
    BY <1>1, <1>10, <2>1, <2>2 DEF Bytes!Store
<1>11. CASE r = "dram"
  <2>1. CASE o + n - 1 \in DOMAIN dram
    <3>1. result'.is = "done"
      BY <1>2, <1>11, <2>1, BusWrites DEF Answer
    <3>2. dram' = Patched(dram, o, n, val)
      BY <1>11, <3>1 DEF Store
    <3>3. b'[r] = Written(b[r])
      BY <1>4, <1>11, <3>2, AsBytesIs DEF Patched
    <3>4. Bytes!Within(a)
      BY <1>3, <1>11, <2>1, AsBytesIs DEF Memories
    <3>5. Bytes!Store(a)
      BY <1>10, <1>11, <3>1, <3>3, <3>4
    <3> QED
      BY <3>5 DEF Bytes!Next, a
  <2>2. CASE o + n - 1 \notin DOMAIN dram
    <3>1. Bytes!Stray(a)
      BY <1>3, <1>9, <1>11, <2>2, AsBytesIs
    <3> QED
      BY <3>1 DEF Bytes!Next, a
  <2> QED
    BY <2>1, <2>2
<1>12. CASE r \in Clint
  <2>1. CASE Bytes!Within(a)
    <3>1. SizeOf[r] \in 1 .. DOUBLEWORD /\ b[r] = [i \in 0 .. SizeOf[r] - 1 |-> reg[r][i]]
      BY <1>12, AsBytesIs, SizeOfIs
    <3>2. o + n <= SizeOf[r] /\ 0 \in 0 .. SizeOf[r] - 1
      BY <1>3, <2>1, <3>1, SizesAre, Words
    <3>3. result'.is = "done"
      BY <1>2, <1>12, <3>2, ClintBytes, BusWrites DEF Answer
    <3>4. reg'[r] = clint_write(r, o, n, val)
      BY <1>12, <3>3 DEF Store, Typed, TypeOK
    <3>5. ASSUME NEW i \in 0 .. SizeOf[r] - 1
          PROVE  reg'[r][i] = IF i - o \in 0 .. n - 1 THEN val[i - o] ELSE b[r][i]
      <4>1. clint_write(r, o, n, val)[i] = Patched(reg[r], o, n, val)[i]
        BY <1>12, <3>2, ClintBytes
      <4>2. b[r][i] = reg[r][i]
        BY <3>1
      <4>3. i \in DOMAIN reg[r]
        <5>1. DOMAIN reg[r] = 0 .. DOUBLEWORD - 1
          BY <1>12, Bytewise DEF Register
        <5>2. i \in 0 .. DOUBLEWORD - 1
          BY <3>1, Words
        <5> QED
          BY <5>1, <5>2
      <4>4. Patched(reg[r], o, n, val)[i] = IF i - o \in 0 .. n - 1 THEN val[i - o] ELSE reg[r][i]
        BY <4>3 DEF Patched
      <4> QED
        BY <3>4, <4>1, <4>2, <4>4, Zenon
    <3>6. b'[r] = [i \in 0 .. SizeOf[r] - 1 |-> reg'[r][i]] /\ DOMAIN b[r] = 0 .. SizeOf[r] - 1
      BY <1>4, <1>12, <3>1
    <3>7. b'[r] = Written(b[r])
      BY <3>5, <3>6
    <3>8. Bytes!Store(a)
      BY <1>10, <1>12, <2>1, <3>3, <3>7
    <3> QED
      BY <3>8 DEF Bytes!Next, a
  <2>2. CASE ~Bytes!Within(a)
    BY <1>9, <1>12, <2>2 DEF Bytes!Next, a
  <2> QED
    BY <2>1, <2>2
<1>13. CASE r \in {"rom", "none"}
  <2>1. result'.is = "fault"
    BY <1>2, <1>13, BusWrites DEF Answer
  <2>2. b' = b /\ "none" \notin Memories \cup {"uart"}
    BY <1>8, <1>13 DEF Memories, Clint
  <2>3. Bytes!Refuse(a)
    BY <1>1, <1>13, <2>1, <2>2, AsBytesIs DEF Bytes!Refuse
  <2> QED
    BY <2>3 DEF Bytes!Next, a
<1>14. CASE r = "uart"
  <2>1. b' = b
    BY <1>8, <1>14 DEF Clint
  <2> QED
    BY <1>1, <1>14, <2>1 DEF Bytes!Next, Bytes!Device, a
<1> QED
  BY <1>11, <1>12, <1>13, <1>14 DEF Regions

\* Loads and stores of any size at any offset of any region are those of arrays
\* of bytes, for registers, memories and ROMs of every size: what a store leaves
\* a load finds, and no access reaches another region than its own (Bus, Clint,
\* Dram and Rom).
THEOREM RefinesBytes == Spec => ImplementsBytes
<1>1. Typed /\ [Next]_vars => [Bytes!Next]_(Bytes!vars)
  <2> SUFFICES ASSUME Typed, [Next]_vars PROVE [Bytes!Next]_(Bytes!vars)
    OBVIOUS
  <2>1. WORD \in Nat /\ WORD \in Sizes /\ "mtimecmp" \in Regions /\ "mtime" \in Regions
    BY Words, SizesAre DEF Regions, Clint
  <2>2. CASE Tick
    <3>1. /\ DOMAIN AsBytes = Memories
          /\ \A q \in Memories \ {"mtime"} : AsBytes'[q] = AsBytes[q]
      <4>1. \A q \in Clint \ {"mtime"} : reg'[q] = reg[q]
        BY <2>2 DEF Tick, increment, Typed, TypeOK
      <4>2. rom' = rom /\ dram' = dram
        BY <2>2 DEF Tick
      <4> QED
        BY <4>1, <4>2 DEF AsBytes, Memories
    <3>2. UNCHANGED <<access, result>>
      BY <2>2 DEF Tick
    <3> QED
      BY <3>1, <3>2 DEF Bytes!Next, Bytes!Tick
  <2>3. ASSUME NEW r \in Regions, NEW o \in Offsets, NEW n \in Sizes, AnyLoad(r, o, n)
        PROVE  Bytes!Next
    BY <2>3, LoadBytes, AnyType DEF AnyLoad
  <2>4. ASSUME NEW r \in Regions, NEW o \in Offsets, NEW n \in Sizes, NEW val \in Data,
               AnyStore(r, o, n, val)
        PROVE  Bytes!Next
    BY <2>4, StoreBytes, AnyType DEF AnyStore
  <2>5. \A o, n : Slice(due.new, o, n) \in Register
    BY SliceType DEF Typed, Register
  <2>6. ASSUME NEW x \in Deadlines, SetBegin(x) PROVE Bytes!Next
    BY <2>1, <2>6, StoreBytes, OnesType DEF SetBegin
  <2>7. CASE SetUpper
    BY <2>1, <2>5, <2>7, StoreBytes DEF SetUpper
  <2>8. CASE SetLower
    BY <2>1, <2>5, <2>8, StoreBytes DEF SetLower
  <2>9. CASE GetUpper
    BY <2>1, <2>9, LoadBytes DEF GetUpper
  <2>10. CASE GetLower
    BY <2>1, <2>10, LoadBytes DEF GetLower
  <2>11. CASE GetAgain
    BY <2>1, <2>11, LoadBytes DEF GetAgain
  <2>12. CASE UNCHANGED vars
    <3>1. AsBytes' = AsBytes
      BY <2>12 DEF vars, AsBytes
    <3> QED
      BY <2>12, <3>1 DEF vars, Bytes!vars
  <2> QED
    BY <2>2, <2>3, <2>4, <2>6, <2>7, <2>8, <2>9, <2>10, <2>11, <2>12 DEF Next
<1> QED
  BY <1>1, TypedInit, TypedNext, PTL DEF Spec, ImplementsBytes, Bytes!Spec
=============================================================================
