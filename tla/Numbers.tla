------------------------------ MODULE Numbers ------------------------------
(***************************************************************************)
(* The numbers of the hart: registers of XLEN bits instead of 64, words of *)
(* WORD bits instead of 32, the casts between signed and unsigned numbers  *)
(* and the operators on bits that the instructions of src/src/cpu.rs use.  *)
(***************************************************************************)
EXTENDS Integers

CONSTANTS WORD, XLEN

ASSUME WidthAssumption == WORD \in Nat \ {0} /\ XLEN = 2 * WORD

Register == 0 .. 2 ^ XLEN - 1

Digit(x, i) == (x \div 2 ^ i) % 2

\* The number with the digits d[0], ..., d[n - 1].
Number(d, n) == CHOOSE x \in 0 .. 2 ^ n - 1 : \A i \in 0 .. n - 1 : Digit(x, i) = d[i]

\* The n low bits of x as a signed number (the casts to i8, i16, i32, i64).
Signed(x, n) ==
  LET u == x % 2 ^ n IN IF u >= 2 ^ (n - 1) THEN u - 2 ^ n ELSE u

Unsigned(x) == x % 2 ^ XLEN             \* as u64

Least(x, y) == IF x <= y THEN x ELSE y
Greatest(x, y) == IF x >= y THEN x ELSE y

\* A function of two bits, applied to the digits of x and y.
Bitwise(f, x, y) == Number([i \in 0 .. XLEN - 1 |-> f[Digit(x, i)][Digit(y, i)]], XLEN)
Xor == [x \in {0, 1} |-> [y \in {0, 1} |-> (x + y) % 2]]
Or == [x \in {0, 1} |-> [y \in {0, 1} |-> Greatest(x, y)]]
And == [x \in {0, 1} |-> [y \in {0, 1} |-> Least(x, y)]]
=============================================================================
