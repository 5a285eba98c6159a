-------------------------------- MODULE Alu --------------------------------
(***************************************************************************)
(* What the integer and multiplication instructions compute (the opcodes   *)
(* 0x13, 0x1b, 0x33 and 0x3b of execute_general in src/src/cpu.rs, and the *)
(* compressed instructions that do the same).                              *)
(***************************************************************************)
EXTENDS Numbers

Low(x) == x % 2 ^ WORD                  \* as u32
Extend(x) == Unsigned(Signed(x, WORD))  \* as i32 as i64 as u64

\* Mutant: rounds down.
Quotient_Floor(a, b) == IF b > 0 THEN a \div b ELSE (0 - a) \div (0 - b)

\* wrapping_div and wrapping_rem round towards zero.
Quotient(a, b) ==
  LET abs(x) == IF x < 0 THEN 0 - x ELSE x
      q == abs(a) \div abs(b)
  IN  IF (a < 0) = (b < 0) THEN q ELSE 0 - q
Remainder(a, b) == a - b * Quotient(a, b)

\* Shifts by fewer bits than the operand has.
ShiftLeft(x, k) == Unsigned(x * 2 ^ k)
ShiftRight(x, k) == x \div 2 ^ k        \* logical for x >= 0, arithmetic below

Truth(p) == IF p THEN 1 ELSE 0

\* The operations of the opcode 0x13, and those of 0x33 that compute the same
\* with a register for the immediate; an immediate shift amount is below XLEN.
Basic(op, a, b) ==
  LET x == Signed(a, XLEN)
      shamt == b % XLEN
  IN  CASE op \in {"add", "addi"}   -> Unsigned(a + b)
        [] op = "sub"               -> Unsigned(a - b)
        [] op \in {"sll", "slli"}   -> ShiftLeft(a, shamt)
        [] op \in {"srl", "srli"}   -> ShiftRight(a, shamt)
        [] op \in {"sra", "srai"}   -> Unsigned(ShiftRight(x, shamt))
        [] op \in {"slt", "slti"}   -> Truth(x < Signed(b, XLEN))
        [] op \in {"sltu", "sltiu"} -> Truth(a < b)
        [] op \in {"xor", "xori"}   -> Bitwise(Xor, a, b)
        [] op \in {"or", "ori"}     -> Bitwise(Or, a, b)
        [] op \in {"and", "andi"}   -> Bitwise(And, a, b)

\* mul and the upper halves of the three products, in 128 bits.
Multiply(op, a, b) ==
  LET x == Signed(a, XLEN)
      y == Signed(b, XLEN)
      wide == 2 ^ (2 * XLEN)
  IN  CASE op = "mul"    -> Unsigned(x * y)
        [] op = "mulh"   -> Unsigned((x * y) \div 2 ^ XLEN)
        [] op = "mulhsu" -> Unsigned((((x % wide) * b) % wide) \div 2 ^ XLEN)
        [] op = "mulhu"  -> Unsigned((a * b) \div 2 ^ XLEN)

\* Division by zero gives all ones and the dividend; MIN / -1 is MIN.
Divide(op, a, b) ==
  LET x == Signed(a, XLEN)
      y == Signed(b, XLEN)
      overflow == x = 0 - 2 ^ (XLEN - 1) /\ y = -1
  IN  CASE op = "div"  -> IF y = 0 THEN Unsigned(-1)
                          ELSE IF overflow THEN a ELSE Unsigned(Quotient(x, y))
        [] op = "divu" -> IF b = 0 THEN Unsigned(-1) ELSE Quotient(a, b)
        [] op = "rem"  -> IF y = 0 THEN a
                          ELSE IF overflow THEN 0 ELSE Unsigned(Remainder(x, y))
        [] op = "remu" -> IF b = 0 THEN a ELSE Remainder(a, b)

\* Mutant: srlw shifts the whole register.
BasicWord_WideShift(op, a, b) ==
  LET shamt == b % WORD
  IN  CASE op \in {"addw", "addiw"} -> Extend(a + b)
        [] op = "subw"              -> Extend(a - b)
        [] op = "mulw"              -> Extend(Signed(a, WORD) * Signed(b, WORD))
        [] op \in {"sllw", "slliw"} -> Extend(ShiftLeft(a, shamt))
        [] op \in {"srlw", "srliw"} -> Extend(ShiftRight(a, shamt))
        [] op \in {"sraw", "sraiw"} -> Unsigned(ShiftRight(Signed(a, WORD), shamt))

\* The opcodes 0x1b and 0x3b without the divisions.
BasicWord(op, a, b) ==
  LET shamt == b % WORD
  IN  CASE op \in {"addw", "addiw"} -> Extend(a + b)
        [] op = "subw"              -> Extend(a - b)
        [] op = "mulw"              -> Extend(Signed(a, WORD) * Signed(b, WORD))
        [] op \in {"sllw", "slliw"} -> Extend(ShiftLeft(a, shamt))
        [] op \in {"srlw", "srliw"} -> Extend(ShiftRight(Low(a), shamt))
        [] op \in {"sraw", "sraiw"} -> Unsigned(ShiftRight(Signed(a, WORD), shamt))

\* The divisions of words.  remw and remuw by zero return the whole of rs1.
DivideWord(op, a, b) ==
  LET x == Signed(a, WORD)
      y == Signed(b, WORD)
      overflow == x = 0 - 2 ^ (WORD - 1) /\ y = -1
  IN  CASE op = "divw"  -> IF y = 0 THEN Unsigned(-1)
                           ELSE IF overflow THEN Unsigned(x) ELSE Unsigned(Quotient(x, y))
        [] op = "divuw" -> IF Low(b) = 0 THEN Unsigned(-1)
                           ELSE Extend(Quotient(Low(a), Low(b)))
        [] op = "remw"  -> IF y = 0 THEN a
                           ELSE IF overflow THEN 0 ELSE Unsigned(Remainder(x, y))
        [] op = "remuw" -> IF Low(b) = 0 THEN a
                           ELSE Extend(Remainder(Low(a), Low(b)))

BasicImmOps == {"addi", "slli", "slti", "sltiu", "xori", "srli", "srai", "ori", "andi"}
BasicOps == {"add", "sub", "sll", "slt", "sltu", "xor", "srl", "sra", "or", "and"}
MultiplyOps == {"mul", "mulh", "mulhsu", "mulhu"}
DivideOps == {"div", "divu", "rem", "remu"}
WordImmOps == {"addiw", "slliw", "srliw", "sraiw"}
BasicWordOps == {"addw", "subw", "mulw", "sllw", "srlw", "sraw"}
DivideWordOps == {"divw", "divuw", "remw", "remuw"}

Compute(op, a, b) ==
  CASE op \in BasicImmOps \cup BasicOps      -> Basic(op, a, b)
    [] op \in MultiplyOps                    -> Multiply(op, a, b)
    [] op \in DivideOps                      -> Divide(op, a, b)
    [] op \in WordImmOps \cup BasicWordOps   -> BasicWord(op, a, b)
    [] op \in DivideWordOps                  -> DivideWord(op, a, b)

\* The divisions that set the DZ bit of FCSR.
SetsDz(op, b) ==
  \/ op \in {"div", "divu"} /\ b = 0
  \/ op \in {"divw", "divuw"} /\ Low(b) = 0
=============================================================================
