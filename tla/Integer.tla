------------------------------ MODULE Integer ------------------------------
(***************************************************************************)
(* The execution of one integer or control instruction (execute,           *)
(* execute_compressed and execute_general in src/src/cpu.rs): a word is    *)
(* decoded, at its full width; a decoded instruction is executed, with     *)
(* registers of XLEN bits.  A behaviour starts before one or the other, so *)
(* that every word and every content of the registers is met without their *)
(* product.  In the second case `imm' is the immediate as a number.        *)
(*                                                                         *)
(* The memory that a load reads from is any value; what a store does to it *)
(* is the business of the modules Memory and Atomics.                      *)
(***************************************************************************)
EXTENDS Decode, Alu

CONSTANTS
  Words,       \* words to decode
  Contents,    \* contents of registers and of memory
  Immediates,  \* values of immediates that are not shift amounts
  Pcs          \* addresses of the instruction

VARIABLES
  phase,       \* "decode", "decoded", "execute" or "executed"
  word,        \* the instruction word, as a set of bit positions
  ins,         \* the decoded instruction
  len,         \* its length in bytes
  imm,         \* its immediate as a number
  xregs,       \* x0, x1 and x2
  pc,          \* the program counter
  dz           \* the DZ bit of FCSR

insVars == <<phase, word, ins, len, imm, xregs, pc, dz>>

LoadOps == {"lb", "lh", "lw", "ld", "lbu", "lhu", "lwu"}
StoreOps == {"sb", "sh", "sw", "sd"}
FloatOps == {"flw", "fld", "fsw", "fsd"}
BranchOps == {"beq", "bne", "blt", "bge", "bltu", "bgeu"}
JumpOps == {"jal", "jalr", "c.jr", "c.jalr"}
UpperOps == {"lui", "auipc"}
ImmOps == BasicImmOps \cup WordImmOps
ShiftOps == {"slli", "srli", "srai"}
WordShiftOps == {"slliw", "srliw", "sraiw"}
RegOps == BasicOps \cup MultiplyOps \cup DivideOps \cup BasicWordOps \cup DivideWordOps
ComputeOps == ImmOps \cup RegOps
Executable == ComputeOps \cup LoadOps \cup StoreOps \cup BranchOps \cup JumpOps \cup UpperOps
                \cup {"nop"}

\* A word has 32 bits, of which a compressed instruction is the lower half; the
\* low bits of a register give the amount of a shift.
ASSUME WordAssumption ==
  /\ \A w \in Words : /\ w \subseteq 0 .. 31
                      /\ IF IsCompressed(w) THEN w \subseteq 0 .. 15
                         ELSE Num(Field(w, 0, 0 .. 6)) \in Opcodes
  /\ \E k \in 2 .. WORD : WORD = 2 ^ k
ASSUME ValueAssumption ==
  /\ Contents \subseteq Register /\ Immediates \subseteq Register /\ Pcs \subseteq Register
  /\ \A p \in Pcs : p + 4 \in Register

InsTypeOK ==
  /\ phase \in {"decode", "decoded", "execute", "executed"}
  /\ ins.op \in Executable \cup FloatOps \cup {"none", "illegal", "panic", "ebreak"}
  /\ {ins.rd, ins.rs1, ins.rs2} \subseteq 0 .. 31 /\ ins.imm \subseteq 0 .. 63
  /\ xregs \in [0 .. 2 -> Register] /\ xregs[0] = 0
  /\ pc \in Register /\ imm \in Register
  /\ dz \in BOOLEAN

----------------------------------------------------------------------------

DecodeStep ==
  /\ phase = "decode"
  /\ ins' = Decoded(word)
  /\ len' = IF IsCompressed(word) THEN 2 ELSE 4
  /\ phase' = "decoded"
  /\ UNCHANGED <<word, imm, xregs, pc, dz>>

\* Mutant: x0 can be written.
xregs_write_X0(i, val) == [xregs EXCEPT ![i] = val]

\* XRegisters::write; x0 is hardwired to zero.
xregs_write(i, val) == [xregs EXCEPT ![i] = IF i = 0 THEN @ ELSE val]

\* The program counter has moved on before the instruction is executed.
NextPc == Unsigned(pc + len)

Executing(ops) ==
  /\ phase = "execute" /\ ins.op \in ops
  /\ phase' = "executed"
  /\ UNCHANGED <<word, ins, len, imm>>

ExecuteCompute ==
  LET a == xregs[ins.rs1]
      b == IF ins.op \in ImmOps THEN imm ELSE xregs[ins.rs2]
  IN  /\ Executing(ComputeOps)
      /\ xregs' = xregs_write(ins.rd, Compute(ins.op, a, b))
      /\ dz' = (dz \/ SetsDz(ins.op, b))
      /\ pc' = NextPc

ExecuteUpper ==
  /\ Executing(UpperOps)
  /\ xregs' = xregs_write(ins.rd, IF ins.op = "lui" THEN imm ELSE Unsigned(NextPc + imm - 4))
  /\ pc' = NextPc
  /\ UNCHANGED dz

\* The width of a load.
LoadBits(op) ==
  CASE op \in {"lb", "lbu"} -> XLEN \div 8
    [] op \in {"lh", "lhu"} -> XLEN \div 4
    [] op \in {"lw", "lwu"} -> WORD
    [] op = "ld"            -> XLEN

\* Memory holds `val', of which the bus returns the bytes that were asked for.
ExecuteLoad(val) ==
  LET bits == LoadBits(ins.op)
      read == val % 2 ^ bits
  IN  /\ Executing(LoadOps)
      /\ xregs' = xregs_write(ins.rd, IF ins.op \in {"lb", "lh", "lw", "ld"}
                                      THEN Unsigned(Signed(read, bits)) ELSE read)
      /\ pc' = NextPc
      /\ UNCHANGED dz

ExecuteOther ==
  /\ Executing(StoreOps \cup {"nop"})
  /\ pc' = NextPc
  /\ UNCHANGED <<xregs, dz>>

Taken(op, a, b) ==
  LET x == Signed(a, XLEN)
      y == Signed(b, XLEN)
  IN  CASE op = "beq"  -> a = b
        [] op = "bne"  -> a # b
        [] op = "blt"  -> x < y
        [] op = "bge"  -> x >= y
        [] op = "bltu" -> a < b
        [] op = "bgeu" -> a >= b

ExecuteBranch ==
  /\ Executing(BranchOps)
  /\ pc' = IF Taken(ins.op, xregs[ins.rs1], xregs[ins.rs2])
           THEN Unsigned(NextPc + imm - len) ELSE NextPc
  /\ UNCHANGED <<xregs, dz>>

\* Mutant: jalr writes the link before it reads rs1.
ExecuteJump_LinkFirst ==
  LET linked == xregs_write(ins.rd, NextPc)
      target == Unsigned(linked[ins.rs1] + imm)
  IN  /\ Executing(JumpOps)
      /\ pc' = CASE ins.op = "jal"  -> Unsigned(NextPc + imm - len)
                 [] ins.op = "jalr" -> target - (target % 2)
                 [] OTHER           -> linked[ins.rs1]
      /\ xregs' = linked
      /\ UNCHANGED dz

\* jal, jalr, c.jr and c.jalr; the last two take the target as it is.
ExecuteJump ==
  LET target == Unsigned(xregs[ins.rs1] + imm)
  IN  /\ Executing(JumpOps)
      /\ pc' = CASE ins.op = "jal"  -> Unsigned(NextPc + imm - len)
                 [] ins.op = "jalr" -> target - (target % 2)
                 [] OTHER           -> xregs[ins.rs1]
      /\ xregs' = xregs_write(ins.rd, NextPc)
      /\ UNCHANGED dz

----------------------------------------------------------------------------

None == Ins("none", 0, 0, 0, {})

BeforeDecode ==
  /\ phase = "decode"
  /\ word \in Words
  /\ ins = None /\ len = 0 /\ imm = 0
  /\ xregs = [i \in 0 .. 2 |-> 0]
  /\ pc = 0 /\ dz = FALSE

\* The immediates that an operation can have, and the contents of x2 that matter.
ImmediateOf(op) ==
  CASE op \in ShiftOps     -> 0 .. XLEN - 1
    [] op \in WordShiftOps -> 0 .. WORD - 1
    [] op \in RegOps \cup {"c.jr", "c.jalr"} -> {0}
    [] OTHER -> Immediates
Rs2Of(op) == IF op \in RegOps \cup BranchOps THEN Contents ELSE {0}

BeforeExecute ==
  /\ phase = "execute"
  /\ word = {}
  /\ \E op \in Executable, rd \in {0, 1}, rs1 \in {0, 1} :
       /\ ins = Ins(op, rd, rs1, 2, {})
       /\ imm \in ImmediateOf(op)
       /\ len \in IF op \in {"c.jr", "c.jalr"} THEN {2}
                  ELSE IF op \in {"beq", "bne", "jal"} THEN {2, 4} ELSE {4}
       /\ \E a \in Contents, b \in Rs2Of(op) : xregs = [i \in 0 .. 2 |-> <<0, a, b>>[i + 1]]
  /\ pc \in Pcs
  /\ dz = FALSE

InsInit == BeforeDecode \/ BeforeExecute

InsNext ==
  \/ DecodeStep
  \/ ExecuteCompute
  \/ ExecuteUpper
  \/ \E val \in Contents : ExecuteLoad(val)
  \/ ExecuteOther
  \/ ExecuteBranch
  \/ ExecuteJump

InsSpec == InsInit /\ [][InsNext]_insVars

----------------------------------------------------------------------------
(* Properties.  The reference is the instruction set manual, which the     *)
(* comments of the source quote.                                           *)

\* The bits of w at the positions `from', put at the positions `to'.
Gather(w, from, to) == {to[i] : i \in {i \in DOMAIN from : from[i] \in w}}

\* The positions hi, hi - 1, ..., lo.
Down(hi, lo) == [i \in 1 .. hi - lo + 1 |-> hi + 1 - i]

\* The immediate of the word w as the manual lays it out: where its bits are in
\* the word, where they belong, and the position of its sign (64: none).
Layout(from, to, sign) == [from |-> from, to |-> to, sign |-> sign]
Sp == <<12, 6, 5, 4, 3, 2>>
Split == <<31, 30, 29, 28, 27, 26, 25, 11, 10, 9, 8, 7>>
Layout16(w, op) ==
  LET q == Num(w \cap {0, 1})
      f == Num(Field(w, 13, 0 .. 2))
  IN  CASE op \in {"fld", "ld", "fsd", "sd"} /\ q = 0 ->
             Layout(<<12, 11, 10, 6, 5>>, <<5, 4, 3, 7, 6>>, 64)
        [] op \in {"lw", "sw"} /\ q = 0 -> Layout(<<12, 11, 10, 6, 5>>, <<5, 4, 3, 2, 6>>, 64)
        [] op = "addi" /\ q = 0 -> Layout(Down(12, 5), <<5, 4, 9, 8, 7, 6, 2, 3>>, 64)
        [] op = "addi" /\ q = 1 /\ f = 3 -> Layout(Sp, <<9, 4, 6, 8, 7, 5>>, 9)
        [] op = "lui" -> Layout(Sp, Down(17, 12), 17)
        [] op \in {"addi", "addiw", "andi"} /\ q = 1 /\ f # 3 -> Layout(Sp, Down(5, 0), 5)
        [] op \in {"srli", "srai", "slli"} -> Layout(Sp, Down(5, 0), 64)
        [] op = "jal" -> Layout(Down(12, 2), <<11, 4, 9, 8, 10, 6, 7, 3, 2, 1, 5>>, 11)
        [] op \in {"beq", "bne"} ->
             Layout(<<12, 11, 10, 6, 5, 4, 3, 2>>, <<8, 4, 3, 7, 6, 2, 1, 5>>, 8)
        [] op \in {"fld", "ld"} /\ q = 2 -> Layout(Sp, <<5, 4, 3, 8, 7, 6>>, 64)
        [] op = "lw" /\ q = 2 -> Layout(Sp, <<5, 4, 3, 2, 7, 6>>, 64)
        [] op \in {"fsd", "sd"} /\ q = 2 -> Layout(Down(12, 7), <<5, 4, 3, 8, 7, 6>>, 64)
        [] op = "sw" /\ q = 2 -> Layout(Down(12, 7), <<5, 4, 3, 2, 7, 6>>, 64)
        [] OTHER -> Layout(<<>>, <<>>, 64)
Layout32(op) ==
  CASE op \in ShiftOps -> Layout(Down(25, 20), Down(5, 0), 64)
    [] op \in WordShiftOps -> Layout(Down(24, 20), Down(4, 0), 64)
    [] op \in (ImmOps \ (ShiftOps \cup WordShiftOps)) \cup LoadOps \cup {"flw", "fld", "jalr"} ->
         Layout(Down(31, 20), Down(11, 0), 11)
    [] op \in StoreOps \cup {"fsw", "fsd"} ->
         Layout(Split, Down(11, 0), 11)
    [] op \in BranchOps ->
         Layout(Split, <<12, 10, 9, 8, 7, 6, 5, 4, 3, 2, 1, 11>>, 12)
    [] op \in UpperOps -> Layout(Down(31, 12), Down(31, 12), 31)
    [] op = "jal" ->
         Layout(Down(31, 12), <<20, 10, 9, 8, 7, 6, 5, 4, 3, 2, 1, 11,
                                19, 18, 17, 16, 15, 14, 13, 12>>, 20)
    [] OTHER -> Layout(<<>>, <<>>, 64)

\* Every immediate is put together from the bits that the manual names, and
\* sign-extended from its top bit: for all compressed words, and for the words
\* of 32 bits, but for the negative offsets of fsw and fsd, whose sign is lost
\* (the shifts and masks of execute_compressed and execute_general).
ImmediatesExact ==
  LET l == IF len = 2 THEN Layout16(word, ins.op) ELSE Layout32(ins.op)
      exact == Gather(word, l.from, l.to)
  IN  phase = "decoded" /\ ~(len = 4 /\ ins.op \in {"fsw", "fsd"} /\ 31 \in word)
        => ins.imm = exact \cup (IF l.sign \in exact THEN l.sign .. 63 ELSE {})

Magnitude(x) == IF x < 0 THEN 0 - x ELSE x

\* r is a remainder for x and y: smaller than y and with the sign of x.
IsRemainder(x, y, r) == Magnitude(r) < Magnitude(y) /\ (r = 0 \/ (r < 0) = (x < 0))

\* The positions of the ones among the n low bits.
Ones(x, n) == {i \in 0 .. n - 1 : Digit(x, i) = 1}

\* a is less than b, as signed numbers of n bits.
SignedLess(a, b, n) == IF Digit(a, n - 1) = Digit(b, n - 1) THEN a < b ELSE Digit(a, n - 1) = 1

\* r is what the manual says the operation gives for the n-bit numbers a and b.
IsaResult(op, n, a, b, r) ==
  LET m == 2 ^ n
      x == Signed(a, n)
      y == Signed(b, n)
      s == Signed(r, n)
      k == b % n
      A == Ones(a, n)
      B == Ones(b, n)
  IN  CASE op = "add"  -> (a + b - r) % m = 0
        [] op = "sub"  -> (r + b - a) % m = 0
        [] op = "mul"  -> (x * y - s) % m = 0
        [] op = "mulh" -> x * y - s * m \in 0 .. m - 1
        [] op = "mulhsu" -> x * b - s * m \in 0 .. m - 1
        [] op = "mulhu" -> a * b - r * m \in 0 .. m - 1
        [] op = "sll"  -> Ones(r, n) = {i \in 0 .. n - 1 : i - k \in A}
        [] op = "srl"  -> Ones(r, n) = {i \in 0 .. n - 1 : i + k \in A}
        [] op = "sra"  -> Ones(r, n) = {i \in 0 .. n - 1 : Least(i + k, n - 1) \in A}
        [] op = "xor"  -> Ones(r, n) = (A \ B) \cup (B \ A)
        [] op = "or"   -> Ones(r, n) = A \cup B
        [] op = "and"  -> Ones(r, n) = A \cap B
        [] op = "slt"  -> r = Truth(SignedLess(a, b, n))
        [] op = "sltu" -> r = Truth((a - b) % (2 * m) >= m)
        [] op = "div"  -> IF b = 0 THEN r = m - 1
                          ELSE \E q \in {s, s + m} : IsRemainder(x, y, x - q * y)
        [] op = "divu" -> IF b = 0 THEN r = m - 1 ELSE IsRemainder(a, b, a - r * b)
        [] op = "rem"  -> IF b = 0 THEN r = a
                          ELSE (x - s) % Magnitude(y) = 0 /\ IsRemainder(x, y, s)
        [] op = "remu" -> IF b = 0 THEN r = a ELSE r < b /\ (a - r) % b = 0

\* The operation on registers that an operation is a variant of.
Base ==
  [op \in ComputeOps |->
     CASE op \in {"addi", "addw", "addiw"} -> "add"
       [] op = "subw" -> "sub"             [] op = "mulw" -> "mul"
       [] op \in {"slli", "sllw", "slliw"} -> "sll"
       [] op \in {"srli", "srlw", "srliw"} -> "srl"
       [] op \in {"srai", "sraw", "sraiw"} -> "sra"
       [] op = "slti" -> "slt"             [] op = "sltiu" -> "sltu"
       [] op = "xori" -> "xor"             [] op = "ori" -> "or"
       [] op = "andi" -> "and"             [] op = "divw" -> "div"
       [] op = "divuw" -> "divu"           [] op = "remw" -> "rem"
       [] op = "remuw" -> "remu"           [] OTHER -> op]

\* rd becomes what the manual says: quotients and remainders with the signs and
\* the cases of zero and overflow, upper halves of products, shift amounts
\* taken modulo the width; for operations on words the low words alone decide
\* the low word of the result, and the result is sign-extended.  The extension is
\* not claimed for the remainder of words by zero, where the code departs from
\* its own comments (Basic, Multiply, Divide and their variants for words).
ResultsExact ==
  [][ExecuteCompute /\ ins.rd # 0 =>
       LET a == xregs[ins.rs1]
           b == IF ins.op \in ImmOps THEN imm ELSE xregs[ins.rs2]
           r == xregs'[ins.rd]
       IN  IF ins.op \notin WordImmOps \cup BasicWordOps \cup DivideWordOps
           THEN IsaResult(Base[ins.op], XLEN, a, b, r)
           ELSE /\ IsaResult(Base[ins.op], WORD, Low(a), Low(b), Low(r))
                /\ ~(ins.op \in {"remw", "remuw"} /\ Low(b) = 0) => r = Extend(r)]_insVars

\* Where control goes: a branch or jump lands at its offset from its own address,
\* whatever its length, jalr at an even address, computed from rs1 as it was
\* before the link is written, also if rd = rs1; the link is the address of the
\* next instruction, and everything else falls through (the adjustments of pc
\* by 2 and 4 in execute_compressed and execute_general).  c.jr and c.jalr expand
\* to jalr; where they land is not claimed for an odd rs1, whose bit 0 they keep.
ControlExact ==
  [][phase = "execute" =>
       LET a == xregs[ins.rs1]
           b == xregs[ins.rs2]
           jumps == \/ ins.op = "beq" /\ a = b
                    \/ ins.op = "bne" /\ a # b
                    \/ ins.op = "blt" /\ SignedLess(a, b, XLEN)
                    \/ ins.op = "bge" /\ ~SignedLess(a, b, XLEN)
                    \/ ins.op = "bltu" /\ a < b
                    \/ ins.op = "bgeu" /\ a >= b
                    \/ ins.op = "jal"
       IN  /\ ~(ins.op \in {"c.jr", "c.jalr"} /\ a % 2 = 1)
                => pc' = CASE jumps -> Unsigned(pc + imm)
                           [] ins.op = "jalr" -> 2 * (Unsigned(a + imm) \div 2)
                           [] ins.op \in {"c.jr", "c.jalr"} -> 2 * (a \div 2)
                           [] OTHER -> Unsigned(pc + len)
           /\ ins.op \in JumpOps /\ ins.rd # 0 => xregs'[ins.rd] = Unsigned(pc + len)]_insVars
=============================================================================
