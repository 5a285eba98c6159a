------------------------------- MODULE Decode -------------------------------
(***************************************************************************)
(* The decoding of integer, control and memory instructions, compressed or *)
(* not (execute_compressed and the first lines of each opcode of           *)
(* execute_general in src/src/cpu.rs).                                     *)
(*                                                                         *)
(* A word, and an immediate of 64 bits, is the set of the positions of its *)
(* ones, so that shifts, masks and casts keep their width.  A decoded      *)
(* instruction is a record; a field that the instruction does not have is  *)
(* zero or the empty set.  The compressed instructions decode to what they *)
(* do, under the name of the instruction whose effect it is; c.jr and      *)
(* c.jalr have effects of their own.                                       *)
(***************************************************************************)
EXTENDS Integers, Sequences

\* (inst >> shift) & mask, where mask is the set of the positions of its ones
\* and a negative shift is one to the left.
Field(inst, shift, mask) == {j \in mask : j + shift \in inst}

\* ((inst & mask) as i32 as i64) >> shift
FieldSigned(inst, shift, mask) ==
  {j \in 0 .. 63 : (IF j + shift <= 31 THEN j + shift ELSE 31) \in inst \cap mask}

\* The number whose ones are at the positions s, of a field of at most 7 bits.
Num(s) ==
  LET d(j, n) == IF j \in s THEN n ELSE 0
  IN  d(0, 1) + d(1, 2) + d(2, 4) + d(3, 8) + d(4, 16) + d(5, 32) + d(6, 64)

\* Sign extension of a compressed immediate whose top bit is `top'.
SignExtended(imm, top) == IF top \in imm THEN imm \cup top .. 63 ELSE imm

Ins(op, rd, rs1, rs2, imm) ==
  [op |-> op, rd |-> rd, rs1 |-> rs1, rs2 |-> rs2, imm |-> imm]

Illegal == Ins("illegal", 0, 0, 0, {})
Nop == Ins("nop", 0, 0, 0, {})
Panic == Ins("panic", 0, 0, 0, {})

----------------------------------------------------------------------------
(* Compressed instructions.                                                *)

\* The three-bit register fields stand for x8 to x15.
Reg3(inst, shift) == Num(Field(inst, shift, 0 .. 2)) + 8
Reg5(inst, shift) == Num(Field(inst, shift, 0 .. 4))

Offset_lw(inst) == Field(inst, -1, {6}) \cup Field(inst, 7, 3 .. 5) \cup Field(inst, 4, {2})
Offset_ld(inst) == Field(inst, -1, 6 .. 7) \cup Field(inst, 7, 3 .. 5)

Quadrant0(inst) ==
  LET nzuimm == Field(inst, 1, 6 .. 9) \cup Field(inst, 7, 4 .. 5)
                  \cup Field(inst, 2, {3}) \cup Field(inst, 4, {2})
      low == Reg3(inst, 2)
      rs1 == Reg3(inst, 7)
      funct3 == Num(Field(inst, 13, 0 .. 2))
  IN  CASE funct3 = 0 -> IF nzuimm = {} THEN Illegal ELSE Ins("addi", low, 2, 0, nzuimm)
        [] funct3 = 1 -> Ins("fld", low, rs1, 0, Offset_ld(inst))
        [] funct3 = 2 -> Ins("lw", low, rs1, 0, Offset_lw(inst))
        [] funct3 = 3 -> Ins("ld", low, rs1, 0, Offset_ld(inst))
        [] funct3 = 4 -> Panic
        [] funct3 = 5 -> Ins("fsd", 0, rs1, low, Offset_ld(inst))
        [] funct3 = 6 -> Ins("sw", 0, rs1, low, Offset_lw(inst))
        [] funct3 = 7 -> Ins("sd", 0, rs1, low, Offset_ld(inst))

\* imm[5|4:0] = inst[12|6:2]
Imm6(inst) == Field(inst, 7, {5}) \cup Field(inst, 2, 0 .. 4)

\* c.addi16sp with its sign taken from the wrong bit.
Imm_addi16sp_Bit8(inst) ==
  SignExtended(Field(inst, 3, {9}) \cup Field(inst, 2, {4}) \cup Field(inst, -1, {6})
                 \cup Field(inst, -4, 7 .. 8) \cup Field(inst, -3, {5}), 8)

Imm_addi16sp(inst) ==
  SignExtended(Field(inst, 3, {9}) \cup Field(inst, 2, {4}) \cup Field(inst, -1, {6})
                 \cup Field(inst, -4, 7 .. 8) \cup Field(inst, -3, {5}), 9)

Imm_lui(inst) == SignExtended(Field(inst, -5, {17}) \cup Field(inst, -10, 12 .. 16), 17)

\* c.addi16sp and c.lui share funct3 = 3.
AddSpOrLui(inst) ==
  LET rd == Reg5(inst, 7)
  IN  CASE rd = 0 -> Nop
        [] rd = 2 -> IF Imm_addi16sp(inst) = {} THEN Nop
                     ELSE Ins("addi", 2, 2, 0, Imm_addi16sp(inst))
        [] OTHER  -> IF Imm_lui(inst) = {} THEN Nop
                     ELSE Ins("lui", rd, 0, 0, Imm_lui(inst))

\* funct3 = 4: shifts, c.andi and the register operations.
Misc(inst) ==
  LET rd == Reg3(inst, 7)
      rs2 == Reg3(inst, 2)
      funct2 == Num(Field(inst, 10, 0 .. 1))
      op == Num(Field(inst, 5, 0 .. 1))
  IN  CASE funct2 = 0 -> Ins("srli", rd, rd, 0, Imm6(inst))
        [] funct2 = 1 -> Ins("srai", rd, rd, 0, Imm6(inst))
        [] funct2 = 2 -> Ins("andi", rd, rd, 0, SignExtended(Imm6(inst), 5))
        [] funct2 = 3 -> IF 12 \notin inst
                         THEN Ins(<<"sub", "xor", "or", "and">>[op + 1], rd, rd, rs2, {})
                         ELSE IF op \in {0, 1}
                         THEN Ins(<<"subw", "addw">>[op + 1], rd, rd, rs2, {})
                         ELSE Illegal

Offset_j(inst) ==
  SignExtended(Field(inst, 1, {11}) \cup Field(inst, -2, {10}) \cup Field(inst, 1, 8 .. 9)
                 \cup Field(inst, -1, {7}) \cup Field(inst, 1, {6}) \cup Field(inst, -3, {5})
                 \cup Field(inst, 7, {4}) \cup Field(inst, 2, 1 .. 3), 11)

Offset_b(inst) ==
  SignExtended(Field(inst, 4, {8}) \cup Field(inst, -1, 6 .. 7) \cup Field(inst, -3, {5})
                 \cup Field(inst, 7, 3 .. 4) \cup Field(inst, 2, 1 .. 2), 8)

Quadrant1(inst) ==
  LET rd == Reg5(inst, 7)
      imm == SignExtended(Imm6(inst), 5)
      funct3 == Num(Field(inst, 13, 0 .. 2))
  IN  CASE funct3 = 0 -> Ins("addi", rd, rd, 0, imm)
        [] funct3 = 1 -> Ins("addiw", rd, rd, 0, imm)
        [] funct3 = 2 -> Ins("addi", rd, 0, 0, imm)
        [] funct3 = 3 -> AddSpOrLui(inst)
        [] funct3 = 4 -> Misc(inst)
        [] funct3 = 5 -> Ins("jal", 0, 0, 0, Offset_j(inst))
        [] funct3 = 6 -> Ins("beq", 0, Reg3(inst, 7), 0, Offset_b(inst))
        [] funct3 = 7 -> Ins("bne", 0, Reg3(inst, 7), 0, Offset_b(inst))

\* funct3 = 4: jumps, moves and c.ebreak.
JumpOrMove(inst) ==
  LET r1 == Reg5(inst, 7)
      rs2 == Reg5(inst, 2)
  IN  CASE 12 \notin inst /\ rs2 = 0 -> IF r1 = 0 THEN Nop ELSE Ins("c.jr", 0, r1, 0, {})
        [] 12 \notin inst /\ rs2 # 0 -> Ins("add", r1, 0, rs2, {})
        [] 12 \in inst /\ rs2 = 0    -> IF r1 = 0 THEN Ins("ebreak", 0, 0, 0, {})
                                        ELSE Ins("c.jalr", 1, r1, 0, {})
        [] 12 \in inst /\ rs2 # 0    -> Ins("add", r1, r1, rs2, {})

Offset_ldsp(inst) ==
  Field(inst, -4, 6 .. 8) \cup Field(inst, 7, {5}) \cup Field(inst, 2, 3 .. 4)
Offset_lwsp(inst) ==
  Field(inst, -4, 6 .. 7) \cup Field(inst, 7, {5}) \cup Field(inst, 2, 2 .. 4)
Offset_sdsp(inst) == Field(inst, 1, 6 .. 8) \cup Field(inst, 7, 3 .. 5)
Offset_swsp(inst) == Field(inst, 1, 6 .. 7) \cup Field(inst, 7, 2 .. 5)

Quadrant2(inst) ==
  LET rd == Reg5(inst, 7)
      rs2 == Reg5(inst, 2)
      funct3 == Num(Field(inst, 13, 0 .. 2))
  IN  CASE funct3 = 0 -> Ins("slli", rd, rd, 0, Imm6(inst))
        [] funct3 = 1 -> Ins("fld", rd, 2, 0, Offset_ldsp(inst))
        [] funct3 = 2 -> Ins("lw", rd, 2, 0, Offset_lwsp(inst))
        [] funct3 = 3 -> Ins("ld", rd, 2, 0, Offset_ldsp(inst))
        [] funct3 = 4 -> JumpOrMove(inst)
        [] funct3 = 5 -> Ins("fsd", 0, 2, rs2, Offset_sdsp(inst))
        [] funct3 = 6 -> Ins("sw", 0, 2, rs2, Offset_swsp(inst))
        [] funct3 = 7 -> Ins("sd", 0, 2, rs2, Offset_sdsp(inst))

----------------------------------------------------------------------------
(* General instructions.                                                   *)

Imm_I(inst) == FieldSigned(inst, 20, 0 .. 31)
Imm_S(inst) == FieldSigned(inst, 20, 25 .. 31) \cup Field(inst, 7, 0 .. 4)
\* The stores of floating-point registers cut the sign off.
Imm_FS(inst) == (FieldSigned(inst, 20, 0 .. 31) \cap 5 .. 11) \cup Field(inst, 7, 0 .. 4)
Imm_U(inst) == FieldSigned(inst, 0, 12 .. 31)
Imm_B(inst) == FieldSigned(inst, 19, {31}) \cup Field(inst, -4, {11})
                 \cup Field(inst, 20, 5 .. 10) \cup Field(inst, 7, 1 .. 4)
Imm_J(inst) == FieldSigned(inst, 11, {31}) \cup Field(inst, 0, 12 .. 19)
                 \cup Field(inst, 9, {11}) \cup Field(inst, 20, 1 .. 10)

funct3_of(inst) == Num(Field(inst, 12, 0 .. 2))
funct7_of(inst) == Num(Field(inst, 25, 0 .. 6))
rd_of(inst) == Reg5(inst, 7)
rs1_of(inst) == Reg5(inst, 15)
rs2_of(inst) == Reg5(inst, 20)

FormatI(op, inst, imm) == Ins(op, rd_of(inst), rs1_of(inst), 0, imm)
FormatS(op, inst, imm) == Ins(op, 0, rs1_of(inst), rs2_of(inst), imm)

\* The opcodes 0x03 and 0x07.
LoadOp(inst) ==
  LET f3 == funct3_of(inst)
  IN  IF f3 = 7 THEN Illegal
      ELSE FormatI(<<"lb", "lh", "lw", "ld", "lbu", "lhu", "lwu">>[f3 + 1], inst, Imm_I(inst))
FloatLoadOp(inst) ==
  CASE funct3_of(inst) = 2 -> FormatI("flw", inst, Imm_I(inst))
    [] funct3_of(inst) = 3 -> FormatI("fld", inst, Imm_I(inst))
    [] OTHER -> Illegal

\* The opcodes 0x23 and 0x27.
StoreOp(inst) ==
  LET f3 == funct3_of(inst)
  IN  IF f3 > 3 THEN Illegal
      ELSE FormatS(<<"sb", "sh", "sw", "sd">>[f3 + 1], inst, Imm_S(inst))
FloatStoreOp(inst) ==
  CASE funct3_of(inst) = 2 -> FormatS("fsw", inst, Imm_FS(inst))
    [] funct3_of(inst) = 3 -> FormatS("fsd", inst, Imm_FS(inst))
    [] OTHER -> Illegal

\* The opcode 0x13; the six bits of a shift amount are masked.
ImmediateOp(inst) ==
  LET f3 == funct3_of(inst)
      funct6 == funct7_of(inst) \div 2
      shamt == Field(inst, 20, 0 .. 5)
  IN  CASE f3 = 0 -> FormatI("addi", inst, Imm_I(inst))
        [] f3 = 1 -> FormatI("slli", inst, shamt)
        [] f3 = 2 -> FormatI("slti", inst, Imm_I(inst))
        [] f3 = 3 -> FormatI("sltiu", inst, Imm_I(inst))
        [] f3 = 4 -> FormatI("xori", inst, Imm_I(inst))
        [] f3 = 5 -> IF funct6 = 0 THEN FormatI("srli", inst, shamt)
                     ELSE IF funct6 = 16 THEN FormatI("srai", inst, shamt)
                     ELSE Illegal
        [] f3 = 6 -> FormatI("ori", inst, Imm_I(inst))
        [] f3 = 7 -> FormatI("andi", inst, Imm_I(inst))

\* The opcode 0x1b.
ImmediateWordOp(inst) ==
  LET f3 == funct3_of(inst)
      f7 == funct7_of(inst)
      shamt == Imm_I(inst) \cap 0 .. 4
  IN  CASE f3 = 0 -> FormatI("addiw", inst, Imm_I(inst))
        [] f3 = 1 -> FormatI("slliw", inst, shamt)
        [] f3 = 5 /\ f7 = 0  -> FormatI("srliw", inst, shamt)
        [] f3 = 5 /\ f7 = 32 -> FormatI("sraiw", inst, shamt)
        [] OTHER -> Illegal

\* The opcode 0x33: funct3 and funct7 select the operation.
RegisterName(f3, f7) ==
  CASE f7 = 0  -> <<"add", "sll", "slt", "sltu", "xor", "srl", "or", "and">>[f3 + 1]
    [] f7 = 1  -> <<"mul", "mulh", "mulhsu", "mulhu", "div", "divu", "rem", "remu">>[f3 + 1]
    [] f7 = 32 /\ f3 = 0 -> "sub"
    [] f7 = 32 /\ f3 = 5 -> "sra"
    [] OTHER   -> "illegal"

\* The opcode 0x3b.
RegisterWordName(f3, f7) ==
  CASE f3 = 0 /\ f7 = 0  -> "addw"  [] f3 = 0 /\ f7 = 1  -> "mulw"
    [] f3 = 0 /\ f7 = 32 -> "subw"  [] f3 = 1 /\ f7 = 0  -> "sllw"
    [] f3 = 4 /\ f7 = 1  -> "divw"  [] f3 = 5 /\ f7 = 0  -> "srlw"
    [] f3 = 5 /\ f7 = 1  -> "divuw" [] f3 = 5 /\ f7 = 32 -> "sraw"
    [] f3 = 6 /\ f7 = 1  -> "remw"  [] f3 = 7 /\ f7 = 1  -> "remuw"
    [] OTHER -> "illegal"

RegisterOp(inst, op) ==
  IF op = "illegal" THEN Illegal
  ELSE Ins(op, rd_of(inst), rs1_of(inst), rs2_of(inst), {})

\* The opcode 0x63.
BranchOp(inst) ==
  LET f3 == funct3_of(inst)
  IN  CASE f3 = 0 -> FormatS("beq", inst, Imm_B(inst))
        [] f3 = 1 -> FormatS("bne", inst, Imm_B(inst))
        [] f3 = 4 -> FormatS("blt", inst, Imm_B(inst))
        [] f3 = 5 -> FormatS("bge", inst, Imm_B(inst))
        [] f3 = 6 -> FormatS("bltu", inst, Imm_B(inst))
        [] f3 = 7 -> FormatS("bgeu", inst, Imm_B(inst))
        [] OTHER  -> Illegal

\* The opcodes that are modelled; the others are the A extension (Atomics), the
\* system instructions (Hart) and floating-point arithmetic.
Opcodes == {3, 7, 15, 19, 23, 27, 35, 39, 51, 55, 59, 99, 103, 111}

General(inst) ==
  LET opcode == Num(Field(inst, 0, 0 .. 6))
  IN  CASE opcode = 3   -> LoadOp(inst)
        [] opcode = 7   -> FloatLoadOp(inst)
        [] opcode = 15  -> IF funct3_of(inst) \in {0, 1} THEN Nop ELSE Illegal
        [] opcode = 19  -> ImmediateOp(inst)
        [] opcode = 23  -> Ins("auipc", rd_of(inst), 0, 0, Imm_U(inst))
        [] opcode = 27  -> ImmediateWordOp(inst)
        [] opcode = 35  -> StoreOp(inst)
        [] opcode = 39  -> FloatStoreOp(inst)
        [] opcode = 51  -> RegisterOp(inst, RegisterName(funct3_of(inst), funct7_of(inst)))
        [] opcode = 55  -> Ins("lui", rd_of(inst), 0, 0, Imm_U(inst))
        [] opcode = 59  -> RegisterOp(inst, RegisterWordName(funct3_of(inst), funct7_of(inst)))
        [] opcode = 99  -> BranchOp(inst)
        [] opcode = 103 -> FormatI("jalr", inst, Imm_I(inst))
        [] opcode = 111 -> Ins("jal", rd_of(inst), 0, 0, Imm_J(inst))

\* The two lowest bits tell the length of the instruction.
IsCompressed(inst) == ~({0, 1} \subseteq inst)

Decoded(inst) ==
  IF ~IsCompressed(inst) THEN General(inst)
  ELSE IF inst = {} THEN Illegal
  ELSE IF inst \cap {0, 1} = {} THEN Quadrant0(inst)
  ELSE IF 0 \in inst THEN Quadrant1(inst)
  ELSE Quadrant2(inst)
=============================================================================
