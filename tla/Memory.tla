------------------------------- MODULE Memory -------------------------------
(***************************************************************************)
(* The system bus with the DRAM, the ROM and the registers of the CLINT    *)
(* (src/src/bus.rs, dram.rs, rom.rs, devices/clint.rs), at the level of    *)
(* bytes: accesses of all sizes at all offsets, in ranges that include     *)
(* their end.                                                              *)
(*                                                                         *)
(* Bytes have one bit and a doubleword DOUBLEWORD of them, so that mtime   *)
(* wraps and carries soon.  An address is a region and an offset in it.    *)
(* Shifts by the width of a register panic in a build with overflow checks *)
(* and shift by nothing in one without.                                    *)
(*                                                                         *)
(* Three guests: one that makes accesses of all kinds, and two that follow *)
(* the manual's recipes for a hart that accesses the 64-bit timer          *)
(* registers by words, while the clock ticks between their instructions:   *)
(* one sets mtimecmp, one reads mtime.                                     *)
(***************************************************************************)
EXTENDS Integers, Sequences, FiniteSets

CONSTANTS
  WORD, DOUBLEWORD,   \* sizes in bytes
  RESET, ALIGN,       \* bytes of the reset vector; alignment of the ROM
  Dtbs,               \* device trees that dtb() may find; none if dtc fails
  RomRange,           \* the end of the ROM on the bus
  DramSize,           \* bytes of memory
  Binary,             \* the bytes of the kernel image
  UartSize,           \* registers of the UART
  Checked,            \* TRUE for a build with overflow checks
  Contents,           \* contents of the registers when the guests begin
  Data,               \* values that the first guest stores
  Deadlines,          \* deadlines that the second guest sets
  MaxAccesses,        \* bound: accesses of the first guest
  MaxTicks            \* bound: ticks while the third guest reads mtime once

VARIABLES
  guest,              \* "any", "set" or "get"
  gpc,                \* where the guest is
  reg,                \* msip, mtimecmp and mtime
  rom,                \* Rom::data
  dram,               \* the bytes of memory
  mtip,               \* MTIP in MIP
  access,             \* the last access of the first guest
  result,             \* what it returned
  due,                \* history: the deadlines between which mtimecmp moves
  got,                \* what the third guest has read
  seen                \* history: the values of mtime since it began to read

vars == <<guest, gpc, reg, rom, dram, mtip, access, result, due, got, seen>>

BYTE == 1
HALFWORD == 2
Sizes == {BYTE, HALFWORD, WORD, DOUBLEWORD}

Byte == {0, 1}
Register == [0 .. DOUBLEWORD - 1 -> Byte]

\* Powers of two.
TwoTo[k \in Nat] == IF k = 0 THEN 1 ELSE 2 * TwoTo[k - 1]
Modulus == TwoTo[DOUBLEWORD]

ASSUME SizeAssumption ==
  /\ WORD \in Nat /\ HALFWORD < WORD /\ DOUBLEWORD = 2 * WORD
  /\ RESET \in Nat \ {0} /\ ALIGN \in Nat \ {0}
  /\ \A dtb \in Dtbs : dtb \in Seq(Byte)
  /\ RomRange \in Nat /\ DramSize \in Nat /\ UartSize \in Nat /\ MaxAccesses \in Nat
  /\ Checked \in BOOLEAN
  /\ Contents \subseteq Register /\ Data \subseteq Register /\ Deadlines \subseteq Register
  /\ Binary \in Seq(Byte) /\ Len(Binary) <= DramSize
  /\ MaxTicks \in 1 .. Modulus - TwoTo[WORD] \* mtime does not come round meanwhile

\* Rom::new: zeros for the reset vector, the device tree, zeros up to the
\* next multiple of ALIGN.
RomNew(dtb) ==
  LET size == ALIGN * ((RESET + Len(dtb) + ALIGN - 1) \div ALIGN)
  IN  [i \in 0 .. size - 1 |-> IF i - RESET \in 0 .. Len(dtb) - 1 THEN dtb[i - RESET + 1] ELSE 0]

\* Dram::new and Dram::initialize: the image over zeros.
DramNew == [i \in 0 .. DramSize - 1 |-> IF i < Len(Binary) THEN Binary[i + 1] ELSE 0]

Clint == {"msip", "mtimecmp", "mtime"}

\* Sizes of the registers; their ranges end one byte later.
SizeOf == [r \in Clint |-> IF r = "msip" THEN WORD ELSE DOUBLEWORD]

TypeOK ==
  /\ guest \in {"any", "set", "get"} /\ gpc \in 0 .. MaxAccesses + 3
  /\ reg \in [Clint -> Register]
  /\ \A i \in WORD .. DOUBLEWORD - 1 : reg["msip"][i] = 0
  /\ rom \in {RomNew(dtb) : dtb \in Dtbs}
  /\ dram \in [0 .. DramSize - 1 -> Byte]
  /\ mtip \in BOOLEAN
  /\ result \in [is : {"none", "data", "done", "fault", "panic", "device"}, data : Register]

----------------------------------------------------------------------------
(* The devices.                                                            *)

Zeros == [i \in 0 .. DOUBLEWORD - 1 |-> 0]
Answer(is) == [is |-> is, data |-> Zeros]
Ok(x) == [is |-> "data", data |-> x]

\* The bytes of x from offset o on, n of them, zeros above.
Slice(x, o, n) ==
  [i \in 0 .. DOUBLEWORD - 1 |-> IF i < n /\ o + i \in DOMAIN x THEN x[o + i] ELSE 0]

\* x with the n low bytes of val at offset o; what does not fit is cut off.
Patched(x, o, n, val) ==
  [i \in DOMAIN x |-> IF i - o \in 0 .. n - 1 THEN val[i - o] ELSE x[i]]

\* The offset by which a build without overflow checks shifts.
Shift(o) == o % DOUBLEWORD
ShiftPanics(o, n) == Checked /\ n # DOUBLEWORD /\ o >= DOUBLEWORD

\* Shifts by bytes, & and | of bytes of one bit, and the masks of the CLINT as
\* the sets of the bytes that they keep.
ShiftRight(x, k) == [i \in 0 .. DOUBLEWORD - 1 |-> IF i + k < DOUBLEWORD THEN x[i + k] ELSE 0]
ShiftLeft(x, k) == [i \in 0 .. DOUBLEWORD - 1 |-> IF i >= k THEN x[i - k] ELSE 0]
And(x, mask) == [i \in 0 .. DOUBLEWORD - 1 |-> IF i \in mask THEN x[i] ELSE 0]
Or(x, y) == [i \in 0 .. DOUBLEWORD - 1 |-> IF x[i] = 1 \/ y[i] = 1 THEN 1 ELSE 0]

xff == 0 .. BYTE - 1
xffff == 0 .. HALFWORD - 1
xffffffff == 0 .. WORD - 1

\* Clint::read
clint_read(r, o, n) ==
  LET x == ShiftRight(reg[r], Shift(o))
  IN  IF ShiftPanics(o, n) THEN Answer("panic")
      ELSE Ok(CASE n = BYTE       -> And(x, xff)
                [] n = HALFWORD   -> And(x, xffff)
                [] n = WORD       -> And(x, xffffffff)
                [] n = DOUBLEWORD -> reg[r])

\* Mutant: msip keeps 64 bits.
Kept_Wide(r, x) == x

\* msip keeps 32 bits.
Kept(r, x) == IF r = "msip" THEN Slice(x, 0, WORD) ELSE x

\* (x & !(mask << 8k)) | ((val & mask) << 8k)
Replaced(x, mask, k, val) ==
  Or(And(x, (0 .. DOUBLEWORD - 1) \ {i + k : i \in mask}), ShiftLeft(And(val, mask), k))

\* Mutant: a store of a halfword clears and sets the bytes of a word.
clint_write_WideMask(r, o, n, val) ==
  LET replaced(mask) == Replaced(reg[r], mask, Shift(o), val)
  IN  Kept(r, CASE n = BYTE       -> replaced(xff)
                [] n = HALFWORD   -> replaced(xffffffff)
                [] n = WORD       -> replaced(xffffffff)
                [] n = DOUBLEWORD -> val)

\* Clint::write: the new value of the register.
clint_write(r, o, n, val) ==
  LET replaced(mask) == Replaced(reg[r], mask, Shift(o), val)
  IN  Kept(r, CASE n = BYTE       -> replaced(xff)
                [] n = HALFWORD   -> replaced(xffff)
                [] n = WORD       -> replaced(xffffffff)
                [] n = DOUBLEWORD -> val)

\* Dram::read and Rom::read index one byte after the other.
array_read(x, o, n) ==
  IF o + n - 1 \in DOMAIN x THEN Ok(Slice(x, o, n)) ELSE Answer("panic")

Access(kind, r, o, n, val) ==
  [kind |-> kind, region |-> r, offset |-> o, size |-> n, value |-> val]

\* The ranges of the bus.
InRange(r, o) ==
  CASE r = "rom"    -> o <= RomRange
    [] r \in Clint  -> o <= SizeOf[r]
    [] r = "uart"   -> o <= UartSize
    [] r = "dram"   -> o <= DramSize
    [] r = "none"   -> o = 0

\* The UART takes bytes only, and its last address has no register; the rest
\* of it is in module Uart.
uart_access(o, n) ==
  Answer(IF n # 1 THEN "fault" ELSE IF o = UartSize THEN "panic" ELSE "device")

\* Bus::read
bus_read(r, o, n) ==
  CASE r = "rom"   -> array_read(rom, o, n)
    [] r \in Clint -> clint_read(r, o, n)
    [] r = "uart"  -> uart_access(o, n)
    [] r = "dram"  -> array_read(dram, o, n)
    [] r = "none"  -> Answer("fault")

\* Bus::write: the answer.
bus_write(r, o, n) ==
  CASE r \in {"rom", "none"} -> Answer("fault")
    [] r \in Clint -> Answer(IF ShiftPanics(o, n) THEN "panic" ELSE "done")
    [] r = "uart"  -> uart_access(o, n)
    [] r = "dram"  -> Answer(IF o + n - 1 \in DOMAIN dram THEN "done" ELSE "panic")

\* The sums of the first 0, 1, .. digits of a register, and the number it holds.
Sums(x) ==
  LET sum[k \in 0 .. DOUBLEWORD] == IF k = 0 THEN 0 ELSE sum[k - 1] + x[k - 1] * TwoTo[k - 1]
  IN  sum
Number(x) == Sums(x)[DOUBLEWORD]
Digits(m) == [i \in 0 .. DOUBLEWORD - 1 |-> (m \div TwoTo[i]) % 2]

\* Mutant: compares the low words.
increment_LowWord ==
  LET now == (Number(reg["mtime"]) + 1) % Modulus
  IN  /\ reg' = [reg EXCEPT !["mtime"] = Digits(now)]
      /\ mtip' = (now % TwoTo[WORD] >= Number(reg["mtimecmp"]) % TwoTo[WORD])

\* Mutant: adds one to either word.
increment_Halves ==
  LET now == (Number(reg["mtime"]) + 1 + TwoTo[WORD]) % Modulus
  IN  /\ reg' = [reg EXCEPT !["mtime"] = Digits(now)]
      /\ mtip' = (now >= Number(reg["mtimecmp"]))

\* Clint::increment, without MSIP (module Hart).
increment ==
  LET now == (Number(reg["mtime"]) + 1) % Modulus
  IN  /\ reg' = [reg EXCEPT !["mtime"] = Digits(now)]
      /\ mtip' = (now >= Number(reg["mtimecmp"]))

----------------------------------------------------------------------------
(* The guests.                                                             *)

Running == result.is # "panic"

\* A tick of the clock, between two instructions.
Tick ==
  /\ Running
  /\ Cardinality(seen) <= MaxTicks
  /\ increment
  /\ seen' = IF guest = "get" THEN seen \cup {reg'["mtime"]} ELSE seen
  /\ UNCHANGED <<guest, gpc, rom, dram, access, result, due, got>>

\* One load and one store.  A store past the end of the memory has written the
\* bytes before the end when it panics.
Load(r, o, n) ==
  /\ Running /\ InRange(r, o)
  /\ access' = Access("load", r, o, n, Zeros)
  /\ result' = bus_read(r, o, n)
  /\ UNCHANGED <<guest, reg, rom, dram, mtip, due>>

Store(r, o, n, val) ==
  /\ Running /\ InRange(r, o)
  /\ access' = Access("store", r, o, n, val)
  /\ result' = bus_write(r, o, n)
  /\ reg' = IF r \in Clint /\ result'.is = "done"
            THEN [reg EXCEPT ![r] = clint_write(r, o, n, val)] ELSE reg
  /\ dram' = IF r = "dram" THEN Patched(dram, o, n, val) ELSE dram
  /\ UNCHANGED <<guest, rom, mtip, got, seen>>

AnyLoad(r, o, n) ==
  /\ guest = "any" /\ gpc < MaxAccesses /\ gpc' = gpc + 1
  /\ Load(r, o, n)
  /\ UNCHANGED <<got, seen>>

AnyStore(r, o, n, val) ==
  /\ guest = "any" /\ gpc < MaxAccesses /\ gpc' = gpc + 1
  /\ Store(r, o, n, val)
  /\ UNCHANGED due

Ones == [i \in 0 .. DOUBLEWORD - 1 |-> 1]

\* A new deadline x: first the low word to its greatest value, then the upper
\* word, then the low word.
SetBegin(x) ==
  /\ guest = "set" /\ gpc = 0 /\ gpc' = 1
  /\ due' = [old |-> reg["mtimecmp"], new |-> x]
  /\ Store("mtimecmp", 0, WORD, Ones)

SetUpper ==
  /\ guest = "set" /\ gpc = 1 /\ gpc' = 2
  /\ Store("mtimecmp", WORD, WORD, Slice(due.new, WORD, WORD))
  /\ UNCHANGED due

SetLower ==
  /\ guest = "set" /\ gpc = 2 /\ gpc' = 0
  /\ Store("mtimecmp", 0, WORD, Slice(due.new, 0, WORD))
  /\ due' = [due EXCEPT !.old = due.new]

\* Read the upper word, the lower and the upper again, until the two agree.
GetUpper ==
  /\ guest = "get" /\ gpc \in {0, 3} /\ gpc' = 1
  /\ Load("mtime", WORD, WORD)
  /\ got' = [upper |-> result'.data, lower |-> Zeros]
  /\ seen' = {reg["mtime"]}

GetLower ==
  /\ guest = "get" /\ gpc = 1 /\ gpc' = 2
  /\ Load("mtime", 0, WORD)
  /\ got' = [got EXCEPT !.lower = result'.data]
  /\ UNCHANGED seen

GetAgain ==
  /\ guest = "get" /\ gpc = 2
  /\ Load("mtime", WORD, WORD)
  /\ IF result'.data = got.upper
     THEN gpc' = 3 /\ UNCHANGED <<got, seen>>
     ELSE gpc' = 1 /\ got' = [got EXCEPT !.upper = result'.data] /\ seen' = {reg["mtime"]}

----------------------------------------------------------------------------

Init ==
  /\ guest \in {"any", "set", "get"}
  /\ gpc = 0
  /\ reg \in {[r \in Clint |-> Kept(r, x[r])] : x \in [Clint -> Contents]}
  /\ rom \in {RomNew(dtb) : dtb \in Dtbs}
  /\ dram = DramNew
  /\ mtip = FALSE
  /\ access = Access("none", "none", 0, 0, Zeros) /\ result = Answer("none")
  /\ due = [old |-> reg["mtimecmp"], new |-> reg["mtimecmp"]]
  /\ got = [upper |-> Zeros, lower |-> Zeros] /\ seen = {}

Regions == Clint \cup {"rom", "uart", "dram", "none"}
Offsets == 0 .. RomRange + DramSize + UartSize + DOUBLEWORD

Next ==
  \/ Tick
  \/ \E r \in Regions, o \in Offsets, n \in Sizes : AnyLoad(r, o, n)
  \/ \E r \in Regions, o \in Offsets, n \in Sizes, val \in Data : AnyStore(r, o, n, val)
  \/ \E x \in Deadlines : SetBegin(x)
  \/ SetUpper
  \/ SetLower
  \/ GetUpper
  \/ GetLower
  \/ GetAgain

Spec == Init /\ [][Next]_vars

----------------------------------------------------------------------------
(* Properties.                                                             *)

\* The bytes of the regions as the guest sees them.
AsBytes ==
  [r \in Clint \cup {"rom", "dram"} |->
     CASE r = "rom"  -> rom
       [] r = "dram" -> dram
       [] OTHER      -> [i \in 0 .. SizeOf[r] - 1 |-> reg[r][i]]]

Bytes == INSTANCE ByteMemory WITH
           bytes <- AsBytes, ReadOnly <- {"rom"}, Devices <- {"uart"}, Clock <- "mtime",
           Width <- DOUBLEWORD

\* Loads and stores of any size inside a register, the memory or the ROM read
\* and replace exactly the bytes they name and succeed, for the shifts and
\* masks of the CLINT and the bytes of the memory alike; accesses across an
\* end, which may panic, reach no other region (Bus, Clint, Dram and Rom).
ImplementsBytes == Bytes!Spec

\* While a guest moves the deadline in three stores of words, no tick posts a
\* timer interrupt before the old deadline and before the new one; afterwards
\* every tick posts it from the new one on (Clint::write and Clint::increment).
TimerIsDue ==
  [][guest = "set" /\ Tick =>
       LET now == Number(reg'["mtime"])
       IN  /\ mtip' => now >= Number(due.old) \/ now >= Number(due.new)
           /\ gpc = 0 /\ now >= Number(due.new) => mtip']_vars

\* The time put together from three reads of words is one that the clock had
\* during the reads, also if it carries or wraps in between (Clint::read).
TimeIsWhole ==
  guest = "get" /\ gpc = 3 =>
    [i \in 0 .. DOUBLEWORD - 1 |-> IF i < WORD THEN got.lower[i] ELSE got.upper[i - WORD]] \in seen
=============================================================================
