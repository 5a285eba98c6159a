------------------------------ MODULE Atomics ------------------------------
(***************************************************************************)
(* The A extension (the 0x2f opcode of execute_general in src/src/cpu.rs): *)
(* LR and SC with the reservation set, the AMOs, and the stores of the     *)
(* hart and of a device that they compete with.  An AMO or an SC is one    *)
(* step: the emulator has one hart and its devices run between             *)
(* instructions.                                                           *)
(*                                                                         *)
(* Sizes are scaled down: a byte holds one bit, so that a word has WORD    *)
(* bytes and a doubleword XLEN bytes.  The guest stays in one address      *)
(* space, in which all its addresses are mapped; Phys is the translation,  *)
(* which may map two of them to the same bytes.  An access is contiguous   *)
(* in physical memory, whatever its size.                                  *)
(***************************************************************************)
EXTENDS Numbers

CONSTANTS
  MemSize,           \* bytes of memory
  ReadOnly,          \* bytes of the ROM, where a write is an access fault
  Phys,              \* physical addresses of the addresses the guest uses
  Ops, Values,       \* AMOs the guest uses, and values of rs2
  AmoAddrs, AmoSizes,     \* addresses and operand sizes of its AMOs,
  LrAddrs, LrSizes,       \* of LR and SC
  StoreAddrs, StoreSizes, \* and of its ordinary stores
  DmaAddrs,          \* physical addresses that a device writes to
  MaxCopies          \* bound: copies of an address in the reservation set

VARIABLES
  mem,               \* the bytes of memory
  rd,                \* the destination register
  reservation_set,   \* Cpu::reservation_set, a vector: the copies of each address
  trap,              \* the exception of the last step, or "none"
  linked             \* history: addresses that the hart has not written to since LR

vars == <<mem, rd, reservation_set, trap, linked>>

Address == 0 .. MemSize - 1
AmoOps == {"add", "swap", "xor", "or", "and", "min", "max", "minu", "maxu"}

ASSUME SizeAssumption == MemSize \in Nat /\ MemSize % XLEN = 0
ASSUME GuestAssumption ==
  /\ ReadOnly \subseteq Address
  /\ Ops \subseteq AmoOps /\ Values \subseteq Register
  /\ AmoSizes \subseteq {WORD, XLEN} /\ LrSizes \subseteq {WORD, XLEN}
  /\ StoreSizes \subseteq {1, WORD, XLEN}
  /\ AmoAddrs \cup LrAddrs \cup StoreAddrs \subseteq Nat
  /\ Phys \in [AmoAddrs \cup LrAddrs \cup StoreAddrs -> Address]
  /\ \A a \in DOMAIN Phys : Phys[a] % XLEN = a % XLEN \* the offset in a page stays
  /\ DmaAddrs \subseteq Address /\ MaxCopies \in Nat

TypeOK ==
  /\ mem \in [Address -> {0, 1}]
  /\ rd \in Register
  /\ reservation_set \in [LrAddrs -> 0 .. MaxCopies]
  /\ trap \in {"none", "LoadAddressMisaligned", "StoreAMOAddressMisaligned",
               "StoreAMOAccessFault"}
  /\ linked \subseteq LrAddrs

----------------------------------------------------------------------------
(* Bytes, little endian.                                                   *)

\* The bytes of an access to the address a.
Bytes(a, n) == Phys[a] .. Phys[a] + n - 1

\* Cpu::read
Load(a, n) == Number([i \in 0 .. n - 1 |-> mem[Phys[a] + i]], n)

\* mem with the low digits of val from the physical address p on, in s.
Stored(s, p, val) == [b \in Address |-> IF b \in s THEN Digit(val, b - p) ELSE mem[b]]

----------------------------------------------------------------------------

\* reservation_set.contains(&a)
Contains(a) == a \in LrAddrs /\ reservation_set[a] > 0

\* Mutant: only one copy of the address goes.
Dropped_One(a) ==
  [b \in LrAddrs |-> IF b = a /\ reservation_set[b] > 0 THEN reservation_set[b] - 1 ELSE reservation_set[b]]

\* reservation_set.retain(|&x| x != a)
Dropped(a) == [b \in LrAddrs |-> IF b = a THEN 0 ELSE reservation_set[b]]

\* Cpu::write, from the hart: drops the reservation of the address it writes
\* to, before it finds out whether it can, and no other.
write(a, n, val) ==
  /\ reservation_set' = Dropped(a)
  /\ linked' = linked \ {a}
  /\ IF Bytes(a, n) \cap ReadOnly # {}
     THEN trap' = "StoreAMOAccessFault" /\ UNCHANGED mem
     ELSE trap' = "none" /\ mem' = Stored(Bytes(a, n), Phys[a], val)

Misaligned(exception) ==
  /\ trap' = exception
  /\ UNCHANGED <<mem, rd, reservation_set, linked>>

\* Mutant: the sign-extended word is not cast back.
Extended_NoCast(t, n) == IF n = WORD THEN Signed(t, WORD) ELSE t

\* What rd gets from the n bytes t: a word is sign-extended.
Extended(t, n) == IF n = WORD THEN Unsigned(Signed(t, WORD)) ELSE t

\* lr.w and lr.d: another copy of the address, up to the bound.
lr(a, n) ==
  IF a % n # 0 THEN Misaligned("LoadAddressMisaligned")
  ELSE /\ reservation_set[a] < MaxCopies
       /\ rd' = Extended(Load(a, n), n)
       /\ reservation_set' = [reservation_set EXCEPT ![a] = @ + 1]
       /\ trap' = "none"
       /\ linked' = linked \cup {a}
       /\ UNCHANGED mem

\* sc.w and sc.d
sc(a, n, val) ==
  IF a % n # 0 THEN Misaligned("StoreAMOAddressMisaligned")
  ELSE IF Contains(a)
  THEN /\ write(a, n, val)
       /\ rd' = IF trap' = "none" THEN 0 ELSE rd
  ELSE /\ rd' = 1
       /\ trap' = "none"
       /\ UNCHANGED <<mem, reservation_set, linked>>

\* The value that an AMO with the operand val stores over t.
AmoValue(op, n, t, val) ==
  CASE op = "add"  -> Unsigned(t + val)
    [] op = "swap" -> val
    [] op = "xor"  -> Bitwise(Xor, t, val)
    [] op = "or"   -> Bitwise(Or, t, val)
    [] op = "and"  -> Bitwise(And, t, val)
    [] op = "min"  -> Unsigned(Least(Signed(t, n), Signed(val, n)))
    [] op = "max"  -> Unsigned(Greatest(Signed(t, n), Signed(val, n)))
    [] op = "minu" -> Least(t % 2 ^ n, val % 2 ^ n)
    [] op = "maxu" -> Greatest(t % 2 ^ n, val % 2 ^ n)

\* Mutant: rd is written before the memory.
amo_RdFirst(op, a, n, val) ==
  IF a % n # 0 THEN Misaligned("LoadAddressMisaligned")
  ELSE LET t == Load(a, n)
       IN  /\ write(a, n, AmoValue(op, n, t, val))
           /\ rd' = Extended(t, n)

\* The AMOs; they raise load exceptions for misaligned addresses.
amo(op, a, n, val) ==
  IF a % n # 0 THEN Misaligned("LoadAddressMisaligned")
  ELSE LET t == Load(a, n)
       IN  /\ write(a, n, AmoValue(op, n, t, val))
           /\ rd' = IF trap' = "none" THEN Extended(t, n) ELSE rd

\* An ordinary store, which need not be aligned.
store(a, n, val) ==
  /\ write(a, n, val)
  /\ UNCHANGED rd

\* A device writes a byte (Virtio::disk_access): through the bus, not through
\* Cpu::write.
DmaWrite(a, val) ==
  /\ a \notin ReadOnly
  /\ mem' = Stored({a}, a, val)
  /\ trap' = "none"
  /\ UNCHANGED <<rd, reservation_set, linked>>

----------------------------------------------------------------------------

Init ==
  /\ mem = [b \in Address |-> 0]
  /\ rd = 0
  /\ reservation_set = [a \in LrAddrs |-> 0]
  /\ trap = "none"
  /\ linked = {}

Next ==
  \/ \E a \in LrAddrs, n \in LrSizes : lr(a, n)
  \/ \E a \in LrAddrs, n \in LrSizes, val \in Values : sc(a, n, val)
  \/ \E op \in Ops, a \in AmoAddrs, n \in AmoSizes, val \in Values : amo(op, a, n, val)
  \/ \E a \in StoreAddrs, n \in StoreSizes, val \in Values : store(a, n, val)
  \/ \E a \in DmaAddrs, val \in {0, 1} : DmaWrite(a, val)

Spec == Init /\ [][Next]_vars

----------------------------------------------------------------------------
(* Properties.                                                             *)

\* An SC that stores comes after an LR of its address, and the hart has not
\* written through that address since: not by a store, an AMO or another SC,
\* of whatever size, also if that write faulted and however often the LR was
\* repeated before.  So an LR pays for one SC at most.  The manual asks for
\* more, which the code does not do and this does not claim: that writes
\* through other addresses and by devices cancel the reservation, and that an
\* SC cancels all (lr, sc and Cpu::write).
ScNeedsLr ==
  [][\A a \in LrAddrs, n \in LrSizes, val \in Values :
       sc(a, n, val) /\ trap' = "none" /\ rd' = 0 => a \in linked]_vars

\* x is below y as a signed number of n bytes.
Below(x, y, n) ==
  IF Digit(x, n - 1) = Digit(y, n - 1) THEN x % 2 ^ n <= y % 2 ^ n ELSE Digit(x, n - 1) = 1

\* What the instruction set manual says an AMO does to the n bytes old and the
\* operand val: new is what they become.
AmoIsa(op, n, old, val, new) ==
  LET u(x) == x % 2 ^ n
      bits == 0 .. n - 1
      one(x, i) == Digit(x, i) = 1
  IN  /\ op = "add"  => new = u(u(old) + u(val))
      /\ op = "swap" => new = u(val)
      /\ op = "xor"  => \A i \in bits : one(new, i) <=> Digit(old, i) # Digit(val, i)
      /\ op = "or"   => \A i \in bits : one(new, i) <=> one(old, i) \/ one(val, i)
      /\ op = "and"  => \A i \in bits : one(new, i) <=> one(old, i) /\ one(val, i)
      /\ op = "min"  => new \in {u(old), u(val)} /\ Below(new, old, n) /\ Below(new, val, n)
      /\ op = "max"  => new \in {u(old), u(val)} /\ Below(old, new, n) /\ Below(val, new, n)
      /\ op = "minu" => new \in {u(old), u(val)} /\ new <= u(old) /\ new <= u(val)
      /\ op = "maxu" => new \in {u(old), u(val)} /\ new >= u(old) /\ new >= u(val)

\* An AMO is all or nothing.  If it raises no exception, its n bytes become
\* what the manual says, every other byte of memory keeps its value and rd is
\* the old value, sign-extended; if the write faults after the read has
\* succeeded, memory and rd are as before (the AMOs of execute_general).
AmoAtomic ==
  [][\A op \in Ops, a \in AmoAddrs, n \in AmoSizes, val \in Values :
       amo(op, a, n, val) =>
         IF trap' = "none"
         THEN /\ AmoIsa(op, n, Load(a, n), val, Load(a, n)')
              /\ \A b \in Address \ Bytes(a, n) : mem'[b] = mem[b]
              /\ \A i \in 0 .. XLEN - 1 :
                   Digit(rd', i) = mem[Phys[a] + Least(i, n - 1)]
         ELSE UNCHANGED <<mem, rd>>]_vars
=============================================================================
