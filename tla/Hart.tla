-------------------------------- MODULE Hart --------------------------------
(***************************************************************************)
(* The hart and the loop that drives it: Emulator::start                   *)
(* (src/src/emulator.rs), Cpu (src/src/cpu.rs), Interrupt::take_trap       *)
(* (src/src/interrupt.rs), Exception::take_trap (src/src/exception.rs) and *)
(* the CLINT whose registers the loop advances                             *)
(* (src/src/devices/clint.rs).  One turn of the loop is three steps:       *)
(*                                                                         *)
(*   "devices"    devices_increment: the timer ticks and posts MSIP, MTIP; *)
(*   "interrupt"  check_pending_interrupt and Interrupt::take_trap;        *)
(*   "execute"    execute and, on an error, Exception::take_trap.          *)
(*                                                                         *)
(* The guest program is the environment: at each "execute" step it may run *)
(* any instruction the constants offer.  An instruction is abstracted to   *)
(* what it does to the state below: it retires, jumps, raises an           *)
(* exception, returns from a trap, waits for an interrupt, writes a CSR or *)
(* stores to a CLINT register.  The code checks no privilege for any of    *)
(* them, so neither do the guards.                                         *)
(*                                                                         *)
(* `saved' is a history variable: what each trap mode has interrupted and  *)
(* not yet returned to.  No action reads it.                               *)
(***************************************************************************)
EXTENDS Csr, Naturals

CONSTANTS
  Frontend,      \* "cli" (Emulator::start) or "wasm" (emulator_start)
  Checked,       \* TRUE for a build with overflow checks
  AddrSpace,     \* number of addresses; stands for 2^64
  TimeMod,       \* number of values of mtime and TIME; stands for 2^64
  InitPc,        \* argument of initialize_pc
  Mapped,        \* addresses an instruction can be fetched from
  Targets,       \* targets of jumps
  Codes,         \* exceptions that instructions raise
  DataAddrs,     \* addresses of loads and stores that fault
  SystemInsts,   \* which of mret, sret, wfi, uret, reserved the guest runs
  CsrOps,        \* CSR instructions of the guest
  TrapCsrWrites, \* writes of xTVEC, xEPC, xCAUSE and xTVAL by the guest
  ClintStores,   \* stores to the CLINT by the guest
  Irqs,          \* interrupt sources (UART 10, virtio 1) that may interrupt
  Limited,       \* TRUE if is_test or is_count bounds the loop
  Restarts       \* TRUE if the host may reset and start a stopped emulator

VARIABLES
  phase,         \* where the loop is
  pc, mode, idle,
  csrs,          \* the bit-field CSRs, see Csr
  xcsr,          \* per trap mode: tvec, epc, cause, tval
  enable_paging, page_table,
  msip, mtimecmp, mtime,
  time,          \* the TIME CSR
  saved          \* history: contexts interrupted and not yet resumed

vars == <<phase, pc, mode, idle, csrs, xcsr, enable_paging, page_table,
          msip, mtimecmp, mtime, time, saved>>

clint == <<msip, mtimecmp, mtime, time>>
paging == <<enable_paging, page_table>>

----------------------------------------------------------------------------
(* Types.                                                                  *)

Addr == 0 .. AddrSpace - 1
Times == 0 .. TimeMod - 1
Modes == {"U", "S", "M", "D"}          \* User, Supervisor, Machine, Debug
TrapModes == {"S", "M"}                \* modes that handle traps
Phases == {"devices", "interrupt", "execute", "stopped", "panicked"}

Interrupts == {SSIP_BIT, MSIP_BIT, STIP_BIT, MTIP_BIT, SEIP_BIT, MEIP_BIT}
ExceptionCodes == {0, 1, 2, 3, 4, 5, 6, 7, 8, 9, 11, 12, 13, 15}

\* The value 1 << 63 of xCAUSE.
InterruptFlag == 16
Causes == 0 .. 2 * InterruptFlag - 1

TrapCsrs == [tvec : Addr, epc : Addr, cause : Causes, tval : Addr]

InstKinds == {"fetch", "compressed", "general"}

\* What a trap interrupts: how and why it happened, the address of the
\* instruction, the mode, the interrupt-enable bit of the mode trapped into
\* and the address that faulted.
Contexts == [kind : InstKinds \cup {"interrupt"}, code : 0 .. 15, pc : Addr,
             mode : Modes, ie : BOOLEAN, va : Addr]

CsrOpType == [op : {"csrrw", "csrrs", "csrrc"}, csr : CsrNames, val : SUBSET Bits]
TrapCsrWriteType ==
  [x : TrapModes, reg : {"tvec", "epc", "tval"}, val : Addr]
    \cup [x : TrapModes, reg : {"cause"}, val : Causes]
ClintStoreType ==
  [reg : {"msip"}, val : {0, 1}] \cup [reg : {"mtimecmp", "mtime"}, val : Times]

ASSUME FrontendAssumption == Frontend \in {"cli", "wasm"} /\ Checked \in BOOLEAN
ASSUME SizeAssumption ==
  /\ AddrSpace \in Nat /\ AddrSpace > 4 /\ AddrSpace % 2 = 0
  /\ TimeMod \in Nat /\ TimeMod > 0
ASSUME AddressAssumption ==
  InitPc \in Addr /\ Mapped \subseteq Addr /\ Targets \subseteq Addr /\ DataAddrs \subseteq Addr
ASSUME GuestAssumption ==
  /\ Codes \subseteq ExceptionCodes
  /\ SystemInsts \subseteq {"mret", "sret", "wfi", "uret", "reserved"}
  /\ CsrOps \subseteq CsrOpType
  /\ TrapCsrWrites \subseteq TrapCsrWriteType
  /\ ClintStores \subseteq ClintStoreType
  /\ Irqs \subseteq {1, 10}
ASSUME HostAssumption == Limited \in BOOLEAN /\ Restarts \in BOOLEAN

TypeOK ==
  /\ phase \in Phases
  /\ pc \in Addr
  /\ mode \in Modes
  /\ idle \in BOOLEAN
  /\ csrs \in States
  /\ xcsr \in [TrapModes -> TrapCsrs]
  /\ enable_paging \in BOOLEAN
  /\ page_table \in SUBSET Bits
  /\ msip \in {0, 1}
  /\ mtimecmp \in Times
  /\ mtime \in Times
  /\ time \in Times
  /\ saved \in [TrapModes -> SUBSET Contexts]

----------------------------------------------------------------------------
(* Addresses and the fields of mstatus.                                    *)

Even(a) == a - (a % 2)                                 \* a & !1

\* pc += n and tvec + 4 * cause: a sum that leaves the address space panics in a
\* build with overflow checks and wraps in one without.
Overflows(a, n) == Checked /\ a + n >= AddrSpace
Plus(a, n) == (a + n) % AddrSpace

\* Mutant: the subtraction does not wrap.
Minus_NoWrap(a, n) == a - n

Minus(a, n) == (a + AddrSpace - n) % AddrSpace        \* wrapping_sub, n <= 2^64

StatusOf(x) == IF x = "M" THEN "MSTATUS" ELSE "SSTATUS"
IE(x) == IF x = "M" THEN MIE_BIT ELSE SIE_BIT
PIE(x) == IF x = "M" THEN MPIE_BIT ELSE SPIE_BIT

\* The encoding of a mode in the MPP field and back; 0b10 decodes to Debug.
ModeBits(m) == CASE m = "U" -> {} [] m = "S" -> {0} [] OTHER -> {0, 1}
ModeOfBits(b) == CASE b = {} -> "U" [] b = {0} -> "S" [] b = {0, 1} -> "M" [] OTHER -> "D"

\* The mode that xPP records.
PrevMode(s, x) ==
  IF x = "M" THEN ModeOfBits(read_bits(s, "MSTATUS", 11, 13))
             ELSE IF read_bit(s, "SSTATUS", SPP_BIT) = 0 THEN "U" ELSE "S"

----------------------------------------------------------------------------
(* Entering a trap: the part that Interrupt::take_trap and                 *)
(* Exception::take_trap have in common.                                    *)

\* Mutant: leaves xIE set.
EnterStatus_KeepIE(s, x, from) ==
  LET r  == StatusOf(x)
      s1 == write_bit(s, r, PIE(x), read_bit(s, r, IE(x)))
  IN  IF x = "S"
      THEN write_bit(s1, r, SPP_BIT, IF from = "U" THEN 0 ELSE 1)
      ELSE write_bits(s1, r, 11, 13, ModeBits(from))

\* xPIE := xIE; xIE := 0; xPP := from.
EnterStatus(s, x, from) ==
  LET r  == StatusOf(x)
      s1 == write_bit(s, r, PIE(x), read_bit(s, r, IE(x)))
      s2 == write_bit(s1, r, IE(x), 0)
  IN  IF x = "S"
      THEN write_bit(s2, r, SPP_BIT, IF from = "U" THEN 0 ELSE 1)
      ELSE write_bits(s2, r, 11, 13, ModeBits(from))

\* A trap into mode x, taken with the CSRs s: the handler is at `offset' from
\* the base in xTVEC, the exception pc is `epc' and `ctx' is what is
\* interrupted.  A trap panics if the address of the handler overflows, and in
\* Debug mode, where it goes to M-mode, on an invalid previous privilege mode.
EnterTrap(s, x, offset, epc, cause, ctx, next) ==
  IF mode = "D" \/ Overflows(Even(xcsr[x].tvec), offset)
  THEN /\ phase' = "panicked"
       /\ UNCHANGED <<pc, mode, csrs, xcsr, saved>>
  ELSE /\ phase' = next
       /\ pc' = Plus(Even(xcsr[x].tvec), offset)
       /\ mode' = x
       /\ csrs' = EnterStatus(s, x, mode)
       /\ xcsr' = [xcsr EXCEPT ![x] =
                     [@ EXCEPT !.epc = Even(epc), !.cause = cause, !.tval = 0]]
       /\ saved' = [saved EXCEPT ![x] = {ctx}]

Context(kind, code, x, va) ==
  [kind |-> kind, code |-> code, pc |-> pc, mode |-> mode,
   ie |-> read_bit(csrs, StatusOf(x), IE(x)) = 1, va |-> va]

----------------------------------------------------------------------------
(* The "devices" step.                                                     *)

\* Mutant: the timer interrupt is posted only once mtime has passed mtimecmp.
TimerBits_Late(t, mip) == IF t > mtimecmp THEN mip \cup {MTIP_BIT} ELSE mip \ {MTIP_BIT}

\* Mutant: a posted timer interrupt is never withdrawn.
TimerBits_Sticky(t, mip) == IF t >= mtimecmp THEN mip \cup {MTIP_BIT} ELSE mip

\* MTIP after the clock has reached t.
TimerBits(t, mip) == IF t >= mtimecmp THEN mip \cup {MTIP_BIT} ELSE mip \ {MTIP_BIT}

Tick(t) == (t + 1) % TimeMod                          \* wrapping_add(1)

\* Cpu::devices_increment: Clint::increment and State::increment_time.
DevicesIncrement ==
  /\ phase = "devices"
  /\ phase' = "interrupt"
  /\ mtime' = Tick(mtime)
  /\ time' = Tick(time)
  /\ LET mip == IF msip = 1 THEN csrs["MIP"] \cup {MSIP_BIT} ELSE csrs["MIP"]
     IN  csrs' = write(csrs, "MIP", TimerBits(Tick(mtime), mip))
  /\ UNCHANGED <<pc, mode, idle, xcsr, paging, msip, mtimecmp, saved>>

\* The turn counter of Emulator::start passes its limit.
CountExpired ==
  /\ phase = "devices"
  /\ Limited
  /\ phase' = "stopped"
  /\ UNCHANGED <<pc, mode, idle, csrs, xcsr, paging, clint, saved>>

----------------------------------------------------------------------------
(* The "interrupt" step: check_pending_interrupt, then Interrupt::take_trap. *)

\* The early returns of check_pending_interrupt are not taken.
InterruptsOn ==
  /\ mode = "M" => read_bit(csrs, "MSTATUS", MIE_BIT) = 1
  /\ mode = "S" => read_bit(csrs, "SSTATUS", SIE_BIT) = 1

\* The CSRs after the devices are polled: a device that interrupts raises SEIP.
Poll(irq) ==
  IF irq = 0 THEN csrs ELSE write(csrs, "MIP", read(csrs, "MIP") \cup {SEIP_BIT})

Pending(s) == read(s, "MIE") \cap read(s, "MIP") \cap Interrupts

\* The interrupts that are tested before i.
Above(i) ==
  CASE i = MEIP_BIT -> {}
    [] i = MSIP_BIT -> {MEIP_BIT}
    [] i = MTIP_BIT -> {MEIP_BIT, MSIP_BIT}
    [] i = SEIP_BIT -> {MEIP_BIT, MSIP_BIT, MTIP_BIT}
    [] i = SSIP_BIT -> {MEIP_BIT, MSIP_BIT, MTIP_BIT, SEIP_BIT}
    [] i = STIP_BIT -> {MEIP_BIT, MSIP_BIT, MTIP_BIT, SEIP_BIT, SSIP_BIT}

\* The mode that handles interrupt i: delegated ones go to S-mode, except the
\* machine timer interrupt and except in M-mode.
InterruptMode(i) ==
  IF mode \in {"U", "S"} /\ i \in read(csrs, "MIDELEG") /\ i # MTIP_BIT THEN "S" ELSE "M"

\* Direct or vectored entry, selected by bit 0 of xTVEC.
Vector(x, i) == IF xcsr[x].tvec % 2 = 1 THEN 4 * i ELSE 0

InterruptsMasked ==
  /\ phase = "interrupt"
  /\ ~InterruptsOn
  /\ phase' = "execute"
  /\ UNCHANGED <<pc, mode, idle, csrs, xcsr, paging, clint, saved>>

NoInterrupt(irq) ==
  /\ phase = "interrupt"
  /\ InterruptsOn
  /\ Pending(Poll(irq)) = {}
  /\ phase' = "execute"
  /\ csrs' = Poll(irq)
  /\ UNCHANGED <<pc, mode, idle, xcsr, paging, clint, saved>>

TakeInterrupt(irq, i) ==
  /\ phase = "interrupt"
  /\ InterruptsOn
  /\ i \in Pending(Poll(irq))
  /\ Pending(Poll(irq)) \cap Above(i) = {}
  /\ idle' = FALSE
  /\ LET x == InterruptMode(i)
         s == write(Poll(irq), "MIP", read(Poll(irq), "MIP") \ {i})
     IN  EnterTrap(s, x, Vector(x, i), pc, InterruptFlag + i,
                   Context("interrupt", i, x, 0), "execute")
  /\ UNCHANGED <<paging, clint>>

----------------------------------------------------------------------------
(* The "execute" step.                                                     *)

\* The top of the loop; the loop of the browser does not run the devices.
NextTurn == IF Frontend = "cli" THEN "devices" ELSE "interrupt"

\* execute returns at once while the hart is idle.
IdleTurn ==
  /\ phase = "execute"
  /\ idle
  /\ phase' = NextTurn
  /\ UNCHANGED <<pc, mode, idle, csrs, xcsr, paging, clint, saved>>

\* The pc moves past a 16-bit or a 32-bit instruction before it executes.
Length(kind) == CASE kind = "fetch" -> 0 [] kind = "compressed" -> 2 [] kind = "general" -> 4

\* An instruction is fetched and the pc has moved past it.
Fetched == phase = "execute" /\ ~idle /\ pc \in Mapped
Executing(kind) == Fetched /\ ~Overflows(pc, Length(kind))

\* Moving the pc past an instruction at the end of the address space.
PcOverflow(kind) ==
  /\ Fetched
  /\ Overflows(pc, Length(kind))
  /\ phase' = "panicked"
  /\ UNCHANGED <<pc, mode, idle, csrs, xcsr, paging, clint, saved>>

\* An instruction that changes no state of this module but the pc.
Retire(kind) ==
  /\ Executing(kind)
  /\ phase' = NextTurn
  /\ pc' = Plus(pc, Length(kind))
  /\ UNCHANGED <<mode, idle, csrs, xcsr, paging, clint, saved>>

\* A jump or a taken branch.  c.jr and c.jalr keep bit 0 of their target.
Jump(target) ==
  /\ Executing("compressed")
  /\ phase' = NextTurn
  /\ pc' = target
  /\ UNCHANGED <<mode, idle, csrs, xcsr, paging, clint, saved>>

EcallCode == CASE mode = "U" -> 8 [] mode = "S" -> 9 [] mode = "M" -> 11 [] OTHER -> 2

\* The exceptions an access can raise when its address is translated by
\* walking a page table.
Walk(codes) == IF enable_paging /\ mode # "M" THEN codes ELSE {}

\* What can go wrong with an instruction.  A fetch fails outside the mapped
\* addresses, during the walk, or on a halfword of zeros.
Raised(kind) ==
  CASE kind = "fetch"      -> Walk({5, 12}) \cup (IF pc \in Mapped THEN {2} ELSE {1})
    [] kind = "compressed" -> {2, 3, 5, 7} \cup Walk({13})
    [] kind = "general"    -> {2, 3, 4, 5, 6, 7, EcallCode} \cup Walk({13})

\* The address an exception is about, zero if it is about none.
FaultAddrs(kind, code) ==
  CASE code \in {2, 3, 8, 9, 11} -> {0} [] kind = "fetch" -> {pc} [] OTHER -> DataAddrs

ExceptionMode(code) ==
  IF mode \in {"U", "S"} /\ code \in read(csrs, "MEDELEG") THEN "S" ELSE "M"

TrapKind(code) ==
  CASE code \in {0, 1, 4, 5, 6, 7} -> "Fatal"
    [] code \in {2, 12, 13, 15}    -> "Invisible"
    [] OTHER                       -> "Requested"

\* The loop ends after the trap.
Ends(code) ==
  IF Frontend = "cli" THEN TrapKind(code) = "Fatal" ELSE TrapKind(code) # "Requested"

\* The exception pc is computed from the pc that has moved on as if every
\* instruction were 4 bytes long and every pc had moved.
ExceptionPc(p) == Minus(p, 4)

\* An instruction raises an exception: Exception::take_trap.
RaiseException(kind, code, va) ==
  /\ IF kind = "fetch" THEN phase = "execute" /\ ~idle ELSE Executing(kind)
  /\ code \in Raised(kind) /\ (code \in Codes \/ code = 1)
  /\ va \in FaultAddrs(kind, code)
  /\ LET x == ExceptionMode(code)
     IN  EnterTrap(csrs, x, 0, ExceptionPc(Plus(pc, Length(kind))),
                   code, Context(kind, code, x, va),
                   IF Ends(code) THEN "stopped" ELSE NextTurn)
  /\ UNCHANGED <<idle, paging, clint>>

\* Mutant: clears one bit of MPP.
LeaveStatus_HalfMpp(s, x) ==
  LET r  == StatusOf(x)
      s1 == write_bit(s, r, IE(x), read_bit(s, r, PIE(x)))
      s2 == write_bit(s1, r, PIE(x), 1)
  IN  IF x = "S" THEN write_bit(s2, r, SPP_BIT, 0) ELSE write_bits(s2, r, 11, 12, {})

\* xIE := xPIE; xPIE := 1; xPP := U.
LeaveStatus(s, x) ==
  LET r  == StatusOf(x)
      s1 == write_bit(s, r, IE(x), read_bit(s, r, PIE(x)))
      s2 == write_bit(s1, r, PIE(x), 1)
  IN  IF x = "S" THEN write_bit(s2, r, SPP_BIT, 0) ELSE write_bits(s2, r, 11, 13, {})

\* Mutant: the mode is read after the return has cleared xPP.
TrapReturn_Late(x) ==
  /\ Executing("general")
  /\ (IF x = "M" THEN "mret" ELSE "sret") \in SystemInsts
  /\ phase' = NextTurn
  /\ pc' = xcsr[x].epc
  /\ mode' = PrevMode(LeaveStatus(csrs, x), x)
  /\ csrs' = LeaveStatus(csrs, x)
  /\ saved' = [saved EXCEPT ![x] = {}]
  /\ UNCHANGED <<idle, xcsr, paging, clint>>

\* mret and sret.
TrapReturn(x) ==
  /\ Executing("general")
  /\ (IF x = "M" THEN "mret" ELSE "sret") \in SystemInsts
  /\ phase' = NextTurn
  /\ pc' = xcsr[x].epc
  /\ mode' = PrevMode(csrs, x)
  /\ csrs' = LeaveStatus(csrs, x)
  /\ saved' = [saved EXCEPT ![x] = {}]
  /\ UNCHANGED <<idle, xcsr, paging, clint>>

Wfi ==
  /\ Executing("general")
  /\ "wfi" \in SystemInsts
  /\ phase' = NextTurn
  /\ pc' = Plus(pc, 4)
  /\ idle' = TRUE
  /\ UNCHANGED <<mode, csrs, xcsr, paging, clint, saved>>

\* uret and the reserved compressed encoding panic.
PanicInst ==
  /\ Fetched
  /\ SystemInsts \cap {"uret", "reserved"} # {}
  /\ phase' = "panicked"
  /\ UNCHANGED <<pc, mode, idle, csrs, xcsr, paging, clint, saved>>

\* The new value of the CSR that instruction o writes.
CsrValue(o) ==
  CASE o.op = "csrrw" -> o.val
    [] o.op = "csrrs" -> read(csrs, o.csr) \cup o.val
    [] o.op = "csrrc" -> read(csrs, o.csr) \ o.val

\* Mutant: only switches paging on and off.
update_paging_KeepTable(s) ==
  /\ page_table' = page_table
  /\ enable_paging' = (read_bits(s, "SATP", 60, 64) = {3})

\* Cpu::update_paging with the CSRs s.
update_paging(s) ==
  /\ page_table' = {b + 12 : b \in read_bits(s, "SATP", 0, 44)}
  /\ enable_paging' = (read_bits(s, "SATP", 60, 64) = {3})

\* A CSR instruction on a bit-field register.  Software that writes a status
\* register takes over the context that is kept there.
CsrOp(o) ==
  /\ Executing("general")
  /\ phase' = NextTurn
  /\ pc' = Plus(pc, 4)
  /\ LET s == write(csrs, o.csr, CsrValue(o))
     IN  /\ csrs' = s
         /\ IF o.csr = "SATP" THEN update_paging(s) ELSE UNCHANGED paging
  /\ saved' = [x \in TrapModes |->
                 IF o.csr = "MSTATUS" \/ o.csr = StatusOf(x) THEN {} ELSE saved[x]]
  /\ UNCHANGED <<mode, idle, xcsr, clint>>

\* A CSR instruction on a trap register.
TrapCsrWrite(w) ==
  /\ Executing("general")
  /\ phase' = NextTurn
  /\ pc' = Plus(pc, 4)
  /\ xcsr' = [xcsr EXCEPT ![w.x] = [@ EXCEPT ![w.reg] = w.val]]
  /\ saved' = IF w.reg = "tvec" THEN saved ELSE [saved EXCEPT ![w.x] = {}]
  /\ UNCHANGED <<mode, idle, csrs, paging, clint>>

\* A store of a whole CLINT register.
ClintStore(w) ==
  /\ Executing("general")
  /\ phase' = NextTurn
  /\ pc' = Plus(pc, 4)
  /\ msip' = IF w.reg = "msip" THEN w.val ELSE msip
  /\ mtimecmp' = IF w.reg = "mtimecmp" THEN w.val ELSE mtimecmp
  /\ mtime' = IF w.reg = "mtime" THEN w.val ELSE mtime
  /\ UNCHANGED <<mode, idle, csrs, xcsr, paging, time, saved>>

----------------------------------------------------------------------------
(* The host.                                                               *)

\* Emulator::reset, initialize_pc and start on an emulator that has stopped.
\* Cpu::reset leaves idle, the paging state and the devices alone.
Restart ==
  /\ phase = "stopped"
  /\ Restarts
  /\ phase' = NextTurn
  /\ pc' = InitPc
  /\ mode' = "M"
  /\ csrs' = ResetState
  /\ xcsr' = [x \in TrapModes |-> [tvec |-> 0, epc |-> 0, cause |-> 0, tval |-> 0]]
  /\ time' = 0
  /\ saved' = [x \in TrapModes |-> {}]
  /\ UNCHANGED <<idle, paging, msip, mtimecmp, mtime>>

----------------------------------------------------------------------------

\* Emulator::new, initialize_pc and start.
Init ==
  /\ phase = NextTurn
  /\ pc = InitPc
  /\ mode = "M"
  /\ idle = FALSE
  /\ csrs = ResetState
  /\ xcsr = [x \in TrapModes |-> [tvec |-> 0, epc |-> 0, cause |-> 0, tval |-> 0]]
  /\ enable_paging = FALSE
  /\ page_table = {}
  /\ msip = 0
  /\ mtimecmp = 0
  /\ mtime = 0
  /\ time = 0
  /\ saved = [x \in TrapModes |-> {}]

CheckPendingInterrupt ==
  \/ InterruptsMasked
  \/ \E irq \in Irqs \cup {0} :
       \/ NoInterrupt(irq)
       \/ \E i \in Interrupts : TakeInterrupt(irq, i)

Execute ==
  \/ IdleTurn
  \/ \E kind \in {"compressed", "general"} : Retire(kind) \/ PcOverflow(kind)
  \/ \E target \in Targets : Jump(target)
  \/ \E kind \in InstKinds, code \in ExceptionCodes :
       \E va \in DataAddrs \cup {0, pc} : RaiseException(kind, code, va)
  \/ \E x \in TrapModes : TrapReturn(x)
  \/ Wfi
  \/ PanicInst
  \/ \E o \in CsrOps : CsrOp(o)
  \/ \E w \in TrapCsrWrites : TrapCsrWrite(w)
  \/ \E w \in ClintStores : ClintStore(w)

Loop ==
  \/ DevicesIncrement
  \/ CountExpired
  \/ CheckPendingInterrupt
  \/ Execute

Next == Loop \/ Restart

\* The emulator is one thread that runs its loop until it stops; the host
\* need not restart it.
Spec == Init /\ [][Next]_vars /\ WF_vars(Loop)

----------------------------------------------------------------------------
(* Properties.                                                             *)

CauseOf(c) == IF c.kind = "interrupt" THEN InterruptFlag + c.code ELSE c.code

\* The CSRs s and the trap registers r of mode x describe the context c.
Describes(s, r, x, c) ==
  /\ c.kind \in {"interrupt", "general"} => r.epc = Even(c.pc)
  /\ r.cause = CauseOf(c)
  /\ PrevMode(s, x) = c.mode
  /\ (read_bit(s, StatusOf(x), PIE(x)) = 1) = c.ie
  /\ read_bit(s, StatusOf(x), IE(x)) = 0

\* From the moment a trap is taken into mode x until software returns from it
\* or rewrites the registers that keep it, xCAUSE, xPP and xPIE describe the
\* interrupted context, xIE stays 0 and, for interrupts and 32-bit
\* instructions, xEPC is the address to resume at: whatever happens in
\* between (nested traps into the other mode, their returns, writes of the
\* SSTATUS view while an M-mode context is pending) leaves it intact
\* (take_trap in interrupt.rs and exception.rs, sret and mret in cpu.rs,
\* the SSTATUS masks in csr.rs).
SavedContext == \A x \in TrapModes : \A c \in saved[x] : Describes(csrs, xcsr[x], x, c)

\* Interrupt i is globally enabled by the rules that check_pending_interrupt
\* quotes: below M-mode, or in M-mode with MIE set if it is not delegated.  Two
\* cases are left out, in which the code departs from them: it masks interrupts
\* that are not delegated by SIE in S-mode, and takes delegated ones in M-mode.
GloballyEnabled(i) ==
  \/ mode = "U"
  \/ mode = "S" /\ SIE_BIT \in csrs["MSTATUS"]
  \/ mode = "M" /\ MIE_BIT \in csrs["MSTATUS"] /\ i \notin csrs["MIDELEG"]

\* Interrupts are precise: an instruction never executes while an interrupt is
\* pending and enabled, also not the first of a handler that has just been
\* entered for another one (check_pending_interrupt and take_trap).
NoMissedInterrupt == phase = "execute" => \A i \in Pending(csrs) : ~GloballyEnabled(i)

\* When the loop looks for interrupts, MTIP says exactly whether the clock has
\* reached mtimecmp, over every write of MIP, mtimecmp and mtime by the guest
\* and over the wrap of the clock, and a software interrupt that is requested
\* is posted (Clint::increment).
ClintPosted ==
  phase = "interrupt" /\ Frontend = "cli" =>
    /\ MTIP_BIT \in csrs["MIP"] <=> mtime >= mtimecmp
    /\ msip = 1 => MSIP_BIT \in csrs["MIP"]

\* The cached paging state is what SATP says (update_paging).
PagingFollowsSatp ==
  /\ enable_paging <=> csrs["SATP"] \cap (60 .. 63) = {63}
  /\ page_table = {b + 12 : b \in csrs["SATP"] \cap (0 .. 43)}

\* The guest never leaves the reserved value 0b10 in MPP by its own writes.
LegalMpp ==
  \A o \in CsrOps : o.csr = "MSTATUS" =>
    IF o.op = "csrrc" THEN 11 \in o.val => 12 \in o.val ELSE 12 \in o.val => 11 \in o.val

\* Debug mode, from which the next trap panics, is not reached by such a guest
\* however its traps and returns nest: no trap, no return, and no write of
\* another register leaves 0b10 in MPP (take_trap, mret and sret, the masks of
\* SSTATUS).
NoDebugMode == LegalMpp => mode # "D"

\* mret and sret from an interrupt, or from an exception of a 32-bit
\* instruction, resume the interrupted instruction in its mode with the
\* interrupt-enable bit it had, however many traps have come and gone since.
ReturnResumes ==
  [][\A x \in TrapModes : TrapReturn(x) =>
       \A c \in saved[x] :
         /\ c.kind \in {"interrupt", "general"} => pc' = Even(c.pc)
         /\ mode' = c.mode
         /\ (read_bit(csrs', StatusOf(x), IE(x)) = 1) = c.ie]_vars

\* A hart that waits for an interrupt with the timer interrupt enabled does
\* not wait forever (wfi, execute, Clint::increment).
IdleWakes ==
  (idle /\ MTIP_BIT \in csrs["MIE"] /\ InterruptsOn)
    ~> (~idle \/ phase \in {"stopped", "panicked"})
=============================================================================
