# rvemu in TLA+

A verification project for [rvemu](../src/README.md), an emulator of a RISC-V
computer: one RV64GC hart with machine, supervisor and user mode, Sv39 paging,
a CLINT, a PLIC, a UART and a virtio disk, driven by a command line tool or by a
page in the browser. The modules model the parts of the emulator whose
correctness depends on the order of events: traps and interrupts, the timer,
the thread behind the UART, the interrupt controller, the disk, the page-table
walk, the atomic instructions and the page in the browser; and those whose
correctness depends on bits: the decoding and the results of integer
instructions, and accesses of all sizes to memory and to the timer registers.

Paths in comments such as `cpu.rs:309` are under `src/src` (devices under
`src/src/devices`; `lib.rs` is `src/lib/rvemu-wasm/src/lib.rs` and `xv6.js` is in
`src/public`). `PROJECT.json` lists components, runs, mutants, the map from
definitions to source lines, findings, hazards and theorems.

## The system

| Component | State | Operations | Interacts with |
|---|---|---|---|
| Emulator loop (`emulator.rs`) | turn counter | `start`, `reset`, `initialize_pc` | calls the hart three times a turn: `devices_increment`, `check_pending_interrupt` + `take_trap`, `execute` + `take_trap` |
| Hart (`cpu.rs`, `interrupt.rs`, `exception.rs`) | pc, mode, idle, registers, paging cache, reservation set | instructions, traps, returns | CSRs, bus, devices |
| CSRs (`csr.rs`) | 4096 registers; SSTATUS, SIE, SIP are views | `read`, `write`, bit variants, `reset` | hart, CLINT (writes MIP) |
| CLINT (`clint.rs`) | msip, mtimecmp, mtime | `increment`, `read`, `write` | posts MSIP and MTIP in MIP |
| PLIC (`plic.rs`) | priority, pending, enable, threshold, claim | `read`, `write` | written by the hart's poll, read by the guest |
| UART (`uart_cli.rs`) | 256 bytes behind a mutex, an atomic flag | reader thread, `read`, `write`, `is_interrupting` | standard input; polled by the hart |
| Virtio disk (`virtio_blk.rs`) | registers, disk, access counter | `read`, `write`, `is_interrupting`, `disk_access` | DMA to guest memory; polled by the hart |
| Translation (`cpu.rs`, `translate`) | none of its own | the walk | bus |
| Integer, M and C instructions (`cpu.rs`) | registers, pc | decode and execute | hart, bus |
| A extension (`cpu.rs`) | reservation set | LR, SC, AMOs | bus; competes with stores and DMA |
| Bus, DRAM, ROM (`bus.rs`, `dram.rs`, `rom.rs`) | memory | `read`, `write` | everything |
| Browser UART (`uart_wasm.rs`) | 256 bytes, a poll counter, a flag | `is_interrupting`, `read`, `write` | takes keys from the page's DOM, posts messages to the page |
| Browser front end (`lib.rs`, `xv6.js`) | a generator with a turn counter, two buffers in the page | start, slice, timeout, key and message handlers | emulator, page |
| Command line front end (`lib/rvemu-cli`) | none | start | emulator |

What is hard in it:

- *Two threads.* The UART's reader shares a byte with the emulator through a
  mutex, a condition variable and a flag outside the mutex.
- *Interleaving of interrupts.* A poll consumes a device's request, but which
  interrupt is taken is decided afterwards. Six interrupts may be pending, two
  levels of traps nest, and delegation, masks and views of registers meet.
- *The guest.* Any instruction sequence can write CSRs, the CLINT and page
  tables between any two steps of the emulator.
- *Partial failure.* An AMO faults after its read, a disk access panics after its
  status byte, a walk leaves memory.
- *Copies.* The paging state is cached, TIME and mtime are two clocks, the
  reservation set is kept by virtual address.
- *One thread for two.* In the browser the page and the emulator take turns; what
  waits on either side waits for the other to give up control.
- *Bits.* Immediates are scattered over the word, operations on words keep half a
  register, the 64-bit timer registers are accessed in parts while they move, and
  every range of addresses includes one byte too many.
- *Restart.* `reset` does not restore everything that `new` sets.

## Modules

Read in this order.

| Module | What it is |
|---|---|
| `Csr` | The CSRs as sets of bits and the access functions, as operators on a state. |
| `Hart` | The loop, the hart's trap machinery, the CLINT and the host that restarts. Extends `Csr`. |
| `HartProofs` | Theorems about `Hart`. |
| `ByteChannel` | Abstract: a lossless queue of two bytes; after its end an input repeats its last byte. |
| `Uart` | The UART of the command line tool; implements `ByteChannel`. |
| `UartProofs` | Theorems about `Uart`. |
| `Plic` | The register map of the PLIC, as operators. |
| `External` | The poll of the devices, the PLIC, SEIP and a guest that claims. Extends `Plic`. |
| `ExternalProofs` | Theorems about `External`. |
| `BlockDevice` | Abstract: requests answered in order; a repeated notification changes nothing, an improper one stops the device. |
| `Virtio` | The virtqueue device and its driver; implements `BlockDevice`. |
| `VirtioProofs` | Theorems about `Virtio`. |
| `Sv39` | One access of the hart: walk and bus. |
| `Sv39Proofs` | Theorems about `Sv39`. |
| `Numbers` | Registers of a given width: digits, casts between signed and unsigned, bitwise operators. |
| `Atomics` | LR, SC, AMOs, stores and DMA over bytes, with a translation that may alias. Extends `Numbers`. |
| `Decode` | Instruction words as sets of bits, and their decoding, as operators. |
| `Alu` | What integer and M instructions compute, as operators. Extends `Numbers`. |
| `Integer` | One instruction decoded, or one executed. Extends `Decode` and `Alu`. |
| `InstructionProofs` | Theorems about `Atomics` and `Integer`, from one set of lemmas about numbers. |
| `ByteMemory` | Abstract: regions of bytes that an access reads or replaces. |
| `Memory` | Bus, DRAM, ROM and the registers of the CLINT; implements `ByteMemory`. |
| `MemoryProofs` | Theorems about `Memory`. |
| `Browser` | The page, the generator, the browser's UART and a guest that echoes. |
| `BrowserProofs` | Theorems about `Browser`. |
| `MC...` | Constants for the model checker. |

A definition named `X_Something` before `X` is a variant of `X` with a plausible
bug. Nothing uses it; putting it in the place of `X` must violate a property,
which shows that the property can see that bug.

### Hart

A turn of the loop is three steps (`phase`): `DevicesIncrement`,
`CheckPendingInterrupt`, `Execute`. These are atomic in the code as well: one
thread runs them. The guest is the environment. Of an instruction the model keeps
what it does to the state of this module: it retires (`Retire`), jumps (`Jump`),
raises an exception (`RaiseException`), returns from a trap (`TrapReturn`), waits
(`Wfi`), panics (`PanicInst`), writes a CSR (`CsrOp`, `TrapCsrWrite`) or a
register of the CLINT (`ClintStore`). The constants say which of these the guest
does; the theorems hold for all of them. Addresses are numbers modulo
`AddrSpace`, times modulo `TimeMod` (2^64 in the code), so that wrapping is kept.
The code moves the pc, and adds a vector to xTVEC, by plain additions: where the sum
leaves the address space (`Overflows`) a build with overflow checks (`Checked`) panics,
in `PcOverflow` and in `EnterTrap`, and one without wraps.
`Frontend` selects the loop of the command line tool or that of the browser,
which never runs the devices and ends on other traps.

`saved` is a history variable: what each trap mode has interrupted. No action
reads it; it is emptied when software returns or rewrites the registers itself.
`csrs` holds bit sets, `xcsr` the numbers xTVEC, xEPC, xCAUSE, xTVAL.

A panic ends the process, so the assignments of `take_trap` that precede the
panic on an invalid previous mode are not kept.

### Uart

The reader's critical section is split at the store to the flag, which the
emulator reads without the mutex. A call of `Uart::read` is one step, allowed
while the reader does not hold the mutex. `cvar.wait` releases the mutex and
returns on `notify_one` or spuriously. At the end of the input `stdin().read`
returns `Ok(0)` and the code goes on as if it had read a byte: `ReadStdin` keeps
the buffer, and both the abstract channel and `Conserved` say so: what follows the
input is its last byte, again and again.

### External

`check_pending_interrupt` with the devices reduced to whether they interrupt.
The guest is outside the repository; it is written in the manner of xv6, the
system rvemu's documentation runs: claim, serve the device claimed, complete, one
disk request at a time. It accesses the PLIC by words, the only size that does not
fault (`Faults` in `Plic`). `accessed` is a history variable.

### Virtio

The virtqueue lies in guest memory, so descriptors, buffers and the used index
are variables that the driver (outside the repository) and the device share. A
sector moves as one value. The device takes bytes 0x40.. of the queue for the
available ring, which is descriptor 4 when the queue has eight descriptors;
`AvailOffset` and `AvailIndex` read those bytes. That descriptor is kept by bytes for
this reason alone. A stray descriptor index ends in state "wild", whose effects are
arbitrary.

The driver may notify at any time (`Kick`): while a request waits, after its answer,
and with nothing in the queue. The device cannot tell, so each notification that is
polled is an access: after an answer it serves the same chain again and moves the used
index again; if the driver has cleared the chain, its access to address zero panics.
Any queue number may be written; 9999 stands for "none" in the device, so a
notification with it is not heard and takes back one that was not polled. A reset is two
steps, as in the code: the write of the status register (`write_status`), which changes
nothing else in the device, and the set-up that a driver does afterwards (`SetQueue`),
which forgets the requests in flight. Between and after them a notification, an
interrupt and the count of accesses are left over. An acknowledgement without bit 0
panics (state "refused"). `queue` (what is not answered) and `seen` (the count of
accesses when the driver last read the index) are history variables; no guard reads
them.

### Sv39

The contents of the page tables are chosen as the walk reads them and remembered,
so that one run covers every memory and not only well-formed trees. Page numbers
have three fields as in the code; a field has two values instead of 512. The
offset in the page passes through. Bits above the 39th are ignored by the code and
by the model.

### Atomics

A byte has one bit, a word two bytes, a doubleword four, so that carries, signs
and overlaps occur in a small space. `Phys` translates the guest's addresses and may
map two of them to the same bytes; reservations are kept by the guest's address, as
in the code, in a vector to which every LR appends: `reservation_set` counts the copies
of each address, up to `MaxCopies`. Stores through a second mapping, at another offset
of a reserved word and by a device happen in the model and leave the reservation, as
they do in the code; `ScNeedsLr` says what the reservation set does guarantee. `linked` is
a history variable: the addresses that the hart has not written to since their LR.

### Decode, Alu and Integer

Decoding is done at full width: a word is the set of the positions of its ones, and
`Field(inst, shift, mask)` is the expression `(inst >> shift) & mask` of the source.
The compressed instructions decode to the instruction they expand to, as the
comments of the source say; where the effect differs (c.jr and c.jalr, which do not
clear bit 0 of the target) they have a name of their own. Execution is done with
registers of `XLEN` bits and words of `WORD` bits, half of `XLEN` and a power of two (the
amount of a shift is taken from the low bits of a register). A behaviour is one decoding or one
execution, since an instruction depends on nothing but its word, the registers and
the pc; the properties compare with definitions of the manual that are written
differently: layouts of immediates as lists of positions, division by its defining
equation, shifts and logic bit by bit, comparison by the sign bits. The names
`InsInit`, `InsNext`, `InsSpec` and `InsTypeOK` keep `Integer` apart from `Atomics`, with which
it shares a module of proofs.

### Memory

Registers and memory are functions from offsets to bytes; an address is a region
and an offset. Stores to the CLINT are the masks and shifts of the source, one per size
(`Replaced`); the run's words have three bytes of one bit, so that the four sizes and
their masks are all different. A store across the end of the memory has written the
bytes before the end when it panics. `Bus`, `Clint`, `Dram` and `Rom` answer an access with data, "done", a
fault or a panic (an index beyond the array). `Checked` selects a build with or
without overflow checks, which decides whether a shift by 64 panics or shifts by 0.
Three guests: one with accesses of any kind, one that moves mtimecmp and one that
reads mtime by words in the way the manual recommends. The abstraction `ByteMemory`
says nothing of accesses that leave their region, but that other regions are left
alone.

### Browser

`where` says who has control: the page's handlers and timeouts run only while the
generator does not. A turn of the generator is `CountTurn`, `Check` (poll) and
`Execute`. The keys are children of a DOM element, so they are lost to nobody while
the emulator runs; `get_input` takes the first. There is no timer interrupt, since
this loop never calls `devices_increment`. `deferred` is a history variable: a byte
was found while its interrupt was not enabled.

## Runs

Passing runs and what they show:

| Run | Properties | Bounds |
|---|---|---|
| `hart_nested` | `TypeOK`, `SavedContext`, `NoMissedInterrupt`, `PagingFollowsSatp`, `NoDebugMode`, `ReturnResumes` | 8 addresses (two instructions; the pc wraps), clock of 2 values, ecalls from U and instruction page faults, SSIP delegated or not, MTIP, Sv39 on and off, writes of MPP: nesting M over S over U and back |
| `hart_timer` | `ClintPosted`, `IdleWakes` | clock of 4 values, writes on both sides of the deadline, a UART that interrupts, the limit of the loop, restarts, and a build with overflow checks: 8 addresses, where the pc runs into the end of the address space and vectored handlers are beyond it |
| `uart` | `TypeOK`, `Conserved`, `DataIsSignalled`, `StatusStable`, `AllReceived`, `ImplementsChannel` | five bytes: more than twice what the device holds, with repeats and a zero; then the end of the input, read until the guest has eight bytes |
| `external` | `TypeOK`, `ClaimIsJustified`, `AccessIsSeen`, `ByteIsRead` | four bytes, four requests, timer at any moment |
| `virtio` | `TypeOK`, `CompletionIsWhole`, `CompletionIsSeen`, `ImplementsBlock` | nine accesses: past the wrap of the index at eight; two sectors, two contents, a sector beyond the disk, a queue that is not set, a queue number that is not heard, notifications and resets at any time, an acknowledgement of no interrupt |
| `sv39` | `TypeOK`, `TranslationIsExact`, `FaultsAreReal`, `AccessEnds` | two values per field, all entries, one page outside memory |
| `atomics` | `TypeOK`, `ScNeedsLr`, `AmoAtomic` | LR and SC of words and doublewords at an address in DRAM and one in ROM, two copies of a reservation; nine AMOs on words and doublewords; stores of bytes and words to the reserved address, into the middle of the reserved bytes and through a second mapping; a device that writes to them |
| `integer` | `InsTypeOK`, `ImmediatesExact`, `ResultsExact`, `ControlExact` | all 49152 compressed words; every opcode and funct3 of the 32-bit formats with at most two ones or one zero elsewhere; registers of 8 bits, 19 values around every boundary, pc that wraps |
| `memory` | `TypeOK`, `TimeIsWhole`, `ImplementsBytes`, `TimerIsDue` | doublewords of six one-bit bytes, words of three: the clock of 64 values carries and wraps; every size at every offset up to the end of every range and beyond, one access from every content of the registers that ticks can make of two; deadlines at and around the carry and the wrap; nine ticks during a read, with and without a device tree, a build without overflow checks |
| `browser` | `TypeOK`, `KeysConserved`, `KeysShown` | three keys of four, among them 0 and one that is no byte; slices of three turns, a look at the keys every third poll |

The runs of `Hart` use the command line front end; the theorems hold for the
browser's as well. `PagingFollowsSatp` is checked without restarts, which keep the
paging cache and clear SATP. `AccessIsSeen` and `ByteIsRead` have a premise that
says exactly when a request is lost: the other device interrupts while SEIP still
stands for it. Without the timer that never happens, since SEIP is taken in the
step that raises it; with it, `external_v_lost` shows the loss.

Where the code departs from what its own comments quote of the manual, a property
claims neither: `ImmediatesExact` leaves out negative offsets of fsw and fsd,
`ResultsExact` the upper half of remw and remuw by zero (the lower half is the manual's),
`ControlExact` where c.jr and c.jalr go when rs1 is odd, `NoMissedInterrupt` interrupts
that are delegated while the hart is in M-mode, and undelegated ones in S-mode with SIE
clear, and `ScNeedsLr` reservations that should go when other addresses are written. All
of these are in the table of divergences. `CompletionIsSeen` leaves out the first
answer after a reset: the device counts on, the driver from zero, and if the count comes
to a multiple of eight the driver misses it. `NoDebugMode` has the
premise that the guest itself writes no reserved value to MPP. For
32-bit words `ImmediatesExact` needs no more than the sparse and dense words: every
immediate is a union of images of single bits, with a sign that depends on one bit.
`KeysConserved` and `KeysShown` have the premise `~deferred`: a byte that is found
before the guest has enabled the external interrupt stays in the register, and the
next poll overwrites it. `TimeIsWhole` bounds the ticks so that the clock does not
come round during one read.

CHECK_DEADLOCK is off where the modelled system ends: the loop returns or panics,
an access is over, the requests are used up.

Violation runs each show that a comment in the source says something the code does
not do. The findings in `PROJECT.json` quote them:

| Run | What happens |
|---|---|
| `external_v_lost` | a disk interrupt is lost when a timer interrupt and then a byte come between the access and the claim |
| `virtio_v_avail` | with two requests in flight the device takes a buffer address for the available ring: the driver submits slot 1, then slot 0, and the access serves slot 0 |

### Divergences noticed while modelling

The models do what the code does. Where that differs from what the source says
elsewhere, and no run is about it:

| Where | What the code does |
|---|---|
| `cpu.rs:596` | wfi with interrupts globally disabled never ends, although an enabled interrupt is pending; the comment at 595 says it waits only while none is |
| `cpu.rs:293` | undelegated interrupts wait in S-mode while SIE is clear; the quotation at 326-328 says they are enabled below M |
| `cpu.rs:334` | delegated interrupts are taken in M-mode; the quotation at 329-333 says otherwise |
| `exception.rs:72` | the exception pc is the pc minus 4: off by 2 for compressed instructions and by 4 for fetches that fail; the quotation at 97-98 says it is the address of the instruction |
| `cpu.rs:562` | stores are translated as loads and raise load page faults; the comment at 414-415 asks for a fault of the original access type |
| `cpu.rs:1522` | fsw and fsd lose the sign of their offset; the comment at 1521 has the layout of `cpu.rs:1485`, which keeps it |
| `cpu.rs:2267` | remw and remuw by zero return the whole of rs1, not the sign-extended word that the quotation above calls the dividend |
| `cpu.rs:1103`, `1133` | c.jr and c.jalr keep bit 0 of the target, although the comments at 1098 and 1127 expand them to jalr, which (3043) clears it |
| `cpu.rs:2001` | an integer division by zero sets DZ in FCSR |
| `cpu.rs:699` | the reserved compressed word of quadrant 0 panics; other reserved words raise an illegal instruction exception |
| `cpu.rs:1615` | each LR appends to a vector that only SC and stores to the same address shorten |
| `bus.rs:82`, `clint.rs:97` | all ranges include their end: an access there, or one that crosses it, panics or reaches a register that does not exist |
| `clint.rs:107`, `139` | a doubleword access at any offset is one of the whole register |
| `uart_wasm.rs:97` | a key with the code 0 is swallowed |
| `uart_wasm.rs:60` | a key whose code is more than 255 panics; `lib.rs:45` is then not reached and the page goes on to say "active" |
| `virtio_blk.rs:345` | a store to the configuration space keeps the byte `value >> (index * 8)`, which is zero for every index but 0 |
| `virtio_blk.rs:320` | the feature selectors index arrays of two without a check |
| `exception.rs:118` | STVAL is zero for every exception; the quotation at 113-115 says it is the faulting address |
| `cpu.rs:3159` | MPP = 0b10 and mret lead to Debug mode, where the next trap panics (`interrupt.rs:163`) |
| `cpu.rs:265` | `reset` keeps `idle`, the paging cache, the reservations and the devices |
| `lib/rvemu-wasm/src/lib.rs:115` | the browser's loop never ticks the clock, and ends (128) on Invisible traps, which `exception.rs:38-39` says resume |
| `clint.rs:68` | TIME and mtime drift apart once the guest writes mtime; `cpu.rs:585` says they are the same |
| `clint.rs:86` | MTIP is posted when mtime >= mtimecmp; the comments at 27 and 46-47 have the comparison the other way round |
| `uart_cli.rs:74` | the end of the input counts as a byte, and the last byte repeats for ever |
| `plic.rs:146` | threshold and claim of a context are one word of storage |
| `virtio_blk.rs:470` | the used index is modulo 8; the comment at 393 says it is free-running. No property bounds the index; `CompletionIsSeen` has the wrap in its premise |
| `virtio_blk.rs:328` | every notification that is polled serves a chain, also one that is answered already; one after the driver has cleared the chain panics |
| `virtio_blk.rs:339` | writing zero to the status register resets nothing: a notification, an interrupt and the count of accesses are left; the comment at 84-85 says it resets the device |
| `virtio_blk.rs:442` | the disk is written if the flag is clear, as it should be; the comment at 441 says if it is set |
| `cpu.rs:412` | a fetch whose page table is outside memory raises a load access fault; the comment at 569-570 says an instruction access fault |
| `cpu.rs:558` | DMA, and stores through another mapping or at another address of the same bytes, leave reservations; the quotation at 556-557 says an SC must then fail |
| `cpu.rs:1646` | an SC leaves the reservations of other addresses; the quotation at 1644-1645 says it invalidates any |

### Fairness

- `Hart`: weak fairness of the loop, which is a `loop` on one thread. Nothing is
  assumed of the host that restarts it or of which instruction the guest runs.
- `Uart`: weak fairness of each thread's steps (the operating system schedules
  both) and strong fairness of the driver's two reads, which compete with the
  reader for the mutex: the emulator gets it in the end, although spurious wakeups
  can make the reader take it again and again. No fairness for spurious wakeups or
  for polling by the guest.
- `External`: weak fairness of the guest's handlers, strong fairness of taking a
  raised external interrupt while the timer does not come first, which holds unless
  the timer interrupts before every instruction of the kernel.
- `Virtio`: weak fairness of the poll. Not of the driver.
- `Sv39`: the walk is a loop that runs on.
- `Browser`: weak fairness of the emulator (the generator runs while it has control,
  and a timeout is served in the end), strong fairness of messages (the page has
  control only between slices, but again and again) and strong fairness of `Unmask`:
  the guest does not keep interrupts off for ever. None of the keys.

## Proofs

`tlapm` checks the eight modules `...Proofs`; nothing is assumed beyond the ASSUMEs
on the constants, which TLC evaluates in the runs. Every invariant and every action
property of the passing runs is proved, and so is the safety part of the three
refinements. Each inductive invariant was checked by TLC on the constants of the run
before it was proved.

- **`HartProofs!TypeCorrect`**: every action keeps `TypeOK`, from lemmas on
  wrapping addresses, CSR writes and the fields of mstatus.
- **`HartProofs!ContextsKept`** (`SavedContext`). Inductive together with the types.
  The point of the argument is non-interference: entering or leaving a trap of one
  mode writes fields of mstatus that are disjoint from the fields of the other mode,
  and a write of the SSTATUS view reaches only its mask; lemmas state what
  `EnterStatus`, `LeaveStatus` and `write` do to each of MIE, MPIE, MPP, SIE, SPIE,
  SPP. **`ReturnsResume`** follows from it for the step that returns.
- **`HartProofs!InterruptsPrecise`** (`NoMissedInterrupt`): what the manual enables
  globally the code does not mask (`MaskedIsDisabled`), and the interrupt step ends
  with nothing pending, with interrupts masked in the mode, or in a handler whose
  interrupt-enable bit has just been cleared; nothing else enters the execute phase.
- **`HartProofs!ClintAlwaysPosted`** (`ClintPosted`): the interrupt phase is entered only
  from the step that ticks the CLINT, and that step rewrites both bits.
- **`HartProofs!NeverDebug`** (`NoDebugMode`). Inductive is `NoDebug`: neither the mode nor
  MPP is Debug. Without the second half nothing is known of an mret. Traps leave their
  own mode in MPP, sret and traps to S leave MPP alone, mret leaves U, and the SSTATUS
  view does not reach MPP.
- **`HartProofs!PagingFollows`** (`PagingFollowsSatp`), for hosts that do not restart:
  only a CSR instruction writes SATP, and `update_paging` follows in the same step;
  entering a trap writes other registers.
- **`UartProofs!TypeCorrect`, `AlwaysSignalled`, `StatusIsStable`** from the invariant
  `Handshake`: `DataIsSignalled`, `StatusStable` and `InSection`, which says what
  holds of `rx` and the flag at each place of the reader's critical section.
  `DataIsSignalled` alone is not inductive, since `SetRx` needs that the flag set by
  `SetFlag` has not been consumed by a driver that then found RX clear: the driver
  cannot have looked, because the reader holds the mutex.
- **`UartProofs!RefinesChannel`**: every step of the UART is a step of `ByteChannel`
  or leaves it alone, under the mapping `InRegister \o InHand`, for inputs of any
  length, whether they end or not. **`NothingLost`** (`Conserved`) follows step by
  step: taking and delivering a byte regroup a concatenation, and a repeated byte is
  appended only when nothing is left of the input.
- **`ExternalProofs!TypeCorrect`, `ClaimsJustified`** (`ClaimIsJustified`). The inductive
  invariant `Justified` is `Posted` (from the moment SEIP is raised until the guest reads
  it, the claim register names a device that has something, and so does the number the
  guest has read until it serves it) and `Devices` (what each device's flags say of its
  data). The point is that a poll overwrites the claim only with another
  justified one.
- **`VirtioProofs!TypeCorrect`**: with the counting invariant `Counted`, for disks and
  contents of any size.
- **`VirtioProofs!RefinesBlock`** and **`CompletionsWhole`** (`CompletionIsWhole`), for drivers
  with `OneInFlight`. The invariant `OneAtATime` says that either nothing waits or the one
  waiting request is the one that the guest's memory describes: its header holds the
  sector, its chain is in the descriptors, and no completion is left unread; or it is
  answered and disk and buffer hold the same, so that a notification after the answer
  copies what is there already (`AnsweredAccess`). With two in flight it is false:
  `virtio_v_avail` shows how.
- **`VirtioProofs!CompletionsSeen`** (`CompletionIsSeen`): the invariant `Tracked` ties both
  indices to the count of accesses modulo eight, and two counts less than eight apart
  differ modulo eight.
- **`Sv39Proofs!TypeCorrect`, `TranslationExact`, `FaultsReal`** from the invariant `Walk`: the
  entries that the walk has read are those of the tables on the path of the virtual
  page, and what it has found is kept when it looks at more of them (`FindGrows`,
  `PathStays`), although the content of memory is chosen as the walk reads it.
- **`InstructionProofs!ScsNeedLr`** (`ScNeedsLr`), for every guest, with aliases and with
  devices that write to its memory. The invariant `Linked` says that an address with
  copies in the reservation set is linked; it is kept because a write removes all the
  copies of its address, before it can fault.
- **`InstructionProofs!TypeCorrect`** and **`AmosAtomic`** (`AmoAtomic`), for words of every size. The
  proof is about numbers: powers of two double since a new element doubles the number
  of subsets (`FS_SUBSET` of the library counts them); a number is determined modulo
  2^n by its n low digits (`SameRemainder`) and every sequence of digits has one
  (`DigitsExist`); so a load after a store returns the value modulo 2^n (`StoreLoad`).
  `SignedRegister` and `SignedDigits` say what `as i32 as i64 as u64` does digit by digit,
  `SignedOrder` that comparing such casts is comparing sign bits first, and `AmoIsIsa`
  has one case per AMO. That an aligned access stays inside memory (`AlignedInside`)
  needs that translation keeps offsets, which is part of `GuestAssumption`:
  `translate` keeps the low 12 bits.
- **`InstructionProofs!InsTypeCorrect`** (`InsTypeOK`) and **`ResultsAlwaysExact`**
  (`ResultsExact`), for registers of every width that is a power of two, so also for
  the 64 and 32 bits of the code, and for every operand. The invariant `InsInv` adds to the
  types what is known before an instruction is executed: which operations there are,
  which registers they name and how long they are. The rest is arithmetic. A number is
  determined by its quotient and remainder (`IntDivision`), so that sums, differences and
  products may be reduced at any point (`Congruent`, `ReducedOps`) and a number with a
  sign is the one in its range with the right remainder (`SignedUnique`). Each operation of
  the manual has a lemma for numbers of any width (`IsaAdd` ... `IsaDivu`): the high halves
  of products from the uniqueness of quotients, shifts and logic from digits of
  integers of either sign (`RightDigits`, `LeftDigits`, `SignedDigit`), and division from
  `QuotientIs`, that rounding towards zero leaves a remainder with the sign of the
  dividend, and `QuotientRange`, that only MIN / -1 leaves the range. `BasicExact`,
  `MultiplyExact`, `DivideExact` and their variants for words put them together.
- **`InstructionProofs!ImmediatesAlwaysExact`** (`ImmediatesExact`), for every word of 16 bits and
  every word of 32 bits with a modelled opcode. For each format a lemma `Layout...` says that
  the shifts and masks of the source gather the bits that the manual names; then one
  lemma per quadrant and per opcode says that every path through the decoder yields an
  instruction with the layout of its format (`DecodedIs`).
- **`InstructionProofs!ControlAlwaysExact`** (`ControlExact`): `Targets` shows that the code's way to
  a target (the pc already advanced by 2 or 4, the offset added, the length taken off
  again) is the sum of the instruction's address and the offset modulo 2^XLEN, and
  `BranchTaken` that comparing casts is comparing sign bits first.
- **`MemoryProofs!TypeCorrect`, `RefinesBytes`** (`ImplementsBytes`): an access that stays in
  its region reads or replaces the bytes of a `ByteMemory`; `ClintReadIs` and `ClintWriteIs`
  show that the masks and shifts of the CLINT do what the byte-by-byte code of memory and
  ROM does there, for each size.
- **`MemoryProofs!TimerDue`** (`TimerIsDue`). The invariant `Moving` says what mtimecmp is
  after each of the three stores: first its lower word is all ones under the old upper
  word, which is at least the old deadline (`NumberMonotone`); then it is all ones under
  the new upper word, at least the new deadline; then it is the new deadline.
- **`MemoryProofs!TimeWhole`** (`TimeIsWhole`). The invariant `Reading` describes the times
  since the read began as consecutive values of the clock, modulo its width; the upper
  word was read at the first of them and the lower word at one of them. Two readings of the same upper word, with fewer ticks than
  the clock has between them, lie in one block of the clock, or the clock has come round
  (`SameBlock`); the lower word read between them completes a time in the interval.
- **`BrowserProofs!TypeCorrect`, `KeysReachGuest`** (`KeysConserved`). The invariant `Kept` adds
  that a byte is in the register only while the guest's handler runs (unless one was
  deferred), and that the handler reads the register only then. Without it a poll could
  overwrite a byte; with it the register is empty whenever the UART is polled.

What a recursive function computes is proved in `MemoryProofs` without the library's
induction theorems, whose operator parameters the provers cannot instantiate:
`Induction` is about *sets* of numbers (from the minimum of a non-empty set), and
`Recursion` builds the function whose values are given step by step, which shows that
`TwoTo` and `Sums` satisfy their equations. `InstructionProofs` states `Induction` and the facts
about division for itself.

Only model-checked: the liveness properties (`IdleWakes`, `AllReceived`, `AccessIsSeen`,
`ByteIsRead`, `AccessEnds`, `KeysShown`) and the fairness part of the refinements, which the
proof system does not cover.

## Not modelled

- Floating-point arithmetic: the host's, and out of TLC's reach. Loads and stores of
  floating-point registers are decoded.
- The text of the device tree and the compiler that is called for it, the parsing of
  arguments, debug output, register dumps and instruction counters.
- Feature, selector and configuration registers of the disk: storage that no
  operation of the device reads.
- More copies of a reservation than `MaxCopies`: memory of the host is not bounded in
  the model, and the theorem holds for every bound.

## Plan

1. `Machine`: compose `Hart` with the poll of `External`, so that the guest's traps
   come from the hart, and show that `External` is what remains of it.
2. Page tables that change between two walks, with DMA to them.
