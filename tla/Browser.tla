------------------------------ MODULE Browser ------------------------------
(***************************************************************************)
(* The emulator in a web page: the page's key and message handlers         *)
(* (src/public/xv6.js), the generator that runs the emulator in slices     *)
(* (src/lib/rvemu-wasm/src/lib.rs) and the UART for WebAssembly            *)
(* (src/src/devices/uart_wasm.rs), with the guest that it interrupts.      *)
(*                                                                         *)
(* All of it is one thread.  The page's handlers run only while the page   *)
(* has control, and a slice keeps it until the generator yields, returns   *)
(* or panics.  Keys wait as children of an element, and what the guest     *)
(* prints waits as messages.                                               *)
(*                                                                         *)
(* The guest is a kernel outside this repository that echoes what it       *)
(* receives.  It runs with interrupts off, with interrupts on before and   *)
(* after it has enabled SEIP in MIE ("early" and "kernel"), and in its     *)
(* external interrupt handler, with interrupts off.  There is no timer     *)
(* interrupt: this loop does not call devices_increment, so the CLINT      *)
(* stands still.  Modules Hart and External have the details of traps.     *)
(***************************************************************************)
EXTENDS Naturals, Sequences, SequencesExt

CONSTANTS
  Key,        \* codes of keys
  ByteMax,    \* the greatest code that fits a byte, 255 in the code
  MaxKeys,    \* bound: keys typed
  SliceTurns, \* turns of the loop in a slice, 500000 in the code
  ClockLimit  \* polls between two looks at the keys, 500000 in the code

VARIABLES
  typed,      \* history: the keys typed
  buffer,     \* the children of inputBuffer
  posted,     \* messages of the UART to the page
  screen,     \* what the page has written to its terminal
  where,      \* who has control, and where the generator is
  count,      \* turns of the loop in this slice
  clock, not_null, \* of the UART
  rhr, rx,    \* uart[0], and bit 0 of the line status register
  seip,       \* SEIP in MIP
  guest,      \* where the guest is
  received,   \* history: what the guest has received
  deferred    \* history: a byte came while its interrupt was not enabled

vars == <<typed, buffer, posted, screen, where, count, clock, not_null, rhr, rx, seip,
          guest, received, deferred>>
page == <<typed, buffer, posted, screen>>
uart == <<clock, not_null, rhr, rx>>
kernel == <<seip, guest, received, deferred>>

ASSUME BrowserAssumption ==
  /\ Key \subseteq Nat /\ ByteMax \in Nat /\ MaxKeys \in Nat
  /\ SliceTurns \in Nat \ {0} /\ ClockLimit \in Nat

Byte == 0 .. ByteMax

TypeOK ==
  /\ typed \in Seq(Key) /\ buffer \in Seq(Key) /\ posted \in Seq(Byte) /\ screen \in Seq(Byte)
  /\ where \in {"loading", "started", "waiting", "top", "check", "execute", "ended", "panicked"}
  /\ count \in 0 .. SliceTurns /\ clock \in 0 .. ClockLimit
  /\ not_null \in BOOLEAN /\ rhr \in Byte /\ rx \in BOOLEAN
  /\ seip \in BOOLEAN
  /\ guest \in {"off", "early", "kernel", "lsr", "rhr", "thr"}
  /\ received \in Seq(Byte) /\ deferred \in BOOLEAN

----------------------------------------------------------------------------
(* The page.                                                               *)

PageHasControl == where \notin {"top", "check", "execute"}

\* term.onKey: append the code of the key.
OnKey(k) ==
  /\ PageHasControl /\ Len(typed) < MaxKeys
  /\ typed' = Append(typed, k)
  /\ buffer' = Append(buffer, k)
  /\ UNCHANGED <<posted, screen, where, count, uart, kernel>>

\* onmessage: write the character to the terminal.
OnMessage ==
  /\ PageHasControl /\ posted # <<>>
  /\ screen' = Append(screen, Head(posted))
  /\ posted' = Tail(posted)
  /\ UNCHANGED <<typed, buffer, where, count, uart, kernel>>

\* emulator_start: set up the emulator and have the generator resumed.
emulator_start ==
  /\ where = "loading"
  /\ where' = "started"
  /\ UNCHANGED <<page, count, uart, kernel>>

\* The timeout: resume the generator, at its start or after its yield.
resume ==
  /\ \/ where = "started" /\ where' = "top"
     \/ where = "waiting" /\ where' = "check"
  /\ UNCHANGED <<page, count, uart, kernel>>

----------------------------------------------------------------------------
(* The loop of the generator.                                              *)

\* Mutant: the count starts again in every turn.
CountTurn_Local ==
  /\ where = "top"
  /\ count' = 1 /\ where' = "check"
  /\ UNCHANGED <<page, uart, kernel>>

\* Count the turn; at the end of a slice yield, with the next timeout set.
CountTurn ==
  /\ where = "top"
  /\ IF count + 1 > SliceTurns
     THEN count' = 0 /\ where' = "waiting"
     ELSE count' = count + 1 /\ where' = "check"
  /\ UNCHANGED <<page, uart, kernel>>

InterruptsOn == guest \in {"early", "kernel"}

\* The first lines of is_interrupting: whether it looks at the keys.
Looks == clock + 1 > ClockLimit \/ not_null

\* get_input: the code of the first key; 0 if there is none.
get_input == IF buffer = <<>> THEN 0 ELSE Head(buffer)

\* Mutant: any code is a byte.
ParseFails_Never == FALSE

\* text.parse().expect(..): the code is not that of a byte.
ParseFails == get_input > ByteMax

\* Uart::is_interrupting; `Found' is what it returns.
Found == Looks /\ get_input # 0
is_interrupting ==
  /\ clock' = IF Looks THEN 0 ELSE clock + 1
  /\ buffer' = IF Looks /\ buffer # <<>> THEN Tail(buffer) ELSE buffer
  /\ not_null' = IF Looks THEN Found ELSE not_null
  /\ rhr' = IF Found THEN get_input ELSE rhr
  /\ rx' = (rx \/ Found)

\* Mutant: polls whether or not interrupts are on.
Poll_Always ==
  /\ where = "check"
  /\ ~(Looks /\ ParseFails)
  /\ is_interrupting
  /\ where' = "execute"
  /\ deferred' = (deferred \/ (Found /\ guest = "early"))
  /\ IF guest = "kernel" /\ (seip \/ Found) THEN guest' = "lsr" /\ seip' = FALSE
     ELSE seip' = (seip \/ Found) /\ UNCHANGED guest
  /\ UNCHANGED <<typed, posted, screen, count, received>>

\* check_pending_interrupt with interrupts on: poll the UART, then take the
\* external interrupt if it is pending and enabled.
Poll ==
  /\ where = "check" /\ InterruptsOn
  /\ ~(Looks /\ ParseFails)
  /\ is_interrupting
  /\ where' = "execute"
  /\ deferred' = (deferred \/ (Found /\ guest = "early"))
  /\ IF guest = "kernel" /\ (seip \/ Found) THEN guest' = "lsr" /\ seip' = FALSE
     ELSE seip' = (seip \/ Found) /\ UNCHANGED guest
  /\ UNCHANGED <<typed, posted, screen, count, received>>

\* The poll panics; no further timeout is set.
PollPanics ==
  /\ where = "check" /\ InterruptsOn
  /\ Looks /\ ParseFails
  /\ buffer' = Tail(buffer)
  /\ clock' = 0
  /\ where' = "panicked"
  /\ UNCHANGED <<typed, posted, screen, count, not_null, rhr, rx, kernel>>

\* check_pending_interrupt with interrupts off.
NoPoll ==
  /\ where = "check" /\ ~InterruptsOn
  /\ where' = "execute"
  /\ UNCHANGED <<page, count, uart, kernel>>

----------------------------------------------------------------------------
(* The guest's instructions; after each the loop goes round.               *)

Executed == where = "execute" /\ where' = "top" /\ UNCHANGED <<typed, buffer, screen, count>>

\* Work, with interrupts on or off.
Work ==
  /\ Executed
  /\ guest \in {"off", "early", "kernel"}
  /\ guest' \in {guest} \cup (IF guest = "kernel" THEN {"off"} ELSE {})
                        \cup (IF guest = "off" /\ received = <<>> THEN {"early"} ELSE {})
  /\ UNCHANGED <<posted, uart, seip, received, deferred>>

\* Interrupts on and SEIP enabled.
Unmask ==
  /\ Executed
  /\ guest \in {"off", "early"} /\ guest' = "kernel"
  /\ UNCHANGED <<posted, uart, seip, received, deferred>>

\* Uart::read of the line status register; without data the handler returns.
read_LSR ==
  /\ Executed
  /\ guest = "lsr" /\ guest' = IF rx THEN "rhr" ELSE "kernel"
  /\ UNCHANGED <<posted, uart, seip, received, deferred>>

\* Uart::read of the receive holding register: clear RX, return the byte.
read_RHR ==
  /\ Executed
  /\ guest = "rhr" /\ guest' = "thr"
  /\ received' = Append(received, rhr)
  /\ rx' = FALSE
  /\ UNCHANGED <<posted, clock, not_null, rhr, seip, deferred>>

\* Uart::write of the transmit holding register: post a message to the page.
write_THR ==
  /\ Executed
  /\ guest = "thr" /\ guest' = "lsr"
  /\ posted' = Append(posted, Last(received))
  /\ UNCHANGED <<uart, seip, received, deferred>>

\* A fatal trap: the generator returns, and the page is told so.
FatalTrap ==
  /\ where = "execute" /\ guest = "kernel"
  /\ where' = "ended"
  /\ UNCHANGED <<page, count, uart, kernel>>

----------------------------------------------------------------------------

Init ==
  /\ typed = <<>> /\ buffer = <<>> /\ posted = <<>> /\ screen = <<>>
  /\ where = "loading" /\ count = 0
  /\ clock = 0 /\ not_null = FALSE /\ rhr = 0 /\ rx = FALSE
  /\ seip = FALSE /\ guest = "off" /\ received = <<>> /\ deferred = FALSE

Check == NoPoll \/ PollPanics \/ Poll
Execute == Work \/ Unmask \/ read_LSR \/ read_RHR \/ write_THR \/ FatalTrap
Emulator == emulator_start \/ resume \/ CountTurn \/ Check \/ Execute

Next == Emulator \/ OnMessage \/ \E k \in Key : OnKey(k)

\* The generator runs while it has control, and the browser serves timeouts and
\* messages alike.  The guest does not keep interrupts off for ever.
Spec ==
  /\ Init /\ [][Next]_vars
  /\ WF_vars(Emulator)
  /\ SF_vars(OnMessage)
  /\ SF_vars(Unmask)

----------------------------------------------------------------------------
(* Properties.                                                             *)

\* at[i] is the place in s of the i-th of out: in order, and none of the first n
\* keys of s left out whose code is not 0.
Places(at, out, s, n) ==
  /\ \A i, j \in 1 .. Len(out) : i < j => at[i] < at[j]
  /\ \A i \in 1 .. Len(out) : out[i] = s[at[i]] /\ s[at[i]] # 0
  /\ \A k \in 1 .. n : s[k] # 0 => \E i \in 1 .. Len(out) : at[i] = k

\* out is what the first n keys of s show: those whose code is not 0, in order
\* and each of them once.
Shows(out, s, n) == \E at \in [1 .. Len(out) -> 1 .. n] : Places(at, out, s, n)

InRegister == IF rx THEN <<rhr>> ELSE <<>>

\* How many keys the UART has taken.
Taken == Len(typed) - Len(buffer)

\* Every key but those with the code 0 reaches the guest in order and once,
\* although the UART looks for the next key right after one was found and the
\* register holds one byte: interrupts stay off until the guest has read it.
\* So it is as long as the interrupt of each byte is taken at once: one that
\* comes before the guest has enabled it leaves the byte in the register, and
\* the next poll overwrites it (get_input, is_interrupting and
\* check_pending_interrupt).
KeysConserved ==
  ~deferred /\ where # "panicked" =>
    /\ \A i \in 1 .. Len(buffer) : buffer[i] = typed[Taken + i]
    /\ Shows(received \o InRegister, typed, Taken)

\* What is typed appears on the page in the end, unless the emulator stops: the
\* slices end, and the UART looks at the keys again after it found none.
KeysShown == []~deferred => <>[](where \in {"ended", "panicked"} \/ Shows(screen, typed, Len(typed)))
=============================================================================
