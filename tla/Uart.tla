-------------------------------- MODULE Uart --------------------------------
(***************************************************************************)
(* The UART of the command line tool (src/src/devices/uart_cli.rs): a      *)
(* thread reads the standard input a byte at a time and hands each byte to *)
(* the thread of the emulator through the receive holding register uart[0] *)
(* and bit 0 of the line status register, both behind a mutex, and through *)
(* the atomic flag `interrupting', which the emulator swaps without the    *)
(* mutex.  A condition variable tells the reader that the register is free.*)
(*                                                                         *)
(* The emulator holds the mutex only inside a call of `read' or `write',   *)
(* so such a call is one step, taken while the reader does not hold it.    *)
(* The reader's critical section is split where the flag makes the order   *)
(* of its assignments visible.                                             *)
(*                                                                         *)
(* The guest is a driver outside this repository: it reads the receive     *)
(* holding register only after it has seen data in the line status         *)
(* register, and looks there when it is interrupted or when it likes.      *)
(* Transmitting prints the byte and changes no state of this module.       *)
(***************************************************************************)
EXTENDS Naturals, Sequences

CONSTANTS
  Byte,       \* the byte values
  Input,      \* the bytes on the standard input
  Eof,        \* TRUE if the standard input ends after them
  MaxReceived \* bound: no read at the end of the input after so many bytes

VARIABLES
  source,        \* bytes of the standard input not yet read
  byte,          \* the reader's buffer byte[0]
  rpc,           \* where the reader is
  rhr,           \* uart[0]
  rx,            \* bit 0 of the line status register
  interrupting,  \* the atomic flag
  dpc,           \* where the driver is
  received       \* history: what the driver has received

vars == <<source, byte, rpc, rhr, rx, interrupting, dpc, received>>
driver == <<dpc, received>>

ASSUME ByteAssumption == 0 \in Byte
ASSUME InputAssumption == Input \in Seq(Byte)
ASSUME EofAssumption == Eof \in BOOLEAN /\ MaxReceived \in Nat

TypeOK ==
  /\ source \in Seq(Byte)
  /\ byte \in Byte
  /\ rpc \in {"read", "lock", "check", "wait", "store", "flag", "ready"}
  /\ rhr \in Byte
  /\ rx \in BOOLEAN
  /\ interrupting \in BOOLEAN
  /\ dpc \in {"run", "lsr", "rhr"}
  /\ received \in Seq(Byte)

\* The reader is in its critical section; waiting releases the mutex.
ReaderHolds == rpc \in {"check", "store", "flag", "ready"}

----------------------------------------------------------------------------
(* The reader thread.                                                      *)

\* Mutant: reports the end of the input as 256.
ReadStdin_EofMark ==
  /\ rpc = "read"
  /\ \/ /\ source # <<>>
        /\ byte' = Head(source)
        /\ source' = Tail(source)
     \/ /\ source = <<>>
        /\ Eof /\ Len(received) < MaxReceived
        /\ byte' = 256
        /\ UNCHANGED source
  /\ rpc' = "lock"
  /\ UNCHANGED <<rhr, rx, interrupting, driver>>

\* io::stdin().read: at the end of the input it returns Ok(0) and leaves the
\* buffer as it is, and the code does not tell the difference.  An error is
\* printed and retried, a step that changes nothing.
ReadStdin ==
  /\ rpc = "read"
  /\ \/ /\ source # <<>>
        /\ byte' = Head(source)
        /\ source' = Tail(source)
     \/ /\ source = <<>>
        /\ Eof /\ Len(received) < MaxReceived
        /\ UNCHANGED <<byte, source>>
  /\ rpc' = "lock"
  /\ UNCHANGED <<rhr, rx, interrupting, driver>>

\* uart.lock(), also on the way out of cvar.wait.
Lock ==
  /\ rpc = "lock"
  /\ rpc' = "check"
  /\ UNCHANGED <<source, byte, rhr, rx, interrupting, driver>>

\* Mutant: does not wait for the register to be free.
CheckRx_NoWait ==
  /\ rpc = "check"
  /\ rpc' = "store"
  /\ UNCHANGED <<source, byte, rhr, rx, interrupting, driver>>

\* The test of the while loop: wait while the register holds a byte.
CheckRx ==
  /\ rpc = "check"
  /\ rpc' = IF rx THEN "wait" ELSE "store"
  /\ UNCHANGED <<source, byte, rhr, rx, interrupting, driver>>

\* A condition variable may wake its waiter without a notification.
SpuriousWakeup ==
  /\ rpc = "wait"
  /\ rpc' = "lock"
  /\ UNCHANGED <<source, byte, rhr, rx, interrupting, driver>>

\* uart[0] = byte[0]
Store ==
  /\ rpc = "store"
  /\ rhr' = byte
  /\ rpc' = "flag"
  /\ UNCHANGED <<source, byte, rx, interrupting, driver>>

\* interrupting.store(true)
SetFlag ==
  /\ rpc = "flag"
  /\ interrupting' = TRUE
  /\ rpc' = "ready"
  /\ UNCHANGED <<source, byte, rhr, rx, driver>>

\* uart[LSR] |= RX, and the guard drops the mutex.
SetRx ==
  /\ rpc = "ready"
  /\ rx' = TRUE
  /\ rpc' = "read"
  /\ UNCHANGED <<source, byte, rhr, interrupting, driver>>

----------------------------------------------------------------------------
(* The emulator's thread, driven by the guest.                             *)

\* check_pending_interrupt calls is_interrupting and finds the flag set; the
\* guest enters its handler.
is_interrupting ==
  /\ dpc = "run"
  /\ interrupting
  /\ interrupting' = FALSE
  /\ dpc' = "lsr"
  /\ UNCHANGED <<source, byte, rpc, rhr, rx, received>>

\* The guest polls the device without having been interrupted.
PollDevice ==
  /\ dpc = "run"
  /\ dpc' = "lsr"
  /\ UNCHANGED <<source, byte, rpc, rhr, rx, interrupting, received>>

\* Mutant: reads the status without the mutex.
read_LSR_Unlocked ==
  /\ dpc = "lsr"
  /\ dpc' = IF rx THEN "rhr" ELSE "run"
  /\ UNCHANGED <<source, byte, rpc, rhr, rx, interrupting, received>>

\* Uart::read of the line status register.
read_LSR ==
  /\ dpc = "lsr"
  /\ ~ReaderHolds
  /\ dpc' = IF rx THEN "rhr" ELSE "run"
  /\ UNCHANGED <<source, byte, rpc, rhr, rx, interrupting, received>>

\* Mutant: does not notify the reader.
read_RHR_Silent ==
  /\ dpc = "rhr"
  /\ ~ReaderHolds
  /\ rx' = FALSE
  /\ received' = Append(received, rhr)
  /\ dpc' = "lsr"
  /\ UNCHANGED <<source, byte, rpc, rhr, interrupting>>

\* Mutant: leaves RX set.
read_RHR_KeepRx ==
  /\ dpc = "rhr"
  /\ ~ReaderHolds
  /\ rpc' = IF rpc = "wait" THEN "lock" ELSE rpc
  /\ rx' = rx
  /\ received' = Append(received, rhr)
  /\ dpc' = "lsr"
  /\ UNCHANGED <<source, byte, rhr, interrupting>>

\* Uart::read of the receive holding register: notify_one, clear RX, return
\* the byte.
read_RHR ==
  /\ dpc = "rhr"
  /\ ~ReaderHolds
  /\ rpc' = IF rpc = "wait" THEN "lock" ELSE rpc
  /\ rx' = FALSE
  /\ received' = Append(received, rhr)
  /\ dpc' = "lsr"
  /\ UNCHANGED <<source, byte, rhr, interrupting>>

----------------------------------------------------------------------------

Init ==
  /\ source = Input
  /\ byte = 0
  /\ rpc = "read"
  /\ rhr = 0
  /\ rx = FALSE
  /\ interrupting = FALSE
  /\ dpc = "run"
  /\ received = <<>>

Reader == ReadStdin \/ Lock \/ CheckRx \/ Store \/ SetFlag \/ SetRx

Next ==
  \/ Reader
  \/ SpuriousWakeup
  \/ is_interrupting
  \/ PollDevice
  \/ read_LSR
  \/ read_RHR

\* Both threads are scheduled.  The emulator polls in every turn of its loop
\* and gets the mutex in the end even if the reader takes it again and again
\* on spurious wakeups.  Nothing makes the guest poll, and no wakeup comes for
\* free.
Spec ==
  /\ Init /\ [][Next]_vars
  /\ WF_vars(Reader)
  /\ WF_vars(is_interrupting)
  /\ SF_vars(read_LSR)
  /\ SF_vars(read_RHR)

----------------------------------------------------------------------------
(* Properties.                                                             *)

\* The bytes between the standard input and the guest, oldest first.
InRegister == IF rx THEN <<rhr>> ELSE <<>>
InHand == IF rpc = "read" THEN <<>> ELSE <<byte>>

Bytes == received \o InRegister \o InHand \o source

\* Nothing is lost, duplicated or reordered: what the guest has received, the
\* register, the reader's hand and the rest of the input make up the input, at
\* every interleaving of the two threads.  Once the input has ended, and only
\* then, repetitions of the last byte follow it (the reader thread, which does
\* not tell Ok(0) from Ok(1), and Uart::read).
Conserved ==
  /\ Len(Bytes) >= Len(Input)
  /\ ~Eof \/ source # <<>> => Len(Bytes) = Len(Input)
  /\ \A i \in 1 .. Len(Bytes) : Bytes[i] = IF i <= Len(Input) THEN Input[i] ELSE byte

\* The flag and the line status register agree in the order that matters:
\* data in the register that the guest is not about to look at has its
\* interrupt raised.  So an interrupt-driven guest is never left waiting with
\* a byte in the register.
DataIsSignalled == rx /\ dpc = "run" => interrupting

\* What the guest saw in the line status register is still true when it acts
\* on it.
StatusStable == dpc = "rhr" => rx /\ rpc \notin {"store", "flag", "ready"}

\* Every byte of the input reaches the guest, in order.
AllReceived == <>(Len(received) >= Len(Input) /\ SubSeq(received, 1, Len(Input)) = Input)

\* The device implements the channel.
Channel == INSTANCE ByteChannel WITH queue <- InRegister \o InHand
ImplementsChannel == Channel!Spec
=============================================================================
