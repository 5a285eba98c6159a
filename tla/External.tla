------------------------------ MODULE External ------------------------------
(***************************************************************************)
(* External interrupts: how check_pending_interrupt (src/src/cpu.rs) polls *)
(* the UART and the disk, posts the interrupt request in the PLIC and      *)
(* raises SEIP, together with the guest that claims and serves it.         *)
(*                                                                         *)
(* Of the hart this module keeps where the guest is: in its kernel with    *)
(* interrupts enabled, in its timer handler (M-mode, interrupts disabled)  *)
(* or in its external interrupt handler (S-mode, interrupts disabled).     *)
(* SEIP is enabled and delegated.  Module Hart shows how these states come *)
(* about.  The guest is software outside this repository, in the manner of *)
(* xv6: at boot it sets the threshold of its context, it has one disk      *)
(* request outstanding, and its handler serves the device that it claims.  *)
(***************************************************************************)
EXTENDS Plic

CONSTANTS
  Bytes,         \* bound: bytes that arrive on the standard input
  Requests,      \* bound: requests to the disk
  Threshold      \* the threshold that the guest sets

VARIABLES
  guest,         \* where the guest is
  arriving,      \* bytes not yet in the receive holding register
  rx,            \* the receive holding register holds a byte
  interrupting,  \* Uart::interrupting
  requests,      \* requests not yet issued
  queue_notify,  \* Virtio::queue_notify # 9999
  interrupt_status,
  accessed,      \* history: disk accesses done and not yet seen by the guest
  plic,          \* the registers of the PLIC
  seip,          \* SEIP in MIP
  irq            \* what the handler has claimed

vars == <<guest, arriving, rx, interrupting, requests, queue_notify,
          interrupt_status, accessed, plic, seip, irq>>

uart == <<arriving, rx, interrupting>>
virtio == <<requests, queue_notify, interrupt_status, accessed>>

UART_IRQ == 10
VIRTIO_IRQ == 1

\* Context 1, the S-mode of hart 0.
PLIC_SCLAIM == CLAIM(1)
Offsets == {PRIORITY(UART_IRQ), PRIORITY(VIRTIO_IRQ), ENABLE(1), THRESHOLD(1), CLAIM(1)}

ASSUME BoundAssumption ==
  /\ Bytes \in Nat /\ Requests \in Nat /\ Threshold \in Nat

TypeOK ==
  /\ guest \in {"boot", "kernel", "timer", "claim", "serve", "complete"}
  /\ arriving \in 0 .. Bytes /\ rx \in BOOLEAN /\ interrupting \in BOOLEAN
  /\ requests \in 0 .. Requests /\ queue_notify \in BOOLEAN
  /\ interrupt_status \in {0, 1} /\ accessed \in 0 .. 1
  /\ plic \in [Registers(Offsets) -> Nat]
  /\ seip \in BOOLEAN
  /\ irq \in Nat

----------------------------------------------------------------------------
(* The devices.                                                            *)

\* A byte "arrives" although the input is at its end.
ByteArrives_Eof ==
  /\ ~rx
  /\ arriving' = arriving - 1
  /\ rx' = TRUE
  /\ interrupting' = TRUE
  /\ UNCHANGED <<guest, virtio, plic, seip, irq>>

\* The reader thread of the UART; module Uart has its steps.
ByteArrives ==
  /\ arriving > 0 /\ ~rx
  /\ arriving' = arriving - 1
  /\ rx' = TRUE
  /\ interrupting' = TRUE
  /\ UNCHANGED <<guest, virtio, plic, seip, irq>>

\* The interrupt request is not posted.
Polled_NoPost ==
  /\ interrupting' = FALSE
  /\ queue_notify' = (interrupting /\ queue_notify)
  /\ accessed' = IF ~interrupting /\ queue_notify THEN 1 ELSE accessed
  /\ UNCHANGED <<interrupt_status, plic>>

\* The disk interrupts without the access.
Polled_NoAccess ==
  IF interrupting
  THEN /\ interrupting' = FALSE
       /\ plic' = plic_write(plic, PLIC_SCLAIM, UART_IRQ, WORD)
       /\ UNCHANGED <<queue_notify, interrupt_status, accessed>>
  ELSE IF queue_notify
  THEN /\ queue_notify' = FALSE
       /\ plic' = plic_write(plic, PLIC_SCLAIM, VIRTIO_IRQ, WORD)
       /\ UNCHANGED <<interrupting, interrupt_status, accessed>>
  ELSE UNCHANGED <<interrupting, queue_notify, interrupt_status, accessed, plic>>

\* The devices and the PLIC after the poll: the UART first, and the disk only
\* if the UART is not interrupting; Virtio::disk_access is part of the poll.
Polled ==
  IF interrupting
  THEN /\ interrupting' = FALSE
       /\ plic' = plic_write(plic, PLIC_SCLAIM, UART_IRQ, WORD)
       /\ UNCHANGED <<queue_notify, interrupt_status, accessed>>
  ELSE IF queue_notify
  THEN /\ queue_notify' = FALSE
       /\ interrupt_status' = 1
       /\ accessed' = 1
       /\ plic' = plic_write(plic, PLIC_SCLAIM, VIRTIO_IRQ, WORD)
       /\ UNCHANGED interrupting
  ELSE UNCHANGED <<interrupting, queue_notify, interrupt_status, accessed, plic>>

\* SEIP after the poll.
Raised == seip \/ interrupting \/ queue_notify

\* SEIP is cleared with whichever interrupt is taken.
check_pending_interrupt_DropSeip(due) ==
  /\ guest = "kernel"
  /\ due \/ Raised
  /\ Polled
  /\ guest' = IF due THEN "timer" ELSE "claim"
  /\ seip' = FALSE
  /\ UNCHANGED <<arriving, rx, requests, irq>>

\* check_pending_interrupt while interrupts are enabled.  `due' is MTIP, which
\* is tested before SEIP.
check_pending_interrupt(due) ==
  /\ guest = "kernel"
  /\ due \/ Raised
  /\ Polled
  /\ IF due THEN guest' = "timer" /\ seip' = Raised
            ELSE guest' = "claim" /\ seip' = FALSE
  /\ UNCHANGED <<arriving, rx, requests, irq>>

----------------------------------------------------------------------------
(* The guest.                                                              *)

Boot ==
  /\ guest = "boot"
  /\ guest' = "kernel"
  /\ plic' = plic_write(plic_write(plic_write(plic_write(plic,
               PRIORITY(UART_IRQ), 1, WORD), PRIORITY(VIRTIO_IRQ), 1, WORD), ENABLE(1), 1026, WORD),
               THRESHOLD(1), Threshold, WORD)
  /\ UNCHANGED <<uart, virtio, seip, irq>>

\* Write VIRTIO_QUEUE_NOTIFY; the guest waits for the answer to the last one.
Notify ==
  /\ guest = "kernel"
  /\ requests > 0 /\ ~queue_notify /\ accessed = 0
  /\ requests' = requests - 1
  /\ queue_notify' = TRUE
  /\ UNCHANGED <<guest, uart, interrupt_status, accessed, plic, seip, irq>>

TimerReturn ==
  /\ guest = "timer"
  /\ guest' = "kernel"
  /\ UNCHANGED <<uart, virtio, plic, seip, irq>>

Claim ==
  /\ guest = "claim"
  /\ irq' = plic_read(plic, PLIC_SCLAIM, WORD)
  /\ guest' = "serve"
  /\ UNCHANGED <<uart, virtio, plic, seip>>

\* Read the receive holding register, or acknowledge the disk and look at the
\* used ring.
Serve ==
  /\ guest = "serve"
  /\ guest' = "complete"
  /\ rx' = (rx /\ irq # UART_IRQ)
  /\ IF irq = VIRTIO_IRQ THEN interrupt_status' = 0 /\ accessed' = 0
                         ELSE UNCHANGED <<interrupt_status, accessed>>
  /\ UNCHANGED <<arriving, interrupting, requests, queue_notify, plic, seip, irq>>

Complete ==
  /\ guest = "complete"
  /\ plic' = plic_write(plic, PLIC_SCLAIM, irq, WORD)
  /\ guest' = "kernel"
  /\ UNCHANGED <<uart, virtio, seip, irq>>

----------------------------------------------------------------------------

Init ==
  /\ guest = "boot"
  /\ arriving = Bytes /\ rx = FALSE /\ interrupting = FALSE
  /\ requests = Requests /\ queue_notify = FALSE
  /\ interrupt_status = 0 /\ accessed = 0
  /\ plic = plic_new(Offsets)
  /\ seip = FALSE
  /\ irq = 0

Interrupted == \E due \in BOOLEAN : check_pending_interrupt(due)
Guest == Boot \/ TimerReturn \/ Claim \/ Serve \/ Complete

Next == ByteArrives \/ Interrupted \/ Guest \/ Notify

\* The emulator runs its loop and the guest its handlers.  The timer leaves the
\* kernel time to take the interrupts that are raised.
Spec ==
  /\ Init /\ [][Next]_vars
  /\ WF_vars(Guest)
  /\ SF_vars(check_pending_interrupt(FALSE))

----------------------------------------------------------------------------
(* Properties.                                                             *)

\* An interrupt is for a reason: whatever the guest claims, that device has a
\* byte or a finished access for it (the poll, and the order of its writes to
\* the PLIC and to MIP).
ClaimIsJustified ==
  guest = "serve" => \/ irq = UART_IRQ /\ rx
                     \/ irq = VIRTIO_IRQ /\ interrupt_status = 1 /\ accessed = 1

\* A disk access is seen by the guest, timer interrupts or not, unless a byte
\* arrives while SEIP still stands for the access (check_pending_interrupt: the
\* poll, the claim register, and SEIP that outlives the timer's interrupt).
AccessIsSeen ==
  [](seip /\ accessed = 1 => ~interrupting) => ((accessed = 1) ~> (accessed = 0))

\* A byte in the receive holding register is read by the guest, so that the
\* reader thread can go on, unless the disk is notified while SEIP still stands
\* for the byte (the poll of the UART before that of the disk).
ByteIsRead == [](seip /\ rx => ~queue_notify) => (rx ~> ~rx)

----------------------------------------------------------------------------
(* What a comment in the source says and the code does not do.             *)

\* "An interrupt is raised after a disk access is done." (cpu.rs:309), whatever
\* else interrupts.  A timer interrupt that is taken first leaves the request of
\* the disk in the claim register, where the next byte of the UART replaces it.
InterruptPerAccess == (accessed = 1) ~> (accessed = 0)
=============================================================================
