--------------------------- MODULE ExternalProofs ---------------------------
(***************************************************************************)
(* Every external interrupt that the guest takes is for a reason, for any  *)
(* number of bytes and of disk requests and any threshold.  The invariant  *)
(* follows the reason from the poll, through the claim register, SEIP and  *)
(* the trap, to the guest's handler.                                       *)
(***************************************************************************)
EXTENDS External, TLAPS

claim == plic[Register(PLIC_SCLAIM)]

\* The device of interrupt request q has something for the guest.
Reason(q) == \/ q = UART_IRQ /\ rx
             \/ q = VIRTIO_IRQ /\ interrupt_status = 1 /\ accessed = 1

\* The claim register holds a reason from the moment that SEIP is raised until
\* the guest reads it, and the guest has the reason until it serves it.
Posted ==
  /\ seip \/ guest = "claim" => Reason(claim)
  /\ guest = "serve" => Reason(irq)

\* The devices: the flag of the UART is for the byte in its register, which the
\* handler that serves it finds lowered; the disk is either notified or done;
\* the handler runs with SEIP cleared.
Devices ==
  /\ interrupting => rx
  /\ guest = "claim" /\ claim = UART_IRQ => ~interrupting
  /\ guest = "serve" /\ irq = UART_IRQ => ~interrupting
  /\ queue_notify => accessed = 0
  /\ guest \in {"boot", "claim", "serve", "complete"} => ~seip

Justified == Posted /\ Devices

----------------------------------------------------------------------------

\* The register of the guest's context is one of the PLIC.
LEMMA ClaimInDomain == Register(PLIC_SCLAIM) \in Registers(Offsets)
BY DEF Registers, Offsets, PLIC_SCLAIM

\* An access of a word to it does not fault.
LEMMA NoFault == ~Faults(PLIC_SCLAIM, WORD)
BY DEF Faults, PLIC_SCLAIM, CLAIM, Register

\* A write leaves the registers a function of the same type, ...
LEMMA PlicWriteType ==
  ASSUME NEW p \in [Registers(Offsets) -> Nat], NEW o \in Offsets, NEW v \in Nat
  PROVE  plic_write(p, o, v, WORD) \in [Registers(Offsets) -> Nat]
BY DEF plic_write

\* ... and a read returns what was written last.
LEMMA PlicReadWrite ==
  ASSUME NEW p \in [Registers(Offsets) -> Nat], NEW v \in Nat
  PROVE  plic_read(plic_write(p, PLIC_SCLAIM, v, WORD), PLIC_SCLAIM, WORD) = v
BY ClaimInDomain, NoFault DEF plic_write, plic_read

\* The poll keeps the types and lowers the flag of the UART; what it raises SEIP
\* for is in the claim register.
LEMMA PolledType ==
  ASSUME TypeOK, Polled
  PROVE  /\ interrupting' \in BOOLEAN /\ queue_notify' \in BOOLEAN
         /\ interrupt_status' \in {0, 1} /\ accessed' \in 0 .. 1
         /\ plic' \in [Registers(Offsets) -> Nat]
<1>1. /\ plic_write(plic, PLIC_SCLAIM, UART_IRQ, WORD) \in [Registers(Offsets) -> Nat]
      /\ plic_write(plic, PLIC_SCLAIM, VIRTIO_IRQ, WORD) \in [Registers(Offsets) -> Nat]
  BY PlicWriteType DEF TypeOK, UART_IRQ, VIRTIO_IRQ, PLIC_SCLAIM, Offsets
<1>2. CASE interrupting
  BY <1>1, <1>2 DEF Polled, TypeOK
<1>3. CASE ~interrupting /\ queue_notify
  <2>1. 1 \in 0 .. 1
    OBVIOUS
  <2> QED
    BY <1>1, <1>3, <2>1 DEF Polled, TypeOK
<1>4. CASE ~interrupting /\ ~queue_notify
  BY <1>4 DEF Polled, TypeOK
<1> QED
  BY <1>2, <1>3, <1>4

\* The devices, the PLIC and the guest keep the types of their variables.
THEOREM TypeCorrect == Spec => []TypeOK
<1>1. Init => TypeOK
  <2>1. plic_new(Offsets) \in [Registers(Offsets) -> Nat]
    BY DEF plic_new
  <2>2. Bytes \in 0 .. Bytes /\ Requests \in 0 .. Requests /\ 0 \in Nat /\ 0 \in 0 .. 1
    BY BoundAssumption
  <2> QED
    BY <2>1, <2>2 DEF Init, TypeOK
<1>2. TypeOK /\ [Next]_vars => TypeOK'
  <2> SUFFICES ASSUME TypeOK, [Next]_vars PROVE TypeOK'
    OBVIOUS
  <2> USE DEF uart, virtio
  <2>1. CASE ByteArrives
    BY <2>1, BoundAssumption DEF ByteArrives, TypeOK
  <2>2. CASE Interrupted
    BY <2>2, PolledType DEF Interrupted, check_pending_interrupt, Raised, TypeOK
  <2>3. CASE Boot
    <3>1. plic' \in [Registers(Offsets) -> Nat]
      <4> DEFINE p1 == plic_write(plic, PRIORITY(UART_IRQ), 1, WORD)
                 p2 == plic_write(p1, PRIORITY(VIRTIO_IRQ), 1, WORD)
                 p3 == plic_write(p2, ENABLE(1), 1026, WORD)
                 p4 == plic_write(p3, THRESHOLD(1), Threshold, WORD)
      <4>1. p1 \in [Registers(Offsets) -> Nat]
        BY PlicWriteType DEF TypeOK, Offsets
      <4> HIDE DEF p1
      <4>2. p2 \in [Registers(Offsets) -> Nat]
        BY <4>1, PlicWriteType DEF Offsets
      <4> HIDE DEF p2
      <4>3. p3 \in [Registers(Offsets) -> Nat]
        <5>1. ENABLE(1) \in Offsets /\ 1026 \in Nat
          BY DEF Offsets
        <5> QED
          BY <4>2, <5>1, PlicWriteType
      <4> HIDE DEF p3
      <4>4. p4 \in [Registers(Offsets) -> Nat]
        BY <4>3, BoundAssumption, PlicWriteType DEF Offsets
      <4> QED
        BY <2>3, <4>4 DEF Boot, p1, p2, p3
    <3> QED
      BY <2>3, <3>1 DEF Boot, TypeOK
  <2>4. CASE TimerReturn
    BY <2>4 DEF TimerReturn, TypeOK
  <2>5. CASE Claim
    BY <2>5, ClaimInDomain, NoFault DEF Claim, plic_read, TypeOK
  <2>6. CASE Serve
    BY <2>6 DEF Serve, TypeOK
  <2>7. CASE Complete
    <3>1. plic' \in [Registers(Offsets) -> Nat]
      BY <2>7, PlicWriteType DEF Complete, TypeOK, PLIC_SCLAIM, Offsets
    <3> QED
      BY <2>7, <3>1 DEF Complete, TypeOK
  <2>8. CASE Notify
    BY <2>8, BoundAssumption DEF Notify, TypeOK
  <2>9. CASE UNCHANGED vars
    BY <2>9 DEF vars, TypeOK
  <2> QED
    BY <2>1, <2>2, <2>3, <2>4, <2>5, <2>6, <2>7, <2>8, <2>9 DEF Next, Guest
<1> QED
  BY <1>1, <1>2, PTL DEF Spec

----------------------------------------------------------------------------
(* The reason of an interrupt.                                             *)

\* After the poll the flag of the UART is down, and SEIP, if it is raised, is
\* raised for a reason that the claim register holds.
LEMMA PolledPosts ==
  ASSUME TypeOK, Justified, Polled, rx' = rx
  PROVE  /\ ~interrupting' /\ (Raised => Reason(claim)')
         /\ queue_notify' => accessed' = 0
<1>1. CASE interrupting
  <2>1. plic' = plic_write(plic, PLIC_SCLAIM, UART_IRQ, WORD)
    BY <1>1 DEF Polled
  <2>2. claim' = UART_IRQ
    <3>1. UART_IRQ \in Nat
      BY DEF UART_IRQ
    <3> QED
      BY <2>1, <3>1, PlicReadWrite, NoFault DEF claim, plic_read, TypeOK
  <2>3. rx /\ rx'
    BY <1>1 DEF Justified, Devices
  <2> QED
    BY <1>1, <2>2, <2>3 DEF Polled, Reason, Justified, Devices
<1>2. CASE ~interrupting /\ queue_notify
  <2>1. plic' = plic_write(plic, PLIC_SCLAIM, VIRTIO_IRQ, WORD)
    BY <1>2 DEF Polled
  <2>2. claim' = VIRTIO_IRQ
    <3>1. VIRTIO_IRQ \in Nat
      BY DEF VIRTIO_IRQ
    <3> QED
      BY <2>1, <3>1, PlicReadWrite, NoFault DEF claim, plic_read, TypeOK
  <2> QED
    BY <1>2, <2>2 DEF Polled, Reason
<1>3. CASE ~interrupting /\ ~queue_notify
  BY <1>3 DEF Polled, Reason, Raised, claim, Justified, Posted
<1> QED
  BY <1>1, <1>2, <1>3

\* Justified is inductive relative to the types.
LEMMA JustifiedStep == TypeOK /\ Justified /\ [Next]_vars => Justified'
<1> SUFFICES ASSUME TypeOK, Justified, [Next]_vars PROVE Justified'
  OBVIOUS
<1> USE DEF uart, virtio
<1>1. CASE ByteArrives
  <2>1. ~rx /\ rx' /\ claim' = claim
        /\ UNCHANGED <<guest, virtio, seip, irq>>
    BY <1>1 DEF ByteArrives, claim
  <2>2. /\ guest = "claim" => claim # UART_IRQ
        /\ guest = "serve" => irq # UART_IRQ
    BY <2>1 DEF Justified, Posted, Reason, UART_IRQ, VIRTIO_IRQ
  <2> QED
    BY <2>1, <2>2 DEF Justified, Posted, Devices, Reason
<1>2. ASSUME NEW due \in BOOLEAN, check_pending_interrupt(due) PROVE Justified'
  <2>1. /\ guest = "kernel" /\ rx' = rx /\ Polled
        /\ guest' = (IF due THEN "timer" ELSE "claim") /\ (seip' => Raised)
        /\ ~due => ~seip' /\ Raised
    BY <1>2 DEF check_pending_interrupt
  <2>2. /\ ~interrupting' /\ (Raised => Reason(claim)')
        /\ queue_notify' => accessed' = 0
    BY <2>1, PolledPosts
  <2> QED
    BY <2>1, <2>2 DEF Justified, Posted, Devices
<1>3. CASE Boot
  BY <1>3 DEF Boot, Justified, Posted, Devices
<1>4. CASE TimerReturn
  BY <1>4 DEF TimerReturn, Justified, Posted, Devices, Reason, claim
<1>5. CASE Claim
  <2>1. irq' = claim /\ claim' = claim
    BY <1>5, NoFault DEF Claim, claim, plic_read
  <2> QED
    BY <1>5, <2>1 DEF Claim, Justified, Posted, Devices, Reason
<1>6. CASE Serve
  <2>1. guest = "serve" /\ guest' = "complete" /\ ~seip /\ ~seip' /\ claim' = claim
    BY <1>6 DEF Serve, Justified, Devices, claim
  <2>2. interrupting' => rx'
    BY <1>6, <2>1 DEF Serve, Justified, Devices, TypeOK
  <2>3. queue_notify' => accessed' = 0
    BY <1>6 DEF Serve, Justified, Devices
  <2> QED
    BY <2>1, <2>2, <2>3 DEF Justified, Posted, Devices
<1>7. CASE Complete
  BY <1>7 DEF Complete, Justified, Posted, Devices, Reason
<1>8. CASE Notify
  BY <1>8 DEF Notify, Justified, Posted, Devices, Reason, claim
<1>9. CASE UNCHANGED vars
  BY <1>9 DEF vars, Justified, Posted, Devices, Reason, claim
<1> QED
  BY <1>1, <1>2, <1>3, <1>4, <1>5, <1>6, <1>7, <1>8, <1>9 DEF Next, Guest, Interrupted

\* Whatever the guest claims, that device has a byte or a finished access for
\* it: the poll's order of writes to the PLIC and to MIP loses no reason, and
\* SEIP is never left raised without one (check_pending_interrupt).
THEOREM ClaimsJustified == Spec => []ClaimIsJustified
<1>1. Init => Justified
  BY DEF Init, Justified, Posted, Devices
<1>2. Justified => ClaimIsJustified
  BY DEF Justified, Posted, Reason, ClaimIsJustified
<1> QED
  BY <1>1, <1>2, JustifiedStep, TypeCorrect, PTL DEF Spec
=============================================================================
