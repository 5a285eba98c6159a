------------------------------- MODULE Virtio -------------------------------
(***************************************************************************)
(* The virtio block device (src/src/devices/virtio_blk.rs): the registers, *)
(* the virtqueue in guest memory and Virtio::disk_access, which            *)
(* check_pending_interrupt calls when the driver has notified the device.  *)
(*                                                                         *)
(* The driver is software outside this repository.  A request occupies a   *)
(* slot: slot s has the descriptors 3s (header), 3s + 1 (data) and 3s + 2  *)
(* (status) and a buffer for each.  The buffers of a sector are moved as   *)
(* one value.  The driver puts the first descriptor of the chain in the    *)
(* available ring, which follows the QUEUE_SIZE descriptors of 16 bytes,   *)
(* at byte 0x80 of the queue; the device looks for it at byte 0x40, which  *)
(* is descriptor 4.  So the available ring itself is not in this model.    *)
(***************************************************************************)
EXTENDS Naturals, Sequences

CONSTANTS
  Slots,         \* {0} or {0, 1}: requests the driver keeps in flight
  Sectors,       \* sectors of the disk
  WildSectors,   \* sectors beyond it that a careless driver asks for
  Careless,      \* TRUE if the driver may submit before it has set the queue
                 \* and acknowledge an interrupt that is not asserted
  Queues,        \* numbers that the driver writes to VIRTIO_QUEUE_NOTIFY
  Data,          \* contents of a sector
  BufferBytes,   \* bytes 0 .. 10 of descriptor 4 while slot 1 uses it
  MaxAccesses,   \* bound: number of accesses
  Resets         \* TRUE if the driver resets the device

VARIABLES
  state,             \* "running", "panicked" by an access, "refused" by a panic of
                     \* `write', or "wild" (a stray descriptor)
  status,            \* TRUE if DRIVER_OK is set
  queue_pfn,         \* TRUE if the driver has set the queue's page
  queue_notify,      \* TRUE if not 9999
  interrupt_status,
  id,                \* accesses since the device was created
  disk,
  desc,              \* the descriptor table, in guest memory
  header, buf, stat, \* the buffers of the slots: sector, data, status byte
  used_idx,          \* idx of the used ring, in guest memory
  busy,              \* slots in flight, as the driver sees it
  last_used,         \* the driver's copy of used_idx
  queue,             \* history: requests submitted and not yet answered
  seen               \* history: id when the driver read last_used, or Unknown

vars == <<state, status, queue_pfn, queue_notify, interrupt_status, id, disk, desc, header,
          buf, stat, used_idx, busy, last_used, queue, seen>>

QUEUE_SIZE == 8
NoQueue == 9999      \* the value of queue_notify that stands for none
VIRTQ_DESC_F_WRITE == 2

Descs == 0 .. QUEUE_SIZE - 1
FreeDesc == [addr |-> "none", slot |-> 0, flags |-> 0, next |-> 0]
Descriptors ==
  [addr : {"none", "header", "data", "status"}, slot : Slots, flags : {0, 1, 2, 3}, next : Descs]
Submitted ==
  [slot : Slots, sector : Sectors \cup WildSectors, write : BOOLEAN, ready : BOOLEAN]

NotYet == 255        \* a status byte the device has not written
Unknown == MaxAccesses + 1
MaxHalfword == 65535
HALFWORDS == 0 .. MaxHalfword

ASSUME InstanceAssumption ==
  /\ Slots \in {{0}, {0, 1}} /\ Sectors \cap WildSectors = {}
  /\ BufferBytes \in [0 .. 10 -> 0 .. 255]
  /\ MaxAccesses \in Nat /\ Resets \in BOOLEAN /\ Careless \in BOOLEAN
  /\ 0 \in Data /\ Queues \subseteq Nat

TypeOK ==
  /\ state \in {"running", "panicked", "refused", "wild"}
  /\ status \in BOOLEAN /\ queue_pfn \in BOOLEAN /\ queue_notify \in BOOLEAN /\ interrupt_status \in {0, 1}
  /\ id \in 0 .. MaxAccesses
  /\ disk \in [Sectors -> Data]
  /\ desc \in [Descs -> Descriptors]
  /\ header \in [Slots -> Sectors \cup WildSectors]
  /\ buf \in [Slots -> Data] /\ stat \in [Slots -> {0, NotYet}]
  /\ used_idx \in HALFWORDS /\ last_used \in HALFWORDS
  /\ busy \subseteq Slots /\ queue \in Seq(Submitted)
  /\ seen \in 0 .. Unknown

memory == <<desc, header, buf, stat, used_idx>>
driver == <<busy, last_used, seen>>

----------------------------------------------------------------------------
(* The device.                                                             *)

\* Byte k of descriptor 4; an unused one is zero.
ByteAt(k) == IF desc[4].addr = "none" THEN 0 ELSE BufferBytes[k]

\* `offset' and `index' of disk_access: the halfwords at bytes 1 and
\* 2 + offset % QUEUE_SIZE of what the device takes for the available ring.
AvailOffset == ByteAt(1) + 256 * ByteAt(2)
AvailIndex ==
  LET k == (AvailOffset % QUEUE_SIZE) + 2 IN ByteAt(k) + 256 * ByteAt(k + 1)

get_new_id == id + 1

\* Mutant: interrupts are counted.
Raised_Count == interrupt_status + 1

\* interrupt_status |= 0x1
Raised == 1

\* Mutant: the index before the access.
UsedIndex_Old == id % QUEUE_SIZE

\* The index of the used ring after an access.
UsedIndex == get_new_id % QUEUE_SIZE

\* Does not write the status byte.
Transfer_NoStatus(data) ==
  IF data.flags \in {0, 1}
  THEN disk' = [disk EXCEPT ![header[data.slot]] = buf[data.slot]] /\ UNCHANGED <<buf, stat>>
  ELSE buf' = [buf EXCEPT ![data.slot] = disk[header[data.slot]]] /\ UNCHANGED <<disk, stat>>

\* The directions are swapped.
Transfer_Swapped(data) ==
  /\ stat' = [stat EXCEPT ![data.slot] = 0]
  /\ IF data.flags \in {2, 3}
     THEN disk' = [disk EXCEPT ![header[data.slot]] = buf[data.slot]] /\ UNCHANGED buf
     ELSE buf' = [buf EXCEPT ![data.slot] = disk[header[data.slot]]] /\ UNCHANGED disk

\* The status byte and the copy, with the data descriptor of the chain.
Transfer(data) ==
  /\ stat' = [stat EXCEPT ![data.slot] = 0]
  /\ IF data.flags \in {0, 1}
     THEN disk' = [disk EXCEPT ![header[data.slot]] = buf[data.slot]] /\ UNCHANGED buf
     ELSE buf' = [buf EXCEPT ![data.slot] = disk[header[data.slot]]] /\ UNCHANGED disk

\* The chain that starts at descriptor i: its data and status descriptors.
DataDesc(i) == desc[desc[i].next]
StatusDesc(i) == desc[DataDesc(i).next]

\* A chain as the driver builds it.
Chain(i) ==
  i \in Descs /\ desc[i].addr = "header" /\ DataDesc(i).addr = "data" /\ StatusDesc(i).addr = "status"

\* is_interrupting and disk_access.  Address zero is not mapped and `expect'
\* panics on its fault: for a queue at page zero, and for a chain that the
\* driver has cleared, whose status byte would be there.  A sector beyond the
\* disk panics too.  Nothing tells a request that is answered from a new one.
disk_access ==
  /\ state = "running" /\ queue_notify
  /\ queue_notify' = FALSE
  /\ interrupt_status' = Raised
  /\ IF ~queue_pfn \/ (AvailIndex \in Descs /\ StatusDesc(AvailIndex).addr = "none")
     THEN state' = "panicked" /\ UNCHANGED <<id, disk, memory, queue>>
     ELSE IF ~Chain(AvailIndex)
     THEN state' = "wild" /\ UNCHANGED <<id, disk, memory, queue>>
     ELSE LET data == DataDesc(AvailIndex)
          IN  IF header[data.slot] \notin Sectors
              THEN /\ state' = "panicked"
                   /\ stat' = [stat EXCEPT ![data.slot] = 0]
                   /\ UNCHANGED <<id, disk, desc, header, buf, used_idx, queue>>
              ELSE /\ Transfer(data)
                   /\ id' = get_new_id
                   /\ used_idx' = UsedIndex
                   /\ queue' = IF queue = <<>> THEN queue ELSE Tail(queue)
                   /\ UNCHANGED <<state, desc, header>>
  /\ UNCHANGED <<status, queue_pfn, driver>>

\* Write VIRTIO_STATUS, zero to reset the device: only the status changes.
write_status(ok) ==
  /\ state = "running"
  /\ IF ok THEN queue_pfn ELSE Resets
  /\ status' = ok
  /\ UNCHANGED <<state, queue_pfn, queue_notify, interrupt_status, id, disk, memory, driver, queue>>

\* Write VIRTIO_MMIO_INTERRUPT_ACK, which panics unless bit 0 is set.
write_interrupt_ack(value) ==
  IF value % 2 = 1
  THEN interrupt_status' = 0 /\ UNCHANGED state
  ELSE state' = "refused" /\ UNCHANGED interrupt_status

----------------------------------------------------------------------------
(* The driver.                                                             *)

\* Initialise the queue of a device that was reset: clear its memory and what
\* the driver remembers of it, write VIRTIO_GUEST_PAGE_SIZE and
\* VIRTIO_QUEUE_PFN.  The requests in flight are forgotten; the device keeps
\* its notification, its interrupt and its count.
SetQueue ==
  /\ state = "running" /\ ~status
  /\ queue_pfn' = TRUE
  /\ desc' = [d \in Descs |-> FreeDesc]
  /\ used_idx' = 0 /\ last_used' = 0
  /\ busy' = {} /\ queue' = <<>>
  /\ seen' = IF id = 0 THEN 0 ELSE Unknown
  /\ UNCHANGED <<state, status, queue_notify, interrupt_status, id, disk, header, buf, stat>>

\* The descriptors of slot s for a request that writes to the disk or reads.
ChainOf(s, write) ==
  [d \in Descs |->
     CASE d = 3 * s     -> [addr |-> "header", slot |-> s, flags |-> 1, next |-> 3 * s + 1]
       [] d = 3 * s + 1 -> [addr |-> "data", slot |-> s, next |-> 3 * s + 2,
                            flags |-> IF write THEN 1 ELSE 1 + VIRTQ_DESC_F_WRITE]
       [] d = 3 * s + 2 -> [addr |-> "status", slot |-> s, flags |-> VIRTQ_DESC_F_WRITE, next |-> 0]
       [] OTHER         -> desc[d]]

\* Build a request and write q to VIRTIO_QUEUE_NOTIFY.
Submit(s, sector, write, val, q) ==
  /\ state = "running" /\ s \notin busy /\ (status \/ Careless)
  /\ id < MaxAccesses
  /\ desc' = ChainOf(s, write)
  /\ header' = [header EXCEPT ![s] = sector]
  /\ buf' = [buf EXCEPT ![s] = val]
  /\ stat' = [stat EXCEPT ![s] = NotYet]
  /\ busy' = busy \cup {s}
  /\ queue_notify' = (q # NoQueue)
  /\ queue' = Append(queue, [slot |-> s, sector |-> sector, write |-> write, ready |-> queue_pfn])
  /\ UNCHANGED <<state, status, queue_pfn, interrupt_status, id, disk, used_idx, last_used, seen>>

\* Notify at any time: again, after the answer, or with nothing to do.
Kick ==
  /\ state = "running" /\ id < MaxAccesses
  /\ queue_notify' = TRUE
  /\ UNCHANGED <<state, status, queue_pfn, interrupt_status, id, disk, memory, driver, queue>>

\* Take back the request that the used ring names.  The device never writes
\* the elements of the ring, so this is the chain at descriptor 0.
TakeBack ==
  /\ last_used' = used_idx
  /\ IF used_idx # last_used
     THEN /\ busy' = busy \ {0} /\ seen' = id
          /\ desc' = [d \in Descs |-> IF d < 3 THEN FreeDesc ELSE desc[d]]
     ELSE UNCHANGED <<busy, seen, desc>>

\* The interrupt handler writes back the interrupts that it reads from
\* VIRTIO_MMIO_INTERRUPT_STATUS, then looks at the used ring.
Collect ==
  /\ state = "running" /\ (interrupt_status = 1 \/ Careless)
  /\ write_interrupt_ack(interrupt_status)
  /\ IF state' = "running" THEN TakeBack ELSE UNCHANGED <<desc, driver>>
  /\ UNCHANGED <<status, queue_pfn, queue_notify, id, disk, header, buf, stat, used_idx, queue>>

----------------------------------------------------------------------------

InitialDisk == [s \in Sectors |-> 0]

Init ==
  /\ state = "running"
  /\ status = FALSE /\ queue_pfn = FALSE /\ queue_notify = FALSE /\ interrupt_status = 0
  /\ id = 0
  /\ disk = InitialDisk
  /\ desc = [d \in Descs |-> FreeDesc]
  /\ header \in [Slots -> Sectors]
  /\ buf = [s \in Slots |-> 0] /\ stat = [s \in Slots |-> NotYet]
  /\ used_idx = 0
  /\ busy = {} /\ last_used = 0
  /\ queue = <<>> /\ seen = 0

Next ==
  \/ disk_access
  \/ \E ok \in BOOLEAN : write_status(ok)
  \/ SetQueue
  \/ \E s \in Slots, sector \in Sectors \cup WildSectors, write \in BOOLEAN, val \in Data,
        q \in Queues :
       Submit(s, sector, write, val, q)
  \/ Kick
  \/ Collect

\* The emulator polls the device again and again.
Spec == Init /\ [][Next]_vars /\ WF_vars(disk_access)

----------------------------------------------------------------------------
(* Properties.                                                             *)

\* With one request in flight the device is a block device: a notified request
\* is answered, in order, by the right copy between the right sector and the
\* right buffer, over resets with requests in flight and notifications at any
\* time.  One after the answer makes the device answer again, which changes
\* neither the disk nor the buffer.  Only a notification for a sector beyond
\* the disk, before the queue is set or with no request in the queue stops it,
\* before the disk has changed, and only a request notified with the number
\* 9999 can go unheard (is_interrupting and disk_access).
Block == INSTANCE BlockDevice WITH notified <- queue_notify
ImplementsBlock == Block!Spec

\* With one request in flight, what the driver finds in the used ring is
\* finished: when the index has moved, the request has been answered, its
\* status byte is written and the interrupt is asserted, also if another access
\* has panicked (the order of disk_access).
CompletionIsWhole ==
  used_idx # last_used =>
    stat[0] = 0 /\ queue = <<>> /\ busy = {0} /\ interrupt_status = 1

\* With one request in flight, the driver does find an answer: the index has
\* moved unless the device was accessed QUEUE_SIZE times without the driver
\* looking, over repeated notifications, wraps of the index and panics.  It may
\* miss the first answer after a reset, which does not reset the device's count
\* (get_new_id and the used ring in disk_access).
CompletionIsSeen ==
  busy = {0} /\ queue = <<>> /\ seen # Unknown /\ id - seen < QUEUE_SIZE => used_idx # last_used

----------------------------------------------------------------------------
(* What a comment in the source says and the code does not do.             *)

\* "avail[2...] are desc[] indices the device should process." (virtio_blk.rs:
\* 409): two chains that are available are both processed, in order.
AvailProcessed ==
  [][id' # id /\ queue # <<>> =>
       stat[Head(queue).slot] = NotYet /\ stat'[Head(queue).slot] = 0]_vars
=============================================================================
