---------------------------- MODULE VirtioProofs ----------------------------
(***************************************************************************)
(* The disk is a block device for a driver that has one request in flight, *)
(* whatever the disk, the notifications, the resets and the sectors that   *)
(* it asks for.  The invariant is that the descriptor table holds the      *)
(* chain of the request in flight, and nothing in the descriptor that the  *)
(* device takes for the available ring; after the answer, the sector and   *)
(* the buffer agree, so that a second answer changes nothing.              *)
(***************************************************************************)
EXTENDS Virtio, TLAPS

\* The driver has one request in flight.
OneInFlight == Slots = {0}

\* A notification leaves room for its access.
Counted == queue_notify => id < MaxAccesses

\* The chain of the descriptors 0, 1 and 2 is one that writes or reads.
ChainIs(write) ==
  /\ desc[0].addr = "header" /\ desc[0].next = 1
  /\ desc[1].addr = "data" /\ desc[1].slot = 0 /\ desc[1].next = 2
  /\ desc[1].flags = (IF write THEN 1 ELSE 3)
  /\ desc[2].addr = "status"

\* The request that waits for its answer is the one that the guest's memory
\* describes; no completion is left unread; and the queue is set if it was set
\* when the request was made.
Waiting(r) ==
  /\ queue = <<r>> /\ busy = {0} /\ used_idx = last_used
  /\ r.slot = 0 /\ header[0] = r.sector /\ ChainIs(r.write)
  /\ r.ready = queue_pfn

\* The request that is answered and not taken back is still described by the
\* guest's memory, and its sector and its buffer are the same.
Answered ==
  /\ queue = <<>> /\ busy = {0} /\ queue_pfn
  /\ \E write \in BOOLEAN : ChainIs(write)
  /\ header[0] \in Sectors /\ disk[header[0]] = buf[0] /\ stat[0] = 0

\* No request is in flight.
Quiet == queue = <<>> /\ busy = {} /\ desc[0] = FreeDesc

Single == /\ desc[4].addr = "none"
          /\ Waiting(Head(queue)) \/ Answered \/ Quiet

OneAtATime == Single /\ CompletionIsWhole

\* The indices follow the count of the accesses, as far as the driver has seen
\* it; an answer that is not taken back was not seen.
Tracked ==
  /\ used_idx # last_used => used_idx = id % QUEUE_SIZE
  /\ seen # Unknown =>
       /\ used_idx = id % QUEUE_SIZE /\ last_used = seen % QUEUE_SIZE /\ seen <= id
       /\ queue = <<>> /\ busy = {0} => seen < id

----------------------------------------------------------------------------
(* Types.                                                                  *)

LEMMA SlotZero == 0 \in Slots
BY InstanceAssumption

LEMMA FreeDescType == FreeDesc \in Descriptors
BY SlotZero DEF FreeDesc, Descriptors, Descs, QUEUE_SIZE

\* A chain that the driver builds consists of descriptors.
LEMMA ChainOfType ==
  ASSUME desc \in [Descs -> Descriptors], NEW s \in Slots, NEW write \in BOOLEAN
  PROVE  ChainOf(s, write) \in [Descs -> Descriptors]
<1>1. s \in {0, 1}
  BY InstanceAssumption
<1>2. 3 * s + 1 \in Descs /\ 3 * s + 2 \in Descs /\ 0 \in Descs
  BY <1>1 DEF Descs, QUEUE_SIZE
<1>3. /\ [addr |-> "header", slot |-> s, flags |-> 1, next |-> 3 * s + 1] \in Descriptors
      /\ [addr |-> "data", slot |-> s, next |-> 3 * s + 2,
          flags |-> IF write THEN 1 ELSE 1 + VIRTQ_DESC_F_WRITE] \in Descriptors
      /\ [addr |-> "status", slot |-> s, flags |-> VIRTQ_DESC_F_WRITE, next |-> 0] \in Descriptors
  BY <1>2 DEF Descriptors, VIRTQ_DESC_F_WRITE
<1> QED
  BY <1>3 DEF ChainOf

\* A transfer keeps the types of the disk, the buffer and the status byte.
LEMMA TransferType ==
  ASSUME TypeOK, NEW data \in Descriptors, header[data.slot] \in Sectors, Transfer(data)
  PROVE  disk' \in [Sectors -> Data] /\ buf' \in [Slots -> Data] /\ stat' \in [Slots -> {0, NotYet}]
<1>1. data.slot \in Slots
  BY DEF Descriptors
<1>2. buf[data.slot] \in Data /\ disk[header[data.slot]] \in Data
  BY <1>1 DEF TypeOK
<1>3. stat' \in [Slots -> {0, NotYet}]
  BY DEF TypeOK, Transfer
<1>4. CASE data.flags \in {0, 1}
  BY <1>2, <1>3, <1>4 DEF TypeOK, Transfer
<1>5. CASE data.flags \notin {0, 1}
  BY <1>2, <1>3, <1>5 DEF TypeOK, Transfer
<1> QED
  BY <1>4, <1>5

\* The first descriptor of a chain leads to the one of its data.
LEMMA DataType ==
  ASSUME TypeOK, Chain(AvailIndex)
  PROVE  DataDesc(AvailIndex) \in Descriptors
<1>1. desc[AvailIndex].next \in Descs
  BY DEF TypeOK, Chain, Descriptors
<1> QED
  BY <1>1 DEF TypeOK, DataDesc

\* An access: it stops the device, or it serves the chain that it finds.
LEMMA AccessCases ==
  ASSUME TypeOK, disk_access
  PROVE  /\ queue_notify /\ state = "running"
         /\ queue_notify' = FALSE /\ interrupt_status' = 1
         /\ UNCHANGED <<status, queue_pfn, desc, header, busy, last_used, seen>>
         /\ \/ /\ state' \in {"panicked", "wild"}
               /\ UNCHANGED <<id, disk, buf, used_idx, queue>>
               /\ stat' \in [Slots -> {0, NotYet}]
            \/ /\ Chain(AvailIndex) /\ queue_pfn /\ UNCHANGED state
               /\ id' = id + 1 /\ used_idx' = UsedIndex
               /\ queue' = IF queue = <<>> THEN queue ELSE Tail(queue)
               /\ header[DataDesc(AvailIndex).slot] \in Sectors /\ Transfer(DataDesc(AvailIndex))
<1> USE DEF disk_access, memory, driver
<1>1. /\ queue_notify /\ state = "running"
      /\ queue_notify' = FALSE /\ interrupt_status' = 1
      /\ UNCHANGED <<status, queue_pfn, busy, last_used, seen>>
  BY DEF Raised
<1> DEFINE data == DataDesc(AvailIndex)
           unmapped == ~queue_pfn \/ (AvailIndex \in Descs /\ StatusDesc(AvailIndex).addr = "none")
<1>2. CASE unmapped \/ ~Chain(AvailIndex)
  <2>1. state' \in {"panicked", "wild"} /\ UNCHANGED <<id, disk, memory, queue>>
    BY <1>2
  <2> QED
    BY <1>1, <2>1 DEF TypeOK
<1>3. CASE ~unmapped /\ Chain(AvailIndex) /\ header[data.slot] \notin Sectors
  <2>1. /\ state' = "panicked" /\ stat' = [stat EXCEPT ![data.slot] = 0]
        /\ UNCHANGED <<id, disk, desc, header, buf, used_idx, queue>>
    BY <1>3
  <2>2. stat' \in [Slots -> {0, NotYet}]
    BY <2>1 DEF TypeOK
  <2> QED
    BY <1>1, <2>1, <2>2
<1>4. CASE ~unmapped /\ Chain(AvailIndex) /\ header[data.slot] \in Sectors
  <2>1. /\ Transfer(data) /\ id' = get_new_id /\ used_idx' = UsedIndex
        /\ queue' = (IF queue = <<>> THEN queue ELSE Tail(queue))
        /\ UNCHANGED <<state, desc, header>>
    BY <1>4
  <2> QED
    BY <1>1, <1>4, <2>1 DEF get_new_id
<1> QED
  BY <1>2, <1>3, <1>4

\* An index of the used ring is a halfword.
LEMMA SmallHalfwords == \A k \in 0 .. 7 : k \in HALFWORDS
<1>1. MaxHalfword \in Nat /\ 7 <= MaxHalfword
  BY DEF MaxHalfword
<1> QED
  BY <1>1 DEF HALFWORDS

\* Types and the room for an access are kept.
LEMMA TypeStep == TypeOK /\ Counted /\ [Next]_vars => TypeOK' /\ Counted'
<1> SUFFICES ASSUME TypeOK, Counted, [Next]_vars PROVE TypeOK' /\ Counted'
  OBVIOUS
<1> USE DEF memory, driver
<1>0. MaxAccesses \in Nat /\ 0 \in HALFWORDS
  BY InstanceAssumption, SmallHalfwords
<1>1. CASE disk_access
  <2>1. CASE /\ state' \in {"panicked", "wild"} /\ UNCHANGED <<id, disk, buf, used_idx, queue>>
             /\ stat' \in [Slots -> {0, NotYet}]
    BY <1>1, <2>1, AccessCases DEF TypeOK, Counted
  <2>2. CASE /\ Chain(AvailIndex) /\ UNCHANGED state
             /\ id' = id + 1 /\ used_idx' = UsedIndex
             /\ queue' = IF queue = <<>> THEN queue ELSE Tail(queue)
             /\ header[DataDesc(AvailIndex).slot] \in Sectors /\ Transfer(DataDesc(AvailIndex))
    <3>1. disk' \in [Sectors -> Data] /\ buf' \in [Slots -> Data] /\ stat' \in [Slots -> {0, NotYet}]
      BY <2>2, DataType, TransferType
    <3>2. used_idx' \in HALFWORDS
      <4>1. id \in Nat /\ used_idx' = (id + 1) % 8
        BY <1>0, <2>2 DEF UsedIndex, get_new_id, QUEUE_SIZE, TypeOK
      <4>2. (id + 1) % 8 \in 0 .. 7
        BY <4>1
      <4> QED
        BY <4>1, <4>2, SmallHalfwords
    <3>3. queue' \in Seq(Submitted)
      BY <2>2 DEF TypeOK
    <3>4. id' \in 0 .. MaxAccesses
      <4>1. id < MaxAccesses
        BY <1>1, AccessCases DEF Counted
      <4> QED
        BY <1>0, <2>2, <4>1 DEF TypeOK
    <3> QED
      BY <1>1, <2>2, <3>1, <3>2, <3>3, <3>4, AccessCases DEF TypeOK, Counted
  <2> QED
    BY <1>1, <2>1, <2>2, AccessCases
<1>2. ASSUME NEW ok \in BOOLEAN, write_status(ok) PROVE TypeOK' /\ Counted'
  BY <1>2 DEF write_status, TypeOK, Counted
<1>3. CASE SetQueue
  <2>1. desc' \in [Descs -> Descriptors]
    BY <1>3, FreeDescType DEF SetQueue
  <2>2. seen' \in 0 .. Unknown
    BY <1>0, <1>3 DEF SetQueue, Unknown
  <2>3. queue' \in Seq(Submitted) /\ busy' \subseteq Slots
    BY <1>3 DEF SetQueue
  <2> QED
    BY <1>0, <1>3, <2>1, <2>2, <2>3 DEF SetQueue, TypeOK, Counted
<1>4. ASSUME NEW s \in Slots, NEW sector \in Sectors \cup WildSectors, NEW write \in BOOLEAN,
             NEW val \in Data, NEW q \in Queues, Submit(s, sector, write, val, q)
      PROVE  TypeOK' /\ Counted'
  <2> DEFINE r == [slot |-> s, sector |-> sector, write |-> write, ready |-> queue_pfn]
  <2>1. desc' \in [Descs -> Descriptors]
    BY <1>4, ChainOfType DEF Submit, TypeOK
  <2>2. /\ header' \in [Slots -> Sectors \cup WildSectors] /\ buf' \in [Slots -> Data]
        /\ stat' \in [Slots -> {0, NotYet}] /\ busy' \subseteq Slots /\ queue_notify' \in BOOLEAN
    BY <1>4 DEF Submit, TypeOK
  <2>3. r \in Submitted
    BY DEF Submitted, TypeOK
  <2>4. queue' \in Seq(Submitted)
    BY <1>4, <2>3 DEF Submit, TypeOK
  <2> QED
    BY <1>4, <2>1, <2>2, <2>4 DEF Submit, TypeOK, Counted
<1>5. CASE Kick
  BY <1>5 DEF Kick, TypeOK, Counted
<1>6. CASE Collect
  <2>1. desc' \in [Descs -> Descriptors]
    BY <1>6, FreeDescType DEF Collect, TakeBack, TypeOK
  <2>2. seen' \in 0 .. Unknown /\ busy' \subseteq Slots /\ last_used' \in HALFWORDS
    BY <1>0, <1>6 DEF Collect, TakeBack, TypeOK, Unknown
  <2>3. state' \in {"running", "refused"} /\ interrupt_status' \in {0, 1}
    BY <1>6 DEF Collect, write_interrupt_ack, TypeOK
  <2> QED
    BY <1>6, <2>1, <2>2, <2>3 DEF Collect, TypeOK, Counted
<1>7. CASE UNCHANGED vars
  BY <1>7 DEF vars, TypeOK, Counted
<1> QED
  BY <1>1, <1>2, <1>3, <1>4, <1>5, <1>6, <1>7 DEF Next

LEMMA TypesHold == Spec => [](TypeOK /\ Counted)
<1>1. Init => TypeOK /\ Counted
  <2> SUFFICES ASSUME Init PROVE TypeOK /\ Counted
    OBVIOUS
  <2>1. disk \in [Sectors -> Data] /\ buf \in [Slots -> Data] /\ stat \in [Slots -> {0, NotYet}]
    BY InstanceAssumption DEF Init, InitialDisk
  <2>2. desc \in [Descs -> Descriptors]
    BY FreeDescType DEF Init
  <2>3. header \in [Slots -> Sectors \cup WildSectors]
    BY DEF Init
  <2>4. 0 \in HALFWORDS /\ 0 \in 0 .. MaxAccesses /\ 0 \in 0 .. Unknown
    BY InstanceAssumption, SmallHalfwords DEF Unknown
  <2>5. queue \in Seq(Submitted)
    BY DEF Init
  <2> QED
    BY <2>1, <2>2, <2>3, <2>4, <2>5 DEF Init, TypeOK, Counted
<1> QED
  BY <1>1, TypeStep, PTL DEF Spec

\* The device keeps the types of its variables and of the guest's memory, for
\* two requests in flight too: no chain that it meets makes it store anything
\* of another kind, and however often it is accessed before the driver
\* acknowledges, only bit 0 of the interrupt status is set (disk_access).
THEOREM TypeCorrect == Spec => []TypeOK
BY TypesHold, PTL

----------------------------------------------------------------------------
(* One request in flight.                                                  *)

\* A free descriptor 4 reads as an available ring whose entries are zero.
LEMMA AvailZero == desc[4].addr = "none" => AvailIndex = 0
<1> SUFFICES ASSUME desc[4].addr = "none" PROVE AvailIndex = 0
  OBVIOUS
<1>1. \A k : ByteAt(k) = 0
  BY DEF ByteAt
<1> QED
  BY <1>1 DEF AvailIndex

\* So an access is to the chain of the request in flight, and never strays.
LEMMA AccessIsToChain ==
  ASSUME TypeOK, desc[4].addr = "none", NEW write, ChainIs(write)
  PROVE  /\ AvailIndex = 0 /\ Chain(0) /\ DataDesc(0) = desc[1] /\ StatusDesc(0).addr = "status"
         /\ (desc[1].flags \in {0, 1}) <=> write
<1>1. AvailIndex = 0
  BY AvailZero
<1>2. 0 \in Descs
  BY DEF Descs, QUEUE_SIZE
<1> QED
  BY <1>1, <1>2 DEF ChainIs, Chain, DataDesc, StatusDesc

\* With a chain and a sector of the disk, the device goes on and makes the copy.
LEMMA ChainIsServed ==
  ASSUME TypeOK, desc[4].addr = "none", NEW write, ChainIs(write), queue_pfn, disk_access
  PROVE  IF header[0] \in Sectors
         THEN state' = "running" /\ Transfer(desc[1]) /\ used_idx' = UsedIndex
                /\ queue' = (IF queue = <<>> THEN queue ELSE Tail(queue))
         ELSE state' = "panicked" /\ UNCHANGED <<disk, buf, queue, used_idx>>
<1>1. /\ AvailIndex = 0 /\ Chain(AvailIndex) /\ DataDesc(AvailIndex) = desc[1]
      /\ StatusDesc(AvailIndex).addr = "status" /\ desc[1].slot = 0
  BY AccessIsToChain DEF ChainIs
<1>2. state = "running"
  BY DEF disk_access
<1> QED
  BY <1>1, <1>2 DEF disk_access

\* The request that waits is answered, or it is not proper and stops the device.
LEMMA WaitingAccess ==
  ASSUME OneInFlight, TypeOK, desc[4].addr = "none", Waiting(Head(queue)), disk_access
  PROVE  \/ Block!Answer /\ Answered' /\ state' = "running"
         \/ Block!Fail /\ Waiting(Head(queue))'
<1> PICK r : r = Head(queue)
  OBVIOUS
<1>1. /\ queue_notify /\ state = "running" /\ queue_notify' = FALSE
      /\ UNCHANGED <<queue_pfn, desc, header, busy, last_used>>
  BY AccessCases
<1>2. /\ queue = <<r>> /\ queue # <<>> /\ Tail(queue) = <<>> /\ busy = {0} /\ r.slot = 0
      /\ header[0] = r.sector /\ ChainIs(r.write) /\ r.ready = queue_pfn /\ r = Head(queue)
  <2>1. /\ queue = <<r>> /\ busy = {0} /\ r.slot = 0 /\ header[0] = r.sector
        /\ ChainIs(r.write) /\ r.ready = queue_pfn
    BY DEF Waiting
  <2>2. queue # <<>> /\ Tail(queue) = <<>>
    BY <2>1
  <2> QED
    BY <2>1, <2>2
<1>3. CASE ~queue_pfn
  <2>1. state' = "panicked" /\ UNCHANGED <<disk, buf, queue, used_idx>>
    BY <1>3 DEF disk_access, memory
  <2> QED
    BY <1>1, <1>2, <1>3, <2>1 DEF Block!Fail, Block!Proper, Waiting, ChainIs
<1>4. CASE queue_pfn /\ header[0] \notin Sectors
  <2>1. state' = "panicked" /\ UNCHANGED <<disk, buf, queue, used_idx>>
    BY <1>2, <1>4, ChainIsServed
  <2> QED
    BY <1>1, <1>2, <1>4, <2>1 DEF Block!Fail, Block!Proper, Waiting, ChainIs
<1>5. CASE queue_pfn /\ header[0] \in Sectors
  <2>1. state' = "running" /\ Transfer(desc[1]) /\ queue' = Tail(queue)
    BY <1>2, <1>5, ChainIsServed
  <2>2. desc[1].slot = 0 /\ (desc[1].flags \in {0, 1} <=> r.write)
    BY <1>2, AccessIsToChain DEF ChainIs
  <2>3. stat'[0] = 0
    BY <2>1, <2>2, SlotZero DEF Transfer, TypeOK
  <2>4. IF r.write THEN disk' = [disk EXCEPT ![r.sector] = buf[r.slot]] /\ UNCHANGED buf
                   ELSE buf' = [buf EXCEPT ![r.slot] = disk[r.sector]] /\ UNCHANGED disk
    BY <1>2, <2>1, <2>2 DEF Transfer
  <2>5. disk'[header'[0]] = buf'[0]
    <3>1. CASE r.write
      BY <1>1, <1>2, <1>5, <2>4, <3>1 DEF TypeOK
    <3>2. CASE ~r.write
      BY <1>1, <1>2, <1>5, <2>4, <3>2, SlotZero DEF TypeOK
    <3> QED
      BY <3>1, <3>2
  <2>6. Block!Answer
    BY <1>1, <1>2, <1>5, <2>1, <2>4 DEF Block!Answer, Block!Proper
  <2>7. \E write \in BOOLEAN : ChainIs(write)'
    <3>1. ChainIs(TRUE)' \/ ChainIs(FALSE)'
      BY <1>1, <1>2 DEF ChainIs
    <3> QED
      BY <3>1
  <2>8. queue' = <<>> /\ busy' = {0} /\ queue_pfn' /\ header'[0] \in Sectors
    BY <1>1, <1>2, <1>5, <2>1
  <2>9. (\E write \in BOOLEAN : ChainIs(write))'
    BY <2>7
  <2> QED
    BY <2>1, <2>3, <2>5, <2>6, <2>8, <2>9 DEF Answered
<1> QED
  BY <1>3, <1>4, <1>5

\* A request that is answered already is answered again, to no effect.
LEMMA AnsweredAccess ==
  ASSUME OneInFlight, TypeOK, desc[4].addr = "none", Answered, disk_access
  PROVE  Block!Repeat /\ Answered' /\ state' = "running"
<1>1. /\ queue_notify /\ state = "running" /\ queue_notify' = FALSE
      /\ UNCHANGED <<queue_pfn, desc, header, busy, last_used>>
  BY AccessCases
<1> PICK write \in BOOLEAN : ChainIs(write)
  BY DEF Answered
<1>2. /\ queue = <<>> /\ busy = {0} /\ queue_pfn /\ header[0] \in Sectors
      /\ disk[header[0]] = buf[0]
  BY DEF Answered
<1>3. state' = "running" /\ Transfer(desc[1]) /\ queue' = queue
  BY <1>2, ChainIsServed
<1>4. desc[1].slot = 0
  BY DEF ChainIs
<1>5. stat'[0] = 0
  BY <1>3, <1>4, SlotZero DEF Transfer, TypeOK
<1>6. UNCHANGED <<disk, buf>>
  <2>1. CASE desc[1].flags \in {0, 1}
    <3>1. disk' = [disk EXCEPT ![header[0]] = disk[header[0]]] /\ UNCHANGED buf
      BY <1>2, <1>3, <1>4, <2>1 DEF Transfer
    <3> QED
      BY <3>1 DEF TypeOK
  <2>2. CASE desc[1].flags \notin {0, 1}
    <3>1. buf' = [buf EXCEPT ![0] = buf[0]] /\ UNCHANGED disk
      BY <1>2, <1>3, <1>4, <2>2 DEF Transfer
    <3> QED
      BY <3>1 DEF TypeOK
  <2> QED
    BY <2>1, <2>2
<1>7. (\E w \in BOOLEAN : ChainIs(w))'
  BY <1>1 DEF ChainIs
<1>8. Block!Repeat
  BY <1>1, <1>2, <1>3, <1>6 DEF Block!Repeat
<1> QED
  BY <1>1, <1>2, <1>3, <1>5, <1>6, <1>7, <1>8 DEF Answered

\* With no request in flight an access panics.
LEMMA QuietAccess ==
  ASSUME TypeOK, desc[4].addr = "none", Quiet, disk_access
  PROVE  Block!Fail /\ Quiet'
<1>1. /\ queue_notify /\ state = "running" /\ queue_notify' = FALSE
      /\ UNCHANGED <<desc, busy>>
  BY AccessCases
<1>2. AvailIndex = 0 /\ 0 \in Descs
  BY AvailZero DEF Descs, QUEUE_SIZE
<1>3. StatusDesc(AvailIndex).addr = "none"
  BY <1>2 DEF Quiet, StatusDesc, DataDesc, FreeDesc
<1>4. state' = "panicked" /\ UNCHANGED <<disk, buf, queue>>
  BY <1>2, <1>3 DEF disk_access, memory
<1> QED
  BY <1>1, <1>4 DEF Quiet, Block!Fail

\* A request that the driver submits is the one that waits.
LEMMA SubmitWaits ==
  ASSUME OneInFlight, TypeOK, OneAtATime,
         NEW s \in Slots, NEW sector \in Sectors \cup WildSectors, NEW write \in BOOLEAN,
         NEW val \in Data, NEW q \in Queues, Submit(s, sector, write, val, q)
  PROVE  /\ OneAtATime'
         /\ \E r \in Block!Requests, heard \in BOOLEAN : Block!Submit(r, val, heard)
<1> PICK r : r = [slot |-> s, sector |-> sector, write |-> write, ready |-> queue_pfn]
  OBVIOUS
<1>1. s = 0 /\ busy = {} /\ state = "running"
  BY DEF OneInFlight, Submit, TypeOK
<1>2. queue = <<>> /\ used_idx = last_used
  BY <1>1 DEF OneAtATime, Single, Waiting, Answered, Quiet, CompletionIsWhole
<1>3. queue' = Append(queue, r) /\ queue' = <<r>> /\ Head(queue') = r
  BY <1>2 DEF Submit
<1>4. ChainIs(write)' /\ desc'[4] = desc[4]
  <2>1. desc' = ChainOf(0, write)
    BY <1>1 DEF Submit
  <2>2. 0 \in Descs /\ 1 \in Descs /\ 2 \in Descs /\ 4 \in Descs
    BY DEF Descs, QUEUE_SIZE
  <2>3. desc'[0] = [addr |-> "header", slot |-> 0, flags |-> 1, next |-> 1]
    BY <2>1, <2>2 DEF ChainOf
  <2>4. desc'[1] = [addr |-> "data", slot |-> 0, next |-> 2,
                    flags |-> IF write THEN 1 ELSE 1 + VIRTQ_DESC_F_WRITE]
    BY <2>1, <2>2 DEF ChainOf
  <2>5. desc'[2] = [addr |-> "status", slot |-> 0, flags |-> VIRTQ_DESC_F_WRITE, next |-> 0]
    BY <2>1, <2>2 DEF ChainOf
  <2>6. desc'[4] = desc[4]
    BY <2>1, <2>2 DEF ChainOf
  <2> QED
    BY <2>3, <2>4, <2>5, <2>6 DEF VIRTQ_DESC_F_WRITE, ChainIs
<1>5. header'[0] = sector /\ busy' = {0} /\ UNCHANGED <<used_idx, last_used, queue_pfn>>
  BY <1>1 DEF Submit, TypeOK
<1>6. r.slot = 0 /\ r.sector = sector /\ r.write = write /\ r.ready = queue_pfn
  BY <1>1
<1>7. Waiting(r)'
  BY <1>2, <1>3, <1>4, <1>5, <1>6 DEF Waiting
<1>8. OneAtATime'
  <2>1. CompletionIsWhole'
    BY <1>2, <1>5 DEF CompletionIsWhole
  <2>2. desc'[4].addr = "none"
    BY <1>4 DEF OneAtATime, Single
  <2> QED
    BY <1>3, <1>7, <2>1, <2>2 DEF OneAtATime, Single
<1>9. r \in Block!Requests
  BY DEF Block!Requests, TypeOK
<1>10. Block!Submit(r, val, q # NoQueue)
  BY <1>1, <1>3, <1>6 DEF Submit, Block!Submit
<1>11. (q # NoQueue) \in BOOLEAN
  OBVIOUS
<1> QED
  BY <1>8, <1>9, <1>10, <1>11

\* With one request in flight every step is one of the block device or leaves
\* it unchanged, and keeps the invariant.
LEMMA SingleStep ==
  ASSUME OneInFlight, TypeOK, OneAtATime, [Next]_vars
  PROVE  OneAtATime' /\ [Block!Next]_(Block!vars)
<1> USE DEF memory, driver
<1>0. desc[4].addr = "none" /\ (Waiting(Head(queue)) \/ Answered \/ Quiet)
  BY DEF OneAtATime, Single
<1>1. CASE disk_access
  <2>1. interrupt_status' = 1 /\ UNCHANGED <<desc, last_used>>
    BY <1>1, AccessCases
  <2>2. CASE Waiting(Head(queue))
    <3>1. CASE Block!Answer /\ Answered'
      BY <1>0, <2>1, <3>1 DEF OneAtATime, Single, CompletionIsWhole, Answered, Block!Next
    <3>2. CASE Block!Fail /\ Waiting(Head(queue))'
      <4>1. CompletionIsWhole'
        BY <3>2 DEF Waiting, CompletionIsWhole
      <4> QED
        BY <1>0, <2>1, <3>2, <4>1 DEF OneAtATime, Single, Block!Next
    <3> QED
      BY <1>0, <1>1, <2>2, <3>1, <3>2, WaitingAccess
  <2>3. CASE Answered
    <3>1. Block!Repeat /\ Answered'
      BY <1>0, <1>1, <2>3, AnsweredAccess
    <3> QED
      BY <1>0, <2>1, <3>1 DEF OneAtATime, Single, CompletionIsWhole, Answered, Block!Next
  <2>4. CASE Quiet
    <3>1. Block!Fail /\ Quiet'
      BY <1>0, <1>1, <2>4, QuietAccess
    <3>2. used_idx = last_used
      BY <2>4 DEF OneAtATime, CompletionIsWhole, Quiet
    <3>3. UNCHANGED used_idx
      BY <1>1, <3>1, AccessCases DEF Block!Fail
    <3> QED
      BY <1>0, <2>1, <3>1, <3>2, <3>3 DEF OneAtATime, Single, CompletionIsWhole, Block!Next
  <2> QED
    BY <1>0, <2>2, <2>3, <2>4
<1>2. ASSUME NEW ok \in BOOLEAN, write_status(ok)
      PROVE  OneAtATime' /\ [Block!Next]_(Block!vars)
  BY <1>2 DEF write_status, OneAtATime, Single, Waiting, Answered, Quiet, ChainIs,
              CompletionIsWhole, Block!vars
<1>3. CASE SetQueue
  <2>1. Quiet' /\ desc'[4].addr = "none"
    BY <1>3 DEF SetQueue, Quiet, Descs, QUEUE_SIZE, FreeDesc
  <2>2. CompletionIsWhole'
    BY <1>3 DEF SetQueue, CompletionIsWhole
  <2>3. Block!Abandon
    BY <1>3 DEF SetQueue, Block!Abandon
  <2> QED
    BY <2>1, <2>2, <2>3 DEF OneAtATime, Single, Block!Next
<1>4. ASSUME NEW s \in Slots, NEW sector \in Sectors \cup WildSectors, NEW write \in BOOLEAN,
             NEW val \in Data, NEW q \in Queues, Submit(s, sector, write, val, q)
      PROVE  OneAtATime' /\ [Block!Next]_(Block!vars)
  BY <1>4, SubmitWaits DEF Block!Next
<1>5. CASE Kick
  <2>1. Block!Notify
    BY <1>5 DEF Kick, Block!Notify
  <2>2. OneAtATime'
    BY <1>5 DEF Kick, OneAtATime, Single, Waiting, Answered, Quiet, ChainIs, CompletionIsWhole
  <2> QED
    BY <2>1, <2>2 DEF Block!Next
<1>6. CASE Collect
  <2>1. /\ state = "running"
        /\ UNCHANGED <<queue_pfn, queue_notify, id, disk, header, buf, stat, used_idx, queue>>
    BY <1>6 DEF Collect
  <2>2. CASE state' # "running"
    <3>1. state' = "refused" /\ UNCHANGED <<interrupt_status, desc, busy, last_used>>
      BY <1>6, <2>1, <2>2 DEF Collect, write_interrupt_ack
    <3>2. Block!Refuse
      BY <2>1, <3>1 DEF Block!Refuse
    <3> QED
      BY <2>1, <3>1, <3>2 DEF OneAtATime, Single, Waiting, Answered, Quiet, ChainIs,
                              CompletionIsWhole, Block!Next
  <2>3. CASE state' = "running" /\ used_idx = last_used
    <3>1. UNCHANGED <<busy, desc, last_used>>
      BY <1>6, <2>3 DEF Collect, TakeBack
    <3> QED
      BY <2>1, <2>3, <3>1 DEF OneAtATime, Single, Waiting, Answered, Quiet, ChainIs,
                              CompletionIsWhole, Block!vars
  <2>4. CASE state' = "running" /\ used_idx # last_used
    <3>1. queue = <<>> /\ busy = {0}
      BY <2>4 DEF OneAtATime, CompletionIsWhole
    <3>2. /\ busy' = {} /\ last_used' = used_idx /\ desc'[0] = FreeDesc /\ desc'[4] = desc[4]
      BY <1>6, <2>4, <3>1 DEF Collect, TakeBack, Descs, QUEUE_SIZE
    <3>3. Block!Release
      BY <2>1, <2>4, <3>1, <3>2 DEF Block!Release
    <3> QED
      BY <1>0, <2>1, <3>1, <3>2, <3>3 DEF OneAtATime, Single, Quiet, CompletionIsWhole, Block!Next
  <2> QED
    BY <2>2, <2>3, <2>4
<1>7. CASE UNCHANGED vars
  BY <1>7 DEF vars, OneAtATime, Single, Waiting, Answered, Quiet, ChainIs, CompletionIsWhole,
              Block!vars
<1> QED
  BY <1>1, <1>2, <1>3, <1>4, <1>5, <1>6, <1>7 DEF Next

LEMMA InitSingle == Init => OneAtATime /\ Block!Init
<1> SUFFICES ASSUME Init PROVE OneAtATime /\ Block!Init
  OBVIOUS
<1>1. desc[4].addr = "none" /\ desc[0] = FreeDesc
  BY DEF Init, FreeDesc, Descs, QUEUE_SIZE
<1>2. buf \in [Slots -> Data]
  BY InstanceAssumption DEF Init
<1> QED
  BY <1>1, <1>2 DEF Init, OneAtATime, Single, Quiet, CompletionIsWhole, Block!Init

\* The indices stay on the track of the count.
LEMMA TrackedStep ==
  ASSUME OneInFlight, TypeOK, OneAtATime, Tracked, [Next]_vars
  PROVE  Tracked'
<1> USE DEF memory, driver
<1>0. id \in Nat /\ seen \in Nat /\ id # Unknown
  BY InstanceAssumption DEF TypeOK, Unknown
<1>1. CASE disk_access
  <2>1. UNCHANGED <<busy, last_used, seen>>
    BY <1>1, AccessCases
  <2>2. CASE UNCHANGED <<id, used_idx, queue>>
    BY <2>1, <2>2 DEF Tracked
  <2>3. CASE id' = id + 1 /\ used_idx' = UsedIndex
    <3>1. used_idx' = id' % QUEUE_SIZE
      BY <2>3 DEF UsedIndex, get_new_id
    <3>2. seen # Unknown => seen < id' /\ last_used = seen % QUEUE_SIZE
      BY <1>0, <2>3 DEF Tracked
    <3>3. seen # Unknown => seen <= id'
      BY <1>0, <2>3 DEF Tracked
    <3>4. seen' # Unknown' <=> seen # Unknown
      BY <2>1 DEF Unknown
    <3> QED
      BY <2>1, <3>1, <3>2, <3>3, <3>4 DEF Tracked
  <2> QED
    BY <1>1, <2>2, <2>3, AccessCases
<1>2. ASSUME NEW ok \in BOOLEAN, write_status(ok) PROVE Tracked'
  BY <1>2 DEF write_status, Tracked
<1>3. CASE SetQueue
  BY <1>0, <1>3, InstanceAssumption DEF SetQueue, Tracked, QUEUE_SIZE, Unknown
<1>4. ASSUME NEW s \in Slots, NEW sector \in Sectors \cup WildSectors, NEW write \in BOOLEAN,
             NEW val \in Data, NEW q \in Queues, Submit(s, sector, write, val, q)
      PROVE  Tracked'
  <2>1. queue' # <<>>
    BY <1>4, SubmitWaits DEF Submit, TypeOK
  <2> QED
    BY <1>4, <2>1 DEF Submit, Tracked
<1>5. CASE Kick
  BY <1>5 DEF Kick, Tracked
<1>6. CASE Collect
  <2>1. CASE state' # "running" \/ used_idx = last_used
    BY <1>6, <2>1 DEF Collect, TakeBack, Tracked
  <2>2. CASE state' = "running" /\ used_idx # last_used
    <3>1. /\ busy' = busy \ {0} /\ seen' = id /\ last_used' = used_idx /\ UNCHANGED <<id, used_idx>>
      BY <1>6, <2>2 DEF Collect, TakeBack
    <3> QED
      BY <1>0, <2>2, <3>1 DEF Tracked
  <2> QED
    BY <2>1, <2>2
<1>7. CASE UNCHANGED vars
  BY <1>7 DEF vars, Tracked
<1> QED
  BY <1>1, <1>2, <1>3, <1>4, <1>5, <1>6, <1>7 DEF Next

\* Two counts that are less than QUEUE_SIZE apart give different indices.
LEMMA TrackedSeen == TypeOK /\ Tracked => CompletionIsSeen
<1> SUFFICES ASSUME TypeOK, Tracked, busy = {0}, queue = <<>>, seen # Unknown, id - seen < QUEUE_SIZE
             PROVE  used_idx # last_used
  BY DEF CompletionIsSeen
<1>1. id \in Nat /\ seen \in Nat /\ seen < id
  BY InstanceAssumption DEF TypeOK, Tracked, Unknown
<1>2. id % 8 # seen % 8
  BY <1>1 DEF QUEUE_SIZE
<1> QED
  BY <1>2 DEF Tracked, QUEUE_SIZE

\* With one request in flight, what the driver finds in the used ring is
\* finished, for every number of accesses: past each wrap of the index, after
\* resets that leave the device's counter as it was, after repeated
\* notifications and when an access panics (the order of disk_access).
THEOREM CompletionsWhole == OneInFlight => (Spec => []CompletionIsWhole)
<1> SUFFICES ASSUME OneInFlight PROVE Spec => []CompletionIsWhole
  OBVIOUS
<1>1. TypeOK /\ OneAtATime /\ [Next]_vars => OneAtATime'
  BY SingleStep
<1>2. OneAtATime => CompletionIsWhole
  BY DEF OneAtATime
<1> QED
  BY <1>1, <1>2, InitSingle, TypesHold, PTL DEF Spec

\* With one request in flight, the driver does find an answer in the used ring
\* as long as it looks once in every QUEUE_SIZE - 1 accesses and the device was
\* not reset since it last looked (get_new_id, disk_access).
THEOREM CompletionsSeen == OneInFlight => (Spec => []CompletionIsSeen)
<1> SUFFICES ASSUME OneInFlight PROVE Spec => []CompletionIsSeen
  OBVIOUS
<1>1. Init => OneAtATime /\ Tracked
  <2> SUFFICES ASSUME Init PROVE OneAtATime /\ Tracked
    OBVIOUS
  <2>1. used_idx = 0 /\ last_used = 0 /\ id = 0 /\ seen = 0 /\ busy = {}
    BY DEF Init
  <2> QED
    BY <2>1, InitSingle DEF Tracked, QUEUE_SIZE
<1>2. TypeOK /\ OneAtATime /\ Tracked /\ [Next]_vars => OneAtATime' /\ Tracked'
  BY SingleStep, TrackedStep
<1> QED
  BY <1>1, <1>2, TypesHold, TrackedSeen, PTL DEF Spec

\* With one request in flight the device is a block device: its safety, which
\* is the whole of ImplementsBlock but the fairness of the answers.  A
\* notification answers the request that waits, with its own sector and buffer;
\* one that comes after the answer is served again and changes nothing; only
\* one that is not proper, or that finds no request, stops the device
\* (is_interrupting, disk_access).
THEOREM RefinesBlock == OneInFlight => (Spec => Block!Safety)
<1> SUFFICES ASSUME OneInFlight PROVE Spec => Block!Safety
  OBVIOUS
<1>1. TypeOK /\ OneAtATime /\ [Next]_vars => OneAtATime' /\ [Block!Next]_(Block!vars)
  BY SingleStep
<1> QED
  BY <1>1, InitSingle, TypesHold, PTL DEF Spec, Block!Safety

=============================================================================
