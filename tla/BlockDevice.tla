---------------------------- MODULE BlockDevice ----------------------------
(***************************************************************************)
(* What a block device promises its driver.  A notification makes it       *)
(* answer the oldest request that it has not answered, which moves one     *)
(* sector between the disk and the request's buffer; with nothing new to   *)
(* answer it changes nothing.  A notification for a request that is not    *)
(* proper, or with no request at all, stops the device for good; nothing   *)
(* but proper answers changes the disk, at that moment or at any other.    *)
(***************************************************************************)
EXTENDS Sequences

CONSTANTS Slots, Sectors, WildSectors, Data, InitialDisk

VARIABLES state,    \* "running", or how the device has stopped
          disk,     \* the sectors
          buf,      \* the buffers in the driver's memory
          queue,    \* requests not yet answered, oldest first
          notified, \* the driver has notified the device
          busy      \* slots that the driver has not taken back

vars == <<state, disk, buf, queue, notified, busy>>

Requests ==
  [slot : Slots, sector : Sectors \cup WildSectors, write : BOOLEAN, ready : BOOLEAN]

\* The request is for a sector of the disk, and the driver had set up the
\* device when it submitted it.
Proper(r) == r.sector \in Sectors /\ r.ready

Init ==
  /\ state = "running" /\ disk = InitialDisk /\ buf \in [Slots -> Data]
  /\ queue = <<>> /\ notified = FALSE /\ busy = {}

\* The driver fills the buffer of a request and submits it; the device may not
\* hear of it yet.
Submit(r, val, heard) ==
  /\ state = "running" /\ r.slot \notin busy
  /\ queue' = Append(queue, r) /\ busy' = busy \cup {r.slot}
  /\ buf' = [buf EXCEPT ![r.slot] = val]
  /\ notified' = heard
  /\ UNCHANGED <<state, disk>>

Notify == state = "running" /\ notified' = TRUE /\ UNCHANGED <<state, disk, buf, queue, busy>>

Answer ==
  /\ state = "running" /\ notified /\ queue # <<>>
  /\ LET r == Head(queue)
     IN  /\ Proper(r)
         /\ IF r.write
            THEN disk' = [disk EXCEPT ![r.sector] = buf[r.slot]] /\ UNCHANGED buf
            ELSE buf' = [buf EXCEPT ![r.slot] = disk[r.sector]] /\ UNCHANGED disk
  /\ queue' = Tail(queue)
  /\ notified' = FALSE
  /\ UNCHANGED <<state, busy>>

\* A notification when all requests are answered and not all are taken back.
Repeat ==
  /\ state = "running" /\ notified /\ queue = <<>> /\ busy # {}
  /\ notified' = FALSE
  /\ UNCHANGED <<state, disk, buf, queue, busy>>

Fail ==
  /\ state = "running" /\ notified
  /\ IF queue = <<>> THEN busy = {} ELSE ~Proper(Head(queue))
  /\ state' = "panicked" /\ notified' = FALSE
  /\ UNCHANGED <<disk, buf, queue, busy>>

\* The driver takes back its requests, which are answered.
Release ==
  /\ state = "running" /\ queue = <<>> /\ busy' = {}
  /\ UNCHANGED <<state, disk, buf, queue, notified>>

\* The driver resets the device and forgets its requests.
Abandon ==
  /\ state = "running" /\ queue' = <<>> /\ busy' = {}
  /\ UNCHANGED <<state, disk, buf, notified>>

\* The driver acknowledges an interrupt that there is not.
Refuse == state = "running" /\ state' = "refused" /\ UNCHANGED <<disk, buf, queue, notified, busy>>

Next ==
  \/ \E r \in Requests, val \in Data, heard \in BOOLEAN : Submit(r, val, heard)
  \/ Notify \/ Answer \/ Repeat \/ Fail \/ Release \/ Abandon \/ Refuse

Safety == Init /\ [][Next]_vars

\* A proper request that the device has heard of is answered in the end, unless
\* it is abandoned.
Spec == Safety /\ WF_vars(Answer)
=============================================================================
