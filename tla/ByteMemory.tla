----------------------------- MODULE ByteMemory -----------------------------
(***************************************************************************)
(* What a guest may expect of memory and of memory-mapped registers: each  *)
(* region is an array of bytes, an access of some bytes inside a region    *)
(* reads or replaces exactly those, and nothing else changes but the clock *)
(* as it ticks.  An access that leaves the region it starts in may do      *)
(* anything to that region, or end the emulator, but nothing to others.    *)
(***************************************************************************)
EXTENDS Integers

CONSTANTS
  ReadOnly,  \* regions that refuse stores
  Devices,   \* regions that are not memory: what they answer is not said
  Clock,     \* the region that ticks
  Width      \* bytes of a register of the hart

VARIABLES
  bytes,     \* the bytes of each region
  access,    \* the last access
  result     \* its answer: "data", "done", "fault" or "panic", and the bytes read

vars == <<bytes, access, result>>

\* The access asks for bytes of its region only.
Within(a) ==
  a.region \in DOMAIN bytes /\ \A i \in 0 .. a.size - 1 : a.offset + i \in DOMAIN bytes[a.region]

Load(a) ==
  /\ a.kind = "load" /\ Within(a)
  /\ result'.is = "data"
  /\ result'.data = [i \in 0 .. Width - 1 |-> IF i < a.size THEN bytes[a.region][a.offset + i] ELSE 0]
  /\ UNCHANGED bytes

Store(a) ==
  /\ a.kind = "store" /\ Within(a) /\ a.region \notin ReadOnly
  /\ result'.is = "done"
  /\ bytes' = [bytes EXCEPT ![a.region] =
                 [i \in DOMAIN @ |-> IF i - a.offset \in 0 .. a.size - 1
                                     THEN a.value[i - a.offset] ELSE @[i]]]

Refuse(a) ==
  /\ \/ a.region \notin DOMAIN bytes \cup Devices
     \/ a.kind = "store" /\ a.region \in ReadOnly
  /\ result'.is = "fault"
  /\ UNCHANGED bytes

\* Out of the region: anything, but to this region alone.
Stray(a) ==
  /\ a.region \in DOMAIN bytes /\ ~Within(a)
  /\ (a.region \in ReadOnly \/ a.kind = "load") => UNCHANGED bytes
  /\ \A r \in DOMAIN bytes \ {a.region} : bytes'[r] = bytes[r]

Device(a) == a.region \in Devices /\ UNCHANGED bytes

Tick ==
  /\ \A r \in DOMAIN bytes \ {Clock} : bytes'[r] = bytes[r]
  /\ UNCHANGED <<access, result>>

Next ==
  \/ Tick
  \/ LET a == access' IN Load(a) \/ Store(a) \/ Refuse(a) \/ Stray(a) \/ Device(a)

Spec == [][Next]_vars
=============================================================================
