-------------------------------- MODULE Csr --------------------------------
(***************************************************************************)
(* The control and status registers of the hart (src/src/csr.rs, State).   *)
(*                                                                         *)
(* A register that the code treats as a bit field is the SET of the        *)
(* numbers of the bits that are 1, so `a & b' is intersection, `a | b' is  *)
(* union and `a & !b' is set difference.  `state' below is a function from *)
(* the registers that have storage of their own to such sets.  SSTATUS,    *)
(* SIE and SIP have no storage: they are views of MSTATUS, MIE and MIP.    *)
(*                                                                         *)
(* The trap registers xTVEC, xEPC, xCAUSE and xTVAL hold numbers; they are *)
(* plain storage for `read' and `write' and live in module Hart.           *)
(***************************************************************************)
EXTENDS Integers

MXLEN == 64

Bits == 0 .. MXLEN - 1

\* Registers with storage.
StoredCsrs == {"MSTATUS", "MIE", "MIP", "MIDELEG", "MEDELEG", "SATP"}

\* Supervisor views of machine registers.
ViewCsrs == {"SSTATUS", "SIE", "SIP"}

CsrNames == StoredCsrs \cup ViewCsrs

States == [StoredCsrs -> SUBSET Bits]

\* mstatus fields.
SIE_BIT == 1
MIE_BIT == 3
SPIE_BIT == 5
MPIE_BIT == 7
SPP_BIT == 8

\* mip and mie fields.
SSIP_BIT == 1
MSIP_BIT == 3
STIP_BIT == 5
MTIP_BIT == 7
SEIP_BIT == 9
MEIP_BIT == 11

\* SIE | SPIE | SPP | FS | XS | SUM | MXR, the part of MSTATUS that a write
\* of SSTATUS reaches.
SstatusWriteMask == {1, 5, 8, 13, 14, 15, 16, 18, 19}

\* A read of SSTATUS also shows UXL.
SstatusReadMask == SstatusWriteMask \cup {32, 33}

----------------------------------------------------------------------------

\* State::new and State::reset: everything is zero (MISA is not modelled).
ResetState == [r \in StoredCsrs |-> {}]

read(state, addr) ==
  CASE addr = "SSTATUS" -> state["MSTATUS"] \cap SstatusReadMask
    [] addr = "SIE"     -> state["MIE"] \cap state["MIDELEG"]
    [] addr = "SIP"     -> state["MIP"] \cap state["MIDELEG"]
    [] OTHER            -> state[addr]

\* The bits of the stored register that a write through a view may change.
Merge(old, mask, val) == (old \ mask) \cup (val \cap mask)

\* A version of write that stores to SSTATUS without its mask.
write_Unmasked(state, addr, val) ==
  CASE addr = "SSTATUS" -> [state EXCEPT !["MSTATUS"] = val]
    [] addr = "SIE"     -> [state EXCEPT !["MIE"] = Merge(@, state["MIDELEG"], val)]
    [] addr = "SIP"     -> [state EXCEPT !["MIP"] = Merge(@, {SSIP_BIT} \cap state["MIDELEG"], val)]
    [] OTHER            -> [state EXCEPT ![addr] = val]

write(state, addr, val) ==
  CASE addr = "SSTATUS" ->
         [state EXCEPT !["MSTATUS"] = Merge(@, SstatusWriteMask, val)]
    [] addr = "SIE" ->
         [state EXCEPT !["MIE"] = Merge(@, state["MIDELEG"], val)]
    [] addr = "SIP" ->
         [state EXCEPT !["MIP"] = Merge(@, {SSIP_BIT} \cap state["MIDELEG"], val)]
    [] OTHER ->
         [state EXCEPT ![addr] = val]

read_bit(state, addr, bit) == IF bit \in read(state, addr) THEN 1 ELSE 0

write_bit(state, addr, bit, val) ==
  IF val = 1 THEN write(state, addr, read(state, addr) \cup {bit})
             ELSE write(state, addr, read(state, addr) \ {bit})

\* read_bits(addr, lo..hi): the field as a value of its own, again as the set
\* of its one bits (0b10 is {1}).
read_bits(state, addr, lo, hi) ==
  {b - lo : b \in read(state, addr) \cap (lo .. hi - 1)}

\* write_bits(addr, lo..hi, val) for a val that fits the field, as in every
\* call of it.
write_bits(state, addr, lo, hi, val) ==
  write(state, addr,
        (read(state, addr) \ (lo .. hi - 1)) \cup {b + lo : b \in val})
=============================================================================
