------------------------------- MODULE MCHart -------------------------------
(* Guests for the model checker: what the constants of Hart are in its runs. *)
EXTENDS Hart

W(csr, val) == [op |-> "csrrw", csr |-> csr, val |-> val]
S(csr, val) == [op |-> "csrrs", csr |-> csr, val |-> val]
C(csr, val) == [op |-> "csrrc", csr |-> csr, val |-> val]
T(x, reg, val) == [x |-> x, reg |-> reg, val |-> val]
L(reg, val) == [reg |-> reg, val |-> val]

None == {}

\* Nested traps: M-mode sets MPIE and MPP and delegates SSIP and ecalls from
\* U and instruction page faults; S-mode re-enables itself through SSTATUS,
\* posts SSIP through SIP or MIP, and switches Sv39 on and off.
NestedCsrOps ==
  {W("MSTATUS", {MIE_BIT, MPIE_BIT, 11}), W("MSTATUS", {11, 12}), S("SSTATUS", {SIE_BIT}),
   W("MIE", {SSIP_BIT, MTIP_BIT}),
   W("MIDELEG", {SSIP_BIT, MTIP_BIT}), W("MEDELEG", {8, 12}), S("SIP", {SSIP_BIT}), S("MIP", {SSIP_BIT}),
   W("SATP", {63, 0}), C("SATP", {63})}

\* Timer: interrupts enabled by MSTATUS.MIE and MIE.MTIE; the guest also
\* clears the pending bit, moves the deadline and sets the clock.  Vectored
\* handlers are beyond the end of the address space.
TimerCsrOps ==
  {W("MSTATUS", {MIE_BIT}), S("MIE", {MTIP_BIT}), C("MIE", {MTIP_BIT}), W("MIP", {MTIP_BIT}), W("MIP", {})}
TimerClintStores ==
  {L("mtimecmp", 2), L("mtimecmp", 3), L("mtime", 0), L("mtime", 3), L("msip", 1), L("msip", 0)}
TimerTrapCsrWrites == {T("M", "tvec", 1)}
=============================================================================
