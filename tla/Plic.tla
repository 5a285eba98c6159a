-------------------------------- MODULE Plic --------------------------------
(***************************************************************************)
(* The registers of the platform-level interrupt controller                *)
(* (src/src/devices/plic.rs).  `plic' is a function from registers to      *)
(* values, and a register is a pair of an array of struct Plic and an      *)
(* index.  The controller is storage only: it compares no priorities and   *)
(* keeps no pending interrupts of its own.                                 *)
(***************************************************************************)
EXTENDS Naturals

\* Offsets from PLIC_BASE of the registers of source s and context c, as the
\* comments at plic.rs:19-57 lay them out.
PRIORITY(s) == 4 * s
ENABLE(c) == 8192 + 128 * c
THRESHOLD(c) == 2097152 + 4096 * c
CLAIM(c) == 2097156 + 4096 * c

\* The register that an access at offset o reaches, <<>> if it faults.
Register(o) ==
  CASE o \in 0 .. 4095           -> <<"priority", o \div 4>>
    [] o \in 4096 .. 4223        -> <<"pending", (o - 4096) \div 4>>
    [] o \in 8192 .. 8447        -> <<"enable", (o - 8192) \div 4>>
    [] o \in 2097152 .. 2101255  ->
         LET context == (o - 2097152) \div 4096
             offset == o - (2097152 + 4096 * context)
         IN  <<IF offset % 4 = 0 THEN "threshold" ELSE "claim", context>>
    [] OTHER                     -> <<>>

\* The registers of the contexts and sources that Offsets names.
Registers(Offsets) == {Register(o) : o \in Offsets}

plic_new(Offsets) == [r \in Registers(Offsets) |-> 0]

\* An access that is not of a word, or reaches no register, faults: a load of
\* it returns no value and a store of it changes nothing.
WORD == 32
Faults(o, size) == size # WORD \/ Register(o) = <<>>
Fault == "fault"

plic_read(plic, o, size) == IF Faults(o, size) THEN Fault ELSE plic[Register(o)]
plic_write(plic, o, value, size) ==
  IF Faults(o, size) THEN plic ELSE [plic EXCEPT ![Register(o)] = value]
=============================================================================
