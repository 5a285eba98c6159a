----------------------------- MODULE MCAtomics -----------------------------
(* Constants of the run atomics.                                           *)
EXTENDS Atomics

\* The guest's address 8 is another mapping of 0.
MCPhys == [a \in {0, 1, 2, 4, 8} |-> IF a = 8 THEN 0 ELSE a]
=============================================================================
