------------------------------- MODULE MCSv39 -------------------------------
(* Constants of Sv39 for the model checker: two values of every field, one
   physical page that is not in memory. *)
EXTENDS Sv39

MCRoot == <<0, 0, 0>>
MCMapped == Pages \ {<<1, 1, 1>>}
=============================================================================
