----------------------------- MODULE MCExternal -----------------------------
(* The instances of External that are model checked are given in the cfg files. *)
EXTENDS External
=============================================================================
