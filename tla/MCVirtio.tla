------------------------------ MODULE MCVirtio ------------------------------
(* Constants of Virtio for the model checker. *)
EXTENDS Virtio

\* Descriptor 4 holds a buffer at 0x80023458 of 512 bytes.
MCBufferBytes == [k \in 0 .. 10 |->
  CASE k = 0 -> 88 [] k = 1 -> 52 [] k = 2 -> 2 [] k = 3 -> 128 [] k = 9 -> 2 [] OTHER -> 0]
=============================================================================
