----------------------------- MODULE ByteChannel -----------------------------
(***************************************************************************)
(* What the receiving side of the UART promises: the bytes of the standard *)
(* input reach the guest in order, each exactly once, through a queue of   *)
(* at most two bytes (the one the reader thread holds and the one in the   *)
(* receive holding register).  An input that ends is followed by           *)
(* repetitions of its last byte, of 0 if it is empty.                      *)
(***************************************************************************)
EXTENDS Naturals, Sequences

CONSTANTS Input,       \* the bytes on the standard input
          Eof          \* TRUE if the standard input ends after them

VARIABLES source,      \* bytes not yet read
          byte,        \* the byte read last
          queue,       \* bytes read and not yet received, oldest first
          received     \* bytes the guest has received

vars == <<source, byte, queue, received>>

Init == source = Input /\ byte = 0 /\ queue = <<>> /\ received = <<>>

Take ==
  /\ source # <<>>
  /\ Len(queue) < 2
  /\ byte' = Head(source)
  /\ queue' = Append(queue, Head(source))
  /\ source' = Tail(source)
  /\ UNCHANGED received

Repeat ==
  /\ Eof /\ source = <<>>
  /\ Len(queue) < 2
  /\ queue' = Append(queue, byte)
  /\ UNCHANGED <<source, byte, received>>

Deliver ==
  /\ queue # <<>>
  /\ received' = Append(received, Head(queue))
  /\ queue' = Tail(queue)
  /\ UNCHANGED <<source, byte>>

Next == Take \/ Repeat \/ Deliver

Safety == Init /\ [][Next]_vars

\* Nothing is promised about how often the last byte is repeated.
Spec == Safety /\ WF_vars(Take) /\ WF_vars(Deliver)
=============================================================================
