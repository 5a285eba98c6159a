------------------------------ MODULE MCMemory ------------------------------
(* Constants of the run memory: bytes of one bit, six in a doubleword.     *)
EXTENDS Memory

\* Values whose bytes differ, so that a misplaced byte shows.
MCContents == {Digits(22), Digits(41)}
MCBinary == <<1, 0, 1, 1, 0>>
MCData == {Digits(44)}

\* At and around the carry into the upper word and the wrap.
MCDeadlines == {Digits(m) : m \in {0, 7, 8, 9, 63}}

\* dtc found or missing.
MCDtbs == {<<1, 0, 1>>, <<>>}
=============================================================================
