----------------------------- MODULE MCInteger -----------------------------
EXTENDS Integer, FiniteSetsExt

\* All words of 16 bits that are compressed instructions.
Words16 == {w \in SUBSET (0 .. 15) : ~({0, 1} \subseteq w)}

\* The sets with at most two ones, and those with at most one zero.
Sparse(S) == UNION {kSubset(k, S) : k \in 0 .. 2}
Dense(S) == {S} \cup {S \ {i} : i \in S}

\* Every opcode and funct3, with the other fields sparse or dense: immediates
\* are unions of fields, so that a misplaced bit shows in one of these.
Words32 ==
  LET rest == 7 .. 11 \cup 15 .. 31
      ones(n) == {i \in 0 .. 6 : (n \div 2 ^ i) % 2 = 1}
  IN  {ones(o) \cup {i + 12 : i \in ones(f)} \cup r :
         o \in Opcodes, f \in 0 .. 7, r \in Sparse(rest) \cup Dense(rest)}

MCWords == Words16 \cup Words32
=============================================================================
