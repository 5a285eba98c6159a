----------------------------- MODULE HartProofs -----------------------------
(***************************************************************************)
(* Proofs about module Hart, for every guest, every size of the address    *)
(* space and of the clock, and both front ends.                            *)
(***************************************************************************)
EXTENDS Hart, TLAPS

----------------------------------------------------------------------------
(* The CSR file.                                                           *)

\* Reading any register gives a set of bits (State::read).
LEMMA ReadType ==
  ASSUME NEW s \in States, NEW a \in CsrNames
  PROVE  read(s, a) \in SUBSET Bits
BY DEF States, CsrNames, StoredCsrs, ViewCsrs, read

\* Writing any register with a set of bits keeps the file well typed
\* (State::write).
LEMMA WriteType ==
  ASSUME NEW s \in States, NEW a \in CsrNames, NEW v \in SUBSET Bits
  PROVE  write(s, a, v) \in States
BY DEF States, CsrNames, StoredCsrs, ViewCsrs, write, Merge

\* A bit of SSTATUS is the bit of MSTATUS (the masks of State::read).
LEMMA SstatusBit ==
  ASSUME NEW s \in States, NEW b \in SstatusWriteMask
  PROVE  read_bit(s, "SSTATUS", b) = read_bit(s, "MSTATUS", b)
BY DEF read_bit, read, SstatusReadMask

\* The cases of State::read and State::write, one by one.
LEMMA ReadWrite ==
  ASSUME NEW s \in States, NEW v \in SUBSET Bits
  PROVE  /\ read(s, "MSTATUS") = s["MSTATUS"]
         /\ read(s, "SSTATUS") = s["MSTATUS"] \cap SstatusReadMask
         /\ write(s, "MSTATUS", v) = [s EXCEPT !["MSTATUS"] = v]
         /\ write(s, "SSTATUS", v) =
              [s EXCEPT !["MSTATUS"] = Merge(s["MSTATUS"], SstatusWriteMask, v)]
BY DEF write, read

\* What write_bit does to MSTATUS itself.
LEMMA WriteMstatusBit ==
  ASSUME NEW s \in States, NEW b \in Bits
  PROVE  /\ write_bit(s, "MSTATUS", b, 1) = [s EXCEPT !["MSTATUS"] = s["MSTATUS"] \cup {b}]
         /\ write_bit(s, "MSTATUS", b, 0) = [s EXCEPT !["MSTATUS"] = s["MSTATUS"] \ {b}]
<1> DEFINE m == s["MSTATUS"]
<1>1. m \cup {b} \in SUBSET Bits /\ m \ {b} \in SUBSET Bits /\ {} \in SUBSET Bits
  BY DEF States, StoredCsrs
<1>2. read(s, "MSTATUS") = m
  BY <1>1, ReadWrite
<1>3. write(s, "MSTATUS", m \cup {b}) = [s EXCEPT !["MSTATUS"] = m \cup {b}]
  BY <1>1, ReadWrite
<1>4. write(s, "MSTATUS", m \ {b}) = [s EXCEPT !["MSTATUS"] = m \ {b}]
  BY <1>1, ReadWrite
<1> QED BY <1>2, <1>3, <1>4 DEF write_bit

\* Through SSTATUS, write_bit does the same to the bits of the write mask.
LEMMA WriteSstatusBit ==
  ASSUME NEW s \in States, NEW b \in SstatusWriteMask
  PROVE  /\ write_bit(s, "SSTATUS", b, 1) = [s EXCEPT !["MSTATUS"] = s["MSTATUS"] \cup {b}]
         /\ write_bit(s, "SSTATUS", b, 0) = [s EXCEPT !["MSTATUS"] = s["MSTATUS"] \ {b}]
<1> DEFINE m == s["MSTATUS"]
<1>1. m \in SUBSET Bits /\ b \in Bits
  BY DEF States, StoredCsrs, SstatusWriteMask, Bits, MXLEN
<1>2. Merge(m, SstatusWriteMask, (m \cap SstatusReadMask) \cup {b}) = m \cup {b}
  BY DEF Merge, SstatusReadMask
<1>3. Merge(m, SstatusWriteMask, (m \cap SstatusReadMask) \ {b}) = m \ {b}
  BY DEF Merge, SstatusReadMask
<1>4. (m \cap SstatusReadMask) \cup {b} \in SUBSET Bits /\ (m \cap SstatusReadMask) \ {b} \in SUBSET Bits
  BY <1>1
<1>5. read(s, "SSTATUS") = m \cap SstatusReadMask
  BY <1>4, ReadWrite
<1>6. write(s, "SSTATUS", (m \cap SstatusReadMask) \cup {b}) = [s EXCEPT !["MSTATUS"] = m \cup {b}]
  <2>1. write(s, "SSTATUS", (m \cap SstatusReadMask) \cup {b}) =
          [s EXCEPT !["MSTATUS"] = Merge(m, SstatusWriteMask, (m \cap SstatusReadMask) \cup {b})]
    BY <1>4, ReadWrite
  <2> QED BY <1>2, <2>1
<1>7. write(s, "SSTATUS", (m \cap SstatusReadMask) \ {b}) = [s EXCEPT !["MSTATUS"] = m \ {b}]
  <2>1. write(s, "SSTATUS", (m \cap SstatusReadMask) \ {b}) =
          [s EXCEPT !["MSTATUS"] = Merge(m, SstatusWriteMask, (m \cap SstatusReadMask) \ {b})]
    BY <1>4, ReadWrite
  <2> QED BY <1>3, <2>1
<1> QED BY <1>5, <1>6, <1>7 DEF write_bit

\* The state s with MSTATUS replaced.
SetM(s, m) == [s EXCEPT !["MSTATUS"] = m]

\* What the abstraction SetM does to each register.
LEMMA SetMFacts ==
  ASSUME NEW s \in States, NEW m \in SUBSET Bits, NEW n \in SUBSET Bits
  PROVE  /\ SetM(s, m) \in States
         /\ SetM(s, m)["MSTATUS"] = m
         /\ SetM(SetM(s, m), n) = SetM(s, n)
         /\ SetM(s, s["MSTATUS"]) = s
         /\ \A r \in StoredCsrs \ {"MSTATUS"} : SetM(s, m)[r] = s[r]
BY DEF States, StoredCsrs, SetM

\* One write_bit after another, through MSTATUS and through SSTATUS.
LEMMA SetBits ==
  ASSUME NEW s \in States, NEW m \in SUBSET Bits
  PROVE  /\ \A b \in Bits :
              /\ write_bit(SetM(s, m), "MSTATUS", b, 1) = SetM(s, m \cup {b})
              /\ write_bit(SetM(s, m), "MSTATUS", b, 0) = SetM(s, m \ {b})
         /\ \A b \in SstatusWriteMask :
              /\ write_bit(SetM(s, m), "SSTATUS", b, 1) = SetM(s, m \cup {b})
              /\ write_bit(SetM(s, m), "SSTATUS", b, 0) = SetM(s, m \ {b})
<1>1. SetM(s, m) \in States /\ SetM(s, m)["MSTATUS"] = m
  BY SetMFacts
<1>2. ASSUME NEW b \in Bits
      PROVE  /\ write_bit(SetM(s, m), "MSTATUS", b, 1) = SetM(s, m \cup {b})
             /\ write_bit(SetM(s, m), "MSTATUS", b, 0) = SetM(s, m \ {b})
  <2>1. /\ write_bit(SetM(s, m), "MSTATUS", b, 1) = SetM(SetM(s, m), m \cup {b})
        /\ write_bit(SetM(s, m), "MSTATUS", b, 0) = SetM(SetM(s, m), m \ {b})
    <3> DEFINE t == SetM(s, m)
    <3>1. t \in States /\ t["MSTATUS"] = m
      BY <1>1
    <3> HIDE DEF t
    <3>2. /\ write_bit(t, "MSTATUS", b, 1) = SetM(t, m \cup {b})
          /\ write_bit(t, "MSTATUS", b, 0) = SetM(t, m \ {b})
      BY <3>1, WriteMstatusBit DEF SetM
    <3> QED BY <3>2 DEF t
  <2>2. m \cup {b} \in SUBSET Bits /\ m \ {b} \in SUBSET Bits
    OBVIOUS
  <2> QED BY <2>1, <2>2, SetMFacts
<1>3. ASSUME NEW b \in SstatusWriteMask
      PROVE  /\ write_bit(SetM(s, m), "SSTATUS", b, 1) = SetM(s, m \cup {b})
             /\ write_bit(SetM(s, m), "SSTATUS", b, 0) = SetM(s, m \ {b})
  <2>1. /\ write_bit(SetM(s, m), "SSTATUS", b, 1) = SetM(SetM(s, m), m \cup {b})
        /\ write_bit(SetM(s, m), "SSTATUS", b, 0) = SetM(SetM(s, m), m \ {b})
    <3> DEFINE t == SetM(s, m)
    <3>1. t \in States /\ t["MSTATUS"] = m
      BY <1>1
    <3> HIDE DEF t
    <3>2. /\ write_bit(t, "SSTATUS", b, 1) = SetM(t, m \cup {b})
          /\ write_bit(t, "SSTATUS", b, 0) = SetM(t, m \ {b})
      BY <3>1, WriteSstatusBit DEF SetM
    <3> QED BY <3>2 DEF t
  <2>2. m \cup {b} \in SUBSET Bits /\ m \ {b} \in SUBSET Bits
    BY DEF SstatusWriteMask, Bits, MXLEN
  <2> QED BY <2>1, <2>2, SetMFacts
<1> QED BY <1>2, <1>3

\* One write_bit after another, through either name of MSTATUS.
LEMMA SetBit ==
  ASSUME NEW s \in States, NEW m \in SUBSET Bits, NEW n \in SUBSET Bits, NEW b \in Bits,
         NEW r \in {"MSTATUS", "SSTATUS"}, r = "SSTATUS" => b \in SstatusWriteMask,
         n = m \cup {b}
  PROVE  write_bit(SetM(s, m), r, b, 1) = SetM(s, n)
<1>1. CASE r = "MSTATUS"
  <2>1. write_bit(SetM(s, m), "MSTATUS", b, 1) = SetM(s, m \cup {b})
    BY SetBits
  <2> QED BY <1>1, <2>1
<1>2. CASE r = "SSTATUS"
  <2>1. b \in SstatusWriteMask
    BY <1>2
  <2>2. write_bit(SetM(s, m), "SSTATUS", b, 1) = SetM(s, m \cup {b})
    BY <2>1, SetBits
  <2> QED BY <1>2, <2>2
<1> QED BY <1>1, <1>2

\* Clearing a bit through either name of MSTATUS.
LEMMA ClearBit ==
  ASSUME NEW s \in States, NEW m \in SUBSET Bits, NEW n \in SUBSET Bits, NEW b \in Bits,
         NEW r \in {"MSTATUS", "SSTATUS"}, r = "SSTATUS" => b \in SstatusWriteMask,
         n = m \ {b}
  PROVE  write_bit(SetM(s, m), r, b, 0) = SetM(s, n)
<1>1. CASE r = "MSTATUS"
  <2>1. write_bit(SetM(s, m), "MSTATUS", b, 0) = SetM(s, m \ {b})
    BY SetBits
  <2> QED BY <1>1, <2>1
<1>2. CASE r = "SSTATUS"
  <2>1. b \in SstatusWriteMask
    BY <1>2
  <2>2. write_bit(SetM(s, m), "SSTATUS", b, 0) = SetM(s, m \ {b})
    BY <2>1, SetBits
  <2> QED BY <1>2, <2>2
<1> QED BY <1>1, <1>2

----------------------------------------------------------------------------
(* The fields of MSTATUS that keep the context of a trap into mode x.      *)

FieldBits(x) == IF x = "M" THEN {MIE_BIT, MPIE_BIT, 11, 12} ELSE {SIE_BIT, SPIE_BIT, SPP_BIT}

\* The states s and t agree on the fields of mode x.
SameFields(s, t, x) == \A b \in FieldBits(x) : b \in s["MSTATUS"] <=> b \in t["MSTATUS"]

\* MPP decoded from its two bits (mret).
LEMMA PrevModeMachine ==
  ASSUME NEW s \in States
  PROVE  PrevMode(s, "M") = IF 11 \in s["MSTATUS"]
                            THEN IF 12 \in s["MSTATUS"] THEN "M" ELSE "S"
                            ELSE IF 12 \in s["MSTATUS"] THEN "D" ELSE "U"
<1> DEFINE m == s["MSTATUS"]
<1>1. read_bits(s, "MSTATUS", 11, 13) = {b - 11 : b \in m \cap (11 .. 12)}
  BY ReadWrite DEF read_bits
<1>2. {b - 11 : b \in m \cap (11 .. 12)} =
        (IF 11 \in m THEN {0} ELSE {}) \cup (IF 12 \in m THEN {1} ELSE {})
  OBVIOUS
<1>3. PrevMode(s, "M") =
        ModeOfBits((IF 11 \in m THEN {0} ELSE {}) \cup (IF 12 \in m THEN {1} ELSE {}))
  BY <1>1, <1>2 DEF PrevMode
<1> QED BY <1>3 DEF ModeOfBits

\* SPP decoded from its bit (sret).
LEMMA PrevModeSupervisor ==
  ASSUME NEW s \in States
  PROVE  PrevMode(s, "S") = IF SPP_BIT \in s["MSTATUS"] THEN "S" ELSE "U"
BY ReadWrite DEF PrevMode, read_bit, SPP_BIT, SstatusReadMask, SstatusWriteMask

\* xIE and xPIE are bits of MSTATUS, also for S-mode.
LEMMA StatusBits ==
  ASSUME NEW s \in States, NEW x \in TrapModes
  PROVE  /\ read_bit(s, StatusOf(x), IE(x)) = IF IE(x) \in s["MSTATUS"] THEN 1 ELSE 0
         /\ read_bit(s, StatusOf(x), PIE(x)) = IF PIE(x) \in s["MSTATUS"] THEN 1 ELSE 0
BY ReadWrite DEF read_bit, StatusOf, IE, PIE, TrapModes, SstatusReadMask, SstatusWriteMask,
   SIE_BIT, MIE_BIT, SPIE_BIT, MPIE_BIT

\* The context kept for mode x depends on nothing but its fields.
LEMMA FieldsDecide ==
  ASSUME NEW s \in States, NEW t \in States, NEW x \in TrapModes, SameFields(s, t, x)
  PROVE  /\ PrevMode(s, x) = PrevMode(t, x)
         /\ read_bit(s, StatusOf(x), IE(x)) = read_bit(t, StatusOf(x), IE(x))
         /\ read_bit(s, StatusOf(x), PIE(x)) = read_bit(t, StatusOf(x), PIE(x))
BY PrevModeMachine, PrevModeSupervisor, StatusBits
   DEF SameFields, FieldBits, TrapModes, IE, PIE

\* Entering a trap into M-mode: MPIE is the old MIE, MIE is 0, MPP is the
\* old mode, and nothing else changes.
LEMMA EnterMachine ==
  ASSUME NEW s \in States, NEW from \in {"U", "S", "M"}
  PROVE  LET t == EnterStatus(s, "M", from)
         IN  /\ t \in States
             /\ MIE_BIT \notin t["MSTATUS"]
             /\ MPIE_BIT \in t["MSTATUS"] <=> MIE_BIT \in s["MSTATUS"]
             /\ PrevMode(t, "M") = from
             /\ SameFields(s, t, "S")
             /\ \A r \in StoredCsrs \ {"MSTATUS"} : t[r] = s[r]
<1> DEFINE m  == s["MSTATUS"]
           m1 == IF MIE_BIT \in m THEN m \cup {MPIE_BIT} ELSE m \ {MPIE_BIT}
           m2 == m1 \ {MIE_BIT}
           m3 == (m2 \ (11 .. 12)) \cup {b + 11 : b \in ModeBits(from)}
<1>1. {MIE_BIT, MPIE_BIT} \subseteq Bits
  BY DEF MIE_BIT, MPIE_BIT, Bits, MXLEN
<1>2. {b + 11 : b \in ModeBits(from)} =
        CASE from = "U" -> {} [] from = "S" -> {11} [] from = "M" -> {11, 12}
  <2>1. CASE from = "U" BY <2>1 DEF ModeBits
  <2>2. CASE from = "S" BY <2>2 DEF ModeBits
  <2>3. CASE from = "M" BY <2>3 DEF ModeBits
  <2> QED BY <2>1, <2>2, <2>3
<1>3. m \in SUBSET Bits /\ m1 \in SUBSET Bits /\ m2 \in SUBSET Bits /\ m3 \in SUBSET Bits
  <2>1. m \in SUBSET Bits
    BY DEF States, StoredCsrs
  <2>2. 11 \in Bits /\ 12 \in Bits
    BY DEF Bits, MXLEN
  <2> QED BY <2>1, <2>2, <1>1, <1>2
<1>4. /\ 11 \in m3 <=> from \in {"S", "M"}
      /\ 12 \in m3 <=> from = "M"
      /\ MIE_BIT \notin m3
      /\ MPIE_BIT \in m3 <=> MIE_BIT \in m
      /\ \A b \in {1, 5, 8} : b \in m3 <=> b \in m
  BY <1>2 DEF MIE_BIT, MPIE_BIT
<1>5. /\ m = s["MSTATUS"]
      /\ m1 = IF MIE_BIT \in m THEN m \cup {MPIE_BIT} ELSE m \ {MPIE_BIT}
      /\ m2 = m1 \ {MIE_BIT}
      /\ m3 = (m2 \ (11 .. 12)) \cup {b + 11 : b \in ModeBits(from)}
  OBVIOUS
<1> HIDE DEF m, m1, m2, m3
<1>6. SetM(s, m) = s
  BY <1>3, <1>5, SetMFacts
<1>7. write_bit(s, "MSTATUS", MPIE_BIT, read_bit(s, "MSTATUS", MIE_BIT)) = SetM(s, m1)
  <2>1. read_bit(s, "MSTATUS", MIE_BIT) = IF MIE_BIT \in m THEN 1 ELSE 0
    BY <1>5, StatusBits DEF StatusOf, IE, PIE, TrapModes
  <2>2. CASE MIE_BIT \in m
    BY <2>1, <2>2, <1>1, <1>3, <1>5, <1>6, SetBit, ClearBit
  <2>3. CASE MIE_BIT \notin m
    BY <2>1, <2>3, <1>1, <1>3, <1>5, <1>6, SetBit, ClearBit
  <2> QED BY <2>2, <2>3
<1>8. write_bit(SetM(s, m1), "MSTATUS", MIE_BIT, 0) = SetM(s, m2)
  BY <1>1, <1>3, <1>5, SetBit, ClearBit
<1>9. write_bits(SetM(s, m2), "MSTATUS", 11, 13, ModeBits(from)) = SetM(s, m3)
  <2> DEFINE t == SetM(s, m2)
  <2>1. t \in States /\ t["MSTATUS"] = m2 /\ SetM(t, m3) = SetM(s, m3)
    BY <1>3, SetMFacts
  <2> HIDE DEF t
  <2>2. read(t, "MSTATUS") = m2 /\ write(t, "MSTATUS", m3) = SetM(t, m3)
    BY <2>1, <1>3, ReadWrite DEF SetM
  <2>3. write_bits(t, "MSTATUS", 11, 13, ModeBits(from)) = write(t, "MSTATUS", m3)
    BY <2>2, <1>5 DEF write_bits
  <2> QED BY <2>1, <2>2, <2>3 DEF t
<1>10. EnterStatus(s, "M", from) = SetM(s, m3)
  BY <1>7, <1>8, <1>9 DEF EnterStatus, StatusOf, IE, PIE
<1> DEFINE t == SetM(s, m3)
<1>11. t \in States /\ t["MSTATUS"] = m3 /\ \A r \in StoredCsrs \ {"MSTATUS"} : t[r] = s[r]
  BY <1>3, SetMFacts
<1> HIDE DEF t
<1>12. SameFields(s, t, "S")
  BY <1>4, <1>5, <1>11 DEF SameFields, FieldBits, SIE_BIT, SPIE_BIT, SPP_BIT
<1>13. PrevMode(t, "M") = from
  BY <1>4, <1>11, PrevModeMachine
<1> QED BY <1>4, <1>5, <1>10, <1>11, <1>12, <1>13 DEF t

\* Entering a trap into S-mode: SPIE is the old SIE, SIE is 0, SPP is the
\* old mode, and nothing else changes.
LEMMA EnterSupervisor ==
  ASSUME NEW s \in States, NEW from \in {"U", "S"}
  PROVE  LET t == EnterStatus(s, "S", from)
         IN  /\ t \in States
             /\ SIE_BIT \notin t["MSTATUS"]
             /\ SPIE_BIT \in t["MSTATUS"] <=> SIE_BIT \in s["MSTATUS"]
             /\ PrevMode(t, "S") = from
             /\ SameFields(s, t, "M")
             /\ \A r \in StoredCsrs \ {"MSTATUS"} : t[r] = s[r]
<1> DEFINE m  == s["MSTATUS"]
           m1 == IF SIE_BIT \in m THEN m \cup {SPIE_BIT} ELSE m \ {SPIE_BIT}
           m2 == m1 \ {SIE_BIT}
           m3 == IF from = "U" THEN m2 \ {SPP_BIT} ELSE m2 \cup {SPP_BIT}
<1>1. {SIE_BIT, SPIE_BIT, SPP_BIT} \subseteq Bits /\ {SIE_BIT, SPIE_BIT, SPP_BIT} \subseteq SstatusWriteMask
  BY DEF SIE_BIT, SPIE_BIT, SPP_BIT, Bits, MXLEN, SstatusWriteMask
<1>3. m \in SUBSET Bits /\ m1 \in SUBSET Bits /\ m2 \in SUBSET Bits /\ m3 \in SUBSET Bits
  BY <1>1 DEF States, StoredCsrs
<1>4. /\ SPP_BIT \in m3 <=> from = "S"
      /\ SIE_BIT \notin m3
      /\ SPIE_BIT \in m3 <=> SIE_BIT \in m
      /\ \A b \in {3, 7, 11, 12} : b \in m3 <=> b \in m
  BY DEF SIE_BIT, SPIE_BIT, SPP_BIT
<1>5. /\ m = s["MSTATUS"]
      /\ m1 = IF SIE_BIT \in m THEN m \cup {SPIE_BIT} ELSE m \ {SPIE_BIT}
      /\ m2 = m1 \ {SIE_BIT}
      /\ m3 = IF from = "U" THEN m2 \ {SPP_BIT} ELSE m2 \cup {SPP_BIT}
  OBVIOUS
<1> HIDE DEF m, m1, m2, m3
<1>6. SetM(s, m) = s
  BY <1>3, <1>5, SetMFacts
<1>7. write_bit(s, "SSTATUS", SPIE_BIT, read_bit(s, "SSTATUS", SIE_BIT)) = SetM(s, m1)
  <2>1. read_bit(s, "SSTATUS", SIE_BIT) = IF SIE_BIT \in m THEN 1 ELSE 0
    BY <1>5, StatusBits DEF StatusOf, IE, PIE, TrapModes
  <2>2. CASE SIE_BIT \in m
    BY <2>1, <2>2, <1>1, <1>3, <1>5, <1>6, SetBit, ClearBit
  <2>3. CASE SIE_BIT \notin m
    BY <2>1, <2>3, <1>1, <1>3, <1>5, <1>6, SetBit, ClearBit
  <2> QED BY <2>2, <2>3
<1>8. write_bit(SetM(s, m1), "SSTATUS", SIE_BIT, 0) = SetM(s, m2)
  BY <1>1, <1>3, <1>5, SetBit, ClearBit
<1>9. write_bit(SetM(s, m2), "SSTATUS", SPP_BIT, IF from = "U" THEN 0 ELSE 1) = SetM(s, m3)
  <2>1. CASE from = "U"
    BY <2>1, <1>1, <1>3, <1>5, SetBit, ClearBit
  <2>2. CASE from # "U"
    BY <2>2, <1>1, <1>3, <1>5, SetBit, ClearBit
  <2> QED BY <2>1, <2>2
<1>10. EnterStatus(s, "S", from) = SetM(s, m3)
  BY <1>7, <1>8, <1>9 DEF EnterStatus, StatusOf, IE, PIE
<1> DEFINE t == SetM(s, m3)
<1>11. t \in States /\ t["MSTATUS"] = m3 /\ \A r \in StoredCsrs \ {"MSTATUS"} : t[r] = s[r]
  BY <1>3, SetMFacts
<1> HIDE DEF t
<1>12. SameFields(s, t, "M")
  BY <1>4, <1>5, <1>11 DEF SameFields, FieldBits, MIE_BIT, MPIE_BIT
<1>13. PrevMode(t, "S") = from
  BY <1>4, <1>11, PrevModeSupervisor
<1> QED BY <1>4, <1>5, <1>10, <1>11, <1>12, <1>13 DEF t

\* Returning from a trap into M-mode: MIE is the old MPIE, MPP is U, and the fields of
\* the other mode and every other register are as they were.
LEMMA LeaveMachine ==
  ASSUME NEW s \in States
  PROVE  LET t == LeaveStatus(s, "M")
         IN  /\ t \in States
             /\ MIE_BIT \in t["MSTATUS"] <=> MPIE_BIT \in s["MSTATUS"]
             /\ PrevMode(t, "M") = "U"
             /\ SameFields(s, t, "S")
             /\ \A r \in StoredCsrs \ {"MSTATUS"} : t[r] = s[r]
<1> DEFINE m  == s["MSTATUS"]
           m1 == IF MPIE_BIT \in m THEN m \cup {MIE_BIT} ELSE m \ {MIE_BIT}
           m2 == m1 \cup {MPIE_BIT}
           m3 == (m2 \ (11 .. 12)) \cup {b + 11 : b \in {}}
<1>1. {MIE_BIT, MPIE_BIT} \subseteq Bits
  BY DEF MIE_BIT, MPIE_BIT, Bits, MXLEN
<1>3. m \in SUBSET Bits /\ m1 \in SUBSET Bits /\ m2 \in SUBSET Bits /\ m3 \in SUBSET Bits
  BY <1>1 DEF States, StoredCsrs
<1>4. /\ MIE_BIT \in m3 <=> MPIE_BIT \in m
      /\ 11 \notin m3 /\ 12 \notin m3
      /\ \A b \in {1, 5, 8} : b \in m3 <=> b \in m
  BY DEF MIE_BIT, MPIE_BIT, SPP_BIT
<1>5. /\ m = s["MSTATUS"]
      /\ m1 = IF MPIE_BIT \in m THEN m \cup {MIE_BIT} ELSE m \ {MIE_BIT}
      /\ m2 = m1 \cup {MPIE_BIT}
      /\ m3 = (m2 \ (11 .. 12)) \cup {b + 11 : b \in {}}
  OBVIOUS
<1> HIDE DEF m, m1, m2, m3
<1>6. SetM(s, m) = s
  BY <1>3, <1>5, SetMFacts
<1>7. write_bit(s, "MSTATUS", MIE_BIT, read_bit(s, "MSTATUS", MPIE_BIT)) = SetM(s, m1)
  <2>1. read_bit(s, "MSTATUS", MPIE_BIT) = IF MPIE_BIT \in m THEN 1 ELSE 0
    BY <1>5, StatusBits DEF StatusOf, IE, PIE, TrapModes
  <2>2. CASE MPIE_BIT \in m
    BY <2>1, <2>2, <1>1, <1>3, <1>5, <1>6, SetBit, ClearBit
  <2>3. CASE MPIE_BIT \notin m
    BY <2>1, <2>3, <1>1, <1>3, <1>5, <1>6, SetBit, ClearBit
  <2> QED BY <2>2, <2>3
<1>8. write_bit(SetM(s, m1), "MSTATUS", MPIE_BIT, 1) = SetM(s, m2)
  BY <1>1, <1>3, <1>5, SetBit, ClearBit
<1>9. write_bits(SetM(s, m2), "MSTATUS", 11, 13, {}) = SetM(s, m3)
  <2> DEFINE t == SetM(s, m2)
  <2>1. t \in States /\ t["MSTATUS"] = m2 /\ SetM(t, m3) = SetM(s, m3)
    BY <1>3, SetMFacts
  <2> HIDE DEF t
  <2>2. read(t, "MSTATUS") = m2 /\ write(t, "MSTATUS", m3) = SetM(t, m3)
    BY <2>1, <1>3, ReadWrite DEF SetM
  <2>3. write_bits(t, "MSTATUS", 11, 13, {}) = write(t, "MSTATUS", m3)
    BY <2>2, <1>5 DEF write_bits
  <2> QED BY <2>1, <2>2, <2>3 DEF t
<1>10. LeaveStatus(s, "M") = SetM(s, m3)
  BY <1>7, <1>8, <1>9 DEF LeaveStatus, StatusOf, IE, PIE
<1> DEFINE t == SetM(s, m3)
<1>11. t \in States /\ t["MSTATUS"] = m3 /\ \A r \in StoredCsrs \ {"MSTATUS"} : t[r] = s[r]
  BY <1>3, SetMFacts
<1> HIDE DEF t
<1>12. SameFields(s, t, "S")
  BY <1>4, <1>5, <1>11 DEF SameFields, FieldBits, SIE_BIT, SPIE_BIT, SPP_BIT
<1>13. PrevMode(t, "M") = "U"
  BY <1>4, <1>11, PrevModeMachine
<1> QED BY <1>4, <1>5, <1>10, <1>11, <1>12, <1>13 DEF t

\* Returning from a trap into S-mode: SIE is the old SPIE, and the fields of
\* the other mode and every other register are as they were.
LEMMA LeaveSupervisor ==
  ASSUME NEW s \in States
  PROVE  LET t == LeaveStatus(s, "S")
         IN  /\ t \in States
             /\ SIE_BIT \in t["MSTATUS"] <=> SPIE_BIT \in s["MSTATUS"]
             /\ SameFields(s, t, "M")
             /\ \A r \in StoredCsrs \ {"MSTATUS"} : t[r] = s[r]
<1> DEFINE m  == s["MSTATUS"]
           m1 == IF SPIE_BIT \in m THEN m \cup {SIE_BIT} ELSE m \ {SIE_BIT}
           m2 == m1 \cup {SPIE_BIT}
           m3 == m2 \ {SPP_BIT}
<1>1. {SIE_BIT, SPIE_BIT, SPP_BIT} \subseteq Bits /\ {SIE_BIT, SPIE_BIT, SPP_BIT} \subseteq SstatusWriteMask
  BY DEF SIE_BIT, SPIE_BIT, SPP_BIT, Bits, MXLEN, SstatusWriteMask
<1>3. m \in SUBSET Bits /\ m1 \in SUBSET Bits /\ m2 \in SUBSET Bits /\ m3 \in SUBSET Bits
  BY <1>1 DEF States, StoredCsrs
<1>4. /\ SIE_BIT \in m3 <=> SPIE_BIT \in m
      /\ \A b \in {3, 7, 11, 12} : b \in m3 <=> b \in m
  BY DEF SIE_BIT, SPIE_BIT, SPP_BIT
<1>5. /\ m = s["MSTATUS"]
      /\ m1 = IF SPIE_BIT \in m THEN m \cup {SIE_BIT} ELSE m \ {SIE_BIT}
      /\ m2 = m1 \cup {SPIE_BIT}
      /\ m3 = m2 \ {SPP_BIT}
  OBVIOUS
<1> HIDE DEF m, m1, m2, m3
<1>6. SetM(s, m) = s
  BY <1>3, <1>5, SetMFacts
<1>7. write_bit(s, "SSTATUS", SIE_BIT, read_bit(s, "SSTATUS", SPIE_BIT)) = SetM(s, m1)
  <2>1. read_bit(s, "SSTATUS", SPIE_BIT) = IF SPIE_BIT \in m THEN 1 ELSE 0
    BY <1>5, StatusBits DEF StatusOf, IE, PIE, TrapModes
  <2>2. CASE SPIE_BIT \in m
    BY <2>1, <2>2, <1>1, <1>3, <1>5, <1>6, SetBit, ClearBit
  <2>3. CASE SPIE_BIT \notin m
    BY <2>1, <2>3, <1>1, <1>3, <1>5, <1>6, SetBit, ClearBit
  <2> QED BY <2>2, <2>3
<1>8. write_bit(SetM(s, m1), "SSTATUS", SPIE_BIT, 1) = SetM(s, m2)
  BY <1>1, <1>3, <1>5, SetBit, ClearBit
<1>9. write_bit(SetM(s, m2), "SSTATUS", SPP_BIT, 0) = SetM(s, m3)
  BY <1>1, <1>3, <1>5, SetBit, ClearBit
<1>10. LeaveStatus(s, "S") = SetM(s, m3)
  BY <1>7, <1>8, <1>9 DEF LeaveStatus, StatusOf, IE, PIE
<1> DEFINE t == SetM(s, m3)
<1>11. t \in States /\ t["MSTATUS"] = m3 /\ \A r \in StoredCsrs \ {"MSTATUS"} : t[r] = s[r]
  BY <1>3, SetMFacts
<1> HIDE DEF t
<1>12. SameFields(s, t, "M")
  BY <1>4, <1>5, <1>11 DEF SameFields, FieldBits, MIE_BIT, MPIE_BIT
<1> QED BY <1>4, <1>5, <1>10, <1>11, <1>12 DEF t

----------------------------------------------------------------------------
(* Addresses.                                                              *)

\* Wrapping arithmetic and rounding stay in the address space.
LEMMA AddrType ==
  ASSUME NEW a \in Addr, NEW n \in Nat
  PROVE  /\ Even(a) \in Addr
         /\ Plus(a, n) \in Addr
         /\ Minus(a, 4) \in Addr
         /\ 0 \in Addr
BY SizeAssumption DEF Addr, Even, Plus, Minus

\* The exception pc of a 32-bit instruction is its own address, also when the
\* pc has wrapped (wrapping_sub in Exception::take_trap).
LEMMA ExceptionPcGeneral ==
  ASSUME NEW a \in Addr
  PROVE  ExceptionPc(Plus(a, 4)) = a
<1>1. CASE a + 4 < AddrSpace
  <2>1. Plus(a, 4) = a + 4
    BY <1>1, SizeAssumption DEF Addr, Plus
  <2>2. (a + AddrSpace) % AddrSpace = a
    BY SizeAssumption DEF Addr
  <2> QED BY <2>1, <2>2, SizeAssumption DEF Addr, Minus, ExceptionPc
<1>2. CASE a + 4 >= AddrSpace
  <2>1. Plus(a, 4) = a + 4 - AddrSpace
    BY <1>2, SizeAssumption DEF Addr, Plus
  <2>2. a % AddrSpace = a
    BY SizeAssumption DEF Addr
  <2> QED BY <2>1, <2>2, SizeAssumption DEF Addr, Minus, ExceptionPc
<1> QED BY <1>1, <1>2, SizeAssumption DEF Addr

----------------------------------------------------------------------------
(* Type correctness.                                                       *)

\* Polling the devices keeps the registers well typed and touches MIP only.
LEMMA PollType ==
  ASSUME csrs \in States, NEW irq
  PROVE  /\ Poll(irq) \in States
         /\ Poll(irq)["MSTATUS"] = csrs["MSTATUS"]
         /\ Poll(irq)["SATP"] = csrs["SATP"]
<1>1. CASE irq = 0 BY <1>1 DEF Poll
<1>2. CASE irq # 0
  <2>1. Poll(irq) = [csrs EXCEPT !["MIP"] = csrs["MIP"] \cup {SEIP_BIT}]
    BY <1>2 DEF Poll, read, write
  <2> QED BY <2>1 DEF States, StoredCsrs, SEIP_BIT, Bits, MXLEN
<1> QED BY <1>1, <1>2

\* Clearing the bit of the interrupt that is taken.
LEMMA TakenType ==
  ASSUME NEW s \in States, NEW i
  PROVE  LET t == write(s, "MIP", read(s, "MIP") \ {i})
         IN  t \in States /\ t["MSTATUS"] = s["MSTATUS"] /\ t["SATP"] = s["SATP"]
<1>1. write(s, "MIP", read(s, "MIP") \ {i}) = [s EXCEPT !["MIP"] = s["MIP"] \ {i}]
  BY DEF read, write
<1> QED BY <1>1 DEF States, StoredCsrs

\* Entering a trap keeps the registers well typed.
LEMMA EnterStatusType ==
  ASSUME NEW s \in States, NEW x \in TrapModes, NEW from \in {"U", "S", "M"},
         x = "S" => from \in {"U", "S"}
  PROVE  EnterStatus(s, x, from) \in States
<1>1. CASE x = "M" BY <1>1, EnterMachine
<1>2. CASE x = "S" BY <1>2, EnterSupervisor
<1> QED BY <1>1, <1>2 DEF TrapModes

\* Leaving a trap keeps the registers well typed.
LEMMA LeaveStatusType ==
  ASSUME NEW s \in States, NEW x \in TrapModes
  PROVE  LeaveStatus(s, x) \in States
<1>1. CASE x = "M" BY <1>1, LeaveMachine
<1>2. CASE x = "S" BY <1>2, LeaveSupervisor
<1> QED BY <1>1, <1>2 DEF TrapModes

\* The previous mode that a status register records is a mode.
LEMMA PrevModeType ==
  ASSUME NEW s \in States, NEW x \in TrapModes
  PROVE  PrevMode(s, x) \in Modes
BY PrevModeMachine, PrevModeSupervisor DEF TrapModes, Modes

\* Taking a trap preserves the types of everything it assigns.
LEMMA EnterTrapType ==
  ASSUME TypeOK, NEW s \in States, NEW x \in TrapModes, NEW offset \in Nat,
         NEW epc \in Addr, NEW cause \in Causes, NEW ctx \in Contexts, NEW next \in Phases,
         x = "S" => mode \in {"U", "S"},
         EnterTrap(s, x, offset, epc, cause, ctx, next)
  PROVE  /\ phase' \in Phases
         /\ pc' \in Addr
         /\ mode' \in Modes
         /\ csrs' \in States
         /\ xcsr' \in [TrapModes -> TrapCsrs]
         /\ saved' \in [TrapModes -> SUBSET Contexts]
<1>1. CASE mode = "D" \/ Overflows(Even(xcsr[x].tvec), offset)
  BY <1>1 DEF EnterTrap, TypeOK, Phases
<1>2. CASE mode # "D" /\ ~Overflows(Even(xcsr[x].tvec), offset)
  <2>1. csrs' \in States
    BY <1>2, EnterStatusType DEF EnterTrap, TypeOK, Modes
  <2>2. Even(epc) \in Addr /\ 0 \in Addr
    BY AddrType
  <2>3. xcsr' \in [TrapModes -> TrapCsrs]
    <3>1. xcsr[x] \in TrapCsrs
      BY DEF TypeOK
    <3>2. [xcsr[x] EXCEPT !.epc = Even(epc), !.cause = cause, !.tval = 0] \in TrapCsrs
      BY <2>2, <3>1 DEF TrapCsrs
    <3>3. xcsr' = [xcsr EXCEPT ![x] = [xcsr[x] EXCEPT !.epc = Even(epc), !.cause = cause, !.tval = 0]]
      BY <1>2 DEF EnterTrap
    <3> QED BY <3>2, <3>3 DEF TypeOK
  <2>4. saved' \in [TrapModes -> SUBSET Contexts]
    BY <1>2 DEF EnterTrap, TypeOK
  <2>5. Plus(Even(xcsr[x].tvec), offset) \in Addr
    <3>1. xcsr[x].tvec \in Addr
      BY DEF TypeOK, TrapCsrs
    <3> QED BY <3>1, AddrType
  <2> QED BY <1>2, <2>1, <2>3, <2>4, <2>5 DEF EnterTrap, TrapModes, Modes
<1> QED BY <1>1, <1>2

\* A recorded context is well typed.
LEMMA ContextType ==
  ASSUME TypeOK, NEW kind \in InstKinds \cup {"interrupt"}, NEW code \in 0 .. 15,
         NEW x \in TrapModes, NEW va \in Addr
  PROVE  Context(kind, code, x, va) \in Contexts
BY DEF Context, Contexts, TypeOK

\* The loop continues at one of its steps.
LEMMA NextTurnType == NextTurn \in Phases
BY DEF NextTurn, Phases

\* A new emulator is well typed.
LEMMA InitType == Init => TypeOK
<1>1. 0 \in Addr /\ 0 \in Times /\ 0 \in Causes /\ InitPc \in Addr
  BY SizeAssumption, AddressAssumption DEF Addr, Times, Causes, InterruptFlag
<1>2. ResetState \in States
  BY DEF States, ResetState
<1>3. [tvec |-> 0, epc |-> 0, cause |-> 0, tval |-> 0] \in TrapCsrs
  BY <1>1 DEF TrapCsrs
<1> QED BY <1>1, <1>2, <1>3, NextTurnType DEF Init, TypeOK, Modes

\* Every step preserves the type invariant; one step per action.
LEMMA NextType == TypeOK /\ [Next]_vars => TypeOK'
<1> SUFFICES ASSUME TypeOK, [Next]_vars PROVE TypeOK'
  OBVIOUS
<1> USE NextTurnType
<1>1. CASE DevicesIncrement
  <2>1. mtime' \in Times /\ time' \in Times
    BY <1>1, SizeAssumption DEF DevicesIncrement, Tick, Times, TypeOK
  <2>2. csrs' \in States
    <3> DEFINE mip == IF msip = 1 THEN csrs["MIP"] \cup {MSIP_BIT} ELSE csrs["MIP"]
    <3>1. TimerBits(Tick(mtime), mip) \in SUBSET Bits
      BY DEF TimerBits, TypeOK, States, StoredCsrs, MSIP_BIT, MTIP_BIT, Bits, MXLEN
    <3>2. csrs' = write(csrs, "MIP", TimerBits(Tick(mtime), mip))
      BY <1>1 DEF DevicesIncrement
    <3> QED BY <3>1, <3>2, WriteType DEF TypeOK, CsrNames, StoredCsrs
  <2> QED BY <1>1, <2>1, <2>2 DEF DevicesIncrement, TypeOK, Phases, paging
<1>2. CASE CountExpired
  BY <1>2 DEF CountExpired, TypeOK, Phases, paging, clint
<1>3. CASE InterruptsMasked
  BY <1>3 DEF InterruptsMasked, TypeOK, Phases, paging, clint
<1>4. ASSUME NEW irq \in Irqs \cup {0}, NoInterrupt(irq) PROVE TypeOK'
  BY <1>4, PollType DEF NoInterrupt, TypeOK, Phases, paging, clint
<1>5. ASSUME NEW irq \in Irqs \cup {0}, NEW i \in Interrupts, TakeInterrupt(irq, i) PROVE TypeOK'
  <2> DEFINE x == InterruptMode(i)
             s == write(Poll(irq), "MIP", read(Poll(irq), "MIP") \ {i})
  <2>1. x \in TrapModes /\ (x = "S" => mode \in {"U", "S"})
    BY DEF InterruptMode, TrapModes
  <2>2. s \in States
    BY PollType, TakenType DEF TypeOK
  <2>3. i \in Nat /\ i \in 0 .. 15 /\ InterruptFlag + i \in Causes
    BY DEF Interrupts, Causes, InterruptFlag, SSIP_BIT, MSIP_BIT, STIP_BIT, MTIP_BIT, SEIP_BIT, MEIP_BIT
  <2>4. Vector(x, i) \in Nat
    BY <2>3 DEF Vector
  <2>5. Context("interrupt", i, x, 0) \in Contexts
    BY <2>1, <2>3, AddrType, ContextType DEF TypeOK
  <2>6. EnterTrap(s, x, Vector(x, i), pc, InterruptFlag + i,
                  Context("interrupt", i, x, 0), "execute")
    BY <1>5 DEF TakeInterrupt
  <2>7. pc \in Addr /\ "execute" \in Phases
    BY DEF TypeOK, Phases
  <2> HIDE DEF x, s
  <2>8. /\ phase' \in Phases /\ pc' \in Addr /\ mode' \in Modes /\ csrs' \in States
        /\ xcsr' \in [TrapModes -> TrapCsrs]
        /\ saved' \in [TrapModes -> SUBSET Contexts]
    BY <2>1, <2>2, <2>3, <2>4, <2>5, <2>6, <2>7, EnterTrapType
  <2> QED BY <1>5, <2>8 DEF TakeInterrupt, TypeOK, paging, clint
<1>6. CASE IdleTurn
  BY <1>6 DEF IdleTurn, TypeOK, paging, clint
<1>7. ASSUME NEW kind \in {"compressed", "general"}, Retire(kind) PROVE TypeOK'
  BY <1>7, AddrType DEF Retire, TypeOK, paging, clint, Length
<1>8. ASSUME NEW target \in Targets, Jump(target) PROVE TypeOK'
  BY <1>8, AddressAssumption DEF Jump, TypeOK, paging, clint
<1>9. ASSUME NEW kind \in InstKinds, NEW code \in ExceptionCodes,
             NEW va \in DataAddrs \cup {0, pc}, RaiseException(kind, code, va)
      PROVE  TypeOK'
  <2> DEFINE x == ExceptionMode(code)
             epc == ExceptionPc(Plus(pc, Length(kind)))
             next == IF Ends(code) THEN "stopped" ELSE NextTurn
  <2>1. x \in TrapModes /\ (x = "S" => mode \in {"U", "S"})
    BY DEF ExceptionMode, TrapModes
  <2>2. csrs \in States /\ next \in Phases
    BY DEF TypeOK, Phases
  <2>3. code \in 0 .. 15 /\ code \in Causes
    BY DEF ExceptionCodes, Causes, InterruptFlag
  <2>4. epc \in Addr
    <3>1. Length(kind) \in Nat
      BY DEF Length, InstKinds
    <3>2. Plus(pc, Length(kind)) \in Addr
      BY <3>1, AddrType DEF TypeOK
    <3> QED BY <3>2, AddrType DEF ExceptionPc
  <2>6. va \in Addr
    BY AddrType, AddressAssumption DEF TypeOK
  <2>7. Context(kind, code, x, va) \in Contexts
    BY <2>1, <2>3, <2>6, ContextType
  <2>8. EnterTrap(csrs, x, 0, epc, code, Context(kind, code, x, va), next)
    BY <1>9 DEF RaiseException
  <2> HIDE DEF x, epc, next
  <2>9. /\ phase' \in Phases /\ pc' \in Addr /\ mode' \in Modes /\ csrs' \in States
        /\ xcsr' \in [TrapModes -> TrapCsrs]
        /\ saved' \in [TrapModes -> SUBSET Contexts]
    BY <2>1, <2>2, <2>3, <2>4, <2>7, <2>8, EnterTrapType
  <2> QED BY <1>9, <2>9 DEF RaiseException, TypeOK, paging, clint
<1>10. ASSUME NEW x \in TrapModes, TrapReturn(x) PROVE TypeOK'
  <2>1. csrs' \in States /\ mode' \in Modes
    BY <1>10, LeaveStatusType, PrevModeType DEF TrapReturn, TypeOK
  <2>2. pc' \in Addr
    BY <1>10 DEF TrapReturn, TypeOK, TrapCsrs
  <2> QED BY <1>10, <2>1, <2>2 DEF TrapReturn, TypeOK, paging, clint
<1>11. CASE Wfi
  BY <1>11, AddrType DEF Wfi, TypeOK, paging, clint
<1>12. CASE PanicInst
  BY <1>12 DEF PanicInst, TypeOK, Phases, paging, clint
<1>13. ASSUME NEW o \in CsrOps, CsrOp(o) PROVE TypeOK'
  <2> DEFINE s == write(csrs, o.csr, CsrValue(o))
  <2>1. o \in CsrOpType
    BY GuestAssumption
  <2>2. CsrValue(o) \in SUBSET Bits
    BY <2>1, ReadType DEF CsrOpType, CsrValue, TypeOK
  <2>3. s \in States
    BY <2>1, <2>2, WriteType DEF CsrOpType, TypeOK
  <2>4. csrs' = s /\ (IF o.csr = "SATP" THEN update_paging(s) ELSE UNCHANGED paging)
    BY <1>13 DEF CsrOp
  <2> HIDE DEF s
  <2>5. enable_paging' \in BOOLEAN /\ page_table' \in SUBSET Bits
    <3>1. CASE o.csr = "SATP"
      <4>1. page_table' = {b + 12 : b \in read_bits(s, "SATP", 0, 44)}
        BY <2>4, <3>1 DEF update_paging
      <4>2. enable_paging' \in BOOLEAN
        BY <2>4, <3>1 DEF update_paging
      <4>3. \A b \in read_bits(s, "SATP", 0, 44) : b \in 0 .. 43
        BY DEF read_bits
      <4> QED BY <4>1, <4>2, <4>3 DEF Bits, MXLEN
    <3>2. CASE o.csr # "SATP"
      BY <2>4, <3>2 DEF paging, TypeOK
    <3> QED BY <3>1, <3>2
  <2>6. saved' \in [TrapModes -> SUBSET Contexts]
    BY <1>13 DEF CsrOp, TypeOK
  <2> QED BY <1>13, <2>3, <2>4, <2>5, <2>6, AddrType DEF CsrOp, TypeOK, clint
<1>14. ASSUME NEW w \in TrapCsrWrites, TrapCsrWrite(w) PROVE TypeOK'
  <2>1. w \in TrapCsrWriteType
    BY GuestAssumption
  <2>2. xcsr' \in [TrapModes -> TrapCsrs]
    BY <1>14, <2>1 DEF TrapCsrWrite, TrapCsrWriteType, TrapCsrs, TypeOK
  <2>3. saved' \in [TrapModes -> SUBSET Contexts]
    BY <1>14 DEF TrapCsrWrite, TypeOK
  <2> QED BY <1>14, <2>2, <2>3, AddrType DEF TrapCsrWrite, TypeOK, paging, clint
<1>15. ASSUME NEW w \in ClintStores, ClintStore(w) PROVE TypeOK'
  <2>1. w \in ClintStoreType
    BY GuestAssumption
  <2>2. msip' \in {0, 1} /\ mtimecmp' \in Times /\ mtime' \in Times
    BY <1>15, <2>1 DEF ClintStore, ClintStoreType, TypeOK
  <2> QED BY <1>15, <2>2, AddrType DEF ClintStore, TypeOK, paging
<1>16. CASE Restart
  <2>1. 0 \in Addr /\ 0 \in Times /\ 0 \in Causes /\ InitPc \in Addr
    BY SizeAssumption, AddressAssumption DEF Addr, Times, Causes, InterruptFlag
  <2> QED BY <1>16, <2>1
          DEF Restart, TypeOK, Modes, States, ResetState, TrapCsrs, TrapModes, paging
<1>17. ASSUME NEW kind, PcOverflow(kind) PROVE TypeOK'
  BY <1>17 DEF PcOverflow, TypeOK, Phases, paging, clint
<1>18. CASE UNCHANGED vars
  BY <1>18 DEF vars, TypeOK
<1> QED BY <1>1, <1>2, <1>3, <1>4, <1>5, <1>6, <1>7, <1>8, <1>9, <1>10, <1>11, <1>12,
           <1>13, <1>14, <1>15, <1>16, <1>17, <1>18
        DEF Next, Loop, CheckPendingInterrupt, Execute

\* The state of the hart is well typed in every run of every guest.
THEOREM TypeCorrect == Spec => []TypeOK
BY InitType, NextType, PTL DEF Spec

----------------------------------------------------------------------------
(* Interrupted contexts are kept.                                          *)

\* A context stays described while the fields of its mode stay as they are.
LEMMA DescribesStable ==
  ASSUME NEW s \in States, NEW t \in States, NEW x \in TrapModes, NEW r, NEW c,
         SameFields(s, t, x), Describes(s, r, x, c)
  PROVE  Describes(t, r, x, c)
BY FieldsDecide DEF Describes

\* What a step has to respect: for each mode it drops the context or leaves it
\* and the registers that describe it alone.
KeepsContext(x) ==
  \/ saved'[x] = {}
  \/ saved'[x] = saved[x] /\ xcsr'[x] = xcsr[x] /\ SameFields(csrs, csrs', x)

\* A step that, for each mode, drops its contexts or leaves its registers alone
\* keeps the contexts described.
LEMMA SavedStable ==
  ASSUME TypeOK, TypeOK', SavedContext, \A x \in TrapModes : KeepsContext(x)
  PROVE  SavedContext'
<1> SUFFICES ASSUME NEW x \in TrapModes, NEW c \in saved'[x]
             PROVE  Describes(csrs', xcsr'[x], x, c)
  BY DEF SavedContext
<1>1. saved'[x] = saved[x] /\ xcsr'[x] = xcsr[x] /\ SameFields(csrs, csrs', x)
  BY DEF KeepsContext
<1>2. Describes(csrs, xcsr[x], x, c)
  BY <1>1 DEF SavedContext
<1> QED BY <1>1, <1>2, DescribesStable DEF TypeOK

\* Equal MSTATUS registers have equal fields.
LEMMA SameStatus ==
  ASSUME NEW s, NEW t, s["MSTATUS"] = t["MSTATUS"], NEW x
  PROVE  SameFields(s, t, x)
BY DEF SameFields

\* Entering a trap records its context and leaves the other mode's alone.
LEMMA EnterTrapKeeps ==
  ASSUME TypeOK, TypeOK', SavedContext, NEW s \in States, s["MSTATUS"] = csrs["MSTATUS"],
         NEW x \in TrapModes, x = "S" => mode \in {"U", "S"},
         NEW offset, NEW epc, NEW cause, NEW next,
         NEW kind, NEW code, NEW va,
         kind \in {"interrupt", "general"} => epc = pc,
         cause = CauseOf(Context(kind, code, x, va)),
         EnterTrap(s, x, offset, epc, cause, Context(kind, code, x, va), next)
  PROVE  SavedContext'
<1> DEFINE ctx == Context(kind, code, x, va)
<1>1. CASE mode = "D" \/ Overflows(Even(xcsr[x].tvec), offset)
  <2>1. \A y \in TrapModes : KeepsContext(y)
    BY <1>1, SameStatus DEF EnterTrap, KeepsContext
  <2> QED BY <2>1, SavedStable
<1>2. CASE mode # "D" /\ ~Overflows(Even(xcsr[x].tvec), offset)
  <2>1. /\ csrs' = EnterStatus(s, x, mode)
        /\ xcsr' = [xcsr EXCEPT ![x] =
                      [xcsr[x] EXCEPT !.epc = Even(epc), !.cause = cause, !.tval = 0]]
        /\ saved' = [saved EXCEPT ![x] = {ctx}]
    BY <1>2 DEF EnterTrap
  <2>2. mode \in {"U", "S", "M"}
    BY <1>2 DEF TypeOK, Modes
  <2>3. /\ PrevMode(csrs', x) = mode
        /\ IE(x) \notin csrs'["MSTATUS"]
        /\ PIE(x) \in csrs'["MSTATUS"] <=> IE(x) \in csrs["MSTATUS"]
        /\ \A y \in TrapModes \ {x} : SameFields(csrs, csrs', y)
    <3>1. CASE x = "M"
      BY <2>1, <2>2, <3>1, EnterMachine DEF IE, PIE, TrapModes, SameFields
    <3>2. CASE x = "S"
      BY <2>1, <2>2, <3>2, EnterSupervisor DEF IE, PIE, TrapModes, SameFields
    <3> QED BY <3>1, <3>2 DEF TrapModes
  <2> SUFFICES ASSUME NEW y \in TrapModes, NEW c \in saved'[y]
               PROVE  Describes(csrs', xcsr'[y], y, c)
    BY DEF SavedContext
  <2>4. CASE y # x
    <3>1. saved'[y] = saved[y] /\ xcsr'[y] = xcsr[y]
      BY <2>1, <2>4 DEF TypeOK
    <3>2. Describes(csrs, xcsr[y], y, c)
      BY <3>1 DEF SavedContext
    <3> QED BY <2>3, <2>4, <3>1, <3>2, DescribesStable DEF TypeOK
  <2>5. CASE y = x
    <3>1. c = ctx
      BY <2>1, <2>5 DEF TypeOK
    <3>2. xcsr[x] \in TrapCsrs
      BY DEF TypeOK
    <3>3. xcsr'[x].epc = Even(epc) /\ xcsr'[x].cause = cause
      BY <2>1, <3>2 DEF TypeOK, TrapCsrs
    <3>4. /\ ctx.kind = kind /\ ctx.pc = pc /\ ctx.mode = mode
          /\ ctx.ie = (read_bit(csrs, StatusOf(x), IE(x)) = 1)
      BY DEF Context
    <3>5. /\ read_bit(csrs', StatusOf(x), IE(x)) = 0
          /\ (read_bit(csrs', StatusOf(x), PIE(x)) = 1) = ctx.ie
      BY <2>3, <3>4, StatusBits DEF TypeOK
    <3> HIDE DEF ctx
    <3> QED BY <2>3, <2>5, <3>1, <3>3, <3>4, <3>5 DEF Describes, ctx
  <2> QED BY <2>4, <2>5
<1> QED BY <1>1, <1>2

\* Every step keeps the interrupted contexts; one step per action.
LEMMA NextKeeps == TypeOK /\ TypeOK' /\ SavedContext /\ [Next]_vars => SavedContext'
<1> SUFFICES ASSUME TypeOK, TypeOK', SavedContext, [Next]_vars PROVE SavedContext'
  OBVIOUS
<1>a. ASSUME saved' = saved, xcsr' = xcsr, csrs'["MSTATUS"] = csrs["MSTATUS"] PROVE SavedContext'
  BY <1>a, SameStatus, SavedStable DEF KeepsContext
<1>1. CASE DevicesIncrement
  <2>1. csrs' = [csrs EXCEPT !["MIP"] = csrs'["MIP"]]
    BY <1>1 DEF DevicesIncrement, write, TypeOK, States, StoredCsrs
  <2>2. csrs'["MSTATUS"] = csrs["MSTATUS"]
    BY <2>1 DEF TypeOK, States, StoredCsrs
  <2> QED BY <1>1, <1>a, <2>2 DEF DevicesIncrement
<1>2. CASE CountExpired
  BY <1>2, <1>a DEF CountExpired
<1>3. CASE InterruptsMasked
  BY <1>3, <1>a DEF InterruptsMasked
<1>4. ASSUME NEW irq \in Irqs \cup {0}, NoInterrupt(irq) PROVE SavedContext'
  BY <1>4, <1>a, PollType DEF NoInterrupt, TypeOK
<1>5. ASSUME NEW irq \in Irqs \cup {0}, NEW i \in Interrupts, TakeInterrupt(irq, i)
      PROVE  SavedContext'
  <2> DEFINE x == InterruptMode(i)
             s == write(Poll(irq), "MIP", read(Poll(irq), "MIP") \ {i})
  <2>1. x \in TrapModes /\ (x = "S" => mode \in {"U", "S"})
    BY DEF InterruptMode, TrapModes
  <2>2. s \in States /\ s["MSTATUS"] = csrs["MSTATUS"]
    <3> DEFINE p == Poll(irq)
    <3>1. p \in States /\ p["MSTATUS"] = csrs["MSTATUS"]
      BY PollType DEF TypeOK
    <3> HIDE DEF p
    <3>2. LET q == write(p, "MIP", read(p, "MIP") \ {i})
          IN  q \in States /\ q["MSTATUS"] = csrs["MSTATUS"]
      BY <3>1, TakenType
    <3> QED BY <3>2 DEF p
  <2>3. EnterTrap(s, x, Vector(x, i), pc, InterruptFlag + i,
                  Context("interrupt", i, x, 0), "execute")
    BY <1>5 DEF TakeInterrupt
  <2>4. InterruptFlag + i = CauseOf(Context("interrupt", i, x, 0))
    BY DEF CauseOf, Context
  <2> HIDE DEF x, s
  <2> QED BY <2>1, <2>2, <2>3, <2>4, EnterTrapKeeps
<1>6. CASE IdleTurn
  BY <1>6, <1>a DEF IdleTurn
<1>7. ASSUME NEW kind \in {"compressed", "general"}, Retire(kind) PROVE SavedContext'
  BY <1>7, <1>a DEF Retire
<1>8. ASSUME NEW target \in Targets, Jump(target) PROVE SavedContext'
  BY <1>8, <1>a DEF Jump
<1>9. ASSUME NEW kind \in InstKinds, NEW code \in ExceptionCodes,
             NEW va \in DataAddrs \cup {0, pc}, RaiseException(kind, code, va)
      PROVE  SavedContext'
  <2> DEFINE x == ExceptionMode(code)
             epc == ExceptionPc(Plus(pc, Length(kind)))
             next == IF Ends(code) THEN "stopped" ELSE NextTurn
  <2>1. x \in TrapModes /\ (x = "S" => mode \in {"U", "S"})
    BY DEF ExceptionMode, TrapModes
  <2>2. kind \in {"interrupt", "general"} => epc = pc
    BY ExceptionPcGeneral DEF InstKinds, Length, TypeOK
  <2>3. EnterTrap(csrs, x, 0, epc, code, Context(kind, code, x, va), next)
    BY <1>9 DEF RaiseException
  <2>4. code = CauseOf(Context(kind, code, x, va))
    BY DEF CauseOf, Context, InstKinds
  <2>5. csrs \in States
    BY DEF TypeOK
  <2> HIDE DEF x, epc, next
  <2> QED BY <2>1, <2>2, <2>3, <2>4, <2>5, EnterTrapKeeps
<1>10. ASSUME NEW x \in TrapModes, TrapReturn(x) PROVE SavedContext'
  <2>1. ASSUME NEW y \in TrapModes PROVE KeepsContext(y)
    <3>1. CASE y = x
      BY <1>10, <3>1 DEF TrapReturn, KeepsContext, TypeOK
    <3>2. CASE y # x
      <4>1. SameFields(csrs, csrs', y)
        BY <1>10, <3>2, LeaveMachine, LeaveSupervisor DEF TrapReturn, TrapModes, TypeOK
      <4> QED BY <1>10, <3>2, <4>1 DEF TrapReturn, KeepsContext, TypeOK
    <3> QED BY <3>1, <3>2
  <2> QED BY <2>1, SavedStable
<1>11. CASE Wfi
  BY <1>11, <1>a DEF Wfi
<1>12. CASE PanicInst
  BY <1>12, <1>a DEF PanicInst
<1>13. ASSUME NEW o \in CsrOps, CsrOp(o) PROVE SavedContext'
  <2>1. o.csr \in CsrNames
    BY GuestAssumption DEF CsrOpType
  <2>2. csrs' = write(csrs, o.csr, CsrValue(o)) /\ xcsr' = xcsr
    BY <1>13 DEF CsrOp
  <2>3. ASSUME NEW y \in TrapModes PROVE KeepsContext(y)
    <3>1. CASE o.csr = "MSTATUS" \/ o.csr = StatusOf(y)
      BY <1>13, <3>1 DEF CsrOp, KeepsContext
    <3>2. CASE o.csr # "MSTATUS" /\ o.csr # StatusOf(y)
      <4>1. saved'[y] = saved[y]
        BY <1>13, <3>2 DEF CsrOp
      <4>2. CASE o.csr = "SSTATUS"
        <5>1. csrs'["MSTATUS"] = Merge(csrs["MSTATUS"], SstatusWriteMask, CsrValue(o))
          BY <2>2, <4>2 DEF write, TypeOK, States, StoredCsrs
        <5>2. y = "M"
          BY <3>2, <4>2 DEF StatusOf, TrapModes
        <5>3. \A b \in {3, 7, 11, 12} : b \notin SstatusWriteMask
          BY DEF SstatusWriteMask
        <5>4. SameFields(csrs, csrs', y)
          BY <5>1, <5>2, <5>3 DEF SameFields, FieldBits, Merge, MIE_BIT, MPIE_BIT
        <5> QED BY <2>2, <4>1, <5>4 DEF KeepsContext
      <4>3. CASE o.csr # "SSTATUS"
        <5>1. csrs'["MSTATUS"] = csrs["MSTATUS"]
          BY <2>1, <2>2, <3>2, <4>3
             DEF write, TypeOK, States, StoredCsrs, CsrNames, ViewCsrs
        <5> QED BY <2>2, <4>1, <5>1, SameStatus DEF KeepsContext
      <4> QED BY <4>2, <4>3
    <3> QED BY <3>1, <3>2
  <2> QED BY <2>3, SavedStable
<1>14. ASSUME NEW w \in TrapCsrWrites, TrapCsrWrite(w) PROVE SavedContext'
  <2>1. w \in TrapCsrWriteType
    BY GuestAssumption
  <2>2. /\ xcsr' = [xcsr EXCEPT ![w.x] = [xcsr[w.x] EXCEPT ![w.reg] = w.val]]
        /\ saved' = IF w.reg = "tvec" THEN saved ELSE [saved EXCEPT ![w.x] = {}]
        /\ csrs' = csrs
    BY <1>14 DEF TrapCsrWrite
  <2> SUFFICES ASSUME NEW y \in TrapModes, NEW c \in saved'[y]
               PROVE  Describes(csrs', xcsr'[y], y, c)
    BY DEF SavedContext
  <2>3. c \in saved[y] /\ (y = w.x => w.reg = "tvec")
    BY <2>1, <2>2 DEF TypeOK
  <2>4. Describes(csrs, xcsr[y], y, c)
    BY <2>3 DEF SavedContext
  <2>5. xcsr'[y].epc = xcsr[y].epc /\ xcsr'[y].cause = xcsr[y].cause
    BY <2>2, <2>3 DEF TypeOK, TrapCsrs
  <2> QED BY <2>2, <2>4, <2>5 DEF Describes
<1>15. ASSUME NEW w \in ClintStores, ClintStore(w) PROVE SavedContext'
  BY <1>15, <1>a DEF ClintStore
<1>16. CASE Restart
  BY <1>16 DEF Restart, SavedContext
<1>17. ASSUME NEW kind, PcOverflow(kind) PROVE SavedContext'
  BY <1>17, <1>a DEF PcOverflow
<1>18. CASE UNCHANGED vars
  BY <1>18, <1>a DEF vars
<1> QED BY <1>1, <1>2, <1>3, <1>4, <1>5, <1>6, <1>7, <1>8, <1>9, <1>10, <1>11, <1>12,
           <1>13, <1>14, <1>15, <1>16, <1>17, <1>18
        DEF Next, Loop, CheckPendingInterrupt, Execute

\* In every run of every guest, what a trap interrupted is kept until software
\* returns from the trap or takes the context over.
THEOREM ContextsKept == Spec => []SavedContext
<1>1. Init => SavedContext
  BY DEF Init, SavedContext
<1> QED BY <1>1, InitType, NextType, NextKeeps, PTL DEF Spec

----------------------------------------------------------------------------
(* Returns resume what was interrupted.                                    *)

\* The interrupt-enable bit that a return restores.
LEMMA LeaveRestores ==
  ASSUME NEW s \in States, NEW x \in TrapModes
  PROVE  /\ LeaveStatus(s, x) \in States
         /\ IE(x) \in LeaveStatus(s, x)["MSTATUS"] <=> PIE(x) \in s["MSTATUS"]
<1>1. CASE x = "M" BY <1>1, LeaveMachine DEF IE, PIE
<1>2. CASE x = "S" BY <1>2, LeaveSupervisor DEF IE, PIE
<1> QED BY <1>1, <1>2 DEF TrapModes

\* A return from a described context resumes it.
LEMMA ReturnStep ==
  ASSUME TypeOK, SavedContext, NEW x \in TrapModes, TrapReturn(x), NEW c \in saved[x]
  PROVE  /\ c.kind \in {"interrupt", "general"} => pc' = Even(c.pc)
         /\ mode' = c.mode
         /\ (read_bit(csrs', StatusOf(x), IE(x)) = 1) = c.ie
<1>1. Describes(csrs, xcsr[x], x, c)
  BY DEF SavedContext
<1>2. pc' = xcsr[x].epc /\ mode' = PrevMode(csrs, x) /\ csrs' = LeaveStatus(csrs, x)
  BY DEF TrapReturn
<1>3. csrs' \in States /\ (IE(x) \in csrs'["MSTATUS"] <=> PIE(x) \in csrs["MSTATUS"])
  BY <1>2, LeaveRestores DEF TypeOK
<1>4. read_bit(csrs', StatusOf(x), IE(x)) = read_bit(csrs, StatusOf(x), PIE(x))
  BY <1>3, StatusBits DEF TypeOK
<1> QED BY <1>1, <1>2, <1>4 DEF Describes

\* mret and sret resume the interrupted context, for every guest.
THEOREM ReturnsResume == Spec => ReturnResumes
<1>1. TypeOK /\ SavedContext /\ [Next]_vars =>
        [\A x \in TrapModes : TrapReturn(x) =>
           \A c \in saved[x] :
             /\ c.kind \in {"interrupt", "general"} => pc' = Even(c.pc)
             /\ mode' = c.mode
             /\ (read_bit(csrs', StatusOf(x), IE(x)) = 1) = c.ie]_vars
  BY ReturnStep
<1> QED BY <1>1, TypeCorrect, ContextsKept, PTL DEF Spec, ReturnResumes

----------------------------------------------------------------------------
(* No pending interrupt is missed.                                         *)

\* The handler of a trap starts with interrupts masked for its own mode.
LEMMA EnterTrapMasks ==
  ASSUME TypeOK, NEW s \in States, NEW x \in TrapModes, x = "S" => mode \in {"U", "S"},
         NEW offset, NEW epc, NEW cause, NEW ctx, NEW next,
         EnterTrap(s, x, offset, epc, cause, ctx, next), phase' = "execute"
  PROVE  ~InterruptsOn'
<1>1. mode # "D" /\ ~Overflows(Even(xcsr[x].tvec), offset)
  BY DEF EnterTrap
<1>2. mode' = x /\ csrs' = EnterStatus(s, x, mode)
  BY <1>1 DEF EnterTrap
<1>3. mode \in {"U", "S", "M"}
  BY <1>1 DEF TypeOK, Modes
<1>4. csrs' \in States /\ IE(x) \notin csrs'["MSTATUS"]
  <2>1. CASE x = "M" BY <1>2, <1>3, <2>1, EnterMachine DEF IE
  <2>2. CASE x = "S" BY <1>2, <2>2, EnterSupervisor DEF IE
  <2> QED BY <2>1, <2>2 DEF TrapModes
<1>5. read_bit(csrs', StatusOf(x), IE(x)) = 0
  BY <1>4, StatusBits
<1> QED BY <1>2, <1>5 DEF InterruptsOn, StatusOf, IE, TrapModes

\* Only the "interrupt" step leads to "execute".
LEMMA OnlyFromInterrupt ==
  ASSUME TypeOK, DevicesIncrement \/ CountExpired \/ Execute \/ Restart
  PROVE  phase' # "execute"
<1>1. NextTurn # "execute"
  BY DEF NextTurn
<1>2. ASSUME NEW kind, NEW code, NEW va, RaiseException(kind, code, va) PROVE phase' # "execute"
  BY <1>1, <1>2 DEF RaiseException, EnterTrap
<1> QED BY <1>1, <1>2 DEF DevicesIncrement, CountExpired, Execute, Restart, IdleTurn, Retire,
              Jump, TrapReturn, Wfi, PanicInst, PcOverflow, CsrOp, TrapCsrWrite, ClintStore

\* What the loop masks is not enabled by the rules of the manual either.
LEMMA MaskedIsDisabled ==
  ASSUME TypeOK, ~InterruptsOn
  PROVE  \A i : ~GloballyEnabled(i)
<1>1. CASE mode = "M" /\ read_bit(csrs, "MSTATUS", MIE_BIT) # 1
  <2>1. MIE_BIT \notin csrs["MSTATUS"]
    BY <1>1 DEF read_bit, read
  <2> QED BY <1>1, <2>1 DEF GloballyEnabled
<1>2. CASE mode = "S" /\ read_bit(csrs, "SSTATUS", SIE_BIT) # 1
  <2>1. SIE_BIT \notin csrs["MSTATUS"]
    BY <1>2, StatusBits DEF TypeOK, StatusOf, IE, TrapModes
  <2> QED BY <1>2, <2>1 DEF GloballyEnabled
<1> QED BY <1>1, <1>2 DEF InterruptsOn

\* For every guest, an instruction never executes while an interrupt is pending
\* and enabled by the rules of the manual.  The inductive invariant is stronger:
\* whatever the mode does not mask for the loop has been taken.
THEOREM InterruptsPrecise == Spec => []NoMissedInterrupt
<1> DEFINE Taken == phase = "execute" => ~InterruptsOn \/ Pending(csrs) = {}
<1>1. Init => Taken
  BY DEF Init, NextTurn
<1>2. TypeOK /\ Taken /\ [Next]_vars => Taken'
  <2> SUFFICES ASSUME TypeOK, Taken, [Next]_vars, phase' = "execute"
               PROVE  ~InterruptsOn' \/ Pending(csrs)' = {}
    OBVIOUS
  <2>1. CASE InterruptsMasked
    BY <2>1 DEF InterruptsMasked, InterruptsOn
  <2>2. ASSUME NEW irq \in Irqs \cup {0}, NoInterrupt(irq) PROVE Pending(csrs)' = {}
    BY <2>2 DEF NoInterrupt, Pending
  <2>3. ASSUME NEW irq \in Irqs \cup {0}, NEW i \in Interrupts, TakeInterrupt(irq, i)
        PROVE  ~InterruptsOn'
    <3> DEFINE x == InterruptMode(i)
               s == write(Poll(irq), "MIP", read(Poll(irq), "MIP") \ {i})
    <3>1. x \in TrapModes /\ (x = "S" => mode \in {"U", "S"})
      BY DEF InterruptMode, TrapModes
    <3>2. s \in States
      BY PollType, TakenType DEF TypeOK
    <3>3. EnterTrap(s, x, Vector(x, i), pc, InterruptFlag + i,
                    Context("interrupt", i, x, 0), "execute")
      BY <2>3 DEF TakeInterrupt
    <3> HIDE DEF x, s
    <3> QED BY <3>1, <3>2, <3>3, EnterTrapMasks
  <2>4. CASE UNCHANGED vars
    BY <2>4 DEF vars, InterruptsOn, Pending
  <2> QED BY <2>1, <2>2, <2>3, <2>4, OnlyFromInterrupt DEF Next, Loop, CheckPendingInterrupt
<1>3. TypeOK /\ Taken => NoMissedInterrupt
  BY MaskedIsDisabled DEF NoMissedInterrupt
<1> HIDE DEF Taken
<1> QED BY <1>1, <1>2, <1>3, TypeCorrect, PTL DEF Spec

----------------------------------------------------------------------------
(* The clock.                                                              *)

\* With the command line's loop, only the "devices" step leads to "interrupt".
LEMMA OnlyFromDevices ==
  ASSUME Frontend = "cli", CountExpired \/ CheckPendingInterrupt \/ Execute \/ Restart
  PROVE  phase' # "interrupt"
<1>1. NextTurn # "interrupt"
  BY DEF NextTurn
<1>2. ASSUME NEW kind, NEW code, NEW va, RaiseException(kind, code, va) PROVE phase' # "interrupt"
  BY <1>1, <1>2 DEF RaiseException, EnterTrap
<1>3. ASSUME NEW irq, NEW i, TakeInterrupt(irq, i) PROVE phase' # "interrupt"
  BY <1>3 DEF TakeInterrupt, EnterTrap
<1>4. CheckPendingInterrupt => phase' # "interrupt"
  BY <1>3 DEF CheckPendingInterrupt, InterruptsMasked, NoInterrupt
<1>5. Execute => phase' # "interrupt"
  BY <1>1, <1>2 DEF Execute, IdleTurn, Retire, Jump, TrapReturn, Wfi, PanicInst, PcOverflow, CsrOp,
                    TrapCsrWrite, ClintStore
<1> QED BY <1>1, <1>4, <1>5 DEF CountExpired, Restart

\* For every guest and every size of the clock, MTIP says exactly whether the
\* clock has reached mtimecmp whenever the loop looks for interrupts, and a
\* software interrupt that is requested is posted (Clint::increment).
THEOREM ClintAlwaysPosted == Spec => []ClintPosted
<1>1. Init => ClintPosted
  BY DEF Init, ClintPosted, NextTurn
<1>2. TypeOK /\ ClintPosted /\ [Next]_vars => ClintPosted'
  <2> SUFFICES ASSUME TypeOK, ClintPosted, [Next]_vars, phase' = "interrupt", Frontend = "cli"
               PROVE  /\ MTIP_BIT \in csrs'["MIP"] <=> mtime' >= mtimecmp'
                      /\ msip' = 1 => MSIP_BIT \in csrs'["MIP"]
    BY DEF ClintPosted
  <2>1. CASE DevicesIncrement
    <3> DEFINE mip == IF msip = 1 THEN csrs["MIP"] \cup {MSIP_BIT} ELSE csrs["MIP"]
    <3>1. csrs'["MIP"] = TimerBits(Tick(mtime), mip)
      BY <2>1 DEF DevicesIncrement, write, TypeOK, States, StoredCsrs
    <3>2. mtime' = Tick(mtime) /\ UNCHANGED <<msip, mtimecmp>>
      BY <2>1 DEF DevicesIncrement
    <3> QED BY <3>1, <3>2 DEF TimerBits, MTIP_BIT, MSIP_BIT
  <2>2. CASE UNCHANGED vars
    BY <2>2 DEF vars, ClintPosted
  <2> QED BY <2>1, <2>2, OnlyFromDevices DEF Next, Loop
<1> QED BY <1>1, <1>2, TypeCorrect, PTL DEF Spec

----------------------------------------------------------------------------
(* What a step does to the mode, to MSTATUS and to SATP.                   *)

\* It changes none of them.
Quiet == /\ csrs'["MSTATUS"] = csrs["MSTATUS"] /\ csrs'["SATP"] = csrs["SATP"]
         /\ UNCHANGED <<mode, paging>>

\* It enters a trap into mode x, with CSRs that differ in MIP at most.
Enters(x) ==
  /\ mode \in {"U", "S", "M"} /\ (x = "S" => mode \in {"U", "S"}) /\ UNCHANGED paging
  /\ \E s \in States : /\ s["MSTATUS"] = csrs["MSTATUS"] /\ s["SATP"] = csrs["SATP"]
                       /\ csrs' = EnterStatus(s, x, mode) /\ mode' = x

LEMMA EnterTrapEnters ==
  ASSUME TypeOK, NEW s \in States, s["MSTATUS"] = csrs["MSTATUS"], s["SATP"] = csrs["SATP"],
         NEW x \in TrapModes, x = "S" => mode \in {"U", "S"}, UNCHANGED paging,
         NEW offset, NEW epc, NEW cause, NEW ctx, NEW next,
         EnterTrap(s, x, offset, epc, cause, ctx, next)
  PROVE  Quiet \/ Enters(x)
<1>1. CASE mode = "D" \/ Overflows(Even(xcsr[x].tvec), offset)
  BY <1>1 DEF EnterTrap, Quiet
<1>2. CASE mode # "D" /\ ~Overflows(Even(xcsr[x].tvec), offset)
  BY <1>2 DEF EnterTrap, Enters, TypeOK, Modes
<1> QED BY <1>1, <1>2

\* Every step is of one of these kinds.
LEMMA StepKinds ==
  ASSUME TypeOK, [Next]_vars
  PROVE  \/ Quiet \/ Restart
         \/ \E x \in TrapModes : Enters(x) \/ TrapReturn(x)
         \/ \E o \in CsrOps : CsrOp(o)
<1>1. CASE DevicesIncrement
  <2>1. csrs' = [csrs EXCEPT !["MIP"] = csrs'["MIP"]]
    BY <1>1 DEF DevicesIncrement, write, TypeOK, States, StoredCsrs
  <2> QED BY <1>1, <2>1 DEF DevicesIncrement, Quiet, TypeOK, States, StoredCsrs
<1>2. CASE CountExpired \/ InterruptsMasked
  BY <1>2 DEF CountExpired, InterruptsMasked, Quiet
<1>3. ASSUME NEW irq \in Irqs \cup {0}, NoInterrupt(irq) PROVE Quiet
  BY <1>3, PollType DEF NoInterrupt, Quiet, TypeOK
<1>4. ASSUME NEW irq \in Irqs \cup {0}, NEW i \in Interrupts, TakeInterrupt(irq, i)
      PROVE  Quiet \/ \E x \in TrapModes : Enters(x)
  <2> DEFINE x == InterruptMode(i)
             s == write(Poll(irq), "MIP", read(Poll(irq), "MIP") \ {i})
  <2>1. x \in TrapModes /\ (x = "S" => mode \in {"U", "S"})
    BY DEF InterruptMode, TrapModes
  <2>2. s \in States /\ s["MSTATUS"] = csrs["MSTATUS"] /\ s["SATP"] = csrs["SATP"]
    <3> DEFINE p == Poll(irq)
    <3>1. p \in States /\ p["MSTATUS"] = csrs["MSTATUS"] /\ p["SATP"] = csrs["SATP"]
      BY PollType DEF TypeOK
    <3> HIDE DEF p
    <3>2. LET q == write(p, "MIP", read(p, "MIP") \ {i})
          IN  q \in States /\ q["MSTATUS"] = csrs["MSTATUS"] /\ q["SATP"] = csrs["SATP"]
      BY <3>1, TakenType
    <3> QED BY <3>2 DEF p
  <2>3. EnterTrap(s, x, Vector(x, i), pc, InterruptFlag + i,
                  Context("interrupt", i, x, 0), "execute") /\ UNCHANGED paging
    BY <1>4 DEF TakeInterrupt
  <2> HIDE DEF x, s
  <2> QED BY <2>1, <2>2, <2>3, EnterTrapEnters
<1>5. ASSUME NEW kind \in InstKinds, NEW code \in ExceptionCodes,
             NEW va \in DataAddrs \cup {0, pc}, RaiseException(kind, code, va)
      PROVE  Quiet \/ \E x \in TrapModes : Enters(x)
  <2> DEFINE x == ExceptionMode(code)
             epc == ExceptionPc(Plus(pc, Length(kind)))
             next == IF Ends(code) THEN "stopped" ELSE NextTurn
  <2>1. x \in TrapModes /\ (x = "S" => mode \in {"U", "S"})
    BY DEF ExceptionMode, TrapModes
  <2>2. EnterTrap(csrs, x, 0, epc, code, Context(kind, code, x, va), next)
        /\ UNCHANGED paging
    BY <1>5 DEF RaiseException
  <2>3. csrs \in States
    BY DEF TypeOK
  <2> HIDE DEF x, epc, next
  <2> QED BY <2>1, <2>2, <2>3, EnterTrapEnters
<1>6. ASSUME NEW kind, Retire(kind) \/ PcOverflow(kind) PROVE Quiet
  BY <1>6 DEF Retire, PcOverflow, Quiet
<1>7. ASSUME NEW target, Jump(target) PROVE Quiet
  BY <1>7 DEF Jump, Quiet
<1>8. CASE IdleTurn \/ Wfi \/ PanicInst
  BY <1>8 DEF IdleTurn, Wfi, PanicInst, Quiet
<1>9. ASSUME NEW w, TrapCsrWrite(w) \/ ClintStore(w) PROVE Quiet
  BY <1>9 DEF TrapCsrWrite, ClintStore, Quiet
<1>10. CASE UNCHANGED vars
  BY <1>10 DEF vars, Quiet, paging
<1> QED BY <1>1, <1>2, <1>3, <1>4, <1>5, <1>6, <1>7, <1>8, <1>9, <1>10
        DEF Next, Loop, CheckPendingInterrupt, Execute

----------------------------------------------------------------------------
(* Debug mode.                                                             *)

\* MPP does not hold 0b10, and the hart is not in the mode it stands for.
NoDebug == mode # "D" /\ PrevMode(csrs, "M") # "D"

\* A legal write of MSTATUS leaves a legal MPP, and no other write reaches it.
LEMMA CsrOpLegal ==
  ASSUME TypeOK, LegalMpp, PrevMode(csrs, "M") # "D", NEW o \in CsrOps, CsrOp(o), csrs' \in States
  PROVE  PrevMode(csrs', "M") # "D"
<1> DEFINE m == csrs["MSTATUS"]
           n == csrs'["MSTATUS"]
<1>1. 12 \in m => 11 \in m
  BY PrevModeMachine DEF TypeOK
<1>2. o \in CsrOpType /\ csrs' = write(csrs, o.csr, CsrValue(o))
  BY GuestAssumption DEF CsrOp
<1>3. CASE o.csr = "MSTATUS"
  <2>1. n = CsrValue(o)
    BY <1>2, <1>3 DEF write, TypeOK, States, StoredCsrs
  <2>2. read(csrs, o.csr) = m
    BY <1>3 DEF read
  <2>3. IF o.op = "csrrc" THEN 11 \in o.val => 12 \in o.val ELSE 12 \in o.val => 11 \in o.val
    BY <1>3 DEF LegalMpp
  <2>4. o.op \in {"csrrw", "csrrs", "csrrc"}
    BY <1>2 DEF CsrOpType
  <2>5. 12 \in n => 11 \in n
    BY <1>1, <2>1, <2>2, <2>3, <2>4 DEF CsrValue
  <2> QED BY <2>5, PrevModeMachine
<1>4. CASE o.csr = "SSTATUS"
  <2>1. n = Merge(m, SstatusWriteMask, CsrValue(o))
    BY <1>2, <1>4 DEF write, TypeOK, States, StoredCsrs
  <2>2. 11 \notin SstatusWriteMask /\ 12 \notin SstatusWriteMask
    BY DEF SstatusWriteMask
  <2>3. 12 \in n => 11 \in n
    BY <1>1, <2>1, <2>2 DEF Merge
  <2> QED BY <2>3, PrevModeMachine
<1>5. CASE o.csr \notin {"MSTATUS", "SSTATUS"}
  <2>1. n = m
    BY <1>2, <1>5 DEF write, CsrOpType, TypeOK, States, StoredCsrs, CsrNames, ViewCsrs
  <2> QED BY <1>1, <2>1, PrevModeMachine
<1> QED BY <1>3, <1>4, <1>5

\* A guest that never writes 0b10 to MPP itself never reaches Debug mode, from
\* which the next trap panics: no trap, no return and no write of another
\* register leaves 0b10 in MPP, however they nest (take_trap, mret and sret,
\* the masks of SSTATUS).
THEOREM NeverDebug == Spec => []NoDebugMode
<1>1. Init => NoDebug
  <2> SUFFICES ASSUME Init PROVE NoDebug
    OBVIOUS
  <2>1. csrs \in States /\ csrs["MSTATUS"] = {}
    BY InitType DEF Init, ResetState, StoredCsrs, TypeOK
  <2> QED BY <2>1, PrevModeMachine DEF Init, NoDebug
<1>2. LegalMpp /\ TypeOK /\ TypeOK' /\ NoDebug /\ [Next]_vars => NoDebug'
  <2> SUFFICES ASSUME LegalMpp, TypeOK, TypeOK', NoDebug, [Next]_vars PROVE NoDebug'
    OBVIOUS
  <2>1. csrs \in States /\ csrs' \in States
    BY DEF TypeOK
  <2>2. CASE Quiet
    <3>1. PrevMode(csrs', "M") = PrevMode(csrs, "M")
      BY <2>1, <2>2, PrevModeMachine DEF Quiet
    <3> QED BY <2>2, <3>1 DEF Quiet, NoDebug
  <2>3. CASE Restart
    <3>1. csrs'["MSTATUS"] = {} /\ mode' = "M"
      BY <2>3 DEF Restart, ResetState, StoredCsrs
    <3> QED BY <2>1, <3>1, PrevModeMachine DEF NoDebug
  <2>4. ASSUME NEW x \in TrapModes, Enters(x) PROVE NoDebug'
    <3>1. PICK s \in States : s["MSTATUS"] = csrs["MSTATUS"] /\ csrs' = EnterStatus(s, x, mode)
      BY <2>4 DEF Enters
    <3>2. mode' = x /\ x # "D"
      BY <2>4 DEF Enters, TrapModes
    <3>3. CASE x = "M"
      <4>1. PrevMode(csrs', "M") = mode
        BY <2>4, <3>1, <3>3, EnterMachine DEF Enters
      <4> QED BY <3>2, <4>1 DEF NoDebug
    <3>4. CASE x = "S"
      <4>1. SameFields(s, csrs', "M")
        BY <2>4, <3>1, <3>4, EnterSupervisor DEF Enters
      <4>2. PrevMode(csrs', "M") = PrevMode(s, "M") /\ PrevMode(s, "M") = PrevMode(csrs, "M")
        BY <2>1, <3>1, <4>1, FieldsDecide, PrevModeMachine DEF TrapModes
      <4> QED BY <3>2, <4>2 DEF NoDebug
    <3> QED BY <3>3, <3>4 DEF TrapModes
  <2>5. ASSUME NEW x \in TrapModes, TrapReturn(x) PROVE NoDebug'
    <3>1. csrs' = LeaveStatus(csrs, x) /\ mode' = PrevMode(csrs, x)
      BY <2>5 DEF TrapReturn
    <3>2. CASE x = "M"
      BY <2>1, <3>1, <3>2, LeaveMachine DEF NoDebug
    <3>3. CASE x = "S"
      <4>1. SameFields(csrs, csrs', "M")
        BY <2>1, <3>1, <3>3, LeaveSupervisor
      <4>2. PrevMode(csrs', "M") = PrevMode(csrs, "M")
        BY <2>1, <4>1, FieldsDecide DEF TrapModes
      <4>3. mode' # "D"
        BY <2>1, <3>1, <3>3, PrevModeSupervisor
      <4> QED BY <4>2, <4>3 DEF NoDebug
    <3> QED BY <3>2, <3>3 DEF TrapModes
  <2>6. ASSUME NEW o \in CsrOps, CsrOp(o) PROVE NoDebug'
    <3>1. PrevMode(csrs', "M") # "D"
      BY <2>1, <2>6, CsrOpLegal DEF NoDebug
    <3> QED BY <2>6, <3>1 DEF CsrOp, NoDebug
  <2> QED BY <2>2, <2>3, <2>4, <2>5, <2>6, StepKinds
<1>3. CASE LegalMpp
  <2>1. TypeOK /\ TypeOK' /\ NoDebug /\ [Next]_vars => NoDebug'
    BY <1>2, <1>3
  <2>2. NoDebug => NoDebugMode
    BY DEF NoDebug, NoDebugMode
  <2> QED BY <1>1, <2>1, <2>2, TypeCorrect, PTL DEF Spec
<1>4. CASE ~LegalMpp
  <2>1. NoDebugMode
    BY <1>4 DEF NoDebugMode
  <2> QED BY <2>1, PTL
<1> QED BY <1>3, <1>4

----------------------------------------------------------------------------
(* The cached paging state.                                                *)

\* update_paging decodes SATP: the mode field and the page of the root table.
LEMMA PagingDecoded ==
  ASSUME NEW s \in States, update_paging(s), csrs' = s
  PROVE  PagingFollowsSatp'
<1> DEFINE r == s["SATP"]
<1>1. read(s, "SATP") = r /\ r \subseteq Int
  BY DEF read, States, StoredCsrs, Bits, MXLEN
<1>2. read_bits(s, "SATP", 60, 64) = {b - 60 : b \in r \cap (60 .. 63)}
  BY <1>1 DEF read_bits
<1>3. {b - 60 : b \in r \cap (60 .. 63)} = {3} <=> r \cap (60 .. 63) = {63}
  <2>1. ASSUME {b - 60 : b \in r \cap (60 .. 63)} = {3} PROVE r \cap (60 .. 63) = {63}
    <3>1. \A b \in r \cap (60 .. 63) : b = 63
      BY <2>1
    <3>2. \E b \in r \cap (60 .. 63) : TRUE
      BY <2>1
    <3> QED BY <3>1, <3>2
  <2>2. ASSUME r \cap (60 .. 63) = {63} PROVE {b - 60 : b \in r \cap (60 .. 63)} = {3}
    BY <2>2
  <2> QED BY <2>1, <2>2
<1>4. read_bits(s, "SATP", 0, 44) = r \cap (0 .. 43)
  <2>1. read_bits(s, "SATP", 0, 44) = {b - 0 : b \in r \cap (0 .. 43)}
    BY <1>1 DEF read_bits
  <2>2. \A b \in r \cap (0 .. 43) : b - 0 = b
    BY <1>1
  <2> QED BY <2>1, <2>2
<1> QED BY <1>2, <1>3, <1>4 DEF update_paging, PagingFollowsSatp

\* On an emulator that is not restarted, the cached paging state is what SATP
\* says, over every trap, return and CSR instruction of every guest
\* (update_paging).  Emulator::reset clears SATP and keeps the cache, so it does
\* not hold over a restart.
THEOREM PagingFollows == ~Restarts => (Spec => []PagingFollowsSatp)
<1> SUFFICES ASSUME ~Restarts PROVE Spec => []PagingFollowsSatp
  OBVIOUS
<1>1. Init => PagingFollowsSatp
  BY DEF Init, PagingFollowsSatp, ResetState, StoredCsrs
<1>2. TypeOK /\ TypeOK' /\ PagingFollowsSatp /\ [Next]_vars => PagingFollowsSatp'
  <2> SUFFICES ASSUME TypeOK, TypeOK', PagingFollowsSatp, [Next]_vars PROVE PagingFollowsSatp'
    OBVIOUS
  <2>1. ASSUME csrs'["SATP"] = csrs["SATP"], UNCHANGED paging PROVE PagingFollowsSatp'
    BY <2>1 DEF PagingFollowsSatp, paging
  <2>2. CASE Quiet
    BY <2>1, <2>2 DEF Quiet
  <2>3. ASSUME NEW x \in TrapModes, Enters(x) PROVE PagingFollowsSatp'
    <3>1. PICK s \in States : s["SATP"] = csrs["SATP"] /\ csrs' = EnterStatus(s, x, mode)
      BY <2>3 DEF Enters
    <3>2. "SATP" \in StoredCsrs \ {"MSTATUS"}
      BY DEF StoredCsrs
    <3>3. csrs'["SATP"] = csrs["SATP"]
      <4>1. CASE x = "M"
        BY <2>3, <3>1, <3>2, <4>1, EnterMachine DEF Enters
      <4>2. CASE x = "S"
        BY <2>3, <3>1, <3>2, <4>2, EnterSupervisor DEF Enters
      <4> QED BY <4>1, <4>2 DEF TrapModes
    <3> QED BY <2>1, <2>3, <3>3 DEF Enters
  <2>4. ASSUME NEW x \in TrapModes, TrapReturn(x) PROVE PagingFollowsSatp'
    <3>1. "SATP" \in StoredCsrs \ {"MSTATUS"}
      BY DEF StoredCsrs
    <3>2. csrs'["SATP"] = csrs["SATP"]
      BY <2>4, <3>1, LeaveMachine, LeaveSupervisor DEF TrapReturn, TrapModes, TypeOK
    <3> QED BY <2>1, <2>4, <3>2 DEF TrapReturn
  <2>5. ASSUME NEW o \in CsrOps, CsrOp(o) PROVE PagingFollowsSatp'
    <3>1. CASE o.csr = "SATP"
      BY <2>5, <3>1, PagingDecoded DEF CsrOp, TypeOK
    <3>2. CASE o.csr # "SATP"
      <4>1. o.csr \in CsrNames
        BY GuestAssumption DEF CsrOpType
      <4>2. csrs' = write(csrs, o.csr, CsrValue(o)) /\ UNCHANGED paging
        BY <2>5, <3>2 DEF CsrOp
      <4>3. csrs'["SATP"] = csrs["SATP"]
        BY <3>2, <4>1, <4>2 DEF write, TypeOK, States, StoredCsrs, CsrNames, ViewCsrs
      <4> QED BY <2>1, <4>2, <4>3
    <3> QED BY <3>1, <3>2
  <2>6. ~Restart
    BY DEF Restart
  <2> QED BY <2>2, <2>3, <2>4, <2>5, <2>6, StepKinds
<1> QED BY <1>1, <1>2, TypeCorrect, PTL DEF Spec
=============================================================================
