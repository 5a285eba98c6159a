----------------------------- MODULE Sv39Proofs -----------------------------
(***************************************************************************)
(* Address translation is exact for every number of values of a field,     *)
(* every root table and every set of pages in memory.  The invariant is    *)
(* that the walk stands on the path of the virtual page: its table is the  *)
(* one the entries read so far lead to, and those entries are pointers.    *)
(***************************************************************************)
EXTENDS Sv39, TLAPS

PageFaults == {"InstructionPageFault", "LoadPageFault", "StoreAMOPageFault"}

\* The entry that the walk reads next, or has read when it is at a leaf.
Here == <<a, vpn[i + 1]>>

\* The walk is on the path of the virtual page, at level i.
OnPath ==
  /\ result \in {"walk", "leaf"} /\ ~bare => a = TableAt(i) /\ Reached(i)
  /\ result = "leaf" => /\ ~bare /\ Here \in DOMAIN ptes /\ pte = ptes[Here]
                        /\ ~IsInvalid(pte) /\ IsLeaf(pte)

Walk == OnPath /\ TranslationIsExact /\ FaultsAreReal

----------------------------------------------------------------------------
(* Types.                                                                  *)

LEMMA RootType == Root \in Pages /\ NoEntry \in Entries
BY IndexAssumption DEF NoEntry, Entries, Flags

\* Every access but a store's raises a page fault of its own kind; a store's is
\* a load page fault, because write passes AccessType::Load to translate.
LEMMA PageFaultType == op \in {"load", "store", "fetch"} => PageFault \in PageFaults
BY DEF PageFault, AccessType, PageFaults

\* The access to the bus ends in "ok" or in an access fault, at the page given.
LEMMA BusAccessType ==
  ASSUME op \in {"load", "store", "fetch"}, NEW p, BusAccess(p)
  PROVE  /\ page' = p
         /\ result' \in {"ok", "LoadAccessFault", "StoreAMOAccessFault", "InstructionAccessFault"}
BY DEF BusAccess

\* Find adds at most one entry and changes none.
LEMMA FindGrows ==
  ASSUME NEW e, Find(e)
  PROVE  /\ DOMAIN ptes' = DOMAIN ptes \cup {Here}
         /\ ptes'[Here] = e
         /\ \A p \in DOMAIN ptes : ptes'[p] = ptes[p]
BY DEF Find, Here

\* What a step down does to the level and to the result.
LEMMA DescendType ==
  ASSUME TypeOK, result = "walk", NEW e \in Entries, Descend(e)
  PROVE  /\ a' = e.ppn /\ a' \in Pages /\ i' = i - 1 /\ i' \in -1 .. 2
         /\ i > 0 => result' = "walk"
         /\ i = 0 => result' = PageFault
BY DEF Descend, TypeOK, Entries

\* The actions keep the types of the variables.
LEMMA TypeStep == TypeOK /\ [Next]_vars => TypeOK'
<1> SUFFICES ASSUME TypeOK, [Next]_vars PROVE TypeOK'
  OBVIOUS
<1> USE DEF access
<1>1. CASE NoTranslation
  <2>1. page' = vpn /\ result' \in {"ok"} \cup Exceptions
    BY <1>1, BusAccessType DEF NoTranslation, TypeOK, Exceptions
  <2> QED
    BY <1>1, <2>1 DEF NoTranslation, TypeOK, Exceptions
<1>2. ASSUME NEW e \in Entries, ReadEntry(e) PROVE TypeOK'
  <2>1. /\ DOMAIN ptes' \subseteq Pages \X Index
        /\ \A p \in DOMAIN ptes' : ptes'[p] \in Entries
    <3>1. Here \in Pages \X Index
      BY <1>2 DEF Here, TypeOK, Pages, ReadEntry
    <3> QED
      BY <1>2, <3>1, FindGrows DEF ReadEntry, TypeOK
  <2>2. PageFault \in Exceptions
    BY PageFaultType DEF TypeOK, PageFaults, Exceptions
  <2>3. /\ a' \in Pages /\ i' \in -1 .. 2
        /\ result' \in {"walk", "leaf", "ok"} \cup Exceptions
        /\ result' \in {"walk", "leaf"} => i' >= 0
    <3>1. CASE UNCHANGED <<a, i>> /\ result' \in {"leaf", PageFault}
      BY <1>2, <2>2, <3>1 DEF TypeOK, ReadEntry
    <3>2. CASE Descend(e)
      <4>1. PageFault \notin {"walk", "leaf"}
        BY <2>2 DEF Exceptions
      <4> QED
        BY <1>2, <2>2, <3>2, <4>1, DescendType DEF TypeOK, ReadEntry
    <3> QED
      BY <1>2, <3>1, <3>2 DEF ReadEntry
  <2> QED
    BY <1>2, <2>1, <2>3 DEF ReadEntry, TypeOK
<1>3. CASE TableFault
  BY <1>3 DEF TableFault, TypeOK, Exceptions
<1>4. CASE Leaf
  <2>1. CASE MisalignedSuperpage /\ result' = PageFault /\ UNCHANGED page
    BY <1>4, <2>1, PageFaultType DEF Leaf, TypeOK, PageFaults, Exceptions
  <2>2. CASE BusAccess([k \in 1 .. 3 |-> IF k > i THEN pte.ppn[k] ELSE vpn[k]])
    <3>1. [k \in 1 .. 3 |-> IF k > i THEN pte.ppn[k] ELSE vpn[k]] \in Pages
      BY DEF TypeOK, Pages, Entries
    <3> QED
      BY <1>4, <2>2, <3>1, BusAccessType DEF Leaf, TypeOK, Exceptions
  <2> QED
    BY <1>4, <2>1, <2>2 DEF Leaf
<1>5. CASE UNCHANGED vars
  BY <1>5 DEF vars, TypeOK
<1> QED
  BY <1>1, <1>2, <1>3, <1>4, <1>5 DEF Next

\* Cpu::translate and the access after it keep the types of their variables.
THEOREM TypeCorrect == Spec => []TypeOK
<1>1. Init => TypeOK
  BY RootType DEF Init, TypeOK
<1> QED
  BY <1>1, TypeStep, PTL DEF Spec

----------------------------------------------------------------------------
(* The path.                                                               *)

\* The entry at a level is the one that the virtual page selects in its table.
Selects == \A l \in 0 .. 2 : EntryAt(l) = EntryOf(TableAt(l), vpn[l + 1])

LEMMA EntryInTable == Selects
<1> SUFFICES ASSUME NEW l \in 0 .. 2 PROVE EntryAt(l) = EntryOf(TableAt(l), vpn[l + 1])
  BY DEF Selects
<1>1. CASE l = 2
  BY <1>1 DEF EntryAt, TableAt
<1>2. CASE l = 1
  BY <1>2 DEF EntryAt, TableAt
<1>3. CASE l = 0
  BY <1>3 DEF EntryAt, TableAt
<1> QED
  BY <1>1, <1>2, <1>3

\* An entry that was not read is invalid.
LEMMA ValidWasRead ==
  ASSUME NEW l \in 0 .. 2, ~IsInvalid(EntryAt(l))
  PROVE  /\ <<TableAt(l), vpn[l + 1]>> \in DOMAIN ptes
         /\ EntryAt(l) = ptes[<<TableAt(l), vpn[l + 1]>>]
<1>1. IsInvalid(NoEntry)
  BY DEF IsInvalid, NoEntry
<1> QED
  BY <1>1, EntryInTable DEF EntryOf, Selects

\* The entries are only added to.
Grown == /\ vpn' = vpn /\ DOMAIN ptes \subseteq DOMAIN ptes'
         /\ \A p \in DOMAIN ptes : ptes'[p] = ptes[p]

\* An entry on the path that was read stays on the path.
LEMMA EntryStays ==
  ASSUME Grown, NEW l \in 0 .. 2, TableAt(l)' = TableAt(l),
         <<TableAt(l), vpn[l + 1]>> \in DOMAIN ptes
  PROVE  EntryAt(l)' = EntryAt(l)
<1>1. EntryAt(l) = EntryOf(TableAt(l), vpn[l + 1])
  BY EntryInTable DEF Selects
<1>2. EntryAt(l)' = EntryOf(TableAt(l), vpn[l + 1])'
  <2>1. Selects'
    BY EntryInTable, PTL
  <2> QED
    BY <2>1 DEF Selects
<1> QED
  BY <1>1, <1>2 DEF EntryOf, Grown

\* The part of the path that the walk has gone down stays as it is.
LEMMA PathStays ==
  ASSUME Grown, NEW l \in 0 .. 2, Reached(l)
  PROVE  /\ TableAt(l)' = TableAt(l) /\ Reached(l)'
         /\ \A m \in (l + 1) .. 2 : EntryAt(m)' = EntryAt(m)
<1>1. TableAt(2)' = TableAt(2)
  BY DEF TableAt
<1>2. ASSUME NEW m \in 0 .. 2, ~IsInvalid(EntryAt(m)), TableAt(m)' = TableAt(m)
      PROVE  EntryAt(m)' = EntryAt(m)
  BY <1>2, ValidWasRead, EntryStays
<1>3. l < 2 => EntryAt(2)' = EntryAt(2) /\ TableAt(1)' = TableAt(1)
  <2> SUFFICES ASSUME l < 2 PROVE EntryAt(2)' = EntryAt(2) /\ TableAt(1)' = TableAt(1)
    OBVIOUS
  <2>1. EntryAt(2)' = EntryAt(2)
    BY <1>1, <1>2 DEF Reached
  <2> QED
    BY <2>1 DEF TableAt
<1>4. l < 1 => EntryAt(1)' = EntryAt(1) /\ TableAt(0)' = TableAt(0)
  <2> SUFFICES ASSUME l < 1 PROVE EntryAt(1)' = EntryAt(1) /\ TableAt(0)' = TableAt(0)
    OBVIOUS
  <2>1. EntryAt(1)' = EntryAt(1)
    BY <1>2, <1>3 DEF Reached
  <2> QED
    BY <2>1 DEF TableAt
<1>5. \A m \in (l + 1) .. 2 : EntryAt(m)' = EntryAt(m)
  <2> TAKE m \in (l + 1) .. 2
  <2>1. m = 2 \/ (m = 1 /\ l < 1)
    OBVIOUS
  <2> QED
    BY <1>3, <1>4, <2>1
<1>6. TableAt(l)' = TableAt(l)
  <2>1. l = 2 \/ l = 1 \/ l = 0
    OBVIOUS
  <2> QED
    BY <1>1, <1>3, <1>4, <2>1
<1> QED
  BY <1>5, <1>6 DEF Reached, IsInvalid, IsLeaf

\* An entry that the walk finds at its place on the path is the entry of the
\* path at that level.
LEMMA FoundOnPath ==
  ASSUME TypeOK, OnPath, NEW e \in Entries, ReadEntry(e)
  PROVE  /\ i \in 0 .. 2 /\ ~bare /\ Grown
         /\ Here \in DOMAIN ptes' /\ ptes'[Here] = e
         /\ \A m \in 0 .. 2 : m = i => TableAt(m)' = a /\ Reached(m)' /\ EntryAt(m)' = e
<1>1. i \in 0 .. 2 /\ ~bare /\ result = "walk" /\ Find(e) /\ vpn' = vpn
  BY DEF TypeOK, ReadEntry, access
<1>2. /\ Here \in DOMAIN ptes' /\ ptes'[Here] = e
      /\ DOMAIN ptes \subseteq DOMAIN ptes' /\ \A p \in DOMAIN ptes : ptes'[p] = ptes[p]
  BY <1>1, FindGrows
<1>3. Grown
  BY <1>1, <1>2 DEF Grown
<1>4. TableAt(i) = a /\ Reached(i)
  BY <1>1 DEF OnPath
<1>5. ASSUME NEW m \in 0 .. 2, m = i PROVE TableAt(m)' = a /\ Reached(m)' /\ EntryAt(m)' = e
  <2>1. TableAt(m)' = TableAt(m) /\ Reached(m)'
    BY <1>3, <1>4, <1>5, PathStays
  <2>2. Selects'
    BY EntryInTable, PTL
  <2>3. EntryAt(m)' = EntryOf(TableAt(m), vpn[m + 1])'
    BY <2>2 DEF Selects
  <2> QED
    BY <1>1, <1>2, <1>4, <1>5, <2>1, <2>3 DEF EntryOf, Here
<1> QED
  BY <1>1, <1>2, <1>3, <1>5

\* The invariant is kept by the reading of an entry, ...
LEMMA ReadEntryKeeps ==
  ASSUME TypeOK, Walk, NEW e \in Entries, ReadEntry(e)
  PROVE  Walk'
<1>1. /\ i \in 0 .. 2 /\ ~bare /\ ~bare' /\ vpn' = vpn /\ pte' = e /\ a \in Pages
      /\ Here \in DOMAIN ptes' /\ ptes'[Here] = e
  BY FoundOnPath DEF Walk, ReadEntry, access, TypeOK
<1>2. PICK m \in 0 .. 2 : m = i
  BY <1>1
<1>3. TableAt(m)' = a /\ Reached(m)' /\ EntryAt(m)' = e
  BY <1>2, FoundOnPath DEF Walk
<1>4. Here = <<TableAt(m)', vpn'[m + 1]>>
  BY <1>1, <1>2, <1>3 DEF Here
<1>5. PageFault \in PageFaults
  BY PageFaultType DEF TypeOK
<1>6. CASE IsInvalid(e) /\ result' = PageFault
  <2>1. Unmaps(m)'
    BY <1>1, <1>3, <1>4, <1>6 DEF Unmaps, IsInvalid
  <2> QED
    BY <1>1, <1>5, <1>6, <2>1 DEF Walk, OnPath, TranslationIsExact, FaultsAreReal, PageFaults
<1>7. CASE ~IsInvalid(e) /\ IsLeaf(e) /\ result' = "leaf" /\ UNCHANGED <<a, i>>
  <2>1. Here' = Here /\ i' = m
    BY <1>1, <1>2, <1>7 DEF Here
  <2>2. TableAt(i)' = a' /\ Reached(i)'
    BY <1>3, <1>7, <2>1
  <2>3. ~IsInvalid(pte)' /\ IsLeaf(pte)'
    BY <1>1, <1>7 DEF IsInvalid, IsLeaf
  <2> QED
    BY <1>1, <1>7, <2>1, <2>2, <2>3 DEF Walk, OnPath, TranslationIsExact, FaultsAreReal
<1>8. CASE ~IsInvalid(e) /\ ~IsLeaf(e) /\ Descend(e) /\ m > 0
  <2>1. PICK n \in 0 .. 1 : n = m - 1
    BY <1>8
  <2>2. i' = n /\ result' = "walk" /\ a' = e.ppn
    BY <1>2, <1>8, <2>1, DescendType DEF ReadEntry
  <2>3. TableAt(n)' = a'
    BY <1>3, <2>1, <2>2 DEF TableAt
  <2>4. Reached(n)'
    <3>1. \A k \in (n + 1) .. 2 : k = m \/ k \in (m + 1) .. 2
      BY <2>1
    <3> QED
      BY <1>3, <1>8, <3>1 DEF Reached, IsInvalid, IsLeaf
  <2>5. TableAt(i)' = a' /\ Reached(i)'
    BY <2>2, <2>3, <2>4
  <2> QED
    BY <2>2, <2>5 DEF Walk, OnPath, TranslationIsExact, FaultsAreReal
<1>9. CASE ~IsInvalid(e) /\ ~IsLeaf(e) /\ Descend(e) /\ m = 0
  <2>1. result' = PageFault
    BY <1>2, <1>9, DescendType DEF ReadEntry
  <2>2. Unmaps(m)'
    BY <1>1, <1>3, <1>4, <1>9 DEF Unmaps, IsLeaf
  <2> QED
    BY <1>1, <1>5, <2>1, <2>2 DEF Walk, OnPath, TranslationIsExact, FaultsAreReal, PageFaults
<1> QED
  BY <1>2, <1>6, <1>7, <1>8, <1>9 DEF ReadEntry

\* ... and by the end of the walk at a leaf.
LEMMA LeafKeeps ==
  ASSUME TypeOK, Walk, Leaf
  PROVE  Walk'
<1>1. /\ result = "leaf" /\ i \in 0 .. 2 /\ ~bare /\ ~bare' /\ vpn' = vpn /\ ptes' = ptes
      /\ Here \in DOMAIN ptes /\ pte = ptes[Here] /\ ~IsInvalid(pte) /\ IsLeaf(pte)
  BY DEF Leaf, Walk, OnPath, TypeOK, access
<1>2. PICK m \in 0 .. 2 : m = i
  BY <1>1
<1>3. TableAt(m) = a /\ Reached(m)
  BY <1>1, <1>2 DEF Walk, OnPath
<1>4. EntryAt(m) = pte /\ <<TableAt(m), vpn[m + 1]>> = Here
  BY <1>1, <1>2, <1>3, EntryInTable DEF Selects, EntryOf, Here
<1>5. Grown
  BY <1>1 DEF Grown
<1>6. /\ TableAt(m)' = a /\ Reached(m)' /\ EntryAt(m)' = pte
      /\ <<TableAt(m), vpn[m + 1]>>' \in DOMAIN ptes'
  <2>1. TableAt(m)' = a /\ Reached(m)'
    BY <1>3, <1>5, PathStays
  <2>2. EntryAt(m)' = pte
    BY <1>1, <1>3, <1>4, <1>5, <2>1, EntryStays
  <2> QED
    BY <1>1, <1>3, <1>4, <2>1, <2>2
<1>7. CASE MisalignedSuperpage /\ result' = PageFault
  <2>1. ~Aligned(m)'
    <3>1. PICK j \in 0 .. i - 1 : pte.ppn[j + 1] # 0
      BY <1>7 DEF MisalignedSuperpage
    <3>2. j + 1 \in 1 .. m
      BY <1>2, <3>1
    <3> QED
      BY <1>6, <3>1, <3>2 DEF Aligned
  <2>2. Unmaps(m)'
    BY <1>1, <1>6, <2>1 DEF Unmaps, IsLeaf
  <2>3. PageFault \in PageFaults
    BY PageFaultType DEF TypeOK
  <2> QED
    BY <1>1, <1>7, <2>2, <2>3 DEF Walk, OnPath, TranslationIsExact, FaultsAreReal, PageFaults
<1>8. CASE /\ ~MisalignedSuperpage
           /\ BusAccess([k \in 1 .. 3 |-> IF k > i THEN pte.ppn[k] ELSE vpn[k]])
  <2>1. /\ page' = [k \in 1 .. 3 |-> IF k > m THEN pte.ppn[k] ELSE vpn[k]]
        /\ result' \in {"ok", "LoadAccessFault", "StoreAMOAccessFault", "InstructionAccessFault"}
    BY <1>2, <1>8, BusAccessType DEF TypeOK
  <2>2. Aligned(m)'
    <3>1. \A k \in 1 .. m : k - 1 \in 0 .. i - 1 /\ (k - 1) + 1 = k
      BY <1>2
    <3>2. \A k \in 1 .. m : pte.ppn[k] = 0
      BY <1>8, <3>1 DEF MisalignedSuperpage
    <3> QED
      BY <1>6, <3>2 DEF Aligned
  <2>3. Maps(m)'
    BY <1>1, <1>6, <2>2 DEF Maps, IsInvalid, IsLeaf
  <2>4. /\ \A k \in 1 .. m : page'[k] = vpn'[k]
        /\ \A k \in (m + 1) .. 3 : page'[k] = EntryAt(m)'.ppn[k]
    BY <1>1, <1>6, <2>1
  <2> QED
    BY <1>1, <2>1, <2>3, <2>4 DEF Walk, OnPath, TranslationIsExact, FaultsAreReal
<1> QED
  BY <1>7, <1>8 DEF Leaf

\* The walk stays on the path of the virtual page.
LEMMA WalkHolds == Spec => []Walk
<1>1. Init => Walk
  BY DEF Init, Walk, OnPath, TranslationIsExact, FaultsAreReal, TableAt, Reached
<1>2. TypeOK /\ Walk /\ [Next]_vars => Walk'
  <2> SUFFICES ASSUME TypeOK, Walk, [Next]_vars PROVE Walk'
    OBVIOUS
  <2>1. CASE NoTranslation
    <3>1. bare' /\ vpn' = vpn /\ page' = vpn
          /\ result' \in {"ok", "LoadAccessFault", "StoreAMOAccessFault", "InstructionAccessFault"}
      BY <2>1, BusAccessType DEF NoTranslation, access, TypeOK
    <3> QED
      BY <3>1 DEF Walk, OnPath, TranslationIsExact, FaultsAreReal
  <2>2. ASSUME NEW e \in Entries, ReadEntry(e) PROVE Walk'
    BY <2>2, ReadEntryKeeps
  <2>3. CASE TableFault
    BY <2>3 DEF TableFault, Walk, OnPath, TranslationIsExact, FaultsAreReal
  <2>4. CASE Leaf
    BY <2>4, LeafKeeps
  <2>5. CASE UNCHANGED vars
    <3>1. \A l : EntryAt(l)' = EntryAt(l)
      BY <2>5 DEF vars, EntryAt, EntryOf
    <3>2. \A l : TableAt(l)' = TableAt(l) /\ Reached(l)' = Reached(l) /\ Aligned(l)' = Aligned(l)
      BY <3>1 DEF TableAt, Reached, Aligned, IsInvalid, IsLeaf
    <3>3. \A l : Maps(l)' = Maps(l) /\ Unmaps(l)' = Unmaps(l)
      BY <2>5, <3>1, <3>2 DEF vars, Maps, Unmaps, IsInvalid, IsLeaf
    <3>4. TranslationIsExact' /\ FaultsAreReal'
      BY <2>5, <3>1, <3>3 DEF vars, Walk, TranslationIsExact, FaultsAreReal
    <3>5. OnPath'
      BY <2>5, <3>2 DEF vars, Walk, OnPath, Here, IsInvalid, IsLeaf
    <3> QED
      BY <3>4, <3>5 DEF Walk
  <2> QED
    BY <2>1, <2>2, <2>3, <2>4, <2>5 DEF Next
<1> QED
  BY <1>1, <1>2, TypeCorrect, PTL DEF Spec

\* An access that reaches memory does so at the page that the tables give,
\* however many values a field of a page number has and whatever the tables
\* hold (translate).
THEOREM TranslationExact == Spec => []TranslationIsExact
<1>1. Walk => TranslationIsExact
  BY DEF Walk
<1> QED
  BY <1>1, WalkHolds, PTL

\* A page fault is raised only for an entry on the path of the virtual page
\* that leaves it unmapped (translate).
THEOREM FaultsReal == Spec => []FaultsAreReal
<1>1. Walk => FaultsAreReal
  BY DEF Walk
<1> QED
  BY <1>1, WalkHolds, PTL
=============================================================================
