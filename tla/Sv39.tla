-------------------------------- MODULE Sv39 --------------------------------
(***************************************************************************)
(* One memory access of the hart: Cpu::read, Cpu::write or Cpu::fetch, the *)
(* page-table walk of Cpu::translate and the access to the bus             *)
(* (src/src/cpu.rs).                                                       *)
(*                                                                         *)
(* Fields are scaled down: a virtual page number is a sequence of three    *)
(* fields out of Index, a physical page number a sequence of three fields  *)
(* out of Index, both with the low field first; the offset within a page   *)
(* goes through unchanged and is left out.  Memory is what the walk finds: *)
(* `ptes' is chosen entry by entry as the walk reads it, and an entry that *)
(* is read again is the same.                                              *)
(***************************************************************************)
EXTENDS Integers, Sequences

CONSTANTS
  Index,        \* values of a field of a page number
  Root,         \* the page of the root table (Cpu::page_table)
  Mapped        \* physical pages that the bus maps

VARIABLES
  op,           \* "load", "store" or "fetch"
  vpn,          \* the virtual page
  bare,         \* TRUE if paging is off or the mode is Machine
  a, i, pte,    \* the table, the level and the entry of the walk
  ptes,         \* the entries that the walk has read
  result,       \* "walk", "leaf" (the walk is over), "ok" or an exception
  page          \* the physical page that the access reached

vars == <<op, vpn, bare, a, i, pte, ptes, result, page>>
access == <<op, vpn, bare>>

Pages == [1 .. 3 -> Index]

ASSUME IndexAssumption == 0 \in Index /\ Root \in Pages

\* The flags that the walk looks at, with a representative of each combination
\* it tells apart.  An entry with v = 0 or with w and without r faults.
Flags == {[v |-> 0, r |-> 0, w |-> 0, x |-> 0], [v |-> 1, r |-> 0, w |-> 1, x |-> 1],
          [v |-> 1, r |-> 0, w |-> 0, x |-> 0], [v |-> 1, r |-> 1, w |-> 0, x |-> 0],
          [v |-> 1, r |-> 1, w |-> 1, x |-> 0], [v |-> 1, r |-> 0, w |-> 0, x |-> 1]}
Entries == [flags : Flags, ppn : Pages]

Exceptions == {"InstructionPageFault", "LoadPageFault", "StoreAMOPageFault",
               "InstructionAccessFault", "LoadAccessFault", "StoreAMOAccessFault"}

NoEntry == [flags |-> [v |-> 0, r |-> 0, w |-> 0, x |-> 0], ppn |-> Root]

TypeOK ==
  /\ op \in {"load", "store", "fetch"} /\ vpn \in Pages /\ bare \in BOOLEAN
  /\ a \in Pages /\ i \in -1 .. 2 /\ pte \in Entries
  /\ DOMAIN ptes \subseteq Pages \X Index
  /\ \A p \in DOMAIN ptes : ptes[p] \in Entries
  /\ result \in {"walk", "leaf", "ok"} \cup Exceptions
  /\ result \in {"walk", "leaf"} => i >= 0
  /\ page \in Pages

----------------------------------------------------------------------------

\* The access type that read, write and fetch pass to translate.
AccessType == CASE op = "load" -> "Load" [] op = "store" -> "Load" [] op = "fetch" -> "Instruction"

PageFault ==
  CASE AccessType = "Instruction" -> "InstructionPageFault"
    [] AccessType = "Load"        -> "LoadPageFault"
    [] AccessType = "Store"       -> "StoreAMOPageFault"

IsLeaf(e) == e.flags.r = 1 \/ e.flags.x = 1
IsInvalid(e) == e.flags.v = 0 \/ (e.flags.r = 0 /\ e.flags.w = 1)

\* The access to the bus at the physical page p.
BusAccess(p) ==
  /\ page' = p
  /\ result' = IF p \in Mapped THEN "ok"
               ELSE CASE op = "load"  -> "LoadAccessFault"
                      [] op = "store" -> "StoreAMOAccessFault"
                      [] op = "fetch" -> "InstructionAccessFault"

NoTranslation ==
  /\ result = "walk" /\ bare
  /\ BusAccess(vpn)
  /\ UNCHANGED <<access, a, i, pte, ptes>>

\* The bus finds the entry e at a + vpn[i] * 8.
Find(e) ==
  LET at == <<a, vpn[i + 1]>>
  IN  /\ at \in DOMAIN ptes => e = ptes[at]
      /\ ptes' = [p \in DOMAIN ptes \cup {at} |-> IF p = at THEN e ELSE ptes[p]]

\* Step 4: the walk goes down to the table that the entry e points to.
Descend_SameLevel(e) ==
  i' = i /\ a' = e.ppn /\ result' = "walk"
Descend_NoBottom(e) ==
  i' = i - 1 /\ a' = e.ppn /\ result' = "walk"
Descend(e) ==
  /\ i' = i - 1 /\ a' = e.ppn
  /\ result' = IF i' < 0 THEN PageFault ELSE "walk"

\* Steps 2 to 4 of the walk.
ReadEntry(e) ==
  /\ result = "walk" /\ ~bare
  /\ a \in Mapped
  /\ Find(e)
  /\ pte' = e
  /\ \/ IsInvalid(e) /\ result' = PageFault /\ UNCHANGED <<a, i>>
     \/ ~IsInvalid(e) /\ IsLeaf(e) /\ result' = "leaf" /\ UNCHANGED <<a, i>>
     \/ ~IsInvalid(e) /\ ~IsLeaf(e) /\ Descend(e)
  /\ UNCHANGED <<access, page>>

\* The table is not in memory: the error of bus.read goes through `?'.
TableFault ==
  /\ result = "walk" /\ ~bare
  /\ a \notin Mapped
  /\ result' = "LoadAccessFault"
  /\ UNCHANGED <<access, a, i, pte, ptes, page>>

\* Off by one at either end of the alignment test.
MisalignedSuperpage_SkipLowest == \E j \in 1 .. i - 1 : pte.ppn[j + 1] # 0
MisalignedSuperpage_OneMore == \E j \in 0 .. i : pte.ppn[j + 1] # 0

MisalignedSuperpage == \E j \in 0 .. i - 1 : pte.ppn[j + 1] # 0

\* Steps 6 to 8: the physical page is made of the fields of the entry from i
\* up and of the virtual page below.
Leaf ==
  /\ result = "leaf"
  /\ \/ MisalignedSuperpage /\ result' = PageFault /\ UNCHANGED page
     \/ /\ ~MisalignedSuperpage
        /\ BusAccess([k \in 1 .. 3 |-> IF k > i THEN pte.ppn[k] ELSE vpn[k]])
  /\ UNCHANGED <<access, a, i, pte, ptes>>

Init ==
  /\ op \in {"load", "store", "fetch"} /\ vpn \in Pages /\ bare \in BOOLEAN
  /\ a = Root /\ i = 2 /\ pte = NoEntry
  /\ ptes = [p \in {} |-> NoEntry]
  /\ result = "walk" /\ page = vpn

Next ==
  \/ NoTranslation
  \/ \E e \in Entries : ReadEntry(e)
  \/ TableFault
  \/ Leaf

Spec == Init /\ [][Next]_vars /\ WF_vars(Next)

----------------------------------------------------------------------------
(* Properties.                                                             *)

\* The path of the virtual page through the tables, by level.  An entry that
\* was not read counts as invalid.
EntryOf(t, k) == IF <<t, k>> \in DOMAIN ptes THEN ptes[<<t, k>>] ELSE NoEntry
EntryAt(l) == LET e2 == EntryOf(Root, vpn[3])
                  e1 == EntryOf(e2.ppn, vpn[2])
              IN  CASE l = 2 -> e2 [] l = 1 -> e1 [] l = 0 -> EntryOf(e1.ppn, vpn[1])
TableAt(l) == IF l = 2 THEN Root ELSE EntryAt(l + 1).ppn

\* The entries above level l are pointers.
Reached(l) == \A m \in (l + 1) .. 2 : ~IsInvalid(EntryAt(m)) /\ ~IsLeaf(EntryAt(m))

\* The low fields of the entry at level l are zero, as a superpage's must be.
Aligned(l) == \A k \in 1 .. l : EntryAt(l).ppn[k] = 0

\* The virtual page lies in a page of level l.
Maps(l) == /\ Reached(l) /\ ~IsInvalid(EntryAt(l))
           /\ IsLeaf(EntryAt(l)) /\ Aligned(l)

\* The entry at level l, which was read, leaves the virtual page unmapped.
Unmaps(l) == /\ Reached(l) /\ <<TableAt(l), vpn[l + 1]>> \in DOMAIN ptes
             /\ \/ IsInvalid(EntryAt(l))
                \/ IsLeaf(EntryAt(l)) /\ ~Aligned(l)
                \/ ~IsLeaf(EntryAt(l)) /\ l = 0

\* An access that reaches memory does so at the page that the tables give: it
\* has the offset of the virtual page within the superpage and the number of
\* the leaf above, whichever tables the walk met and in whichever order,
\* tables that contain themselves included (translate).
TranslationIsExact ==
  result = "ok" =>
    IF bare THEN page = vpn
    ELSE \E l \in 0 .. 2 :
           /\ Maps(l)
           /\ \A k \in 1 .. l : page[k] = vpn[k]
           /\ \A k \in (l + 1) .. 3 : page[k] = EntryAt(l).ppn[k]

\* A page fault is raised only by an entry on the path of the virtual page that
\* leaves it unmapped: one that is invalid, a misaligned superpage or a pointer
\* at the lowest level (translate).
FaultsAreReal ==
  result \in {"InstructionPageFault", "LoadPageFault", "StoreAMOPageFault"} =>
    ~bare /\ \E l \in 0 .. 2 : Unmaps(l)

\* Every access ends: the walk is at most three levels deep.
AccessEnds == <>(result \notin {"walk", "leaf"})
=============================================================================
