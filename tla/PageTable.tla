----------------------------- MODULE PageTable -----------------------------
(***************************************************************************)
(* The radix page tables of base/kor-mmu and the table walks of            *)
(* base/kor-arch/src/*/pagetable.rs, as functions from the memory before   *)
(* an operation to the memory after it.  A transaction (RCursor) holds the *)
(* locks of the table pages it uses, and one address space is used under   *)
(* its process's lock.  Table pages and user pages come from the same      *)
(* frames; a table page that becomes empty is given back before its entry  *)
(* is cleared, which are steps of their own.                               *)
(*                                                                         *)
(* Only 4 KiB leaves are mapped by korix; larger leaves and their splits,  *)
(* which only the boot tables have, are left out.                          *)
(***************************************************************************)
EXTENDS Naturals, FiniteSets, FiniteSetsExt, Functions

CONSTANTS MaxFrame,    \* the frames are 1..MaxFrame
          Levels,      \* LEVELS of the architecture's format
          Fanout,      \* PT_ENTRIES
          MaxPid,      \* the processes are 1..MaxPid
          Arch

ASSUME PageTableAssumption ==
  /\ MaxPid \in Nat \ {0}
  /\ MaxFrame \in Nat \ {0} /\ Levels \in Nat \ {0} /\ Fanout \in Nat \ {0}
  /\ Arch \in {"x86_64", "riscv64", "aarch64"}

Frame == 1..MaxFrame
Index == 0..(Fanout - 1)
LowHalf == 0..(Fanout \div 2 - 1)      \* the entries ..256; in a root, the user half
Page  == 0..((Fanout \div 2) * Fanout ^ (Levels - 1) - 1)     \* the user's virtual pages
Flag  == {"R", "W", "X"}              \* MappingFlags; U is always there

\* A page-table entry; frame 0 is an entry that is not present.
Entry  == [frame : 0..MaxFrame, leaf : BOOLEAN, flags : SUBSET Flag]
Absent == [frame |-> 0, leaf |-> FALSE, flags |-> {}]

\* hw_flags, flags_to_hw and ap_flags: what an entry asked for with some flags lets the user
\* do.  On x86_64 a present page is readable and executable, on aarch64 readable.
Granted(flags) ==
  flags \cup (CASE Arch = "x86_64" -> {"R", "X"} [] Arch = "aarch64" -> {"R"} [] Arch = "riscv64" -> {})
Leaf(f, flags) == [frame |-> f, leaf |-> TRUE, flags |-> Granted(flags)]
Table(f) == [frame |-> f, leaf |-> FALSE, flags |-> {}]

EmptyTable == [i \in Index |-> Absent]
NoStatus   == [i \in Index |-> 0]

\* The memory: free frames; the entries of every frame used as a table page; the
\* PageStatus of its PageDesc, a frame for Mapped and 0 for Invalid; and the process whose
\* bytes a frame holds, 0 for a frame of zeros.
Memory == [free : SUBSET Frame, table : [Frame -> [Index -> Entry]],
           status : [Frame -> [Index -> 0..MaxFrame]], data : [Frame -> 0..MaxPid]]

\* alloc_frame: some free frame, if there is one.
AllocFrame(m) == Min(m.free)
FreeFrames(m, fs) == [m EXCEPT !.free = @ \cup fs]

TableIndex(va, level) == (va \div Fanout ^ level) % Fanout

\* entry_is_leaf.  On riscv64 a leaf is known by its permissions: a page without any
\* looks like a table.
EntryIsLeaf(e) == e.leaf /\ (Arch = "riscv64" => e.flags # {})

\* zero_page clears the entries of a fresh table page, not its descriptor.
TakeTable(m) == [m EXCEPT !.free = @ \ {AllocFrame(m)}, !.table[AllocFrame(m)] = EmptyTable,
                          !.data[AllocFrame(m)] = 0]

RECURSIVE MapIn(_, _, _, _, _, _)
\* RCursor::map: down to the leaf table, adding table pages; the ones added stay when a
\* later one cannot be had.
MapIn(m, page, level, va, phys, flags) ==
  LET i == TableIndex(va, level)
      e == m.table[page][i]
  IN CASE level = 0 /\ e.frame # 0 /\ m.status[page][i] # 0 ->
            [result |-> "blocked", m |-> m]
       [] level = 0 /\ ~(e.frame # 0 /\ m.status[page][i] # 0) ->
            [result |-> "ok", m |-> [m EXCEPT !.table[page][i] = Leaf(phys, flags),
                                              !.status[page][i] = phys]]
       [] level > 0 /\ e.frame # 0 ->
            MapIn(m, e.frame, level - 1, va, phys, flags)
       [] level > 0 /\ e.frame = 0 /\ m.free = {} ->
            [result |-> "oom", m |-> m]
       [] level > 0 /\ e.frame = 0 /\ m.free # {} ->
            MapIn([TakeTable(m) EXCEPT !.table[page][i] = Table(AllocFrame(m))],
                  AllocFrame(m), level - 1, va, phys, flags)

Map(m, root, va, phys, flags) == MapIn(m, root, Levels - 1, va, phys, flags)

RECURSIVE QueryIn(_, _, _, _, _)
\* RCursor::query: the entry, or the deepest status met where there is none.
QueryIn(m, page, level, va, inherited) ==
  LET i == TableIndex(va, level)
      e == m.table[page][i]
      status == IF m.status[page][i] # 0 THEN m.status[page][i] ELSE inherited
  IN IF e.frame = 0 THEN status
     ELSE IF EntryIsLeaf(e) \/ level = 0 THEN e.frame
     ELSE QueryIn(m, e.frame, level - 1, va, status)

\* AddrSpace::translate; 0 is None.
Translate(m, root, va) == QueryIn(m, root, Levels - 1, va, 0)

RECURSIVE PageAt(_, _, _, _, _)
\* The table page at a level on the way down to va.
PageAt(m, page, level, va, at) ==
  IF level = at THEN page ELSE PageAt(m, m.table[page][TableIndex(va, level)].frame, level - 1, va, at)

RECURSIVE Bottom(_, _, _, _)
\* The level at which the way down to va ends.
Bottom(m, page, level, va) ==
  LET e == m.table[page][TableIndex(va, level)] IN
  IF level = 0 \/ e.frame = 0 THEN level ELSE Bottom(m, e.frame, level - 1, va)

\* The end of unmap_in for the table page at a level: when it is empty, and not the root, its
\* status and the frame are given back.  The level of the entry that still points to it, or 0.
Collapse(m, root, va, level) ==
  LET page == PageAt(m, root, Levels - 1, va, level) IN
  IF level < Levels - 1 /\ m.table[page] = EmptyTable
  THEN [m |-> FreeFrames([m EXCEPT !.status[page] = NoStatus], {page}), level |-> level + 1]
  ELSE [m |-> m, level |-> 0]

\* AddrSpace::unmap of a page, up to the entry of a table page that has just been freed.
UnmapLeaf(m, root, va) ==
  LET low  == Bottom(m, root, Levels - 1, va)
      page == PageAt(m, root, Levels - 1, va, low)
      i    == TableIndex(va, low)
      out  == IF low = 0 /\ m.table[page][i].frame # 0 /\ EntryIsLeaf(m.table[page][i])
              THEN [m EXCEPT !.table[page][i] = Absent, !.status[page][i] = 0] ELSE m
      c    == Collapse(out, root, va, low)
  IN IF Translate(m, root, va) = 0 THEN [result |-> "blocked", m |-> m, level |-> 0]
     ELSE [result |-> "ok", m |-> c.m, level |-> c.level]

\* The entry of a page at a level is cleared.
WithoutEntry(m, root, va, level) ==
  [m EXCEPT !.table[PageAt(m, root, Levels - 1, va, level)][TableIndex(va, level)] = Absent]

\* A slip: the entry stays.
ClearEntryLater(m, root, va, level) == [m |-> m, level |-> 0]

\* The entry of the page that was freed is cleared, which may leave its own page empty.
ClearEntry(m, root, va, level) == Collapse(WithoutEntry(m, root, va, level), root, va, level)

RECURSIVE TablePages(_, _, _)
\* The table pages below and including page.
TablePages(m, page, level) ==
  {page} \cup (IF level = 0 THEN {}
               ELSE UNION {TablePages(m, m.table[page][i].frame, level - 1) :
                             i \in {j \in Index : m.table[page][j].frame # 0}})

\* The virtual pages with an entry, and what the entry says.
HardwareIn(m, page, level, va) ==
  LET RECURSIVE walk(_, _)
      walk(p, l) == LET e == m.table[p][TableIndex(va, l)] IN
                    IF l = 0 \/ e.frame = 0 THEN e ELSE walk(e.frame, l - 1)
  IN walk(page, level)
Hardware(m, root, va) == HardwareIn(m, root, Levels - 1, va)

\* new_user: a root without user entries.
NewUser(m) == TakeTable(m)

RECURSIVE DestroyTable(_, _, _)
\* destroy_table: what the walk over the entries ..256 of a table page, at every level,
\* meets is freed, and the page itself; the descriptors are not touched.
DestroyTable(m, page, level) ==
  {page} \cup UNION {LET e == m.table[page][i] IN
                     IF level = 0 THEN IF EntryIsLeaf(e) THEN {e.frame} ELSE {}
                     ELSE DestroyTable(m, e.frame, level - 1) :
                       i \in {j \in LowHalf : m.table[page][j].frame # 0}}

\* destroy_address_space; the entries of a freed page do not matter, a new table page is
\* cleared first.
Destroy(m, root) ==
  LET gone == DestroyTable(m, root, Levels - 1)
  IN [FreeFrames(m, gone) EXCEPT !.table = [f \in Frame |-> IF f \in gone THEN EmptyTable ELSE @[f]]]
=============================================================================
